--------------------------- MODULE ContractProofs ---------------------------
(***************************************************************************)
(* The package of contracts.  What it accepts it has looked at once, so an *)
(* invariant only says what was looked at, and the proofs are about the    *)
(* rules: that they say, of whatever passes them, what the properties ask. *)
(***************************************************************************)
EXTENDS MCTooling, FiniteSetTheorems, WellFoundedInduction, TLAPS

(***************************************************************************)
(* Receipts (ReceiptSemantics).                                            *)
(***************************************************************************)

ReceiptInv == judgement = "valid" => Judging!inspectReceiptSemantics(receipt)

LEMMA ReceiptSteps ==
  ReceiptInv /\ [MCNext]_<<toolingVars, validating, profiling, judging>> => ReceiptInv'
<1> SUFFICES ASSUME ReceiptInv, Judging!ReceiptNext \/ UNCHANGED judging PROVE ReceiptInv'
  BY DEF MCNext, Judge
<1>1. CASE UNCHANGED judging BY <1>1 DEF judging, ReceiptInv
<1>2. ASSUME NEW r \in Judging!OfAttempts \cup Judging!OfFacts \cup Judging!OfRest,
             Judging!validateReceipt(r)
      PROVE  ReceiptInv'
  BY <1>2 DEF ReceiptInv, Judging!validateReceipt
<1> QED BY <1>1, <1>2 DEF Judging!ReceiptNext

\* The facts that two places share.
LEMMA SharedFacts ==
  /\ Judging!WrapperFacts \cup Judging!SignatureFacts \subseteq Judging!LogicalFacts
  /\ Judging!VersionFacts \cap Judging!LogicalFacts
       = Judging!OperationFacts \cup Judging!AttemptFacts \cup Judging!IssuerFacts
           \cup Judging!VerifierFacts
  /\ Judging!ExternalFacts \subseteq Judging!LogicalFacts \cup Judging!VersionFacts
  /\ Judging!ExternalFacts \cap Judging!VerifierFacts = {}
BY DEF Judging!WrapperFacts, Judging!SignatureFacts, Judging!LogicalFacts, Judging!VersionFacts,
       Judging!OperationFacts, Judging!AttemptFacts, Judging!IssuerFacts, Judging!ExternalFacts,
       Judging!FenceFacts, Judging!TupleFacts, Judging!VerifierFacts

\* The logical receipt and the version tuple say the same of all but the verifier.
LEMMA VersionLikeLogical ==
  ASSUME NEW r, Judging!inspectReceiptSemantics(r),
         NEW f \in (Judging!VersionFacts \cap Judging!LogicalFacts) \ Judging!VerifierFacts
  PROVE  Judging!Says(r, "version", f) = Judging!Says(r, "logical", f)
<1> USE DEF Judging!inspectReceiptSemantics, Judging!Agree
<1>1. CASE f \in Judging!OperationFacts
  BY <1>1 DEF Judging!OperationFacts, Judging!VersionBinds, Judging!IntentBinds,
              Judging!SourcesBind, Judging!EvidenceFits
<1>2. CASE f \in Judging!AttemptFacts BY <1>2 DEF Judging!AttemptBinds
<1>3. CASE f \in Judging!IssuerFacts
  BY <1>3 DEF Judging!IssuerFacts, Judging!VersionBinds, Judging!KeyFits
<1> QED BY <1>1, <1>2, <1>3, SharedFacts

\* So do an external tuple and whichever of the two the rules compare it with.
LEMMA ExternalLikeBoth ==
  ASSUME NEW r, Judging!inspectReceiptSemantics(r),
         NEW t \in Judging!PlacesOf(r) \cap Judging!External, NEW f \in Judging!ExternalFacts
  PROVE  /\ f \in Judging!LogicalFacts => Judging!Says(r, t, f) = Judging!Says(r, "logical", f)
         /\ f \in Judging!VersionFacts => Judging!Says(r, t, f) = Judging!Says(r, "version", f)
<1>1. f \notin Judging!VerifierFacts BY SharedFacts
<1>2. Judging!ExternalBindsReceipt(r, t) /\ Judging!ExternalBindsVersions(r, t)
  BY DEF Judging!inspectReceiptSemantics
<1> USE <1>2 DEF Judging!Agree, Judging!ExternalBindsReceipt, Judging!ExternalBindsVersions
<1>3. CASE f \in Judging!OperationFacts
  <2>1. Judging!Says(r, t, f) = Judging!Says(r, "logical", f)
    BY <1>3 DEF Judging!OperationFacts
  <2>2. f \in Judging!VersionFacts \cap Judging!LogicalFacts
    BY <1>3, SharedFacts
  <2> QED BY <1>1, <2>1, <2>2, VersionLikeLogical
<1>4. CASE f \in Judging!FenceFacts
  <2>1. Judging!Says(r, t, f) = Judging!Says(r, "version", f) BY <1>4
  <2>2. f \in Judging!VersionFacts BY <1>4 DEF Judging!VersionFacts
  <2> QED BY <1>1, <2>1, <2>2, VersionLikeLogical
<1>5. CASE f \in Judging!TupleFacts
  <2>1. Judging!Says(r, t, f) = Judging!Says(r, "version", f) BY <1>5 DEF Judging!TupleFacts
  <2>2. f \in Judging!VersionFacts BY <1>5 DEF Judging!VersionFacts
  <2> QED BY <1>1, <2>1, <2>2, VersionLikeLogical
<1>6. CASE f \in {"operation", "commitment", "capsule", "origin", "principal"}
  <2>1. Judging!Says(r, t, f) = Judging!Says(r, "logical", f) BY <1>6
  <2>2. f \in Judging!LogicalFacts BY <1>6 DEF Judging!LogicalFacts
  <2> QED BY <1>1, <2>1, <2>2, VersionLikeLogical
<1>7. CASE f = "lifecycle"
  <2>1. Judging!Says(r, t, f) = Judging!Says(r, "version", f) BY <1>7
  <2>2. f \in Judging!VersionFacts \cap Judging!LogicalFacts
    BY <1>7, SharedFacts DEF Judging!IssuerFacts
  <2> QED BY <1>1, <2>1, <2>2, VersionLikeLogical
<1> QED BY <1>3, <1>4, <1>5, <1>6, <1>7 DEF Judging!ExternalFacts

\* What any two places of an accepted receipt both write is the same in both, of all but
\* the verifier.
LEMMA OneStory ==
  ASSUME NEW r, Judging!inspectReceiptSemantics(r),
         NEW p \in Judging!PlacesOf(r), NEW q \in Judging!PlacesOf(r),
         NEW f \in (Judging!WrittenIn(p) \cap Judging!WrittenIn(q)) \ Judging!VerifierFacts
  PROVE  Judging!Says(r, p, f) = Judging!Says(r, q, f)
<1>1. ASSUME NEW s \in {p, q}, f \in Judging!LogicalFacts
      PROVE  Judging!Says(r, s, f) = Judging!Says(r, "logical", f)
  <2>1. CASE s \in {"wrapper", "signature", "logical"}
    BY <2>1 DEF Judging!WrittenIn, Judging!inspectReceiptSemantics, Judging!WrapperBinds,
                Judging!Agree, Judging!External
  <2>2. CASE s = "version" BY <1>1, <2>2, VersionLikeLogical DEF Judging!WrittenIn, Judging!External
  <2>3. CASE s \in Judging!External
    BY <1>1, <2>3, ExternalLikeBoth DEF Judging!WrittenIn, Judging!External
  <2> QED BY <2>1, <2>2, <2>3 DEF Judging!PlacesOf, Judging!Place
<1>2. ASSUME NEW s \in {p, q}, f \notin Judging!LogicalFacts
      PROVE  Judging!Says(r, s, f) = Judging!Says(r, "version", f)
  <2>1. s \notin {"wrapper", "signature", "logical"}
    BY <1>2, SharedFacts DEF Judging!WrittenIn, Judging!External
  <2>2. CASE s = "version" BY <2>2
  <2>3. CASE s \in Judging!External
    BY <1>2, <2>3, SharedFacts, ExternalLikeBoth DEF Judging!WrittenIn, Judging!External
  <2> QED BY <2>1, <2>2, <2>3 DEF Judging!PlacesOf, Judging!Place
<1> QED BY <1>1, <1>2

\* An accepted receipt that touched anything outside names both external tuples.
LEMMA NothingHidden ==
  ASSUME NEW r, Judging!inspectReceiptSemantics(r),
         \/ r.attempt.lease \/ r.attempt.effect
         \/ "dispatch_attempt" \in r.evidence \/ r.has["dispatched"]
  PROVE  /\ r.has["authorized"] /\ r.has["dispatched"]
         /\ r.row.authorization = "required" /\ r.row.dispatch # "forbidden"
<1>1. r.row.authorization \in {"required", "typed_none"}
  BY DEF Judging!inspectReceiptSemantics, Judging!HasOneRow, Judging!AllowedRows, Judging!Row
<1>2. r.attempt.lease \/ r.attempt.effect => r.stage \in {3, 4}
  BY DEF Judging!inspectReceiptSemantics, Judging!StageFits
<1> QED BY <1>1, <1>2
    DEF Judging!inspectReceiptSemantics, Judging!DispatchFits, Judging!ExternalAttempt

\* A receipt found valid tells one story of all but its verifier, with nothing it did
\* outside left out.
THEOREM ReceiptsWhole == MCSpec => []ReceiptsAreWhole
<1>1. MCInit => ReceiptInv BY DEF MCInit, Judging!ReceiptInit, ReceiptInv
<1>2. ReceiptInv => ReceiptsAreWhole
  BY OneStory, NothingHidden
  DEF ReceiptInv, ReceiptsAreWhole, Judging!TellsOneStory, Judging!NoHiddenAttempt
<1> QED BY <1>1, <1>2, ReceiptSteps, PTL DEF MCSpec

\* The exception is real: a receipt about which all is well but that its version tuple
\* names another verifier policy, or another projection rule, passes every rule.
LEMMA VerifierUncompared ==
  ASSUME NEW f \in Judging!VerifierFacts
  PROVE  LET copy == [p \in Judging!Place |-> IF p = "version" THEN 2 ELSE 1]
             r == [Judging!Sound EXCEPT !.fact = f, !.copy = copy]
         IN /\ f \in Judging!WrittenIn("logical") \cap Judging!WrittenIn("version")
            /\ Judging!Says(r, "logical", f) # Judging!Says(r, "version", f)
            /\ Judging!inspectReceiptSemantics(r)
<1> DEFINE copy == [p \in Judging!Place |-> IF p = "version" THEN 2 ELSE 1]
           r == [Judging!Sound EXCEPT !.fact = f, !.copy = copy]
<1>1. /\ f \in Judging!WrittenIn("logical") \cap Judging!WrittenIn("version")
      /\ f \notin Judging!ExternalFacts
  BY SharedFacts
  DEF Judging!LogicalFacts, Judging!VersionFacts, Judging!WrittenIn, Judging!External
<1>2. Judging!Says(r, "logical", f) # Judging!Says(r, "version", f)
  BY DEF Judging!Sound, Judging!Says, Judging!Place
<1>3. ASSUME NEW g, g # f, NEW p, NEW q PROVE Judging!Says(r, p, g) = Judging!Says(r, q, g)
  BY <1>3 DEF Judging!Sound, Judging!Says
<1>4. \A facts, p, q : f \notin facts => Judging!Agree(r, p, q, facts)
  BY <1>3 DEF Judging!Agree
<1>5. /\ r.row = Judging!Row("completed", "ALLOW", "required", "required") /\ r.stage = 3
      /\ r.attempt = Judging!AttemptAt(3) /\ r.mode = "required" /\ r.evidence = {"runtime"}
      /\ r.has["authorized"] /\ r.has["dispatched"]
      /\ r.sequence = 1 /\ r.predecessor = {} /\ r.origin = "delegated" /\ r.principal = "named"
      /\ r.tool = r.intent /\ r.policies = 1 /\ r.configurations = 1 /\ r.provider
      /\ r.keyEnded = {} /\ r.activated = 0 /\ r.keyFrom = 0 /\ r.issued = 0 /\ r.keyUntil = 0
      /\ r.from = 0 /\ r.until = 0 /\ r.body = "none" /\ r.canonical /\ r.shared = {}
  BY DEF Judging!Sound, Judging!External
<1> HIDE DEF r
<1>6. Judging!inspectReceiptSemantics(r)
  <2>1. Judging!HasOneRow(r) BY <1>5 DEF Judging!HasOneRow, Judging!AllowedRows
  <2>2. Judging!WrapperBinds(r) /\ Judging!AttemptBinds(r) /\ Judging!VersionBinds(r)
        /\ Judging!IntentBinds(r) /\ Judging!SourcesBind(r)
    BY <1>4 DEF Judging!VerifierFacts, Judging!WrapperBinds, Judging!WrapperFacts,
       Judging!SignatureFacts, Judging!AttemptBinds, Judging!AttemptFacts,
       Judging!VersionBinds, Judging!IntentBinds, Judging!SourcesBind
  <2>3. Judging!ChainPosition(r) /\ Judging!OriginNamesPrincipal(r)
    BY <1>5 DEF Judging!ChainPosition, Judging!OriginNamesPrincipal
  <2>4. r.attempt.id /\ r.attempt.ordinal = 1 /\ r.attempt.claim /\ r.attempt.lease
        /\ r.attempt.effect = FALSE /\ r.attempt.idempotency
    <3>1. Judging!AttemptAt(3) = [id |-> TRUE, ordinal |-> 1, claim |-> TRUE, lease |-> TRUE,
                                  effect |-> FALSE, idempotency |-> TRUE]
      <4>1. (3 # 0) = TRUE /\ (IF 3 < 2 THEN 0 ELSE 1) = 1 /\ (3 >= 2) = TRUE
            /\ (3 >= 3) = TRUE /\ (3 = 4) = FALSE
        OBVIOUS
      <4> QED BY <4>1, Zenon DEF Judging!AttemptAt
    <3> QED BY <1>5, <3>1
  <2>5. Judging!NoAttemptNoOrdinal(r) /\ Judging!IdempotencyFits(r)
    BY <1>5, <2>4 DEF Judging!NoAttemptNoOrdinal, Judging!IdempotencyFits
  <2>6. Judging!StageFits(r)
    <3>1. (r.stage # 0) = TRUE /\ (r.stage \in {0, 1}) = FALSE /\ (r.stage \in {2, 3, 4}) = TRUE
          /\ (r.stage \in {3, 4}) = TRUE /\ (r.stage = 4) = FALSE
      BY <1>5
    <3>2. r.attempt.id = TRUE /\ (r.attempt.ordinal = 0) = FALSE /\ r.attempt.claim = TRUE
          /\ r.attempt.lease = TRUE /\ r.attempt.effect = FALSE
      BY <2>4
    <3> QED BY <3>1, <3>2 DEF Judging!StageFits
  <2>7. Judging!EvidenceFits(r) BY <1>4, <1>5 DEF Judging!VerifierFacts, Judging!EvidenceFits
  <2>8. Judging!KeyFits(r)
    <3>1. f \notin {"key generation", "key view"} BY DEF Judging!VerifierFacts
    <3>2. Judging!Agree(r, "logical", "version", {"key generation", "key view"}) BY <1>4, <3>1
    <3>3. r.activated <= r.issued /\ r.keyFrom <= r.issued /\ r.issued <= r.keyUntil
      <4>1. r.activated = 0 /\ r.keyFrom = 0 /\ r.issued = 0 /\ r.keyUntil = 0 BY <1>5
      <4> QED BY <4>1
    <3>4. r.keyEnded = {} BY <1>5
    <3> QED BY <3>2, <3>3, <3>4 DEF Judging!KeyFits
  <2>9. Judging!ValuesFit(r) BY <1>5 DEF Judging!ValuesFit
  <2>10. Judging!DispatchFits(r)
    BY <1>1, <1>4, <1>5 DEF Judging!DispatchFits, Judging!WrittenIn, Judging!External,
       Judging!Row
  <2>11. ASSUME NEW t PROVE Judging!ExternalBindsReceipt(r, t)
    BY <1>4 DEF Judging!VerifierFacts, Judging!ExternalBindsReceipt, Judging!FenceFacts,
       Judging!AttemptFacts
  <2>12. ASSUME NEW t PROVE Judging!ExternalBindsVersions(r, t)
    <3>1. /\ Judging!Agree(r, t, "version", {"request versions", "components"})
          /\ Judging!Agree(r, t, "version", {"policy", "configuration", "decision"})
          /\ Judging!Agree(r, t, "version", {"provider", "credential", "lifecycle", "stage"})
      BY <1>4 DEF Judging!VerifierFacts
    <3>2. r.policies = 1 /\ r.configurations <= 1 /\ r.provider BY <1>5
    <3> QED BY <3>1, <3>2 DEF Judging!ExternalBindsVersions
  <2>13. Judging!RolesSeparate(r) BY <1>5 DEF Judging!RolesSeparate
  <2> QED
    BY <2>1, <2>2, <2>3, <2>4, <2>5, <2>6, <2>7, <2>8, <2>9, <2>10, <2>11, <2>12, <2>13
    DEF Judging!inspectReceiptSemantics
<1> QED BY <1>1, <1>2, <1>6 DEF r

(***************************************************************************)
(* The semantic profile (ContractProfile).                                 *)
(***************************************************************************)

\* The table is one of its family, and what was accepted passed the check it was given to.
ProfileInv ==
  /\ family \in Profiling!Dividing \cup Profiling!Giving \cup {"receipt", "registry"}
  /\ family = "registry" \/ table \in Profiling!Tables(family)
  /\ accepted = "yes" => Profiling!crossValidateExecutableSemantics(family, table)
  /\ coherent = "yes" =>
        /\ accepted = "yes" /\ message \in Profiling!Messages(family)
        /\ Profiling!Coherent(family, table, message)

LEMMA ProfileSteps ==
  ProfileInv /\ [MCNext]_<<toolingVars, validating, profiling, judging>> => ProfileInv'
<1> SUFFICES ASSUME ProfileInv, Profiling!ProfileNext \/ UNCHANGED profiling PROVE ProfileInv'
  BY DEF MCNext, Profile
<1>1. CASE UNCHANGED profiling BY <1>1 DEF profiling, ProfileInv
<1>2. CASE Profiling!initializeSemanticProfile
  BY <1>2 DEF ProfileInv, Profiling!initializeSemanticProfile
<1>3. ASSUME NEW m \in Profiling!Messages(family), Profiling!Judge(m) PROVE ProfileInv'
  BY <1>3 DEF ProfileInv, Profiling!Judge
<1> QED BY <1>1, <1>2, <1>3 DEF Profiling!ProfileNext

\* What an accepted table says of an outcome, of a verdict and of a code.
LEMMA GivingTable ==
  ASSUME NEW f \in Profiling!Giving, NEW t \in Profiling!Tables(f),
         Profiling!crossValidateExecutableSemantics(f, t)
  PROVE  /\ t \in [Profiling!Key -> Profiling!Row]
         /\ t["succeeded"].what = "required" /\ t["failed"].what = "forbidden"
         /\ {t[k].code : k \in Profiling!Key} = {1, 2}
<1>1. f \notin Profiling!Dividing /\ Profiling!CodesOf(f) = {1, 2}
  BY DEF Profiling!Giving, Profiling!Dividing, Profiling!CodesOf
<1>2. DOMAIN t = Profiling!Key
  BY DEF Profiling!crossValidateExecutableSemantics, Profiling!validateSemanticProfile
<1>3. Profiling!Tables(f) = UNION {[K -> Profiling!Row] : K \in {Profiling!Key, {"succeeded"}}}
  BY DEF Profiling!Tables, Profiling!Dividing, Profiling!Giving
<1>4. t \in [Profiling!Key -> Profiling!Row] BY <1>2, <1>3
<1>5. t["succeeded"].what = "required" /\ t["failed"].what = "forbidden"
  BY DEF Profiling!crossValidateExecutableSemantics, Profiling!validateSemanticProfile
<1>6. {t[k].code : k \in Profiling!Key} = {1, 2}
  BY <1>1 DEF Profiling!crossValidateExecutableSemantics
<1> QED BY <1>4, <1>5, <1>6

LEMMA DividingTable ==
  ASSUME NEW f \in Profiling!Dividing, NEW t \in Profiling!Tables(f),
         Profiling!crossValidateExecutableSemantics(f, t)
  PROVE  /\ t \in [Profiling!Verdict -> Profiling!ShortList(Profiling!AnyCode)]
         /\ \A v \in Profiling!Verdict : Profiling!CanonicalStringSet(t[v])
         /\ Profiling!ToSet(t["allow"]) \cap Profiling!ToSet(t["deny"]) = {}
         /\ Profiling!ToSet(t["allow"]) \cup Profiling!ToSet(t["deny"]) = Code
<1>1. Profiling!Tables(f) = [Profiling!Verdict -> Profiling!ShortList(Profiling!AnyCode)]
  BY DEF Profiling!Tables, Profiling!Dividing, Profiling!Giving
<1> QED
  BY <1>1
  DEF Profiling!CodesOf, Profiling!crossValidateExecutableSemantics,
      Profiling!validateSemanticProfile

\* A message of a family that gives each outcome one row is the one its row says.
LEMMA GivenMessage ==
  ASSUME NEW f \in {"api", "result"}, NEW t \in Profiling!Tables(f),
         Profiling!crossValidateExecutableSemantics(f, t),
         NEW m \in Profiling!Messages(f)
  PROVE  /\ Profiling!Coherent(f, t, m) <=>
              /\ m.code = t[m.key].code /\ m.attached = (t[m.key].what = "required")
              /\ f = "result" => m.input
         /\ m.key \in Profiling!Key
<1> USE DEF Profiling!Messages, Profiling!Coherent, Profiling!inspectContractSemantics,
            Profiling!Fits
<1>1. CASE f = "api" BY <1>1 DEF Profiling!Response
<1>2. CASE f = "result" BY <1>2 DEF Profiling!Result
<1> QED BY <1>1, <1>2

LEMMA OneGivenMessage ==
  ASSUME NEW f \in {"api", "result"}, NEW t \in Profiling!Tables(f),
         Profiling!crossValidateExecutableSemantics(f, t),
         NEW m \in Profiling!Messages(f), NEW n \in Profiling!Messages(f),
         Profiling!Coherent(f, t, m), Profiling!Coherent(f, t, n), m.key = n.key
  PROVE  m = n
<1>1. m.code = n.code /\ m.attached = n.attached /\ (f = "result" => m.input /\ n.input)
  BY GivenMessage
<1>2. CASE f = "api" BY <1>1, <1>2 DEF Profiling!Messages, Profiling!Response
<1>3. CASE f = "result"
  <2>1. m \in Profiling!Result /\ n \in Profiling!Result BY <1>3 DEF Profiling!Messages
  <2>2. m.input = n.input BY <1>1, <1>3, <2>1 DEF Profiling!Result
  <2> QED BY <1>1, <2>1, <2>2 DEF Profiling!Result
<1> QED BY <1>2, <1>3

\* Every outcome has a coherent message, and every code is one of them.
LEMMA EveryOutcome ==
  ASSUME NEW f \in {"api", "result"}, NEW t \in Profiling!Tables(f),
         Profiling!crossValidateExecutableSemantics(f, t), NEW k \in Profiling!Key
  PROVE  \E m \in Profiling!Messages(f) :
            Profiling!Coherent(f, t, m) /\ m.key = k /\ m.code = t[k].code
<1>1. t[k].code \in {1, 2} /\ Profiling!CodesOf(f) = {1, 2}
  <2>1. f \in Profiling!Giving /\ f \notin Profiling!Dividing
    BY DEF Profiling!Giving, Profiling!Dividing
  <2>2. {t[j].code : j \in Profiling!Key} = {1, 2} BY <2>1, GivingTable
  <2> QED BY <2>1, <2>2 DEF Profiling!CodesOf
<1>2. CASE f = "api"
  <2> DEFINE m == [key |-> k, code |-> t[k].code, attached |-> t[k].what = "required"]
  <2>1. m \in Profiling!Messages(f) BY <1>1, <1>2 DEF Profiling!Messages, Profiling!Response
  <2>2. m.key = k /\ m.code = t[k].code /\ m.attached = (t[k].what = "required") OBVIOUS
  <2> HIDE DEF m
  <2>3. Profiling!Coherent(f, t, m) BY <1>2, <2>1, <2>2, GivenMessage
  <2> QED BY <2>1, <2>2, <2>3
<1>3. CASE f = "result"
  <2> DEFINE m == [key |-> k, code |-> t[k].code, input |-> TRUE,
                   attached |-> t[k].what = "required"]
  <2>1. m \in Profiling!Messages(f) BY <1>1, <1>3 DEF Profiling!Messages, Profiling!Result
  <2>2. m.key = k /\ m.code = t[k].code /\ m.attached = (t[k].what = "required") /\ m.input
    OBVIOUS
  <2> HIDE DEF m
  <2>3. Profiling!Coherent(f, t, m) BY <1>3, <2>1, <2>2, GivenMessage
  <2> QED BY <2>1, <2>2, <2>3
<1> QED BY <1>2, <1>3

\* A code in a table, and a list of codes that is not empty.
LEMMA SomeCode ==
  ASSUME NEW S, NEW s \in Profiling!ShortList(S)
  PROVE  /\ Profiling!ToSet(s) \subseteq S
         /\ s # <<>> => Profiling!ToSet(s) # {}
BY DEF Profiling!ShortList, Profiling!ToSet

\* The codes of a decision, and the code of the variant denied, belong to one verdict.
LEMMA OneVerdict ==
  ASSUME NEW f \in Profiling!Dividing, NEW t \in Profiling!Tables(f),
         Profiling!crossValidateExecutableSemantics(f, t),
         NEW v \in Profiling!Verdict, NEW w \in Profiling!Verdict,
         NEW c \in Profiling!ToSet(t[v]), c \in Profiling!ToSet(t[w])
  PROVE  v = w
BY DividingTable DEF Profiling!Verdict

LEMMA OneDecision ==
  ASSUME NEW t \in Profiling!Tables("policy"),
         Profiling!crossValidateExecutableSemantics("policy", t),
         NEW m \in Profiling!Messages("policy"), NEW n \in Profiling!Messages("policy"),
         Profiling!Coherent("policy", t, m), Profiling!Coherent("policy", t, n),
         m.codes = n.codes
  PROVE  m.decision = n.decision
<1>1. m \in Profiling!Decision /\ n \in Profiling!Decision BY DEF Profiling!Messages
<1>2. /\ m.codes # <<>> /\ Profiling!ToSet(m.codes) \subseteq Profiling!ToSet(t[m.decision])
      /\ Profiling!ToSet(m.codes) \subseteq Profiling!ToSet(t[n.decision])
  BY DEF Profiling!Coherent, Profiling!inspectContractSemantics
<1>3. m.codes \in Profiling!ShortList(Code) /\ {m.decision, n.decision} \subseteq Profiling!Verdict
  BY <1>1 DEF Profiling!Decision
<1>4. PICK c : c \in Profiling!ToSet(m.codes) BY <1>2, <1>3, SomeCode
<1> QED BY <1>2, <1>3, <1>4, OneVerdict DEF Profiling!Dividing

LEMMA OneDenial ==
  ASSUME NEW t \in Profiling!Tables("denied"),
         Profiling!crossValidateExecutableSemantics("denied", t),
         NEW m \in Profiling!Messages("denied"), NEW n \in Profiling!Messages("denied"),
         Profiling!Coherent("denied", t, m), Profiling!Coherent("denied", t, n),
         m.code = n.code
  PROVE  m.decision = n.decision
<1>1. {m.decision, n.decision} \subseteq Profiling!Verdict
  BY DEF Profiling!Messages, Profiling!Denial
<1>2. m.code \in Profiling!ToSet(t[m.decision]) /\ m.code \in Profiling!ToSet(t[n.decision])
  BY DEF Profiling!Coherent, Profiling!inspectContractSemantics
<1> QED BY <1>1, <1>2, OneVerdict DEF Profiling!Dividing

\* The operator of the instances is the one of the library's theorems.
LEMMA SameCardinality ==
  \A S : /\ Profiling!Cardinality(S) = Cardinality(S)
         /\ Validating!Cardinality(S) = Cardinality(S)
BY Zenon DEF Cardinality, Profiling!Cardinality, Validating!Cardinality

\* A receipt of a key is dispatched, or is not, as the one row with its key says.
LEMMA OneReceipt ==
  ASSUME NEW t, NEW m \in Profiling!Messages("receipt"), NEW n \in Profiling!Messages("receipt"),
         Profiling!Coherent("receipt", t, m), Profiling!Coherent("receipt", t, n), m.key = n.key
  PROVE  m = n
<1> DEFINE rows == {i \in DOMAIN t : t[i].key = m.key}
<1>1. m \in Profiling!Receipt /\ n \in Profiling!Receipt BY DEF Profiling!Messages
<1>2. Profiling!ReceiptFits(t, m) /\ Profiling!ReceiptFits(t, n) BY DEF Profiling!Coherent
<1>3. Profiling!Cardinality(rows) = 1 BY <1>2 DEF Profiling!ReceiptFits
<1>4. \A i \in rows : /\ m.dispatched = (t[i].dispatch = "required")
                      /\ n.dispatched = (t[i].dispatch = "required")
  BY <1>2 DEF Profiling!ReceiptFits
<1> HIDE DEF rows
<1>5. rows # {} BY <1>3, FS_EmptySet, SameCardinality
<1>6. m.dispatched = n.dispatched BY <1>4, <1>5
<1> QED BY <1>1, <1>6 DEF Profiling!Receipt

\* A registry lists the two schemas, in some order.
LEMMA OneRegistry ==
  ASSUME NEW t, NEW m \in Profiling!Messages("registry"), Profiling!Coherent("registry", t, m)
  PROVE  /\ Len(m.schemas) = 2
         /\ Profiling!ToSet(m.schemas) = {[family |-> 1, id |-> 1], [family |-> 2, id |-> 2]}
<1> DEFINE s == m.schemas
           Entry == [family : {1, 2}, id : {1, 2}]
           Families == {s[i].family : i \in DOMAIN s}
<1>1. PICK k \in 0 .. 3 : s \in [1 .. k -> Entry]
  BY DEF Profiling!Messages, Profiling!Registry, Profiling!SeqOf
<1>2. /\ \A i \in 1 .. k : s[i].family = s[i].id
      /\ \A i, j \in 1 .. k : i < j => s[i].family # s[j].family
      /\ Cardinality(Families) = 2
  <2>1. Profiling!inspectRegistrySemantics(m) BY DEF Profiling!Coherent
  <2>2. Profiling!Cardinality(Families) = 2 BY <2>1, Zenon DEF Profiling!inspectRegistrySemantics
  <2>3. /\ \A i \in DOMAIN s : s[i].family = s[i].id
        /\ \A i, j \in DOMAIN s : i < j => s[i].family # s[j].family
    BY <2>1, Zenon DEF Profiling!inspectRegistrySemantics
  <2>4. DOMAIN s = 1 .. k BY <1>1
  <2> HIDE DEF s, Families
  <2> QED BY <2>2, <2>3, <2>4, SameCardinality
<1>3. Families = {1, 2}
  <2>1. Families \subseteq {1, 2} BY <1>1
  <2> HIDE DEF Families
  <2>2. Families # {} BY <1>2, FS_EmptySet
  <2>3. Cardinality({1}) = 1 /\ Cardinality({2}) = 1 BY FS_Singleton, Zenon
  <2>4. Families # {1} /\ Families # {2} BY <1>2, <2>3
  <2> QED BY <2>1, <2>2, <2>4
<1>4. \A i \in 1 .. k : s[i] = [family |-> s[i].family, id |-> s[i].family]
  BY <1>1, <1>2
<1>5. PICK i, j \in 1 .. k : s[i].family = 1 /\ s[j].family = 2
  <2>1. 1 \in Families /\ 2 \in Families /\ DOMAIN s = 1 .. k BY <1>1, <1>3
  <2>2. PICK i \in DOMAIN s : s[i].family = 1 BY <2>1
  <2>3. PICK j \in DOMAIN s : s[j].family = 2 BY <2>1
  <2> QED BY <2>1, <2>2, <2>3
<1>6. k = 2
  <2> HIDE DEF s, Families
  <2>1. \A l \in 1 .. k : l = i \/ l = j
    <3> SUFFICES ASSUME NEW l \in 1 .. k PROVE l = i \/ l = j OBVIOUS
    <3>1. s[l].family \in {1, 2} BY <1>1
    <3> QED BY <1>2, <1>5, <3>1
  <2>2. i # j BY <1>5
  <2> QED BY <1>1, <2>1, <2>2
<1>7. Len(s) = k BY <1>1
<1>8. Profiling!ToSet(s) = {s[i], s[j]}
  BY <1>1, <1>5, <1>6 DEF Profiling!ToSet
<1> QED BY <1>4, <1>5, <1>6, <1>7, <1>8

\* A list of codes in order names none of them twice.
LEMMA OrderedIsInjective ==
  ASSUME NEW S \in SUBSET Nat, NEW s \in Profiling!ShortList(S), Profiling!CanonicalStringSet(s)
  PROVE  Profiling!IsInjective(s)
<1>1. CASE s \in S \X S
  <2>1. DOMAIN s = {1, 2} BY <1>1
  <2>2. s[1] \in Nat BY <1>1
  <2>3. s[2] \in Nat BY <1>1
  <2>4. s[1] < s[2] BY <2>1 DEF Profiling!CanonicalStringSet
  <2>5. s[1] # s[2] BY <2>2, <2>3, <2>4
  <2> QED BY <2>1, <2>5 DEF Profiling!IsInjective
<1> QED BY <1>1 DEF Profiling!ShortList, Profiling!IsInjective

\* No code of the schema is one that no message can use.
LEMMA EveryPolicyCode ==
  ASSUME NEW t \in Profiling!Tables("policy"),
         Profiling!crossValidateExecutableSemantics("policy", t), NEW c \in Code
  PROVE  \E m \in Profiling!Messages("policy") :
            Profiling!Coherent("policy", t, m) /\ c \in Profiling!ToSet(m.codes)
<1>1. PICK v \in Profiling!Verdict : c \in Profiling!ToSet(t[v])
  BY DividingTable DEF Profiling!Dividing, Profiling!Verdict
<1>2. CASE v = "allow"
  <2> DEFINE m == [decision |-> "allow", codes |-> t["allow"]]
  <2>1. /\ t["allow"] \in Profiling!ShortList(Profiling!AnyCode)
        /\ Profiling!CanonicalStringSet(t["allow"])
        /\ Profiling!ToSet(t["allow"]) \subseteq Code
    BY DividingTable DEF Profiling!Dividing, Profiling!Verdict
  <2>2. t["allow"] \in Profiling!ShortList(Code) BY <2>1 DEF Profiling!ShortList, Profiling!ToSet
  <2>3. Profiling!IsInjective(t["allow"])
    BY <2>1, <2>2, OrderedIsInjective, ContractsAssumption DEF Profiling!ProfileAssumption
  <2>4. m \in Profiling!Messages("policy")
    BY <2>2, <2>3 DEF Profiling!Messages, Profiling!Decision, Profiling!Verdict
  <2>5. Profiling!Coherent("policy", t, m)
    BY <2>1 DEF Profiling!Coherent, Profiling!inspectContractSemantics, Profiling!CanonicalStringSet
  <2> QED BY <1>1, <1>2, <2>4, <2>5
<1>3. CASE v = "deny"
  <2> DEFINE m == [decision |-> "deny", codes |-> <<c>>]
  <2>1. m \in Profiling!Messages("policy")
    BY DEF Profiling!Messages, Profiling!Decision, Profiling!Verdict, Profiling!ShortList,
           Profiling!IsInjective
  <2>2. Profiling!Coherent("policy", t, m)
    BY <1>1, <1>3 DEF Profiling!Coherent, Profiling!inspectContractSemantics, Profiling!ToSet
  <2>3. c \in Profiling!ToSet(<<c>>) BY DEF Profiling!ToSet
  <2> QED BY <2>1, <2>2, <2>3
<1> QED BY <1>1, <1>2, <1>3 DEF Profiling!Verdict

LEMMA EveryDenialCode ==
  ASSUME NEW t \in Profiling!Tables("denied"),
         Profiling!crossValidateExecutableSemantics("denied", t), NEW c \in Code
  PROVE  \E m \in Profiling!Messages("denied") :
            Profiling!Coherent("denied", t, m) /\ m.code = c
<1>1. PICK v \in Profiling!Verdict : c \in Profiling!ToSet(t[v])
  BY DividingTable DEF Profiling!Dividing, Profiling!Verdict
<1> DEFINE m == [decision |-> v, code |-> c]
<1>2. m \in Profiling!Messages("denied") BY DEF Profiling!Messages, Profiling!Denial
<1>3. Profiling!Coherent("denied", t, m)
  BY <1>1 DEF Profiling!Coherent, Profiling!inspectContractSemantics
<1> QED BY <1>2, <1>3

\* Two messages of one family that an accepted table finds coherent.
LEMMA ReadOnce ==
  ASSUME ProfileInv, accepted = "yes",
         NEW m \in Profiling!CoherentMessages, NEW n \in Profiling!CoherentMessages
  PROVE  /\ family = "policy" /\ m.codes = n.codes => m.decision = n.decision
         /\ family = "denied" /\ m.code = n.code => m.decision = n.decision
         /\ family = "receipt" /\ m.key = n.key => m = n
         /\ family \in {"api", "result"} /\ m.key = n.key => m = n
         /\ family = "registry" =>
              Len(m.schemas) = 2 /\ Profiling!ToSet(m.schemas) = Profiling!ToSet(n.schemas)
<1>1. /\ m \in Profiling!Messages(family) /\ Profiling!Coherent(family, table, m)
      /\ n \in Profiling!Messages(family) /\ Profiling!Coherent(family, table, n)
  BY DEF Profiling!CoherentMessages
<1>2. /\ family # "registry" => table \in Profiling!Tables(family)
      /\ Profiling!crossValidateExecutableSemantics(family, table)
  BY DEF ProfileInv
<1>3. family = "policy" /\ m.codes = n.codes => m.decision = n.decision BY <1>1, <1>2, OneDecision
<1>4. family = "denied" /\ m.code = n.code => m.decision = n.decision BY <1>1, <1>2, OneDenial
<1>5. family = "receipt" /\ m.key = n.key => m = n BY <1>1, OneReceipt
<1>6. family \in {"api", "result"} /\ m.key = n.key => m = n BY <1>1, <1>2, OneGivenMessage
<1>7. family = "registry" =>
        Len(m.schemas) = 2 /\ Profiling!ToSet(m.schemas) = Profiling!ToSet(n.schemas)
  BY <1>1, OneRegistry
<1> QED BY <1>3, <1>4, <1>5, <1>6, <1>7

\* The codes and the outcomes that the coherent messages of a family use are all there are.
LEMMA AllUsed ==
  ASSUME ProfileInv, accepted = "yes"
  PROVE  /\ family = "policy" =>
              UNION {Profiling!ToSet(m.codes) : m \in Profiling!CoherentMessages}
                = Profiling!CodesOf(family)
         /\ family \in {"denied", "api", "result"} =>
              {m.code : m \in Profiling!CoherentMessages} = Profiling!CodesOf(family)
         /\ family \in {"api", "result"} =>
              {m.key : m \in Profiling!CoherentMessages} = Profiling!Key
<1>1. /\ family # "registry" => table \in Profiling!Tables(family)
      /\ Profiling!crossValidateExecutableSemantics(family, table)
  BY DEF ProfileInv
<1> USE DEF Profiling!CoherentMessages
<1>2. CASE family = "policy"
  <2>1. Profiling!CodesOf(family) = Code
    BY <1>2 DEF Profiling!CodesOf, Profiling!Dividing
  <2>2. ASSUME NEW m \in Profiling!CoherentMessages PROVE Profiling!ToSet(m.codes) \subseteq Code
    <3>1. m.codes \in Profiling!ShortList(Code)
      BY <1>2, <2>2 DEF Profiling!Messages, Profiling!Decision
    <3> QED BY <3>1, SomeCode
  <2>3. \A c \in Code : \E m \in Profiling!CoherentMessages : c \in Profiling!ToSet(m.codes)
    BY <1>1, <1>2, EveryPolicyCode
  <2> QED BY <1>2, <2>1, <2>2, <2>3
<1>3. CASE family = "denied"
  <2>1. Profiling!CodesOf(family) = Code
    BY <1>3 DEF Profiling!CodesOf, Profiling!Dividing
  <2>2. \A m \in Profiling!CoherentMessages : m.code \in Code
    BY <1>3 DEF Profiling!Messages, Profiling!Denial
  <2>3. \A c \in Code : \E m \in Profiling!CoherentMessages : m.code = c
    BY <1>1, <1>3, EveryDenialCode
  <2> QED BY <1>3, <2>1, <2>2, <2>3
<1>4. CASE family \in {"api", "result"}
  <2>1. Profiling!CodesOf(family) = {1, 2}
    BY <1>4 DEF Profiling!CodesOf, Profiling!Dividing
  <2>2. {table[k].code : k \in Profiling!Key} = {1, 2}
    <3>1. family \in Profiling!Giving BY <1>4 DEF Profiling!Giving
    <3>2. table \in Profiling!Tables(family) BY <1>1, <1>4
    <3> QED BY <1>1, <3>1, <3>2, GivingTable
  <2>3. \A m \in Profiling!CoherentMessages :
          m.key \in Profiling!Key /\ m.code = table[m.key].code
    BY <1>1, <1>4, GivenMessage
  <2>4. \A k \in Profiling!Key : \E m \in Profiling!CoherentMessages :
          m.key = k /\ m.code = table[k].code
    BY <1>1, <1>4, EveryOutcome
  <2> HIDE DEF Profiling!CoherentMessages
  <2>5. {m.key : m \in Profiling!CoherentMessages} = Profiling!Key BY <2>3, <2>4
  <2>6. {m.code : m \in Profiling!CoherentMessages} = {table[k].code : k \in Profiling!Key}
    BY <2>3, <2>4
  <2> QED BY <1>4, <2>1, <2>2, <2>5, <2>6
<1> QED BY <1>2, <1>3, <1>4

\* What a message that was found coherent attaches to a failure: nothing.
LEMMA NothingAttached == ProfileInv => Profiling!NothingAttachedToFailure
<1> SUFFICES ASSUME ProfileInv, coherent = "yes", family \in Profiling!Giving,
                    "attached" \in DOMAIN message
             PROVE  message.attached <=> message.key = "succeeded"
  BY DEF Profiling!NothingAttachedToFailure
<1>1. /\ family # "registry" => table \in Profiling!Tables(family)
      /\ Profiling!crossValidateExecutableSemantics(family, table)
      /\ message \in Profiling!Messages(family) /\ Profiling!Coherent(family, table, message)
  BY DEF ProfileInv
<1>2. table["succeeded"].what = "required" /\ table["failed"].what = "forbidden"
  BY <1>1, GivingTable DEF Profiling!Giving
<1>3. CASE family \in {"api", "result"}
  <2>1. table \in Profiling!Tables(family) BY <1>1, <1>3
  <2>2. message.key \in Profiling!Key /\ message.attached = (table[message.key].what = "required")
    BY <1>1, <1>3, <2>1, GivenMessage
  <2> QED BY <1>2, <2>2 DEF Profiling!Key
<1>4. CASE family = "task"
  <2>1. message \in Profiling!Status
    BY <1>1, <1>4 DEF Profiling!Messages, Profiling!Command
  <2>2. message.attached = (table[message.key].what = "required")
    BY <1>1, <1>4, <2>1
    DEF Profiling!Coherent, Profiling!inspectContractSemantics, Profiling!Fits, Profiling!Status
  <2> QED BY <1>2, <2>1, <2>2 DEF Profiling!Status, Profiling!Key
<1> QED BY <1>3, <1>4 DEF Profiling!Giving

(***************************************************************************)
(* The walk that rejects circular definitions (ContractSchemas, Visit).    *)
(***************************************************************************)

\* The definitions that a definition refers to.
Refers(d, n) == Validating!References(d[n]) \cap Validating!Name

Names == SUBSET Validating!Name
Walks == [front : Names, active : Names, complete : Names]
Found == [cyclic : BOOLEAN, complete : Names]

\* What a walk comes to, where f does what is left of it.
Does(d, f, w) ==
  IF w.front = {} THEN [cyclic |-> FALSE, complete |-> w.complete]
  ELSE LET n == CHOOSE m \in w.front : TRUE
           below == f[Validating!Walk(Refers(d, n), w.active \cup {n}, w.complete)]
           rest == w.front \ {n}
       IN IF n \in w.active THEN [cyclic |-> TRUE, complete |-> w.complete]
          ELSE IF n \in w.complete THEN f[Validating!Walk(rest, w.active, w.complete)]
          ELSE IF below.cyclic THEN below
          ELSE f[Validating!Walk(rest, w.active, below.complete \cup {n})]

IsVisit(d, f) == f = [w \in Walks |-> Does(d, f, w)]
TheVisit(d) == CHOOSE f : IsVisit(d, f)

LEMMA VisitIsIt ==
  \A d : Validating!Visit(d) = TheVisit(d)[Validating!Walk(Validating!Name, {}, {})]
BY SMT DEF Validating!Visit, TheVisit, IsVisit, Does, Walks, Names, Refers

LEMMA WalkFields ==
  ASSUME NEW x \in Names, NEW y \in Names, NEW z \in Names
  PROVE  /\ Validating!Walk(x, y, z) \in Walks
         /\ Validating!Walk(x, y, z).front = x
         /\ Validating!Walk(x, y, z).active = y
         /\ Validating!Walk(x, y, z).complete = z
BY DEF Validating!Walk, Walks

\* How much a walk has left to do: names it is not in the middle of, then names in front.
Size(S) == (IF "a" \in S THEN 1 ELSE 0) + (IF "b" \in S THEN 1 ELSE 0)
Left(w) == 3 * (2 - Size(w.active)) + Size(w.front)

LEMMA LeftType == \A w \in Walks : Left(w) \in 0 .. 8
BY DEF Left, Size

\* The walks that a walk asks about have less to do.
LEMMA Smaller ==
  ASSUME NEW w \in Walks, NEW n \in w.front, NEW z \in Names
  PROVE  /\ Validating!Walk(w.front \ {n}, w.active, z) \in Walks
         /\ Left(Validating!Walk(w.front \ {n}, w.active, z)) < Left(w)
         /\ \A x \in Names : n \notin w.active =>
              /\ Validating!Walk(x, w.active \cup {n}, z) \in Walks
              /\ Left(Validating!Walk(x, w.active \cup {n}, z)) < Left(w)
<1>1. /\ w.front \ {n} \in Names /\ w.active \in Names /\ w.active \cup {n} \in Names
      /\ n \in {"a", "b"}
  BY DEF Walks, Names, Validating!Name
<1>2. Size(w.front \ {n}) < Size(w.front) BY <1>1 DEF Size
<1>3. /\ \A S : Size(S) \in 0 .. 2
      /\ n \notin w.active => Size(w.active \cup {n}) = Size(w.active) + 1
  BY <1>1 DEF Size
<1>4. Left(Validating!Walk(w.front \ {n}, w.active, z)) < Left(w)
  BY <1>1, <1>2, <1>3, WalkFields DEF Left
<1>5. ASSUME NEW x \in Names, n \notin w.active
      PROVE  Left(Validating!Walk(x, w.active \cup {n}, z)) < Left(w)
  BY <1>1, <1>3, <1>5, WalkFields DEF Left
<1> QED BY <1>1, <1>4, <1>5, WalkFields

\* So what a walk comes to depends on those only.
LEMMA DoesAlike ==
  ASSUME NEW d, NEW f, NEW g, NEW w \in Walks, \A u \in Walks : f[u] \in Found,
         \A u \in Walks : Left(u) < Left(w) => f[u] = g[u]
  PROVE  Does(d, f, w) = Does(d, g, w) /\ Does(d, f, w) \in Found
<1>1. CASE w.front = {} BY <1>1 DEF Does, Found, Walks
<1>2. CASE w.front # {}
  <2> DEFINE n == CHOOSE m \in w.front : TRUE
             deep == Validating!Walk(Refers(d, n), w.active \cup {n}, w.complete)
             next(z) == Validating!Walk(w.front \ {n}, w.active, z)
  <2>1. n \in w.front /\ Refers(d, n) \in Names /\ w.complete \in Names /\ n \in Validating!Name
    BY <1>2 DEF Walks, Names, Refers
  <2>2. \A z \in Names : f[next(z)] = g[next(z)] /\ f[next(z)] \in Found BY <2>1, Smaller
  <2>3. n \notin w.active => f[deep] = g[deep] /\ f[deep] \in Found BY <2>1, Smaller
  <2>4. n \notin w.active => f[deep].complete \cup {n} \in Names BY <2>1, <2>3 DEF Found, Names
  <2>5. [cyclic |-> TRUE, complete |-> w.complete] \in Found BY <2>1 DEF Found
  <2>6. \A h : Does(d, h, w) =
          IF n \in w.active THEN [cyclic |-> TRUE, complete |-> w.complete]
          ELSE IF n \in w.complete THEN h[next(w.complete)]
          ELSE IF h[deep].cyclic THEN h[deep]
          ELSE h[next(h[deep].complete \cup {n})]
    BY <1>2 DEF Does
  <2> HIDE DEF n, deep, next
  <2>7. CASE n \in w.active BY <2>5, <2>6, <2>7
  <2>8. CASE n \notin w.active /\ n \in w.complete BY <2>1, <2>2, <2>6, <2>8
  <2>9. CASE n \notin w.active /\ n \notin w.complete
    BY <2>2, <2>3, <2>4, <2>6, <2>9
  <2> QED BY <2>7, <2>8, <2>9
<1> QED BY <1>1, <1>2

\* A set of numbers with 0 and the successor of each of its members has them all.
LEMMA Least ==
  ASSUME NEW T \in SUBSET Nat, 0 \in T, \A n \in T : n + 1 \in T
  PROVE  T = Nat
<1> SUFFICES ASSUME Nat \ T # {} PROVE FALSE
  OBVIOUS
<1>1. \E R : IsWellFoundedOn(R, Nat) /\ \A m, n \in Nat : m < n => <<m, n>> \in R
  <2>1. IsWellFoundedOn(OpToRel(<, Nat), Nat) BY NatLessThanWellFounded
  <2>2. \A m, n \in Nat : m < n => <<m, n>> \in OpToRel(<, Nat) BY DEF OpToRel
  <2> QED BY <2>1, <2>2
<1>2. PICK R : IsWellFoundedOn(R, Nat) /\ \A m, n \in Nat : m < n => <<m, n>> \in R
  BY <1>1
<1>3. PICK n \in Nat \ T : \A m \in Nat \ T : ~(<<m, n>> \in R)
  <2>1. \A U : U \subseteq Nat /\ U # {} => \E x \in U : \A y \in U : ~(<<y, x>> \in R)
    <3> SUFFICES ASSUME NEW U, U \subseteq Nat, U # {}
                 PROVE  \E x \in U : \A y \in U : ~(<<y, x>> \in R)
      OBVIOUS
    <3>1. IsWellFoundedOn(R, Nat) BY <1>2
    <3> QED BY ONLY <3>1, U \subseteq Nat, U # {}, WFMin
  <2> QED BY <2>1
<1>4. n # 0 /\ n - 1 \in Nat /\ n - 1 < n
  OBVIOUS
<1>5. n - 1 \in T
  BY <1>2, <1>3, <1>4
<1> QED BY <1>4, <1>5

\* f is Visit as far as there is less than k to do.
VisitBelow(d, f, k) ==
  /\ f = [w \in Walks |-> f[w]] /\ \A w \in Walks : f[w] \in Found
  /\ \A w \in Walks : Left(w) < k => f[w] = Does(d, f, w)

\* There is such a function for every k: with what Does says, it is one for k + 1.
LEMMA OneMore ==
  ASSUME NEW d, NEW k \in Nat, NEW f, VisitBelow(d, f, k)
  PROVE  \E g : VisitBelow(d, g, k + 1)
<1> DEFINE g == [w \in Walks |-> Does(d, f, w)]
<1>1. \A w \in Walks : Does(d, f, w) \in Found
  BY DoesAlike DEF VisitBelow
<1>2. \A w \in Walks : Left(w) < k => f[w] = g[w] BY DEF VisitBelow
<1>3. ASSUME NEW w \in Walks, Left(w) < k + 1 PROVE g[w] = Does(d, g, w)
  <2>1. \A u \in Walks : Left(u) < Left(w) => f[u] = g[u] BY <1>2, <1>3, LeftType
  <2>2. \A u \in Walks : f[u] \in Found BY DEF VisitBelow
  <2> HIDE DEF g
  <2>3. Does(d, f, w) = Does(d, g, w) BY <2>1, <2>2, DoesAlike
  <2> QED BY <2>3 DEF g
<1>4. /\ g = [w \in Walks |-> g[w]] /\ \A w \in Walks : g[w] \in Found
  BY <1>1
<1> HIDE DEF g
<1>5. VisitBelow(d, g, k + 1) BY <1>3, <1>4 DEF VisitBelow
<1> QED BY <1>5

LEMMA VisitExists == \A d : \E f : IsVisit(d, f) /\ \A w \in Walks : f[w] \in Found
<1> SUFFICES ASSUME NEW d PROVE \E f : IsVisit(d, f) /\ \A w \in Walks : f[w] \in Found
  OBVIOUS
<1> DEFINE T == {k \in Nat : \E f : VisitBelow(d, f, k)}
<1>1. 0 \in T
  <2> DEFINE f == [w \in Walks |-> [cyclic |-> FALSE, complete |-> {}]]
  <2>1. f = [w \in Walks |-> f[w]] /\ \A w \in Walks : f[w] \in Found BY DEF Found, Names
  <2>2. \A w \in Walks : ~ (Left(w) < 0) BY LeftType
  <2> HIDE DEF f
  <2>3. VisitBelow(d, f, 0) BY <2>1, <2>2 DEF VisitBelow
  <2> QED BY <2>3
<1>2. \A k \in T : k + 1 \in T BY OneMore
<1>3. T \subseteq Nat OBVIOUS
<1> HIDE DEF T
<1>4. 9 \in T BY <1>1, <1>2, <1>3, Least
<1>5. PICK f : VisitBelow(d, f, 9) BY <1>4 DEF T
<1>6. \A w \in Walks : f[w] = Does(d, f, w) BY <1>5, LeftType DEF VisitBelow
<1>7. f = [w \in Walks |-> Does(d, f, w)] BY <1>5, <1>6 DEF VisitBelow
<1> QED BY <1>5, <1>7 DEF IsVisit, VisitBelow

\* What Visit does at every walk.
LEMMA VisitDoes ==
  ASSUME NEW d
  PROVE  \A w \in Walks :
            TheVisit(d)[w] = Does(d, TheVisit(d), w) /\ TheVisit(d)[w] \in Found
<1>1. PICK f : IsVisit(d, f) /\ \A w \in Walks : f[w] \in Found BY VisitExists
<1>2. IsVisit(d, TheVisit(d)) BY <1>1, Zenon DEF TheVisit
<1> DEFINE g == TheVisit(d)
           T == {k \in Nat : \A w \in Walks : Left(w) < k => f[w] = g[w]}
<1>3. \A w \in Walks : f[w] = Does(d, f, w) /\ g[w] = Does(d, g, w)
  BY <1>1, <1>2 DEF IsVisit
<1> HIDE DEF g
<1>4. 0 \in T BY LeftType
<1>5. ASSUME NEW k \in T PROVE k + 1 \in T
  <2>1. ASSUME NEW w \in Walks, Left(w) < k + 1 PROVE f[w] = g[w]
    <3>1. \A u \in Walks : Left(u) < Left(w) => f[u] = g[u] BY <2>1, LeftType
    <3>2. Does(d, f, w) = Does(d, g, w) BY <1>1, <3>1, DoesAlike
    <3> QED BY <1>3, <3>2
  <2> QED BY <2>1
<1>6. T \subseteq Nat OBVIOUS
<1> HIDE DEF T
<1>7. 9 \in T BY <1>4, <1>5, <1>6, Least
<1>8. \A w \in Walks : f[w] = g[w] BY <1>7, LeftType DEF T
<1> QED BY <1>1, <1>3, <1>8 DEF g

\* Names that refer to each other only, none of them to itself, not even by way of another.
Sorted(d, C) ==
  \A c \in C : /\ Refers(d, c) \subseteq C /\ c \notin Refers(d, c)
               /\ \A e \in Refers(d, c) : c \notin Refers(d, e)

\* A name that refers to sorted ones, and is none of them, may be added to them.
LEMMA SortedWith ==
  ASSUME NEW d, NEW C, NEW n, Sorted(d, C), Refers(d, n) \subseteq C, n \notin C
  PROVE  Sorted(d, C \cup {n})
BY DEF Sorted

\* A walk that finds no cycle has sorted what was in front, and nothing it is in the middle of.
Settles(d, w) ==
  w.active \cap w.complete = {} /\ Sorted(d, w.complete) /\ ~TheVisit(d)[w].cyclic =>
    /\ w.complete \cup w.front \subseteq TheVisit(d)[w].complete
    /\ w.active \cap TheVisit(d)[w].complete = {}
    /\ Sorted(d, TheVisit(d)[w].complete)

LEMMA SettlesOne ==
  ASSUME NEW d, NEW w \in Walks, \A u \in Walks : Left(u) < Left(w) => Settles(d, u)
  PROVE  Settles(d, w)
<1> SUFFICES ASSUME w.active \cap w.complete = {}, Sorted(d, w.complete),
                    ~TheVisit(d)[w].cyclic
             PROVE  /\ w.complete \cup w.front \subseteq TheVisit(d)[w].complete
                    /\ w.active \cap TheVisit(d)[w].complete = {}
                    /\ Sorted(d, TheVisit(d)[w].complete)
  BY DEF Settles
<1> DEFINE V == TheVisit(d)
           n == CHOOSE m \in w.front : TRUE
           deep == Validating!Walk(Refers(d, n), w.active \cup {n}, w.complete)
           next(z) == Validating!Walk(w.front \ {n}, w.active, z)
<1>1. \A u \in Walks : V[u] = Does(d, V, u) /\ V[u] \in Found BY VisitDoes
<1>2. CASE w.front = {}
  <2>1. V[w] = [cyclic |-> FALSE, complete |-> w.complete] BY <1>1, <1>2 DEF Does
  <2> HIDE DEF V
  <2> QED BY <1>2, <2>1 DEF V
<1>3. CASE w.front # {}
  <2>1. n \in w.front /\ Refers(d, n) \in Names /\ w.complete \in Names /\ n \in Validating!Name
        /\ w.active \in Names /\ w.front \in Names
    BY <1>3 DEF Walks, Names, Refers
  <2>2. V[w] = IF n \in w.active THEN [cyclic |-> TRUE, complete |-> w.complete]
               ELSE IF n \in w.complete THEN V[next(w.complete)]
               ELSE IF V[deep].cyclic THEN V[deep]
               ELSE V[next(V[deep].complete \cup {n})]
    BY <1>1, <1>3 DEF Does
  <2> HIDE DEF n, V
  <2>3. \A z \in Names : next(z) \in Walks /\ Settles(d, next(z))
          /\ next(z).front = w.front \ {n} /\ next(z).active = w.active /\ next(z).complete = z
    <3> SUFFICES ASSUME NEW z \in Names
                 PROVE  next(z) \in Walks /\ Settles(d, next(z))
          /\ next(z).front = w.front \ {n} /\ next(z).active = w.active /\ next(z).complete = z
      OBVIOUS
    <3>1. w.front \ {n} \in Names BY <2>1 DEF Names
    <3>2. next(z) \in Walks /\ Left(next(z)) < Left(w) BY <2>1, Smaller
    <3>3. next(z).front = w.front \ {n} /\ next(z).active = w.active /\ next(z).complete = z
      BY <2>1, <3>1, WalkFields
    <3> HIDE DEF next
    <3>4. Settles(d, next(z)) BY <3>2
    <3> QED BY <3>2, <3>3, <3>4
  <2>4. n \notin w.active => deep \in Walks /\ Settles(d, deep)
          /\ deep.front = Refers(d, n) /\ deep.active = w.active \cup {n}
          /\ deep.complete = w.complete
    <3>1. w.active \cup {n} \in Names BY <2>1 DEF Names
    <3>2. n \notin w.active => deep \in Walks /\ Left(deep) < Left(w) BY <2>1, Smaller
    <3>3. deep.front = Refers(d, n) /\ deep.active = w.active \cup {n} /\ deep.complete = w.complete
      BY DEF Validating!Walk
    <3> HIDE DEF deep
    <3>4. n \notin w.active => Settles(d, deep) BY <3>2
    <3> QED BY <3>2, <3>3, <3>4
  <2> HIDE DEF deep, next
  <2>5. n \notin w.active BY <2>2 DEF V
  <2>6. CASE n \in w.complete
    <3>1. V[w] = V[next(w.complete)] BY <2>2, <2>5, <2>6
    <3>2. next(w.complete) \in Walks /\ Settles(d, next(w.complete))
          /\ next(w.complete).front = w.front \ {n} /\ next(w.complete).active = w.active
          /\ next(w.complete).complete = w.complete
      BY <2>1, <2>3
    <3> QED BY <2>6, <3>1, <3>2 DEF Settles, V
  <2>7. CASE n \notin w.complete
    <3>1. ~V[deep].cyclic /\ V[w] = V[next(V[deep].complete \cup {n})]
      BY <2>2, <2>5, <2>7 DEF V
    <3> DEFINE C == V[deep].complete \cup {n}
    <3>2. /\ w.complete \cup Refers(d, n) \subseteq V[deep].complete
          /\ (w.active \cup {n}) \cap V[deep].complete = {}
          /\ Sorted(d, V[deep].complete)
      BY <2>4, <2>5, <2>7, <3>1 DEF Settles, V
    <3>3. Sorted(d, C) BY <3>2, SortedWith
    <3>4. C \in Names BY <1>1, <2>1, <2>4, <2>5 DEF Found, Names
    <3> HIDE DEF C
    <3>5. next(C) \in Walks /\ Settles(d, next(C))
          /\ next(C).front = w.front \ {n} /\ next(C).active = w.active /\ next(C).complete = C
      BY <2>3, <3>4
    <3>6. V[w] = V[next(C)] BY <3>1 DEF C
    <3>7. w.active \cap C = {} /\ w.complete \cup {n} \subseteq C BY <2>5, <3>2 DEF C
    <3>8. /\ C \cup (w.front \ {n}) \subseteq V[next(C)].complete
          /\ w.active \cap V[next(C)].complete = {}
          /\ Sorted(d, V[next(C)].complete)
      BY <3>3, <3>5, <3>6, <3>7 DEF Settles, V
    <3> QED BY <3>6, <3>7, <3>8 DEF V
  <2> QED BY <2>6, <2>7
<1> QED BY <1>2, <1>3

\* So definitions in which no cycle is found are sorted, and none refers to itself.
LEMMA NotCyclic ==
  ASSUME NEW d, ~Validating!Visit(d).cyclic
  PROVE  Sorted(d, Validating!Name)
<1> DEFINE T == {k \in Nat : \A w \in Walks : Left(w) < k => Settles(d, w)}
           start == Validating!Walk(Validating!Name, {}, {})
<1>1. 0 \in T BY LeftType
<1>2. ASSUME NEW k \in T PROVE k + 1 \in T
  <2>1. ASSUME NEW w \in Walks, Left(w) < k + 1 PROVE Settles(d, w)
    <3>1. \A u \in Walks : Left(u) < Left(w) => Settles(d, u) BY <2>1, LeftType
    <3> QED BY <3>1, SettlesOne
  <2> QED BY <2>1
<1>3. T \subseteq Nat OBVIOUS
<1> HIDE DEF T
<1>4. 9 \in T BY <1>1, <1>2, <1>3, Least
<1>5. /\ start \in Walks /\ start.front = Validating!Name
      /\ start.active = {} /\ start.complete = {}
  BY WalkFields DEF Names
<1>6. Settles(d, start) BY <1>4, <1>5, LeftType DEF T
<1>7. ~TheVisit(d)[start].cyclic BY VisitIsIt
<1>8. TheVisit(d)[start] \in Found BY <1>5, VisitDoes
<1> HIDE DEF start
<1>9. Validating!Name \subseteq TheVisit(d)[start].complete
      /\ Sorted(d, TheVisit(d)[start].complete)
  BY <1>5, <1>6, <1>7 DEF Settles, Sorted
<1>10. TheVisit(d)[start].complete = Validating!Name BY <1>8, <1>9 DEF Found, Names
<1> QED BY <1>9, <1>10

LEMMA NotCircular ==
  ASSUME NEW d, ~Validating!Visit(d).cyclic
  PROVE  ~Validating!Circular(d)
<1>1. Sorted(d, Validating!Name) BY NotCyclic
<1>2. \A n, m \in Validating!Name :
         /\ n \notin Validating!References(d[n])
         /\ m \in Validating!References(d[n]) => n \notin Validating!References(d[m])
  BY <1>1 DEF Sorted, Refers
<1>3. \A n \in Validating!Name :
         n \notin Validating!Below(d, Validating!Below(d, Validating!References(d[n])))
  <2> SUFFICES ASSUME NEW n \in Validating!Name,
                 n \in Validating!Below(d, Validating!Below(d, Validating!References(d[n])))
               PROVE  FALSE
    OBVIOUS
  <2>1. PICK m \in Validating!Name : m \in Validating!Below(d, Validating!References(d[n]))
                /\ n \in Validating!References(d[m])
    BY <1>2 DEF Validating!Below
  <2>2. m \notin Validating!References(d[n]) BY <1>2, <2>1
  <2>3. PICK k \in Validating!Name :
               k \in Validating!References(d[n]) /\ m \in Validating!References(d[k])
    BY <2>1, <2>2 DEF Validating!Below
  <2> QED BY <1>2, <2>1, <2>3 DEF Validating!Name
<1> QED BY <1>3 DEF Validating!Circular

(***************************************************************************)
(* What inspect finds of a value (ContractSchemas).                        *)
(***************************************************************************)

Results == [ok : BOOLEAN, left : Int]

\* Definitions are inspected for what they mean: a value of U that one lets pass is among
\* those that fit it.
Agrees(of, fits, U) ==
  \A n \in Validating!Name, v \in U, b \in Int :
    of[n][v][b] \in Results /\ (of[n][v][b].ok => v \in fits[n])

LEMMA OutcomeType ==
  \A ok \in BOOLEAN, left \in Int :
    /\ Validating!Outcome(ok, left) \in Results
    /\ Validating!Outcome(ok, left).ok = ok /\ Validating!Outcome(ok, left).left = left
BY DEF Validating!Outcome, Results

LEMMA FollowSound ==
  ASSUME NEW of, NEW fits, NEW U, Agrees(of, fits, U),
         NEW ref, ref.to \in Validating!Name, NEW v \in U, NEW b \in Int
  PROVE  /\ Validating!Follow(of, ref, v, b) \in Results
         /\ Validating!Follow(of, ref, v, b).ok => v \in fits[ref.to]
<1>1. CASE b <= 0 BY <1>1, OutcomeType DEF Validating!Follow
<1>2. CASE ~ (b <= 0)
  <2>1. Validating!Follow(of, ref, v, b) = of[ref.to][v][b - 1] BY <1>2 DEF Validating!Follow
  <2>2. b - 1 \in Int OBVIOUS
  <2> QED BY <2>1, <2>2 DEF Agrees
<1> QED BY <1>1, <1>2

LEMMA InTurnSound ==
  ASSUME NEW of, NEW fits, NEW U, Agrees(of, fits, U),
         NEW ref, ref.to \in Validating!Name, NEW v \in U, NEW before \in Results
  PROVE  /\ Validating!InTurn(of, before, ref, v) \in Results
         /\ Validating!InTurn(of, before, ref, v).ok => before.ok /\ v \in fits[ref.to]
<1> DEFINE r == Validating!Follow(of, ref, v, before.left)
<1>1. before.ok \in BOOLEAN /\ before.left \in Int BY DEF Results
<1>2. r \in Results /\ (r.ok => v \in fits[ref.to]) BY <1>1, FollowSound
<1>3. Validating!InTurn(of, before, ref, v) = Validating!Outcome(before.ok /\ r.ok, r.left)
  BY DEF Validating!InTurn
<1> HIDE DEF r
<1>4. r.ok \in BOOLEAN /\ r.left \in Int /\ (before.ok /\ r.ok) \in BOOLEAN BY <1>2 DEF Results
<1> QED BY <1>2, <1>3, <1>4, OutcomeType

LEMMA MemberSound ==
  ASSUME NEW of, NEW fits, NEW U, Agrees(of, fits, U), NEW shape, NEW key,
         shape[key].to \in Validating!Name, NEW v, key \in DOMAIN v.of => v.of[key] \in U,
         NEW before \in Results
  PROVE  /\ Validating!Member(of, before, shape, v, key) \in Results
         /\ Validating!Member(of, before, shape, v, key).ok =>
              before.ok /\ (key \in DOMAIN v.of => v.of[key] \in fits[shape[key].to])
<1>1. CASE key \in DOMAIN v.of BY <1>1, InTurnSound DEF Validating!Member
<1>2. CASE key \notin DOMAIN v.of BY <1>2 DEF Validating!Member
<1> QED BY <1>1, <1>2

LEMMA ShareType == \A left \in Int : Validating!Allocated(left, 2) \in Int
<1> SUFFICES ASSUME NEW left \in Int PROVE Validating!Allocated(left, 2) \in Int
  OBVIOUS
<1> DEFINE q == left \div 2
<1>1. q \in Int OBVIOUS
<1> HIDE DEF q
<1>2. Validating!Max({1, q}) \in Int
  <2>1. \E x \in {1, q} : \A y \in {1, q} : x >= y BY <1>1
  <2> QED BY <1>1, <2>1 DEF Validating!Max
<1> DEFINE p == Validating!Max({1, q})
<1>3. p \in Int BY <1>2
<1> HIDE DEF p
<1>4. Share \in Int BY ContractsAssumption DEF Validating!ContractAssumption
<1>5. Validating!Min({Share, p}) \in Int
  <2>1. \E x \in {Share, p} : \A y \in {Share, p} : x =< y BY <1>3, <1>4
  <2> QED BY <1>3, <1>4, <2>1 DEF Validating!Min
<1> QED BY <1>5 DEF Validating!Allocated, p, q

LEMMA AlternativeSound ==
  ASSUME NEW of, NEW fits, NEW U, Agrees(of, fits, U),
         NEW ref, ref.to \in Validating!Name, NEW v \in U, NEW left \in Int
  PROVE  /\ Validating!Alternative(of, ref, v, left) \in Results
         /\ Validating!Alternative(of, ref, v, left).ok => v \in fits[ref.to]
<1> DEFINE share == Validating!Allocated(left, 2)
           r == Validating!Follow(of, ref, v, share)
<1>1. share \in Int BY ShareType
<1>2. r \in Results /\ (r.ok => v \in fits[ref.to]) BY <1>1, FollowSound
<1>3. Validating!Alternative(of, ref, v, left) = Validating!Outcome(r.ok, left - (share - r.left))
  BY DEF Validating!Alternative
<1> HIDE DEF share, r
<1>4. r.ok \in BOOLEAN /\ left - (share - r.left) \in Int BY <1>1, <1>2 DEF Results
<1> QED BY <1>2, <1>3, <1>4, OutcomeType

\* The items of a list, one after the other.
Turn(of, ref, items, left, f, i) ==
  IF i = 0 THEN Validating!Outcome(TRUE, left) ELSE Validating!InTurn(of, f[i - 1], ref, items[i])
IsTurn(of, ref, items, left, f) ==
  f = [i \in 0 .. Validating!Looked(items) |-> Turn(of, ref, items, left, f, i)]
TheTurn(of, ref, items, left) == CHOOSE f : IsTurn(of, ref, items, left, f)

LEMMA ItemsIsIt ==
  \A of, ref, items, left :
    Validating!Items(of, ref, items, left)
      = TheTurn(of, ref, items, left)[Validating!Looked(items)]
BY SMT DEF Validating!Items, TheTurn, IsTurn, Turn

LEMMA TurnExists ==
  ASSUME NEW of, NEW fits, NEW U, Agrees(of, fits, U),
         NEW ref, ref.to \in Validating!Name, NEW items \in Seq(U), NEW left \in Int
  PROVE  \E f : IsTurn(of, ref, items, left, f)
<1> DEFINE L == Validating!Looked(items)
           Upto(f, k) == /\ f \in [0 .. L -> Results]
                         /\ \A i \in 0 .. L : i < k => f[i] = Turn(of, ref, items, left, f, i)
           T == {k \in Nat : \E f : Upto(f, k)}
<1>1. L \in Nat /\ L <= Len(items) /\ L <= MaxItems
  BY ContractsAssumption DEF Validating!Looked, Validating!ContractAssumption
<1> HIDE DEF L
<1>2. ASSUME NEW f \in [0 .. L -> Results], NEW i \in 0 .. L
      PROVE  Turn(of, ref, items, left, f, i) \in Results
  <2>1. CASE i = 0 BY <2>1, OutcomeType DEF Turn
  <2>2. CASE i # 0
    <3>1. f[i - 1] \in Results /\ items[i] \in U BY <1>1, <2>2
    <3> QED BY <2>2, <3>1, InTurnSound DEF Turn
  <2> QED BY <2>1, <2>2
<1>3. 0 \in T
  <2> DEFINE f == [i \in 0 .. L |-> Validating!Outcome(TRUE, left)]
  <2>1. f \in [0 .. L -> Results] BY OutcomeType
  <2>2. \A i \in 0 .. L : ~ (i < 0) OBVIOUS
  <2> HIDE DEF f
  <2> QED BY <2>1, <2>2
<1>4. ASSUME NEW k \in T PROVE k + 1 \in T
  <2>1. PICK f : Upto(f, k) BY <1>4
  <2> DEFINE g == [i \in 0 .. L |-> Turn(of, ref, items, left, f, i)]
  <2>2. g \in [0 .. L -> Results] BY <1>2, <2>1
  <2>3. \A i \in 0 .. L : i < k => g[i] = f[i] BY <2>1
  <2>4. ASSUME NEW i \in 0 .. L, i < k + 1 PROVE g[i] = Turn(of, ref, items, left, g, i)
    <3>1. g[i] = Turn(of, ref, items, left, f, i) OBVIOUS
    <3> HIDE DEF g
    <3>2. i # 0 => i - 1 \in 0 .. L /\ i - 1 < k /\ g[i - 1] = f[i - 1] BY <1>1, <2>3, <2>4
    <3> QED BY <3>1, <3>2 DEF Turn
  <2> HIDE DEF g
  <2>5. Upto(g, k + 1) BY <2>2, <2>4
  <2>6. k + 1 \in Nat BY <1>4
  <2> HIDE DEF Upto
  <2> QED BY <2>5, <2>6
<1>5. T \subseteq Nat OBVIOUS
<1> HIDE DEF T
<1>6. L + 1 \in T BY <1>1, <1>3, <1>4, <1>5, Least
<1>7. PICK f : Upto(f, L + 1) BY <1>6 DEF T
<1>8. \A i \in 0 .. L : f[i] = Turn(of, ref, items, left, f, i) BY <1>1, <1>7
<1>9. f = [i \in 0 .. L |-> Turn(of, ref, items, left, f, i)] BY <1>7, <1>8
<1> QED BY <1>9 DEF IsTurn, L

LEMMA TurnSound ==
  ASSUME NEW of, NEW fits, NEW U, Agrees(of, fits, U),
         NEW ref, ref.to \in Validating!Name, NEW items \in Seq(U), NEW left \in Int
  PROVE  /\ Validating!Items(of, ref, items, left) \in Results
         /\ Validating!Items(of, ref, items, left).ok =>
              \A i \in 1 .. Validating!Looked(items) : items[i] \in fits[ref.to]
<1> DEFINE L == Validating!Looked(items)
           f == TheTurn(of, ref, items, left)
           Good(i) == f[i] \in Results /\ (f[i].ok => \A j \in 1 .. i : items[j] \in fits[ref.to])
           T == {k \in Nat : k <= L => Good(k)}
<1>1. L \in Nat /\ L <= Len(items)
  BY ContractsAssumption DEF Validating!Looked, Validating!ContractAssumption
<1>2. IsTurn(of, ref, items, left, f) BY TurnExists, Zenon DEF TheTurn
<1>3. \A i \in 0 .. L : f[i] = Turn(of, ref, items, left, f, i) BY <1>2 DEF IsTurn
<1> HIDE DEF L, f
<1>4. 0 \in T
  <2>1. 0 \in 0 .. L BY <1>1
  <2>2. f[0] = Turn(of, ref, items, left, f, 0) BY <1>3, <2>1
  <2>3. f[0] \in Results BY <2>2, OutcomeType DEF Turn
  <2>4. \A j \in 1 .. 0 : FALSE OBVIOUS
  <2> QED BY <2>3, <2>4
<1>5. ASSUME NEW k \in T PROVE k + 1 \in T
  <2>1. k \in Nat /\ k + 1 \in Nat BY <1>5
  <2>2. ASSUME k + 1 <= L PROVE Good(k + 1)
    <3>1. Good(k) BY <1>1, <1>5, <2>1, <2>2
    <3>2. items[k + 1] \in U BY <1>1, <2>1, <2>2
    <3>3. f[k + 1] = Validating!InTurn(of, f[k], ref, items[k + 1])
      <4>1. k + 1 \in 0 .. L /\ k + 1 # 0 /\ (k + 1) - 1 = k BY <1>1, <2>1, <2>2
      <4>2. f[k + 1] = Turn(of, ref, items, left, f, k + 1) BY <1>3, <4>1
      <4> QED BY <4>1, <4>2 DEF Turn
    <3>4. /\ f[k + 1] \in Results
          /\ f[k + 1].ok => f[k].ok /\ items[k + 1] \in fits[ref.to]
      BY <3>1, <3>2, <3>3, InTurnSound
    <3>5. \A j \in 1 .. k + 1 : j \in 1 .. k \/ j = k + 1 BY <2>1
    <3> QED BY <3>1, <3>4, <3>5
  <2> HIDE DEF Good
  <2> QED BY <2>1, <2>2
<1>6. T \subseteq Nat OBVIOUS
<1> HIDE DEF T
<1>7. L \in T BY <1>1, <1>4, <1>5, <1>6, Least
<1>8. Good(L) BY <1>1, <1>7 DEF T
<1> QED BY <1>8, ItemsIsIt DEF L, f

\* A list with as many items as there are different ones repeats none.
LEMMA AllDifferent ==
  ASSUME NEW U, NEW items \in Seq(U),
         Validating!Cardinality({items[i] : i \in DOMAIN items}) = Len(items)
  PROVE  \A i, j \in DOMAIN items : i # j => items[i] # items[j]
<1> DEFINE S == DOMAIN items
           R == {items[i] : i \in S}
<1>1. S = 1 .. Len(items) /\ Len(items) \in Nat OBVIOUS
<1>2. IsFiniteSet(S) /\ Cardinality(S) = Len(items)
  <2>1. \A n \in Nat : IsFiniteSet(1 .. n) /\ Cardinality(1 .. n) = n
    <3> SUFFICES ASSUME NEW n \in Nat PROVE IsFiniteSet(1 .. n) /\ Cardinality(1 .. n) = n
      OBVIOUS
    <3>1. Cardinality(1 .. n) = IF 1 > n THEN 0 ELSE n - 1 + 1 BY FS_Interval
    <3>2. IsFiniteSet(1 .. n) BY FS_Interval
    <3> QED BY <3>1, <3>2
  <2> QED BY <1>1, <2>1
<1>3. Cardinality(R) = Cardinality(S) BY <1>2, SameCardinality
<1>4. items \in Surjection(S, R)
  <2>1. items \in [1 .. Len(items) -> U] OBVIOUS
  <2>2. \A i \in S : items[i] \in R OBVIOUS
  <2> HIDE DEF R, S
  <2>3. items \in [S -> R] BY <1>1, <2>1, <2>2
  <2> QED BY <2>3 DEF Surjection, R
<1> HIDE DEF S, R
<1>5. items \in Injection(S, R) BY <1>2, <1>3, <1>4, FS_Surjection
<1> QED BY <1>5 DEF Injection, IsInjective, S

\* The shapes, kind by kind.
LEMMA ShapeKinds ==
  ASSUME NEW s \in Validating!Shape
  PROVE  \/ \E c \in Validating!Atom : s = Validating!Const(c)
         \/ \E n \in Validating!Name \cup {"missing"} : s = Validating!Ref(n)
         \/ \E m, n \in Validating!Name : s = Validating!Object(m, n)
         \/ \E n \in Validating!Name, max \in Nat : s = Validating!List(n, max)
         \/ s = Validating!OneOf("a", "b")
         \/ s = Validating!AnyOf("a", "b")
         \/ s = Validating!Unclosed
<1>1. MaxItems \in Nat /\ MaxItems + 1 \in Nat
  BY ContractsAssumption DEF Validating!ContractAssumption
<1>2. "a" \in Validating!Name BY DEF Validating!Name
<1> QED BY <1>1, <1>2 DEF Validating!Shape

\* A value of U whose parts are in U, and that has no members but x, y and z.
Solid(v, U) ==
  /\ v \in U
  /\ v.kind = "list" => v.items \in Seq(U)
  /\ v.kind = "record" =>
       DOMAIN v.of \subseteq {"x", "y", "z"} /\ \A key \in DOMAIN v.of : v.of[key] \in U

\* What an inspection lets pass fits the shape, where it inspects the definitions for what
\* they mean, and no value fits both alternatives of a choice of one.
LEMMA InspectedSound ==
  ASSUME NEW of, NEW fits, NEW U, Agrees(of, fits, U), NEW v, Solid(v, U),
         NEW s \in Validating!Shape, Validating!Restricted(s),
         Validating!References(s) \subseteq Validating!Name,
         s.kind = "oneOf" => fits["a"] \cap fits["b"] = {},
         NEW b \in Int
  PROVE  /\ Validating!Inspected(of, s, v, b) \in Results
         /\ Validating!Inspected(of, s, v, b).ok => Validating!Fits(s, fits, v)
<1> DEFINE left == b - 1
           found == Validating!Inspected(of, s, v, b)
<1>1. left \in Int /\ b - 1 \in Int /\ v \in U BY DEF Solid
<1>2. CASE b <= 0
  <2>1. b <= 0 /\ ~ (b > 0) BY <1>2
  <2>2. found = Validating!Outcome(FALSE, b) BY <2>1 DEF Validating!Inspected
  <2> QED BY <2>2, OutcomeType
<1>3. ASSUME b > 0, NEW c \in Validating!Atom, s = Validating!Const(c)
      PROVE  found \in Results /\ (found.ok => Validating!Fits(s, fits, v))
  <2>1. s.kind = "const" /\ s.is = c BY <1>3 DEF Validating!Const
  <2>2. found = Validating!Outcome(v = Validating!Leaf(s.is), b - 1)
    BY <1>3, <2>1 DEF Validating!Inspected
  <2>3. (v = Validating!Leaf(s.is)) \in BOOLEAN OBVIOUS
  <2>4. Validating!Fits(s, fits, v) <=> v = Validating!Leaf(s.is)
    BY <2>1 DEF Validating!Fits
  <2> QED BY <1>1, <2>2, <2>3, <2>4, OutcomeType
<1>4. ASSUME b > 0, NEW n \in Validating!Name \cup {"missing"}, s = Validating!Ref(n)
      PROVE  found \in Results /\ (found.ok => Validating!Fits(s, fits, v))
  <2>1. s.kind = "ref" /\ s.to = n BY <1>4 DEF Validating!Ref
  <2>2. n \in Validating!Name BY <2>1 DEF Validating!References
  <2>3. found = of[n][v][b - 1] BY <1>4, <2>1 DEF Validating!Inspected
  <2>4. Validating!Fits(s, fits, v) <=> v \in fits[n] BY <2>1 DEF Validating!Fits
  <2> QED BY <1>1, <2>2, <2>3, <2>4 DEF Agrees
<1>5. ASSUME b > 0, NEW m \in Validating!Name, NEW n \in Validating!Name,
             s = Validating!Object(m, n)
      PROVE  found \in Results /\ (found.ok => Validating!Fits(s, fits, v))
  <2>1. s.kind = "object" /\ s["x"].to = m /\ s["y"].to = n
    BY <1>5 DEF Validating!Object, Validating!Ref
  <2>2. CASE v.kind # "record"
    <3>1. found = Validating!Outcome(FALSE, b - 1) BY <1>5, <2>1, <2>2 DEF Validating!Inspected
    <3> QED BY <1>1, <3>1, OutcomeType
  <2>3. CASE v.kind = "record"
    <3> DEFINE x == Validating!Member(of, Validating!Outcome(TRUE, left), s, v, "x")
               all == Validating!Member(of, x, s, v, "y")
               closed == "x" \in DOMAIN v.of /\ "z" \notin DOMAIN v.of
    <3>1. found = Validating!Outcome(all.ok /\ closed, all.left)
      BY <1>5, <2>1, <2>3 DEF Validating!Inspected
    <3>2. \A key \in DOMAIN v.of : v.of[key] \in U BY <2>3 DEF Solid
    <3>3. Validating!Outcome(TRUE, left) \in Results BY <1>1, OutcomeType
    <3>4. x \in Results /\ (x.ok => ("x" \in DOMAIN v.of => v.of["x"] \in fits[m]))
      BY <2>1, <3>2, <3>3, MemberSound
    <3> HIDE DEF x
    <3>5. all \in Results
          /\ (all.ok => x.ok /\ ("y" \in DOMAIN v.of => v.of["y"] \in fits[n]))
      BY <2>1, <3>2, <3>4, MemberSound
    <3>6. DOMAIN v.of \subseteq {"x", "y", "z"} BY <2>3 DEF Solid
    <3> HIDE DEF all
    <3>7. all.ok \in BOOLEAN /\ all.left \in Int BY <3>5 DEF Results
    <3>8. found \in Results /\ found.ok = (all.ok /\ closed) BY <3>1, <3>7, OutcomeType
    <3> HIDE DEF found
    <3>9. ASSUME found.ok PROVE Validating!Fits(s, fits, v)
      <4>1. \A key \in DOMAIN v.of : key \in {"x", "y"} /\ v.of[key] \in fits[s[key].to]
        BY <2>1, <3>4, <3>5, <3>6, <3>8, <3>9
      <4> QED BY <2>1, <2>3, <3>8, <3>9, <4>1 DEF Validating!Fits
    <3> QED BY <3>8, <3>9
  <2> QED BY <2>2, <2>3
<1>6. ASSUME b > 0, NEW n \in Validating!Name, NEW max \in Nat, s = Validating!List(n, max)
      PROVE  found \in Results /\ (found.ok => Validating!Fits(s, fits, v))
  <2>1. s.kind = "array" /\ s.of.to = n /\ s.max = max BY <1>6 DEF Validating!List, Validating!Ref
  <2> DEFINE all == Validating!Items(of, s.of, v.items, left)
             unlike == Validating!Cardinality({v.items[i] : i \in DOMAIN v.items}) = Len(v.items)
  <2>2. found = IF v.kind # "list" \/ Len(v.items) > s.max THEN Validating!Outcome(FALSE, b - 1)
                ELSE Validating!Outcome(all.ok /\ unlike, all.left)
    BY <1>6, <2>1 DEF Validating!Inspected
  <2>3. CASE ~ (v.kind # "list" \/ Len(v.items) > s.max)
    <3>1. found = Validating!Outcome(all.ok /\ unlike, all.left) BY <2>2, <2>3
    <3>2. v.items \in Seq(U) BY <2>3 DEF Solid
    <3>3. all \in Results
          /\ (all.ok => \A i \in 1 .. Validating!Looked(v.items) : v.items[i] \in fits[n])
      BY <1>1, <2>1, <3>2, TurnSound
    <3>4. Len(v.items) \in Nat /\ DOMAIN v.items = 1 .. Len(v.items) BY <3>2
    <3>5. Validating!Looked(v.items) = Len(v.items)
      BY <2>1, <2>3, <3>4, ContractsAssumption
      DEF Validating!Looked, Validating!Restricted, Validating!ContractAssumption
    <3> HIDE DEF all
    <3>6. all.ok \in BOOLEAN /\ all.left \in Int BY <3>3 DEF Results
    <3>7. unlike => \A i, j \in DOMAIN v.items : i # j => v.items[i] # v.items[j]
      BY <3>2, AllDifferent
    <3> HIDE DEF unlike
    <3>8. found \in Results /\ found.ok = (all.ok /\ unlike)
      <4>1. unlike \in BOOLEAN BY DEF unlike
      <4> QED BY <3>1, <3>6, <4>1, OutcomeType
    <3> HIDE DEF found
    <3>9. ASSUME found.ok PROVE Validating!Fits(s, fits, v)
      <4>1. \A i \in DOMAIN v.items : v.items[i] \in fits[n] BY <3>3, <3>4, <3>5, <3>8, <3>9
      <4>2. Len(v.items) <= s.max BY <2>1, <2>3, <3>4
      <4> QED BY <2>1, <2>3, <3>7, <3>8, <3>9, <4>1, <4>2 DEF Validating!Fits
    <3> QED BY <3>8, <3>9
  <2>4. CASE v.kind # "list" \/ Len(v.items) > s.max
    <3>1. found = Validating!Outcome(FALSE, b - 1) BY <2>2, <2>4
    <3> QED BY <1>1, <3>1, OutcomeType
  <2> QED BY <2>3, <2>4
<1>7. ASSUME b > 0, s = Validating!OneOf("a", "b") \/ s = Validating!AnyOf("a", "b")
      PROVE  found \in Results /\ (found.ok => Validating!Fits(s, fits, v))
  <2>1. s.of[1].to = "a" /\ s.of[2].to = "b" /\ s.kind \in {"oneOf", "anyOf"}
    BY <1>7 DEF Validating!OneOf, Validating!AnyOf, Validating!Ref
  <2> DEFINE first == Validating!Alternative(of, s.of[1], v, left)
             second == Validating!Alternative(of, s.of[2], v, first.left)
  <2>2. "a" \in Validating!Name /\ "b" \in Validating!Name BY DEF Validating!Name
  <2>3. first \in Results /\ (first.ok => v \in fits["a"])
    BY <1>1, <2>1, <2>2, AlternativeSound
  <2>4. first.ok \in BOOLEAN /\ first.left \in Int BY <2>3 DEF Results
  <2> HIDE DEF first
  <2>5. second \in Results /\ (second.ok => v \in fits["b"])
    BY <1>1, <2>1, <2>2, <2>4, AlternativeSound
  <2>6. second.ok \in BOOLEAN /\ second.left \in Int BY <2>5 DEF Results
  <2>7. CASE s.kind = "oneOf"
    <3>1. found = Validating!Outcome(first.ok # second.ok, second.left)
      BY <1>7, <2>7 DEF Validating!Inspected, first
    <3> HIDE DEF second
    <3>2. found \in Results /\ (found.ok <=> first.ok # second.ok)
      <4>1. (first.ok # second.ok) \in BOOLEAN OBVIOUS
      <4> QED BY <2>6, <3>1, <4>1, OutcomeType
    <3> HIDE DEF found
    <3>3. found.ok => (v \in fits["a"]) # (v \in fits["b"]) BY <2>3, <2>4, <2>5, <2>6, <2>7, <3>2
    <3> QED BY <2>1, <2>7, <3>2, <3>3 DEF Validating!Fits
  <2>8. CASE s.kind = "anyOf"
    <3>1. found = IF first.ok THEN first ELSE second
      BY <1>7, <2>8 DEF Validating!Inspected, first
    <3> HIDE DEF second
    <3>2. found \in Results /\ (found.ok => v \in fits["a"] \/ v \in fits["b"])
      BY <2>3, <2>5, <3>1
    <3> HIDE DEF found
    <3> QED BY <2>1, <2>8, <3>2 DEF Validating!Fits
  <2> QED BY <2>1, <2>7, <2>8
<1>8. s # Validating!Unclosed BY DEF Validating!Restricted
<1> HIDE DEF found
<1>9. b > 0 => found \in Results /\ (found.ok => Validating!Fits(s, fits, v))
  BY <1>3, <1>4, <1>5, <1>6, <1>7, <1>8, ShapeKinds
<1>10. b <= 0 \/ b > 0 OBVIOUS
<1> QED BY <1>2, <1>9, <1>10 DEF found

\* A round of inspecting the definitions, and a round of what they mean.
InspectedBy(of, d, U) ==
  [n \in Validating!Name |-> [u \in U |-> [b \in Int |-> Validating!Inspected(of, d[n], u, b)]]]
Round(fits, d, U) ==
  [n \in Validating!Name |-> {v \in U : Validating!Fits(d[n], fits, v)}]

\* The one finds what the other says.
LEMMA RoundSound ==
  ASSUME NEW of, NEW fits, NEW U, Agrees(of, fits, U), \A v \in U : Solid(v, U),
         NEW d \in [Validating!Name -> Validating!Shape],
         \A n \in Validating!Name :
            /\ Validating!Restricted(d[n]) /\ d[n].kind # "oneOf"
            /\ Validating!References(d[n]) \subseteq Validating!Name
  PROVE  Agrees(InspectedBy(of, d, U), Round(fits, d, U), U)
<1>1. ASSUME NEW n \in Validating!Name, NEW u \in U, NEW b \in Int
      PROVE  /\ Validating!Inspected(of, d[n], u, b) \in Results
             /\ Validating!Inspected(of, d[n], u, b).ok => Validating!Fits(d[n], fits, u)
  <2>1. d[n] \in Validating!Shape /\ Validating!Restricted(d[n]) /\ d[n].kind # "oneOf"
        /\ Validating!References(d[n]) \subseteq Validating!Name /\ Solid(u, U)
    OBVIOUS
  <2> QED BY <2>1, InspectedSound
<1> QED BY <1>1 DEF Agrees, InspectedBy, Round

\* No definition of an admitted catalog is a choice of one, which refers to every definition.
LEMMA NoChoice ==
  ASSUME NEW d, ~Validating!Visit(d).cyclic, NEW n \in Validating!Name
  PROVE  d[n] # Validating!OneOf("a", "b")
<1> SUFFICES ASSUME d[n] = Validating!OneOf("a", "b") PROVE FALSE
  OBVIOUS
<1>1. n \notin Validating!References(d[n])
  BY NotCyclic DEF Sorted, Refers
<1>2. d[n].kind = "oneOf" /\ d[n].of[1].to = "a" /\ d[n].of[2].to = "b"
  BY DEF Validating!OneOf, Validating!Ref
<1>3. Validating!References(d[n]) = {d[n].of[i].to : i \in 1 .. 2} BY <1>2 DEF Validating!References
<1>4. n \in {d[n].of[i].to : i \in 1 .. 2} BY <1>2 DEF Validating!Name
<1> QED BY <1>1, <1>3, <1>4

LEMMA OnlyOneChoice ==
  ASSUME NEW s \in Validating!Shape, s.kind = "oneOf" PROVE s = Validating!OneOf("a", "b")
BY ShapeKinds DEF Validating!Const, Validating!Ref, Validating!Object, Validating!List,
   Validating!OneOf, Validating!AnyOf, Validating!Unclosed

\* A value that passes conforms, where no part of it fits both alternatives.
LEMMA InspectSound ==
  ASSUME NEW d \in [Validating!Name -> Validating!Shape], NEW s \in Validating!Shape,
         Validating!Admits(d, s),
         NEW v, \A u \in Validating!Under(v) : Solid(u, Validating!Under(v)),
         Validating!Discriminated(d, v), Validating!inspect(d, s, v, Budget).ok
  PROVE  Validating!Conforms(d, s, v)
<1> DEFINE U == Validating!Under(v)
           none == [n \in Validating!Name |->
                     [u \in U |-> [b \in Int |-> Validating!Outcome(FALSE, b)]]]
           once == InspectedBy(none, d, U)
           twice == InspectedBy(once, d, U)
           fits0 == [n \in Validating!Name |-> {}]
           fits1 == Round(fits0, d, U)
           fits2 == Round(fits1, d, U)
<1>1. /\ Validating!inspect(d, s, v, Budget) = Validating!Inspected(twice, s, v, Budget)
      /\ Validating!Meaning(d, U) = fits2
  BY DEF Validating!inspect, Validating!Meaning, InspectedBy, Round
<1>2. \A u \in U : Solid(u, U) OBVIOUS
<1>3. v \in U BY DEF Validating!Under
<1> HIDE DEF U
<1>4. /\ Validating!Restricted(s) /\ Validating!References(s) \subseteq Validating!Name
      /\ ~Validating!Visit(d).cyclic
      /\ \A n \in Validating!Name :
            Validating!Restricted(d[n]) /\ Validating!References(d[n]) \subseteq Validating!Name
  BY DEF Validating!Admits, Validating!validateRestrictedSchemaWithLocalRefs
<1>5. \A n \in Validating!Name : d[n].kind # "oneOf" BY <1>4, NoChoice, OnlyOneChoice
<1>6. Agrees(none, fits0, U) BY OutcomeType DEF Agrees
<1> HIDE DEF none, fits0
<1>7. Agrees(once, fits1, U) BY <1>2, <1>4, <1>5, <1>6, RoundSound
<1> HIDE DEF once, fits1
<1>8. Agrees(twice, fits2, U) BY <1>2, <1>4, <1>5, <1>7, RoundSound
<1> HIDE DEF twice, fits2
<1>9. fits2["a"] \cap fits2["b"] = {} BY <1>1 DEF Validating!Discriminated, U
<1>10. Budget \in Int BY ContractsAssumption DEF Validating!ContractAssumption
<1>11. Validating!Fits(s, fits2, v) BY <1>1, <1>2, <1>3, <1>4, <1>8, <1>9, <1>10, InspectedSound
<1> QED BY <1>1, <1>11 DEF Validating!Conforms, U

\* Whether a value fits depends on the definitions the shape refers to only.
LEMMA FitsAlike ==
  ASSUME NEW s \in Validating!Shape, NEW fits, NEW others,
         \A n \in Validating!References(s) : fits[n] = others[n], NEW v
  PROVE  Validating!Fits(s, fits, v) = Validating!Fits(s, others, v)
<1>1. ASSUME NEW c \in Validating!Atom, s = Validating!Const(c)
      PROVE  Validating!Fits(s, fits, v) = Validating!Fits(s, others, v)
  <2>1. s.kind = "const" BY <1>1 DEF Validating!Const
  <2> QED BY <2>1 DEF Validating!Fits
<1>2. ASSUME NEW n, s = Validating!Ref(n)
      PROVE  Validating!Fits(s, fits, v) = Validating!Fits(s, others, v)
  <2>1. s.kind = "ref" BY <1>2 DEF Validating!Ref
  <2>2. s.to \in Validating!References(s) BY <2>1 DEF Validating!References
  <2> QED BY <2>1, <2>2 DEF Validating!Fits
<1>3. ASSUME NEW m, NEW n, s = Validating!Object(m, n)
      PROVE  Validating!Fits(s, fits, v) = Validating!Fits(s, others, v)
  <2>1. s.kind = "object" BY <1>3 DEF Validating!Object
  <2>2. \A key \in {"x", "y"} : fits[s[key].to] = others[s[key].to]
    BY <1>3, <2>1 DEF Validating!References, Validating!Object
  <2>3. \A f : Validating!Fits(s, f, v) <=>
               /\ v.kind = "record"
               /\ "x" \in DOMAIN v.of /\ DOMAIN v.of \subseteq {"x", "y"}
               /\ \A key \in DOMAIN v.of : v.of[key] \in f[s[key].to]
    BY <2>1 DEF Validating!Fits
  <2>4. Validating!Fits(s, fits, v) <=> Validating!Fits(s, others, v) BY <2>2, <2>3
  <2>5. \A f : Validating!Fits(s, f, v) \in BOOLEAN BY <2>1 DEF Validating!Fits
  <2> QED BY <2>4, <2>5
<1>4. ASSUME NEW n, NEW max, s = Validating!List(n, max)
      PROVE  Validating!Fits(s, fits, v) = Validating!Fits(s, others, v)
  <2>1. s.kind = "array" BY <1>4 DEF Validating!List
  <2>2. s.of.to \in Validating!References(s) BY <2>1 DEF Validating!References
  <2> QED BY <2>1, <2>2 DEF Validating!Fits
<1>5. ASSUME s = Validating!OneOf("a", "b") \/ s = Validating!AnyOf("a", "b")
      PROVE  Validating!Fits(s, fits, v) = Validating!Fits(s, others, v)
  <2>1. s.kind \in {"oneOf", "anyOf"} BY <1>5 DEF Validating!OneOf, Validating!AnyOf
  <2>2. \A i \in 1 .. 2 : s.of[i].to \in Validating!References(s)
    BY <2>1 DEF Validating!References
  <2>3. fits[s.of[1].to] = others[s.of[1].to] /\ fits[s.of[2].to] = others[s.of[2].to]
    BY <2>2
  <2> QED BY <2>1, <2>3 DEF Validating!Fits
<1>6. ASSUME s = Validating!Unclosed
      PROVE  Validating!Fits(s, fits, v) = Validating!Fits(s, others, v)
  BY <1>6 DEF Validating!Unclosed, Validating!Fits
<1> QED BY <1>1, <1>2, <1>3, <1>4, <1>5, <1>6, ShapeKinds

\* Where no definition refers to itself, two rounds settle what the definitions mean: one
\* more changes nothing.
THEOREM MeaningSettles ==
  ASSUME NEW d \in [Validating!Name -> Validating!Shape], ~Validating!Visit(d).cyclic,
         \A n \in Validating!Name : Validating!References(d[n]) \subseteq Validating!Name,
         NEW values
  PROVE  LET fits == Validating!Meaning(d, values)
         IN fits = Round(fits, d, values)
<1> DEFINE fits0 == [n \in Validating!Name |-> {}]
           fits1 == Round(fits0, d, values)
           fits2 == Round(fits1, d, values)
           fits3 == Round(fits2, d, values)
<1>1. Validating!Meaning(d, values) = fits2 BY DEF Validating!Meaning, Round
<1>2. ASSUME NEW f, NEW g, NEW n \in Validating!Name,
             \A m \in Validating!References(d[n]) : f[m] = g[m]
      PROVE  Round(f, d, values)[n] = Round(g, d, values)[n]
  <2>1. \A v : Validating!Fits(d[n], f, v) = Validating!Fits(d[n], g, v) BY <1>2, FitsAlike
  <2> QED BY <2>1 DEF Round
<1>3. \A n, m \in Validating!Name :
         /\ n \notin Validating!References(d[n])
         /\ m \in Validating!References(d[n]) => n \notin Validating!References(d[m])
  BY NotCyclic DEF Sorted, Refers
<1>4. DOMAIN fits2 = Validating!Name /\ DOMAIN fits3 = Validating!Name
      /\ fits2 = [n \in Validating!Name |-> fits2[n]]
      /\ fits3 = [n \in Validating!Name |-> fits3[n]]
  BY DEF Round
<1>5. \A n \in Validating!Name : Validating!References(d[n]) = {} =>
         fits1[n] = fits2[n] /\ fits2[n] = fits3[n]
  BY <1>2
<1>6. \A n \in Validating!Name :
         (\A m \in Validating!References(d[n]) : fits1[m] = fits2[m]) => fits2[n] = fits3[n]
  BY <1>2
<1> HIDE DEF fits1, fits2, fits3
<1>7. \A n \in Validating!Name : fits2[n] = fits3[n]
  <2> SUFFICES ASSUME NEW n \in Validating!Name PROVE fits2[n] = fits3[n]
    OBVIOUS
  <2>1. \A m \in Validating!References(d[n]) :
           m \in Validating!Name /\ Validating!References(d[m]) = {}
    <3> SUFFICES ASSUME NEW m \in Validating!References(d[n]),
                        NEW k \in Validating!References(d[m])
                 PROVE  FALSE
      OBVIOUS
    <3>1. m \in Validating!Name /\ k \in Validating!Name OBVIOUS
    <3> QED BY <1>3, <3>1 DEF Validating!Name
  <2> QED BY <1>5, <1>6, <2>1
<1>8. fits2 = fits3 BY <1>4, <1>7
<1> QED BY <1>1, <1>8 DEF fits3

(***************************************************************************)
(* Texts and their values (ContractSchemas).                               *)
(***************************************************************************)

Leaves == {Validating!Leaf(c) : c \in Validating!Atom}
Keys == {"x", "y", "z"}

\* A text whose parts are in S.
Textual(t, S) ==
  \/ t \in Leaves
  \/ \E q \in Seq(S) : t = Validating!Listing(q)
  \/ \E q \in Seq(Keys \X S) : t = Validating!Members(q)

LEMMA PairText ==
  ASSUME NEW k \in Keys, NEW c \in Validating!Atom
  PROVE  Textual(Validating!Pair(k, c), Leaves)
<1> DEFINE q == <<<<"x", Validating!Leaf(c)>>, <<k, Validating!Leaf(0)>>>>
<1>1. Validating!Leaf(c) \in Leaves /\ Validating!Leaf(0) \in Leaves
  BY DEF Leaves, Validating!Atom
<1>2. q \in Seq(Keys \X Leaves) BY <1>1 DEF Keys
<1>3. Validating!Pair(k, c) = Validating!Members(q) BY DEF Validating!Pair
<1> QED BY <1>2, <1>3 DEF Textual

LEMMA InnerText == \A t \in Validating!Inner : Textual(t, Leaves)
<1>1. Validating!Leaf(0) \in Leaves BY DEF Leaves, Validating!Atom
<1>2. Textual(Validating!Listing(<<Validating!Leaf(0)>>), Leaves)
  <2>1. <<Validating!Leaf(0)>> \in Seq(Leaves) BY <1>1
  <2> QED BY <2>1 DEF Textual
<1>3. Textual(Validating!Members(<<<<"x", Validating!Leaf(0)>>>>), Leaves)
  <2>1. <<<<"x", Validating!Leaf(0)>>>> \in Seq(Keys \X Leaves) BY <1>1 DEF Keys
  <2> QED BY <2>1 DEF Textual
<1>4. Textual(Validating!Pair("x", 1), Leaves) BY PairText DEF Keys, Validating!Atom
<1>5. \A c \in Validating!Atom : Textual(Validating!Leaf(c), Leaves) BY DEF Textual, Leaves
<1> QED BY <1>2, <1>3, <1>4, <1>5 DEF Validating!Inner

\* What is a text with parts in S is one with parts in a larger set.
LEMMA TextIn ==
  ASSUME NEW S, NEW T, S \subseteq T, NEW t, Textual(t, S)
  PROVE  Textual(t, T)
<1>1. CASE t \in Leaves BY <1>1 DEF Textual
<1>2. ASSUME NEW q \in Seq(S), t = Validating!Listing(q) PROVE Textual(t, T)
  <2>1. q \in Seq(T) BY <1>2
  <2> QED BY <1>2, <2>1 DEF Textual
<1>3. ASSUME NEW q \in Seq(Keys \X S), t = Validating!Members(q) PROVE Textual(t, T)
  <2>1. Keys \X S \subseteq Keys \X T OBVIOUS
  <2>2. q \in Seq(Keys \X T) BY <1>3, <2>1
  <2> QED BY <1>3, <2>2 DEF Textual
<1> QED BY <1>1, <1>2, <1>3 DEF Textual

\* The parts of a text of Text.
Parts == Validating!Inner \cup {Validating!Pair(k, c) : k \in Keys, c \in Validating!Atom}
         \cup {Validating!Turned}

LEMMA PartText == \A t \in Parts : Textual(t, Leaves)
<1>1. Textual(Validating!Turned, Leaves)
  <2> DEFINE q == <<<<"y", Validating!Leaf(0)>>, <<"x", Validating!Leaf(0)>>>>
  <2>1. Validating!Leaf(0) \in Leaves BY DEF Leaves, Validating!Atom
  <2>2. q \in Seq(Keys \X Leaves) BY <2>1 DEF Keys
  <2>3. Validating!Turned = Validating!Members(q) BY DEF Validating!Turned
  <2> QED BY <2>2, <2>3 DEF Textual
<1> QED BY <1>1, InnerText, PairText DEF Parts

LEMMA WholeText == \A t \in Validating!Text : Textual(t, Parts)
<1>1. /\ Leaves \subseteq Parts /\ Validating!Inner \subseteq Parts
      /\ Validating!Leaf(0) \in Parts /\ Validating!Leaf(0) \in Leaves
  BY DEF Parts, Leaves, Validating!Inner, Validating!Atom
<1>2. \A t \in Validating!Inner : Textual(t, Parts) BY <1>1, InnerText, TextIn
<1>3. \A k \in Keys, c \in Validating!Atom : Textual(Validating!Pair(k, c), Parts)
  BY <1>1, PairText, TextIn
<1>4. \A q \in Seq(Parts) : Textual(Validating!Listing(q), Parts) BY DEF Textual
<1>5. \A q \in Seq(Keys \X Parts) : Textual(Validating!Members(q), Parts) BY DEF Textual
<1>6. /\ <<>> \in Seq(Parts)
      /\ \A t \in Validating!Inner : <<t>> \in Seq(Parts)
  BY <1>1
<1>7. \A s \in Validating!Inner \X Validating!Inner : s \in Seq(Parts)
  <2> SUFFICES ASSUME NEW s \in Validating!Inner \X Validating!Inner PROVE s \in Seq(Parts)
    OBVIOUS
  <2>1. s = <<s[1], s[2]>> /\ s[1] \in Parts /\ s[2] \in Parts BY <1>1
  <2>2. <<s[1], s[2]>> \in Seq(Parts) BY <2>1
  <2> QED BY <2>1, <2>2
<1> DEFINE Short == {<<>>} \cup {<<u>> : u \in Validating!Inner}
                    \cup (Validating!Inner \X Validating!Inner)
           Long == <<Validating!Pair("y", 0), Validating!Members(<<<<"x", Validating!Leaf(0)>>>>),
                     Validating!Leaf(0)>>
<1>8. \A s \in Short : Textual(Validating!Listing(s), Parts)
  BY <1>4, <1>6, <1>7
<1>9. /\ Validating!Pair("y", 0) \in Parts /\ Validating!Turned \in Parts
      /\ Validating!Members(<<<<"x", Validating!Leaf(0)>>>>) \in Parts
  BY DEF Parts, Keys, Validating!Atom, Validating!Inner
<1>10. /\ Long \in Seq(Parts)
       /\ <<Validating!Pair("y", 0), Validating!Turned>> \in Seq(Parts)
  BY <1>1, <1>9
<1>11. ASSUME NEW t \in Validating!Inner PROVE Textual(Validating!Members(<<<<"x", t>>>>), Parts)
  <2>1. <<<<"x", t>>>> \in Seq(Keys \X Parts) BY <1>1 DEF Keys
  <2> QED BY <1>5, <2>1
<1>12. Textual(Validating!Members(<<<<"y", Validating!Leaf(0)>>>>), Parts)
  <2>1. <<<<"y", Validating!Leaf(0)>>>> \in Seq(Keys \X Parts) BY <1>1 DEF Keys
  <2> QED BY <1>5, <2>1
<1> SUFFICES ASSUME NEW t \in Validating!Text PROVE Textual(t, Parts)
  OBVIOUS
<1>13. CASE t \in {Validating!Listing(s) : s \in Short}
  BY <1>8, <1>13
<1>14. CASE t \in {Validating!Pair(k, c) : k \in {"x", "y", "z"}, c \in Validating!Atom}
  BY <1>3, <1>14 DEF Keys
<1>15. CASE t \in {Validating!Members(<<<<"x", u>>>>) : u \in Validating!Inner}
  BY <1>11, <1>15
<1>16. CASE \/ t = Validating!Listing(Long)
            \/ t = Validating!Listing(<<Validating!Pair("y", 0), Validating!Turned>>)
  BY <1>4, <1>10, <1>16
<1> QED BY <1>2, <1>12, <1>13, <1>14, <1>15, <1>16 DEF Validating!Text

\* The values directly in v are among W, in an order or under names a validator inspects.
Formed(v, W) ==
  /\ Validating!Within(v) \subseteq W
  /\ v.kind = "list" => v.items \in Seq(W)
  /\ v.kind = "record" => DOMAIN v.of \subseteq Keys /\ \A key \in DOMAIN v.of : v.of[key] \in W

\* Of a text with no name twice both readers read the same, whose parts are the values of
\* the parts.
LEMMA ReadsAlike ==
  ASSUME NEW S, NEW t, Textual(t, S), Validating!NamesDiffer(t), NEW value, NEW V,
         \A u \in Validating!Inside(t) : value[u] \in V, NEW take
  PROVE  /\ Formed(Validating!Read(t, take, value), V)
         /\ Validating!Read(t, take, value) = Validating!Read(t, "last", value)
<1>1. CASE t \in Leaves
  <2>1. t.kind = "atom" BY <1>1 DEF Leaves, Validating!Leaf
  <2>2. \A k : Validating!Read(t, k, value) = t BY <2>1 DEF Validating!Read
  <2>3. Validating!Within(t) = {} BY <2>1 DEF Validating!Within
  <2> QED BY <2>1, <2>2, <2>3 DEF Formed
<1>2. ASSUME NEW q \in Seq(S), t = Validating!Listing(q)
      PROVE  /\ Formed(Validating!Read(t, take, value), V)
             /\ Validating!Read(t, take, value) = Validating!Read(t, "last", value)
  <2>1. t.kind = "list" /\ t.items = q BY <1>2 DEF Validating!Listing
  <2> DEFINE r == Validating!Listing([i \in DOMAIN q |-> value[q[i]]])
  <2>2. \A k : Validating!Read(t, k, value) = r BY <2>1 DEF Validating!Read
  <2>3. r.kind = "list" /\ r.items = [i \in DOMAIN q |-> value[q[i]]] BY DEF Validating!Listing
  <2>4. \A i \in DOMAIN q : value[q[i]] \in V BY <2>1 DEF Validating!Inside
  <2>5. r.items \in Seq(V) /\ DOMAIN r.items = DOMAIN q
    <3>1. DOMAIN q = 1 .. Len(q) /\ Len(q) \in Nat OBVIOUS
    <3> QED BY <2>3, <2>4, <3>1
  <2>6. Validating!Within(r) = {r.items[i] : i \in DOMAIN r.items} BY <2>3 DEF Validating!Within
  <2>7. \A i \in DOMAIN r.items : r.items[i] \in V BY <2>3, <2>4
  <2> HIDE DEF r
  <2> QED BY <2>2, <2>3, <2>5, <2>6, <2>7 DEF Formed
<1>3. ASSUME NEW q \in Seq(Keys \X S), t = Validating!Members(q)
      PROVE  /\ Formed(Validating!Read(t, take, value), V)
             /\ Validating!Read(t, take, value) = Validating!Read(t, "last", value)
  <2>1. t.kind = "members" /\ t.of = q BY <1>3 DEF Validating!Members
  <2> DEFINE named == {q[i][1] : i \in DOMAIN q}
             At(key) == {i \in DOMAIN q : q[i][1] = key}
             Taken(k, key) ==
               IF k = "last" THEN Validating!Max(At(key)) ELSE Validating!Min(At(key))
             of(k) == [key \in named |-> value[q[Taken(k, key)][2]]]
             r(k) == [kind |-> "record", of |-> of(k)]
  <2>2. \A k : Validating!Read(t, k, value) = r(k) BY <2>1 DEF Validating!Read
  <2>3. DOMAIN q \subseteq Nat OBVIOUS
  <2>4. ASSUME NEW key \in named
        PROVE  \E i \in DOMAIN q : \A k : Taken(k, key) = i
    <3>1. PICK i \in DOMAIN q : q[i][1] = key OBVIOUS
    <3>2. At(key) = {i} BY <2>1, <3>1 DEF Validating!NamesDiffer
    <3>3. i \in Nat BY <2>3
    <3>4. Validating!Max({i}) = i /\ Validating!Min({i}) = i
      BY <3>3 DEF Validating!Max, Validating!Min
    <3> QED BY <3>2, <3>4
  <2>5. \A i \in DOMAIN q : value[q[i][2]] \in V BY <2>1 DEF Validating!Inside
  <2>6. named \subseteq Keys
    <3>1. \A i \in DOMAIN q : q[i] \in Keys \X S OBVIOUS
    <3> QED BY <3>1
  <2> HIDE DEF Taken, named
  <2>7. \A key \in named : value[q[Taken(take, key)][2]] \in V
                           /\ Taken(take, key) = Taken("last", key)
    BY <2>4, <2>5
  <2>8. of(take) = of("last") /\ DOMAIN of(take) = named
        /\ \A key \in named : of(take)[key] \in V
    BY <2>7
  <2>9. r(take).kind = "record" /\ r(take).of = of(take) /\ r(take) = r("last") BY <2>8
  <2> HIDE DEF r, of
  <2>10. Validating!Within(r(take)) = {of(take)[key] : key \in named}
    BY <2>8, <2>9 DEF Validating!Within
  <2> QED BY <2>2, <2>6, <2>8, <2>9, <2>10 DEF Formed
<1> QED BY <1>1, <1>2, <1>3 DEF Textual

LEMMA InsideText ==
  ASSUME NEW S, NEW t, Textual(t, S) PROVE Validating!Inside(t) \subseteq S
<1>1. CASE t \in Leaves BY <1>1 DEF Leaves, Validating!Leaf, Validating!Inside
<1>2. ASSUME NEW q \in Seq(S), t = Validating!Listing(q) PROVE Validating!Inside(t) \subseteq S
  <2>1. Validating!Inside(t) = {q[i] : i \in DOMAIN q}
    BY <1>2 DEF Validating!Listing, Validating!Inside
  <2> QED BY <2>1
<1>3. ASSUME NEW q \in Seq(Keys \X S), t = Validating!Members(q)
      PROVE  Validating!Inside(t) \subseteq S
  <2>1. Validating!Inside(t) = {q[i][2] : i \in DOMAIN q}
    BY <1>3 DEF Validating!Members, Validating!Inside
  <2>2. \A i \in DOMAIN q : q[i] \in Keys \X S OBVIOUS
  <2> QED BY <2>1, <2>2
<1> QED BY <1>1, <1>2, <1>3 DEF Textual

\* The value of a text without a name twice, and all there is in it, may be inspected; and
\* it is the same whichever of two members of one name a reader takes.
LEMMA OneValue ==
  ASSUME NEW t \in Validating!Text, Validating!KeysDiffer(t), NEW take
  PROVE  /\ Validating!Value(t, take) = Validating!Value(t, "last")
         /\ LET U == Validating!Under(Validating!Value(t, "last"))
            IN \A u \in U : Solid(u, U)
<1> DEFINE atoms(u) == [w \in Validating!Inside(u) |-> w]
           part(u, k) == Validating!Read(u, k, atoms(u))
           parts(k) == [u \in Validating!Inside(t) |-> part(u, k)]
           v == Validating!Value(t, "last")
           U == Validating!Under(v)
<1>1. Textual(t, Parts) /\ Validating!Inside(t) \subseteq Parts BY WholeText, InsideText
<1>2. ASSUME NEW u \in Validating!Inside(t), NEW k
      PROVE  Formed(part(u, k), Leaves) /\ part(u, k) = part(u, "last")
  <2>1. Textual(u, Leaves) /\ Validating!Inside(u) \subseteq Leaves BY <1>1, PartText, InsideText
  <2>2. Validating!NamesDiffer(u) BY DEF Validating!KeysDiffer
  <2>3. \A w \in Validating!Inside(u) : atoms(u)[w] \in Leaves BY <2>1
  <2> HIDE DEF atoms
  <2> QED BY <2>1, <2>2, <2>3, ReadsAlike
<1>3. \A k : Validating!Value(t, k) = Validating!Read(t, k, parts(k)) BY DEF Validating!Value
<1> DEFINE V == {part(u, "last") : u \in Validating!Inside(t)}
<1> HIDE DEF part
<1>4. parts(take) = parts("last") BY <1>2
<1>5. \A u \in Validating!Inside(t) : parts("last")[u] \in V OBVIOUS
<1> HIDE DEF parts
<1>6. Validating!NamesDiffer(t) BY DEF Validating!KeysDiffer
<1>7. Formed(v, V) /\ Validating!Value(t, take) = v
  <2>1. Formed(Validating!Read(t, "last", parts("last")), V) BY <1>1, <1>5, <1>6, ReadsAlike
  <2>2. Validating!Read(t, take, parts("last")) = Validating!Read(t, "last", parts("last"))
    BY <1>1, <1>5, <1>6, ReadsAlike
  <2> QED BY <1>3, <1>4, <2>1, <2>2
<1>8. \A u \in V : Formed(u, Leaves) BY <1>2
<1> HIDE DEF V, v
<1>9. /\ U = {v} \cup Validating!Within(v)
               \cup UNION {Validating!Within(u) : u \in Validating!Within(v)}
      /\ Validating!Within(v) \subseteq V
  BY <1>7 DEF Validating!Under, Formed
<1>10. ASSUME NEW u, u = v \/ u \in Validating!Within(v) PROVE Solid(u, U)
  <2>1. u \in U /\ Validating!Within(u) \subseteq U BY <1>9, <1>10
  <2>2. \E W : Formed(u, W) BY <1>7, <1>8, <1>9, <1>10
  <2>3. u.kind = "list" => u.items \in Seq(U)
    <3> SUFFICES ASSUME u.kind = "list" PROVE u.items \in Seq(U)
      OBVIOUS
    <3>1. PICK W : u.items \in Seq(W) BY <2>2 DEF Formed
    <3>2. \A i \in DOMAIN u.items : u.items[i] \in U BY <2>1 DEF Validating!Within
    <3> QED BY <3>1, <3>2
  <2>4. u.kind = "record" =>
          DOMAIN u.of \subseteq {"x", "y", "z"} /\ \A key \in DOMAIN u.of : u.of[key] \in U
    BY <2>1, <2>2 DEF Formed, Keys, Validating!Within
  <2> QED BY <2>1, <2>3, <2>4 DEF Solid
<1>11. ASSUME NEW u \in Validating!Within(v), NEW w \in Validating!Within(u) PROVE Solid(w, U)
  <2>1. w \in Leaves /\ w \in U BY <1>8, <1>9 DEF Formed
  <2>2. w.kind = "atom" BY <2>1 DEF Leaves, Validating!Leaf
  <2> QED BY <2>1, <2>2 DEF Solid
<1>12. \A u \in U : Solid(u, U) BY <1>9, <1>10, <1>11
<1> QED BY <1>7, <1>12 DEF v

(***************************************************************************)
(* The catalog and its messages (ContractSchemas).                         *)
(***************************************************************************)

\* What was admitted passed the tools, what was answered "valid" passed the validator, and a
\* schema that took the place of another has its shape.
SchemasInv ==
  /\ tool = "schemas" =>
       defs \in [Validating!Name -> Validating!Shape] /\ schema.shape \in Validating!Shape
  /\ admitted = "yes" => tool = "schemas" /\ Validating!Admits(defs, schema.shape)
  /\ answer = "valid" =>
       /\ admitted = "yes" /\ text \in Validating!Text
       /\ Validating!parseAndValidateContract(defs, schema.shape, text)

LEMMA SchemasSteps ==
  SchemasInv /\ [MCNext]_<<toolingVars, validating, profiling, judging>> => SchemasInv'
<1> SUFFICES ASSUME SchemasInv, tool' = tool,
                    (tool = "schemas" /\ Validating!ContractNext) \/ UNCHANGED validating
             PROVE  SchemasInv'
  BY DEF MCNext, Validate, ToolingNext, toolingVars
<1>1. CASE UNCHANGED validating BY <1>1 DEF validating, SchemasInv
<1>2. CASE tool = "schemas" /\ Validating!verifyContracts
  BY <1>2 DEF SchemasInv, Validating!verifyContracts
<1>3. ASSUME NEW t \in Validating!Text, Validating!Receive(t) PROVE SchemasInv'
  BY <1>3 DEF SchemasInv, Validating!Receive
<1>4. ASSUME NEW candidate \in Validating!Schema, Validating!Supersede(candidate) PROVE SchemasInv'
  <2>1. candidate.shape = schema.shape
    BY <1>4 DEF Validating!Supersede, Validating!checkSameVersionCompatibility,
                Validating!checkOldProducerToNewConsumerCompatibility
  <2> QED BY <1>4, <2>1 DEF SchemasInv, Validating!Supersede
<1> QED BY <1>1, <1>2, <1>3, <1>4 DEF Validating!ContractNext

LEMMA SchemaAccepted == SchemasInv => Validating!AcceptedConforms
<1> SUFFICES ASSUME SchemasInv, admitted = "yes" PROVE
      /\ ~Validating!Circular(defs)
      /\ \A n \in Validating!Name : Validating!References(defs[n]) \subseteq Validating!Name
      /\ answer = "valid" /\ Validating!Discriminated(defs, Validating!Value(text, "last")) =>
           \A take \in {"first", "last"} :
              Validating!Conforms(defs, schema.shape, Validating!Value(text, take))
  BY DEF Validating!AcceptedConforms
<1>1. /\ defs \in [Validating!Name -> Validating!Shape] /\ schema.shape \in Validating!Shape
      /\ Validating!Admits(defs, schema.shape)
  BY DEF SchemasInv
<1>2. /\ ~Validating!Visit(defs).cyclic
      /\ \A n \in Validating!Name : Validating!References(defs[n]) \subseteq Validating!Name
  BY <1>1 DEF Validating!Admits, Validating!validateRestrictedSchemaWithLocalRefs
<1>3. ASSUME answer = "valid", Validating!Discriminated(defs, Validating!Value(text, "last")),
             NEW take \in {"first", "last"}
      PROVE  Validating!Conforms(defs, schema.shape, Validating!Value(text, take))
  <2>1. /\ text \in Validating!Text /\ Validating!KeysDiffer(text)
        /\ Validating!inspect(defs, schema.shape, Validating!Value(text, "last"), Budget).ok
    BY <1>3 DEF SchemasInv, Validating!parseAndValidateContract
  <2> DEFINE v == Validating!Value(text, "last")
  <2>2. Validating!Value(text, take) = v BY <2>1, OneValue
  <2>3. \A u \in Validating!Under(v) : Solid(u, Validating!Under(v)) BY <2>1, OneValue
  <2> HIDE DEF v
  <2>4. Validating!Conforms(defs, schema.shape, v) BY <1>1, <1>3, <2>1, <2>3, InspectSound DEF v
  <2> QED BY <2>2, <2>4
<1> QED BY <1>2, <1>3, NotCircular

(***************************************************************************)
(* The three parts of the package together.                                *)
(***************************************************************************)

LEMMA ProfileReads == ProfileInv => Profiling!OneReading
<1> SUFFICES ASSUME ProfileInv, accepted = "yes" PROVE Profiling!OneReading
  BY DEF Profiling!OneReading
<1> QED BY ReadOnce, AllUsed DEF Profiling!OneReading

LEMMA ContractsStart == MCInit => SchemasInv /\ ProfileInv
<1> SUFFICES ASSUME MCInit PROVE SchemasInv /\ ProfileInv
  OBVIOUS
<1>1. SchemasInv
  <2>1. CASE tool = "schemas" BY <2>1 DEF MCInit, Validating!ContractInit, SchemasInv
  <2>2. CASE tool # "schemas" BY <2>2 DEF MCInit, SchemasInv
  <2> QED BY <2>1, <2>2
<1>2. ProfileInv
  <2>1. CASE tool = "profile" BY <2>1 DEF MCInit, Profiling!ProfileInit, ProfileInv
  <2>2. CASE tool # "profile" BY <2>2 DEF MCInit, ProfileInv
  <2> QED BY <2>1, <2>2
<1> QED BY <1>1, <1>2

\* An admitted catalog has no circular definition, what is found valid conforms to its
\* schema under every later one and to every reader, and under an accepted profile what is
\* found coherent has one reading.
THEOREM OneMeaning == MCSpec => []MessagesMeanOneThing
<1>1. SchemasInv /\ ProfileInv => MessagesMeanOneThing
  BY SchemaAccepted, ProfileReads, NothingAttached DEF MessagesMeanOneThing
<1> QED BY <1>1, ContractsStart, SchemasSteps, ProfileSteps, PTL DEF MCSpec
=============================================================================
