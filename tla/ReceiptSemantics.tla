-------------------------- MODULE ReceiptSemantics --------------------------
(***************************************************************************)
(* packages/contracts/src/validation.ts, inspectReceiptSemantics: which    *)
(* receipts are accepted once their shape is right.  A receipt writes the  *)
(* same fact in up to six places (the wrapper, the signature, the logical  *)
(* receipt, its version tuple, the authorized and the dispatched external  *)
(* tuple), and the rules compare the places two by two; others tie the     *)
(* stage of the attempt, the evidence and the kind of receipt to what was  *)
(* authorized and dispatched.  A receipt is accepted if no rule fails.     *)
(*                                                                         *)
(* A fact is a name; each place says 1 or 2 of it.  Identifiers, digests,  *)
(* signatures and lists are kept as far as a rule tells them apart.        *)
(***************************************************************************)
EXTENDS Integers, FiniteSets

CONSTANT Time   \* bound: the instants a receipt may name

ReceiptAssumption == Time \subseteq Nat /\ IsFiniteSet(Time)

VARIABLES
    receipt,   \* the last receipt given to validateContract
    verdict    \* what it answered: "none" yet, "valid" or "invalid"

receiptVars == <<receipt, verdict>>

-----------------------------------------------------------------------------
\* What a receipt is.

\* The rows of the table of allowed five-field keys, as far as they differ in
\* the decision and in the two applicabilities.
Row(state, decision, authorization, dispatch) ==
    [state |-> state, decision |-> decision,
     authorization |-> authorization, dispatch |-> dispatch]

AllowedRows ==
    { Row("authorized", "ALLOW", "required",   "optional"),
      Row("cancelled",  "DENY",  "typed_none", "terminal_stage_fact"),
      Row("invalid",    "DENY",  "typed_none", "forbidden"),
      Row("accepted",   "ALLOW", "typed_none", "forbidden"),
      Row("settled",    "N/A",   "required",   "terminal_stage_fact"),
      Row("completed",  "N/A",   "required",   "required"),
      Row("unknown",    "N/A",   "typed_none", "optional"),
      Row("superseded", "N/A",   "typed_none", "forbidden"),
      Row("failed",     "DENY",  "required",   "terminal_stage_fact"),
      Row("completed",  "ALLOW", "required",   "required"),
      Row("unknown",    "DENY",  "typed_none", "optional") }

NoRow == Row("no such key", "ALLOW", "undefined", "undefined")

External == {"authorized", "dispatched"}
Place == {"wrapper", "signature", "logical", "version"} \cup External

\* The facts the schema writes in each place.
WrapperFacts == {"tenant", "purpose", "operation", "attempt"}
SignatureFacts == {"receipt", "suite", "key"}
OperationFacts == {"request", "tenant", "purpose", "operation type", "lane", "approval",
                   "intent", "sources", "evidence", "memory"}
AttemptFacts == {"attempt", "ordinal", "idempotency"}
FenceFacts == AttemptFacts \cup {"claim", "lease", "effect"}
IssuerFacts == {"chain", "format", "environment", "suite", "key", "issuer", "key owner",
                "key generation", "key view", "lifecycle"}
\* What a verifier of the receipt goes by: its policy and the rule of its projections.
VerifierFacts == {"verifier policy", "projection rule"}
TupleFacts == {"epoch", "purpose policy", "workload", "request versions", "policy",
               "configuration", "decision", "components", "provider", "credential", "stage"}
LogicalFacts ==
    OperationFacts \cup AttemptFacts \cup IssuerFacts \cup VerifierFacts \cup
    {"operation", "receipt", "commitment", "capsule", "origin", "principal"}
VersionFacts ==
    OperationFacts \cup FenceFacts \cup IssuerFacts \cup TupleFacts \cup VerifierFacts
ExternalFacts ==
    OperationFacts \cup FenceFacts \cup TupleFacts \cup
    {"operation", "commitment", "capsule", "origin", "principal", "lifecycle"}
WrittenIn(place) ==
    CASE place = "wrapper"   -> WrapperFacts
      [] place = "signature" -> SignatureFacts
      [] place = "logical"   -> LogicalFacts
      [] place = "version"   -> VersionFacts
      [] place \in External  -> ExternalFacts
Fact == UNION {WrittenIn(p) : p \in Place}

\* The places a receipt has: its external tuples may be null.
PlacesOf(r) == Place \ {t \in External : ~r.has[t]}

\* What a place says of a fact.
Says(r, place, fact) == IF fact = r.fact THEN r.copy[place] ELSE 1

Agree(r, p, q, facts) == \A f \in facts : Says(r, p, f) = Says(r, q, f)

-----------------------------------------------------------------------------
\* The rules.

\* Exactly one row has the receipt's five fields.
HasOneRow(r) == r.row \in AllowedRows

\* The wrapper and the signature name the logical receipt.
WrapperBinds(r) ==
    /\ Agree(r, "wrapper", "logical", WrapperFacts)
    /\ Agree(r, "signature", "logical", SignatureFacts)

\* Only the first receipt of a chain has no predecessor, and it has none.
ChainPosition(r) ==
    IF r.sequence = 1 THEN r.predecessor = {}
                      ELSE r.predecessor = {"id", "signature"}

OriginNamesPrincipal(r) == (r.origin = "system") = (r.principal = "none")

NoAttemptNoOrdinal(r) == ~r.attempt.id => r.attempt.ordinal = 0

\* The fields of an attempt at each stage, AS0 to AS4.
StageFits(r) ==
    LET a == r.attempt
    IN /\ a.id = (r.stage # 0)
       /\ (a.ordinal = 0) = (r.stage \in {0, 1})
       /\ a.claim = (r.stage \in {2, 3, 4})
       /\ a.lease = (r.stage \in {3, 4})
       /\ a.effect = (r.stage = 4)

IdempotencyFits(r) == (r.mode = "required") = r.attempt.idempotency

\* Mutant: only the attempt itself is compared.
AttemptIdBinds(r) == Agree(r, "logical", "version", {"attempt"})
AttemptBinds(r) == Agree(r, "logical", "version", AttemptFacts)

\* The version tuple repeats the operation and whoever issued the receipt.
VersionBinds(r) ==
    Agree(r, "logical", "version",
          {"operation type", "request", "tenant", "purpose", "chain", "format", "environment",
           "lane", "lifecycle", "suite", "issuer", "key", "key owner"})

IntentBinds(r) == Agree(r, "logical", "version", {"intent", "approval"})

SourcesBind(r) == Agree(r, "logical", "version", {"sources", "evidence"})

\* A tool's intent comes with a tool, a receipt without evidence denies and
\* says so, and the memory is the one of the version tuple.
EvidenceFits(r) ==
    /\ r.tool = r.intent
    /\ r.evidence = {} => r.row.decision = "DENY" /\ "NO_EVIDENCE_ADMITTED" \in r.limits
    /\ Agree(r, "logical", "version", {"memory"})

\* Mutant: what the evidence says is not asked.
AttemptByStage(r) == r.stage \in {3, 4}

\* An external attempt may have been made: the attempt held a lease, or the
\* evidence says so.
ExternalAttempt(r) == r.stage \in {3, 4} \/ "dispatch_attempt" \in r.evidence

\* What the row, the stage and the evidence ask of the two external tuples.
DispatchFits(r) ==
    /\ r.has["dispatched"] =>
           r.has["authorized"] /\ Agree(r, "authorized", "dispatched", WrittenIn("dispatched"))
    /\ r.row.authorization = "required" => r.has["authorized"]
    /\ r.row.authorization = "typed_none" => ~r.has["authorized"]
    /\ r.row.dispatch = "required" \/ ExternalAttempt(r) => r.has["dispatched"]
    /\ ExternalAttempt(r) => r.row.dispatch # "forbidden" /\ r.row.authorization # "typed_none"
    /\ r.row.dispatch = "forbidden" => ~r.has["dispatched"]

\* The key was active and valid when the receipt was issued, under the
\* governance the version tuple records.
KeyFits(r) ==
    /\ r.keyEnded = {}
    /\ r.activated <= r.issued
    /\ r.keyFrom <= r.issued /\ r.issued <= r.keyUntil
    /\ Agree(r, "logical", "version", {"key generation", "key view"})

\* Ranges are in order, a body of a request has its commitment, and encodings
\* are the canonical ones.
ValuesFit(r) ==
    /\ r.body = "request" => r.commitment
    /\ r.from <= r.until
    /\ r.canonical

\* An external tuple repeats the attempt and the operation.
ExternalBindsReceipt(r, t) ==
    /\ Agree(r, t, "version", FenceFacts)
    /\ Agree(r, t, "logical",
             {"request", "commitment", "tenant", "purpose", "operation", "operation type", "lane",
              "capsule", "memory", "intent", "approval", "origin"})
    /\ Agree(r, t, "logical", {"principal"})
    /\ Agree(r, t, "version", {"epoch", "purpose policy", "workload"})
    /\ Agree(r, t, "logical", {"sources", "evidence"})

\* It repeats the one policy that let it out, at most one configuration, and
\* the components and the provider the version tuple must then name.
ExternalBindsVersions(r, t) ==
    /\ Agree(r, t, "version", {"request versions", "components"})
    /\ r.policies = 1 /\ r.configurations <= 1
    /\ Agree(r, t, "version", {"policy", "configuration", "decision"})
    /\ r.provider
    /\ Agree(r, t, "version", {"provider", "credential", "lifecycle", "stage"})

\* No two of the receipt's identities are one, and whoever owns the key has no
\* other role.  (shared: the two names that mean one identity, if any do.)
Identity == {"receipt", "chain", "operation", "attempt", "idempotency", "request", "capsule",
             "body", "issuer", "key owner", "key"}
OwnerIsNot == {"issuer", "principal", "verifier", "custodian", "policy owner"}

RolesSeparate(r) ==
    r.shared # {} =>
        /\ ~(r.shared \subseteq Identity)
        /\ \A role \in OwnerIsNot : r.shared # {"key owner", role}
        /\ r.shared # {"issuer", "principal"}

inspectReceiptSemantics(r) ==
    /\ HasOneRow(r) /\ WrapperBinds(r) /\ ChainPosition(r)
    /\ OriginNamesPrincipal(r) /\ NoAttemptNoOrdinal(r)
    /\ AttemptBinds(r) /\ StageFits(r) /\ IdempotencyFits(r)
    /\ VersionBinds(r) /\ IntentBinds(r) /\ SourcesBind(r) /\ EvidenceFits(r)
    /\ DispatchFits(r) /\ KeyFits(r) /\ ValuesFit(r)
    /\ \A t \in PlacesOf(r) \cap External :
           ExternalBindsReceipt(r, t) /\ ExternalBindsVersions(r, t)
    /\ RolesSeparate(r)

-----------------------------------------------------------------------------
\* Receipts to be judged.

\* An attempt as the stage has it, and a receipt about which all is well.
AttemptAt(stage) ==
    [id |-> stage # 0, ordinal |-> IF stage < 2 THEN 0 ELSE 1, claim |-> stage >= 2,
     lease |-> stage >= 3, effect |-> stage = 4, idempotency |-> TRUE]

Sound ==
    [row |-> Row("completed", "ALLOW", "required", "required"), stage |-> 3,
     attempt |-> AttemptAt(3), mode |-> "required", evidence |-> {"runtime"}, limits |-> {},
     has |-> [t \in External |-> TRUE], fact |-> "tenant", copy |-> [p \in Place |-> 1],
     sequence |-> 1, predecessor |-> {}, origin |-> "delegated", principal |-> "named",
     tool |-> FALSE, intent |-> FALSE, policies |-> 1, configurations |-> 1, provider |-> TRUE,
     keyEnded |-> {}, activated |-> 0, keyFrom |-> 0, issued |-> 0, keyUntil |-> 0,
     from |-> 0, until |-> 0, body |-> "none", commitment |-> TRUE, canonical |-> TRUE,
     shared |-> {}]

\* Receipts of every kind, stage, attempt and evidence, with any external tuples.
OfAttempts ==
    { [Sound EXCEPT !.row = row, !.stage = stage, !.evidence = evidence, !.limits = limits,
                    !.attempt = [id |-> id, ordinal |-> ordinal, claim |-> claim,
                                 lease |-> lease, effect |-> effect, idempotency |-> TRUE],
                    !.has = [t \in External |-> t \in tuples]] :
        row \in AllowedRows \cup {NoRow}, stage \in 0 .. 4, tuples \in SUBSET External,
        evidence \in SUBSET {"dispatch_attempt", "runtime"},
        limits \in SUBSET {"NO_EVIDENCE_ADMITTED"},
        id \in BOOLEAN, ordinal \in 0 .. 1, claim \in BOOLEAN, lease \in BOOLEAN,
        effect \in BOOLEAN }

\* Receipts whose places say different things of one fact.
OfFacts ==
    { [Sound EXCEPT !.row = row, !.stage = stage, !.attempt = AttemptAt(stage),
                    !.has = [t \in External |-> t \in tuples], !.fact = fact, !.copy = copy] :
        row \in {x \in AllowedRows : x.state \in {"authorized", "accepted", "completed"}},
        stage \in {1, 2, 3}, tuples \in {{}, {"authorized"}, External},
        fact \in Fact, copy \in {c \in [Place -> {1, 2}] : c["logical"] = 1} }

\* Receipts of every position, origin, configuration and timing.
OfRest ==
    { [Sound EXCEPT !.sequence = sequence, !.predecessor = predecessor,
                    !.origin = origin, !.principal = principal] :
        sequence \in 1 .. 2, predecessor \in SUBSET {"id", "signature"},
        origin \in {"delegated", "system"}, principal \in {"named", "none"} }
    \cup
    { [Sound EXCEPT !.tool = tool, !.intent = intent, !.policies = policies,
                    !.configurations = configurations, !.provider = provider, !.body = body,
                    !.commitment = commitment, !.canonical = canonical] :
        tool \in BOOLEAN, intent \in BOOLEAN, policies \in 0 .. 2, configurations \in 0 .. 2,
        provider \in BOOLEAN, body \in {"none", "request"}, commitment \in BOOLEAN,
        canonical \in BOOLEAN }
    \cup
    { [Sound EXCEPT !.activated = activated, !.keyFrom = keyFrom, !.issued = issued,
                    !.keyUntil = keyUntil, !.from = from, !.until = until, !.keyEnded = ended] :
        activated \in Time, keyFrom \in Time, issued \in Time, keyUntil \in Time,
        from \in Time, until \in Time, ended \in SUBSET {"revoked"} }
    \cup
    { [Sound EXCEPT !.mode = mode, !.attempt.idempotency = idempotency] :
        mode \in {"required", "inapplicable"}, idempotency \in BOOLEAN }
    \cup
    { [Sound EXCEPT !.shared = {a, b}, !.body = "request"] :
        a \in Identity, b \in Identity \cup OwnerIsNot }

-----------------------------------------------------------------------------
Unread == [Sound EXCEPT !.row = NoRow]

ReceiptInit == receipt = Unread /\ verdict = "none"

\* validateContract of a receipt whose shape is right.
validateReceipt(r) ==
    /\ receipt' = r
    /\ verdict' = IF inspectReceiptSemantics(r) THEN "valid" ELSE "invalid"

ReceiptNext ==
    /\ verdict = "none"
    /\ \/ \E r \in OfAttempts : validateReceipt(r)
       \/ \E r \in OfFacts : validateReceipt(r)
       \/ \E r \in OfRest : validateReceipt(r)

ReceiptSpec == ReceiptInit /\ [][ReceiptNext]_receiptVars

-----------------------------------------------------------------------------
\* An accepted receipt tells one story: whatever it writes in several places
\* is the same in all of them, although the rules compare only some of the
\* pairs (inspectReceiptSemantics).  The exception is what its verifier goes
\* by: the logical receipt names a verifier policy and a projection rule, the
\* version tuple names them again, no rule compares them, and the receipt of
\* tests/contracts/contracts.test.ts (lines 242 and 326) is accepted with two.
TellsOneStory ==
    verdict = "valid" =>
        \A p, q \in PlacesOf(receipt) :
            \A f \in (WrittenIn(p) \cap WrittenIn(q)) \ VerifierFacts :
                Says(receipt, p, f) = Says(receipt, q, f)

\* An accepted receipt never leaves an external attempt in the dark: if its
\* attempt holds a lease or an effect, if its evidence speaks of a dispatch or
\* if it names a dispatch at all, then it names what was authorized, what was
\* dispatched, and is of a kind that needs both (inspectReceiptSemantics).
NoHiddenAttempt ==
    verdict = "valid" =>
        LET touchedOutside == \/ receipt.attempt.lease \/ receipt.attempt.effect
                              \/ "dispatch_attempt" \in receipt.evidence
                              \/ receipt.has["dispatched"]
        IN touchedOutside => /\ receipt.has["authorized"] /\ receipt.has["dispatched"]
                             /\ receipt.row.authorization = "required"
                             /\ receipt.row.dispatch # "forbidden"

\* docs/architecture/versioning-and-receipt-adr-v3.md:279: the dispatched tuple
\* is null before dispatch.  A receipt in state authorized whose stage and
\* evidence know of no external attempt has not been dispatched.
NullBeforeDispatch ==
    verdict = "valid" /\ receipt.row.state = "authorized" /\ ~ExternalAttempt(receipt)
        => ~receipt.has["dispatched"]
=============================================================================
