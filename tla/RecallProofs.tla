---------------------------- MODULE RecallProofs ----------------------------
(***************************************************************************)
(* Theorems about the two stores of the recall ledger given the same       *)
(* commands (RecallParity), for every set of facts and similarities, every *)
(* last revision and every number of receipts.                             *)
(***************************************************************************)
EXTENDS RecallParity, FiniteSetTheorems, SequenceTheorems, TLAPS

-----------------------------------------------------------------------------
(* The in-memory repository.                                               *)

N(f) == Len(history[f])

IsRetracted(f) == N(f) > 0 /\ latest[f].status = "retracted"

\* A receipt recalls revisions that exist, and withholds as retracted what stays retracted.
ReceiptIsTrue(r) ==
    /\ \A a \in r.recalled : a.fact \in Fact /\ a.revision \in 1..N(a.fact)
    /\ \A a \in r.withheld : a.reason = "retracted" => a.fact \in Fact /\ IsRetracted(a.fact)

ReceiptsAreTrue == \A i \in DOMAIN receipts : ReceiptIsTrue(receipts[i])

\* A fact whose latest version is active was never retracted: this is why a correction that
\* appends to its history leaves no erased version behind.
NeverRetracted ==
    \A f \in Fact : N(f) > 0 /\ ~IsRetracted(f) =>
        \A i \in 1..N(f) : history[f][i].status = "active"

LocalInv ==
    /\ LocalTypeOK /\ history \in [Fact -> Seq(Version)]
    /\ MapsAgree /\ ErasureIsTotal /\ NeverRetracted
    /\ ReceiptsNeverGoBack /\ StandardSeesPublic
    /\ ReceiptsAreTrue

\* What MapsAgree says of one fact.
Steps(f, n) == {[fact |-> f, from |-> i, to |-> i + 1] : i \in 1..(n - 1)}
Ended(f, n, v) == IF n > 0 /\ v.status = "retracted" THEN {[fact |-> f, from |-> n, to |-> 0]} ELSE {}
Entries(f) == {p \in propagations : p.fact = f}

LEMMA MapFacts ==
    ASSUME LocalInv, NEW f \in Fact
    PROVE  /\ N(f) \in Nat /\ DOMAIN history[f] = 1..N(f)
           /\ \A i \in 1..N(f) : history[f][i] \in Version /\ history[f][i].revision = i
           /\ N(f) = 0 => latest[f] = Untaught
           /\ N(f) > 0 => /\ latest[f] = history[f][N(f)] /\ latest[f] \in Version
                          /\ latest[f].revision = N(f)
           /\ Taught(f) <=> N(f) > 0
           /\ N(f) =< MaxRevision
           /\ Entries(f) = Steps(f, N(f)) \union Ended(f, N(f), latest[f])
<1>1. /\ N(f) \in Nat /\ DOMAIN history[f] = 1..N(f)
      /\ \A i \in 1..N(f) : history[f][i] \in Version
  BY DEF LocalInv, N
<1>2. /\ latest[f] = IF N(f) = 0 THEN Untaught ELSE history[f][N(f)]
      /\ \A i \in 1..N(f) : history[f][i].revision = i
      /\ Entries(f) = Steps(f, N(f)) \union Ended(f, N(f), latest[f])
  BY DEF LocalInv, MapsAgree, N, Entries, Steps, Ended
<1>3. ASSUME N(f) > 0
      PROVE  /\ latest[f] = history[f][N(f)] /\ latest[f] \in Version
             /\ latest[f].revision = N(f) /\ latest[f] # Untaught /\ N(f) =< MaxRevision
  <2>1. N(f) \in 1..N(f)
    BY <1>1, <1>3
  <2>2. latest[f] = history[f][N(f)] /\ latest[f] \in Version /\ latest[f].revision = N(f)
    BY <1>1, <1>2, <1>3, <2>1
  <2>3. Untaught.revision = 0
    BY DEF Untaught
  <2> QED BY <1>3, <2>2, <2>3, RecallAssumption DEF Version
<1> QED BY <1>1, <1>2, <1>3, RecallAssumption DEF Taught

\* A command changes one fact: v is its latest version, h its history.
LEMMA OneFact ==
    ASSUME LocalInv, NEW f \in Fact, NEW v \in Version, NEW h \in Seq(Version),
           latest' = [latest EXCEPT ![f] = v], history' = [history EXCEPT ![f] = h],
           UNCHANGED receipts, propagations' \subseteq Propagation,
           \A g \in Fact \ {f} : Entries(g)' = Entries(g),
           Len(h) > 0, Len(h) >= N(f), v = h[Len(h)], ~IsRetracted(f),
           \A i \in 1..Len(h) : h[i].revision = i,
           Entries(f)' = Steps(f, Len(h)) \union Ended(f, Len(h), v),
           v.status = "active" => \A i \in 1..Len(h) : h[i].status = "active",
           v.status = "retracted" => \A i \in 1..Len(h) : h[i].erased /\ h[i].similarity = 0,
           \A i \in 1..N(f) : h[i].sensitivity = history[f][i].sensitivity
    PROVE  LocalInv'
<1>1. Len(h) \in Nat /\ DOMAIN h = 1..Len(h) /\ \A i \in 1..Len(h) : h[i] \in Version
  OBVIOUS
<1>2. /\ history'[f] = h /\ \A g \in Fact \ {f} : history'[g] = history[g]
      /\ latest'[f] = v /\ \A g \in Fact \ {f} : latest'[g] = latest[g]
  BY DEF LocalInv, LocalTypeOK
<1>3. N(f)' = Len(h) /\ \A g \in Fact \ {f} : N(g)' = N(g) /\ IsRetracted(g)' = IsRetracted(g)
  BY <1>2 DEF N, IsRetracted
<1>4. LocalTypeOK' /\ history' \in [Fact -> Seq(Version)]
  BY <1>2 DEF LocalInv, LocalTypeOK
<1>5. MapsAgree'
  <2>1. ASSUME NEW g \in Fact
        PROVE  /\ latest'[g] = IF N(g)' = 0 THEN Untaught ELSE history'[g][N(g)']
               /\ \A i \in 1..N(g)' : history'[g][i].revision = i
               /\ Entries(g)' = Steps(g, N(g)') \union Ended(g, N(g)', latest'[g])
    <3>1. CASE g = f
      BY <1>1, <1>2, <1>3, <3>1
    <3>2. CASE g # f
      BY <1>2, <1>3, <3>2, MapFacts
    <3> QED BY <3>1, <3>2
  <2> QED BY <2>1 DEF MapsAgree, N, Entries, Steps, Ended
<1>6. ErasureIsTotal'
  <2>1. ASSUME NEW i \in 1..Len(h), h[i].status = "retracted" PROVE v.status = "retracted"
    <3>1. v.status \in {"active", "retracted"}
      BY DEF Version
    <3> QED BY <2>1, <3>1
  <2>2. \A i, j \in 1..Len(h) : h[i].status = "retracted" => h[j].erased /\ h[j].similarity = 0
    BY <2>1
  <2> QED BY <1>1, <1>2, <2>2 DEF LocalInv, ErasureIsTotal
<1>7. NeverRetracted'
  <2>1. ASSUME ~IsRetracted(f)' PROVE \A i \in 1..Len(h) : h[i].status = "active"
    <3>1. v.status = "active"
      BY <1>2, <1>3, <2>1 DEF IsRetracted, Version
    <3> QED BY <3>1
  <2> QED BY <1>2, <1>3, <2>1 DEF LocalInv, NeverRetracted
<1>8. ReceiptsAreTrue'
  <2>1. ASSUME NEW i \in DOMAIN receipts, NEW r, r = receipts[i] PROVE ReceiptIsTrue(r)'
    <3>1. ReceiptIsTrue(r)
      BY <2>1 DEF LocalInv, ReceiptsAreTrue
    <3>2. \A a \in r.recalled : a.fact \in Fact /\ a.revision \in 1..N(a.fact)'
      <4>1. N(f) \in Nat
        BY MapFacts
      <4> QED BY <1>1, <1>3, <3>1, <4>1 DEF ReceiptIsTrue
    <3>3. \A a \in r.withheld : a.reason = "retracted" => a.fact \in Fact /\ IsRetracted(a.fact)'
      BY <1>3, <3>1 DEF ReceiptIsTrue
    <3> QED BY <3>2, <3>3 DEF ReceiptIsTrue
  <2> QED BY <2>1 DEF ReceiptsAreTrue
<1>9. ReceiptsNeverGoBack'
  BY DEF LocalInv, ReceiptsNeverGoBack
<1>10. StandardSeesPublic'
  <2>1. ASSUME NEW i \in DOMAIN receipts, NEW a \in receipts[i].recalled, receipts[i].tier = "standard"
        PROVE  history'[a.fact][a.revision].sensitivity = "public"
    <3>1. a.fact \in Fact /\ a.revision \in 1..N(a.fact)
      BY DEF LocalInv, ReceiptsAreTrue, ReceiptIsTrue
    <3>2. history[a.fact][a.revision].sensitivity = "public"
      BY <2>1 DEF LocalInv, StandardSeesPublic
    <3> QED BY <1>2, <3>1, <3>2
  <2> QED BY <2>1 DEF StandardSeesPublic
<1> QED BY <1>4, <1>5, <1>6, <1>7, <1>8, <1>9, <1>10 DEF LocalInv

LEMMA FreshFacts ==
    ASSUME NEW n \in 1..MaxRevision, NEW draft \in Draft
    PROVE  /\ Fresh(n, draft) \in Version /\ Fresh(n, draft).revision = n
           /\ Fresh(n, draft).status = "active"
BY DEF Fresh, Draft, Version

LEMMA EraseFacts ==
    ASSUME NEW v \in Version
    PROVE  /\ Erase(v) \in Version /\ Erase(v).revision = v.revision
           /\ Erase(v).sensitivity = v.sensitivity /\ Erase(v).status = "retracted"
           /\ Erase(v).similarity = 0 /\ Erase(v).erased
<1> DEFINE e == [v EXCEPT !.status = "retracted", !.similarity = 0, !.erased = TRUE]
<1>1. e \in Version
  BY DEF Version
<1>2. e.revision = v.revision /\ e.sensitivity = v.sensitivity /\ e.status = "retracted"
      /\ e.similarity = 0 /\ e.erased = TRUE
  BY DEF Version
<1> QED BY <1>1, <1>2 DEF Erase

\* The entries of a fact after one is added.
LEMMA OneEntry ==
    ASSUME LocalInv, NEW f \in Fact, NEW from \in 1..MaxRevision, NEW to \in 0..MaxRevision,
           propagations' = propagations \union {[fact |-> f, from |-> from, to |-> to]}
    PROVE  /\ propagations' \subseteq Propagation
           /\ Entries(f)' = Entries(f) \union {[fact |-> f, from |-> from, to |-> to]}
           /\ \A g \in Fact \ {f} : Entries(g)' = Entries(g)
<1> PICK e : e = [fact |-> f, from |-> from, to |-> to]
  OBVIOUS
<1>1. e \in Propagation /\ e.fact = f
  BY DEF Propagation
<1>2. propagations' = propagations \union {e} /\ propagations \subseteq Propagation
  BY DEF LocalInv, LocalTypeOK
<1>3. propagations' \subseteq Propagation
  BY <1>1, <1>2
<1>4. Entries(f)' = Entries(f) \union {e}
  BY <1>1, <1>2 DEF Entries
<1>5. \A g \in Fact \ {f} : Entries(g)' = Entries(g)
  BY <1>1, <1>2 DEF Entries
<1> QED BY <1>3, <1>4, <1>5

LEMMA LocalTeachInv ==
    ASSUME LocalInv, NEW f \in Fact, NEW draft \in Draft, LocalTeach(f, draft)
    PROVE  LocalInv'
<1> PICK v, h : v = Fresh(1, draft) /\ h = <<v>>
  OBVIOUS
<1>1. 1 \in 1..MaxRevision
  BY RecallAssumption
<1>2. v \in Version /\ v.revision = 1 /\ v.status = "active"
  BY <1>1, FreshFacts
<1>3. /\ latest' = [latest EXCEPT ![f] = v] /\ history' = [history EXCEPT ![f] = h]
      /\ UNCHANGED <<propagations, receipts>> /\ ~Taught(f)
  BY DEF LocalTeach
<1>4. h \in Seq(Version) /\ Len(h) = 1 /\ h[1] = v
  BY <1>2
<1>5. N(f) = 0 /\ Entries(f) = Steps(f, 0) \union Ended(f, 0, latest[f])
  BY <1>3, MapFacts
<1>6. Entries(f) = {} /\ Steps(f, 1) \union Ended(f, 1, v) = {}
  <2>1. 1..(0 - 1) = {} /\ 1..(1 - 1) = {}
    OBVIOUS
  <2> QED BY <1>2, <1>5, <2>1 DEF Steps, Ended
<1>7. \A g \in Fact : Entries(g)' = Entries(g)
  BY <1>3 DEF Entries
<1>8. propagations' \subseteq Propagation
  BY <1>3 DEF LocalInv, LocalTypeOK
<1>9. ~IsRetracted(f) /\ 1..N(f) = {}
  BY <1>5 DEF IsRetracted
<1>10. /\ \A i \in 1..Len(h) : h[i].revision = i /\ h[i].status = "active"
       /\ Len(h) > 0 /\ Len(h) >= N(f) /\ v = h[Len(h)]
       /\ Entries(f)' = Steps(f, Len(h)) \union Ended(f, Len(h), v)
  BY <1>2, <1>4, <1>5, <1>6, <1>7
<1> QED BY <1>2, <1>3, <1>4, <1>7, <1>8, <1>9, <1>10, OneFact

LEMMA LocalSupersedeInv ==
    ASSUME LocalInv, NEW f \in Fact, NEW expected \in 1..MaxRevision, NEW draft \in Draft,
           LocalSupersede(f, expected, draft)
    PROVE  LocalInv'
<1> PICK v, h : v = Fresh(expected + 1, draft) /\ h = Append(history[f], v)
  OBVIOUS
<1>1. Correctable(f, expected) /\ HasSuccessor(expected) /\ UNCHANGED receipts
  BY DEF LocalSupersede
<1>2. expected + 1 \in 1..MaxRevision /\ expected \in Nat
  BY <1>1, RecallAssumption DEF HasSuccessor
<1>3. v \in Version /\ v.revision = expected + 1 /\ v.status = "active"
  BY <1>2, FreshFacts
<1>4. /\ latest' = [latest EXCEPT ![f] = v] /\ history' = [history EXCEPT ![f] = h]
      /\ propagations' = propagations \union {[fact |-> f, from |-> expected, to |-> expected + 1]}
  BY DEF LocalSupersede
<1>5. /\ N(f) \in Nat /\ N(f) > 0 /\ N(f) = expected /\ ~IsRetracted(f)
      /\ \A i \in 1..N(f) : history[f][i] \in Version /\ history[f][i].revision = i
      /\ Entries(f) = Steps(f, N(f)) \union Ended(f, N(f), latest[f])
  BY <1>1, MapFacts DEF Correctable, IsRetracted
<1>6. history[f] \in Seq(Version)
  BY DEF LocalInv
<1>7. /\ h \in Seq(Version) /\ Len(h) = expected + 1 /\ h[expected + 1] = v
      /\ \A i \in 1..expected : h[i] = history[f][i]
  BY <1>3, <1>5, <1>6 DEF N
<1>8. /\ propagations' \subseteq Propagation
      /\ Entries(f)' = Entries(f) \union {[fact |-> f, from |-> expected, to |-> expected + 1]}
      /\ \A g \in Fact \ {f} : Entries(g)' = Entries(g)
  BY <1>2, <1>4, OneEntry
<1>9. Ended(f, N(f), latest[f]) = {} /\ Ended(f, expected + 1, v) = {}
  BY <1>3, <1>5 DEF Ended, IsRetracted
<1>10. Steps(f, expected + 1) = Steps(f, expected) \union {[fact |-> f, from |-> expected, to |-> expected + 1]}
  <2>1. 1..((expected + 1) - 1) = 1..(expected - 1) \union {expected}
    BY <1>2, <1>5
  <2> QED BY <2>1 DEF Steps
<1>11. Entries(f)' = Steps(f, Len(h)) \union Ended(f, Len(h), v)
  BY <1>5, <1>7, <1>8, <1>9, <1>10
<1>12. \A i \in 1..expected : history[f][i].status = "active"
  BY <1>5 DEF LocalInv, NeverRetracted
<1>13. \A i \in 1..Len(h) : h[i].revision = i /\ h[i].status = "active"
  <2> TAKE i \in 1..Len(h)
  <2>1. CASE i \in 1..expected
    BY <1>5, <1>7, <1>12, <2>1
  <2>2. CASE i = expected + 1
    BY <1>3, <1>7, <2>2
  <2> QED BY <1>2, <1>7, <2>1, <2>2
<1>14. /\ Len(h) > 0 /\ Len(h) >= N(f) /\ v = h[Len(h)]
       /\ \A i \in 1..N(f) : h[i].sensitivity = history[f][i].sensitivity
  BY <1>2, <1>5, <1>7
<1> QED BY <1>1, <1>3, <1>4, <1>5, <1>7, <1>8, <1>11, <1>13, <1>14, OneFact

LEMMA LocalRetractInv ==
    ASSUME LocalInv, NEW f \in Fact, NEW expected \in 1..MaxRevision, LocalRetract(f, expected)
    PROVE  LocalInv'
<1> PICK v, h : v = Erase(latest[f]) /\ h = ErasedHistory(history[f])
  OBVIOUS
<1>1. Correctable(f, expected) /\ UNCHANGED receipts
  BY DEF LocalRetract
<1>2. /\ N(f) \in Nat /\ N(f) > 0 /\ N(f) = expected /\ ~IsRetracted(f)
      /\ DOMAIN history[f] = 1..N(f)
      /\ \A i \in 1..N(f) : history[f][i] \in Version /\ history[f][i].revision = i
      /\ latest[f] = history[f][N(f)] /\ latest[f] \in Version
      /\ Entries(f) = Steps(f, N(f)) \union Ended(f, N(f), latest[f])
  BY <1>1, MapFacts DEF Correctable, IsRetracted
<1>3. v \in Version /\ v.status = "retracted"
  BY <1>2, EraseFacts
<1>4. /\ latest' = [latest EXCEPT ![f] = v] /\ history' = [history EXCEPT ![f] = h]
      /\ propagations' = propagations \union {[fact |-> f, from |-> expected, to |-> 0]}
  BY DEF LocalRetract
<1>5. \A i \in 1..N(f) : h[i] = Erase(history[f][i])
  BY <1>2 DEF ErasedHistory
<1>6. \A i \in 1..N(f) : /\ h[i] \in Version /\ h[i].revision = i
                         /\ h[i].sensitivity = history[f][i].sensitivity
                         /\ h[i].similarity = 0 /\ h[i].erased
  BY <1>2, <1>5, EraseFacts
<1>7. h \in Seq(Version) /\ Len(h) = N(f)
  <2>1. h = [i \in 1..N(f) |-> h[i]]
    BY <1>2 DEF ErasedHistory
  <2>2. h \in [1..N(f) -> Version]
    BY <1>6, <2>1
  <2> QED BY <1>2, <2>2, IsASeq, LenProperties
<1>8. v = h[Len(h)]
  BY <1>2, <1>5, <1>7
<1>9. /\ propagations' \subseteq Propagation
      /\ Entries(f)' = Entries(f) \union {[fact |-> f, from |-> expected, to |-> 0]}
      /\ \A g \in Fact \ {f} : Entries(g)' = Entries(g)
  <2>1. 0 \in 0..MaxRevision
    BY RecallAssumption
  <2> QED BY <1>4, <2>1, OneEntry
<1>10. Entries(f)' = Steps(f, Len(h)) \union Ended(f, Len(h), v)
  <2>1. Ended(f, N(f), latest[f]) = {} /\ Ended(f, Len(h), v) = {[fact |-> f, from |-> expected, to |-> 0]}
    BY <1>2, <1>3, <1>7 DEF Ended, IsRetracted
  <2> QED BY <1>2, <1>7, <1>9, <2>1
<1>11. /\ \A i \in 1..Len(h) : h[i].revision = i /\ h[i].erased /\ h[i].similarity = 0
       /\ \A i \in 1..N(f) : h[i].sensitivity = history[f][i].sensitivity
       /\ Len(h) > 0 /\ Len(h) >= N(f)
  BY <1>2, <1>6, <1>7
<1> QED BY <1>1, <1>2, <1>3, <1>4, <1>7, <1>8, <1>9, <1>10, <1>11, OneFact

LEMMA LocalAskInv ==
    ASSUME LocalInv, NEW tier \in Tier, NEW k \in 1..MaxTopK, LocalAsk(tier, k)
    PROVE  LocalInv'
<1> PICK r : r = Receipt(tier, k)
  OBVIOUS
<1>1. receipts' = Append(receipts, r) /\ UNCHANGED <<latest, history, propagations>>
  BY DEF LocalAsk
<1>2. r.tier = tier /\ r.recalled = {At(f) : f \in Disclosed(tier, k)}
      /\ r.withheld = {Withhold(f, "sensitivity_policy") :
                         f \in {g \in Fact : Taught(g)} \ Authorized(tier)} \union
                      {Withhold(f, "retracted") : f \in Scored(tier, k) \ Disclosed(tier, k)}
  BY DEF Receipt
<1>3. \A f \in Scored(tier, k) : f \in Authorized(tier)
  BY DEF Scored
<1>4. \A f \in Disclosed(tier, k) : f \in Authorized(tier) /\ latest[f].status = "active"
  BY <1>3 DEF Disclosed
<1>5. \A f \in Scored(tier, k) \ Disclosed(tier, k) : f \in Authorized(tier) /\ latest[f].status # "active"
  BY <1>3 DEF Disclosed
<1>6. \A f \in Authorized(tier) : f \in Fact /\ Taught(f)
                                  /\ (tier = "standard" => latest[f].sensitivity = "public")
  BY DEF Authorized
<1>7. \A f \in Fact : Taught(f) => /\ latest[f].revision \in 1..MaxRevision
                                   /\ latest[f].revision = N(f) /\ N(f) > 0
                                   /\ latest[f] = history[f][N(f)]
                                   /\ latest[f].status \in {"active", "retracted"}
  <2> TAKE f \in Fact
  <2> HAVE Taught(f)
  <2>1. N(f) > 0 /\ latest[f] \in Version /\ latest[f].revision = N(f) /\ latest[f] = history[f][N(f)]
    BY MapFacts
  <2> QED BY <2>1 DEF Version
<1>8. \A a \in r.recalled : /\ a.fact \in Fact /\ Taught(a.fact) /\ a = At(a.fact)
                            /\ a.revision = N(a.fact) /\ N(a.fact) > 0
                            /\ a.revision \in 1..MaxRevision
                            /\ latest[a.fact].status = "active"
                            /\ (tier = "standard" => history[a.fact][a.revision].sensitivity = "public")
  <2> TAKE a \in r.recalled
  <2>1. PICK f \in Disclosed(tier, k) : a = At(f)
    BY <1>2
  <2>2. a.fact = f /\ a.revision = latest[f].revision
    BY <2>1 DEF At
  <2>3. /\ f \in Fact /\ Taught(f) /\ latest[f].status = "active"
        /\ (tier = "standard" => latest[f].sensitivity = "public")
    BY <1>4, <1>6
  <2> QED BY <1>7, <2>1, <2>2, <2>3
<1>9. \A a \in r.withheld : /\ a.fact \in Fact /\ a.revision \in 1..MaxRevision
                            /\ a = Withhold(a.fact, a.reason)
                            /\ a.reason \in {"retracted", "sensitivity_policy"}
                            /\ a.reason = "retracted" => IsRetracted(a.fact)
  <2> TAKE a \in r.withheld
  <2>1. CASE \E f \in {g \in Fact : Taught(g)} \ Authorized(tier) : a = Withhold(f, "sensitivity_policy")
    <3>1. PICK f \in {g \in Fact : Taught(g)} \ Authorized(tier) : a = Withhold(f, "sensitivity_policy")
      BY <2>1
    <3>2. a.fact = f /\ a.reason = "sensitivity_policy" /\ a.revision = latest[f].revision
      BY <3>1 DEF Withhold
    <3> QED BY <1>7, <3>1, <3>2
  <2>2. CASE \E f \in Scored(tier, k) \ Disclosed(tier, k) : a = Withhold(f, "retracted")
    <3>1. PICK f \in Scored(tier, k) \ Disclosed(tier, k) : a = Withhold(f, "retracted")
      BY <2>2
    <3>2. a.fact = f /\ a.reason = "retracted" /\ a.revision = latest[f].revision
      BY <3>1 DEF Withhold
    <3>3. f \in Fact /\ Taught(f) /\ latest[f].status # "active"
      BY <1>5, <1>6
    <3> QED BY <1>7, <3>1, <3>2, <3>3 DEF IsRetracted
  <2> QED BY <1>2, <2>1, <2>2
<1>10. r \in [tier : Tier,
              recalled : SUBSET [fact : Fact, revision : 1..MaxRevision],
              withheld : SUBSET [fact : Fact, revision : 1..MaxRevision,
                                 reason : {"retracted", "sensitivity_policy"}]]
  <2>1. r.recalled \subseteq [fact : Fact, revision : 1..MaxRevision]
    BY <1>8 DEF At
  <2>2. r.withheld \subseteq [fact : Fact, revision : 1..MaxRevision,
                              reason : {"retracted", "sensitivity_policy"}]
    BY <1>9 DEF Withhold
  <2> QED BY <1>2, <2>1, <2>2 DEF Receipt
<1>11. ReceiptIsTrue(r)
  <2>1. \A a \in r.recalled : a.revision \in 1..N(a.fact)
    BY <1>8
  <2> QED BY <1>8, <1>9, <2>1 DEF ReceiptIsTrue
<1> PICK m \in Nat : m = Len(receipts)
  BY DEF LocalInv, LocalTypeOK
<1>12. /\ DOMAIN receipts = 1..m /\ DOMAIN receipts' = 1..(m + 1) /\ receipts'[m + 1] = r
       /\ \A i \in 1..m : receipts'[i] = receipts[i]
  BY <1>1, <1>10 DEF LocalInv, LocalTypeOK
<1>13. LocalTypeOK'
  BY <1>1, <1>10 DEF LocalInv, LocalTypeOK
<1>14. MapsAgree' /\ ErasureIsTotal' /\ NeverRetracted'
  <2>1. MapsAgree'
    BY <1>1 DEF LocalInv, MapsAgree
  <2>2. ErasureIsTotal'
    BY <1>1 DEF LocalInv, ErasureIsTotal
  <2>3. NeverRetracted'
    BY <1>1 DEF LocalInv, NeverRetracted, N, IsRetracted
  <2> QED BY <2>1, <2>2, <2>3
<1>15. ReceiptsAreTrue'
  <2>1. ASSUME NEW s, ReceiptIsTrue(s) PROVE ReceiptIsTrue(s)'
    BY <1>1, <2>1 DEF ReceiptIsTrue, IsRetracted, N
  <2>2. ASSUME NEW i \in 1..(m + 1) PROVE \E s : s = receipts'[i] /\ ReceiptIsTrue(s)
    BY <1>11, <1>12 DEF LocalInv, ReceiptsAreTrue
  <2> QED BY <1>12, <2>1, <2>2 DEF ReceiptsAreTrue
<1>16. ASSUME NEW i \in 1..m
       PROVE  /\ \A a \in receipts[i].recalled, b \in r.recalled : a.fact = b.fact => a.revision =< b.revision
              /\ \A a \in receipts[i].withheld, b \in r.recalled : a.reason = "retracted" => a.fact # b.fact
  <2>1. ReceiptIsTrue(receipts[i])
    BY <1>12 DEF LocalInv, ReceiptsAreTrue
  <2>2. \A f \in Fact : N(f) \in Nat
    BY MapFacts
  <2>3. ASSUME NEW a \in receipts[i].recalled, NEW b \in r.recalled, a.fact = b.fact
        PROVE  a.revision =< b.revision
    <3>1. a.revision \in 1..N(b.fact) /\ b.revision = N(b.fact) /\ b.fact \in Fact
      BY <1>8, <2>1, <2>3 DEF ReceiptIsTrue
    <3> QED BY <2>2, <3>1
  <2>4. ASSUME NEW a \in receipts[i].withheld, NEW b \in r.recalled, a.reason = "retracted"
        PROVE  a.fact # b.fact
    BY <1>8, <2>1, <2>4 DEF ReceiptIsTrue, IsRetracted
  <2> QED BY <2>3, <2>4
<1>17. ReceiptsNeverGoBack'
  <2>1. ASSUME NEW i \in 1..(m + 1), NEW j \in 1..(m + 1), i < j
        PROVE  /\ \A a \in receipts'[i].recalled, b \in receipts'[j].recalled :
                     a.fact = b.fact => a.revision =< b.revision
               /\ \A a \in receipts'[i].withheld, b \in receipts'[j].recalled :
                     a.reason = "retracted" => a.fact # b.fact
    <3>1. i \in 1..m /\ (j \in 1..m \/ j = m + 1)
      BY <2>1
    <3>2. CASE j \in 1..m
      BY <1>12, <2>1, <3>1, <3>2 DEF LocalInv, ReceiptsNeverGoBack
    <3>3. CASE j = m + 1
      BY <1>12, <1>16, <3>1, <3>3
    <3> QED BY <3>1, <3>2, <3>3
  <2> QED BY <1>12, <2>1 DEF ReceiptsNeverGoBack
<1>18. StandardSeesPublic'
  <2>1. ASSUME NEW i \in 1..(m + 1), NEW a \in receipts'[i].recalled, receipts'[i].tier = "standard"
        PROVE  history[a.fact][a.revision].sensitivity = "public"
    <3>1. CASE i \in 1..m
      BY <1>12, <2>1, <3>1 DEF LocalInv, StandardSeesPublic
    <3>2. CASE i = m + 1
      BY <1>2, <1>8, <1>12, <2>1, <3>2
    <3> QED BY <3>1, <3>2
  <2> QED BY <1>1, <1>12, <2>1 DEF StandardSeesPublic
<1> QED BY <1>1, <1>13, <1>14, <1>15, <1>17, <1>18 DEF LocalInv

-----------------------------------------------------------------------------
(* The tables beside the repository: one row for every version of a fact.  *)

\* What a row of fact f says, and what it keeps of the version it stands for.
RowOf(x) ==
    LET f == x.fact
    IN  /\ x \in Sql!Row /\ x.revision \in 1..N(f)
        /\ x.status = "active" <=> x.revision = N(f) /\ ~IsRetracted(f)
        /\ x.revision = N(f) => /\ x.similarity = latest[f].similarity
                                /\ x.sensitivity = latest[f].sensitivity
        /\ IsRetracted(f) => x.similarity = 0 /\ x.empty

OneRowPerKey == \A x, y \in rows : x.fact = y.fact /\ x.revision = y.revision => x = y

ParityInv ==
    /\ propagated = propagations
    /\ \A x \in rows : RowOf(x)
    /\ OneRowPerKey
    /\ \A f \in Fact : \A i \in 1..N(f) : Sql!HasRow(rows, f, i)

LEMMA RowFacts ==
    ASSUME LocalInv, ParityInv, NEW x \in rows
    PROVE  /\ x.fact \in Fact /\ x.revision \in 1..N(x.fact) /\ N(x.fact) \in Nat \ {0}
           /\ x.status \in {"active", "retracted"}
<1>1. x \in Sql!Row /\ x.revision \in 1..N(x.fact)
  BY DEF ParityInv, RowOf
<1>2. x.fact \in Fact /\ x.status \in {"active", "retracted"}
  BY <1>1 DEF Sql!Row
<1>3. N(x.fact) \in Nat
  BY <1>2, MapFacts
<1> QED BY <1>1, <1>2, <1>3

\* The entries of a fact, by where they start.
LEMMA EntryFacts ==
    ASSUME LocalInv, NEW f \in Fact
    PROVE  /\ \A p \in propagations : p.fact = f =>
                \/ p.from \in 1..(N(f) - 1) /\ p.to = p.from + 1
                \/ p.from = N(f) /\ p.to = 0 /\ IsRetracted(f)
           /\ \A i \in 1..(N(f) - 1) : [fact |-> f, from |-> i, to |-> i + 1] \in propagations
           /\ IsRetracted(f) => [fact |-> f, from |-> N(f), to |-> 0] \in propagations
<1>1. Entries(f) = Steps(f, N(f)) \union Ended(f, N(f), latest[f]) /\ N(f) \in Nat
  BY MapFacts
<1>2. \A e \in Steps(f, N(f)) : e.from \in 1..(N(f) - 1) /\ e.to = e.from + 1
  BY DEF Steps
<1>3. \A e \in Ended(f, N(f), latest[f]) : e.from = N(f) /\ e.to = 0 /\ IsRetracted(f)
  BY DEF Ended, IsRetracted
<1>4. \A i \in 1..(N(f) - 1) : [fact |-> f, from |-> i, to |-> i + 1] \in Steps(f, N(f))
  BY DEF Steps
<1>5. IsRetracted(f) => [fact |-> f, from |-> N(f), to |-> 0] \in Ended(f, N(f), latest[f])
  BY DEF Ended, IsRetracted
<1>6. \A p : p \in Entries(f) <=> p \in propagations /\ p.fact = f
  BY DEF Entries
<1> QED BY <1>1, <1>2, <1>3, <1>4, <1>5, <1>6

\* The repository and the tables take the same commands.
LEMMA TeachParity ==
    ASSUME LocalInv, ParityInv, NEW f \in Fact
    PROVE  ~Taught(f) <=> ~Sql!HasRow(rows, f, 1)
<1>1. ASSUME Taught(f) PROVE Sql!HasRow(rows, f, 1)
  <2>1. 1 \in 1..N(f)
    BY <1>1, MapFacts
  <2> QED BY <2>1 DEF ParityInv
<1>2. ASSUME Sql!HasRow(rows, f, 1) PROVE Taught(f)
  <2>1. PICK x \in rows : x.fact = f
    BY <1>2 DEF Sql!HasRow
  <2> QED BY <2>1, RowFacts, MapFacts
<1> QED BY <1>1, <1>2

\* The keys of the tables find the stale corrections that no plan looks for.
LEMMA KeyFacts ==
    ASSUME LocalInv, ParityInv, NEW f \in Fact, NEW e \in 1..MaxRevision
    PROVE  /\ Correctable(f, e) <=> N(f) = e /\ ~IsRetracted(f)
           /\ Sql!HasRow(rows, f, e) <=> e =< N(f)
           /\ e =< N(f) /\ Sql!KeyFree(f, e) => Correctable(f, e)
           /\ Correctable(f, e) => Sql!KeyFree(f, e)
<1>1. e \in Nat \ {0} /\ N(f) \in Nat
  BY MapFacts, RecallAssumption
<1>2. Correctable(f, e) <=> N(f) = e /\ ~IsRetracted(f)
  <2>1. Taught(f) <=> N(f) > 0
    BY MapFacts
  <2>2. N(f) > 0 => latest[f].revision = N(f) /\ latest[f].status \in {"active", "retracted"}
    BY MapFacts DEF Version
  <2> QED BY <1>1, <2>1, <2>2 DEF Correctable, IsRetracted
<1>3. Sql!HasRow(rows, f, e) <=> e =< N(f)
  <2>1. ASSUME Sql!HasRow(rows, f, e) PROVE e =< N(f)
    <3>1. PICK x \in rows : x.fact = f /\ x.revision = e
      BY <2>1 DEF Sql!HasRow
    <3>2. e \in 1..N(f)
      BY <3>1, RowFacts
    <3> QED BY <1>1, <3>2
  <2>2. ASSUME e =< N(f) PROVE Sql!HasRow(rows, f, e)
    <3>1. e \in 1..N(f)
      BY <1>1, <2>2
    <3> QED BY <3>1 DEF ParityInv
  <2> QED BY <2>1, <2>2
<1>4. ASSUME e =< N(f), Sql!KeyFree(f, e) PROVE Correctable(f, e)
  <2>1. \A p \in propagations : ~(p.fact = f /\ p.from = e)
    BY <1>4 DEF Sql!KeyFree, ParityInv
  <2>2. e \notin 1..(N(f) - 1)
    <3>1. ASSUME e \in 1..(N(f) - 1) PROVE FALSE
      <4>1. [fact |-> f, from |-> e, to |-> e + 1] \in propagations
        BY <3>1, EntryFacts
      <4> QED BY <2>1, <4>1
    <3> QED BY <3>1
  <2>3. N(f) = e
    BY <1>1, <1>4, <2>2
  <2>4. ~IsRetracted(f)
    <3>1. ASSUME IsRetracted(f) PROVE FALSE
      <4>1. [fact |-> f, from |-> N(f), to |-> 0] \in propagations
        BY <3>1, EntryFacts
      <4> QED BY <2>1, <2>3, <4>1
    <3> QED BY <3>1
  <2> QED BY <1>2, <2>3, <2>4
<1>5. ASSUME Correctable(f, e) PROVE Sql!KeyFree(f, e)
  <2>1. N(f) = e /\ ~IsRetracted(f)
    BY <1>2, <1>5
  <2>2. \A p \in propagations : p.fact = f => p.from \in 1..(e - 1)
    BY <2>1, EntryFacts
  <2> QED BY <1>1, <2>2 DEF Sql!KeyFree, ParityInv
<1> QED BY <1>2, <1>3, <1>4, <1>5

\* The rows a deactivation leaves: each has a row before it with the same key.
LEMMA DeactivatedFacts ==
    ASSUME LocalInv, ParityInv, NEW f \in Fact, NEW e \in 1..MaxRevision, Correctable(f, e)
    PROVE  LET After(x) == IF x.fact = f /\ x.revision = e
                             THEN [x EXCEPT !.status = "retracted", !.empty = TRUE] ELSE x
           IN  /\ Sql!Deactivated(f, e) = {After(x) : x \in rows}
               /\ \A x \in rows : /\ After(x) \in Sql!Row
                                  /\ After(x).fact = x.fact /\ After(x).revision = x.revision
                                  /\ x.fact = f => After(x).status = "retracted"
<1> DEFINE After(x) == IF x.fact = f /\ x.revision = e
                         THEN [x EXCEPT !.status = "retracted", !.empty = TRUE] ELSE x
<1>1. N(f) = e /\ ~IsRetracted(f)
  BY KeyFacts
<1>2. ASSUME NEW x \in rows
      PROVE  /\ x \in Sql!Row /\ (x.status = "active" <=> x.revision = N(x.fact) /\ ~IsRetracted(x.fact))
             /\ x.status \in {"active", "retracted"}
  BY RowFacts DEF ParityInv, RowOf
<1>3. Sql!Deactivated(f, e) = {After(x) : x \in rows}
  <2>1. \A x \in rows : x.fact = f /\ x.revision = e => x.status = "active"
    BY <1>1, <1>2
  <2> QED BY <2>1 DEF Sql!Deactivated
<1>4. ASSUME NEW x \in rows
      PROVE  /\ After(x) \in Sql!Row
             /\ After(x).fact = x.fact /\ After(x).revision = x.revision
             /\ x.fact = f => After(x).status = "retracted"
  <2>1. CASE x.fact = f /\ x.revision = e
    BY <1>2, <2>1 DEF Sql!Row
  <2>2. CASE ~(x.fact = f /\ x.revision = e)
    BY <1>1, <1>2, <2>2
  <2> QED BY <2>1, <2>2
<1> QED BY <1>3, <1>4

\* The rows a retraction leaves.
LEMMA RetractedFacts ==
    ASSUME LocalInv, ParityInv, NEW f \in Fact, NEW e \in 1..MaxRevision, Correctable(f, e)
    PROVE  LET After(x) == IF x.fact = f
                             THEN [x EXCEPT !.status = "retracted", !.empty = TRUE, !.similarity = 0]
                             ELSE x
           IN  /\ Sql!Retracted(f, e) = {After(x) : x \in rows}
               /\ \A x \in rows : /\ After(x) \in Sql!Row
                                  /\ After(x).fact = x.fact /\ After(x).revision = x.revision
                                  /\ After(x).sensitivity = x.sensitivity
                                  /\ x.fact = f => /\ After(x).status = "retracted"
                                                   /\ After(x).empty /\ After(x).similarity = 0
<1> DEFINE After(x) == IF x.fact = f
                         THEN [x EXCEPT !.status = "retracted", !.empty = TRUE, !.similarity = 0]
                         ELSE x
<1>1. N(f) = e /\ ~IsRetracted(f) /\ Sql!HasRow(rows, f, e)
  BY KeyFacts, RecallAssumption
<1>2. PICK y \in rows : y.fact = f /\ y.revision = e
  BY <1>1 DEF Sql!HasRow
<1>3. y.status = "active"
  BY <1>1, <1>2 DEF ParityInv, RowOf
<1>4. Sql!Retracted(f, e) = {After(x) : x \in rows}
  BY <1>2, <1>3 DEF Sql!Retracted
<1>5. ASSUME NEW x \in rows
      PROVE  /\ After(x) \in Sql!Row
             /\ After(x).fact = x.fact /\ After(x).revision = x.revision
             /\ After(x).sensitivity = x.sensitivity
             /\ x.fact = f => /\ After(x).status = "retracted"
                              /\ After(x).empty /\ After(x).similarity = 0
  <2>1. x \in Sql!Row
    BY DEF ParityInv, RowOf
  <2>2. CASE x.fact = f
    BY <2>1, <2>2 DEF Sql!Row
  <2>3. CASE x.fact # f
    BY <2>1, <2>3
  <2> QED BY <2>2, <2>3
<1> QED BY <1>4, <1>5

LEMMA SupersedeParity ==
    ASSUME LocalInv, ParityInv, NEW f \in Fact, NEW e \in 1..MaxRevision, NEW draft \in Draft
    PROVE  Correctable(f, e) /\ HasSuccessor(e) <=> Sql!SupersedeCommits(f, e, draft)
<1>1. e \in Nat \ {0} /\ N(f) \in Nat /\ (HasSuccessor(e) <=> Sql!HasSuccessor(e))
  BY MapFacts, RecallAssumption DEF HasSuccessor, Sql!HasSuccessor
<1>2. ASSUME Correctable(f, e), HasSuccessor(e) PROVE Sql!SupersedeCommits(f, e, draft)
  <2>1. N(f) = e /\ Sql!KeyFree(f, e) /\ Sql!HasRow(rows, f, e)
    BY <1>1, <1>2, KeyFacts
  <2>2. e + 1 \in 1..MaxRevision
    BY <1>1, <1>2, RecallAssumption DEF HasSuccessor
  <2>3. ~Sql!HasRow(rows, f, e + 1)
    BY <1>1, <2>1, <2>2, KeyFacts
  <2>4. Sql!HasRow(Sql!Superseded(f, e, draft), f, e)
    <3>1. PICK x \in rows : x.fact = f /\ x.revision = e
      BY <2>1 DEF Sql!HasRow
    <3> DEFINE After(z) == IF z.fact = f /\ z.revision = e
                             THEN [z EXCEPT !.status = "retracted", !.empty = TRUE] ELSE z
    <3>2. /\ Sql!Deactivated(f, e) = {After(z) : z \in rows}
          /\ After(x).fact = x.fact /\ After(x).revision = x.revision
      BY <1>2, DeactivatedFacts
    <3> PICK y : y = After(x)
      OBVIOUS
    <3>3. y \in Sql!Deactivated(f, e) /\ y.fact = f /\ y.revision = e
      BY <3>1, <3>2
    <3> QED BY <3>3 DEF Sql!HasRow, Sql!Superseded
  <2>5. Sql!HasRow(Sql!Superseded(f, e, draft), f, e + 1)
    <3> PICK y : y = Sql!ActiveRow(f, e + 1, draft)
      OBVIOUS
    <3>1. y \in Sql!Superseded(f, e, draft) /\ y.fact = f /\ y.revision = e + 1
      BY DEF Sql!Superseded, Sql!ActiveRow
    <3> QED BY <3>1 DEF Sql!HasRow
  <2>6. e + 1 # 0
    BY <1>1
  <2> QED BY <1>1, <1>2, <2>1, <2>3, <2>4, <2>5, <2>6
          DEF Sql!SupersedeCommits, Sql!Commits, Sql!References
<1>3. ASSUME Sql!SupersedeCommits(f, e, draft) PROVE Correctable(f, e) /\ HasSuccessor(e)
  <2>1. /\ Sql!HasSuccessor(e) /\ Sql!KeyFree(f, e)
        /\ Sql!HasRow(Sql!Superseded(f, e, draft), f, e)
    BY <1>3 DEF Sql!SupersedeCommits, Sql!Commits, Sql!References
  <2>2. PICK y \in Sql!Superseded(f, e, draft) : y.fact = f /\ y.revision = e
    BY <2>1 DEF Sql!HasRow
  <2>3. y \in Sql!Deactivated(f, e)
    <3>1. Sql!ActiveRow(f, e + 1, draft).revision = e + 1
      BY DEF Sql!ActiveRow
    <3> QED BY <1>1, <2>2, <3>1 DEF Sql!Superseded
  <2>4. Sql!HasRow(rows, f, e)
    <3>1. PICK x \in rows : y = IF x.fact = f /\ x.revision = e /\ x.status = "active"
                                  THEN [x EXCEPT !.status = "retracted", !.empty = TRUE] ELSE x
      BY <2>3 DEF Sql!Deactivated
    <3>2. x.fact = f /\ x.revision = e
      BY <2>2, <3>1
    <3> QED BY <3>2 DEF Sql!HasRow
  <2> QED BY <1>1, <2>1, <2>4, KeyFacts
<1> QED BY <1>2, <1>3

LEMMA RetractParity ==
    ASSUME LocalInv, ParityInv, NEW f \in Fact, NEW e \in 1..MaxRevision
    PROVE  Correctable(f, e) <=> Sql!RetractCommits(f, e)
<1>1. ASSUME Correctable(f, e) PROVE Sql!RetractCommits(f, e)
  <2>1. N(f) = e /\ Sql!KeyFree(f, e) /\ Sql!HasRow(rows, f, e)
    BY <1>1, KeyFacts, RecallAssumption
  <2>2. PICK x \in rows : x.fact = f /\ x.revision = e
    BY <2>1 DEF Sql!HasRow
  <2>3. \E y \in Sql!Retracted(f, e) : y.fact = f /\ y.revision = e /\ y.status = "retracted"
    <3> DEFINE After(z) == IF z.fact = f
                             THEN [z EXCEPT !.status = "retracted", !.empty = TRUE, !.similarity = 0]
                             ELSE z
    <3>1. /\ Sql!Retracted(f, e) = {After(z) : z \in rows}
          /\ After(x).fact = x.fact /\ After(x).revision = x.revision
          /\ x.fact = f => After(x).status = "retracted"
      BY <1>1, RetractedFacts
    <3> PICK y : y = After(x)
      OBVIOUS
    <3>2. y \in Sql!Retracted(f, e) /\ y.fact = f /\ y.revision = e /\ y.status = "retracted"
      BY <2>2, <3>1
    <3> QED BY <3>2
  <2> QED BY <2>1, <2>3 DEF Sql!RetractCommits, Sql!Commits, Sql!References, Sql!HasRow
<1>2. ASSUME Sql!RetractCommits(f, e) PROVE Correctable(f, e)
  <2>1. Sql!KeyFree(f, e) /\ Sql!HasRow(Sql!Retracted(f, e), f, e)
    BY <1>2 DEF Sql!RetractCommits, Sql!Commits, Sql!References
  <2>2. PICK y \in Sql!Retracted(f, e) : y.fact = f /\ y.revision = e
    BY <2>1 DEF Sql!HasRow
  <2>3. \E x \in rows : x.fact = f /\ x.revision = e
    BY <2>2 DEF Sql!Retracted
  <2> QED BY <2>1, <2>3, KeyFacts DEF Sql!HasRow
<1> QED BY <1>1, <1>2

\* A command changes the rows of one fact, to rows that stand for its versions.
ChangesRowsOf(f) ==
    /\ \A g \in Fact \ {f} : latest'[g] = latest[g] /\ history'[g] = history[g]
    /\ \A x \in rows : x.fact # f => x \in rows'
    /\ \A x \in rows' : x.fact # f => x \in rows
    /\ \A x \in rows' : x.fact = f => RowOf(x)'
    /\ \A x, y \in rows' : x.fact = f /\ y.fact = f /\ x.revision = y.revision => x = y
    /\ \A i \in 1..N(f)' : Sql!HasRow(rows', f, i)
    /\ propagated' = propagations'

LEMMA OneFactRows ==
    ASSUME LocalInv, ParityInv, NEW f \in Fact, ChangesRowsOf(f)
    PROVE  ParityInv'
<1> USE DEF ChangesRowsOf
<1>1. \A g \in Fact \ {f} : N(g)' = N(g) /\ IsRetracted(g)' = IsRetracted(g)
  BY DEF N, IsRetracted
<1>2. ASSUME NEW x \in rows', x.fact # f PROVE RowOf(x)'
  <2>1. x \in rows /\ RowOf(x)
    BY <1>2 DEF ParityInv
  <2>2. x.fact \in Fact \ {f}
    BY <1>2, <2>1, RowFacts
  <2> QED BY <1>1, <2>1, <2>2 DEF RowOf
<1>3. \A x \in rows' : RowOf(x)'
  BY <1>2
<1>4. OneRowPerKey'
  <2>1. ASSUME NEW x \in rows', NEW y \in rows', x.fact = y.fact, x.revision = y.revision PROVE x = y
    <3>1. CASE x.fact = f
      BY <2>1, <3>1
    <3>2. CASE x.fact # f
      BY <2>1, <3>2 DEF ParityInv, OneRowPerKey
    <3> QED BY <3>1, <3>2
  <2> QED BY <2>1 DEF OneRowPerKey
<1>5. ASSUME NEW g \in Fact, NEW i \in 1..N(g)' PROVE Sql!HasRow(rows', g, i)
  <2>1. CASE g = f
    BY <2>1
  <2>2. CASE g # f
    <3>1. i \in 1..N(g)
      BY <1>1, <2>2
    <3>2. PICK x \in rows : x.fact = g /\ x.revision = i
      BY <3>1 DEF ParityInv, Sql!HasRow
    <3> QED BY <2>2, <3>2 DEF Sql!HasRow
  <2> QED BY <2>1, <2>2
<1>6. \A g \in Fact : \A i \in 1..N(g)' : Sql!HasRow(rows', g, i)
  BY <1>5
<1> QED BY <1>3, <1>4, <1>6 DEF ParityInv

LEMMA ActiveRowFacts ==
    ASSUME NEW f \in Fact, NEW n \in 1..MaxRevision, NEW draft \in Draft
    PROVE  /\ Sql!ActiveRow(f, n, draft) \in Sql!Row
           /\ Sql!ActiveRow(f, n, draft).fact = f
           /\ Sql!ActiveRow(f, n, draft).revision = n
           /\ Sql!ActiveRow(f, n, draft).status = "active"
           /\ Sql!ActiveRow(f, n, draft).similarity = Fresh(n, draft).similarity
           /\ Sql!ActiveRow(f, n, draft).sensitivity = Fresh(n, draft).sensitivity
BY DEF Sql!ActiveRow, Sql!Row, Draft, Fresh, Sensitivity, Sql!Sensitivity

LEMMA TeachRows ==
    ASSUME LocalInv, ParityInv, NEW f \in Fact, NEW draft \in Draft,
           LocalTeach(f, draft), Sql!SqlTeach(f, draft)
    PROVE  ParityInv'
<1> PICK v, y : v = Fresh(1, draft) /\ y = Sql!ActiveRow(f, 1, draft)
  OBVIOUS
<1>1. /\ latest' = [latest EXCEPT ![f] = v] /\ history' = [history EXCEPT ![f] = <<v>>]
      /\ UNCHANGED propagations /\ ~Taught(f)
      /\ rows' = rows \union {y} /\ UNCHANGED propagated
  BY DEF LocalTeach, Sql!SqlTeach
<1>2. 1 \in 1..MaxRevision
  BY RecallAssumption
<1>3. /\ latest'[f] = v /\ history'[f] = <<v>>
      /\ \A g \in Fact \ {f} : latest'[g] = latest[g] /\ history'[g] = history[g]
  BY <1>1 DEF LocalInv, LocalTypeOK
<1>4. v.status = "active"
  BY <1>2, FreshFacts
<1>5. N(f)' = 1 /\ ~IsRetracted(f)'
  BY <1>3, <1>4 DEF N, IsRetracted
<1>6. \A x \in rows : x.fact # f
  BY <1>1, RowFacts, MapFacts
<1>7. /\ y \in Sql!Row /\ y.fact = f /\ y.revision = 1 /\ y.status = "active"
      /\ y.similarity = v.similarity /\ y.sensitivity = v.sensitivity
  BY <1>2, ActiveRowFacts
<1>8. RowOf(y)'
  BY <1>3, <1>5, <1>7 DEF RowOf
<1>9. /\ \A x \in rows : x.fact # f => x \in rows'
      /\ \A x \in rows' : x.fact # f => x \in rows
      /\ \A x \in rows' : x.fact = f => x = y
  BY <1>1, <1>6, <1>7
<1>10. \A i \in 1..N(f)' : Sql!HasRow(rows', f, i)
  <2>1. \A i \in 1..N(f)' : i = 1
    BY <1>5
  <2> QED BY <1>1, <1>7, <2>1 DEF Sql!HasRow
<1>11. propagated' = propagations'
  BY <1>1 DEF ParityInv
<1>12. \A x \in rows' : x.fact = f => RowOf(x)'
  BY <1>8, <1>9
<1>13. \A x, z \in rows' : x.fact = f /\ z.fact = f /\ x.revision = z.revision => x = z
  BY <1>9
<1>14. ChangesRowsOf(f)
  BY <1>3, <1>9, <1>10, <1>11, <1>12, <1>13 DEF ChangesRowsOf
<1> QED BY <1>14, OneFactRows

LEMMA SupersedeRows ==
    ASSUME LocalInv, ParityInv, NEW f \in Fact, NEW e \in 1..MaxRevision, NEW draft \in Draft,
           LocalSupersede(f, e, draft), Sql!SqlSupersede(f, e, draft)
    PROVE  ParityInv'
<1> DEFINE After(x) == IF x.fact = f /\ x.revision = e
                         THEN [x EXCEPT !.status = "retracted", !.empty = TRUE] ELSE x
<1> PICK v, y : v = Fresh(e + 1, draft) /\ y = Sql!ActiveRow(f, e + 1, draft)
  OBVIOUS
<1>1. Correctable(f, e) /\ HasSuccessor(e)
  BY DEF LocalSupersede
<1>2. /\ e \in Nat /\ e + 1 \in 1..MaxRevision
      /\ N(f) = e /\ ~IsRetracted(f)
  BY <1>1, KeyFacts, RecallAssumption DEF HasSuccessor
<1>3. /\ latest' = [latest EXCEPT ![f] = v] /\ history' = [history EXCEPT ![f] = Append(@, v)]
      /\ propagations' = propagations \union {[fact |-> f, from |-> e, to |-> e + 1]}
  BY DEF LocalSupersede
<1>4. /\ rows' = Sql!Deactivated(f, e) \union {y}
      /\ propagated' = propagated \union {[fact |-> f, from |-> e, to |-> e + 1]}
  BY DEF Sql!SqlSupersede, Sql!Superseded
<1>5. /\ latest'[f] = v /\ history'[f] = Append(history[f], v)
      /\ \A g \in Fact \ {f} : latest'[g] = latest[g] /\ history'[g] = history[g]
  BY <1>3 DEF LocalInv, LocalTypeOK
<1>6. v.status = "active"
  BY <1>2, FreshFacts
<1>7. N(f)' = e + 1 /\ ~IsRetracted(f)'
  <2>1. Len(Append(history[f], v)) = Len(history[f]) + 1
    BY DEF LocalInv
  <2> QED BY <1>2, <1>5, <1>6, <2>1 DEF N, IsRetracted
<1>8. /\ y \in Sql!Row /\ y.fact = f /\ y.revision = e + 1 /\ y.status = "active"
      /\ y.similarity = v.similarity /\ y.sensitivity = v.sensitivity
  BY <1>2, ActiveRowFacts
<1>9. RowOf(y)'
  <2>1. e + 1 \in 1..(e + 1)
    BY <1>2
  <2> QED BY <1>5, <1>7, <1>8, <2>1 DEF RowOf
<1>10. /\ Sql!Deactivated(f, e) = {After(x) : x \in rows}
       /\ \A x \in rows : /\ After(x) \in Sql!Row
                          /\ After(x).fact = x.fact /\ After(x).revision = x.revision
                          /\ x.fact = f => After(x).status = "retracted"
  BY <1>1, DeactivatedFacts
<1>11. \A x \in rows : x.fact # f => After(x) = x
  OBVIOUS
<1> HIDE DEF After
<1>12. rows' = {After(x) : x \in rows} \union {y}
  BY <1>4, <1>10
<1>13. /\ \A x \in rows : x.fact # f => x \in rows'
       /\ \A x \in rows' : x.fact # f => x \in rows
  BY <1>8, <1>10, <1>11, <1>12
<1>14. \A x \in rows : x.fact = f => x.revision \in 1..e /\ x.revision # e + 1
  BY <1>2, RowFacts
<1>15. ASSUME NEW x \in rows, x.fact = f PROVE RowOf(After(x))'
  <2>1. /\ After(x).fact = f /\ After(x) \in Sql!Row /\ After(x).status = "retracted"
        /\ After(x).revision \in 1..e /\ After(x).revision # e + 1
    BY <1>10, <1>14, <1>15
  <2>2. After(x).revision \in 1..(e + 1)
    BY <1>2, <2>1
  <2> QED BY <1>7, <2>1, <2>2 DEF RowOf
<1>16. \A x \in rows' : x.fact = f => RowOf(x)'
  BY <1>9, <1>10, <1>12, <1>15
<1>17. ASSUME NEW a \in rows', NEW b \in rows', a.fact = f, b.fact = f, a.revision = b.revision PROVE a = b
  <2>1. CASE a = y \/ b = y
    BY <1>8, <1>10, <1>12, <1>14, <1>17, <2>1
  <2>2. CASE a # y /\ b # y
    <3>1. PICK x \in rows : a = After(x)
      BY <1>12, <2>2
    <3>2. PICK z \in rows : b = After(z)
      BY <1>12, <2>2
    <3>3. x.fact = z.fact /\ x.revision = z.revision
      BY <1>10, <1>17, <3>1, <3>2
    <3>4. x = z
      BY <3>3 DEF ParityInv, OneRowPerKey
    <3> QED BY <3>1, <3>2, <3>4
  <2> QED BY <2>1, <2>2
<1>18. ASSUME NEW i \in 1..N(f)' PROVE Sql!HasRow(rows', f, i)
  <2>1. CASE i = e + 1
    BY <1>8, <1>12, <2>1 DEF Sql!HasRow
  <2>2. CASE i \in 1..e
    <3>1. PICK x \in rows : x.fact = f /\ x.revision = i
      BY <1>2, <2>2 DEF ParityInv, Sql!HasRow
    <3>2. After(x) \in rows' /\ After(x).fact = f /\ After(x).revision = i
      BY <1>10, <1>12, <3>1
    <3> QED BY <3>2 DEF Sql!HasRow
  <2> QED BY <1>2, <1>7, <2>1, <2>2
<1>19. propagated' = propagations'
  BY <1>3, <1>4 DEF ParityInv
<1>20. \A g \in Fact \ {f} : latest'[g] = latest[g] /\ history'[g] = history[g]
  BY <1>5
<1>21. \A x, z \in rows' : x.fact = f /\ z.fact = f /\ x.revision = z.revision => x = z
  BY <1>17
<1>22. \A i \in 1..N(f)' : Sql!HasRow(rows', f, i)
  BY <1>18
<1>23. ChangesRowsOf(f)
  BY <1>13, <1>16, <1>19, <1>20, <1>21, <1>22 DEF ChangesRowsOf
<1> QED BY <1>23, OneFactRows

\* What a retraction makes of the latest version of a fact.
LEMMA RetractedVersion ==
    ASSUME LocalInv, NEW f \in Fact, NEW e \in 1..MaxRevision, N(f) = e, LocalRetract(f, e)
    PROVE  /\ latest'[f].status = "retracted" /\ latest'[f].similarity = 0
           /\ latest'[f].sensitivity = latest[f].sensitivity
           /\ N(f)' = e /\ IsRetracted(f)'
           /\ \A g \in Fact \ {f} : latest'[g] = latest[g] /\ history'[g] = history[g]
<1> PICK v, h : v = Erase(latest[f]) /\ h = ErasedHistory(history[f])
  OBVIOUS
<1>1. latest' = [latest EXCEPT ![f] = v] /\ history' = [history EXCEPT ![f] = h]
  BY DEF LocalRetract
<1>2. /\ latest'[f] = v /\ history'[f] = h
      /\ \A g \in Fact \ {f} : latest'[g] = latest[g] /\ history'[g] = history[g]
  BY <1>1 DEF LocalInv, LocalTypeOK
<1>3. e \in Nat /\ e > 0
  BY RecallAssumption
<1>4. v.status = "retracted" /\ v.similarity = 0 /\ v.sensitivity = latest[f].sensitivity
  <2>1. latest[f] \in Version
    BY <1>3, MapFacts
  <2> QED BY <2>1, EraseFacts
<1>5. Len(h) = e
  <2>1. DOMAIN h = 1..e
    BY MapFacts DEF ErasedHistory
  <2>2. h \in [1..e -> {h[i] : i \in 1..e}]
    BY <2>1 DEF ErasedHistory
  <2> QED BY <1>3, <2>2, IsASeq, LenProperties
<1> QED BY <1>2, <1>3, <1>4, <1>5 DEF N, IsRetracted

LEMMA RetractRows ==
    ASSUME LocalInv, ParityInv, NEW f \in Fact, NEW e \in 1..MaxRevision,
           LocalRetract(f, e), Sql!SqlRetract(f, e)
    PROVE  ParityInv'
<1> DEFINE After(x) == IF x.fact = f
                         THEN [x EXCEPT !.status = "retracted", !.empty = TRUE, !.similarity = 0]
                         ELSE x
<1>1. Correctable(f, e)
  BY DEF LocalRetract
<1>2. N(f) = e /\ ~IsRetracted(f) /\ e \in Nat /\ e > 0
  BY <1>1, KeyFacts, RecallAssumption
<1>3. propagations' = propagations \union {[fact |-> f, from |-> e, to |-> 0]}
  BY DEF LocalRetract
<1>4. /\ rows' = Sql!Retracted(f, e)
      /\ propagated' = propagated \union {[fact |-> f, from |-> e, to |-> 0]}
  BY DEF Sql!SqlRetract
<1>5. /\ latest'[f].status = "retracted" /\ latest'[f].similarity = 0
      /\ latest'[f].sensitivity = latest[f].sensitivity
      /\ N(f)' = e /\ IsRetracted(f)'
      /\ \A g \in Fact \ {f} : latest'[g] = latest[g] /\ history'[g] = history[g]
  BY <1>2, RetractedVersion
<1>6. /\ Sql!Retracted(f, e) = {After(x) : x \in rows}
      /\ \A x \in rows : /\ After(x) \in Sql!Row
                         /\ After(x).fact = x.fact /\ After(x).revision = x.revision
                         /\ After(x).sensitivity = x.sensitivity
                         /\ x.fact = f => /\ After(x).status = "retracted"
                                          /\ After(x).empty /\ After(x).similarity = 0
  BY <1>1, RetractedFacts
<1>7. \A x \in rows : x.fact # f => After(x) = x
  OBVIOUS
<1> HIDE DEF After
<1>8. rows' = {After(x) : x \in rows}
  BY <1>4, <1>6
<1>9. /\ \A x \in rows : x.fact # f => x \in rows'
      /\ \A x \in rows' : x.fact # f => x \in rows
  BY <1>6, <1>7, <1>8
<1>10. ASSUME NEW x \in rows, x.fact = f PROVE RowOf(After(x))'
  <2>1. x.revision \in 1..e /\ (x.revision = e => x.sensitivity = latest[f].sensitivity)
    BY <1>2, <1>10 DEF ParityInv, RowOf
  <2>2. /\ After(x).fact = f /\ After(x) \in Sql!Row /\ After(x).status = "retracted"
        /\ After(x).revision \in 1..e /\ After(x).similarity = 0 /\ After(x).empty
        /\ After(x).revision = e => After(x).sensitivity = latest'[f].sensitivity
    BY <1>5, <1>6, <1>10, <2>1
  <2> QED BY <1>5, <2>2 DEF RowOf
<1>11. \A x \in rows' : x.fact = f => RowOf(x)'
  BY <1>6, <1>8, <1>10
<1>12. ASSUME NEW a \in rows', NEW b \in rows', a.fact = f, b.fact = f, a.revision = b.revision PROVE a = b
  <2>1. PICK x \in rows : a = After(x)
    BY <1>8
  <2>2. PICK z \in rows : b = After(z)
    BY <1>8
  <2>3. x.fact = z.fact /\ x.revision = z.revision
    BY <1>6, <1>12, <2>1, <2>2
  <2>4. x = z
    BY <2>3 DEF ParityInv, OneRowPerKey
  <2> QED BY <2>1, <2>2, <2>4
<1>13. ASSUME NEW i \in 1..N(f)' PROVE Sql!HasRow(rows', f, i)
  <2>1. i \in 1..N(f)
    BY <1>2, <1>5
  <2>2. PICK x \in rows : x.fact = f /\ x.revision = i
    BY <2>1 DEF ParityInv, Sql!HasRow
  <2>3. After(x) \in rows' /\ After(x).fact = f /\ After(x).revision = i
    BY <1>6, <1>8, <2>2
  <2> QED BY <2>3 DEF Sql!HasRow
<1>14. propagated' = propagations'
  BY <1>3, <1>4 DEF ParityInv
<1>15. \A g \in Fact \ {f} : latest'[g] = latest[g] /\ history'[g] = history[g]
  BY <1>5
<1>16. \A x, y \in rows' : x.fact = f /\ y.fact = f /\ x.revision = y.revision => x = y
  BY <1>12
<1>17. \A i \in 1..N(f)' : Sql!HasRow(rows', f, i)
  BY <1>13
<1>18. ChangesRowsOf(f)
  BY <1>9, <1>11, <1>14, <1>15, <1>16, <1>17 DEF ChangesRowsOf
<1> QED BY <1>18, OneFactRows

-----------------------------------------------------------------------------
Inv == LocalInv /\ ParityInv

LEMMA InitInv == Init => Inv
<1> SUFFICES ASSUME Init PROVE Inv
  OBVIOUS
<1>1. /\ latest = [f \in Fact |-> Untaught] /\ history = [f \in Fact |-> <<>>]
      /\ propagations = {} /\ receipts = <<>> /\ rows = {} /\ propagated = {}
  BY DEF Init, LocalInit, Sql!SqlInit
<1>2. \A f \in Fact : history[f] = <<>> /\ N(f) = 0 /\ latest[f] = Untaught
  BY <1>1 DEF N
<1>3. LocalTypeOK /\ history \in [Fact -> Seq(Version)]
  BY <1>1 DEF LocalTypeOK
<1>4. MapsAgree
  <2>1. ASSUME NEW f \in Fact
        PROVE  /\ latest[f] = IF N(f) = 0 THEN Untaught ELSE history[f][N(f)]
               /\ \A i \in 1..N(f) : history[f][i].revision = i
               /\ Entries(f) = Steps(f, N(f)) \union Ended(f, N(f), latest[f])
    <3>1. Entries(f) = {}
      BY <1>1 DEF Entries
    <3>2. 1..(0 - 1) = {} /\ 1..0 = {}
      OBVIOUS
    <3>3. Steps(f, N(f)) = {} /\ Ended(f, N(f), latest[f]) = {}
      BY <1>2, <3>2 DEF Steps, Ended
    <3> QED BY <1>2, <3>1, <3>2, <3>3
  <2> QED BY <2>1 DEF MapsAgree, N, Entries, Steps, Ended
<1>5. ErasureIsTotal /\ NeverRetracted
  <2>1. \A f \in Fact : DOMAIN history[f] = {} /\ 1..N(f) = {}
    BY <1>2
  <2> QED BY <2>1 DEF ErasureIsTotal, NeverRetracted
<1>6. ReceiptsNeverGoBack /\ StandardSeesPublic /\ ReceiptsAreTrue
  BY <1>1 DEF ReceiptsNeverGoBack, StandardSeesPublic, ReceiptsAreTrue
<1>7. ParityInv
  <2>1. \A f \in Fact : 1..N(f) = {}
    BY <1>2
  <2> QED BY <1>1, <2>1 DEF ParityInv, OneRowPerKey
<1> QED BY <1>3, <1>4, <1>5, <1>6, <1>7 DEF Inv, LocalInv

\* Both stores take a command or both refuse it.
LEMMA TeachTaken ==
    ASSUME Inv, NEW f \in Fact, NEW draft \in Draft, Teach(f, draft)
    PROVE  LocalTeach(f, draft) /\ Sql!SqlTeach(f, draft)
BY TeachParity DEF Inv, Teach, Taken

LEMMA SupersedeTaken ==
    ASSUME Inv, NEW f \in Fact, NEW e \in 1..MaxRevision, NEW draft \in Draft, Supersede(f, e, draft)
    PROVE  LocalSupersede(f, e, draft) /\ Sql!SqlSupersede(f, e, draft)
BY SupersedeParity DEF Inv, Supersede, Taken

LEMMA RetractTaken ==
    ASSUME Inv, NEW f \in Fact, NEW e \in 1..MaxRevision, Retract(f, e)
    PROVE  LocalRetract(f, e) /\ Sql!SqlRetract(f, e)
BY RetractParity DEF Inv, Retract, Taken

LEMMA NextInv == Inv /\ [Next]_vars => Inv'
<1> SUFFICES ASSUME Inv, [Next]_vars PROVE Inv'
  OBVIOUS
<1>1. ASSUME NEW f \in Fact, NEW draft \in Draft, Teach(f, draft) PROVE Inv'
  BY <1>1, TeachTaken, LocalTeachInv, TeachRows DEF Inv
<1>2. ASSUME NEW f \in Fact, NEW e \in 1..MaxRevision, NEW draft \in Draft, Supersede(f, e, draft)
      PROVE  Inv'
  BY <1>2, SupersedeTaken, LocalSupersedeInv, SupersedeRows DEF Inv
<1>3. ASSUME NEW f \in Fact, NEW e \in 1..MaxRevision, Retract(f, e) PROVE Inv'
  BY <1>3, RetractTaken, LocalRetractInv, RetractRows DEF Inv
<1>4. ASSUME UNCHANGED <<latest, history, propagations, rows, propagated>>, ParityInv PROVE ParityInv'
  BY <1>4 DEF ParityInv, RowOf, OneRowPerKey, N, IsRetracted
<1>5. ASSUME NEW tier \in Tier, NEW k \in 1..MaxTopK, LocalAsk(tier, k), UNCHANGED <<rows, propagated>>
      PROVE  Inv'
  BY <1>4, <1>5, LocalAskInv DEF Inv, LocalAsk
<1>6. CASE UNCHANGED vars
  <2>1. LocalInv'
    BY <1>6 DEF vars, localVars, Inv, LocalInv, LocalTypeOK, MapsAgree, ErasureIsTotal, NeverRetracted,
                ReceiptsNeverGoBack, StandardSeesPublic, ReceiptsAreTrue, ReceiptIsTrue, N, IsRetracted
  <2> QED BY <1>4, <1>6, <2>1 DEF vars, localVars, Inv
<1> QED BY <1>1, <1>2, <1>3, <1>5, <1>6 DEF Next

LEMMA InvHolds == Spec => []Inv
BY InitInv, NextInv, PTL DEF Spec

-----------------------------------------------------------------------------
(* Theorems.                                                               *)

LEMMA SqlTypes == ASSUME Inv PROVE Sql!SqlTypeOK
<1>1. rows \subseteq Sql!Row
  BY DEF Inv, ParityInv, RowOf
<1>2. propagated \subseteq Sql!Propagation
  BY DEF Inv, ParityInv, LocalInv, LocalTypeOK, Propagation, Sql!Propagation
<1> QED BY <1>1, <1>2 DEF Sql!SqlTypeOK

LEMMA OneActive == ASSUME Inv PROVE Sql!OneActiveRevision
<1> SUFFICES ASSUME NEW x \in rows, NEW y \in rows, x.fact = y.fact, x.status = "active"
             PROVE  y.revision =< x.revision /\ (y.status = "active" => x = y)
  BY DEF Sql!OneActiveRevision
<1>1. x.revision = N(x.fact)
  BY DEF Inv, ParityInv, RowOf
<1>2. y.revision \in 1..N(x.fact) /\ N(x.fact) \in Nat
  BY RowFacts DEF Inv
<1>3. ASSUME y.status = "active" PROVE x = y
  <2>1. y.revision = N(y.fact)
    BY <1>3 DEF Inv, ParityInv, RowOf
  <2> QED BY <1>1, <2>1 DEF Inv, ParityInv, OneRowPerKey
<1> QED BY <1>1, <1>2, <1>3

LEMMA Chained == ASSUME Inv PROVE Sql!RevisionsAreChained
<1> SUFFICES ASSUME NEW x \in rows
             PROVE  /\ x.revision > 1 =>
                          /\ Sql!HasRow(rows, x.fact, x.revision - 1)
                          /\ [fact |-> x.fact, from |-> x.revision - 1, to |-> x.revision] \in propagated
                    /\ x.status = "retracted" =>
                          \E p \in propagated : p.fact = x.fact /\ p.from = x.revision
  BY DEF Sql!RevisionsAreChained
<1> PICK f, r : f = x.fact /\ r = x.revision
  OBVIOUS
<1>1. f \in Fact /\ N(f) \in Nat \ {0} /\ r \in 1..N(f) /\ propagated = propagations
  BY RowFacts DEF Inv, ParityInv
<1>2. /\ \A i \in 1..(N(f) - 1) : [fact |-> f, from |-> i, to |-> i + 1] \in propagated
      /\ IsRetracted(f) => [fact |-> f, from |-> N(f), to |-> 0] \in propagated
  BY <1>1, EntryFacts DEF Inv
<1>3. ASSUME r > 1
      PROVE  Sql!HasRow(rows, f, r - 1) /\ [fact |-> f, from |-> r - 1, to |-> r] \in propagated
  <2>1. r - 1 \in 1..(N(f) - 1) /\ r - 1 \in 1..N(f) /\ (r - 1) + 1 = r
    BY <1>1, <1>3
  <2>2. Sql!HasRow(rows, f, r - 1)
    BY <1>1, <2>1 DEF Inv, ParityInv
  <2>3. [fact |-> f, from |-> r - 1, to |-> (r - 1) + 1] \in propagated
    BY <1>2, <2>1
  <2> QED BY <2>1, <2>2, <2>3
<1>4. ASSUME x.status = "retracted" PROVE \E p \in propagated : p.fact = f /\ p.from = r
  <2>1. x.status # "active"
    BY <1>4
  <2>2. r # N(f) \/ IsRetracted(f)
    BY <2>1 DEF Inv, ParityInv, RowOf
  <2>3. CASE r = N(f)
    BY <1>2, <2>2, <2>3
  <2>4. CASE r # N(f)
    <3>1. r \in 1..(N(f) - 1)
      BY <1>1, <2>4
    <3> QED BY <1>2, <3>1
  <2> QED BY <2>3, <2>4
<1> QED BY <1>3, <1>4

LEMMA TotalRetraction == ASSUME Inv PROVE Sql!RetractionIsTotal
<1> SUFFICES ASSUME NEW p \in propagated, p.to = 0, NEW x \in rows, x.fact = p.fact
             PROVE  x.status = "retracted" /\ x.empty /\ x.similarity = 0
  BY DEF Sql!RetractionIsTotal
<1> PICK f : f = x.fact
  OBVIOUS
<1>1. f \in Fact /\ RowOf(x) /\ x.status \in {"active", "retracted"} /\ p \in propagations
  BY RowFacts DEF Inv, ParityInv
<1>2. IsRetracted(f)
  <2>1. \/ p.from \in 1..(N(f) - 1) /\ p.to = p.from + 1
        \/ IsRetracted(f)
    BY <1>1, EntryFacts DEF Inv
  <2>2. \A i \in 1..(N(f) - 1) : i + 1 # 0
    OBVIOUS
  <2> QED BY <2>1, <2>2
<1> QED BY <1>1, <1>2 DEF RowOf

\* Both stores are well formed: the maps of the repository and its propagation log tell one
\* story, a fact has at most one active row, the newest of a gapless chain, a retraction erases
\* every version in either store, and no receipt goes back on an earlier one or shows a standard
\* caller what was restricted in that revision.
THEOREM StoresSound == Spec => []StoresInv
<1>1. Inv => StoresInv
  BY SqlTypes, OneActive, Chained, TotalRetraction DEF Inv, LocalInv, StoresInv, RetractionIsTotal
<1> QED BY <1>1, InvHolds, PTL

\* The current version of a fact, in either store.
Status(f) == IF IsRetracted(f) THEN "retracted" ELSE "active"

LEMMA NewestFacts ==
    ASSUME Inv, NEW f \in Fact
    PROVE  /\ N(f) \in Nat /\ (Taught(f) <=> N(f) > 0) /\ (Sql!HasRow(rows, f, 1) <=> N(f) > 0)
           /\ N(f) > 0 =>
                 LET x == Sql!Newest(f)
                 IN  /\ x.revision = N(f) /\ latest[f].revision = N(f)
                     /\ x.status = Status(f) /\ latest[f].status = Status(f)
                     /\ x.sensitivity = latest[f].sensitivity
                     /\ x.similarity = latest[f].similarity
<1>1. N(f) \in Nat /\ (Taught(f) <=> N(f) > 0) /\ (Sql!HasRow(rows, f, 1) <=> N(f) > 0)
  <2>1. N(f) \in Nat /\ (Taught(f) <=> N(f) > 0)
    BY MapFacts DEF Inv
  <2>2. Taught(f) <=> Sql!HasRow(rows, f, 1)
    BY TeachParity DEF Inv
  <2> QED BY <2>1, <2>2
<1>2. ASSUME N(f) > 0, NEW x, x = Sql!Newest(f)
      PROVE  /\ x.revision = N(f) /\ latest[f].revision = N(f)
             /\ x.status = Status(f) /\ latest[f].status = Status(f)
             /\ x.sensitivity = latest[f].sensitivity
             /\ x.similarity = latest[f].similarity
  <2>1. N(f) \in 1..N(f)
    BY <1>1, <1>2
  <2>2. PICK y \in rows : y.fact = f /\ y.revision = N(f)
    BY <2>1 DEF Inv, ParityInv, Sql!HasRow
  <2>3. \A z \in rows : z.fact = f => z.revision \in 1..N(f)
    BY RowFacts DEF Inv
  <2>4. x \in rows /\ x.fact = f /\ \A z \in rows : z.fact = f => z.revision =< x.revision
    <3>1. \A z \in rows : z.fact = f => z.revision =< y.revision
      BY <1>1, <2>2, <2>3
    <3> QED BY <1>2, <2>2, <3>1 DEF Sql!Newest
  <2>5. x.revision = N(f)
    BY <1>1, <2>2, <2>3, <2>4
  <2>6. /\ x.status = "active" <=> ~IsRetracted(f)
        /\ x.sensitivity = latest[f].sensitivity /\ x.similarity = latest[f].similarity
    BY <2>4, <2>5 DEF Inv, ParityInv, RowOf
  <2>7. x.status \in {"active", "retracted"}
    BY <2>4, RowFacts DEF Inv
  <2>8. latest[f].revision = N(f) /\ latest[f].status \in {"active", "retracted"}
    BY <1>2, MapFacts DEF Inv, Version
  <2>9. x.status = Status(f) /\ latest[f].status = Status(f)
    BY <1>2, <2>6, <2>7, <2>8 DEF Status, IsRetracted
  <2> QED BY <2>5, <2>6, <2>8, <2>9
<1> QED BY <1>1, <1>2

\* No fact outranks every fact.
LEMMA RankFacts ==
    ASSUME Inv, NEW f \in Fact, N(f) > 0, NEW tier
    PROVE  Cardinality({g \in Authorized(tier) : Ranks(g, f)}) < Cardinality(Fact)
<1> PICK S : S = {g \in Authorized(tier) : Ranks(g, f)}
  OBVIOUS
<1>1. ~Ranks(f, f)
  <2>1. latest[f].similarity \in Int
    <3>1. latest[f] \in Version
      BY MapFacts DEF Inv
    <3>2. latest[f].similarity \in Similarity \union {0}
      BY <3>1 DEF Version
    <3>3. Similarity \subseteq Int
      BY RecallAssumption
    <3>4. 0 \in Int
      OBVIOUS
    <3> QED BY ONLY <3>2, <3>3, <3>4
  <2>2. f \in Int
    BY RecallAssumption
  <2> QED BY <2>1, <2>2 DEF Ranks
<1>2. S \subseteq Fact \ {f}
  BY <1>1 DEF Authorized
<1>3. IsFiniteSet(Fact) /\ Cardinality(Fact) \in Nat
  BY RecallAssumption, FS_CardinalityType
<1>4. IsFiniteSet(Fact \ {f}) /\ Cardinality(Fact \ {f}) = Cardinality(Fact) - 1
  BY <1>3, FS_RemoveElement
<1>5. Cardinality(S) =< Cardinality(Fact \ {f}) /\ IsFiniteSet(S)
  BY ONLY <1>2, <1>4, FS_Subset
<1>6. Cardinality(S) \in Nat
  BY ONLY <1>5, FS_CardinalityType
<1> QED BY <1>3, <1>4, <1>5, <1>6

\* Both stores hold the same current version of every fact after the same commands, and the SQL
\* plan of recall returns no row that the in-memory repository would withhold from that caller.
THEOREM StoresAgree == Spec => []SameFacts
<1>1. ASSUME Inv PROVE SameFacts
  <2> USE <1>1
  <2>1. propagations = propagated
    BY DEF Inv, ParityInv
  <2>2. ASSUME NEW f \in Fact
        PROVE  /\ Taught(f) <=> Sql!HasRow(rows, f, 1)
               /\ Taught(f) =>
                     LET x == Sql!Newest(f)
                     IN  /\ x.revision = latest[f].revision
                         /\ x.status = latest[f].status
                         /\ x.sensitivity = latest[f].sensitivity
                         /\ x.similarity = latest[f].similarity
    BY NewestFacts
  <2>3. ASSUME NEW tier \in Tier, NEW k \in 1..MaxTopK, NEW x \in Sql!Selected(tier, k)
        PROVE  x.fact \in Disclosed(tier, Cardinality(Fact)) /\ x.revision = latest[x.fact].revision
    <3>1. x \in rows /\ x.status = "active" /\ (tier = "privileged" \/ x.sensitivity = "public")
      BY DEF Sql!Selected
    <3> PICK f : f = x.fact
      OBVIOUS
    <3>2. f \in Fact /\ N(f) \in Nat \ {0}
      BY <3>1, RowFacts DEF Inv
    <3>3. x.revision = N(f) /\ ~IsRetracted(f) /\ x.sensitivity = latest[f].sensitivity
      BY <3>1 DEF Inv, ParityInv, RowOf
    <3>4. latest[f].revision = N(f) /\ latest[f].status = "active" /\ Taught(f)
      BY <3>2, <3>3, NewestFacts DEF Status
    <3>5. f \in Authorized(tier)
      BY <3>1, <3>2, <3>3, <3>4 DEF Authorized
    <3>6. f \in Scored(tier, Cardinality(Fact))
      BY <3>2, <3>5, RankFacts DEF Scored
    <3> QED BY <3>3, <3>4, <3>6 DEF Disclosed
  <2> QED BY <2>1, <2>2, <2>3 DEF SameFacts
<1> QED BY <1>1, InvHolds, PTL

\* The memory the tables stand for.
Memory == [f \in Fact |-> IF N(f) > 0 THEN [revision |-> N(f), status |-> Status(f)]
                                      ELSE [revision |-> 0, status |-> "untaught"]]

RowMemory == [f \in Fact |-> IF Sql!HasRow(rows, f, 1)
                               THEN [revision |-> Sql!Newest(f).revision, status |-> Sql!Newest(f).status]
                               ELSE [revision |-> 0, status |-> "untaught"]]

LEMMA RowsStandForMemory == ASSUME Inv PROVE RowMemory = Memory
<1>1. ASSUME NEW f \in Fact PROVE RowMemory[f] = Memory[f]
  BY NewestFacts DEF RowMemory, Memory
<1> QED BY <1>1 DEF RowMemory, Memory

\* The plans and the keys of the tables implement the ledger: a fact is taught once, corrected by
\* compare-and-set on its revision and retracted for good, with one propagation entry for each
\* correction, although no plan looks at a row count.
THEOREM LedgerKept == Spec => ImplementsLedger
<1>1. Init => Sql!SqlLedger!Init
  <2> SUFFICES ASSUME Init PROVE RowMemory = [f \in Fact |-> [revision |-> 0, status |-> "untaught"]] /\ propagated = {}
    BY DEF Sql!SqlLedger!Init, Sql!SqlLedger!Untaught, RowMemory
  <2>1. rows = {} /\ propagated = {}
    BY DEF Init, Sql!SqlInit
  <2> QED BY <2>1 DEF RowMemory, Sql!HasRow
<1>2. ASSUME Inv, [Next]_vars, RowMemory = Memory, (RowMemory = Memory)'
      PROVE  [Sql!SqlLedger!Next]_<<RowMemory, propagated>>
  <2> USE <1>2
  <2>1. ASSUME NEW f \in Fact, NEW n \in Nat \ {0}, NEW s, N(f)' = n, Status(f)' = s,
               \A g \in Fact \ {f} : latest'[g] = latest[g] /\ history'[g] = history[g]
        PROVE  RowMemory' = [RowMemory EXCEPT ![f] = [revision |-> n, status |-> s]]
    <3>1. ASSUME NEW g \in Fact, g # f PROVE Memory'[g] = Memory[g]
      BY <2>1, <3>1 DEF Memory, N, Status, IsRetracted
    <3>2. Memory'[f] = [revision |-> n, status |-> s]
      BY <2>1 DEF Memory
    <3>3. Memory' = [Memory EXCEPT ![f] = [revision |-> n, status |-> s]]
      BY <3>1, <3>2 DEF Memory
    <3> QED BY <3>3
  <2>2. ASSUME NEW f \in Fact, NEW draft \in Draft, Teach(f, draft) PROVE Sql!SqlLedger!Teach(f)
    <3>1. LocalTeach(f, draft) /\ Sql!SqlTeach(f, draft)
      BY <2>2, TeachTaken
    <3> PICK v : v = Fresh(1, draft)
      OBVIOUS
    <3>2. /\ latest' = [latest EXCEPT ![f] = v] /\ history' = [history EXCEPT ![f] = <<v>>]
          /\ ~Taught(f) /\ UNCHANGED propagated /\ v.status = "active"
      BY <3>1 DEF LocalTeach, Sql!SqlTeach, Fresh
    <3>3. /\ latest'[f] = v /\ history'[f] = <<v>>
          /\ \A g \in Fact \ {f} : latest'[g] = latest[g] /\ history'[g] = history[g]
      BY <3>2 DEF Inv, LocalInv, LocalTypeOK
    <3>4. N(f)' = 1 /\ Status(f)' = "active"
      BY <3>2, <3>3 DEF N, Status, IsRetracted
    <3>5. RowMemory' = [RowMemory EXCEPT ![f] = [revision |-> 1, status |-> "active"]]
      BY <2>1, <3>3, <3>4
    <3>6. RowMemory[f] = [revision |-> 0, status |-> "untaught"]
      BY <3>2, NewestFacts DEF Memory
    <3> QED BY <3>2, <3>5, <3>6
            DEF Sql!SqlLedger!Teach, Sql!SqlLedger!Become, Sql!SqlLedger!Untaught, RowMemory
  <2>3. ASSUME NEW f \in Fact, NEW e \in 1..MaxRevision, Correctable(f, e)
        PROVE  /\ e \in Nat \ {0} /\ N(f) = e /\ ~IsRetracted(f)
               /\ RowMemory[f] = [revision |-> e, status |-> "active"]
    <3>1. e \in Nat \ {0} /\ N(f) = e /\ ~IsRetracted(f)
      BY <2>3, KeyFacts, RecallAssumption DEF Inv
    <3> QED BY <3>1 DEF Memory, Status
  <2>4. ASSUME NEW f \in Fact, NEW e \in 1..MaxRevision, NEW draft \in Draft, Supersede(f, e, draft)
        PROVE  Sql!SqlLedger!Supersede(f)
    <3>1. LocalSupersede(f, e, draft) /\ Sql!SqlSupersede(f, e, draft)
      BY <2>4, SupersedeTaken
    <3> PICK v : v = Fresh(e + 1, draft)
      OBVIOUS
    <3>2. /\ latest' = [latest EXCEPT ![f] = v] /\ history' = [history EXCEPT ![f] = Append(@, v)]
          /\ Correctable(f, e) /\ HasSuccessor(e) /\ v.status = "active"
          /\ propagated' = propagated \union {[fact |-> f, from |-> e, to |-> e + 1]}
      BY <3>1 DEF LocalSupersede, Sql!SqlSupersede, Fresh
    <3>3. /\ latest'[f] = v /\ history'[f] = Append(history[f], v)
          /\ \A g \in Fact \ {f} : latest'[g] = latest[g] /\ history'[g] = history[g]
      BY <3>2 DEF Inv, LocalInv, LocalTypeOK
    <3>4. /\ e \in Nat \ {0} /\ N(f) = e /\ e < MaxRevision
          /\ RowMemory[f] = [revision |-> e, status |-> "active"]
      BY <2>3, <3>2 DEF HasSuccessor
    <3>5. N(f)' = e + 1 /\ Status(f)' = "active"
      <4>1. Len(Append(history[f], v)) = Len(history[f]) + 1
        BY DEF Inv, LocalInv
      <4> QED BY <3>2, <3>3, <3>4, <4>1 DEF N, Status, IsRetracted
    <3>6. RowMemory' = [RowMemory EXCEPT ![f] = [revision |-> e + 1, status |-> "active"]]
      <4>1. e + 1 \in Nat \ {0}
        BY <3>4
      <4> QED BY <2>1, <3>3, <3>5, <4>1
    <3> QED BY <3>2, <3>4, <3>6 DEF Sql!SqlLedger!Supersede, Sql!SqlLedger!Become, RowMemory
  <2>5. ASSUME NEW f \in Fact, NEW e \in 1..MaxRevision, Retract(f, e) PROVE Sql!SqlLedger!Retract(f)
    <3>1. LocalRetract(f, e) /\ Sql!SqlRetract(f, e)
      BY <2>5, RetractTaken
    <3>2. Correctable(f, e) /\ propagated' = propagated \union {[fact |-> f, from |-> e, to |-> 0]}
      BY <3>1 DEF LocalRetract, Sql!SqlRetract
    <3>3. e \in Nat \ {0} /\ N(f) = e /\ RowMemory[f] = [revision |-> e, status |-> "active"]
      BY <2>3, <3>2
    <3>4. /\ N(f)' = e /\ Status(f)' = "retracted"
          /\ \A g \in Fact \ {f} : latest'[g] = latest[g] /\ history'[g] = history[g]
      BY <3>1, <3>3, RetractedVersion DEF Inv, Status
    <3>5. RowMemory' = [RowMemory EXCEPT ![f] = [revision |-> e, status |-> "retracted"]]
      BY <2>1, <3>3, <3>4
    <3> QED BY <3>2, <3>3, <3>5 DEF Sql!SqlLedger!Retract, Sql!SqlLedger!Become, RowMemory
  <2>6. CASE UNCHANGED <<latest, history, propagated>>
    <3>1. Memory' = Memory
      BY <2>6 DEF Memory, N, Status, IsRetracted
    <3> QED BY <2>6, <3>1
  <2>7. CASE \E tier \in Tier, k \in 1..MaxTopK : LocalAsk(tier, k) /\ UNCHANGED <<rows, propagated>>
    BY <2>6, <2>7 DEF LocalAsk
  <2>8. CASE UNCHANGED vars
    BY <2>6, <2>8 DEF vars, localVars
  <2> QED BY <2>2, <2>4, <2>5, <2>7, <2>8 DEF Next, Sql!SqlLedger!Next
<1>3. Inv => RowMemory = Memory
  BY RowsStandForMemory
<1> QED BY <1>1, <1>2, <1>3, InvHolds, PTL
        DEF Spec, ImplementsLedger, Sql!SqlImplementsLedger, Sql!SqlLedger!Spec, RowMemory
=============================================================================
