---------------------------- MODULE LocalRecall ----------------------------
(***************************************************************************)
(* The recall ledger service (packages/application/src/h1-recall-ledger.ts)*)
(* over the in-memory repository                                           *)
(* (packages/adapters-local/src/local-h1-recall-ledger-repository.ts), in  *)
(* one tenant and purpose: the bucket of the repository.                   *)
(*                                                                         *)
(* Calls are synchronous and one step each.  The context is checked again  *)
(* inside every call; a call it denies early changes nothing, but the last *)
(* check of ask comes after the receipt is stored.  Of an embedding only   *)
(* its similarity to the question asked matters; an erased one is all      *)
(* zeros and has similarity 0.                                             *)
(***************************************************************************)
EXTENDS RecallFacts, Sequences

CONSTANTS
    MaxTopK,      \* 16
    MaxReceipts   \* bound of the model: receipts stored

ASSUME LocalRecallAssumption == MaxTopK \in Nat \ {0} /\ MaxReceipts \in Nat

VARIABLES
    latest,        \* latest[f]: the current version of fact f
    history,       \* history[f]: all its versions, first to last
    propagations,  \* correction entries, identifiers only
    receipts       \* disclosure receipts, oldest first

localVars == <<latest, history, propagations, receipts>>

Version == [revision : 1..MaxRevision, status : {"active", "retracted"},
            sensitivity : Sensitivity, similarity : Similarity \union {0}, erased : BOOLEAN]
Untaught == [revision |-> 0]

LocalTypeOK ==
    /\ latest \in [Fact -> Version \union {Untaught}]
    /\ \A f \in Fact : history[f] \in Seq(Version)
    /\ propagations \subseteq Propagation
    /\ receipts \in Seq([tier : Tier,
                         recalled : SUBSET [fact : Fact, revision : 1..MaxRevision],
                         withheld : SUBSET [fact : Fact, revision : 1..MaxRevision,
                                            reason : {"retracted", "sensitivity_policy"}]])

LocalInit ==
    /\ latest = [f \in Fact |-> Untaught]
    /\ history = [f \in Fact |-> <<>>]
    /\ propagations = {}
    /\ receipts = <<>>

Taught(f) == latest[f] # Untaught

Fresh(revision, draft) ==
    [revision |-> revision, status |-> "active", sensitivity |-> draft.sensitivity,
     similarity |-> draft.similarity, erased |-> FALSE]

\* A second teach answers "replayed" or "conflict" and changes nothing.
LocalTeach(f, draft) ==
    /\ ~Taught(f)
    /\ latest' = [latest EXCEPT ![f] = Fresh(1, draft)]
    /\ history' = [history EXCEPT ![f] = <<Fresh(1, draft)>>]
    /\ UNCHANGED <<propagations, receipts>>

---------------------------------------------------------------------------
(* correct: compare-and-set on the latest revision.                        *)

Correctable(f, expected) ==
    /\ Taught(f)
    /\ latest[f].status = "active"
    /\ latest[f].revision = expected

HasSuccessor(revision) == revision < MaxRevision

LocalSupersede(f, expected, draft) ==
    LET next == Fresh(expected + 1, draft)
    IN  /\ Correctable(f, expected)
        /\ HasSuccessor(expected)
        /\ latest' = [latest EXCEPT ![f] = next]
        /\ history' = [history EXCEPT ![f] = Append(@, next)]
        /\ propagations' = propagations \union
               {[fact |-> f, from |-> expected, to |-> expected + 1]}
        /\ UNCHANGED receipts

Erase(version) == [version EXCEPT !.status = "retracted", !.similarity = 0, !.erased = TRUE]

\* Mutant: only the current version is erased from the history.
ErasedHistoryLatest(versions) ==
    [versions EXCEPT ![Len(versions)] = Erase(versions[Len(versions)])]

ErasedHistory(versions) == [i \in DOMAIN versions |-> Erase(versions[i])]

LocalRetract(f, expected) ==
    /\ Correctable(f, expected)
    /\ latest' = [latest EXCEPT ![f] = Erase(@)]
    /\ history' = [history EXCEPT ![f] = ErasedHistory(@)]
    /\ propagations' = propagations \union {[fact |-> f, from |-> expected, to |-> 0]}
    /\ UNCHANGED receipts

---------------------------------------------------------------------------
(* ask: recall filters by policy first, disclose ranks what is left, cuts  *)
(* it to topK and withholds what is retracted.                             *)

Authorized(tier) ==
    {f \in Fact : Taught(f) /\ (tier = "privileged" \/ latest[f].sensitivity = "public")}

Ranks(f, g) ==
    \/ latest[f].similarity > latest[g].similarity
    \/ latest[f].similarity = latest[g].similarity /\ f < g

Scored(tier, k) ==
    LET candidates == Authorized(tier)
    IN  {f \in candidates : Cardinality({g \in candidates : Ranks(g, f)}) < k}

Disclosed(tier, k) == {f \in Scored(tier, k) : latest[f].status = "active"}

At(f) == [fact |-> f, revision |-> latest[f].revision]
Withhold(f, reason) == [fact |-> f, revision |-> latest[f].revision, reason |-> reason]

Receipt(tier, k) ==
    [tier |-> tier,
     recalled |-> {At(f) : f \in Disclosed(tier, k)},
     withheld |-> {Withhold(f, "sensitivity_policy") :
                       f \in {g \in Fact : Taught(g)} \ Authorized(tier)} \union
                  {Withhold(f, "retracted") : f \in Scored(tier, k) \ Disclosed(tier, k)}]

\* The receipt is stored whether or not the last check lets the answer out.
LocalAsk(tier, k) ==
    /\ Len(receipts) < MaxReceipts
    /\ receipts' = Append(receipts, Receipt(tier, k))
    /\ UNCHANGED <<latest, history, propagations>>

---------------------------------------------------------------------------
LocalCommand ==
    \/ \E f \in Fact, draft \in Draft : LocalTeach(f, draft)
    \/ \E f \in Fact, expected \in 1..MaxRevision, draft \in Draft :
          LocalSupersede(f, expected, draft)
    \/ \E f \in Fact, expected \in 1..MaxRevision : LocalRetract(f, expected)

LocalNext == LocalCommand \/ \E tier \in Tier, k \in 1..MaxTopK : LocalAsk(tier, k)

LocalSpec == LocalInit /\ [][LocalNext]_localVars

---------------------------------------------------------------------------
(* Properties.                                                             *)

\* The two maps of the repository and the propagation log tell one story: the history is the
\* gapless line of revisions that ends in the latest, and there is one entry for every step of it.
MapsAgree ==
    \A f \in Fact :
        LET n == Len(history[f])
            steps == {[fact |-> f, from |-> i, to |-> i + 1] : i \in 1..(n - 1)}
            last == IF n > 0 /\ latest[f].status = "retracted"
                      THEN {[fact |-> f, from |-> n, to |-> 0]} ELSE {}
        IN  /\ latest[f] = IF n = 0 THEN Untaught ELSE history[f][n]
            /\ \A i \in 1..n : history[f][i].revision = i
            /\ {p \in propagations : p.fact = f} = steps \union last

\* "Retraction erases content and embeddings across EVERY revision": once any version of a fact
\* is retracted, no version of it keeps its content.
ErasureIsTotal ==
    \A f \in Fact : \A i, j \in DOMAIN history[f] :
        history[f][i].status = "retracted" =>
            history[f][j].erased /\ history[f][j].similarity = 0

\* Receipts never go back: of two receipts the later one recalls no older revision of a fact,
\* and recalls nothing that the earlier one withheld as retracted.
ReceiptsNeverGoBack ==
    \A i, j \in DOMAIN receipts : i < j =>
        /\ \A a \in receipts[i].recalled, b \in receipts[j].recalled :
              a.fact = b.fact => a.revision =< b.revision
        /\ \A a \in receipts[i].withheld, b \in receipts[j].recalled :
              a.reason = "retracted" => a.fact # b.fact

\* Nothing restricted reaches a standard caller: what its receipt recalls was public in that
\* very revision, even if the fact is restricted in a later or was in an earlier one.
StandardSeesPublic ==
    \A i \in DOMAIN receipts : \A a \in receipts[i].recalled :
        receipts[i].tier = "standard" =>
            history[a.fact][a.revision].sensitivity = "public"
=============================================================================
