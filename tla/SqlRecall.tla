----------------------------- MODULE SqlRecall -----------------------------
(***************************************************************************)
(* The SQL plans of the recall ledger                                      *)
(* (packages/adapters-local/src/h2-crdb-sql-recall-ledger.ts) on the       *)
(* tables of migration 0007_agent_memory.sql, in one tenant and purpose.   *)
(*                                                                         *)
(* A caller runs the plans of one correction in one SERIALIZABLE           *)
(* transaction, in the order the plans ask for: deactivate, insert,        *)
(* propagate.  It looks at no row count, so that only the keys and checks  *)
(* of the tables decide whether the transaction commits; a statement that  *)
(* breaks one aborts it, which is a stuttering step.                       *)
(***************************************************************************)
EXTENDS RecallFacts

VARIABLES
    rows,         \* continuity.memory_facts
    propagated    \* continuity.memory_propagations

sqlVars == <<rows, propagated>>

Row == [fact : Fact, revision : 1..MaxRevision, status : {"active", "retracted"},
        sensitivity : Sensitivity, similarity : Similarity \union {0}, empty : BOOLEAN]

SqlTypeOK ==
    /\ rows \subseteq Row
    /\ propagated \subseteq Propagation

SqlInit ==
    /\ rows = {}
    /\ propagated = {}

ActiveRow(f, revision, draft) ==
    [fact |-> f, revision |-> revision, status |-> "active", sensitivity |-> draft.sensitivity,
     similarity |-> draft.similarity, empty |-> FALSE]

---------------------------------------------------------------------------
(* Constraints of the tables, on the rows r a statement would leave.       *)

\* PRIMARY KEY (tenant_id, server_purpose, fact_id, fact_revision)
HasRow(r, f, revision) == \E x \in r : x.fact = f /\ x.revision = revision

\* Mutant: memory_propagations has no primary key.
KeyFreeAlways(f, from) == TRUE

\* PRIMARY KEY (tenant_id, server_purpose, fact_id, from_revision)
KeyFree(f, from) == \A p \in propagated : ~(p.fact = f /\ p.from = from)

\* The foreign keys of a propagation row: its revision, its successor, and for a retraction
\* that revision in status 'retracted'.
References(r, f, from, to) ==
    /\ HasRow(r, f, from)
    /\ to > 0 => HasRow(r, f, to)
    /\ to = 0 => \E x \in r : x.fact = f /\ x.revision = from /\ x.status = "retracted"

---------------------------------------------------------------------------
(* The plans.                                                              *)

SqlTeach(f, draft) ==
    /\ ~HasRow(rows, f, 1)
    /\ rows' = rows \union {ActiveRow(f, 1, draft)}
    /\ UNCHANGED propagated

\* Mutant: the prior revision is left as it is.
DeactivatedNone(f, expected) == rows

\* supersedeDeactivatePrior: the embedding stays.
Deactivated(f, expected) ==
    {IF x.fact = f /\ x.revision = expected /\ x.status = "active"
       THEN [x EXCEPT !.status = "retracted", !.empty = TRUE] ELSE x : x \in rows}

\* propagationInsert, the last statement, on the rows r the others left.
Commits(r, f, from, to) == KeyFree(f, from) /\ References(r, f, from, to)

Superseded(f, expected, draft) ==
    Deactivated(f, expected) \union {ActiveRow(f, expected + 1, draft)}

HasSuccessor(revision) == revision < MaxRevision

SupersedeCommits(f, expected, draft) ==
    /\ HasSuccessor(expected)
    /\ ~HasRow(rows, f, expected + 1)
    /\ Commits(Superseded(f, expected, draft), f, expected, expected + 1)

SqlSupersede(f, expected, draft) ==
    /\ SupersedeCommits(f, expected, draft)
    /\ rows' = Superseded(f, expected, draft)
    /\ propagated' = propagated \union {[fact |-> f, from |-> expected, to |-> expected + 1]}

\* retractUpdate: every revision of f, provided the expected one is active.
Retracted(f, expected) ==
    IF \E x \in rows : x.fact = f /\ x.revision = expected /\ x.status = "active"
      THEN {IF x.fact = f
              THEN [x EXCEPT !.status = "retracted", !.empty = TRUE, !.similarity = 0]
              ELSE x : x \in rows}
      ELSE rows

RetractCommits(f, expected) == Commits(Retracted(f, expected), f, expected, 0)

SqlRetract(f, expected) ==
    /\ RetractCommits(f, expected)
    /\ rows' = Retracted(f, expected)
    /\ propagated' = propagated \union {[fact |-> f, from |-> expected, to |-> 0]}

\* recallSelect: filter first, then the latest of what is left per fact, ranked and limited.
Selected(tier, k) ==
    LET eligible == {x \in rows : /\ x.status = "active"
                                  /\ tier = "privileged" \/ x.sensitivity = "public"}
        newest == {x \in eligible : \A y \in eligible : y.fact = x.fact => y.revision =< x.revision}
        Closer(x, y) == \/ x.similarity > y.similarity
                        \/ x.similarity = y.similarity /\ x.fact < y.fact
    IN  {x \in newest : Cardinality({y \in newest : Closer(y, x)}) < k}

---------------------------------------------------------------------------
SqlNext ==
    \/ \E f \in Fact, draft \in Draft : SqlTeach(f, draft)
    \/ \E f \in Fact, expected \in 1..MaxRevision, draft \in Draft :
          SqlSupersede(f, expected, draft)
    \/ \E f \in Fact, expected \in 1..MaxRevision : SqlRetract(f, expected)

SqlSpec == SqlInit /\ [][SqlNext]_sqlVars

---------------------------------------------------------------------------
(* Properties.                                                             *)

\* A fact has at most one active revision and it is its newest, whatever stale or repeated
\* corrections are tried, although no plan checks that its UPDATE found a row.
OneActiveRevision ==
    \A x, y \in rows : x.fact = y.fact /\ x.status = "active" => y.revision =< x.revision /\
        (y.status = "active" => x = y)

\* "retracting a fact updates EVERY retained revision row of that fact to fact_status =
\* 'retracted' with content = ''" (0007_agent_memory.sql), and nothing revives it.
RetractionIsTotal ==
    \A p \in propagated : p.to = 0 =>
        \A x \in rows : x.fact = p.fact => x.status = "retracted" /\ x.empty /\ x.similarity = 0

\* A fact's revisions have no gap, and every one that is not active was left by a propagation:
\* to its successor, or to nothing.
RevisionsAreChained ==
    \A x \in rows :
        /\ x.revision > 1 =>
              /\ HasRow(rows, x.fact, x.revision - 1)
              /\ [fact |-> x.fact, from |-> x.revision - 1, to |-> x.revision] \in propagated
        /\ x.status = "retracted" => \E p \in propagated : p.fact = x.fact /\ p.from = x.revision

Newest(f) == CHOOSE x \in rows : x.fact = f /\ \A y \in rows : y.fact = f => y.revision =< x.revision

SqlLedger == INSTANCE RecallLedger WITH
    memory <- [f \in Fact |-> IF HasRow(rows, f, 1)
                                THEN [revision |-> Newest(f).revision, status |-> Newest(f).status]
                                ELSE [revision |-> 0, status |-> "untaught"]],
    chain <- propagated

\* The plans and the keys of the tables together implement the ledger's compare-and-set.
SqlImplementsLedger == SqlLedger!Spec
=============================================================================
