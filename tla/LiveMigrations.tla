--------------------------- MODULE LiveMigrations ---------------------------
(***************************************************************************)
(* The tools that take the database from 0007 to the live demonstration:   *)
(* scripts/h2-crdb-apply-0008.mjs sends the 145 statements of 0008 one by  *)
(* one and outside any transaction, and resumes after a cut at three       *)
(* places; h2-crdb-apply-0009.mjs replaces the quota view in one           *)
(* transaction; 0010 and 0011 add grants in one transaction each.          *)
(*                                                                         *)
(* A statement of 0008 is known by its number in                           *)
(* database/migrations/0008_hackathon_live.sql.                            *)
(***************************************************************************)
EXTENDS Integers, FiniteSets

CONSTANTS
    Operator   \* the people who run the tools, possibly at once

LiveMigrationsAssumption == IsFiniteSet(Operator)

VARIABLES
    extended,  \* the statements of 0008 the database has executed
    window,    \* 0009's view is in place
    member,    \* 0011's membership is in place
    used,      \* the demonstration has been used: the tables' rows changed
    task,      \* what each operator is doing
    told,      \* what each operator's last command said of the database
    appliers   \* the operators whose 0008 was reported applied

liveMigrationVars == <<extended, window, member, used, task, told, appliers>>

(***************************************************************************)
(* Migration 0008.                                                         *)
(***************************************************************************)
Length == 145
Statement == 1 .. Length

\* The clearing of retracted embeddings (1), grants, revocations, owners and
\* row level security may be said again.
Repeatable ==
    {1} \cup 11 .. 13 \cup 28 .. 84 \cup 111 .. 114 \cup 118 .. 127 \cup 135 .. 145

\* What inspect reads of the database: columns, indexes, the constraint, roles,
\* memberships, tables, control rows, policies and views - and no privilege, no
\* row level security and no owner.
Inspected ==
    2 .. 10 \cup 12 .. 27 \cup 85 .. 110 \cup 115 .. 117 \cup 128 .. 134

\* The states inspect tells apart, each by the statement it goes up to.
Place == [ready |-> 1, partial9 |-> 9, partial21 |-> 21, partial27 |-> 27,
          applied |-> 145]
Shows(state) == extended \cap Inspected = (1 .. Place[state]) \cap Inspected

\* Every role, membership and row of the database must be one that 0008 knows.
Inspect ==
    IF member \/ used \/ \A state \in DOMAIN Place : ~Shows(state)
    THEN "rejected"
    ELSE CHOOSE state \in DOMAIN Place : Shows(state)

Unfinished == {"ready", "partial9", "partial21", "partial27"}

\* Mutant: a resumption one statement too far.
StartPast(state) == IF state = "ready" THEN 0 ELSE Place[state] + 1
StartAfter(state) == IF state = "ready" THEN 0 ELSE Place[state]

(***************************************************************************)
(* What an operator does.                                                  *)
(***************************************************************************)
Idle == [at |-> "idle"]
Applying(n) == [at |-> "0008", next |-> n]
Replacing(seen, done) == [at |-> "0009", seen |-> seen, done |-> done]

Ends(o, outcome) ==
    /\ task' = [task EXCEPT ![o] = Idle]
    /\ told' = [told EXCEPT ![o] = outcome]

LiveMigrationInit ==
    /\ extended = {}
    /\ window = FALSE /\ member = FALSE /\ used = FALSE
    /\ task = [o \in Operator |-> Idle]
    /\ told = [o \in Operator |-> "none"]
    /\ appliers = {}

\* --status, in a read-only transaction.
Status(o) ==
    /\ task[o] = Idle
    /\ told' = [told EXCEPT ![o] = Inspect]
    /\ UNCHANGED <<extended, window, member, used, task, appliers>>

\* --apply is refused unless the state is one of those it can go on from.
Apply0008(o) ==
    /\ task[o] = Idle /\ Inspect \in Unfinished
    /\ task' = [task EXCEPT ![o] = Applying(StartAfter(Inspect) + 1)]
    /\ told' = [told EXCEPT ![o] = "none"]
    /\ UNCHANGED <<extended, window, member, used, appliers>>

\* What is there already cannot be created again.
Fails(n) == n \in extended \ Repeatable

Execute(o) ==
    /\ task[o].at = "0008" /\ task[o].next \in Statement
    /\ ~Fails(task[o].next)
    /\ extended' = extended \cup {task[o].next}
    /\ task' = [task EXCEPT ![o].next = @ + 1]
    /\ UNCHANGED <<window, member, used, told, appliers>>

\* The service refuses the statement, or the connection is lost before or
\* after it is executed: the same MIGRATION_APPLY_DENIED.
Cut(o) ==
    /\ task[o].at = "0008" /\ task[o].next \in Statement
    /\ \/ UNCHANGED extended
       \/ ~Fails(task[o].next) /\ extended' = extended \cup {task[o].next}
    /\ Ends(o, "denied")
    /\ UNCHANGED <<window, member, used, appliers>>

\* The poststate is inspected before success is reported.
Verify0008(o) ==
    /\ task[o].at = "0008" /\ task[o].next = Length + 1
    /\ IF Inspect = "applied"
       THEN Ends(o, "applied") /\ appliers' = appliers \cup {o}
       ELSE Ends(o, "rejected") /\ UNCHANGED appliers
    /\ UNCHANGED <<extended, window, member, used>>

\* 0009 looks at the quota view, its owner and its grants, and at the usage
\* so far.
QuotaView == 117 .. 121
Apply0009(o) ==
    /\ task[o] = Idle /\ QuotaView \subseteq extended /\ ~window
    /\ task' = [task EXCEPT ![o] = Replacing(used, FALSE)]
    /\ told' = [told EXCEPT ![o] = "none"]
    /\ UNCHANGED <<extended, window, member, used, appliers>>

\* Its body is one transaction; CREATE OR REPLACE may be said again.
Replace(o) ==
    /\ task[o].at = "0009" /\ ~task[o].done
    /\ window' = TRUE
    /\ task' = [task EXCEPT ![o] = Replacing(@.seen, TRUE)]
    /\ UNCHANGED <<extended, member, used, told, appliers>>

\* Whatever goes wrong once the body is sent, the outcome is uncertain.
Lose0009(o) ==
    /\ task[o].at = "0009"
    /\ UNCHANGED window \/ window' = TRUE
    /\ Ends(o, "uncertain")
    /\ UNCHANGED <<extended, member, used, appliers>>

Verify0009(o) ==
    /\ task[o].at = "0009" /\ task[o].done
    /\ Ends(o, IF task[o].seen = used THEN "window" ELSE "uncertain")
    /\ UNCHANGED <<extended, window, member, used, appliers>>

\* 0011 (and 0010, whose grants nobody looks at) needs only the role; it looks
\* at no earlier migration.
Apply0011(o) ==
    /\ task[o] = Idle /\ 10 \in extended
    /\ member' = TRUE
    /\ UNCHANGED <<extended, window, used, task, told, appliers>>

\* The demonstration is used.
Use ==
    /\ ~used /\ extended = Statement
    /\ used' = TRUE
    /\ UNCHANGED <<extended, window, member, task, told, appliers>>

LiveMigrationNext ==
    \/ \E o \in Operator :
          \/ Status(o) \/ Apply0008(o) \/ Execute(o) \/ Cut(o) \/ Verify0008(o)
          \/ Apply0009(o) \/ Replace(o) \/ Lose0009(o) \/ Verify0009(o)
          \/ Apply0011(o)
    \/ Use

LiveMigrationSpec ==
    LiveMigrationInit /\ [][LiveMigrationNext]_liveMigrationVars

(***************************************************************************)
(* Properties.                                                             *)
(***************************************************************************)

\* However often 0008 is cut off and resumed, and by two operators at once, no
\* statement is executed before all that come before it; at most one operator
\* is ever told that his run applied it, and then all of it is in place.
LiveMigrationInv ==
    /\ extended = 1 .. Cardinality(extended)
    /\ \A o \in Operator : task[o].at = "0008" => 1 .. task[o].next - 1 \subseteq extended
    /\ \A o, p \in appliers : o = p
    /\ appliers # {} => extended = Statement
    /\ \A o \in Operator : told[o] = "window" => window

\* A database that the tool calls applied has all of 0008 (it tells a partial
\* prestate from an applied one).  The code does not keep this: after the last
\* view is there (134) the owners, the revocations and the reader's grants
\* (135 to 145) are missing where inspect does not look.
AppliedIsComplete ==
    \A o \in Operator : told[o] = "applied" => extended = Statement
=============================================================================
