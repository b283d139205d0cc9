----------------------------- MODULE SchemaPack -----------------------------
(***************************************************************************)
(* scripts/h2-crdb-migrate.mjs: the operator's tool that builds the        *)
(* database out of migrations 0001 to 0007, one statement at a time and    *)
(* outside any transaction, on a service whose schema changes go on in the *)
(* background.  A run that is cut off leaves the statements it got to; the *)
(* tool only goes on from a database that matches one of five checkpoints. *)
(*                                                                         *)
(* A statement is known by its place in the whole pack, in the form the    *)
(* tool sends to the cloud service (cloudCompatibleSql, cloudStatements).  *)
(***************************************************************************)
EXTENDS Integers, FiniteSets

CONSTANTS
    Operator,         \* the people who run the tool, possibly at once
    AcceptsRoutines   \* whether the service takes 0006's writing routines

SchemaPackAssumption ==
    /\ IsFiniteSet(Operator)
    /\ AcceptsRoutines \in BOOLEAN

VARIABLES
    ran,       \* the statements the database has executed
    empty,     \* no table holds a row
    reviewed,  \* the migration files are the pinned ones
    run,       \* each operator's run of the tool
    report     \* what each operator's last run ended with

packVars == <<ran, empty, reviewed, run, report>>

(***************************************************************************)
(* The pack.  LastOf[m] is the last statement of migration m.              *)
(***************************************************************************)
LastOf == <<4, 8, 27, 43, 54, 101, 127>>
Pack == 1 .. LastOf[7]
StatementOf(m, n) == n + (IF m = 1 THEN 0 ELSE LastOf[m - 1])
Opens(p) == \E m \in 1 .. 7 : p = StatementOf(m, 1)

Routine == StatementOf(6, 35) .. StatementOf(6, 37)
RevokeCreate == StatementOf(6, 41)
Deferred == (StatementOf(6, 35) .. LastOf[6]) \ {RevokeCreate}

\* GRANT, REVOKE and ROW LEVEL SECURITY may be said again; CREATE, ADD and
\* ALTER PRIMARY KEY fail on what is already there.
Repeatable ==
    UNION {StatementOf(3, 3) .. StatementOf(3, 16),
           StatementOf(4, 5) .. StatementOf(4, 16),
           StatementOf(5, 3) .. StatementOf(5, 8),
           StatementOf(6, 5) .. StatementOf(6, 25),
           StatementOf(6, 38) .. StatementOf(6, 47),
           StatementOf(7, 5) .. StatementOf(7, 18)}

\* What the service refuses to execute.
Refused(p) ==
    \/ p \in ran \ Repeatable
    \/ p \in Routine /\ ~AcceptsRoutines
    \/ p \in Deferred \ Routine /\ ~(Routine \subseteq ran)

(***************************************************************************)
(* What a checkpoint can see of the database: its tables, keys, roles,     *)
(* policies, routines and the vector index, and that no table has rows.    *)
(***************************************************************************)
Tables == {2, 3, 4, StatementOf(4, 1), StatementOf(4, 2), StatementOf(4, 3),
           StatementOf(4, 4), StatementOf(5, 2), StatementOf(6, 1),
           StatementOf(6, 2), StatementOf(6, 3), StatementOf(7, 1),
           StatementOf(7, 3), StatementOf(7, 4)}
Keys == LastOf[1] + 1 .. LastOf[2]
Roles == {StatementOf(3, 1), StatementOf(3, 2), StatementOf(6, 4)}
Policies ==
    UNION {StatementOf(3, 17) .. StatementOf(3, 19),
           StatementOf(5, 9) .. StatementOf(5, 11),
           StatementOf(6, 26) .. StatementOf(6, 34),
           StatementOf(7, 19) .. StatementOf(7, 26)}
VectorIndex == StatementOf(7, 2)

Command ==
    {"apply", "from-0001", "from-0002", "0006-post-tables",
     "0006-schema-only", "0007-post-index"}

\* The statement up to which a command takes the database to be built.
Checkpoint(c) ==
    CASE c = "apply" -> 0
      [] c = "from-0001" -> LastOf[1]
      [] c = "from-0002" -> LastOf[2]
      [] c = "0006-post-tables" -> StatementOf(6, 3)
      [] c = "0006-schema-only" -> StatementOf(6, 34)
      [] c = "0007-post-index" -> StatementOf(7, 2)

Looks(c) ==
    CASE c \in {"from-0001", "from-0002"} -> Tables \cup Keys \cup Roles
      [] c = "0006-post-tables" -> Tables \cup Roles \cup Routine
      [] c = "0006-schema-only" -> Tables \cup Roles \cup Policies \cup Routine
      [] c = "0007-post-index" -> Tables \cup Roles \cup Policies \cup {VectorIndex}

Matches(c) ==
    IF c = "apply"
    THEN ran = {}
    ELSE empty /\ ran \cap Looks(c) = (1 .. Checkpoint(c)) \cap Looks(c)

\* Mutant: the resumption goes straight to 0007.
FirstSkipsRevoke(c) ==
    IF c = "0006-schema-only" THEN StatementOf(7, 1) ELSE Checkpoint(c) + 1

\* --resume-0006-schema-only says REVOKE CREATE, then goes on with 0007.
First(c) == IF c = "0006-schema-only" THEN RevokeCreate ELSE Checkpoint(c) + 1
After(c, p) ==
    IF c = "0006-schema-only" /\ p = RevokeCreate THEN StatementOf(7, 1) ELSE p + 1

\* The files are read again when a command comes to a migration, be it in its middle.
Rereads(c, p) == Opens(p) \/ (p = First(c) /\ c # "0006-schema-only")

(***************************************************************************)
(* The tool.                                                               *)
(***************************************************************************)
Idle == [at |-> "idle"]
Checked(c) == [at |-> "checked", command |-> c]
Running(c, p) == [at |-> "running", command |-> c, next |-> p]

PackInit ==
    /\ ran = {}
    /\ empty = TRUE
    /\ reviewed = TRUE
    /\ run = [o \in Operator |-> Idle]
    /\ report = [o \in Operator |-> "none"]

\* A command starts on a database that matches its checkpoint; --apply takes
\* an empty one and looks only once.
Start(o, c) ==
    /\ run[o] = Idle
    /\ reviewed /\ Matches(c)
    /\ run' = [run EXCEPT ![o] = IF c = "apply" THEN Running(c, 1) ELSE Checked(c)]
    /\ report' = [report EXCEPT ![o] = "none"]
    /\ UNCHANGED <<ran, empty, reviewed>>

\* Once the schema changes have been quiet the checkpoint is looked at again.
Confirm(o) ==
    /\ run[o].at = "checked"
    /\ IF Matches(run[o].command)
       THEN /\ run' = [run EXCEPT
                         ![o] = Running(@.command, First(@.command))]
            /\ UNCHANGED report
       ELSE /\ run' = [run EXCEPT ![o] = Idle]
            /\ report' = [report EXCEPT ![o] = "refused"]
    /\ UNCHANGED <<ran, empty, reviewed>>

Due(o, p) == run[o].at = "running" /\ run[o].next = p

\* A statement is executed and the schema changes it caused settle.  The files
\* are read again before the first statement of a migration.
Execute(o, p) ==
    /\ Due(o, p) /\ p \in Pack
    /\ Rereads(run[o].command, p) => reviewed
    /\ ~Refused(p)
    /\ ran' = ran \cup {p}
    /\ run' = [run EXCEPT ![o] = Running(@.command, After(@.command, p))]
    /\ UNCHANGED <<empty, reviewed, report>>

\* A run ends at a statement: the service refuses it, the connection is lost
\* before or after it is executed, the operator's machine stops, the schema
\* changes do not settle, or the files were edited.
Stop(o, p) ==
    /\ Due(o, p) /\ p \in Pack
    /\ \/ UNCHANGED ran
       \/ /\ ~Refused(p)
          /\ Rereads(run[o].command, p) => reviewed
          /\ ran' = ran \cup {p}
    /\ run' = [run EXCEPT ![o] = Idle]
    /\ report' = [report EXCEPT ![o] = "failed"]
    /\ UNCHANGED <<empty, reviewed>>

Finish(o) ==
    /\ Due(o, LastOf[7] + 1)
    /\ run' = [run EXCEPT ![o] = Idle]
    /\ report' = [report EXCEPT ![o] = "applied"]
    /\ UNCHANGED <<ran, empty, reviewed>>

\* Somebody writes a row, or edits the migration files.
Populate ==
    /\ empty /\ ran \cap Tables # {}
    /\ empty' = FALSE
    /\ UNCHANGED <<ran, reviewed, run, report>>

EditFiles ==
    /\ reviewed
    /\ reviewed' = FALSE
    /\ UNCHANGED <<ran, empty, run, report>>

PackNext ==
    \/ \E o \in Operator :
          \/ \E c \in Command : Start(o, c)
          \/ Confirm(o)
          \/ \E p \in Pack : Execute(o, p) \/ Stop(o, p)
          \/ Finish(o)
    \/ Populate
    \/ EditFiles

PackSpec == PackInit /\ [][PackNext]_packVars

(***************************************************************************)
(* Properties.                                                             *)
(***************************************************************************)

\* Whatever stops, however often it is resumed and whoever else runs it, the
\* tool never executes a statement before all that come before it in the pack,
\* the deferred routines of 0006 excepted; and it reports success only of a
\* database that has every other statement.  The privilege to create in the
\* schema, which 0006 hands out at 17 and takes back at 41, is in particular
\* gone before a statement of 0007 runs, although the statements around 41 are
\* skipped.
PackInv ==
    /\ \A p \in ran : (1 .. p - 1) \ Deferred \subseteq ran
    /\ \A o \in Operator :
         report[o] = "applied" => Pack \ Deferred \subseteq ran
=============================================================================
