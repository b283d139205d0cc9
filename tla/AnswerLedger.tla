---------------------------- MODULE AnswerLedger ----------------------------
(***************************************************************************)
(* What the five-step demonstration promises of answers and memory, with   *)
(* no workers, no provider and no failures: the memory of a session is     *)
(* seeded once and corrected at most once, each question is answered at    *)
(* most once, from the whole authorized memory of that instant, and what   *)
(* is shown to anybody is the recorded answer.                             *)
(***************************************************************************)
CONSTANTS
    Session, Question,
    Seed,           \* fact revisions a session starts with
    Old, New,       \* the revision that is superseded and the one that supersedes it
    Withheld        \* revisions that policy withholds

VARIABLES
    memory,         \* memory[s]: the active revisions
    recorded,       \* recorded[s][q]: {} or the set holding the one recorded answer
    seen            \* seen[s][q]: the answers that anybody was shown

ledger == <<memory, recorded, seen>>

Init ==
    /\ memory = [s \in Session |-> {}]
    /\ recorded = [s \in Session |-> [q \in Question |-> {}]]
    /\ seen = [s \in Session |-> [q \in Question |-> {}]]

SeedMemory(s) ==
    /\ memory[s] = {}
    /\ memory' = [memory EXCEPT ![s] = Seed]
    /\ UNCHANGED <<recorded, seen>>

Supersede(s) ==
    /\ Old \in memory[s]
    /\ memory' = [memory EXCEPT ![s] = (@ \ {Old}) \union {New}]
    /\ UNCHANGED <<recorded, seen>>

\* The answer is recorded; whether the caller learns of it is another matter.
Record(s, q) ==
    /\ memory[s] # {}
    /\ recorded[s][q] = {}
    /\ recorded' = [recorded EXCEPT ![s][q] =
            {[recalled |-> memory[s] \ Withheld, withheld |-> memory[s] \intersect Withheld]}]
    /\ \/ seen' = [seen EXCEPT ![s][q] = recorded'[s][q]]
       \/ UNCHANGED seen
    /\ UNCHANGED memory

Show(s, q) ==
    /\ seen' = [seen EXCEPT ![s][q] = recorded[s][q]]
    /\ UNCHANGED <<memory, recorded>>

Next ==
    \E s \in Session :
        \/ SeedMemory(s)
        \/ Supersede(s)
        \/ \E q \in Question : Record(s, q) \/ Show(s, q)

Spec == Init /\ [][Next]_ledger
=============================================================================
