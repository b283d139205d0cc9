---------------------------- MODULE RecallLedger ----------------------------
(***************************************************************************)
(* What the H1 memory promises of one tenant and purpose, whichever store  *)
(* keeps it: a fact is taught once, corrected by compare-and-set on its    *)
(* revision, and retracted for good; every correction leaves one           *)
(* propagation entry.  LocalRecall and SqlRecall implement this module.    *)
(***************************************************************************)
EXTENDS Naturals

CONSTANTS
    Fact,
    MaxRevision   \* 18446744073709551615

VARIABLES
    memory,   \* memory[f]: the latest revision of f and its status
    chain     \* propagation entries

Untaught == [revision |-> 0, status |-> "untaught"]

Init ==
    /\ memory = [f \in Fact |-> Untaught]
    /\ chain = {}

Become(f, revision, status) ==
    memory' = [memory EXCEPT ![f] = [revision |-> revision, status |-> status]]

Teach(f) ==
    /\ memory[f] = Untaught
    /\ Become(f, 1, "active")
    /\ UNCHANGED chain

Supersede(f) ==
    LET n == memory[f].revision
    IN  /\ memory[f].status = "active"
        /\ n < MaxRevision
        /\ Become(f, n + 1, "active")
        /\ chain' = chain \union {[fact |-> f, from |-> n, to |-> n + 1]}

Retract(f) ==
    LET n == memory[f].revision
    IN  /\ memory[f].status = "active"
        /\ Become(f, n, "retracted")
        /\ chain' = chain \union {[fact |-> f, from |-> n, to |-> 0]}

Next == \E f \in Fact : Teach(f) \/ Supersede(f) \/ Retract(f)

Spec == Init /\ [][Next]_<<memory, chain>>
=============================================================================
