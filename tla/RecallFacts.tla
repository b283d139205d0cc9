---------------------------- MODULE RecallFacts ----------------------------
(***************************************************************************)
(* What the two stores of the recall ledger have in common: facts, their   *)
(* revisions and the drafts a caller teaches or corrects with.             *)
(***************************************************************************)
EXTENDS Integers, FiniteSets

CONSTANTS
    Fact,         \* fact ids (UUIDs), as numbers: disclose sorts by them
    MaxRevision,  \* 18446744073709551615
    Similarity    \* similarities of the embeddings a caller may give

ASSUME RecallAssumption ==
    /\ Fact \subseteq Nat /\ IsFiniteSet(Fact)
    /\ MaxRevision \in Nat \ {0}
    /\ Similarity \subseteq Int

Sensitivity == {"public", "restricted"}
Tier == {"standard", "privileged"}
Draft == [sensitivity : Sensitivity, similarity : Similarity]
Propagation == [fact : Fact, from : 1..MaxRevision, to : 0..MaxRevision]
=============================================================================
