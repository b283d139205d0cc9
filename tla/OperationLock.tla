---------------------------- MODULE OperationLock ----------------------------
(***************************************************************************)
(* scripts/repository-operation-lock.mjs: install, build and verify runs   *)
(* of one checkout exclude one another by a directory they make, and mark  *)
(* it with a random token.  A process is between two file system calls at  *)
(* every state, and may die there; what it made stays.                     *)
(***************************************************************************)
EXTENDS Naturals

CONSTANTS
  Process,
  CarefulOperator,  \* a person clears a leftover lock only when its maker is gone
  MaxTokens         \* bound of the model: locks ever made

ASSUME LockAssumption == CarefulOperator \in BOOLEAN /\ MaxTokens \in Nat

VARIABLES
  dir,    \* the lock directory: 0 is absent, else the token of the run that made it
  owner,  \* its owner-token file: absent, torn by a failed write, or a token
  pc,     \* the next file system call of each process
  token,  \* the random token of each process
  made    \* locks made so far: tokens are fresh

vars == <<dir, owner, pc, token, made>>

Active == {"write", "undo", "held", "verify", "unlink", "rmdir"}

NoFile == [kind |-> "none", token |-> 0]
TornFile == [kind |-> "torn", token |-> 0]
TokenFile(n) == [kind |-> "token", token |-> n]

Init ==
  /\ dir = 0 /\ owner = NoFile
  /\ pc = [p \in Process |-> "idle"]
  /\ token = [p \in Process |-> 0]
  /\ made = 0

Goto(p, next) == pc' = [pc EXCEPT ![p] = next]

-----------------------------------------------------------------------------
\* Mutant: mkdir with { recursive: true }, which does not fail on a directory.
AcquireExisting(p) ==
  /\ pc[p] = "idle" /\ made < MaxTokens
  /\ made' = made + 1
  /\ dir' = IF dir = 0 THEN made + 1 ELSE dir
  /\ token' = [token EXCEPT ![p] = made + 1]
  /\ Goto(p, "write")
  /\ UNCHANGED owner

\* mkdir is atomic: when the directory is there the run ends with "already active".
Acquire(p) ==
  /\ pc[p] = "idle" /\ made < MaxTokens
  /\ dir = 0
  /\ made' = made + 1
  /\ dir' = made + 1
  /\ token' = [token EXCEPT ![p] = made + 1]
  /\ Goto(p, "write")
  /\ UNCHANGED owner

\* canonicalDirectory, then writeFile with flag "wx"; the write may fail halfway.
WriteOwner(p) ==
  /\ pc[p] = "write"
  /\ \/ /\ dir # 0 /\ owner = NoFile
        /\ \/ owner' = TokenFile(token[p]) /\ Goto(p, "held")
           \/ owner' = TornFile /\ Goto(p, "undo")
     \/ UNCHANGED owner /\ Goto(p, "undo")
  /\ UNCHANGED <<dir, token, made>>

RemoveDirIfEmpty == dir' = IF owner = NoFile THEN 0 ELSE dir

Undo(p) ==
  /\ pc[p] = "undo"
  /\ RemoveDirIfEmpty
  /\ Goto(p, "idle")
  /\ UNCHANGED <<owner, token, made>>

\* operation() returns or throws: finally, release().
Finish(p) ==
  /\ pc[p] = "held"
  /\ Goto(p, "verify")
  /\ UNCHANGED <<dir, owner, token, made>>

\* release() reads the token file; the last read decides.
Verify(p) ==
  /\ pc[p] = "verify"
  /\ Goto(p, IF dir # 0 /\ owner = TokenFile(token[p]) THEN "unlink" ELSE "idle")
  /\ UNCHANGED <<dir, owner, token, made>>

Unlink(p) ==
  /\ pc[p] = "unlink"
  /\ owner' = NoFile
  /\ Goto(p, IF owner = NoFile THEN "idle" ELSE "rmdir")
  /\ UNCHANGED <<dir, token, made>>

RemoveDir(p) ==
  /\ pc[p] = "rmdir"
  /\ RemoveDirIfEmpty
  /\ Goto(p, "idle")
  /\ UNCHANGED <<owner, token, made>>

Crash(p) ==
  /\ pc[p] # "idle"
  /\ Goto(p, "idle")
  /\ UNCHANGED <<dir, owner, token, made>>

\* Recovery by hand; no script does it.
MakerIsGone == \A p \in Process : pc[p] # "idle" => token[p] # dir

ClearLock ==
  /\ dir # 0
  /\ CarefulOperator => MakerIsGone
  /\ dir' = 0 /\ owner' = NoFile
  /\ UNCHANGED <<pc, token, made>>

Next ==
  \/ \E p \in Process :
       \/ Acquire(p) \/ WriteOwner(p) \/ Undo(p)
       \/ Finish(p) \/ Verify(p) \/ Unlink(p) \/ RemoveDir(p) \/ Crash(p)
  \/ ClearLock

Spec == Init /\ [][Next]_vars

-----------------------------------------------------------------------------
\* Every variable has its type (the lock directory and the runs' tokens).
TypeOK ==
  /\ dir \in Nat /\ made \in Nat
  /\ owner \in [kind : {"none", "torn", "token"}, token : Nat]
  /\ pc \in [Process -> {"idle"} \cup Active]
  /\ token \in [Process -> Nat]

\* Two runs never work on the shared store, tools and outputs at once, whatever
\* died in between (acquireRepositoryOperationLock).
MutualExclusion ==
  \A p, q \in Process : pc[p] = "held" /\ pc[q] = "held" => p = q

\* A run removes a lock directory or a token only if it made that directory
\* itself: "a preexisting, replaced [...] lock is never deleted"
\* (docs/architecture/workspace-boundaries.md; release() and acquire's undo).
RemovesOnlyItsOwn ==
  [][\A p \in Process :
       /\ pc'[p] # pc[p]
       /\ (dir # 0 /\ dir' # dir) \/ (owner # NoFile /\ owner' # owner)
       => token[p] = dir]_vars

\* The inductive form: whoever is between making the directory and removing it
\* made the one that is there, and tokens are never reused.
LockInv ==
  /\ \A p \in Process : token[p] <= made
  /\ dir <= made
  /\ dir = 0 => owner = NoFile
  /\ \A p \in Process : pc[p] \in Active => token[p] = dir /\ dir # 0
  /\ \A p, q \in Process : pc[p] \in Active /\ pc[q] \in Active => p = q
=============================================================================
