--------------------------- MODULE ToolingProofs ---------------------------
(***************************************************************************)
(* The repository's scripts, for any number of people who run them.  Each  *)
(* part is about one tool of module MCTooling: its inductive invariant,    *)
(* the proof that its steps preserve it, and what follows.                 *)
(***************************************************************************)
EXTENDS MCTooling, FiniteSetTheorems, TLAPS

(***************************************************************************)
(* The operation lock (OperationLock).                                     *)
(***************************************************************************)
IInv == TypeOK /\ LockInv

\* The initial state satisfies the inductive invariant.
LEMMA InitInv == Init => IInv
BY DEF Init, IInv, TypeOK, LockInv, NoFile, Active

\* Acquire: the directory is absent, so no process is active, and the token is new.
LEMMA AcquireInv ==
  ASSUME IInv, NEW p \in Process, Acquire(p)
  PROVE  IInv'
<1> USE DEF IInv, Acquire, Goto
<1>1. TypeOK' BY DEF TypeOK, Active
<1>2. \A q \in Process : pc[q] \notin Active BY DEF LockInv
<1>3. LockInv' BY <1>2 DEF TypeOK, LockInv, Active
<1> QED BY <1>1, <1>3

\* A step of a process that stays with its own directory.
LEMMA OwnStepInv ==
  ASSUME IInv, NEW p \in Process, LockAssumption,
         WriteOwner(p) \/ Finish(p) \/ Verify(p) \/ Crash(p) \/ Unlink(p)
  PROVE  IInv'
<1> USE DEF IInv, Goto, TypeOK, LockInv, Active
<1>1. CASE WriteOwner(p) BY <1>1 DEF WriteOwner, TornFile, TokenFile
<1>2. CASE Finish(p) BY <1>2 DEF Finish
<1>3. CASE Verify(p) BY <1>3 DEF Verify
<1>4. CASE Crash(p) BY <1>4 DEF Crash
<1>5. CASE Unlink(p) BY <1>5 DEF Unlink, NoFile
<1> QED BY <1>1, <1>2, <1>3, <1>4, <1>5

\* Removing the directory ends the activity of the one process that was active.
LEMMA RemoveInv ==
  ASSUME IInv, NEW p \in Process, Undo(p) \/ RemoveDir(p)
  PROVE  IInv'
<1> USE DEF IInv, Goto, TypeOK, LockInv, Active, RemoveDirIfEmpty
<1>1. CASE Undo(p) BY <1>1 DEF Undo
<1>2. CASE RemoveDir(p) BY <1>2 DEF RemoveDir
<1> QED BY <1>1, <1>2

\* A careful operator finds no process active, because an active one made the directory.
LEMMA ClearInv ==
  ASSUME IInv, CarefulOperator, ClearLock
  PROVE  IInv'
<1>1. \A p \in Process : pc[p] \notin Active
  BY DEF IInv, LockInv, ClearLock, MakerIsGone, Active
<1> QED BY <1>1 DEF IInv, TypeOK, LockInv, ClearLock, NoFile, Active

\* Every step preserves the inductive invariant.
LEMMA NextInv ==
  ASSUME LockAssumption, CarefulOperator, IInv, [Next]_vars
  PROVE  IInv'
<1>1. CASE UNCHANGED vars
  BY <1>1 DEF IInv, TypeOK, LockInv, vars
<1>2. CASE ClearLock BY <1>2, ClearInv
<1>3. ASSUME NEW p \in Process,
             \/ Acquire(p) \/ WriteOwner(p) \/ Undo(p)
             \/ Finish(p) \/ Verify(p) \/ Unlink(p) \/ RemoveDir(p) \/ Crash(p)
      PROVE  IInv'
  BY <1>3, AcquireInv, OwnStepInv, RemoveInv
<1> QED BY <1>1, <1>2, <1>3 DEF Next

\* With a careful operator no two runs hold the lock together.
THEOREM Exclusive == CarefulOperator => (Spec => []MutualExclusion)
<1> SUFFICES ASSUME CarefulOperator PROVE Spec => []MutualExclusion
  OBVIOUS
<1>1. Init => IInv BY InitInv
<1>2. IInv /\ [Next]_vars => IInv' BY NextInv, LockAssumption
<1>3. IInv => MutualExclusion BY DEF IInv, LockInv, MutualExclusion, Active
<1> QED BY <1>1, <1>2, <1>3, PTL DEF Spec

\* With a careful operator no run removes a directory or a token of another run.
THEOREM OwnRemoval == CarefulOperator => (Spec => RemovesOnlyItsOwn)
<1> DEFINE Own ==
      \A p \in Process :
        /\ pc'[p] # pc[p]
        /\ (dir # 0 /\ dir' # dir) \/ (owner # NoFile /\ owner' # owner)
        => token[p] = dir
<1> SUFFICES ASSUME CarefulOperator PROVE Spec => [][Own]_vars
  BY DEF RemovesOnlyItsOwn
<1>1. Init => IInv BY InitInv
<1>2. IInv /\ [Next]_vars => IInv' BY NextInv, LockAssumption
<1>3. IInv /\ [Next]_vars => [Own]_vars
  <2> SUFFICES ASSUME IInv, Next PROVE Own
    BY DEF Own
  <2> SUFFICES ASSUME NEW p \in Process, pc'[p] # pc[p],
                      (dir # 0 /\ dir' # dir) \/ (owner # NoFile /\ owner' # owner)
               PROVE  token[p] = dir
    BY DEF Own
  <2>1. pc[p] \in Active => token[p] = dir BY DEF IInv, LockInv
  <2>2. pc[p] \notin Active => pc[p] = "idle" BY DEF IInv, TypeOK
  <2>3. CASE ClearLock BY <2>3 DEF ClearLock
  <2>4. ASSUME NEW q \in Process,
               \/ Acquire(q) \/ WriteOwner(q) \/ Undo(q)
               \/ Finish(q) \/ Verify(q) \/ Unlink(q) \/ RemoveDir(q) \/ Crash(q)
        PROVE  token[p] = dir
    <3>1. p = q
      BY <2>4 DEF IInv, TypeOK, Goto, Acquire, WriteOwner, Undo, Finish, Verify, Unlink,
                  RemoveDir, Crash
    <3>2. ~Acquire(p) BY DEF Acquire, IInv, LockInv
    <3>3. pc[p] # "idle"
      BY <2>4, <3>1, <3>2 DEF WriteOwner, Undo, Finish, Verify, Unlink, RemoveDir, Crash
    <3> QED BY <2>1, <2>2, <3>3
  <2> QED BY <2>3, <2>4 DEF Next
<1> QED BY <1>1, <1>2, <1>3, PTL DEF Spec

(***************************************************************************)
(* The schema pack (SchemaPack).                                           *)
(***************************************************************************)

\* The statements before p that a run does not defer have been executed.
Preceded(p) == (1 .. p - 1) \ Packing!Deferred \subseteq ran

\* What a run may be doing: a statement is due only if all before it are there.
RunOK(r) ==
  \/ r = Packing!Idle
  \/ \E c \in Packing!Command : c # "apply" /\ r = Packing!Checked(c)
  \/ \E c \in Packing!Command, p \in 1 .. 128 : r = Packing!Running(c, p) /\ Preceded(p)

PackIInv ==
  /\ ran \subseteq Packing!Pack
  /\ DOMAIN run = Operator /\ \A o \in Operator : RunOK(run[o])
  /\ report \in [Operator -> {"none", "refused", "failed", "applied"}]
  /\ Packing!PackInv

\* The places the tool depends on.
LEMMA PackNumbers ==
  /\ Packing!Pack = 1 .. 127 /\ Packing!LastOf[7] = 127
  /\ Packing!RevokeCreate = 95 /\ Packing!StatementOf(7, 1) = 102
  /\ Packing!Deferred = (89 .. 101) \ {95}
BY SMT DEF Packing!Pack, Packing!LastOf, Packing!RevokeCreate, Packing!StatementOf, Packing!Deferred

\* Every checkpoint looks at the statement it goes up to, and what the command goes on with
\* comes after it and after deferred statements only.
LEMMA CheckpointShows ==
  ASSUME NEW c \in Packing!Command, c # "apply"
  PROVE  /\ Packing!Checkpoint(c) \in 1 .. 126 /\ Packing!Checkpoint(c) \in Packing!Looks(c)
         /\ Packing!First(c) \in 1 .. 127
         /\ (1 .. Packing!First(c) - 1) \ Packing!Deferred \subseteq 1 .. Packing!Checkpoint(c)
<1> USE DEF Packing!Command, Packing!Checkpoint, Packing!Looks, Packing!First, Packing!LastOf,
            Packing!StatementOf, Packing!Tables, Packing!Keys, Packing!Policies,
            Packing!VectorIndex
<1>1. CASE c = "from-0001" BY <1>1, PackNumbers, SMT
<1>2. CASE c = "from-0002" BY <1>2, PackNumbers, SMT
<1>3. CASE c = "0006-post-tables" BY <1>3, PackNumbers, SMT
<1>4. CASE c = "0006-schema-only" BY <1>4, PackNumbers, SMT
<1>5. CASE c = "0007-post-index" BY <1>5, PackNumbers, SMT
<1> QED BY <1>1, <1>2, <1>3, <1>4, <1>5

\* Executed statements are never taken back, so a run stays in order while others go on.
LEMMA RunKept ==
  ASSUME NEW r, RunOK(r), ran \subseteq ran'
  PROVE  RunOK(r)'
<1> USE DEF RunOK, Preceded
<1>1. CASE r = Packing!Idle BY <1>1
<1>2. CASE \E c \in Packing!Command : c # "apply" /\ r = Packing!Checked(c) BY <1>2
<1>3. CASE \E c \in Packing!Command, p \in 1 .. 128 : r = Packing!Running(c, p) /\ Preceded(p)
  BY <1>3
<1> QED BY <1>1, <1>2, <1>3

\* A command that matches goes on where all that comes before has been executed.
LEMMA MatchPrecedes ==
  ASSUME PackIInv, NEW c \in Packing!Command, c # "apply", Packing!Matches(c)
  PROVE  Preceded(Packing!First(c)) /\ Packing!First(c) \in 1 .. 127
<1>1. Packing!Checkpoint(c) \in ran
  BY CheckpointShows DEF Packing!Matches
<1>2. (1 .. Packing!Checkpoint(c) - 1) \ Packing!Deferred \subseteq ran
  BY <1>1 DEF PackIInv, Packing!PackInv
<1>3. (1 .. Packing!Checkpoint(c)) \ Packing!Deferred \subseteq ran
  BY <1>1, <1>2, CheckpointShows
<1> QED BY <1>3, CheckpointShows DEF Preceded

\* The statement that is due has all before it; once it is executed the next one has.
LEMMA DuePrecedes ==
  ASSUME PackIInv, NEW o \in Operator, NEW p \in 1 .. 128, Packing!Due(o, p)
  PROVE  \E c \in Packing!Command : run[o] = Packing!Running(c, p) /\ Preceded(p)
<1>1. RunOK(run[o]) BY DEF PackIInv
<1>2. run[o].at = "running" /\ run[o].next = p BY DEF Packing!Due
<1>3. run[o] # Packing!Idle BY <1>2 DEF Packing!Idle
<1>4. \A c \in Packing!Command : run[o] # Packing!Checked(c) BY <1>2 DEF Packing!Checked
<1>5. PICK c \in Packing!Command, q \in 1 .. 128 : run[o] = Packing!Running(c, q) /\ Preceded(q)
  BY <1>1, <1>3, <1>4 DEF RunOK
<1>6. q = p BY <1>2, <1>5 DEF Packing!Running
<1> QED BY <1>5, <1>6

LEMMA AfterPrecedes ==
  ASSUME NEW c \in Packing!Command, NEW p \in 1 .. 127, Preceded(p), ran' = ran \cup {p},
         NEW n, n = Packing!After(c, p)
  PROVE  n \in 1 .. 128 /\ Preceded(n)'
<1>1. CASE c = "0006-schema-only" /\ p = 95
  <2>1. n = 102 BY <1>1, PackNumbers DEF Packing!After
  <2>2. (1 .. 101) \ Packing!Deferred \subseteq ran'
    BY <1>1, PackNumbers DEF Preceded
  <2> QED BY <2>1, <2>2 DEF Preceded
<1>2. CASE ~(c = "0006-schema-only" /\ p = 95)
  <2>1. n = p + 1 BY <1>2, PackNumbers DEF Packing!After
  <2>2. (1 .. p) \ Packing!Deferred \subseteq ran' BY DEF Preceded
  <2> QED BY <2>1, <2>2 DEF Preceded
<1> QED BY <1>1, <1>2

\* A statement that is due may join those that were executed.
LEMMA JoinOrdered ==
  ASSUME PackIInv, NEW p \in 1 .. 127, Preceded(p), ran' = ran \cup {p}
  PROVE  /\ ran' \subseteq Packing!Pack
         /\ \A q \in ran' : (1 .. q - 1) \ Packing!Deferred \subseteq ran'
BY PackNumbers DEF PackIInv, Packing!PackInv, Preceded

\* One operator's run and report change, and the database only grows.
LEMMA PackMove ==
  ASSUME PackIInv, NEW o \in Operator, NEW r,
         NEW said \in {"none", "refused", "failed", "applied"}, ran \subseteq ran',
         run' = [run EXCEPT ![o] = r], report' = [report EXCEPT ![o] = said],
         RunOK(r)', said = "applied" => Packing!Pack \ Packing!Deferred \subseteq ran',
         ran' \subseteq Packing!Pack,
         \A q \in ran' : (1 .. q - 1) \ Packing!Deferred \subseteq ran'
  PROVE  PackIInv'
<1>1. DOMAIN run' = Operator BY DEF PackIInv
<1>2. ASSUME NEW w \in Operator PROVE RunOK(run[w])'
  <2>1. CASE w = o BY <2>1 DEF PackIInv
  <2>2. CASE w # o
    <3>1. RunOK(run[w]) /\ run'[w] = run[w] BY <2>2 DEF PackIInv
    <3> QED BY <3>1, RunKept
  <2> QED BY <2>1, <2>2
<1>3. ASSUME NEW w \in Operator, report'[w] = "applied"
      PROVE  Packing!Pack \ Packing!Deferred \subseteq ran'
  BY <1>3 DEF PackIInv, Packing!PackInv
<1>4. report' \in [Operator -> {"none", "refused", "failed", "applied"}] BY DEF PackIInv
<1> QED BY <1>1, <1>2, <1>3, <1>4 DEF PackIInv, Packing!PackInv

LEMMA PackInitInv == Packing!PackInit => PackIInv
BY DEF Packing!PackInit, PackIInv, Packing!PackInv, RunOK

\* A command starts, is confirmed or is refused: nothing is executed.
LEMMA PackStartInv ==
  ASSUME PackIInv, NEW o \in Operator, NEW c \in Packing!Command, Packing!Start(o, c)
  PROVE  PackIInv'
<1> USE DEF Packing!Start
<1>1. CASE c = "apply"
  <2>1. PICK r : r = Packing!Running(c, 1) OBVIOUS
  <2>2. Preceded(1)' BY DEF Preceded
  <2>3. RunOK(r)' BY <2>1, <2>2 DEF RunOK
  <2>4. PackIInv' BY <1>1, <2>1, <2>3, PackMove DEF PackIInv, Packing!PackInv
  <2> QED BY <2>4
<1>2. CASE c # "apply"
  <2>1. PICK r : r = Packing!Checked(c) OBVIOUS
  <2>2. RunOK(r)' BY <1>2, <2>1 DEF RunOK
  <2> QED BY <1>2, <2>1, <2>2, PackMove DEF PackIInv, Packing!PackInv
<1> QED BY <1>1, <1>2

LEMMA PackConfirmInv ==
  ASSUME PackIInv, NEW o \in Operator, Packing!Confirm(o)
  PROVE  PackIInv'
<1> USE DEF Packing!Confirm
<1>1. RunOK(run[o]) BY DEF PackIInv
<1>6. run[o] # Packing!Idle BY DEF Packing!Idle
<1>7. \A c \in Packing!Command, p \in 1 .. 128 : run[o] # Packing!Running(c, p)
  BY DEF Packing!Running
<1>2. PICK c \in Packing!Command : c # "apply" /\ run[o] = Packing!Checked(c)
  BY <1>1, <1>6, <1>7 DEF RunOK
<1>3. run[o].command = c BY <1>2 DEF Packing!Checked
<1>4. CASE Packing!Matches(c)
  <2>1. PICK n : n = Packing!First(c) OBVIOUS
  <2>2. Preceded(n) /\ n \in 1 .. 127 BY <1>2, <1>4, <2>1, MatchPrecedes
  <2>3. PICK r : r = Packing!Running(c, n) OBVIOUS
  <2>4. Preceded(n)' BY <2>2 DEF Preceded
  <2>5. RunOK(r)' BY <2>2, <2>3, <2>4 DEF RunOK
  <2>6. run' = [run EXCEPT ![o] = r] BY <1>3, <1>4, <2>1, <2>3
  <2>7. PICK said : said = report[o] OBVIOUS
  <2>8. report' = [report EXCEPT ![o] = said] BY <1>3, <1>4, <2>7 DEF PackIInv
  <2> QED BY <2>5, <2>6, <2>7, <2>8, PackMove DEF PackIInv, Packing!PackInv
<1>5. CASE ~Packing!Matches(c)
  <2>1. PICK r : r = Packing!Idle OBVIOUS
  <2>2. RunOK(r)' BY <2>1 DEF RunOK
  <2> QED BY <1>3, <1>5, <2>1, <2>2, PackMove DEF PackIInv, Packing!PackInv
<1> QED BY <1>4, <1>5

\* A statement is executed, or a run ends at it.
LEMMA PackExecuteInv ==
  ASSUME PackIInv, NEW o \in Operator, NEW p \in Packing!Pack, Packing!Execute(o, p)
  PROVE  PackIInv'
<1> USE DEF Packing!Execute
<1>1. p \in 1 .. 127 BY PackNumbers
<1>2. PICK c \in Packing!Command : run[o] = Packing!Running(c, p) /\ Preceded(p)
  BY <1>1, DuePrecedes
<1>3. run[o].command = c BY <1>2 DEF Packing!Running
<1>4. PICK n : n = Packing!After(c, p) OBVIOUS
<1>6. n \in 1 .. 128 /\ Preceded(n)' BY <1>1, <1>2, <1>4, AfterPrecedes
<1>7. PICK r : r = Packing!Running(c, n) OBVIOUS
<1>8. RunOK(r)' BY <1>6, <1>7 DEF RunOK
<1>9. run' = [run EXCEPT ![o] = r] BY <1>3, <1>4, <1>7
<1>10. PICK said : said = report[o] OBVIOUS
<1>11. report' = [report EXCEPT ![o] = said] BY <1>10 DEF PackIInv
<1>12. /\ ran' \subseteq Packing!Pack
       /\ \A q \in ran' : (1 .. q - 1) \ Packing!Deferred \subseteq ran'
  BY <1>1, <1>2, JoinOrdered
<1>13. said \in {"none", "refused", "failed", "applied"} BY <1>10 DEF PackIInv
<1>14. said = "applied" => Packing!Pack \ Packing!Deferred \subseteq ran'
  BY <1>10 DEF PackIInv, Packing!PackInv
<1> QED BY <1>8, <1>9, <1>11, <1>12, <1>13, <1>14, PackMove

LEMMA PackStopInv ==
  ASSUME PackIInv, NEW o \in Operator, NEW p \in Packing!Pack, Packing!Stop(o, p)
  PROVE  PackIInv'
<1> USE DEF Packing!Stop
<1>1. p \in 1 .. 127 BY PackNumbers
<1>2. Preceded(p) BY <1>1, DuePrecedes
<1>3. ran' = ran \/ ran' = ran \cup {p} OBVIOUS
<1>4. /\ ran' \subseteq Packing!Pack
      /\ \A q \in ran' : (1 .. q - 1) \ Packing!Deferred \subseteq ran'
  BY <1>1, <1>2, <1>3, JoinOrdered DEF PackIInv, Packing!PackInv
<1>5. PICK r : r = Packing!Idle OBVIOUS
<1>6. RunOK(r)' BY <1>5 DEF RunOK
<1> QED BY <1>3, <1>4, <1>5, <1>6, PackMove

\* What is reported applied has every statement that is not deferred.
LEMMA PackFinishInv ==
  ASSUME PackIInv, NEW o \in Operator, Packing!Finish(o)
  PROVE  PackIInv'
<1> USE DEF Packing!Finish
<1>1. Preceded(128) BY PackNumbers, DuePrecedes
<1>2. Packing!Pack \ Packing!Deferred \subseteq ran BY <1>1, PackNumbers DEF Preceded
<1>3. PICK r : r = Packing!Idle OBVIOUS
<1>4. RunOK(r)' BY <1>3 DEF RunOK
<1> QED BY <1>2, <1>3, <1>4, PackMove DEF PackIInv, Packing!PackInv

LEMMA PackNextInv ==
  ASSUME PackIInv, Packing!PackNext \/ UNCHANGED packing
  PROVE  PackIInv'
<1>1. ASSUME UNCHANGED <<ran, run, report>> PROVE PackIInv'
  BY <1>1 DEF PackIInv, Packing!PackInv, RunOK, Preceded
<1>2. CASE UNCHANGED packing BY <1>1, <1>2 DEF packing
<1>3. CASE Packing!Populate \/ Packing!EditFiles
  BY <1>1, <1>3 DEF Packing!Populate, Packing!EditFiles
<1>4. ASSUME NEW o \in Operator,
             \/ \E c \in Packing!Command : Packing!Start(o, c)
             \/ Packing!Confirm(o)
             \/ \E p \in Packing!Pack : Packing!Execute(o, p) \/ Packing!Stop(o, p)
             \/ Packing!Finish(o)
      PROVE  PackIInv'
  BY <1>4, PackStartInv, PackConfirmInv, PackExecuteInv, PackStopInv, PackFinishInv
<1> QED BY <1>2, <1>3, <1>4 DEF Packing!PackNext

\* However often the pack is cut off and resumed, and by any number of operators at once,
\* it is executed in order, and what is reported applied is complete (h2-crdb-migrate).
THEOREM PackInOrder == ToolingSpec => []PackInv
<1>1. ToolingInit => PackIInv BY PackInitInv DEF ToolingInit
<1>2. PackIInv /\ [ToolingNext]_toolingVars => PackIInv'
  BY PackNextInv DEF ToolingNext, Pack, toolingVars
<1>3. PackIInv => PackInv BY DEF PackIInv, PackInv
<1> QED BY <1>1, <1>2, <1>3, PTL DEF ToolingSpec

(***************************************************************************)
(* The live migrations (LiveMigrations).                                   *)
(***************************************************************************)

\* What an operator may be doing.
TaskOK(t) ==
  \/ t = Migrating!Idle
  \/ \E n \in 1 .. 146 : t = Migrating!Applying(n) /\ 1 .. n - 1 \subseteq extended
  \/ \E s, d \in BOOLEAN : t = Migrating!Replacing(s, d) /\ (d => window)

\* Who is past the last statement that cannot be said twice, 134: one run at most, since
\* nobody begins beyond 27 and nobody begins when it is there.
Beyond(t) == t.at = "0008" /\ t.next > 134
Past == {o \in Operator : o \in appliers \/ Beyond(task[o])}

Said == {"none", "denied", "rejected", "uncertain", "window"} \cup DOMAIN Migrating!Place

LiveIInv ==
  /\ used \in BOOLEAN
  /\ \E k \in 0 .. 145 : extended = 1 .. k
  /\ task = [o \in Operator |-> task[o]] /\ \A o \in Operator : TaskOK(task[o])
  /\ told \in [Operator -> Said] /\ \A o \in Operator : told[o] = "window" => window
  /\ appliers \subseteq Operator
  /\ \A o, p \in Past : o = p
  /\ Past # {} => 134 \in extended
  /\ appliers # {} => extended = Migrating!Statement

LEMMA PlaceNumbers ==
  /\ Migrating!Statement = 1 .. 145
  /\ DOMAIN Migrating!Place = Migrating!Unfinished \cup {"applied"}
  /\ Migrating!Place["partial9"] = 9 /\ Migrating!Place["partial21"] = 21
  /\ Migrating!Place["partial27"] = 27 /\ Migrating!Place["ready"] = 1
  /\ {9, 21, 27, 134} \subseteq Migrating!Inspected
BY SMT DEF Migrating!Statement, Migrating!Length, Migrating!Place, Migrating!Unfinished,
           Migrating!Inspected

\* What a resumption finds, it finds of a database that shows that state.
LEMMA InspectShows ==
  ASSUME NEW s, s = Migrating!Inspect
  PROVE  /\ s \in Said
         /\ s # "window"
         /\ s \in DOMAIN Migrating!Place => Migrating!Shows(s)
<1>1. CASE member \/ used \/ \A state \in DOMAIN Migrating!Place : ~Migrating!Shows(state)
  BY <1>1, PlaceNumbers DEF Migrating!Inspect, Said, Migrating!Unfinished
<1>2. CASE ~(member \/ used \/ \A state \in DOMAIN Migrating!Place : ~Migrating!Shows(state))
  <2>1. s = CHOOSE state \in DOMAIN Migrating!Place : Migrating!Shows(state)
    BY <1>2 DEF Migrating!Inspect
  <2>2. \E state \in DOMAIN Migrating!Place : Migrating!Shows(state) BY <1>2
  <2>3. s \in DOMAIN Migrating!Place /\ Migrating!Shows(s) BY <2>1, <2>2
  <2> QED BY <2>3, PlaceNumbers DEF Said, Migrating!Unfinished
<1> QED BY <1>1, <1>2

\* It goes on where all that comes before has been executed, and the last view is not there.
LEMMA ResumeOK ==
  ASSUME LiveIInv, NEW s, s = Migrating!Inspect, s \in Migrating!Unfinished
  PROVE  /\ Migrating!StartAfter(s) \in {0, 9, 21, 27}
         /\ 1 .. Migrating!StartAfter(s) \subseteq extended
         /\ 134 \notin extended
<1> USE PlaceNumbers
<1>1. Migrating!Shows(s) BY InspectShows
<1>2. PICK k \in 0 .. 145 : extended = 1 .. k BY DEF LiveIInv
<1>3. Migrating!Place[s] \in {1, 9, 21, 27} BY DEF Migrating!Unfinished
<1>4. 134 \notin extended BY <1>1, <1>3 DEF Migrating!Shows
<1>5. CASE s = "ready" BY <1>4, <1>5 DEF Migrating!StartAfter
<1>6. CASE s \in {"partial9", "partial21", "partial27"}
  <2>1. Migrating!StartAfter(s) = Migrating!Place[s] /\ Migrating!Place[s] \in {9, 21, 27}
    BY <1>6 DEF Migrating!StartAfter
  <2>2. Migrating!Place[s] \in extended BY <1>1, <2>1 DEF Migrating!Shows
  <2> QED BY <1>2, <1>4, <2>1, <2>2
<1> QED BY <1>5, <1>6 DEF Migrating!Unfinished

LEMMA TaskKept ==
  ASSUME NEW t, TaskOK(t), extended \subseteq extended', window => window'
  PROVE  TaskOK(t)'
<1>1. CASE t = Migrating!Idle BY <1>1 DEF TaskOK
<1>2. CASE \E n \in 1 .. 146 : t = Migrating!Applying(n) /\ 1 .. n - 1 \subseteq extended
  BY <1>2 DEF TaskOK
<1>3. CASE \E s, d \in BOOLEAN : t = Migrating!Replacing(s, d) /\ (d => window)
  <2>1. PICK s \in BOOLEAN, d \in BOOLEAN : t = Migrating!Replacing(s, d) /\ (d => window)
    BY <1>3
  <2>2. d => window' BY <2>1
  <2> QED BY <2>1, <2>2 DEF TaskOK
<1> QED BY <1>1, <1>2, <1>3 DEF TaskOK

\* One operator goes on, and nobody but the one who executes 134 comes past it.
LEMMA LiveMove ==
  ASSUME LiveIInv, NEW o \in Operator, NEW t, NEW said \in Said,
         extended \subseteq extended', \E k \in 0 .. 145 : extended' = 1 .. k,
         window => window', used' = used, appliers' = appliers,
         task' = [task EXCEPT ![o] = t], told' = [told EXCEPT ![o] = said],
         TaskOK(t)', said = "window" => window',
         Beyond(t) => Beyond(task[o]) \/ (134 \notin extended /\ 134 \in extended')
  PROVE  LiveIInv'
<1>1. task' = [w \in Operator |-> task'[w]] BY DEF LiveIInv
<1>2. ASSUME NEW w \in Operator PROVE TaskOK(task[w])'
  <2>1. CASE w = o BY <2>1 DEF LiveIInv
  <2>2. CASE w # o
    <3>1. TaskOK(task[w]) /\ task'[w] = task[w] BY <2>2 DEF LiveIInv
    <3>2. PICK tw : tw = task[w] OBVIOUS
    <3>3. TaskOK(tw)' BY <3>1, <3>2, TaskKept
    <3> QED BY <3>1, <3>2, <3>3
  <2> QED BY <2>1, <2>2
<1>3. told' \in [Operator -> Said] /\ \A w \in Operator : told'[w] = "window" => window'
  BY DEF LiveIInv
<1>4. ASSUME NEW w \in Past'
      PROVE  w \in Past \/ (w = o /\ 134 \notin extended /\ 134 \in extended')
  <2>1. w \in Operator /\ (w \in appliers \/ Beyond(task'[w])) BY DEF Past, Beyond
  <2>2. CASE w = o
    <3>1. task'[w] = t BY <2>2 DEF LiveIInv
    <3> QED BY <2>1, <2>2, <3>1 DEF Past
  <2>3. CASE w # o
    <3>1. task'[w] = task[w] BY <2>1, <2>3 DEF LiveIInv
    <3> QED BY <2>1, <3>1 DEF Past
  <2> QED BY <2>2, <2>3
<1>5. (\A w, p \in Past' : w = p) /\ (Past' # {} => 134 \in extended')
  BY <1>4 DEF LiveIInv
<1>6. appliers' # {} => extended' = Migrating!Statement
  <2>1. PICK k \in 0 .. 145 : extended' = 1 .. k OBVIOUS
  <2>2. 145 \in 1 .. k => k = 145 OBVIOUS
  <2>3. appliers # {} => extended = 1 .. 145 BY PlaceNumbers DEF LiveIInv
  <2>4. appliers # {} => 145 \in 1 .. k
    <3> SUFFICES ASSUME appliers # {} PROVE 145 \in 1 .. k
      OBVIOUS
    <3>1. 145 \in extended BY <2>3
    <3>2. 145 \in extended' BY <3>1
    <3> QED BY <2>1, <3>2
  <2>5. appliers # {} => extended' = 1 .. 145 BY <2>1, <2>2, <2>4
  <2> QED BY <2>5, PlaceNumbers
<1> QED BY <1>1, <1>2, <1>3, <1>5, <1>6 DEF LiveIInv

LEMMA LiveInitInv == Migrating!LiveMigrationInit => LiveIInv
<1> SUFFICES ASSUME Migrating!LiveMigrationInit PROVE LiveIInv
  OBVIOUS
<1> USE DEF Migrating!LiveMigrationInit
<1>1. \E k \in 0 .. 145 : extended = 1 .. k
  <2>1. extended = 1 .. 0 OBVIOUS
  <2> QED BY <2>1
<1>2. Past = {} BY DEF Past, Beyond, Migrating!Idle
<1> QED BY <1>1, <1>2 DEF LiveIInv, TaskOK, Said

LEMMA StatusInv ==
  ASSUME LiveIInv, NEW o \in Operator, Migrating!Status(o)
  PROVE  LiveIInv'
<1> USE DEF Migrating!Status
<1>1. PICK s : s = Migrating!Inspect OBVIOUS
<1>2. s \in Said /\ s # "window" BY <1>1, InspectShows
<1>3. PICK t : t = Migrating!Idle OBVIOUS
<1>4. task' = [task EXCEPT ![o] = t] BY <1>3 DEF LiveIInv
<1> QED BY <1>1, <1>2, <1>3, LiveMove DEF LiveIInv, TaskOK, Beyond, Migrating!Idle

\* A run of 0008 begins after what has been executed, before 134.
LEMMA Apply0008Inv ==
  ASSUME LiveIInv, NEW o \in Operator, Migrating!Apply0008(o)
  PROVE  LiveIInv'
<1> USE DEF Migrating!Apply0008
<1>1. PICK s : s = Migrating!Inspect OBVIOUS
<1>2. PICK n : n = Migrating!StartAfter(s) + 1 OBVIOUS
<1>3. n \in 1 .. 28 /\ 1 .. n - 1 \subseteq extended BY <1>1, <1>2, ResumeOK
<1>4. PICK t : t = Migrating!Applying(n) OBVIOUS
<1>5. TaskOK(t)' BY <1>3, <1>4 DEF TaskOK
<1>6. ~Beyond(t) BY <1>3, <1>4 DEF Beyond, Migrating!Applying
<1>7. task' = [task EXCEPT ![o] = t] /\ told' = [told EXCEPT ![o] = "none"]
  BY <1>1, <1>2, <1>4
<1> QED BY <1>5, <1>6, <1>7, LiveMove DEF LiveIInv, Said

\* The statement a run is at has all before it.
LEMMA AtStatement ==
  ASSUME LiveIInv, NEW o \in Operator, task[o].at = "0008"
  PROVE  /\ task[o].next \in 1 .. 146 /\ 1 .. task[o].next - 1 \subseteq extended
         /\ task[o] = Migrating!Applying(task[o].next)
<1>1. TaskOK(task[o]) BY DEF LiveIInv
<1>2. task[o] # Migrating!Idle BY DEF Migrating!Idle
<1>3. \A s, d \in BOOLEAN : task[o] # Migrating!Replacing(s, d) BY DEF Migrating!Replacing
<1>4. PICK n \in 1 .. 146 : task[o] = Migrating!Applying(n) /\ 1 .. n - 1 \subseteq extended
  BY <1>1, <1>2, <1>3 DEF TaskOK
<1>5. task[o].next = n BY <1>4 DEF Migrating!Applying
<1> QED BY <1>4, <1>5

\* What is executed stays the first statements, in order.
LEMMA StillFirst ==
  ASSUME LiveIInv, NEW n \in 1 .. 145, 1 .. n - 1 \subseteq extended, extended' = extended \cup {n}
  PROVE  \E k \in 0 .. 145 : extended' = 1 .. k
<1>1. PICK k \in 0 .. 145 : extended = 1 .. k BY DEF LiveIInv
<1>2. CASE n \in extended BY <1>1, <1>2
<1>3. CASE n \notin extended
  <2>1. n = k + 1
    <3>1. n > k BY <1>1, <1>3
    <3>2. n - 1 <= k
      <4>1. CASE n = 1 BY <4>1
      <4>2. CASE n > 1
        <5>1. n - 1 \in 1 .. k BY <1>1, <4>2
        <5> QED BY <5>1
      <4> QED BY <4>1, <4>2
    <3> QED BY <3>1, <3>2
  <2>2. extended' = 1 .. n BY <1>1, <2>1
  <2>3. n \in 0 .. 145 OBVIOUS
  <2> QED BY <2>2, <2>3
<1> QED BY <1>2, <1>3

LEMMA Execute0008Inv ==
  ASSUME LiveIInv, NEW o \in Operator, Migrating!Execute(o)
  PROVE  LiveIInv'
<1> USE DEF Migrating!Execute
<1>1. PICK n : n = task[o].next OBVIOUS
<1>2. /\ n \in 1 .. 145 /\ 1 .. n - 1 \subseteq extended
      /\ task[o] = Migrating!Applying(n)
  BY <1>1, AtStatement, PlaceNumbers
<1>3. \E k \in 0 .. 145 : extended' = 1 .. k BY <1>1, <1>2, StillFirst
<1>4. PICK t : t = Migrating!Applying(n + 1) OBVIOUS
<1>5. task' = [task EXCEPT ![o] = t]
  <2>1. [task[o] EXCEPT !.next = n + 1] = t BY <1>2, <1>4 DEF Migrating!Applying
  <2> QED BY <1>1, <2>1
<1>6. TaskOK(t)'
  <2>1. PICK m : m = n + 1 OBVIOUS
  <2>2. m \in 1 .. 146 BY <1>2, <2>1
  <2>3. extended' = extended \cup {n} BY <1>1
  <2>4. 1 .. m - 1 \subseteq extended' BY ONLY <1>2, <2>1, <2>3
  <2> QED BY <1>4, <2>1, <2>2, <2>4 DEF TaskOK
<1>7. ASSUME Beyond(t), ~Beyond(task[o]) PROVE 134 \notin extended /\ 134 \in extended'
  <2>1. n = 134 BY <1>2, <1>4, <1>7 DEF Beyond, Migrating!Applying
  <2>2. 134 \notin Migrating!Repeatable BY DEF Migrating!Repeatable
  <2> QED BY <1>1, <2>1, <2>2 DEF Migrating!Fails
<1>8. PICK said : said = told[o] OBVIOUS
<1>9. told' = [told EXCEPT ![o] = said] /\ said \in Said /\ (said = "window" => window')
  BY <1>8 DEF LiveIInv
<1> QED BY <1>3, <1>5, <1>6, <1>7, <1>9, LiveMove DEF LiveIInv

LEMMA CutInv ==
  ASSUME LiveIInv, NEW o \in Operator, Migrating!Cut(o)
  PROVE  LiveIInv'
<1> USE DEF Migrating!Cut, Migrating!Ends
<1>1. PICK n : n = task[o].next OBVIOUS
<1>2. n \in 1 .. 145 /\ 1 .. n - 1 \subseteq extended BY <1>1, AtStatement, PlaceNumbers
<1>3. \E k \in 0 .. 145 : extended' = 1 .. k BY <1>1, <1>2, StillFirst DEF LiveIInv
<1>4. PICK t : t = Migrating!Idle OBVIOUS
<1>5. ~Beyond(t) /\ TaskOK(t)' BY <1>4 DEF Beyond, TaskOK, Migrating!Idle
<1>6. "denied" \in Said BY DEF Said
<1> QED BY <1>3, <1>4, <1>5, <1>6, LiveMove

\* The one run that came past 134 is the one that is told so.
LEMMA Verify0008Inv ==
  ASSUME LiveIInv, NEW o \in Operator, Migrating!Verify0008(o)
  PROVE  LiveIInv'
<1> USE DEF Migrating!Verify0008, Migrating!Ends
<1>1. task[o].next = 146 /\ task[o].at = "0008" BY DEF Migrating!Length
<1>2. 1 .. 145 \subseteq extended BY <1>1, AtStatement
<1>3. extended = 1 .. 145
  <2>1. PICK k \in 0 .. 145 : extended = 1 .. k BY DEF LiveIInv
  <2>2. 145 \in extended BY <1>2
  <2>3. k = 145 BY <2>1, <2>2
  <2> QED BY <2>1, <2>3
<1>4. o \in Past BY <1>1 DEF Past, Beyond
<1>5. PICK t : t = Migrating!Idle OBVIOUS
<1>6. ~Beyond(t) /\ TaskOK(t)' BY <1>5 DEF Beyond, TaskOK, Migrating!Idle
<1>7. CASE Migrating!Inspect # "applied"
  <2>1. "rejected" \in Said BY DEF Said
  <2> QED BY <1>5, <1>6, <1>7, <2>1, LiveMove DEF LiveIInv
<1>8. CASE Migrating!Inspect = "applied"
  <2>1. ASSUME NEW w \in Operator PROVE TaskOK(task[w])' /\ (Beyond(task'[w]) => Beyond(task[w]))
    <3>1. CASE w = o BY <1>5, <1>6, <1>8, <3>1 DEF LiveIInv
    <3>2. CASE w # o
      <4>1. TaskOK(task[w]) /\ task'[w] = task[w] BY <1>8, <3>2 DEF LiveIInv
      <4>2. PICK tw : tw = task[w] OBVIOUS
      <4>3. TaskOK(tw)' BY <4>1, <4>2, TaskKept
      <4> QED BY <4>1, <4>2, <4>3
    <3> QED BY <3>1, <3>2
  <2>2. Past' \subseteq Past
    <3> SUFFICES ASSUME NEW w \in Past' PROVE w \in Past
      OBVIOUS
    <3>1. w \in Operator /\ (w \in appliers' \/ Beyond(task'[w])) BY DEF Past, Beyond
    <3>2. w \in appliers' => w \in appliers \/ w = o BY <1>8
    <3> QED BY <1>4, <2>1, <3>1, <3>2 DEF Past
  <2>3. told' = [told EXCEPT ![o] = "applied"] BY <1>8
  <2>4. /\ told' \in [Operator -> Said]
        /\ \A w \in Operator : told'[w] = "window" => window'
    BY <2>3, PlaceNumbers DEF LiveIInv, Said
  <2>5. /\ task' = [w \in Operator |-> task'[w]] /\ appliers' \subseteq Operator
        /\ used' \in BOOLEAN /\ \E k \in 0 .. 145 : extended' = 1 .. k
    BY <1>8 DEF LiveIInv
  <2>6. (\A v, w \in Past' : v = w) /\ (Past' # {} => 134 \in extended')
    BY <2>2 DEF LiveIInv
  <2>7. extended' = Migrating!Statement BY <1>3, PlaceNumbers
  <2> QED BY <2>1, <2>4, <2>5, <2>6, <2>7 DEF LiveIInv
<1> QED BY <1>7, <1>8

\* A run of 0009 knows that the view is there once it is done.
LEMMA AtReplacement ==
  ASSUME LiveIInv, NEW o \in Operator, task[o].at = "0009"
  PROVE  \E s, d \in BOOLEAN : task[o] = Migrating!Replacing(s, d) /\ (d => window)
<1>1. TaskOK(task[o]) BY DEF LiveIInv
<1>2. task[o] # Migrating!Idle BY DEF Migrating!Idle
<1>3. \A n \in 1 .. 146 : task[o] # Migrating!Applying(n) BY DEF Migrating!Applying
<1> QED BY <1>1, <1>2, <1>3 DEF TaskOK

LEMMA Apply0009Inv ==
  ASSUME LiveIInv, NEW o \in Operator, Migrating!Apply0009(o)
  PROVE  LiveIInv'
<1> USE DEF Migrating!Apply0009
<1>1. PICK t : t = Migrating!Replacing(used, FALSE) OBVIOUS
<1>2. TaskOK(t)'
  <2>1. used \in BOOLEAN BY DEF LiveIInv
  <2>2. PICK s : s = used OBVIOUS
  <2>3. s \in BOOLEAN /\ t = Migrating!Replacing(s, FALSE) BY <1>1, <2>1, <2>2
  <2> QED BY <2>3 DEF TaskOK
<1>3. ~Beyond(t) BY <1>1 DEF Beyond, Migrating!Replacing
<1>4. "none" \in Said BY DEF Said
<1> QED BY <1>1, <1>2, <1>3, <1>4, LiveMove DEF LiveIInv

LEMMA ReplaceInv ==
  ASSUME LiveIInv, NEW o \in Operator, Migrating!Replace(o)
  PROVE  LiveIInv'
<1> USE DEF Migrating!Replace
<1>1. PICK s \in BOOLEAN, d \in BOOLEAN : task[o] = Migrating!Replacing(s, d) BY AtReplacement
<1>2. task[o].seen = s BY <1>1 DEF Migrating!Replacing
<1>3. PICK t : t = Migrating!Replacing(s, TRUE) OBVIOUS
<1>4. TaskOK(t)' BY <1>3 DEF TaskOK
<1>5. ~Beyond(t) BY <1>3 DEF Beyond, Migrating!Replacing
<1>6. PICK said : said = told[o] OBVIOUS
<1>7. told' = [told EXCEPT ![o] = said] /\ said \in Said BY <1>6 DEF LiveIInv
<1>8. task' = [task EXCEPT ![o] = t] BY <1>2, <1>3
<1> QED BY <1>4, <1>5, <1>7, <1>8, LiveMove DEF LiveIInv

\* An operator whose command ends.
LEMMA EndsInv ==
  ASSUME LiveIInv, NEW o \in Operator, NEW said \in Said, Migrating!Ends(o, said),
         window => window', said = "window" => window',
         UNCHANGED <<extended, used, appliers>>
  PROVE  LiveIInv'
<1> USE DEF Migrating!Ends
<1>1. PICK t : t = Migrating!Idle OBVIOUS
<1>2. ~Beyond(t) /\ TaskOK(t)' BY <1>1 DEF Beyond, TaskOK, Migrating!Idle
<1> QED BY <1>1, <1>2, LiveMove DEF LiveIInv

LEMMA Lose0009Inv ==
  ASSUME LiveIInv, NEW o \in Operator, Migrating!Lose0009(o)
  PROVE  LiveIInv'
<1>1. "uncertain" \in Said BY DEF Said
<1> QED BY <1>1, EndsInv DEF Migrating!Lose0009

LEMMA Verify0009Inv ==
  ASSUME LiveIInv, NEW o \in Operator, Migrating!Verify0009(o)
  PROVE  LiveIInv'
<1> USE DEF Migrating!Verify0009
<1>1. PICK said : said = IF task[o].seen = used THEN "window" ELSE "uncertain" OBVIOUS
<1>2. said \in Said BY <1>1 DEF Said
<1>3. window
  <2>1. PICK s \in BOOLEAN, d \in BOOLEAN : task[o] = Migrating!Replacing(s, d) /\ (d => window)
    BY AtReplacement
  <2>2. d BY <2>1 DEF Migrating!Replacing
  <2> QED BY <2>1, <2>2
<1> QED BY <1>1, <1>2, <1>3, EndsInv

\* What changes none of what the invariant is about.
LEMMA LiveFramed ==
  ASSUME LiveIInv, UNCHANGED <<extended, window, task, told, appliers>>, used' \in BOOLEAN
  PROVE  LiveIInv'
<1>1. ASSUME NEW w \in Operator PROVE TaskOK(task[w])'
  <2>1. TaskOK(task[w]) /\ task'[w] = task[w] BY DEF LiveIInv
  <2>2. PICK tw : tw = task[w] OBVIOUS
  <2>3. TaskOK(tw)' BY <2>1, <2>2, TaskKept
  <2> QED BY <2>1, <2>2, <2>3
<1>2. Past' = Past BY DEF Past, Beyond
<1> QED BY <1>1, <1>2 DEF LiveIInv

LEMMA LiveNextInv ==
  ASSUME LiveIInv, Migrating!LiveMigrationNext \/ UNCHANGED migrating
  PROVE  LiveIInv'
<1>1. CASE UNCHANGED migrating BY <1>1, LiveFramed DEF migrating, LiveIInv
<1>2. CASE Migrating!Use BY <1>2, LiveFramed DEF Migrating!Use
<1>3. ASSUME NEW o \in Operator, Migrating!Apply0011(o) PROVE LiveIInv'
  BY <1>3, LiveFramed DEF Migrating!Apply0011, LiveIInv
<1>4. ASSUME NEW o \in Operator,
             \/ Migrating!Status(o) \/ Migrating!Apply0008(o) \/ Migrating!Execute(o)
             \/ Migrating!Cut(o) \/ Migrating!Verify0008(o) \/ Migrating!Apply0009(o)
             \/ Migrating!Replace(o) \/ Migrating!Lose0009(o) \/ Migrating!Verify0009(o)
      PROVE  LiveIInv'
  BY <1>4, StatusInv, Apply0008Inv, Execute0008Inv, CutInv, Verify0008Inv, Apply0009Inv,
     ReplaceInv, Lose0009Inv, Verify0009Inv
<1> QED BY <1>1, <1>2, <1>3, <1>4 DEF Migrating!LiveMigrationNext

LEMMA LiveFollows == LiveIInv => LiveMigrationInv
<1> SUFFICES ASSUME LiveIInv PROVE LiveMigrationInv
  OBVIOUS
<1>1. extended = 1 .. Cardinality(extended)
  <2>1. PICK k \in 0 .. 145 : extended = 1 .. k BY DEF LiveIInv
  <2>2. k \in Int /\ 1 \in Int OBVIOUS
  <2>3. Cardinality(1 .. k) = IF 1 > k THEN 0 ELSE k - 1 + 1 BY ONLY <2>2, FS_Interval
  <2>4. Cardinality(1 .. k) = k BY <2>3
  <2> QED BY <2>1, <2>4
<1>2. \A o \in Operator : task[o].at = "0008" => 1 .. task[o].next - 1 \subseteq extended
  BY AtStatement
<1>3. \A o, p \in appliers : o = p BY DEF LiveIInv, Past
<1>4. /\ appliers # {} => extended = Migrating!Statement
      /\ \A o \in Operator : told[o] = "window" => window
  BY DEF LiveIInv
<1>5. Migrating!Cardinality(extended) = Cardinality(extended)
  BY Zenon DEF Migrating!Cardinality, Cardinality
<1> QED BY <1>1, <1>2, <1>3, <1>4, <1>5, Zenon DEF LiveMigrationInv, Migrating!LiveMigrationInv

\* However often 0008 is cut off and resumed, by any number of operators at once, it is
\* executed in order and one run at most is told that it applied it; 0009's success is never
\* reported without its view (h2-crdb-apply-0008, -0009).
THEOREM LiveInOrder == ToolingSpec => []LiveMigrationInv
<1>1. ToolingInit => LiveIInv BY LiveInitInv DEF ToolingInit
<1>2. LiveIInv /\ [ToolingNext]_toolingVars => LiveIInv'
  BY LiveNextInv DEF ToolingNext, Live, toolingVars
<1> QED BY <1>1, <1>2, LiveFollows, PTL DEF ToolingSpec

(***************************************************************************)
(* The live probe (LiveProbe).                                             *)
(***************************************************************************)

\* A run is out, or has a nonce.
HasNonce(r) == r = Probing!Out \/ ("nonce" \in DOMAIN r /\ r.nonce \in Nonce)

ProbeIInv ==
  /\ DOMAIN canary = Nonce /\ cleaned \subseteq Nonce
  /\ DOMAIN probe = Prober /\ \A o \in Prober : HasNonce(probe[o])
  /\ Probing!CleanedStaysClean

LEMMA ProbeInitInv == Probing!ProbeInit => ProbeIInv
BY DEF Probing!ProbeInit, ProbeIInv, Probing!CleanedStaysClean, HasNonce

\* One operator's run goes on, its nonce stays.
LEMMA ProbeMove ==
  ASSUME ProbeIInv, NEW o \in Prober, NEW r, HasNonce(r), probe' = [probe EXCEPT ![o] = r],
         DOMAIN canary' = Nonce, cleaned' \subseteq Nonce,
         \A n \in cleaned' : canary'[n] = "none"
  PROVE  ProbeIInv'
BY DEF ProbeIInv, Probing!CleanedStaysClean, HasNonce

LEMMA NonceKept ==
  ASSUME NEW r, HasNonce(r), r # Probing!Out, NEW where
  PROVE  HasNonce([r EXCEPT !.at = where])
BY DEF HasNonce

\* A correction that finds no rows makes none.
LEMMA CorrectionInv ==
  ASSUME ProbeIInv, NEW n, canary' = [canary EXCEPT ![n] = Probing!Corrected(canary[n])],
         cleaned' = cleaned
  PROVE  /\ DOMAIN canary' = Nonce /\ cleaned' \subseteq Nonce
         /\ \A m \in cleaned' : canary'[m] = "none"
BY DEF ProbeIInv, Probing!CleanedStaysClean, Probing!Corrected

\* A removal leaves no rows.
LEMMA RemovalInv ==
  ASSUME ProbeIInv, NEW n \in Nonce, Probing!Removed(n)
  PROVE  /\ DOMAIN canary' = Nonce /\ cleaned' \subseteq Nonce
         /\ \A m \in cleaned' : canary'[m] = "none"
BY DEF ProbeIInv, Probing!CleanedStaysClean, Probing!Removed

LEMMA ProbeStepInv ==
  ASSUME ProbeIInv, NEW o \in Prober,
         \/ \E n \in Nonce : Probing!Baseline(o, n) \/ Probing!CleanUpOnly(o, n)
         \/ Probing!Seed(o) \/ Probing!Contend(o) \/ Probing!Correct(o) \/ Probing!Verify(o)
         \/ Probing!CleanUp(o) \/ Probing!Compare(o) \/ Probing!GiveUp(o)
  PROVE  ProbeIInv'
<1> USE DEF Probing!Moves, Probing!Says
<1>1. ASSUME UNCHANGED <<canary, cleaned>>
      PROVE  /\ DOMAIN canary' = Nonce /\ cleaned' \subseteq Nonce
             /\ \A m \in cleaned' : canary'[m] = "none"
  BY <1>1 DEF ProbeIInv, Probing!CleanedStaysClean
<1>2. HasNonce(probe[o]) BY DEF ProbeIInv
<1>3. HasNonce(Probing!Out) BY DEF HasNonce
<1>4. ASSUME NEW where, probe[o].at = where, where # "out"
      PROVE  "nonce" \in DOMAIN probe[o] /\ probe[o].nonce \in Nonce
  BY <1>2, <1>4 DEF HasNonce, Probing!Out
<1>5. PICK out : out = Probing!Out OBVIOUS
<1>6. ASSUME NEW n \in Nonce, Probing!Baseline(o, n) PROVE ProbeIInv'
  <2>1. PICK r : r = [at |-> "seed", nonce |-> n, before |-> Probing!GlobalCounts,
                      sent |-> 0, won |-> 0, replayed |-> 0]
    OBVIOUS
  <2>2. HasNonce(r) BY <2>1 DEF HasNonce
  <2>3. probe' = [probe EXCEPT ![o] = r] BY <1>6, <2>1 DEF Probing!Baseline
  <2> QED BY <1>1, <1>6, <2>2, <2>3, ProbeMove DEF Probing!Baseline
<1>7. ASSUME NEW n \in Nonce, Probing!CleanUpOnly(o, n) PROVE ProbeIInv'
  BY <1>3, <1>5, <1>7, RemovalInv, ProbeMove DEF Probing!CleanUpOnly
<1>8. CASE Probing!Seed(o)
  <2>1. PICK r : r = [probe[o] EXCEPT !.at = "prove"] OBVIOUS
  <2>2. HasNonce(r) BY <1>4, <1>8, <2>1 DEF HasNonce, Probing!Seed
  <2>3. /\ DOMAIN canary' = Nonce /\ cleaned' \subseteq Nonce
        /\ \A m \in cleaned' : canary'[m] = "none"
    BY <1>8 DEF ProbeIInv, Probing!CleanedStaysClean, Probing!Seed
  <2>4. probe' = [probe EXCEPT ![o] = r] BY <1>8, <2>1 DEF Probing!Seed
  <2> QED BY <2>2, <2>3, <2>4, ProbeMove
<1>9. CASE Probing!Contend(o)
  <2>1. PICK r : r = [probe[o] EXCEPT !.at = "contend", !.sent = Contenders] OBVIOUS
  <2>2. HasNonce(r) BY <1>4, <1>9, <2>1 DEF HasNonce, Probing!Contend
  <2>3. probe' = [probe EXCEPT ![o] = r] BY <1>9, <2>1 DEF Probing!Contend, ProbeIInv
  <2> QED BY <1>1, <1>9, <2>2, <2>3, ProbeMove DEF Probing!Contend
<1>10. CASE Probing!Correct(o)
  <2>1. PICK n : n = probe[o].nonce OBVIOUS
  <2>2. PICK r : r = [probe[o] EXCEPT
                        !.sent = @ - 1,
                        !.won = IF canary[n] = "seeded" THEN @ + 1 ELSE @,
                        !.replayed = IF canary[n] = "corrected" THEN @ + 1 ELSE @]
    OBVIOUS
  <2>3. HasNonce(r) BY <1>4, <1>10, <2>2 DEF HasNonce, Probing!Correct
  <2>4. /\ canary' = [canary EXCEPT ![n] = Probing!Corrected(canary[n])]
        /\ cleaned' = cleaned
    BY <1>10, <2>1 DEF Probing!Correct
  <2>5. probe' = [probe EXCEPT ![o] = r] BY <1>10, <2>1, <2>2 DEF Probing!Correct, ProbeIInv
  <2> QED BY <2>3, <2>4, <2>5, CorrectionInv, ProbeMove
<1>11. CASE Probing!Verify(o)
  <2>1. PICK r : r = [probe[o] EXCEPT !.at = "clean"] OBVIOUS
  <2>2. HasNonce(r) BY <1>4, <1>11, <2>1 DEF HasNonce, Probing!Verify
  <2> QED BY <1>1, <1>11, <2>1, <2>2, ProbeMove DEF Probing!Verify
<1>12. CASE Probing!CleanUp(o)
  <2>1. PICK r : r = [probe[o] EXCEPT !.at = "count"] OBVIOUS
  <2>2. HasNonce(r) /\ probe[o].nonce \in Nonce
    BY <1>4, <1>12, <2>1 DEF HasNonce, Probing!CleanUp
  <2>3. PICK n : n = probe[o].nonce OBVIOUS
  <2>4. /\ DOMAIN canary' = Nonce /\ cleaned' \subseteq Nonce
        /\ \A m \in cleaned' : canary'[m] = "none"
    BY <1>12, <2>2, <2>3, RemovalInv DEF Probing!CleanUp
  <2> QED BY <1>12, <2>1, <2>2, <2>4, ProbeMove DEF Probing!CleanUp
<1>13. CASE Probing!Compare(o) \/ Probing!GiveUp(o)
  BY <1>1, <1>3, <1>5, <1>13, ProbeMove DEF Probing!Compare, Probing!GiveUp
<1> QED BY <1>6, <1>7, <1>8, <1>9, <1>10, <1>11, <1>12, <1>13

LEMMA ProbeNextInv ==
  ASSUME ProbeIInv, Probing!ProbeNext \/ UNCHANGED probing
  PROVE  ProbeIInv'
<1>1. CASE UNCHANGED probing \/ Probing!Visit
  BY <1>1 DEF ProbeIInv, Probing!CleanedStaysClean, HasNonce, probing, Probing!Visit
<1>2. ASSUME NEW n \in Nonce, Probing!OrphanCommits(n) \/ Probing!OrphanAborts(n)
      PROVE  ProbeIInv'
  <2>1. CASE Probing!OrphanCommits(n)
    BY <2>1, CorrectionInv DEF ProbeIInv, Probing!CleanedStaysClean, HasNonce,
                               Probing!OrphanCommits
  <2>2. CASE Probing!OrphanAborts(n)
    BY <2>2 DEF ProbeIInv, Probing!CleanedStaysClean, HasNonce, Probing!OrphanAborts
  <2> QED BY <1>2, <2>1, <2>2
<1> QED BY <1>1, <1>2, ProbeStepInv DEF Probing!ProbeNext

\* What a probe or --cleanup removed does not come back before it is seeded again, whatever
\* corrections are still in flight and whoever else probes (h2-crdb-live-probe).
THEOREM RemovedForGood == ToolingSpec => []CleanedStaysClean
<1>1. ToolingInit => ProbeIInv BY ProbeInitInv DEF ToolingInit
<1>2. ProbeIInv /\ [ToolingNext]_toolingVars => ProbeIInv'
  BY ProbeNextInv DEF ToolingNext, Probe, toolingVars
<1>3. ProbeIInv => CleanedStaysClean BY DEF ProbeIInv, CleanedStaysClean
<1> QED BY <1>1, <1>2, <1>3, PTL DEF ToolingSpec

(***************************************************************************)
(* The verifiers of the migrations (MigrationVerifier).                    *)
(***************************************************************************)

\* The files a verifier reads, by their places in its order.
Nth(j) == Verifying!Reads[verifier][j]
Places == DOMAIN Verifying!Reads[verifier]
Count == Verifying!Len(Verifying!Reads[verifier])

LEMMA ReadsFacts ==
  ASSUME verifier \in Verifying!Verifier
  PROVE  /\ Count \in 1 .. 2 /\ Places = 1 .. Count
         /\ \A j \in Places : Nth(j) \in Verifying!File
         /\ \A i, j \in Places : Nth(i) = Nth(j) => i = j
<1> USE DEF Verifying!Reads, Places, Count, Nth, Verifying!File
<1>1. CASE verifier = "c03" BY <1>1
<1>2. CASE verifier = "c04_purpose" BY <1>2
<1>3. CASE verifier = "c04_role" BY <1>3
<1>4. CASE verifier = "c05" BY <1>4
<1>5. CASE verifier = "c06" BY <1>5
<1>6. CASE verifier = "h2" BY <1>6
<1>7. CASE verifier = "live" BY <1>7
<1> QED BY <1>1, <1>2, <1>3, <1>4, <1>5, <1>6, <1>7 DEF Verifying!Verifier

Reading == {"look", "open", "read", "after", "check"}
Finishing == {"recheck", "relist", "passed"}
Byte == {"none", "reviewed", "alike", "other"}
Sheet == [inode : Nat, version : Nat, bytes : Byte, regular : BOOLEAN]

\* What was read is acceptable; it is what stands there while the version stays the one
\* seen before the read; and that is no older than C03's snapshot.
Judged(f) == got[f] \in IF verifier = "h2" THEN {"reviewed", "alike"} ELSE {"reviewed"}
Held(f) == verifier \in Verifying!Guarded /\ disk[f].version = seen[f] => got[f] = disk[f].bytes
Since(f) == verifier = "c03" => initial.files[f] <= seen[f]
Through(f) ==
  Judged(f) /\ Held(f) /\ Since(f) /\ (verifier \in Verifying!Relooks => last[f] = "reviewed")

VerifyTypes ==
  /\ verifier \in Verifying!Verifier /\ edits \in Nat
  /\ disk \in [Verifying!File -> Sheet] /\ handle \in Sheet
  /\ seen \in [Verifying!File -> Nat] /\ initial \in [files : [Verifying!File -> Nat], listing : Nat]
  /\ got \in [Verifying!File -> Byte] /\ last \in [Verifying!File -> Byte]
  /\ listed \in [reviewed : BOOLEAN, version : Nat]
  /\ step \in [at : {"snapshot", "list", "failed"} \cup Reading \cup Finishing, file : 1 .. 2]
  /\ step.file \in Places
  /\ step.at \in {"snapshot", "list"} => step.file = 1

\* Versions grow, and no two files of one name have the same.
VersionsGrow ==
  \A f \in Verifying!File :
    disk[f].version <= edits + 1 /\ seen[f] <= disk[f].version /\ initial.files[f] <= disk[f].version

AtCurrent ==
  LET f == Nth(step.file)
  IN  /\ step.at \in {"open", "read", "after", "check"} => Since(f)
      /\ step.at = "read" /\ verifier \in Verifying!Guarded =>
           handle.version = seen[f] /\ (disk[f].version = seen[f] => disk[f] = handle)
      /\ step.at \in {"after", "check"} => Held(f)
      /\ step.at = "check" /\ verifier \in Verifying!Relooks => last[f] = got[f]

AllThrough ==
  /\ step.at \in Reading => \A j \in 1 .. step.file - 1 : Through(Nth(j))
  /\ step.at \in Finishing => \A j \in Places : Through(Nth(j))

LookedAgain ==
  verifier \in Verifying!Rechecks =>
    /\ step.at = "recheck" => \A j \in 1 .. step.file - 1 : last[Nth(j)] = "reviewed"
    /\ step.at \in {"relist", "passed"} => \A j \in Places : last[Nth(j)] = "reviewed"

\* Only the scripts that look at all files again at the end come to these.
OnlyRechecks ==
  /\ step.at \in {"recheck", "relist"} => verifier \in Verifying!Rechecks
  /\ step.at \in {"snapshot"} => verifier = "c03"

VerifyIInv ==
  VerifyTypes /\ VersionsGrow /\ AtCurrent /\ AllThrough /\ LookedAgain /\ OnlyRechecks

LEMMA VerifyInitInv == Verifying!VerifierInit => VerifyIInv
<1> SUFFICES ASSUME Verifying!VerifierInit PROVE VerifyIInv
  OBVIOUS
<1> USE DEF Verifying!VerifierInit
<1>1. verifier \in Verifying!Verifier OBVIOUS
<1>2. 1 \in Places BY <1>1, ReadsFacts
<1>3. step.file = 1 /\ step.at \in {"snapshot", "list", "look", "open"}
  BY DEF Verifying!FirstCall
<1>4. step.at = "snapshot" => verifier = "c03" BY DEF Verifying!FirstCall
<1>5. step.at = "open" => verifier # "c03"
  BY DEF Verifying!FirstCall, Verifying!Looks, Verifying!Verifier
<1>6. VerifyTypes
  <2>1. step \in [at : {"snapshot", "list", "look", "open"}, file : {1}]
    BY DEF Verifying!FirstCall
  <2>2. step \in [at : {"snapshot", "list", "failed"} \cup Reading \cup Finishing, file : 1 .. 2]
    BY <2>1 DEF Reading
  <2> QED BY <1>1, <1>2, <1>3, <2>2 DEF VerifyTypes, Sheet, Byte, Verifying!NotOpen
<1>7. VersionsGrow BY DEF VersionsGrow
<1>8. AtCurrent BY <1>3, <1>5 DEF AtCurrent, Since
<1>9. AllThrough /\ LookedAgain /\ OnlyRechecks
  BY <1>3, <1>4 DEF AllThrough, LookedAgain, OnlyRechecks, Reading, Finishing
<1> QED BY <1>6, <1>7, <1>8, <1>9 DEF VerifyIInv

\* The script that runs, and what it reads, do not change.
LEMMA SamePlan ==
  ASSUME verifier' = verifier
  PROVE  Places' = Places /\ Count' = Count /\ \A j : Nth(j)' = Nth(j)
BY DEF Places, Count, Nth

\* A check fails: the run is over.
LEMMA VerifyFailed ==
  ASSUME VerifyIInv, step' = [step EXCEPT !.at = "failed"], VerifyTypes', VersionsGrow'
  PROVE  VerifyIInv'
<1>1. step'.at = "failed" BY DEF VerifyIInv, VerifyTypes
<1> QED BY <1>1 DEF VerifyIInv, AtCurrent, AllThrough, LookedAgain, OnlyRechecks, Reading, Finishing

\* A step that leaves the files, and what is known of them, alone.
LEMMA ThroughKept ==
  ASSUME UNCHANGED <<verifier, disk, initial, seen, got, last>>, NEW f
  PROVE  Through(f)' <=> Through(f)
BY DEF Through, Judged, Held, Since

\* The first file is looked at, or opened, with none behind it.
LEMMA VerifyBegins ==
  ASSUME VerifyIInv, step.file = 1, step' = [step EXCEPT !.at = Verifying!FirstCall],
         VerifyTypes', VersionsGrow', verifier' = verifier
  PROVE  VerifyIInv'
<1>1. step'.at \in {"look", "open"} /\ step'.file = 1
  BY DEF VerifyIInv, VerifyTypes, Verifying!FirstCall
<1>2. step'.at = "open" => verifier' # "c03"
  BY <1>1 DEF VerifyIInv, VerifyTypes, Verifying!FirstCall, Verifying!Looks, Verifying!Verifier
<1>3. AtCurrent' BY <1>1, <1>2 DEF AtCurrent, Since
<1> QED BY <1>1, <1>3 DEF VerifyIInv, AllThrough, LookedAgain, OnlyRechecks, Reading, Finishing

\* The typed parts of a step whose label is one of the labels.
LEMMA LabelTyped ==
  ASSUME VerifyTypes, verifier' = verifier,
         NEW label \in {"failed"} \cup Reading \cup Finishing, step' = [step EXCEPT !.at = label]
  PROVE  /\ step'.at = label /\ step'.file = step.file
         /\ step' \in [at : {"snapshot", "list", "failed"} \cup Reading \cup Finishing, file : 1 .. 2]
         /\ step'.file \in Places'
         /\ step'.at \notin {"snapshot", "list"}
BY SamePlan DEF VerifyTypes, Reading, Finishing

LEMMA SnapshotInv ==
  ASSUME VerifyIInv, Verifying!Snapshot
  PROVE  VerifyIInv'
<1> USE DEF Verifying!Snapshot, Verifying!Fail, Verifying!Goto
<1>1. step.file = 1 /\ verifier = "c03" BY DEF VerifyIInv, VerifyTypes, OnlyRechecks
<1>2. initial' \in [files : [Verifying!File -> Nat], listing : Nat]
  <2>1. \A f \in Verifying!File : disk[f].version \in Nat BY DEF VerifyIInv, VerifyTypes, Sheet
  <2> QED BY <2>1 DEF VerifyIInv, VerifyTypes
<1>3. step' \in [at : {"snapshot", "list", "failed"} \cup Reading \cup Finishing, file : {1}]
  BY <1>1 DEF VerifyIInv, VerifyTypes
<1>4. VerifyTypes'
  <2>1. 1 \in Places' BY <1>1, SamePlan DEF VerifyIInv, VerifyTypes
  <2> QED BY <1>2, <1>3, <2>1 DEF VerifyIInv, VerifyTypes
<1>5. VersionsGrow'
  <2>1. \A f \in Verifying!File : disk[f].version \in Nat BY DEF VerifyIInv, VerifyTypes, Sheet
  <2>2. \A f \in Verifying!File : initial'.files[f] <= disk[f].version
    BY <2>1 DEF VerifyIInv, VersionsGrow
  <2> QED BY <2>2 DEF VerifyIInv, VersionsGrow
<1>6. step'.at \in {"list", "failed"} BY DEF VerifyIInv, VerifyTypes
<1> QED BY <1>4, <1>5, <1>6 DEF VerifyIInv, AtCurrent, AllThrough, LookedAgain, OnlyRechecks,
                              Reading, Finishing

LEMMA ListInv ==
  ASSUME VerifyIInv, Verifying!List
  PROVE  VerifyIInv'
<1> USE DEF Verifying!List, Verifying!Fail, Verifying!Goto
<1>1. step.file = 1 BY DEF VerifyIInv, VerifyTypes
<1>2. PICK label : label = IF listed.reviewed THEN Verifying!FirstCall ELSE "failed" OBVIOUS
<1>3. label \in {"look", "open", "failed"} /\ step' = [step EXCEPT !.at = label]
  BY <1>2 DEF Verifying!FirstCall
<1>4. VerifyTypes'
  <2>1. label \in {"failed"} \cup Reading \cup Finishing BY <1>3 DEF Reading
  <2> QED BY <1>3, <2>1, LabelTyped DEF VerifyIInv, VerifyTypes
<1>5. VersionsGrow' BY DEF VerifyIInv, VersionsGrow
<1>6. CASE listed.reviewed BY <1>1, <1>4, <1>5, <1>6, VerifyBegins
<1>7. CASE ~listed.reviewed BY <1>4, <1>5, <1>7, VerifyFailed
<1> QED BY <1>6, <1>7

\* The file a call is about, and the files before it.
LEMMA CurrentFile ==
  ASSUME VerifyIInv
  PROVE  /\ Verifying!Current = Nth(step.file) /\ Nth(step.file) \in Verifying!File
         /\ step.file \in 1 .. Count /\ Count \in 1 .. 2
         /\ \A j \in 1 .. step.file - 1 : j \in Places /\ Nth(j) \in Verifying!File /\ Nth(j) # Nth(step.file)
<1>1. verifier \in Verifying!Verifier /\ step.file \in Places BY DEF VerifyIInv, VerifyTypes
<1>2. Count \in 1 .. 2 /\ Places = 1 .. Count BY <1>1, ReadsFacts
<1>3. \A j \in 1 .. step.file - 1 : j \in Places /\ j # step.file BY <1>1, <1>2
<1> QED BY <1>1, <1>2, <1>3, ReadsFacts DEF Verifying!Current, Nth

\* What is known of the files before the current one is not touched by a call about it.
LEMMA EarlierKept ==
  ASSUME VerifyIInv, UNCHANGED <<verifier, disk, initial>>, NEW f, f # Nth(step.file),
         seen'[f] = seen[f], got'[f] = got[f], last'[f] = last[f], Through(f)
  PROVE  Through(f)'
BY DEF Through, Judged, Held, Since

LEMMA EarlierThrough ==
  ASSUME VerifyIInv, UNCHANGED <<verifier, disk, initial>>, step.at \in Reading,
         \A g \in Verifying!File : g # Nth(step.file) =>
           seen'[g] = seen[g] /\ got'[g] = got[g] /\ last'[g] = last[g]
  PROVE  \A j \in 1 .. step.file - 1 : Through(Nth(j))'
<1> SUFFICES ASSUME NEW j \in 1 .. step.file - 1 PROVE Through(Nth(j))'
  OBVIOUS
<1>1. PICK g : g = Nth(j) OBVIOUS
<1>2. g \in Verifying!File /\ g # Nth(step.file) /\ Through(g)
  BY <1>1, CurrentFile DEF VerifyIInv, AllThrough
<1>3. Through(g)' BY <1>2, EarlierKept
<1> QED BY <1>1, <1>3 DEF Nth

LEMMA LookInv ==
  ASSUME VerifyIInv, Verifying!Look
  PROVE  VerifyIInv'
<1> USE DEF Verifying!Look, Verifying!Fail, Verifying!Goto
<1>1. PICK f : f = Verifying!Current OBVIOUS
<1>2. f = Nth(step.file) /\ f \in Verifying!File BY <1>1, CurrentFile
<1>3. disk[f] \in Sheet BY <1>2 DEF VerifyIInv, VerifyTypes
<1>4. CASE ~disk[f].regular
  <2>1. VerifyTypes' BY <1>1, <1>4, LabelTyped DEF VerifyIInv, VerifyTypes
  <2>2. VersionsGrow' BY <1>1, <1>4 DEF VerifyIInv, VersionsGrow
  <2> QED BY <1>1, <1>4, <2>1, <2>2, VerifyFailed
<1>5. CASE disk[f].regular
  <2>1. /\ step' = [step EXCEPT !.at = "open"]
        /\ seen' = [seen EXCEPT ![f] = disk[f].version]
        /\ last' = [last EXCEPT ![f] = disk[f].bytes]
    BY <1>1, <1>5
  <2>2. step'.at = "open" /\ step'.file = step.file
    BY <2>1 DEF VerifyIInv, VerifyTypes
  <2>3. VerifyTypes'
    <3>1. "open" \in {"failed"} \cup Reading \cup Finishing BY DEF Reading
    <3>2. seen' \in [Verifying!File -> Nat] /\ last' \in [Verifying!File -> Byte]
      BY <1>3, <2>1 DEF VerifyIInv, VerifyTypes, Sheet
    <3> QED BY <2>1, <3>1, <3>2, LabelTyped DEF VerifyIInv, VerifyTypes
  <2>4. VersionsGrow'
    <3>1. \A g \in Verifying!File : disk[g].version \in Nat BY DEF VerifyIInv, VerifyTypes, Sheet
    <3> QED BY <2>1, <3>1 DEF VerifyIInv, VersionsGrow, VerifyTypes
  <2>5. Nth(step.file)' = f BY <1>2, <2>2, SamePlan DEF Nth
  <2>6. AtCurrent'
    <3>1. Since(f)'
      <4>1. seen'[f] = disk[f].version BY <1>2, <2>1 DEF VerifyIInv, VerifyTypes
      <4> QED BY <1>2, <4>1 DEF Since, VerifyIInv, VersionsGrow
    <3> QED BY <2>2, <2>5, <3>1 DEF AtCurrent
  <2>7. AllThrough'
    <3>1. \A j \in 1 .. step.file - 1 : Through(Nth(j))'
      BY <1>2, <2>1, EarlierThrough DEF Reading
    <3> QED BY <2>2, <3>1 DEF AllThrough, Finishing
  <2> QED BY <2>2, <2>3, <2>4, <2>6, <2>7 DEF VerifyIInv, LookedAgain, OnlyRechecks
<1> QED BY <1>4, <1>5

LEMMA OpenInv ==
  ASSUME VerifyIInv, Verifying!Open
  PROVE  VerifyIInv'
<1> USE DEF Verifying!Open, Verifying!Fail, Verifying!Goto
<1>1. PICK f : f = Verifying!Current OBVIOUS
<1>2. f = Nth(step.file) /\ f \in Verifying!File BY <1>1, CurrentFile
<1>3. disk[f] \in Sheet BY <1>2 DEF VerifyIInv, VerifyTypes
<1>4. VersionsGrow' BY DEF VerifyIInv, VersionsGrow
<1> DEFINE Found == /\ disk[f].regular \/ verifier \notin Verifying!Looks
                    /\ verifier \in Verifying!Guarded => disk[f].version = seen[f]
<1>5. CASE ~Found
  <2>1. step' = [step EXCEPT !.at = "failed"] /\ handle' = handle BY <1>1, <1>5
  <2>2. VerifyTypes' BY <2>1, LabelTyped DEF VerifyIInv, VerifyTypes
  <2> QED BY <1>4, <2>1, <2>2, VerifyFailed
<1>6. CASE Found
  <2>1. step' = [step EXCEPT !.at = "read"] /\ handle' = disk[f] BY <1>1, <1>6
  <2>2. step'.at = "read" /\ step'.file = step.file BY <2>1 DEF VerifyIInv, VerifyTypes
  <2>3. VerifyTypes'
    <3>1. "read" \in {"failed"} \cup Reading \cup Finishing BY DEF Reading
    <3> QED BY <1>3, <2>1, <3>1, LabelTyped DEF VerifyIInv, VerifyTypes
  <2>4. Nth(step.file)' = f BY <1>2, <2>2, SamePlan DEF Nth
  <2>5. AtCurrent'
    <3>1. Since(f)' BY <1>2 DEF Since, VerifyIInv, AtCurrent
    <3>2. verifier' \in Verifying!Guarded => handle'.version = seen'[f] BY <1>6, <2>1
    <3> QED BY <2>1, <2>2, <2>4, <3>1, <3>2 DEF AtCurrent
  <2>6. AllThrough'
    <3>1. \A j \in 1 .. step.file - 1 : Through(Nth(j))' BY EarlierThrough DEF Reading
    <3> QED BY <2>2, <3>1 DEF AllThrough, Finishing
  <2> QED BY <1>4, <2>2, <2>3, <2>5, <2>6 DEF VerifyIInv, LookedAgain, OnlyRechecks
<1> QED BY <1>5, <1>6

\* What is read is what stands there if the version stayed that of the look before.
LEMMA ReadInv ==
  ASSUME VerifyIInv, Verifying!Read
  PROVE  VerifyIInv'
<1> USE DEF Verifying!Read, Verifying!Goto
<1>1. PICK f : f = Verifying!Current OBVIOUS
<1>2. f = Nth(step.file) /\ f \in Verifying!File BY <1>1, CurrentFile
<1>3. PICK h : h = IF disk[f].inode = handle.inode THEN disk[f] ELSE handle OBVIOUS
<1>4. h \in Sheet BY <1>2, <1>3 DEF VerifyIInv, VerifyTypes
<1>5. /\ step' = [step EXCEPT !.at = "after"] /\ handle' = h
      /\ got' = [got EXCEPT ![f] = h.bytes]
  BY <1>1, <1>3 DEF Verifying!Opened
<1>6. step'.at = "after" /\ step'.file = step.file BY <1>5 DEF VerifyIInv, VerifyTypes
<1>7. VerifyTypes'
  <2>1. "after" \in {"failed"} \cup Reading \cup Finishing BY DEF Reading
  <2>2. got' \in [Verifying!File -> Byte] BY <1>4, <1>5 DEF VerifyIInv, VerifyTypes, Sheet
  <2> QED BY <1>4, <1>5, <2>1, <2>2, LabelTyped DEF VerifyIInv, VerifyTypes
<1>8. VersionsGrow' BY DEF VerifyIInv, VersionsGrow
<1>9. Nth(step.file)' = f BY <1>2, <1>6, SamePlan DEF Nth
<1>10. AtCurrent'
  <2>1. Since(f)' BY <1>2 DEF Since, VerifyIInv, AtCurrent
  <2>2. verifier \in Verifying!Guarded /\ disk[f].version = seen[f] => h = disk[f]
    BY <1>2, <1>3 DEF VerifyIInv, AtCurrent
  <2>3. got'[f] = h.bytes BY <1>2, <1>5 DEF VerifyIInv, VerifyTypes
  <2>4. Held(f)' BY <2>2, <2>3 DEF Held
  <2> QED BY <1>6, <1>9, <2>1, <2>4 DEF AtCurrent
<1>11. AllThrough'
  <2>1. \A j \in 1 .. step.file - 1 : Through(Nth(j))'
    BY <1>2, <1>5, EarlierThrough DEF Reading
  <2> QED BY <1>6, <2>1 DEF AllThrough, Finishing
<1> QED BY <1>6, <1>7, <1>8, <1>10, <1>11 DEF VerifyIInv, LookedAgain, OnlyRechecks

LEMMA AfterInv ==
  ASSUME VerifyIInv, Verifying!After
  PROVE  VerifyIInv'
<1> USE DEF Verifying!After, Verifying!Goto, Verifying!Fail
<1>1. PICK f : f = Verifying!Current OBVIOUS
<1>2. f = Nth(step.file) /\ f \in Verifying!File BY <1>1, CurrentFile
<1>3. VersionsGrow' BY DEF VerifyIInv, VersionsGrow
<1>4. handle' \in Sheet BY DEF Verifying!NotOpen, Sheet, Byte
<1> DEFINE Same == /\ Verifying!SameHandle
                   /\ verifier \in Verifying!Relooks => Verifying!SamePath(f, seen[f])
<1>5. CASE ~Same
  <2>1. step' = [step EXCEPT !.at = "failed"] /\ last' = last BY <1>1, <1>5
  <2>2. VerifyTypes' BY <1>4, <2>1, LabelTyped DEF VerifyIInv, VerifyTypes
  <2> QED BY <1>3, <2>1, <2>2, VerifyFailed
<1>6. CASE Same
  <2>1. /\ step' = [step EXCEPT !.at = "check"]
        /\ verifier \in Verifying!Relooks => last' = [last EXCEPT ![f] = disk[f].bytes]
        /\ verifier \notin Verifying!Relooks => last' = last
    BY <1>1, <1>6
  <2>2. step'.at = "check" /\ step'.file = step.file BY <2>1 DEF VerifyIInv, VerifyTypes
  <2>3. VerifyTypes'
    <3>1. "check" \in {"failed"} \cup Reading \cup Finishing BY DEF Reading
    <3>2. disk[f].bytes \in Byte BY <1>2 DEF VerifyIInv, VerifyTypes, Sheet
    <3>3. last' \in [Verifying!File -> Byte] BY <1>2, <2>1, <3>2 DEF VerifyIInv, VerifyTypes
    <3> QED BY <1>4, <2>1, <3>1, <3>3, LabelTyped DEF VerifyIInv, VerifyTypes
  <2>4. Nth(step.file)' = f BY <1>2, <2>2, SamePlan DEF Nth
  <2>5. AtCurrent'
    <3>1. Since(f)' BY <1>2 DEF Since, VerifyIInv, AtCurrent
    <3>2. Held(f) BY <1>2 DEF VerifyIInv, AtCurrent
    <3>3. Held(f)' BY <3>2 DEF Held
    <3>4. ASSUME verifier \in Verifying!Relooks PROVE last'[f] = got[f]
      <4>1. disk[f].version = seen[f] BY <1>6, <3>4 DEF Verifying!SamePath
      <4>2. verifier \in Verifying!Guarded
        BY <3>4 DEF Verifying!Relooks, Verifying!Guarded, Verifying!Verifier
      <4>3. last'[f] = disk[f].bytes BY <1>2, <2>1, <3>4 DEF VerifyIInv, VerifyTypes
      <4> QED BY <3>2, <4>1, <4>2, <4>3 DEF Held
    <3> QED BY <2>2, <2>4, <3>1, <3>3, <3>4 DEF AtCurrent
  <2>6. AllThrough'
    <3>1. \A g \in Verifying!File : g # f => last'[g] = last[g]
      <4>1. CASE verifier \in Verifying!Relooks BY <1>2, <2>1, <4>1 DEF VerifyIInv, VerifyTypes
      <4>2. CASE verifier \notin Verifying!Relooks BY <2>1, <4>2
      <4> QED BY <4>1, <4>2
    <3>2. \A j \in 1 .. step.file - 1 : Through(Nth(j))'
      BY <1>2, <3>1, EarlierThrough DEF Reading
    <3> QED BY <2>2, <3>2 DEF AllThrough, Finishing
  <2> QED BY <1>3, <2>2, <2>3, <2>5, <2>6 DEF VerifyIInv, LookedAgain, OnlyRechecks
<1> QED BY <1>5, <1>6

\* A file that passes its check is through, with those before it.
LEMMA CheckedThrough ==
  ASSUME VerifyIInv, step.at = "check", NEW f, f = Verifying!Current,
         IF f = "event.schema" THEN Verifying!Binds(got[f]) ELSE Verifying!Accepts(got[f])
  PROVE  \A j \in 1 .. step.file : Through(Nth(j))
<1>1. f = Nth(step.file) /\ step.file \in 1 .. Count /\ Count \in 1 .. 2 BY CurrentFile
<1>2. Held(f) /\ Since(f) /\ (verifier \in Verifying!Relooks => last[f] = got[f])
  BY <1>1 DEF VerifyIInv, AtCurrent
<1>3. Judged(f) BY DEF Verifying!Binds, Verifying!Accepts, Judged
<1>4. verifier \in Verifying!Relooks => verifier # "h2" BY DEF Verifying!Relooks
<1>5. Through(f) BY <1>2, <1>3, <1>4 DEF Through, Judged
<1>6. \A j \in 1 .. step.file - 1 : Through(Nth(j)) BY DEF VerifyIInv, AllThrough, Reading
<1>7. \A j \in 1 .. step.file : j = step.file \/ j \in 1 .. step.file - 1 BY <1>1
<1> QED BY <1>1, <1>5, <1>6, <1>7

LEMMA CheckInv ==
  ASSUME VerifyIInv, Verifying!Check
  PROVE  VerifyIInv'
<1> USE DEF Verifying!Check, Verifying!Goto, Verifying!Fail
<1>1. PICK f : f = Verifying!Current OBVIOUS
<1>2. VersionsGrow' BY DEF VerifyIInv, VersionsGrow
<1> DEFINE Fine == IF f = "event.schema" THEN Verifying!Binds(got[f]) ELSE Verifying!Accepts(got[f])
<1>3. CASE ~Fine
  <2>1. step' = [step EXCEPT !.at = "failed"] BY <1>1, <1>3
  <2>2. VerifyTypes' BY <2>1, LabelTyped DEF VerifyIInv, VerifyTypes
  <2> QED BY <1>2, <2>1, <2>2, VerifyFailed
<1>4. step.file \in 1 .. Count /\ Count \in 1 .. 2 /\ Places = 1 .. Count /\ Places' = Places
  BY CurrentFile, ReadsFacts, SamePlan DEF VerifyIInv, VerifyTypes
<1>5. ASSUME Fine PROVE \A j \in 1 .. step.file : Through(Nth(j))'
  <2> SUFFICES ASSUME NEW j \in 1 .. step.file PROVE Through(Nth(j))'
    OBVIOUS
  <2>1. PICK g : g = Nth(j) OBVIOUS
  <2>2. Through(g) BY <1>1, <1>5, <2>1, CheckedThrough
  <2>3. Through(g)' BY <2>2, ThroughKept
  <2> QED BY <2>1, <2>3 DEF Nth
<1>6. CASE Fine /\ step.file < Count
  <2>1. step' = [at |-> Verifying!FirstCall, file |-> step.file + 1] BY <1>1, <1>6 DEF Count
  <2>2. step'.at \in {"look", "open"} /\ step'.file = step.file + 1
    BY <2>1 DEF Verifying!FirstCall
  <2>3. step'.at = "open" => verifier # "c03"
    BY <2>1 DEF VerifyIInv, VerifyTypes, Verifying!FirstCall, Verifying!Looks, Verifying!Verifier
  <2>4. VerifyTypes'
    <3>1. step'.file \in 1 .. 2 /\ step'.file \in Places' BY <1>4, <1>6, <2>2
    <3>2. step' \in [at : {"snapshot", "list", "failed"} \cup Reading \cup Finishing, file : 1 .. 2]
      <4>1. Verifying!FirstCall \in {"look", "open"} BY DEF Verifying!FirstCall
      <4> QED BY <2>1, <2>2, <3>1, <4>1 DEF Reading
    <3> QED BY <2>2, <3>1, <3>2 DEF VerifyIInv, VerifyTypes
  <2>5. AtCurrent' BY <2>2, <2>3 DEF AtCurrent, Since
  <2>6. AllThrough'
    <3>1. 1 .. step'.file - 1 = 1 .. step.file BY <1>4, <2>2
    <3> QED BY <1>5, <1>6, <2>2, <3>1 DEF AllThrough, Finishing
  <2> QED BY <1>2, <2>2, <2>4, <2>5, <2>6 DEF VerifyIInv, LookedAgain, OnlyRechecks
<1>7. CASE Fine /\ ~(step.file < Count)
  <2>1. step' = [at |-> IF verifier \in Verifying!Rechecks THEN "recheck" ELSE "passed", file |-> 1]
    BY <1>1, <1>7 DEF Count
  <2>2. /\ step'.file = 1 /\ step'.at \in {"recheck", "passed"}
        /\ step'.at = "recheck" <=> verifier \in Verifying!Rechecks
    BY <2>1
  <2>3. VerifyTypes'
    <3>1. step' \in [at : {"recheck", "passed"}, file : {1}] BY <2>1
    <3>2. step' \in [at : {"snapshot", "list", "failed"} \cup Reading \cup Finishing, file : 1 .. 2]
      BY <3>1 DEF Finishing
    <3> QED BY <1>4, <2>2, <3>2 DEF VerifyIInv, VerifyTypes
  <2>4. step.file = Count BY <1>4, <1>7
  <2>5. AllThrough' BY <1>4, <1>5, <1>7, <2>2, <2>4 DEF AllThrough, Reading
  <2>6. AtCurrent' BY <2>2 DEF AtCurrent
  <2>7. LookedAgain' BY <2>2 DEF LookedAgain
  <2> QED BY <1>2, <2>2, <2>3, <2>5, <2>6, <2>7 DEF VerifyIInv, OnlyRechecks
<1> QED BY <1>3, <1>6, <1>7

\* The bytes found at the last look are the ones that were judged.
LEMMA RecheckInv ==
  ASSUME VerifyIInv, Verifying!Recheck
  PROVE  VerifyIInv'
<1> USE DEF Verifying!Recheck, Verifying!Goto, Verifying!Fail
<1>1. PICK f : f = Verifying!Current OBVIOUS
<1>2. f = Nth(step.file) /\ f \in Verifying!File BY <1>1, CurrentFile
<1>3. VersionsGrow' BY DEF VerifyIInv, VersionsGrow
<1>4. /\ step.file \in 1 .. Count /\ Count \in 1 .. 2 /\ Places = 1 .. Count
      /\ Places' = Places /\ verifier \in Verifying!Rechecks
  BY CurrentFile, ReadsFacts, SamePlan DEF VerifyIInv, VerifyTypes, OnlyRechecks
<1>5. CASE ~Verifying!SamePath(f, Verifying!Remembered)
  <2>1. step' = [step EXCEPT !.at = "failed"] /\ last' = last BY <1>1, <1>5
  <2>2. VerifyTypes' BY <2>1, LabelTyped DEF VerifyIInv, VerifyTypes
  <2> QED BY <1>3, <2>1, <2>2, VerifyFailed
<1>6. CASE Verifying!SamePath(f, Verifying!Remembered)
  <2>1. Through(f) BY <1>2, <1>4 DEF VerifyIInv, AllThrough, Finishing
  <2>2. disk[f].version = seen[f]
    <3>1. verifier # "c03" => disk[f].version = seen[f]
      BY <1>1, <1>6 DEF Verifying!SamePath, Verifying!Remembered
    <3>2. verifier = "c03" => disk[f].version = initial.files[f]
      BY <1>1, <1>6 DEF Verifying!SamePath, Verifying!Remembered
    <3>3. verifier = "c03" => initial.files[f] <= seen[f] BY <2>1 DEF Through, Since
    <3>4. seen[f] <= disk[f].version BY <1>2 DEF VerifyIInv, VersionsGrow
    <3>5. seen[f] \in Nat /\ disk[f].version \in Nat
      BY <1>2 DEF VerifyIInv, VerifyTypes, Sheet
    <3> QED BY <3>1, <3>2, <3>3, <3>4, <3>5
  <2>3. disk[f].bytes = "reviewed"
    <3>1. verifier \in Verifying!Guarded /\ verifier # "h2"
      BY <1>4 DEF Verifying!Rechecks, Verifying!Guarded, Verifying!Verifier
    <3> QED BY <2>1, <2>2, <3>1 DEF Through, Held, Judged
  <2>4. last' = [last EXCEPT ![f] = "reviewed"] BY <1>1, <1>6, <2>3
  <2>5. /\ last'[f] = "reviewed" /\ last' \in [Verifying!File -> Byte]
        /\ \A g : last[g] = "reviewed" /\ g \in Verifying!File => last'[g] = "reviewed"
    BY <1>2, <2>4 DEF VerifyIInv, VerifyTypes, Byte
  <2>6. ASSUME NEW j \in Places PROVE Through(Nth(j))'
    <3>1. PICK g : g = Nth(j) OBVIOUS
    <3>2. Through(g) /\ g \in Verifying!File
      BY <3>1, ReadsFacts DEF VerifyIInv, VerifyTypes, AllThrough, Finishing
    <3>3. Through(g)' BY <2>5, <3>2 DEF Through, Judged, Held, Since
    <3> QED BY <3>1, <3>3 DEF Nth
  <2>7. \A j \in 1 .. step.file : last'[Nth(j)] = "reviewed"
    <3>1. \A j \in 1 .. step.file - 1 : last[Nth(j)] = "reviewed" /\ Nth(j) \in Verifying!File
      BY <1>4, CurrentFile DEF VerifyIInv, LookedAgain
    <3>2. \A j \in 1 .. step.file : j = step.file \/ j \in 1 .. step.file - 1 BY <1>4
    <3> QED BY <1>2, <2>5, <3>1, <3>2
  <2>8. CASE step.file < Count
    <3>1. step' = [step EXCEPT !.file = step.file + 1] BY <1>1, <1>6, <2>8 DEF Count
    <3>2. step'.at = "recheck" /\ step'.file = step.file + 1
      BY <3>1 DEF VerifyIInv, VerifyTypes
    <3>3. VerifyTypes'
      <4>1. step.file + 1 \in 1 .. 2 /\ step.file + 1 \in Places' BY <1>4, <2>8
      <4>2. step' \in [at : {"snapshot", "list", "failed"} \cup Reading \cup Finishing, file : 1 .. 2]
        BY <3>1, <4>1 DEF VerifyIInv, VerifyTypes
      <4> QED BY <2>5, <3>2, <4>1, <4>2 DEF VerifyIInv, VerifyTypes
    <3>4. 1 .. step'.file - 1 = 1 .. step.file BY <1>4, <3>2
    <3>5. LookedAgain' BY <2>7, <3>2, <3>4 DEF LookedAgain, Nth
    <3>6. AllThrough' BY <1>4, <2>6, <3>2 DEF AllThrough, Reading
    <3> QED BY <1>3, <1>4, <3>2, <3>3, <3>5, <3>6 DEF VerifyIInv, AtCurrent, OnlyRechecks
  <2>9. CASE ~(step.file < Count)
    <3>1. step' = [step EXCEPT !.at = "relist"] BY <1>1, <1>6, <2>9 DEF Count
    <3>2. step'.at = "relist" /\ step'.file = step.file
      BY <3>1 DEF VerifyIInv, VerifyTypes
    <3>3. VerifyTypes' BY <2>5, <3>1, LabelTyped DEF VerifyIInv, VerifyTypes, Finishing
    <3>4. step.file = Count BY <1>4, <2>9
    <3>5. LookedAgain' BY <1>4, <2>7, <3>2, <3>4 DEF LookedAgain, Nth
    <3>6. AllThrough' BY <1>4, <2>6, <3>2 DEF AllThrough, Reading
    <3> QED BY <1>3, <1>4, <3>2, <3>3, <3>5, <3>6 DEF VerifyIInv, AtCurrent, OnlyRechecks
  <2> QED BY <2>8, <2>9
<1> QED BY <1>5, <1>6

LEMMA RelistInv ==
  ASSUME VerifyIInv, Verifying!Relist
  PROVE  VerifyIInv'
<1> USE DEF Verifying!Relist, Verifying!Goto, Verifying!Fail
<1>1. PICK label \in {"passed", "failed"} : step' = [step EXCEPT !.at = label] OBVIOUS
<1>2. VersionsGrow' BY DEF VerifyIInv, VersionsGrow
<1>3. VerifyTypes' BY <1>1, LabelTyped DEF VerifyIInv, VerifyTypes, Finishing
<1>4. CASE label = "failed" BY <1>1, <1>2, <1>3, <1>4, VerifyFailed
<1>5. CASE label = "passed"
  <2>1. step'.at = "passed" BY <1>1, <1>5 DEF VerifyIInv, VerifyTypes
  <2>2. Places' = Places /\ \A j : Nth(j)' = Nth(j) BY SamePlan
  <2>3. ASSUME NEW j \in Places PROVE Through(Nth(j))' /\ last'[Nth(j)'] = last[Nth(j)]
    <3>1. PICK g : g = Nth(j) OBVIOUS
    <3>2. Through(g) BY <3>1 DEF VerifyIInv, AllThrough, Finishing
    <3>3. Through(g)' BY <3>2, ThroughKept
    <3> QED BY <2>2, <3>1, <3>3 DEF Nth
  <2>4. AllThrough' BY <2>1, <2>2, <2>3 DEF AllThrough, Reading
  <2>5. LookedAgain'
    <3>1. verifier \in Verifying!Rechecks => \A j \in Places : last[Nth(j)] = "reviewed"
      BY DEF VerifyIInv, LookedAgain
    <3> QED BY <2>1, <2>2, <3>1 DEF LookedAgain
  <2> QED BY <1>2, <1>3, <2>1, <2>4, <2>5 DEF VerifyIInv, AtCurrent, OnlyRechecks
<1> QED BY <1>1, <1>4, <1>5

\* Somebody changes a file: its version is one that no look has seen.
LEMMA EditInv ==
  ASSUME VerifyIInv, NEW f \in Verifying!File, NEW inode \in Nat, NEW regular \in BOOLEAN,
         Verifying!Edit(f, inode, regular)
  PROVE  VerifyIInv'
<1> USE DEF Verifying!Edit
<1>1. PICK bytes1 \in {"reviewed", "alike", "other"} :
        disk' = [disk EXCEPT ![f] = [inode |-> inode, version |-> edits + 2, bytes |-> bytes1,
                                     regular |-> regular]]
  OBVIOUS
<1>2. PICK r : r = [inode |-> inode, version |-> edits + 2, bytes |-> bytes1, regular |-> regular]
  OBVIOUS
<1>3. disk' = [disk EXCEPT ![f] = r] BY <1>1, <1>2
<1>4. edits \in Nat BY DEF VerifyIInv, VerifyTypes
<1>5. r \in Sheet /\ r.version = edits + 2 BY <1>2, <1>4 DEF Sheet, Byte
<1>6. VerifyTypes'
  <2>1. disk' \in [Verifying!File -> Sheet] BY <1>3, <1>5 DEF VerifyIInv, VerifyTypes
  <2> QED BY <1>4, <2>1, SamePlan DEF VerifyIInv, VerifyTypes
<1>7. ASSUME NEW g \in Verifying!File
      PROVE  /\ disk'[g] = disk[g] \/ (g = f /\ disk'[g] = r)
             /\ seen[g] \in Nat /\ disk[g].version \in Nat /\ initial.files[g] \in Nat
             /\ disk[g].version <= edits + 1 /\ seen[g] <= disk[g].version
             /\ initial.files[g] <= disk[g].version
  BY <1>3 DEF VerifyIInv, VerifyTypes, Sheet, VersionsGrow
<1>8. VersionsGrow'
  <2> SUFFICES ASSUME NEW g \in Verifying!File
               PROVE  /\ disk'[g].version <= edits' + 1 /\ seen'[g] <= disk'[g].version
                      /\ initial'.files[g] <= disk'[g].version
    BY DEF VersionsGrow
  <2>1. edits' = edits + 1 /\ seen' = seen /\ initial' = initial OBVIOUS
  <2>2. disk'[g].version = disk[g].version \/ disk'[g].version = edits + 2 BY <1>5, <1>7
  <2> QED BY <1>4, <1>7, <2>1, <2>2
<1>9. ASSUME NEW g \in Verifying!File
      PROVE  disk'[g].version = seen[g] => disk'[g] = disk[g]
  <2>1. CASE disk'[g] = disk[g] BY <2>1
  <2>2. CASE disk'[g] = r
    <3>1. disk'[g].version # seen[g] BY <1>4, <1>5, <1>7, <2>2
    <3> QED BY <3>1
  <2> QED BY <1>7, <2>1, <2>2
<1>10. ASSUME NEW g \in Verifying!File, Through(g) PROVE Through(g)'
  BY <1>9, <1>10 DEF Through, Judged, Held, Since
<1>11. Places' = Places /\ \A j : Nth(j)' = Nth(j) BY SamePlan
<1>12. AllThrough'
  <2>1. ASSUME NEW j \in Places, Through(Nth(j)) PROVE Through(Nth(j))'
    <3>1. PICK g : g = Nth(j) OBVIOUS
    <3>2. g \in Verifying!File BY <3>1, ReadsFacts DEF VerifyIInv, VerifyTypes
    <3>3. Through(g)' BY <1>10, <2>1, <3>1, <3>2
    <3> QED BY <3>1, <3>3 DEF Nth
  <2>2. \A j \in 1 .. step.file - 1 : j \in Places BY CurrentFile
  <2> QED BY <1>11, <2>1, <2>2 DEF VerifyIInv, AllThrough
<1>13. AtCurrent'
  <2>1. PICK g : g = Nth(step.file) OBVIOUS
  <2>2. g \in Verifying!File /\ Nth(step.file)' = g BY <2>1, CurrentFile DEF Nth
  <2>3. /\ step.at \in {"open", "read", "after", "check"} => Since(g)
        /\ step.at = "read" /\ verifier \in Verifying!Guarded =>
             handle.version = seen[g] /\ (disk[g].version = seen[g] => disk[g] = handle)
        /\ step.at \in {"after", "check"} => Held(g)
        /\ step.at = "check" /\ verifier \in Verifying!Relooks => last[g] = got[g]
    BY <2>1 DEF VerifyIInv, AtCurrent
  <2>4. Held(g) => Held(g)' BY <1>9, <2>2 DEF Held
  <2>5. disk'[g].version = seen[g] => disk'[g] = disk[g] BY <1>9, <2>2
  <2>6. Since(g) => Since(g)' BY DEF Since
  <2> QED BY <2>2, <2>3, <2>4, <2>5, <2>6 DEF AtCurrent
<1>14. LookedAgain' BY <1>11 DEF VerifyIInv, LookedAgain
<1> QED BY <1>6, <1>8, <1>12, <1>13, <1>14 DEF VerifyIInv, OnlyRechecks

LEMMA RenameInv ==
  ASSUME VerifyIInv, Verifying!Rename
  PROVE  VerifyIInv'
<1> USE DEF Verifying!Rename
<1>1. VerifyTypes' BY SamePlan DEF VerifyIInv, VerifyTypes
<1>2. VersionsGrow'
  <2>1. \A g \in Verifying!File : disk[g].version \in Nat BY DEF VerifyIInv, VerifyTypes, Sheet
  <2> QED BY <2>1 DEF VerifyIInv, VersionsGrow, VerifyTypes
<1>3. AtCurrent' /\ AllThrough' /\ LookedAgain'
  BY SamePlan DEF VerifyIInv, AtCurrent, AllThrough, LookedAgain, Through, Judged, Held, Since,
                  Nth, Places
<1> QED BY <1>1, <1>2, <1>3 DEF VerifyIInv, OnlyRechecks

LEMMA VerifyNextInv ==
  ASSUME VerifyIInv, Verifying!VerifierNext \/ UNCHANGED verifying
  PROVE  VerifyIInv'
<1>1. CASE UNCHANGED verifying
  BY <1>1 DEF verifying, VerifyIInv, VerifyTypes, VersionsGrow, AtCurrent, AllThrough, LookedAgain,
              OnlyRechecks, Through, Judged, Held, Since, Nth, Places, Reading, Finishing
<1>2. ASSUME NEW i \in Places,
             \/ Verifying!Rewrite(Nth(i)) \/ Verifying!Replace(Nth(i)) \/ Verifying!Link(Nth(i))
      PROVE  VerifyIInv'
  <2>1. PICK f : f = Nth(i) OBVIOUS
  <2>2. f \in Verifying!File BY <2>1, ReadsFacts DEF VerifyIInv, VerifyTypes
  <2>3. disk[f].inode \in Nat /\ edits + 2 \in Nat BY <2>2 DEF VerifyIInv, VerifyTypes, Sheet
  <2>4. \E inode \in Nat, regular \in BOOLEAN : Verifying!Edit(f, inode, regular)
    BY <1>2, <2>1, <2>3 DEF Verifying!Rewrite, Verifying!Replace, Verifying!Link
  <2> QED BY <2>2, <2>4, EditInv
<1> QED
  BY <1>1, <1>2, SnapshotInv, ListInv, LookInv, OpenInv, ReadInv, AfterInv, CheckInv, RecheckInv,
     RelistInv, RenameInv DEF Verifying!VerifierNext, Nth, Places

\* Whoever edits, replaces or links the files in between, and however often, a verifier that
\* passes read reviewed bytes, and where it looks again they stood there at its last look.
THEOREM PassedSound == ToolingSpec => []PassedIsReviewed
<1>1. ToolingInit => VerifyIInv BY VerifyInitInv DEF ToolingInit
<1>2. VerifyIInv /\ [ToolingNext]_toolingVars => VerifyIInv'
  BY VerifyNextInv DEF ToolingNext, Verifies, toolingVars
<1>3. VerifyIInv => PassedIsReviewed
  <2> SUFFICES ASSUME VerifyIInv, step.at = "passed", NEW i \in Places
               PROVE  /\ Judged(Nth(i))
                      /\ verifier \in Verifying!Relooks \union Verifying!Rechecks =>
                           last[Nth(i)] = "reviewed"
    BY DEF PassedIsReviewed, Verifying!PassedIsReviewed, Judged, Nth, Places
  <2>1. Through(Nth(i)) BY DEF VerifyIInv, AllThrough, Finishing
  <2> QED BY <2>1 DEF Through, VerifyIInv, LookedAgain
<1> QED BY <1>1, <1>2, <1>3, PTL DEF ToolingSpec

(***************************************************************************)
(* The evidence writer (EvidenceWriter).                                   *)
(***************************************************************************)

\* The stages of an attempt: before its bytes are written, while they are on disk for good
\* and its temporary file is there, and from its publication on.
Blank == {"not started", "inspected", "listed", "opened", "noted"}
Whole == {"ready", "rechecked", "alone", "linked"}
Public == {"published", "unlinked", "cleaned", "created"}
Over == {"refused", "burned", "dead"}

EvidenceTypes ==
  /\ at \in [Creator -> Blank \cup {"written"} \cup Whole \cup Public \cup Over]
  /\ bytes \in [Creator -> {"none", "written", "synced", "torn"}]
  /\ temps \subseteq Creator /\ onDisk.temps \subseteq Creator /\ noted \subseteq Creator

\* What an attempt has written, and where its file is found.
AttemptOK ==
  \A w \in Creator :
    /\ at[w] \in Blank => bytes[w] = "none"
    /\ at[w] \in Whole \cup Public => bytes[w] = "synced"
    /\ at[w] \in {"opened", "noted", "written", "published"} \cup Whole => w \in temps
    /\ at[w] = "linked" => target = w
    /\ at[w] \in Public => target = w /\ onDisk.target = w

\* The name is taken once, and by whole bytes; on disk it is absent or the same.
TargetOK ==
  /\ onDisk.target \in {Nobody, target}
  /\ target \in Creator => bytes[target] = "synced"

\* An attempt that noted itself is found, before and after a power failure.
NotedOK ==
  \A w \in noted :
    (w \in temps /\ w \in onDisk.temps) \/ (target = w /\ onDisk.target = w)

EvidenceIInv == EvidenceTypes /\ AttemptOK /\ TargetOK /\ NotedOK

LEMMA EvidenceInitInv == Recording!EvidenceInit => EvidenceIInv
<1> SUFFICES ASSUME Recording!EvidenceInit PROVE EvidenceIInv
  OBVIOUS
<1> USE DEF Recording!EvidenceInit, Recording!NotStarted
<1>1. Nobody \notin Creator
  BY ToolsAssumption DEF Recording!EvidenceWriterAssumption, ToolsAssumption
<1>2. EvidenceTypes BY DEF EvidenceTypes, Blank
<1>3. AttemptOK BY DEF AttemptOK, Blank, Whole, Public
<1>4. TargetOK BY <1>1 DEF TargetOK
<1>5. NotedOK BY DEF NotedOK
<1> QED BY <1>2, <1>3, <1>4, <1>5 DEF EvidenceIInv

\* A step of one attempt that only looks.
LEMMA LookOnly ==
  ASSUME EvidenceIInv, NEW w \in Creator,
         \/ Recording!Inspect(w) \/ Recording!List(w) \/ Recording!Recheck(w)
         \/ Recording!Compete(w) \/ Recording!VerifyFinal(w)
  PROVE  EvidenceIInv'
<1> USE DEF Recording!Goes, Recording!NotStarted, EvidenceIInv, EvidenceTypes, AttemptOK,
            TargetOK, NotedOK, Blank, Whole, Public, Over
<1>1. CASE Recording!Inspect(w) BY <1>1 DEF Recording!Inspect
<1>2. CASE Recording!List(w) BY <1>2 DEF Recording!List
<1>3. CASE Recording!Recheck(w) BY <1>3 DEF Recording!Recheck
<1>4. CASE Recording!Compete(w) BY <1>4 DEF Recording!Compete
<1>5. CASE Recording!VerifyFinal(w) BY <1>5 DEF Recording!VerifyFinal
<1> QED BY <1>1, <1>2, <1>3, <1>4, <1>5

\* A step that writes the file or its names.
LEMMA WriteStep ==
  ASSUME EvidenceIInv, NEW w \in Creator,
         \/ Recording!OpenTemp(w) \/ Recording!NoteAttempt(w) \/ Recording!WriteBytes(w)
         \/ Recording!SyncBytes(w) \/ Recording!SyncPublication(w) \/ Recording!Unlink(w)
         \/ Recording!SyncCleanup(w)
  PROVE  EvidenceIInv'
<1> USE DEF Recording!Goes, Recording!SyncDirectory, EvidenceIInv, EvidenceTypes, AttemptOK,
            TargetOK, NotedOK, Blank, Whole, Public, Over
<1>1. CASE Recording!OpenTemp(w) BY <1>1 DEF Recording!OpenTemp
<1>2. CASE Recording!NoteAttempt(w) BY <1>2 DEF Recording!NoteAttempt
<1>3. CASE Recording!WriteBytes(w) BY <1>3 DEF Recording!WriteBytes
<1>4. CASE Recording!SyncBytes(w) BY <1>4 DEF Recording!SyncBytes
<1>5. CASE Recording!SyncPublication(w) BY <1>5 DEF Recording!SyncPublication
<1>6. CASE Recording!Unlink(w) BY <1>6 DEF Recording!Unlink
<1>7. CASE Recording!SyncCleanup(w) BY <1>7 DEF Recording!SyncCleanup
<1> QED BY <1>1, <1>2, <1>3, <1>4, <1>5, <1>6, <1>7

\* The name is taken, by an attempt that was alone and whole or by somebody else.
LEMMA TakeName ==
  ASSUME EvidenceIInv,
         \/ \E w \in Creator : Recording!Link(w) \/ Recording!Fail(w)
         \/ Recording!Intrude
  PROVE  EvidenceIInv'
<1> USE DEF EvidenceIInv
<1>1. Nobody \notin Creator /\ Recording!Somebody \notin Creator
  BY ToolsAssumption DEF ToolsAssumption, Recording!EvidenceWriterAssumption
<1>2. ASSUME NEW w \in Creator, Recording!Link(w) \/ Recording!Fail(w)
      PROVE  EvidenceIInv'
  <2>1. UNCHANGED <<temps, onDisk, bytes, noted>>
    BY <1>2 DEF Recording!Link, Recording!Fail
  <2>2. PICK s \in {"linked", "burned"} : at' = [at EXCEPT ![w] = s]
    BY <1>2 DEF Recording!Link, Recording!Fail, Recording!Goes
  <2>3. target' = target \/ (target = Nobody /\ at[w] = "alone" /\ target' = w)
    BY <1>2 DEF Recording!Link, Recording!Fail, Recording!Goes
  <2>4. s = "linked" => at[w] = "alone" /\ target' = w
    BY <1>2, <2>2 DEF Recording!Link, Recording!Fail, Recording!Goes, EvidenceTypes
  <2>5. \A v \in Creator : at'[v] = IF v = w THEN s ELSE at[v]
    BY <2>2 DEF EvidenceTypes
  <2>6. EvidenceTypes'
    BY <2>1, <2>2 DEF EvidenceTypes, Whole, Over
  <2>7. AttemptOK'
    <3> SUFFICES ASSUME NEW v \in Creator
                 PROVE  /\ at'[v] \in Blank => bytes[v] = "none"
                        /\ at'[v] \in Whole \cup Public => bytes[v] = "synced"
                        /\ at'[v] \in {"opened", "noted", "written", "published"} \cup Whole =>
                             v \in temps
                        /\ at'[v] = "linked" => target' = v
                        /\ at'[v] \in Public => target' = v /\ onDisk.target = v
      BY <2>1 DEF AttemptOK
    <3>1. CASE v = w
      BY <2>4, <2>5, <3>1 DEF AttemptOK, Blank, Whole, Public
    <3>2. CASE v # w
      BY <1>1, <2>3, <2>5, <3>2 DEF AttemptOK, Blank, Whole, Public
    <3> QED BY <3>1, <3>2
  <2>8. TargetOK'
    BY <1>1, <2>1, <2>3 DEF TargetOK, AttemptOK, Whole
  <2>9. NotedOK'
    BY <1>1, <2>1, <2>3 DEF NotedOK, EvidenceTypes
  <2> QED BY <2>6, <2>7, <2>8, <2>9
<1>3. CASE Recording!Intrude
  <2> USE <1>3 DEF Recording!Intrude
  <2>1. EvidenceTypes' BY DEF EvidenceTypes
  <2>2. AttemptOK' BY <1>1 DEF AttemptOK, Public
  <2>3. TargetOK' BY <1>1 DEF TargetOK
  <2>4. NotedOK' BY <1>1 DEF NotedOK, EvidenceTypes
  <2> QED BY <2>1, <2>2, <2>3, <2>4
<1> QED BY <1>2, <1>3

\* The power fails: what was synced is there, and what was written is torn at worst.
LEMMA EvidencePower ==
  ASSUME EvidenceIInv, Recording!PowerLoss
  PROVE  EvidenceIInv'
<1> USE DEF EvidenceIInv
<1>1. Nobody \notin Creator
  BY ToolsAssumption DEF ToolsAssumption, Recording!EvidenceWriterAssumption
<1>2. PICK b \in {"synced", "torn"} :
        bytes' = [w \in Creator |-> IF bytes[w] = "written" THEN b ELSE bytes[w]]
  BY DEF Recording!PowerLoss
<1>3. at' = [w \in Creator |->
               IF at[w] \in Recording!Ended \cup {Recording!NotStarted} THEN at[w] ELSE "dead"]
  BY DEF Recording!PowerLoss
<1>4. temps' \subseteq onDisk.temps \cup temps /\ onDisk.temps \cap temps \subseteq temps'
  BY DEF Recording!PowerLoss
<1>5. target' \in {onDisk.target, target} /\ onDisk' = [temps |-> temps', target |-> target']
      /\ noted' = noted
  BY DEF Recording!PowerLoss
<1>6. \A w \in Creator :
        /\ at'[w] \in {"not started", "created"} \cup Over
        /\ at'[w] \in {"not started", "created"} => at'[w] = at[w]
        /\ bytes[w] # "written" => bytes'[w] = bytes[w]
  BY <1>2, <1>3 DEF Recording!Ended, Recording!NotStarted, Over
<1>7. EvidenceTypes'
  <2>1. bytes' \in [Creator -> {"none", "written", "synced", "torn"}]
    BY <1>2 DEF EvidenceTypes
  <2>2. at' \in [Creator -> Blank \cup {"written"} \cup Whole \cup Public \cup Over]
    BY <1>3, <1>6 DEF Blank, Public
  <2>3. temps' \subseteq Creator /\ onDisk'.temps \subseteq Creator
    BY <1>4, <1>5 DEF EvidenceTypes
  <2> QED BY <1>5, <2>1, <2>2, <2>3 DEF EvidenceTypes
<1>8. AttemptOK'
  <2> SUFFICES ASSUME NEW w \in Creator
               PROVE  /\ at'[w] \in Blank => bytes'[w] = "none"
                      /\ at'[w] \in Whole \cup Public => bytes'[w] = "synced"
                      /\ at'[w] \notin {"opened", "noted", "written", "published"} \cup Whole
                      /\ at'[w] # "linked"
                      /\ at'[w] \in Public => target' = w /\ onDisk'.target = w
    BY DEF AttemptOK
  <2>1. at'[w] \notin {"opened", "noted", "written", "published"} \cup Whole /\ at'[w] # "linked"
    BY <1>6 DEF Over, Whole
  <2>2. at'[w] \in Blank => bytes'[w] = "none"
    BY <1>6 DEF Over, Blank, AttemptOK
  <2>3. at'[w] \in Whole \cup Public => bytes'[w] = "synced"
    BY <1>6 DEF Over, Whole, Public, AttemptOK
  <2>4. at'[w] \in Public => target' = w /\ onDisk'.target = w
    BY <1>5, <1>6 DEF Over, Public, AttemptOK
  <2> QED BY <2>1, <2>2, <2>3, <2>4
<1>9. TargetOK'
  BY <1>1, <1>5, <1>6 DEF TargetOK
<1>10. NotedOK'
  <2> SUFFICES ASSUME NEW w \in noted
               PROVE  (w \in temps' /\ w \in onDisk'.temps) \/ (target' = w /\ onDisk'.target = w)
    BY <1>5 DEF NotedOK
  <2> QED BY <1>4, <1>5 DEF NotedOK
<1> QED BY <1>7, <1>8, <1>9, <1>10

LEMMA EvidenceNextInv ==
  ASSUME EvidenceIInv, Recording!EvidenceNext \/ UNCHANGED recording
  PROVE  EvidenceIInv'
<1>1. CASE UNCHANGED recording
  BY <1>1 DEF recording, EvidenceIInv, EvidenceTypes, AttemptOK, TargetOK, NotedOK
<1> QED BY <1>1, LookOnly, WriteStep, TakeName, EvidencePower DEF Recording!EvidenceNext

LEMMA EvidenceFollows == EvidenceIInv => Recording!EvidenceInv
BY DEF EvidenceIInv, AttemptOK, TargetOK, NotedOK, Recording!EvidenceInv, Public

\* One revision of the evidence is published at most once, whole and for good, and a noted
\* attempt is found: for any number of attempts, and wherever the power fails.
THEOREM EvidenceSound == ToolingSpec => []Recording!EvidenceInv
<1>1. ToolingInit => EvidenceIInv BY EvidenceInitInv DEF ToolingInit
<1>2. EvidenceIInv /\ [ToolingNext]_toolingVars => EvidenceIInv'
  BY EvidenceNextInv DEF ToolingNext, Record, toolingVars
<1> QED BY <1>1, <1>2, EvidenceFollows, PTL DEF ToolingSpec

(***************************************************************************)
(* The finalizer of the local evidence (LocalEvidence).                    *)
(***************************************************************************)

\* What a run is doing; it has touched the files once it has built something.
FinalizerStage == {"out", "writing", "truncated", "building", "published", "done", "failed"}
Touched(u) == work[u].built # 0
Begun(u) == work[u].at # "out"

FinalizeTypes ==
  /\ inputs \in Nat \ {0}
  /\ file \in [Finalizing!File -> [kind : {"predecessor", "torn", "made"}, of : Nat]]
  /\ provenance \in [kind : {"absent", "remnant", "made"}, of : Nat]
  /\ work \in [Finalizer -> [at : FinalizerStage, captured : Nat, built : Nat, next : 1 .. 5]]

\* A run builds from inputs no older than those it captured, from the captured ones up to
\* the fourth file, and what it published is built from them, too.
FinalizerOK ==
  \A u \in Finalizer :
    /\ work[u].captured <= inputs
    /\ ~Begun(u) => ~Touched(u) /\ work[u].next = 1
    /\ Begun(u) => work[u].captured # 0
    /\ Touched(u) => work[u].captured <= work[u].built /\ work[u].built <= inputs
    /\ work[u].next > 1 \/ work[u].at = "truncated" => Touched(u)
    /\ work[u].at = "building" => work[u].next = 4
    /\ work[u].at = "truncated" =>
         work[u].next # 5 /\ (work[u].next # 4 => work[u].built = work[u].captured)
    /\ work[u].at \in {"published", "done"} =>
         work[u].built = work[u].captured /\ work[u].next = 5

\* No run begins once a file was touched, and nothing is touched unless the inputs are the
\* captured ones: who touches a file captured the latest inputs any run did.
TouchedIsLatest ==
  \A u, v \in Finalizer : Begun(u) /\ Touched(v) => work[u].captured <= work[v].captured

\* The files a run is through with are no longer the reviewed ones.
NotReviewed ==
  \A u \in Finalizer, k \in Finalizing!File :
    work[u].next > k \/ (Touched(u) /\ k = 1) => file[k] # Finalizing!Predecessor

\* Whose hand each file shows.
FilesOK ==
  \A k \in Finalizing!File :
    \/ file[k] = Finalizing!Predecessor
    \/ \E u \in Finalizer :
         /\ Touched(u)
         /\ \/ /\ file[k] = Finalizing!Torn
               /\ work[u].at = "failed" \/ (work[u].at = "truncated" /\ work[u].next = k)
            \/ k # 4 /\ file[k] = Finalizing!MadeOf(work[u].captured)
            \/ k = 4 /\ work[u].next = 5 /\ file[k] = Finalizing!MadeOf(work[u].built)

\* The provenance describes the inputs of a run that was through with the files.
DescribedOK ==
  provenance.kind = "made" =>
    \E u \in Finalizer : work[u].next = 5 /\ provenance = Finalizing!MadeOf(work[u].captured)

FinalizeIInv ==
  FinalizeTypes /\ FinalizerOK /\ TouchedIsLatest /\ NotReviewed /\ FilesOK /\ DescribedOK

LEMMA FinalizeInitInv == Finalizing!LocalEvidenceInit => FinalizeIInv
<1> SUFFICES ASSUME Finalizing!LocalEvidenceInit PROVE FinalizeIInv
  OBVIOUS
<1> USE DEF Finalizing!LocalEvidenceInit
<1>1. FinalizeTypes
  BY DEF FinalizeTypes, FinalizerStage, Finalizing!File, Finalizing!Predecessor,
         Finalizing!Absent
<1>2. FinalizerOK BY DEF FinalizerOK, Begun, Touched
<1>3. TouchedIsLatest /\ NotReviewed
  BY DEF TouchedIsLatest, NotReviewed, Begun, Touched, Finalizing!File
<1>4. FilesOK /\ DescribedOK
  BY DEF FilesOK, DescribedOK, Finalizing!File, Finalizing!Absent
<1> QED BY <1>1, <1>2, <1>3, <1>4 DEF FinalizeIInv


\* A step that only looks, ends, or fails.
LEMMA FinalizeLooks ==
  ASSUME FinalizeIInv, NEW w \in Finalizer,
         \/ Finalizing!Check(w) \/ Finalizing!ReadBack(w) \/ Finalizing!GiveUp(w)
  PROVE  FinalizeIInv'
<1> USE DEF FinalizeIInv
<1>1. UNCHANGED <<inputs, file, provenance>>
  BY DEF Finalizing!Check, Finalizing!ReadBack, Finalizing!GiveUp
<1>2. PICK s \in {"building", "done", "failed"} : work' = [work EXCEPT ![w].at = s]
  BY DEF Finalizing!Check, Finalizing!ReadBack, Finalizing!GiveUp, Finalizing!Goes
<1>3. /\ s = "building" => work[w].at = "writing" /\ work[w].next = 4
      /\ s = "done" => work[w].at = "published"
      /\ work[w].at # "out" /\ work[w].at # "failed"
  BY <1>2 DEF Finalizing!Check, Finalizing!ReadBack, Finalizing!GiveUp, Finalizing!Goes,
              FinalizeTypes
<1>4. /\ work'[w].at = s /\ work'[w].captured = work[w].captured
      /\ work'[w].built = work[w].built /\ work'[w].next = work[w].next
      /\ \A u \in Finalizer \ {w} : work'[u] = work[u]
  BY <1>2 DEF FinalizeTypes
<1>5. FinalizeTypes' BY <1>1, <1>2 DEF FinalizeTypes, FinalizerStage
<1>6. FinalizerOK' BY <1>1, <1>3, <1>4 DEF FinalizerOK, Begun, Touched
<1>7. \A u \in Finalizer : (Touched(u)' <=> Touched(u)) /\ (Begun(u)' <=> Begun(u))
  BY <1>3, <1>4 DEF Touched, Begun
<1>8. \A u \in Finalizer : /\ work'[u].captured = work[u].captured
                           /\ work'[u].built = work[u].built /\ work'[u].next = work[u].next
  BY <1>4
<1>9. TouchedIsLatest' BY <1>7, <1>8 DEF TouchedIsLatest
<1>10. NotReviewed' BY <1>1, <1>7, <1>8 DEF NotReviewed
<1>11. FilesOK'
  <2>1. ASSUME NEW u \in Finalizer, NEW k \in Finalizing!File,
               work[u].at = "failed" \/ (work[u].at = "truncated" /\ work[u].next = k)
        PROVE  work'[u].at = "failed" \/ (work'[u].at = "truncated" /\ work'[u].next = k)
    BY <1>3, <1>4, <2>1
  <2> QED BY <1>1, <1>7, <1>8, <2>1 DEF FilesOK
<1>12. DescribedOK' BY <1>1, <1>8 DEF DescribedOK
<1> QED BY <1>5, <1>6, <1>9, <1>10, <1>11, <1>12

\* A run begins: no file was touched yet.
LEMMA FinalizeBegins ==
  ASSUME FinalizeIInv, NEW w \in Finalizer, Finalizing!Begin(w)
  PROVE  FinalizeIInv'
<1> USE DEF FinalizeIInv
<1>1. UNCHANGED <<inputs, file, provenance>> BY DEF Finalizing!Begin
<1>2. work' = [work EXCEPT ![w] = [work[w] EXCEPT !.at = "writing", !.captured = inputs]]
  BY DEF Finalizing!Begin
<1>3. /\ work'[w].at = "writing" /\ work'[w].captured = inputs
      /\ work'[w].built = work[w].built /\ work'[w].next = work[w].next
      /\ \A u \in Finalizer \ {w} : work'[u] = work[u]
  BY <1>2 DEF FinalizeTypes
<1>4. work[w].at = "out" /\ ~Touched(w) /\ work[w].next = 1
  BY DEF Finalizing!Begin, FinalizerOK, Begun
<1>5. \A u \in Finalizer : ~Touched(u)
  BY DEF Finalizing!Begin, NotReviewed, Finalizing!File
<1>6. \A u \in Finalizer : ~Touched(u)' BY <1>3, <1>5 DEF Touched
<1>7. FinalizeTypes' BY <1>1, <1>2 DEF FinalizeTypes, FinalizerStage
<1>8. FinalizerOK'
  <2> SUFFICES ASSUME NEW u \in Finalizer
               PROVE  FinalizerOK!(u)'
    BY DEF FinalizerOK
  <2>1. CASE u = w BY <1>1, <1>3, <1>4, <1>6, <2>1 DEF Begun, Touched, FinalizeTypes
  <2>2. CASE u # w BY <1>1, <1>3, <2>2 DEF FinalizerOK, Begun, Touched
  <2> QED BY <2>1, <2>2
<1>9. TouchedIsLatest' BY <1>6 DEF TouchedIsLatest
<1>10. NotReviewed' BY <1>1, <1>3, <1>6 DEF NotReviewed
<1>11. FilesOK' BY <1>1, <1>5 DEF FilesOK
<1>12. DescribedOK' BY <1>1 DEF DescribedOK, Finalizing!Begin, Finalizing!Absent
<1> QED BY <1>7, <1>8, <1>9, <1>10, <1>11, <1>12

LEMMA FinalizeEdit ==
  ASSUME FinalizeIInv, Finalizing!Edit
  PROVE  FinalizeIInv'
<1> USE DEF FinalizeIInv, Finalizing!Edit
<1>1. FinalizeTypes' BY DEF FinalizeTypes
<1>2. FinalizerOK' BY DEF FinalizeTypes, FinalizerOK, Begun, Touched
<1>3. TouchedIsLatest' /\ NotReviewed' /\ FilesOK' /\ DescribedOK'
  BY DEF TouchedIsLatest, NotReviewed, FilesOK, DescribedOK, Begun, Touched
<1> QED BY <1>1, <1>2, <1>3

\* A file is torn, and the run has built what goes into it.
LEMMA FinalizeTears ==
  ASSUME FinalizeIInv, NEW w \in Finalizer,
         Finalizing!Build(w) \/ \E k \in Finalizing!File : Finalizing!Truncate(w, k)
  PROVE  FinalizeIInv'
<1> USE DEF FinalizeIInv
<1>1. PICK n \in {work[w].captured, inputs}, k \in Finalizing!File :
        /\ work[w].at \in {"writing", "building"} /\ k = work[w].next
        /\ k # 4 => n = work[w].captured /\ work[w].captured = inputs
        /\ file' = [file EXCEPT ![k] = Finalizing!Torn]
        /\ work' = [work EXCEPT ![w].at = "truncated", ![w].built = n]
        /\ UNCHANGED <<inputs, provenance>>
  <2>1. ASSUME Finalizing!Build(w) PROVE work[w].next = 4 /\ 4 \in Finalizing!File
    BY <2>1 DEF Finalizing!Build, FinalizerOK, Finalizing!File
  <2> QED BY <2>1 DEF Finalizing!Build, Finalizing!Truncate, Finalizing!InputsStable
<1>2. /\ work'[w].at = "truncated" /\ work'[w].built = n
      /\ work'[w].captured = work[w].captured /\ work'[w].next = k
      /\ \A u \in Finalizer \ {w} : work'[u] = work[u]
  BY <1>1 DEF FinalizeTypes
<1>3. /\ inputs \in Nat \ {0} /\ n \in Nat /\ work[w].captured \in Nat /\ k \in 1 .. 4
      /\ work[w].captured <= n /\ n <= inputs /\ work[w].captured # 0 /\ n # 0
  BY <1>1 DEF FinalizeTypes, FinalizerOK, Begun, Finalizing!File
<1>4. FinalizeTypes'
  <2>1. file' \in [Finalizing!File -> [kind : {"predecessor", "torn", "made"}, of : Nat]]
    BY <1>1 DEF FinalizeTypes, Finalizing!Torn
  <2>2. work' \in [Finalizer -> [at : FinalizerStage, captured : Nat, built : Nat, next : 1 .. 5]]
    BY <1>1, <1>3 DEF FinalizeTypes, FinalizerStage
  <2> QED BY <1>1, <2>1, <2>2 DEF FinalizeTypes
<1>5. \A u \in Finalizer : (Begun(u)' <=> Begun(u)) /\ (Touched(u) => Touched(u)') /\ Touched(w)'
  BY <1>1, <1>2, <1>3 DEF Begun, Touched
<1>6. FinalizerOK'
  <2> SUFFICES ASSUME NEW u \in Finalizer
               PROVE  FinalizerOK!(u)'
    BY DEF FinalizerOK
  <2>1. CASE u = w BY <1>1, <1>2, <1>3, <2>1 DEF Begun, Touched
  <2>2. CASE u # w BY <1>1, <1>2, <2>2 DEF FinalizerOK, Begun, Touched
  <2> QED BY <2>1, <2>2
<1>7. \A u \in Finalizer : work'[u].captured = work[u].captured /\ work'[u].next = work[u].next
  BY <1>1, <1>2
<1>8. TouchedIsLatest'
  <2>1. ASSUME NEW u \in Finalizer, Begun(u) PROVE work[u].captured <= work[w].captured
    <3>1. CASE k = 1 BY <1>1, <1>3, <3>1 DEF FinalizerOK
    <3>2. CASE k # 1 BY <1>1, <1>3, <2>1, <3>2 DEF FinalizerOK, TouchedIsLatest
    <3> QED BY <3>1, <3>2
  <2>2. \A v \in Finalizer \ {w} : Touched(v)' <=> Touched(v) BY <1>2 DEF Touched
  <2> QED BY <1>5, <1>7, <2>1, <2>2 DEF TouchedIsLatest
<1>9. \A j \in Finalizing!File : j # k => file'[j] = file[j]
  BY <1>1 DEF FinalizeTypes
<1>10. file'[k] = Finalizing!Torn /\ Finalizing!Torn # Finalizing!Predecessor
  BY <1>1 DEF FinalizeTypes, Finalizing!Torn, Finalizing!Predecessor
<1>11. NotReviewed'
  <2> SUFFICES ASSUME NEW u \in Finalizer, NEW j \in Finalizing!File,
                      work[u].next > j \/ (Touched(u)' /\ j = 1), j # k
               PROVE  file[j] # Finalizing!Predecessor
    BY <1>7, <1>9, <1>10 DEF NotReviewed
  <2>1. CASE u = w BY <1>1, <1>3, <2>1 DEF NotReviewed
  <2>2. CASE u # w BY <1>2, <2>2 DEF NotReviewed, Touched
  <2> QED BY <2>1, <2>2
<1>12. FilesOK'
  <2> SUFFICES ASSUME NEW j \in Finalizing!File
               PROVE  FilesOK!(j)'
    BY DEF FilesOK
  <2>1. CASE j = k BY <1>2, <1>5, <1>10, <2>1
  <2>2. CASE j # k
    <3>1. CASE file[j] = Finalizing!Predecessor BY <1>9, <2>2, <3>1
    <3>2. CASE file[j] # Finalizing!Predecessor
      <4>1. PICK u \in Finalizer :
              /\ Touched(u)
              /\ \/ /\ file[j] = Finalizing!Torn
                    /\ work[u].at = "failed" \/ (work[u].at = "truncated" /\ work[u].next = j)
                 \/ j # 4 /\ file[j] = Finalizing!MadeOf(work[u].captured)
                 \/ j = 4 /\ work[u].next = 5 /\ file[j] = Finalizing!MadeOf(work[u].built)
        BY <3>2 DEF FilesOK
      <4>2. u = w => j # 4 /\ file[j] = Finalizing!MadeOf(work[u].captured)
        BY <1>1, <1>3, <4>1
      <4>3. u # w => work'[u] = work[u] BY <1>2
      <4> QED BY <1>5, <1>7, <1>9, <2>2, <4>1, <4>2, <4>3 DEF Finalizing!MadeOf
    <3> QED BY <3>1, <3>2
  <2> QED BY <2>1, <2>2
<1>13. DescribedOK' BY <1>1, <1>7 DEF DescribedOK, Finalizing!MadeOf
<1> QED BY <1>4, <1>6, <1>8, <1>11, <1>12, <1>13

\* The torn file is written.
LEMMA FinalizeWrites ==
  ASSUME FinalizeIInv, NEW w \in Finalizer, NEW k \in Finalizing!File, Finalizing!Write(w, k)
  PROVE  FinalizeIInv'
<1> USE DEF FinalizeIInv
<1>1. /\ work[w].at = "truncated" /\ work[w].next = k
      /\ file' = [file EXCEPT ![k] = Finalizing!MadeOf(work[w].built)]
      /\ work' = [work EXCEPT ![w].at = "writing", ![w].next = k + 1]
      /\ UNCHANGED <<inputs, provenance>>
  BY DEF Finalizing!Write
<1>2. /\ work'[w].at = "writing" /\ work'[w].next = k + 1
      /\ work'[w].captured = work[w].captured /\ work'[w].built = work[w].built
      /\ \A u \in Finalizer \ {w} : work'[u] = work[u]
  BY <1>1 DEF FinalizeTypes
<1>3. /\ k \in 1 .. 4 /\ work[w].built \in Nat /\ work[w].captured \in Nat
      /\ (k # 4 => work[w].built = work[w].captured) /\ Touched(w)
  BY <1>1 DEF FinalizeTypes, FinalizerOK, Finalizing!File
<1>4. FinalizeTypes'
  <2>1. file' \in [Finalizing!File -> [kind : {"predecessor", "torn", "made"}, of : Nat]]
    BY <1>1, <1>3 DEF FinalizeTypes, Finalizing!MadeOf
  <2>2. work' \in [Finalizer -> [at : FinalizerStage, captured : Nat, built : Nat, next : 1 .. 5]]
    <3>1. k + 1 \in 1 .. 5 BY <1>3
    <3> QED BY <1>1, <3>1 DEF FinalizeTypes, FinalizerStage
  <2> QED BY <1>1, <2>1, <2>2 DEF FinalizeTypes
<1>5. \A u \in Finalizer : (Begun(u)' <=> Begun(u)) /\ (Touched(u)' <=> Touched(u))
  BY <1>1, <1>2 DEF Begun, Touched
<1>6. FinalizerOK'
  <2> SUFFICES ASSUME NEW u \in Finalizer
               PROVE  FinalizerOK!(u)'
    BY DEF FinalizerOK
  <2>1. CASE u = w
    <3>1. FinalizerOK!(w) BY DEF FinalizerOK
    <3> QED BY <1>1, <1>2, <1>3, <2>1, <3>1 DEF Begun, Touched
  <2>2. CASE u # w BY <1>1, <1>2, <2>2 DEF FinalizerOK, Begun, Touched
  <2> QED BY <2>1, <2>2
<1>7. \A u \in Finalizer : work'[u].captured = work[u].captured /\ work'[u].built = work[u].built
  BY <1>1, <1>2
<1>8. TouchedIsLatest' BY <1>5, <1>7 DEF TouchedIsLatest
<1>9. \A j \in Finalizing!File : j # k => file'[j] = file[j]
  BY <1>1 DEF FinalizeTypes
<1>10. /\ file'[k] = Finalizing!MadeOf(work[w].built)
       /\ file'[k] # Finalizing!Predecessor
  BY <1>1 DEF FinalizeTypes, Finalizing!MadeOf, Finalizing!Predecessor
<1>11. NotReviewed'
  <2> SUFFICES ASSUME NEW u \in Finalizer, NEW j \in Finalizing!File,
                      work'[u].next > j \/ (Touched(u) /\ j = 1), j # k
               PROVE  file[j] # Finalizing!Predecessor
    BY <1>5, <1>9, <1>10 DEF NotReviewed
  <2>1. CASE u = w BY <1>1, <1>2, <1>3, <2>1 DEF NotReviewed, Finalizing!File
  <2>2. CASE u # w BY <1>2, <2>2 DEF NotReviewed
  <2> QED BY <2>1, <2>2
<1>12. FilesOK'
  <2> SUFFICES ASSUME NEW j \in Finalizing!File
               PROVE  FilesOK!(j)'
    BY DEF FilesOK
  <2>1. CASE j = k
    BY <1>2, <1>3, <1>5, <1>10, <2>1
  <2>2. CASE j # k
    <3>1. CASE file[j] = Finalizing!Predecessor BY <1>9, <2>2, <3>1
    <3>2. CASE file[j] # Finalizing!Predecessor
      <4>1. PICK u \in Finalizer :
              /\ Touched(u)
              /\ \/ /\ file[j] = Finalizing!Torn
                    /\ work[u].at = "failed" \/ (work[u].at = "truncated" /\ work[u].next = j)
                 \/ j # 4 /\ file[j] = Finalizing!MadeOf(work[u].captured)
                 \/ j = 4 /\ work[u].next = 5 /\ file[j] = Finalizing!MadeOf(work[u].built)
        BY <3>2 DEF FilesOK
      <4>2. u = w => j # 4 /\ file[j] = Finalizing!MadeOf(work[u].captured)
        BY <1>1, <1>3, <2>2, <4>1
      <4>3. u # w => work'[u] = work[u] BY <1>2
      <4> QED BY <1>5, <1>7, <1>9, <2>2, <4>1, <4>2, <4>3 DEF Finalizing!MadeOf
    <3> QED BY <3>1, <3>2
  <2> QED BY <2>1, <2>2
<1>13. DescribedOK'
  <2>1. work[w].next # 5 BY <1>1, <1>3
  <2>2. ASSUME NEW u \in Finalizer, work[u].next = 5 PROVE work'[u].next = 5
    BY <1>2, <2>1, <2>2
  <2> QED BY <1>1, <1>7, <2>2 DEF DescribedOK, Finalizing!MadeOf
<1> QED BY <1>4, <1>6, <1>8, <1>11, <1>12, <1>13

\* The provenance is created, by a run that is through with the files, or the run fails.
LEMMA FinalizeDescribes ==
  ASSUME FinalizeIInv, NEW w \in Finalizer, Finalizing!Provenance(w)
  PROVE  FinalizeIInv'
<1> USE DEF FinalizeIInv
<1>1. PICK s \in {"published", "failed"} :
        /\ work' = [work EXCEPT ![w].at = s]
        /\ s = "published" => provenance' = Finalizing!MadeOf(work[w].built)
        /\ s = "failed" => provenance' \in {provenance, Finalizing!Remnant}
  BY DEF Finalizing!Provenance, Finalizing!Goes
<1>2. /\ work[w].at = "writing" /\ work[w].next = 5 /\ work[w].captured = inputs
      /\ UNCHANGED <<inputs, file>>
  BY DEF Finalizing!Provenance, Finalizing!InputsStable
<1>3. work[w].built = work[w].captured /\ work[w].built \in Nat
  BY <1>2 DEF FinalizeTypes, FinalizerOK
<1>4. /\ work'[w].at = s /\ work'[w].captured = work[w].captured
      /\ work'[w].built = work[w].built /\ work'[w].next = work[w].next
      /\ \A u \in Finalizer \ {w} : work'[u] = work[u]
  BY <1>1 DEF FinalizeTypes
<1>5. FinalizeTypes'
  <2>1. work' \in [Finalizer -> [at : FinalizerStage, captured : Nat, built : Nat, next : 1 .. 5]]
    BY <1>1 DEF FinalizeTypes, FinalizerStage
  <2>2. provenance' \in [kind : {"absent", "remnant", "made"}, of : Nat]
    BY <1>1, <1>3 DEF FinalizeTypes, Finalizing!MadeOf, Finalizing!Remnant
  <2> QED BY <1>2, <2>1, <2>2 DEF FinalizeTypes
<1>6. FinalizerOK' BY <1>1, <1>2, <1>3, <1>4 DEF FinalizerOK, Begun, Touched
<1>7. \A u \in Finalizer : (Touched(u)' <=> Touched(u)) /\ (Begun(u)' <=> Begun(u))
  BY <1>1, <1>2, <1>4 DEF Touched, Begun
<1>8. \A u \in Finalizer : /\ work'[u].captured = work[u].captured
                           /\ work'[u].built = work[u].built /\ work'[u].next = work[u].next
  BY <1>4
<1>9. TouchedIsLatest' BY <1>7, <1>8 DEF TouchedIsLatest
<1>10. NotReviewed' BY <1>2, <1>7, <1>8 DEF NotReviewed
<1>11. FilesOK'
  <2>1. ASSUME NEW u \in Finalizer, NEW k \in Finalizing!File,
               work[u].at = "failed" \/ (work[u].at = "truncated" /\ work[u].next = k)
        PROVE  work'[u].at = "failed" \/ (work'[u].at = "truncated" /\ work'[u].next = k)
    BY <1>2, <1>4, <2>1
  <2> QED BY <1>2, <1>7, <1>8, <2>1 DEF FilesOK
<1>12. DescribedOK'
  <2>1. CASE s = "published" BY <1>1, <1>2, <1>3, <1>8, <2>1 DEF DescribedOK
  <2>2. CASE s = "failed" BY <1>1, <1>8, <2>2 DEF DescribedOK, Finalizing!Remnant
  <2> QED BY <2>1, <2>2
<1> QED BY <1>5, <1>6, <1>9, <1>10, <1>11, <1>12

LEMMA FinalizeNextInv ==
  ASSUME FinalizeIInv, Finalizing!LocalEvidenceNext \/ UNCHANGED finalizing
  PROVE  FinalizeIInv'
<1>1. CASE UNCHANGED finalizing
  BY <1>1 DEF finalizing, FinalizeIInv, FinalizeTypes, FinalizerOK, TouchedIsLatest, NotReviewed,
              FilesOK, DescribedOK, Touched, Begun
<1> QED
  BY <1>1, FinalizeLooks, FinalizeBegins, FinalizeTears, FinalizeWrites, FinalizeDescribes,
     FinalizeEdit DEF Finalizing!LocalEvidenceNext

\* A file that differs from the provenance shows the hand of a run that touched it, and whoever
\* touched a file captured the same inputs.
LEMMA FinalizeFollows == FinalizeIInv => Finalizing!ProvenanceTellsTheTruth
<1> SUFFICES ASSUME FinalizeIInv, provenance.kind = "made", NEW k \in Finalizing!File
             PROVE  \/ file[k] = provenance
                    \/ \E w \in Finalizer :
                         /\ work[w].captured = provenance.of
                         /\ work[w].at \notin {"out", "published", "done"}
                         /\ file[k] \in {Finalizing!Torn, Finalizing!MadeOf(work[w].built)}
  BY DEF Finalizing!ProvenanceTellsTheTruth
<1> USE DEF FinalizeIInv
<1>1. PICK w \in Finalizer :
        work[w].next = 5 /\ provenance = Finalizing!MadeOf(work[w].captured)
  BY DEF DescribedOK
<1>2. provenance.of = work[w].captured BY <1>1 DEF Finalizing!MadeOf
<1>3. file[k] # Finalizing!Predecessor BY <1>1 DEF NotReviewed, Finalizing!File
<1>4. PICK u \in Finalizer :
        /\ Touched(u)
        /\ \/ /\ file[k] = Finalizing!Torn
              /\ work[u].at = "failed" \/ (work[u].at = "truncated" /\ work[u].next = k)
           \/ k # 4 /\ file[k] = Finalizing!MadeOf(work[u].captured)
           \/ k = 4 /\ work[u].next = 5 /\ file[k] = Finalizing!MadeOf(work[u].built)
  BY <1>3 DEF FilesOK
<1>5. Touched(w) /\ Begun(w) /\ Begun(u) BY <1>1, <1>4 DEF FinalizerOK, Begun, Touched
<1>6. work[u].captured = work[w].captured
  <2>1. work[u].captured \in Nat /\ work[w].captured \in Nat BY DEF FinalizeTypes
  <2> QED BY <1>4, <1>5, <2>1 DEF TouchedIsLatest
<1>7. CASE work[u].at \in {"published", "done"}
  BY <1>1, <1>4, <1>6, <1>7 DEF FinalizerOK
<1>8. CASE work[u].at \notin {"published", "done"}
  BY <1>1, <1>2, <1>4, <1>5, <1>6, <1>8 DEF Begun
<1> QED BY <1>7, <1>8

\* What a provenance describes is what its files are made of, for any number of runs of the
\* finalizer and of edits.
THEOREM ProvenanceSound == ToolingSpec => []Finalizing!ProvenanceTellsTheTruth
<1>1. ToolingInit => FinalizeIInv BY FinalizeInitInv DEF ToolingInit
<1>2. FinalizeIInv /\ [ToolingNext]_toolingVars => FinalizeIInv'
  BY FinalizeNextInv DEF ToolingNext, Finalize, toolingVars
<1> QED BY <1>1, <1>2, FinalizeFollows, PTL DEF ToolingSpec

(***************************************************************************)
(* The provenance record (ProvenanceRecord).                               *)
(***************************************************************************)

Digests == [pinned : Int, manifest : Int, sbom : Int]
Holder == Recorder \cup {Nobody, Proving!Somebody}
JobRecord == [at : 0 .. 26, built : Digests, expected : 0 .. 2, held : 0 .. 2, calm : BOOLEAN]

RecordTypes ==
  /\ tree \in [Proving!Part -> Int] /\ home \in Proving!Directory /\ changes \in Nat
  /\ entry \in [Proving!Directory -> Holder] /\ kept \in [Proving!Directory -> Holder]
  /\ content \in [Recorder -> [bytes : Digests, synced : BOOLEAN]]
  /\ job \in [Proving!Run -> JobRecord]

\* Before and after its one write (the 21st call) and the sync of it.
WritesOnce(w) ==
  /\ job[w].at \in 1 .. 21 => content[w] = [bytes |-> Proving!Empty, synced |-> TRUE]
  /\ job[w].at \in 22 .. 26 => content[w].bytes = job[w].built
  /\ job[w].at \in 23 .. 26 => content[w].synced

\* The parent it holds is the one it expected, from its first look at both (the 11th) on.
HoldsParent(w) ==
  /\ job[w].at \in 10 .. 26 => job[w].expected \in Proving!Directory
  /\ job[w].at \in 11 .. 26 => job[w].held \in Proving!Directory
  /\ job[w].at \in 12 .. 26 => job[w].expected = job[w].held

\* A file opened in the other directory is found at the path only while the two stand
\* exchanged, and the held parent only while they do not: a recorder that got this far
\* has seen them change places this often.
Turns(n) ==
  CASE n = 12 -> 0 [] n = 13 -> 1 [] n = 14 -> 2 [] n = 15 -> 3 [] n \in 16 .. 18 -> 4
    [] n = 19 -> 5 [] n \in 20 .. 25 -> 6 [] OTHER -> 7

SawExchanged(n) == n \in {13, 15, 19, 26}

Enough(w) ==
  IF home # job[w].held <=> SawExchanged(job[w].at)
  THEN changes >= Turns(job[w].at)
  ELSE changes >= Turns(job[w].at) + 1

MadeInParent(w) ==
  /\ job[w].at = 12 => Enough(w)
  /\ job[w].at \in 13 .. 25 =>
       entry[job[w].held] = w \/ (entry[3 - job[w].held] = w /\ Enough(w))
  /\ job[w].at = 26 => entry[job[w].held] = w \/ changes >= 7
  /\ job[w].at \in 24 .. 26 /\ entry[job[w].held] = w => kept[job[w].held] = w

\* What a calm audit has seen is still so.
StillSo(v) ==
  job[v].calm =>
    /\ job[v].at >= 2 => tree["pinned"] = 1
    /\ job[v].at >= 3 => tree["stray"] = 1
    /\ job[v].at >= 4 => job[v].built.sbom = tree["manifest"]
    /\ job[v].at >= 5 => job[v].built.pinned = tree["pinned"]
    /\ job[v].at >= 6 => job[v].built.manifest = tree["manifest"]
    /\ job[v].at >= 7 => /\ entry[home] \in Recorder
                         /\ content[entry[home]].bytes = job[v].built
    /\ job[v].at >= 8 => tree["sbom"] = job[v].built.sbom

RecordIInv ==
  /\ RecordTypes
  /\ \A w \in Recorder : WritesOnce(w) /\ HoldsParent(w) /\ MadeInParent(w)
  /\ \A v \in Auditor : StillSo(v)

\* The scripts of both modes, call by call.
LEMMA Crews ==
  /\ Recorder \subseteq Proving!Run /\ Auditor \subseteq Proving!Run
  /\ Proving!Run = Recorder \cup Auditor
  /\ \A w \in Recorder : w \notin Auditor
  /\ Nobody \notin Recorder /\ Proving!Somebody \notin Recorder
BY ToolsAssumption DEF ToolsAssumption, Proving!ProvenanceAssumption, Proving!Run

LEMMA AuditCalls ==
  ASSUME NEW v \in Auditor
  PROVE  /\ DOMAIN Proving!Script(v) = 1 .. 7 /\ Len(Proving!Script(v)) = 7
         /\ Proving!Script(v)[1] = "checkPinned" /\ Proving!Script(v)[2] = "walk"
         /\ Proving!Script(v)[3] = "readManifest" /\ Proving!Script(v)[4] = "hashPinned"
         /\ Proving!Script(v)[5] = "hashManifest" /\ Proving!Script(v)[6] = "compareRecord"
         /\ Proving!Script(v)[7] = "compareSbom"
BY DEF Proving!Script, Proving!Build

LEMMA RecorderCalls ==
  ASSUME NEW w \in Recorder
  PROVE  /\ DOMAIN Proving!Script(w) = 1 .. 25 /\ Len(Proving!Script(w)) = 25
         /\ Proving!Script(w)[1] = "list" /\ Proving!Script(w)[2] = "checkPinned"
         /\ Proving!Script(w)[3] = "walk" /\ Proving!Script(w)[4] = "readManifest"
         /\ Proving!Script(w)[5] = "hashPinned" /\ Proving!Script(w)[6] = "hashManifest"
         /\ Proving!Script(w)[7] = "compareSbom" /\ Proving!Script(w)[8] = "list"
         /\ Proving!Script(w)[9] = "expectParent" /\ Proving!Script(w)[10] = "holdParent"
         /\ Proving!Script(w)[11] = "revalidate" /\ Proving!Script(w)[12] = "open"
         /\ Proving!Script(w)[13] = "revalidate" /\ Proving!Script(w)[14] = "lookUp"
         /\ Proving!Script(w)[15] = "revalidate" /\ Proving!Script(w)[16] = "resolve"
         /\ Proving!Script(w)[17] = "revalidate" /\ Proving!Script(w)[18] = "lookUp"
         /\ Proving!Script(w)[19] = "revalidate" /\ Proving!Script(w)[20] = "revalidate"
         /\ Proving!Script(w)[21] = "write" /\ Proving!Script(w)[22] = "sync"
         /\ Proving!Script(w)[23] = "syncParent" /\ Proving!Script(w)[24] = "revalidate"
         /\ Proving!Script(w)[25] = "verify"
<1>1. w \notin Auditor BY Crews
<1> QED BY <1>1 DEF Proving!Script, Proving!Build, Proving!Guard

LEMMA RunsOrEnds ==
  /\ \A v \in Auditor : /\ Proving!Running(v) <=> job[v].at \in 1 .. 7
                        /\ Proving!Finished(v) <=> job[v].at = 8
  /\ \A w \in Recorder : /\ Proving!Running(w) <=> job[w].at \in 1 .. 25
                         /\ Proving!Finished(w) <=> job[w].at = 26
<1>1. ASSUME NEW v \in Auditor
      PROVE  /\ Proving!Running(v) <=> job[v].at \in 1 .. 7
             /\ Proving!Finished(v) <=> job[v].at = 8
  <2>1. DOMAIN Proving!Script(v) = 1 .. 7 /\ Len(Proving!Script(v)) = 7 BY AuditCalls
  <2> QED BY <2>1 DEF Proving!Running, Proving!Finished
<1>2. ASSUME NEW w \in Recorder
      PROVE  /\ Proving!Running(w) <=> job[w].at \in 1 .. 25
             /\ Proving!Finished(w) <=> job[w].at = 26
  <2>1. DOMAIN Proving!Script(w) = 1 .. 25 /\ Len(Proving!Script(w)) = 25 BY RecorderCalls
  <2> QED BY <2>1 DEF Proving!Running, Proving!Finished
<1> QED BY <1>1, <1>2

LEMMA RecordInitInv == Proving!ProvenanceInit => RecordIInv
<1> SUFFICES ASSUME Proving!ProvenanceInit PROVE RecordIInv
  OBVIOUS
<1> USE DEF Proving!ProvenanceInit
<1>1. PICK crew \in SUBSET Proving!Run :
        job = [w \in Proving!Run |->
                 [at |-> IF w \in crew THEN 1 ELSE 0, built |-> Proving!Empty,
                  expected |-> 0, held |-> 0, calm |-> w \in Auditor]]
  OBVIOUS
<1>2. RecordTypes
  <2>1. \A w \in Proving!Run : (IF w \in crew THEN 1 ELSE 0) \in 0 .. 26 OBVIOUS
  <2>2. \A w \in Proving!Run : (w \in Auditor) \in BOOLEAN OBVIOUS
  <2>3. Proving!Empty \in Digests BY DEF Proving!Empty, Digests
  <2>4. job \in [Proving!Run -> JobRecord] BY <1>1, <2>1, <2>2, <2>3 DEF JobRecord
  <2> QED BY <2>3, <2>4 DEF RecordTypes, Holder, Proving!Directory
<1>3. \A w \in Proving!Run : job[w].at \in {0, 1} BY <1>1
<1>4. ASSUME NEW w \in Recorder PROVE WritesOnce(w) /\ HoldsParent(w) /\ MadeInParent(w)
  BY <1>3, Crews DEF WritesOnce, HoldsParent, MadeInParent
<1>5. ASSUME NEW v \in Auditor PROVE StillSo(v)
  BY <1>3, Crews DEF StillSo
<1> QED BY <1>2, <1>4, <1>5 DEF RecordIInv

\* A call that changes nothing but the run's own record.
LEMMA OwnStep ==
  ASSUME RecordIInv, NEW w \in Proving!Run, NEW r \in JobRecord, job' = [job EXCEPT ![w] = r],
         UNCHANGED <<tree, home, entry, kept, content, changes>>,
         w \in Recorder => WritesOnce(w)' /\ HoldsParent(w)' /\ MadeInParent(w)',
         w \in Auditor => StillSo(w)'
  PROVE  RecordIInv'
<1>1. \A u \in Proving!Run \ {w} : job'[u] = job[u] BY DEF RecordIInv, RecordTypes
<1>2. RecordTypes' BY DEF RecordIInv, RecordTypes
<1>3. ASSUME NEW u \in Recorder PROVE WritesOnce(u)' /\ HoldsParent(u)' /\ MadeInParent(u)'
  <2>1. CASE u = w BY <2>1
  <2>2. CASE u # w
    <3>1. WritesOnce(u)' BY <1>1, <2>2, Crews DEF RecordIInv, WritesOnce
    <3>2. HoldsParent(u)' BY <1>1, <2>2, Crews DEF RecordIInv, HoldsParent
    <3>3. MadeInParent(u)' BY <1>1, <2>2, Crews DEF RecordIInv, MadeInParent, Enough
    <3> QED BY <3>1, <3>2, <3>3
  <2> QED BY <2>1, <2>2
<1>4. ASSUME NEW v \in Auditor PROVE StillSo(v)'
  <2>1. CASE v = w BY <2>1
  <2>2. CASE v # w BY <1>1, <2>2, Crews DEF RecordIInv, StillSo
  <2> QED BY <2>1, <2>2
<1> QED BY <1>2, <1>3, <1>4 DEF RecordIInv

\* A run that fails, whatever it saw.
LEMMA FailedStep ==
  ASSUME RecordIInv, NEW w \in Proving!Run, job' = [job EXCEPT ![w].at = 0],
         UNCHANGED <<tree, home, entry, kept, content, changes>>
  PROVE  RecordIInv'
<1>1. PICK r : r = [job[w] EXCEPT !.at = 0] OBVIOUS
<1>2. r \in JobRecord /\ r.at = 0 /\ job' = [job EXCEPT ![w] = r]
  BY <1>1 DEF RecordIInv, RecordTypes, JobRecord
<1>3. job'[w].at = 0 BY <1>2 DEF RecordIInv, RecordTypes
<1>4. w \in Recorder => WritesOnce(w)' /\ HoldsParent(w)' /\ MadeInParent(w)'
  BY <1>3 DEF WritesOnce, HoldsParent, MadeInParent
<1>5. w \in Auditor => StillSo(w)' BY <1>3 DEF StillSo
<1> QED BY <1>2, <1>4, <1>5, OwnStep

\* A call that only looks: the run goes on from what it saw, or fails.
Sees(w) ==
  LET call == Proving!Script(w)[job[w].at] IN
  /\ call = "checkPinned" => tree["pinned"] = 1
  /\ call = "walk" => tree["stray"] = 1
  /\ call = "compareSbom" => tree["sbom"] = job[w].built.sbom
  /\ call = "compareRecord" =>
       entry[home] \in Recorder /\ content[entry[home]].bytes = job[w].built
  /\ call = "revalidate" => job[w].expected = job[w].held /\ job[w].expected = home
  /\ call \in {"lookUp", "verify"} => entry[home] = w
  /\ call \in {"checkPinned", "walk", "compareSbom", "compareRecord", "list", "revalidate",
               "lookUp", "resolve", "verify"}

Looks(w) ==
  \/ Proving!CheckPinned(w) \/ Proving!Walk(w) \/ Proving!CompareSbom(w)
  \/ w \in Auditor /\ Proving!CompareRecord(w)
  \/ w \in Recorder /\ (\/ Proving!ListParent(w) \/ Proving!Revalidate(w) \/ Proving!LookUp(w)
                        \/ Proving!Resolve(w) \/ Proving!VerifyRecord(w))

LEMMA LooksOrFails ==
  ASSUME RecordIInv, NEW w \in Proving!Run, Looks(w)
  PROVE  /\ UNCHANGED <<tree, home, entry, kept, content, changes>>
         /\ Proving!Running(w)
         /\ \/ job' = [job EXCEPT ![w].at = 0]
            \/ Sees(w) /\ job' = [job EXCEPT ![w] = [job[w] EXCEPT !.at = job[w].at + 1]]
<1> USE DEF Proving!Observes, Proving!Makes, Proving!Failed
<1>1. job[w] \in JobRecord BY DEF RecordIInv, RecordTypes
<1>2. CASE Proving!CheckPinned(w)
  BY <1>1, <1>2 DEF Proving!CheckPinned, Proving!Reviewed, Sees
<1>3. CASE Proving!Walk(w) BY <1>1, <1>3 DEF Proving!Walk, Proving!Reviewed, Sees
<1>4. CASE Proving!CompareSbom(w) BY <1>1, <1>4 DEF Proving!CompareSbom, Sees
<1>5. CASE Proving!CompareRecord(w)
  BY <1>1, <1>5 DEF Proving!CompareRecord, Proving!PathEntry, Sees
<1>6. CASE Proving!ListParent(w) BY <1>1, <1>6 DEF Proving!ListParent, Sees
<1>7. CASE Proving!Revalidate(w) BY <1>1, <1>7 DEF Proving!Revalidate, Sees
<1>8. CASE Proving!LookUp(w) BY <1>1, <1>8 DEF Proving!LookUp, Proving!PathEntry, Sees
<1>9. CASE Proving!Resolve(w) BY <1>1, <1>9 DEF Proving!Resolve, Sees
<1>10. CASE Proving!VerifyRecord(w)
  BY <1>1, <1>10 DEF Proving!VerifyRecord, Proving!PathEntry, Sees
<1> QED BY <1>2, <1>3, <1>4, <1>5, <1>6, <1>7, <1>8, <1>9, <1>10 DEF Looks

LEMMA LooksInv ==
  ASSUME RecordIInv, NEW w \in Proving!Run, Looks(w)
  PROVE  RecordIInv'
<1>1. UNCHANGED <<tree, home, entry, kept, content, changes>> /\ Proving!Running(w)
  BY LooksOrFails
<1>2. CASE job' = [job EXCEPT ![w].at = 0] BY <1>1, <1>2, FailedStep
<1>3. ASSUME Sees(w), job' = [job EXCEPT ![w] = [job[w] EXCEPT !.at = job[w].at + 1]]
      PROVE  RecordIInv'
  <2>1. PICK n : n = job[w].at OBVIOUS
  <2>2. PICK r : r = [job[w] EXCEPT !.at = n + 1] OBVIOUS
  <2>3. job[w] \in JobRecord BY DEF RecordIInv, RecordTypes
  <2>4. n \in 1 .. 25 BY <1>1, <2>1, RunsOrEnds, Crews
  <2>5. r \in JobRecord BY <2>2, <2>3, <2>4 DEF JobRecord
  <2>6. /\ job'[w].at = n + 1 /\ job'[w].built = job[w].built /\ job'[w].calm = job[w].calm
        /\ job'[w].expected = job[w].expected /\ job'[w].held = job[w].held
    BY <1>3, <2>1, <2>3 DEF RecordIInv, RecordTypes, JobRecord
  <2>7. ASSUME w \in Recorder PROVE WritesOnce(w)' /\ HoldsParent(w)' /\ MadeInParent(w)'
    <3>1. n \notin {4, 5, 6, 9, 10, 12, 21, 22, 23}
      BY <1>3, <2>1, <2>7, RecorderCalls DEF Sees
    <3>2. /\ n \in {11, 13, 15, 17, 19, 20, 24} =>
               job[w].expected = job[w].held /\ home = job[w].held
          /\ n \in {14, 18, 25} => entry[home] = w
      BY <1>3, <2>1, <2>7, RecorderCalls DEF Sees
    <3>3. WritesOnce(w) /\ HoldsParent(w) /\ MadeInParent(w) BY <2>7 DEF RecordIInv
    <3>4. WritesOnce(w)'
      BY <1>1, <2>1, <2>4, <2>6, <3>1, <3>3 DEF WritesOnce
    <3>5. HoldsParent(w)'
      BY <1>1, <2>1, <2>4, <2>6, <3>1, <3>2, <3>3 DEF HoldsParent
    <3>6. MadeInParent(w)'
      <4>1. /\ home \in {1, 2} /\ changes \in Nat
            /\ n \in 11 .. 25 => job[w].held \in {1, 2}
        BY <2>1, <3>3 DEF RecordIInv, RecordTypes, Proving!Directory, HoldsParent
      <4>2. ASSUME n = 11 PROVE Enough(w)'
        BY <1>1, <2>6, <3>2, <4>1, <4>2 DEF Enough, Turns, SawExchanged
      <4>3. ASSUME n \in 13 .. 25, entry[job[w].held] # w
            PROVE  entry[3 - job[w].held] = w /\ Enough(w)
        BY <2>1, <3>3, <4>3 DEF MadeInParent
      <4>4. ASSUME n \in 13 .. 24, entry[job[w].held] # w
            PROVE  entry[3 - job[w].held] = w /\ Enough(w)'
        <5>1. entry[3 - job[w].held] = w /\ Enough(w) BY <4>3, <4>4
        <5>2. n \in {14, 18} => home # job[w].held BY <3>2, <4>1, <4>4
        <5>3. n \in {13, 15, 17, 19, 20, 24} => home = job[w].held BY <3>2
        <5>4. n \in {13, 14, 15, 16, 17, 18, 19, 20, 24} BY <2>4, <3>1, <4>4
        <5>5. Enough(w)'
          BY <1>1, <2>1, <2>6, <4>1, <5>1, <5>2, <5>3, <5>4 DEF Enough, Turns, SawExchanged
        <5> QED BY <5>1, <5>5
      <4>5. ASSUME n = 25, entry[job[w].held] # w
            PROVE  changes >= 7
        BY <1>1, <2>1, <2>6, <3>1, <3>2, <4>1, <4>3, <4>5 DEF Enough, Turns, SawExchanged
      <4>6. n \in {24, 25} /\ entry[job[w].held] = w => kept[job[w].held] = w
        BY <2>1, <3>3 DEF MadeInParent
      <4> QED BY <1>1, <2>4, <2>6, <3>1, <4>2, <4>4, <4>5, <4>6 DEF MadeInParent
    <3> QED BY <3>4, <3>5, <3>6
  <2>8. ASSUME w \in Auditor PROVE StillSo(w)'
    <3>1. n \in {1, 2, 6, 7}
      <4>1. n \in 1 .. 7 BY <1>1, <2>1, <2>8, RunsOrEnds
      <4> QED BY <1>3, <2>1, <2>8, <4>1, AuditCalls DEF Sees
    <3>2. /\ n = 1 => tree["pinned"] = 1
          /\ n = 2 => tree["stray"] = 1
          /\ n = 6 => entry[home] \in Recorder /\ content[entry[home]].bytes = job[w].built
          /\ n = 7 => tree["sbom"] = job[w].built.sbom
      BY <1>3, <2>1, <2>8, AuditCalls DEF Sees
    <3>3. StillSo(w) BY <2>8 DEF RecordIInv
    <3> QED BY <1>1, <2>1, <2>6, <3>1, <3>2, <3>3 DEF StillSo
  <2> QED BY <1>1, <1>3, <2>1, <2>2, <2>5, <2>7, <2>8, OwnStep
<1> QED BY <1>1, <1>2, <1>3, LooksOrFails

\* A call that reads part of the tree into the record.
Builds(w, b) ==
  LET call == Proving!Script(w)[job[w].at] IN
  \/ call = "readManifest" /\ b.sbom = tree["manifest"]
  \/ call = "hashPinned" /\ b.pinned = tree["pinned"] /\ b.sbom = job[w].built.sbom
  \/ /\ call = "hashManifest" /\ b.manifest = tree["manifest"]
     /\ b.pinned = job[w].built.pinned /\ b.sbom = job[w].built.sbom

LEMMA BuildsInv ==
  ASSUME RecordIInv, NEW w \in Proving!Run,
         Proving!ReadManifest(w) \/ Proving!HashPinned(w) \/ Proving!HashManifest(w)
  PROVE  RecordIInv'
<1> USE DEF Proving!Learns, Proving!Makes
<1>1. job[w] \in JobRecord /\ job[w].built \in Digests
  BY DEF RecordIInv, RecordTypes, JobRecord
<1>2. /\ tree["manifest"] \in Int /\ tree["pinned"] \in Int
  BY DEF RecordIInv, RecordTypes, Proving!Part
<1>3. PICK n : n = job[w].at OBVIOUS
<1>4. UNCHANGED <<tree, home, entry, kept, content, changes>> /\ Proving!Running(w)
  BY DEF Proving!ReadManifest, Proving!HashPinned, Proving!HashManifest
<1>5. n \in 1 .. 25 BY <1>3, <1>4, RunsOrEnds, Crews
<1>6. PICK b \in Digests :
        Builds(w, b) /\ job' = [job EXCEPT ![w] = [job[w] EXCEPT !.at = n + 1, !.built = b]]
  <2>1. CASE Proving!ReadManifest(w)
    <3>1. PICK b : b = [job[w].built EXCEPT !.sbom = tree["manifest"]] OBVIOUS
    <3>2. b \in Digests /\ b.sbom = tree["manifest"] BY <1>1, <1>2, <3>1 DEF Digests
    <3>3. job' = [job EXCEPT ![w] = [job[w] EXCEPT !.at = n + 1, !.built = b]]
      BY <1>1, <1>3, <2>1, <3>1 DEF Proving!ReadManifest, JobRecord
    <3> QED BY <2>1, <3>2, <3>3 DEF Proving!ReadManifest, Builds
  <2>2. CASE Proving!HashPinned(w)
    <3>1. PICK b : b = [job[w].built EXCEPT !.pinned = tree["pinned"]] OBVIOUS
    <3>2. b \in Digests /\ b.pinned = tree["pinned"] /\ b.sbom = job[w].built.sbom
      BY <1>1, <1>2, <3>1 DEF Digests
    <3>3. job' = [job EXCEPT ![w] = [job[w] EXCEPT !.at = n + 1, !.built = b]]
      BY <1>1, <1>3, <2>2, <3>1 DEF Proving!HashPinned, JobRecord
    <3> QED BY <2>2, <3>2, <3>3 DEF Proving!HashPinned, Builds
  <2>3. CASE Proving!HashManifest(w)
    <3>1. PICK b : b = [job[w].built EXCEPT !.manifest = tree["manifest"]] OBVIOUS
    <3>2. /\ b \in Digests /\ b.manifest = tree["manifest"]
          /\ b.pinned = job[w].built.pinned /\ b.sbom = job[w].built.sbom
      BY <1>1, <1>2, <3>1 DEF Digests
    <3>3. job' = [job EXCEPT ![w] = [job[w] EXCEPT !.at = n + 1, !.built = b]]
      BY <1>1, <1>3, <2>3, <3>1 DEF Proving!HashManifest, JobRecord
    <3> QED BY <2>3, <3>2, <3>3 DEF Proving!HashManifest, Builds
  <2> QED BY <2>1, <2>2, <2>3
<1>7. PICK r : r = [job[w] EXCEPT !.at = n + 1, !.built = b] OBVIOUS
<1>8. r \in JobRecord
  <2>1. r = [at |-> n + 1, built |-> b, expected |-> job[w].expected, held |-> job[w].held,
             calm |-> job[w].calm]
    BY <1>1, <1>7 DEF JobRecord
  <2>2. n + 1 \in 0 .. 26 BY <1>5
  <2> QED BY <1>1, <2>1, <2>2 DEF JobRecord
<1>9. job'[w].at = n + 1 /\ job'[w].built = b /\ job'[w].calm = job[w].calm
  BY <1>1, <1>6 DEF RecordIInv, RecordTypes, JobRecord
<1>10. ASSUME w \in Recorder PROVE WritesOnce(w)' /\ HoldsParent(w)' /\ MadeInParent(w)'
  <2>1. n \in {4, 5, 6} BY <1>3, <1>5, <1>6, <1>10, RecorderCalls DEF Builds
  <2>2. WritesOnce(w) BY <1>10 DEF RecordIInv
  <2> QED BY <1>3, <1>4, <1>9, <2>1, <2>2 DEF WritesOnce, HoldsParent, MadeInParent
<1>11. ASSUME w \in Auditor PROVE StillSo(w)'
  <2>1. n \in 1 .. 7 BY <1>3, <1>4, <1>11, RunsOrEnds
  <2>2. /\ n \in {3, 4, 5} /\ b.sbom \in {tree["manifest"], job[w].built.sbom}
        /\ n = 3 => b.sbom = tree["manifest"]
        /\ n # 3 => b.sbom = job[w].built.sbom
        /\ n = 4 => b.pinned = tree["pinned"]
        /\ n = 5 => b.manifest = tree["manifest"] /\ b.pinned = job[w].built.pinned
    BY <1>3, <1>6, <1>11, <2>1, AuditCalls DEF Builds
  <2>3. StillSo(w) BY <1>11 DEF RecordIInv
  <2> QED BY <1>3, <1>4, <1>9, <2>2, <2>3 DEF StillSo
<1> QED BY <1>4, <1>6, <1>7, <1>8, <1>10, <1>11, OwnStep

\* The parent is looked at twice: the one expected and the one held.
LEMMA ParentInv ==
  ASSUME RecordIInv, NEW w \in Recorder, Proving!ExpectParent(w) \/ Proving!HoldParent(w)
  PROVE  RecordIInv'
<1> USE DEF Proving!Learns, Proving!Makes
<1>1. w \in Proving!Run /\ job[w] \in JobRecord /\ home \in {1, 2}
  BY Crews DEF RecordIInv, RecordTypes, Proving!Directory
<1>2. PICK n : n = job[w].at OBVIOUS
<1>3. UNCHANGED <<tree, home, entry, kept, content, changes>> /\ Proving!Running(w)
  BY DEF Proving!ExpectParent, Proving!HoldParent
<1>4. n \in 1 .. 25 BY <1>2, <1>3, RunsOrEnds
<1>5. n + 1 \in 0 .. 26 /\ home \in 0 .. 2 BY <1>1, <1>4
<1>6. PICK r \in JobRecord :
        /\ job' = [job EXCEPT ![w] = r] /\ r.at = n + 1
        /\ \/ n = 9 /\ r.expected = home
           \/ n = 10 /\ r.expected = job[w].expected /\ r.held = home
  <2>1. CASE Proving!ExpectParent(w)
    <3>1. PICK r : r = [job[w] EXCEPT !.expected = home, !.at = n + 1] OBVIOUS
    <3>2. r = [at |-> n + 1, built |-> job[w].built, expected |-> home, held |-> job[w].held,
               calm |-> job[w].calm]
      BY <1>1, <3>1 DEF JobRecord
    <3>3. job' = [job EXCEPT ![w] = r]
      BY <1>1, <1>2, <2>1, <3>1 DEF Proving!ExpectParent, JobRecord
    <3>4. n = 9 BY <1>2, <1>4, <2>1, RecorderCalls DEF Proving!ExpectParent
    <3>5. r \in JobRecord BY <1>1, <1>5, <3>2 DEF JobRecord
    <3> QED BY <3>2, <3>3, <3>4, <3>5
  <2>2. CASE Proving!HoldParent(w)
    <3>1. PICK r : r = [job[w] EXCEPT !.held = home, !.at = n + 1] OBVIOUS
    <3>2. r = [at |-> n + 1, built |-> job[w].built, expected |-> job[w].expected,
               held |-> home, calm |-> job[w].calm]
      BY <1>1, <3>1 DEF JobRecord
    <3>3. job' = [job EXCEPT ![w] = r]
      BY <1>1, <1>2, <2>2, <3>1 DEF Proving!HoldParent, JobRecord
    <3>4. n = 10 BY <1>2, <1>4, <2>2, RecorderCalls DEF Proving!HoldParent
    <3>5. r \in JobRecord BY <1>1, <1>5, <3>2 DEF JobRecord
    <3> QED BY <3>2, <3>3, <3>4, <3>5
  <2> QED BY <2>1, <2>2
<1>7. job'[w] = r BY <1>1, <1>6 DEF RecordIInv, RecordTypes
<1>8. WritesOnce(w) /\ HoldsParent(w) BY DEF RecordIInv
<1>9. WritesOnce(w)' BY <1>2, <1>3, <1>6, <1>7, <1>8 DEF WritesOnce
<1>10. HoldsParent(w)'
  BY <1>1, <1>2, <1>3, <1>6, <1>7, <1>8 DEF HoldsParent, Proving!Directory
<1>11. MadeInParent(w)' BY <1>6, <1>7 DEF MadeInParent
<1> QED BY <1>1, <1>3, <1>6, <1>9, <1>10, <1>11, Crews, OwnStep

\* Opening takes a name that nobody has, wherever the path leads.
LEMMA OpenTargetInv ==
  ASSUME RecordIInv, NEW w \in Recorder, Proving!OpenTarget(w)
  PROVE  RecordIInv'
<1> USE DEF Proving!OpenTarget, Proving!Makes, Proving!PathEntry, Proving!Failed
<1>1. w \in Proving!Run /\ job[w] \in JobRecord /\ home \in {1, 2}
  BY Crews DEF RecordIInv, RecordTypes, Proving!Directory
<1>2. UNCHANGED <<tree, home, kept, content, changes>> /\ job[w].at = 12
  <2>1. job[w].at \in 1 .. 25 BY RunsOrEnds
  <2> QED BY <2>1, RecorderCalls
<1>3. CASE entry[home] # Nobody
  <2>1. job' = [job EXCEPT ![w].at = 0] /\ UNCHANGED entry BY <1>3
  <2> QED BY <1>1, <1>2, <2>1, FailedStep
<1>4. CASE entry[home] = Nobody
  <2>1. entry' = [entry EXCEPT ![home] = w] BY <1>4
  <2>2. job' = [job EXCEPT ![w] = [job[w] EXCEPT !.at = 13]] BY <1>1, <1>2, <1>4 DEF JobRecord
  <2>3. /\ job'[w].at = 13 /\ job'[w].held = job[w].held
        /\ job'[w].expected = job[w].expected
        /\ \A u \in Proving!Run \ {w} : job'[u] = job[u]
    BY <1>1, <2>2 DEF RecordIInv, RecordTypes, JobRecord
  <2>4. RecordTypes'
    <3>1. [job[w] EXCEPT !.at = 13] \in JobRecord BY <1>1 DEF JobRecord
    <3>2. job' \in [Proving!Run -> JobRecord] BY <2>2, <3>1 DEF RecordIInv, RecordTypes
    <3>3. entry' \in [Proving!Directory -> Holder]
      BY <1>1, <2>1 DEF RecordIInv, RecordTypes, Holder
    <3> QED BY <1>2, <3>2, <3>3 DEF RecordIInv, RecordTypes
  <2>5. \A d \in {1, 2} : entry'[d] = IF d = home THEN w ELSE entry[d]
    BY <2>1 DEF RecordIInv, RecordTypes, Proving!Directory
  <2>6. ASSUME NEW u \in Recorder PROVE WritesOnce(u)' /\ HoldsParent(u)' /\ MadeInParent(u)'
    <3>1. WritesOnce(u) /\ HoldsParent(u) /\ MadeInParent(u) BY DEF RecordIInv
    <3>2. CASE u = w
      <4>1. WritesOnce(u)' BY <1>2, <2>3, <3>1, <3>2 DEF WritesOnce
      <4>2. HoldsParent(u)' BY <1>2, <2>3, <3>1, <3>2 DEF HoldsParent
      <4>3. job[w].held \in {1, 2} BY <1>2, <3>1, <3>2 DEF HoldsParent, Proving!Directory
      <4>4. home # job[w].held => changes >= 1
        BY <1>2, <3>1, <3>2 DEF MadeInParent, Enough, Turns, SawExchanged, RecordIInv, RecordTypes
      <4>5. home # job[w].held => Enough(w)'
        BY <1>2, <2>3, <4>4 DEF Enough, Turns, SawExchanged
      <4>6. entry'[job[w].held] = w \/ (entry'[3 - job[w].held] = w /\ home # job[w].held)
        BY <1>1, <2>5, <4>3
      <4>7. MadeInParent(u)' BY <2>3, <3>2, <4>5, <4>6 DEF MadeInParent
      <4> QED BY <4>1, <4>2, <4>7
    <3>3. CASE u # w
      <4>1. job'[u] = job[u] BY <2>3, <3>3, Crews
      <4>2. WritesOnce(u)' BY <1>2, <3>1, <4>1 DEF WritesOnce
      <4>3. HoldsParent(u)' BY <1>2, <3>1, <4>1 DEF HoldsParent
      <4>4. \A d \in {1, 2} : entry'[d] = u <=> entry[d] = u BY <1>4, <2>5, <3>3, Crews
      <4>5. job[u].at \in 13 .. 26 => job[u].held \in {1, 2} /\ 3 - job[u].held \in {1, 2}
        BY <3>1 DEF HoldsParent, Proving!Directory
      <4>6. Enough(u)' <=> Enough(u) BY <1>2, <4>1 DEF Enough
      <4>7. job[u].at \in 13 .. 26 =>
              /\ entry'[job[u].held] = u <=> entry[job[u].held] = u
              /\ entry'[3 - job[u].held] = u <=> entry[3 - job[u].held] = u
        BY <4>4, <4>5
      <4>8. MadeInParent(u)'
        <5>1. job[u].at = 12 => Enough(u)' BY <3>1, <4>6 DEF MadeInParent
        <5>2. job[u].at \in 13 .. 25 =>
                entry'[job[u].held] = u \/ (entry'[3 - job[u].held] = u /\ Enough(u)')
          BY <3>1, <4>6, <4>7 DEF MadeInParent
        <5>3. job[u].at = 26 => entry'[job[u].held] = u \/ changes >= 7
          BY <3>1, <4>7 DEF MadeInParent
        <5>4. job[u].at \in 24 .. 26 /\ entry'[job[u].held] = u => kept[job[u].held] = u
          BY <3>1, <4>7 DEF MadeInParent
        <5> QED BY <1>2, <4>1, <5>1, <5>2, <5>3, <5>4 DEF MadeInParent
      <4> QED BY <4>2, <4>3, <4>8
    <3> QED BY <3>2, <3>3
  <2>7. ASSUME NEW v \in Auditor PROVE StillSo(v)'
    <3>1. job'[v] = job[v] BY <2>3, Crews
    <3>2. StillSo(v) BY DEF RecordIInv
    <3>3. job[v].calm => ~(job[v].at >= 7) BY <1>4, <3>2, Crews DEF StillSo
    <3>4. job[v].at \in 0 .. 26 BY Crews DEF RecordIInv, RecordTypes, JobRecord
    <3> QED BY <1>2, <3>1, <3>2, <3>3, <3>4 DEF StillSo
  <2> QED BY <2>4, <2>6, <2>7 DEF RecordIInv
<1> QED BY <1>3, <1>4

\* A recorder's file changes: the bytes only while they are empty, before any audit can
\* have passed on them.
LEMMA FileStep ==
  ASSUME RecordIInv, NEW w \in Recorder, NEW r \in JobRecord,
         NEW c \in [bytes : Digests, synced : BOOLEAN],
         job' = [job EXCEPT ![w] = r], content' = [content EXCEPT ![w] = c],
         UNCHANGED <<tree, home, entry, kept, changes>>,
         c.bytes = content[w].bytes \/ content[w].bytes = Proving!Empty,
         WritesOnce(w)', HoldsParent(w)', MadeInParent(w)'
  PROVE  RecordIInv'
<1>1. /\ \A u \in Proving!Run \ {w} : job'[u] = job[u]
      /\ \A u \in Recorder : content'[u] = IF u = w THEN c ELSE content[u]
  BY DEF RecordIInv, RecordTypes
<1>2. RecordTypes' BY DEF RecordIInv, RecordTypes
<1>3. ASSUME NEW u \in Recorder PROVE WritesOnce(u)' /\ HoldsParent(u)' /\ MadeInParent(u)'
  <2>1. CASE u = w BY <2>1
  <2>2. CASE u # w
    <3>1. job'[u] = job[u] /\ content'[u] = content[u] BY <1>1, <2>2, Crews
    <3>2. WritesOnce(u) /\ HoldsParent(u) /\ MadeInParent(u) BY DEF RecordIInv
    <3>3. WritesOnce(u)' BY <3>1, <3>2 DEF WritesOnce
    <3>4. HoldsParent(u)' BY <3>1, <3>2 DEF HoldsParent
    <3>5. MadeInParent(u)' BY <3>1, <3>2 DEF MadeInParent, Enough
    <3> QED BY <3>3, <3>4, <3>5
  <2> QED BY <2>1, <2>2
<1>4. ASSUME NEW v \in Auditor PROVE StillSo(v)'
  <2>1. job'[v] = job[v] BY <1>1, Crews
  <2>2. StillSo(v) BY DEF RecordIInv
  <2>3. CASE job[v].calm /\ job[v].at >= 7
    <3>1. job[v].at \in Int BY Crews DEF RecordIInv, RecordTypes, JobRecord
    <3>2. job[v].built.pinned = 1 BY <2>2, <2>3, <3>1 DEF StillSo
    <3>3. job[v].built # Proving!Empty BY <3>2 DEF Proving!Empty
    <3>4. content[entry[home]].bytes = job[v].built /\ entry[home] \in Recorder
      BY <2>2, <2>3 DEF StillSo
    <3>5. content'[entry[home]].bytes = job[v].built BY <1>1, <3>3, <3>4
    <3> QED BY <2>1, <2>2, <3>4, <3>5 DEF StillSo
  <2>4. CASE ~(job[v].calm /\ job[v].at >= 7)
    <3>1. job[v].at \in Int BY Crews DEF RecordIInv, RecordTypes, JobRecord
    <3> QED BY <2>1, <2>2, <2>4, <3>1 DEF StillSo
  <2> QED BY <2>3, <2>4
<1> QED BY <1>2, <1>3, <1>4 DEF RecordIInv

LEMMA WriteInv ==
  ASSUME RecordIInv, NEW w \in Recorder, Proving!WriteRecord(w) \/ Proving!SyncRecord(w)
  PROVE  RecordIInv'
<1> USE DEF Proving!WriteRecord, Proving!SyncRecord, Proving!Makes
<1>1. /\ w \in Proving!Run /\ job[w] \in JobRecord
      /\ content[w] \in [bytes : Digests, synced : BOOLEAN]
  BY Crews DEF RecordIInv, RecordTypes
<1>2. PICK n : n = job[w].at OBVIOUS
<1>3. n \in 1 .. 25 BY <1>2, RunsOrEnds
<1>4. PICK r : r = [job[w] EXCEPT !.at = n + 1] OBVIOUS
<1>5. r \in JobRecord /\ r.at = n + 1 /\ r.built = job[w].built /\ r.held = job[w].held
      /\ r.expected = job[w].expected
  BY <1>1, <1>3, <1>4 DEF JobRecord
<1>6. job' = [job EXCEPT ![w] = r] BY <1>1, <1>2, <1>4 DEF JobRecord
<1>7. PICK c \in [bytes : Digests, synced : BOOLEAN] :
        /\ content' = [content EXCEPT ![w] = c]
        /\ \/ n = 21 /\ c.bytes = job[w].built
           \/ n = 22 /\ c.bytes = content[w].bytes /\ c.synced = TRUE
  <2>1. CASE Proving!WriteRecord(w)
    <3>1. n = 21 BY <1>2, <1>3, <2>1, RecorderCalls
    <3>2. PICK c : c = [bytes |-> job[w].built, synced |-> FALSE] OBVIOUS
    <3>3. c \in [bytes : Digests, synced : BOOLEAN] /\ c.bytes = job[w].built
      BY <1>1, <3>2 DEF JobRecord
    <3> QED BY <2>1, <3>1, <3>2, <3>3
  <2>2. CASE Proving!SyncRecord(w)
    <3>1. n = 22 BY <1>2, <1>3, <2>2, RecorderCalls
    <3>2. PICK c : c = [content[w] EXCEPT !.synced = TRUE] OBVIOUS
    <3>3. /\ c \in [bytes : Digests, synced : BOOLEAN]
          /\ c.bytes = content[w].bytes /\ c.synced = TRUE
      BY <1>1, <3>2
    <3> QED BY <2>2, <3>1, <3>2, <3>3
  <2> QED BY <2>1, <2>2
<1>8. UNCHANGED <<tree, home, entry, kept, changes>> OBVIOUS
<1>9. WritesOnce(w) /\ HoldsParent(w) /\ MadeInParent(w) BY DEF RecordIInv
<1>10. job'[w] = r /\ content'[w] = c BY <1>1, <1>6, <1>7 DEF RecordIInv, RecordTypes
<1>11. c.bytes = content[w].bytes \/ content[w].bytes = Proving!Empty
  BY <1>2, <1>7, <1>9 DEF WritesOnce
<1>12. WritesOnce(w)' BY <1>2, <1>5, <1>7, <1>9, <1>10 DEF WritesOnce
<1>13. HoldsParent(w)' BY <1>2, <1>5, <1>7, <1>9, <1>10 DEF HoldsParent
<1>14. MadeInParent(w)'
  <2>1. Enough(w) => Enough(w)'
    BY <1>2, <1>5, <1>7, <1>8, <1>10 DEF Enough, Turns, SawExchanged
  <2> QED BY <1>2, <1>5, <1>7, <1>8, <1>9, <1>10, <2>1 DEF MadeInParent
<1> QED BY <1>5, <1>6, <1>7, <1>8, <1>11, <1>12, <1>13, <1>14, FileStep

LEMMA SyncParentInv ==
  ASSUME RecordIInv, NEW w \in Recorder, Proving!SyncParent(w)
  PROVE  RecordIInv'
<1> USE DEF Proving!SyncParent, Proving!Makes
<1>1. w \in Proving!Run /\ job[w] \in JobRecord BY Crews DEF RecordIInv, RecordTypes
<1>2. job[w].at = 23
  <2>1. job[w].at \in 1 .. 25 BY RunsOrEnds
  <2> QED BY <2>1, RecorderCalls
<1>3. PICK r : r = [job[w] EXCEPT !.at = 24] OBVIOUS
<1>4. r \in JobRecord /\ r.at = 24 /\ r.built = job[w].built /\ r.held = job[w].held
      /\ r.expected = job[w].expected
  BY <1>1, <1>3 DEF JobRecord
<1>5. job' = [job EXCEPT ![w] = r] BY <1>1, <1>2, <1>3 DEF JobRecord
<1>6. job'[w] = r /\ \A u \in Proving!Run \ {w} : job'[u] = job[u]
  BY <1>1, <1>5 DEF RecordIInv, RecordTypes
<1>7. UNCHANGED <<tree, home, entry, content, changes>> OBVIOUS
<1>8. job[w].held \in Proving!Directory BY <1>2 DEF RecordIInv, HoldsParent
<1>9. kept' = [kept EXCEPT ![job[w].held] = entry[job[w].held]] OBVIOUS
<1>10. RecordTypes'
  <2>1. entry[job[w].held] \in Holder BY <1>8 DEF RecordIInv, RecordTypes
  <2>2. kept' \in [Proving!Directory -> Holder] BY <1>9, <2>1 DEF RecordIInv, RecordTypes
  <2> QED BY <1>4, <1>5, <1>7, <2>2 DEF RecordIInv, RecordTypes
<1>11. \A d \in Proving!Directory :
         kept'[d] = IF d = job[w].held THEN entry[d] ELSE kept[d]
  BY <1>8, <1>9 DEF RecordIInv, RecordTypes
<1>12. ASSUME NEW u \in Recorder PROVE WritesOnce(u)' /\ HoldsParent(u)' /\ MadeInParent(u)'
  <2>1. WritesOnce(u) /\ HoldsParent(u) /\ MadeInParent(u) BY DEF RecordIInv
  <2>2. CASE u = w
    <3>1. WritesOnce(u)' BY <1>2, <1>4, <1>6, <1>7, <2>1, <2>2 DEF WritesOnce
    <3>2. HoldsParent(u)' BY <1>2, <1>4, <1>6, <2>1, <2>2 DEF HoldsParent
    <3>3. Enough(w) => Enough(w)' BY <1>2, <1>4, <1>6, <1>7 DEF Enough, Turns, SawExchanged
    <3>4. MadeInParent(u)'
      BY <1>2, <1>4, <1>6, <1>7, <1>8, <1>11, <2>1, <2>2, <3>3 DEF MadeInParent
    <3> QED BY <3>1, <3>2, <3>4
  <2>3. CASE u # w
    <3>1. job'[u] = job[u] BY <1>6, <2>3, Crews
    <3>2. WritesOnce(u)' /\ HoldsParent(u)'
      BY <1>7, <2>1, <3>1 DEF WritesOnce, HoldsParent
    <3>3. job[u].at \in 24 .. 26 => job[u].held \in Proving!Directory BY <2>1 DEF HoldsParent
    <3>4. Enough(u)' <=> Enough(u) BY <1>7, <3>1 DEF Enough
    <3>5. MadeInParent(u)' BY <1>7, <1>11, <2>1, <3>1, <3>3, <3>4 DEF MadeInParent
    <3> QED BY <3>2, <3>5
  <2> QED BY <2>2, <2>3
<1>13. ASSUME NEW v \in Auditor PROVE StillSo(v)'
  <2>1. job'[v] = job[v] BY <1>6, Crews
  <2> QED BY <1>7, <2>1 DEF RecordIInv, StillSo
<1> QED BY <1>10, <1>12, <1>13 DEF RecordIInv

LEMMA StopInv ==
  ASSUME RecordIInv, NEW w \in Proving!Run, Proving!Stop(w)
  PROVE  RecordIInv'
<1>1. /\ UNCHANGED <<tree, home, entry, kept, changes>> /\ Proving!Running(w)
      /\ job' = [job EXCEPT ![w].at = 0]
  BY DEF Proving!Stop, Proving!Failed
<1>2. CASE UNCHANGED content BY <1>1, <1>2, FailedStep
<1>3. CASE Proving!Script(w)[job[w].at] = "write"
           /\ content' = [content EXCEPT ![w].bytes = Proving!Torn]
  <2>1. w \in Recorder
    <3>1. ASSUME w \in Auditor PROVE FALSE
      <4>1. job[w].at \in 1 .. 7 BY <1>1, <3>1, RunsOrEnds
      <4> QED BY <1>3, <3>1, <4>1, AuditCalls
    <3> QED BY <3>1, Crews
  <2>2. job[w].at = 21
    <3>1. job[w].at \in 1 .. 25 BY <1>1, <2>1, RunsOrEnds
    <3> QED BY <1>3, <2>1, <3>1, RecorderCalls
  <2>3. content[w] = [bytes |-> Proving!Empty, synced |-> TRUE]
    <3>1. WritesOnce(w) BY <2>1 DEF RecordIInv
    <3>2. job[w].at \in 1 .. 21 BY <2>2
    <3> QED BY <3>1, <3>2 DEF WritesOnce
  <2>4. PICK c : c = [content[w] EXCEPT !.bytes = Proving!Torn] OBVIOUS
  <2>5. c \in [bytes : Digests, synced : BOOLEAN]
    <3>1. Proving!Torn = [pinned |-> -1, manifest |-> 0, sbom |-> 0]
      BY DEF Proving!Torn, Proving!Empty
    <3>2. -1 \in Int /\ 0 \in Int OBVIOUS
    <3>3. Proving!Torn \in Digests BY <3>1, <3>2 DEF Digests
    <3>4. content[w] \in [bytes : Digests, synced : BOOLEAN]
      BY <2>1 DEF RecordIInv, RecordTypes
    <3> QED BY <2>4, <3>3, <3>4
  <2>6. content' = [content EXCEPT ![w] = c] BY <1>3, <2>4
  <2>7. PICK r : r = [job[w] EXCEPT !.at = 0] OBVIOUS
  <2>8. r \in JobRecord /\ r.at = 0 /\ job' = [job EXCEPT ![w] = r]
    BY <1>1, <2>7 DEF RecordIInv, RecordTypes, JobRecord
  <2>9. job'[w].at = 0 BY <2>8 DEF RecordIInv, RecordTypes
  <2>10. WritesOnce(w)' /\ HoldsParent(w)' /\ MadeInParent(w)'
    BY <2>9 DEF WritesOnce, HoldsParent, MadeInParent
  <2>11. content[w].bytes = Proving!Empty BY <2>3
  <2> QED BY <1>1, <2>1, <2>5, <2>6, <2>8, <2>10, <2>11, FileStep
<1> QED BY <1>2, <1>3 DEF Proving!Stop

\* Others: no run is calm after them that has made a call, and what a run has learnt it keeps.
LEMMA Disturbed ==
  ASSUME RecordIInv, NEW died \in SUBSET Proving!Run, Proving!Disturb(died)
  PROVE  /\ changes' = changes + 1 /\ changes < MaxEdits
         /\ job' \in [Proving!Run -> JobRecord]
         /\ \A u \in Proving!Run :
              /\ job'[u].built = job[u].built /\ job'[u].held = job[u].held
              /\ job'[u].expected = job[u].expected
              /\ job'[u].at = IF job[u].at # 1 /\ u \in died THEN 0 ELSE job[u].at
              /\ job'[u].calm => job[u].at = 1
<1>1. ASSUME NEW u \in Proving!Run
      PROVE  /\ job'[u] \in JobRecord
             /\ job'[u].built = job[u].built /\ job'[u].held = job[u].held
             /\ job'[u].expected = job[u].expected
             /\ job'[u].at = IF job[u].at # 1 /\ u \in died THEN 0 ELSE job[u].at
             /\ job'[u].calm => job[u].at = 1
  <2>1. job[u] \in JobRecord BY DEF RecordIInv, RecordTypes
  <2>2. ASSUME job[u].at = 1 PROVE Proving!Running(u)
    <3>1. job[u].at \in 1 .. 7 /\ job[u].at \in 1 .. 25 BY <2>2
    <3>2. u \in Auditor \/ u \in Recorder BY Crews
    <3> QED BY <3>1, <3>2, RunsOrEnds
  <2>3. CASE job[u].at = 1
    <3>1. job'[u] = job[u] BY <2>2, <2>3 DEF Proving!Disturb
    <3> QED BY <2>1, <2>3, <3>1
  <2>4. CASE job[u].at # 1
    <3>1. job'[u] = [job[u] EXCEPT !.calm = FALSE,
                                   !.at = IF u \in died THEN 0 ELSE job[u].at]
      BY <2>1, <2>4 DEF JobRecord, Proving!Disturb, Proving!Failed
    <3>2. PICK n : n = IF u \in died THEN 0 ELSE job[u].at OBVIOUS
    <3>3. n \in 0 .. 26
      <4>1. job[u].at \in 0 .. 26 BY <2>1 DEF JobRecord
      <4>2. CASE u \in died BY <3>2, <4>2
      <4>3. CASE u \notin died BY <3>2, <4>1, <4>3
      <4> QED BY <4>2, <4>3
    <3>4. job'[u] = [at |-> n, built |-> job[u].built, expected |-> job[u].expected,
                     held |-> job[u].held, calm |-> FALSE]
      BY <2>1, <3>1, <3>2 DEF JobRecord
    <3>5. job'[u] \in JobRecord BY <2>1, <3>3, <3>4 DEF JobRecord
    <3> QED BY <2>4, <3>2, <3>4, <3>5
  <2> QED BY <2>3, <2>4
<1>2. job' = [u \in Proving!Run |-> job'[u]] BY DEF Proving!Disturb
<1> QED BY <1>1, <1>2 DEF Proving!Disturb

\* Others change a part of the tree, exchange the directories or use the name.
LEMMA OthersInv ==
  ASSUME RecordIInv,
         Proving!Exchange \/ Proving!Intrude \/ \E f \in Proving!Part : Proving!Edit(f)
  PROVE  RecordIInv'
<1> USE DEF Proving!PathEntry
<1>1. Proving!Disturb({}) /\ UNCHANGED <<kept, content>>
  BY DEF Proving!Edit, Proving!Exchange, Proving!Intrude
<1>2. /\ changes' = changes + 1 /\ changes \in Nat
      /\ job' \in [Proving!Run -> JobRecord]
      /\ \A u \in Proving!Run :
           /\ job'[u].built = job[u].built /\ job'[u].held = job[u].held
           /\ job'[u].expected = job[u].expected /\ job'[u].at = job[u].at
           /\ job'[u].calm => job[u].at = 1
  BY <1>1, Disturbed DEF RecordIInv, RecordTypes
<1>3. home \in {1, 2} BY DEF RecordIInv, RecordTypes, Proving!Directory
<1>4. /\ tree' \in [Proving!Part -> Int] /\ home' \in {home, 3 - home}
      /\ entry' \in [Proving!Directory -> Holder]
      /\ \A u \in Recorder, d \in {1, 2} : entry'[d] = u <=> entry[d] = u
  <2>1. ASSUME NEW f \in Proving!Part, Proving!Edit(f)
        PROVE  tree' \in [Proving!Part -> Int] /\ UNCHANGED <<home, entry>>
    BY <2>1 DEF Proving!Edit, RecordIInv, RecordTypes
  <2>2. CASE Proving!Exchange
    BY <2>2 DEF Proving!Exchange, RecordIInv, RecordTypes
  <2>3. CASE Proving!Intrude
    <3>1. /\ entry[home] = Nobody /\ entry' = [entry EXCEPT ![home] = Proving!Somebody]
          /\ UNCHANGED <<tree, home>>
      BY <2>3 DEF Proving!Intrude
    <3>2. entry' \in [Proving!Directory -> Holder]
      BY <3>1 DEF RecordIInv, RecordTypes, Holder
    <3>3. \A d \in {1, 2} : entry'[d] = IF d = home THEN Proving!Somebody ELSE entry[d]
      BY <3>1 DEF RecordIInv, RecordTypes, Proving!Directory
    <3>4. \A u \in Recorder : u # Nobody /\ u # Proving!Somebody BY Crews
    <3>5. tree' \in [Proving!Part -> Int] BY <3>1 DEF RecordIInv, RecordTypes
    <3> QED BY <3>1, <3>2, <3>3, <3>4, <3>5
  <2> QED BY <2>1, <2>2, <2>3 DEF RecordIInv, RecordTypes
<1>5. RecordTypes'
  <2>1. home' \in Proving!Directory BY <1>3, <1>4 DEF Proving!Directory
  <2>2. changes' \in Nat BY <1>2
  <2> QED BY <1>1, <1>2, <1>4, <2>1, <2>2 DEF RecordIInv, RecordTypes
<1>6. ASSUME NEW u \in Recorder PROVE WritesOnce(u)' /\ HoldsParent(u)' /\ MadeInParent(u)'
  <2>1. WritesOnce(u) /\ HoldsParent(u) /\ MadeInParent(u) BY DEF RecordIInv
  <2>2. /\ job'[u].built = job[u].built /\ job'[u].held = job[u].held
        /\ job'[u].expected = job[u].expected /\ job'[u].at = job[u].at
    BY <1>2, Crews
  <2>3. WritesOnce(u)' BY <1>1, <2>1, <2>2 DEF WritesOnce
  <2>4. HoldsParent(u)' BY <2>1, <2>2 DEF HoldsParent
  <2>5. job[u].at \in 11 .. 26 => job[u].held \in {1, 2}
    BY <2>1 DEF HoldsParent, Proving!Directory
  <2>6. job[u].at \in 12 .. 26 /\ Enough(u) => Enough(u)'
    <3> SUFFICES ASSUME job[u].at \in 12 .. 26, Enough(u) PROVE Enough(u)'
      OBVIOUS
    <3>1. PICK t : t = Turns(job[u].at) OBVIOUS
    <3>2. t \in Nat BY <3>1 DEF Turns
    <3>3. IF home # job[u].held <=> SawExchanged(job[u].at)
          THEN changes >= t ELSE changes >= t + 1
      BY <3>1 DEF Enough
    <3>4. changes + 1 >= t BY <1>2, <3>2, <3>3
    <3>5. CASE home' = home
      <4>1. IF home' # job[u].held <=> SawExchanged(job[u].at)
            THEN changes + 1 >= t ELSE changes + 1 >= t + 1
        BY <1>2, <3>2, <3>3, <3>5
      <4> QED BY <1>2, <2>2, <3>1, <4>1 DEF Enough
    <3>6. CASE home' # home
      <4>1. home' = 3 - home BY <1>4, <3>6
      <4>2. home' # job[u].held <=> ~(home # job[u].held) BY <1>3, <2>5, <4>1
      <4>3. IF home' # job[u].held <=> SawExchanged(job[u].at)
            THEN changes + 1 >= t ELSE changes + 1 >= t + 1
        BY <1>2, <3>2, <3>3, <4>2
      <4> QED BY <1>2, <2>2, <3>1, <4>3 DEF Enough
    <3> QED BY <3>5, <3>6
  <2>7. job[u].at \in 13 .. 26 =>
          /\ entry'[job[u].held] = u <=> entry[job[u].held] = u
          /\ entry'[3 - job[u].held] = u <=> entry[3 - job[u].held] = u
    <3>1. job[u].held \in {1, 2} => 3 - job[u].held \in {1, 2} OBVIOUS
    <3> QED BY <1>4, <2>5, <3>1
  <2>8. MadeInParent(u)'
    <3>1. job[u].at = 12 => Enough(u)' BY <2>1, <2>6 DEF MadeInParent
    <3>2. job[u].at \in 13 .. 25 =>
            entry'[job[u].held] = u \/ (entry'[3 - job[u].held] = u /\ Enough(u)')
      BY <2>1, <2>6, <2>7 DEF MadeInParent
    <3>3. job[u].at = 26 => entry'[job[u].held] = u \/ changes' >= 7
      BY <1>2, <2>1, <2>7 DEF MadeInParent
    <3>4. job[u].at \in 24 .. 26 /\ entry'[job[u].held] = u => kept[job[u].held] = u
      BY <2>1, <2>7 DEF MadeInParent
    <3> QED BY <1>1, <2>2, <3>1, <3>2, <3>3, <3>4 DEF MadeInParent
  <2> QED BY <2>3, <2>4, <2>8
<1>7. ASSUME NEW v \in Auditor PROVE StillSo(v)'
  <2>1. job'[v].calm => job'[v].at = 1 BY <1>2, Crews
  <2> QED BY <2>1 DEF StillSo
<1> QED BY <1>5, <1>6, <1>7 DEF RecordIInv

\* The power fails: no run but those that have not begun or are done goes on, and the name
\* of a finished record has been synced.
LEMMA RecordPowerInv ==
  ASSUME RecordIInv, Proving!PowerLoss
  PROVE  RecordIInv'
<1>1. PICK died \in SUBSET Proving!Run :
        died = {w \in Proving!Run : Proving!Running(w)} /\ Proving!Disturb(died)
  BY DEF Proving!PowerLoss
<1>2. /\ changes' = changes + 1
      /\ job' \in [Proving!Run -> JobRecord]
      /\ \A u \in Proving!Run :
           /\ job'[u].built = job[u].built /\ job'[u].held = job[u].held
           /\ job'[u].expected = job[u].expected
           /\ job'[u].at = IF job[u].at # 1 /\ u \in died THEN 0 ELSE job[u].at
           /\ job'[u].calm => job[u].at = 1
  BY <1>1, Disturbed
<1>3. PICK lost \in SUBSET Proving!Directory :
        entry' = [d \in Proving!Directory |-> IF d \in lost THEN kept[d] ELSE entry[d]]
  BY DEF Proving!PowerLoss
<1>4. kept' = entry' /\ UNCHANGED <<tree, home>> BY DEF Proving!PowerLoss
<1>5. content' = [w \in Recorder |->
                    IF content[w].synced THEN content[w]
                    ELSE [bytes |-> Proving!Torn, synced |-> TRUE]]
  BY DEF Proving!PowerLoss
<1>6. RecordTypes'
  <2>1. entry' \in [Proving!Directory -> Holder] BY <1>3 DEF RecordIInv, RecordTypes
  <2>2. [bytes |-> Proving!Torn, synced |-> TRUE] \in [bytes : Digests, synced : BOOLEAN]
    <3>1. Proving!Torn = [pinned |-> -1, manifest |-> 0, sbom |-> 0]
      BY DEF Proving!Torn, Proving!Empty
    <3>2. -1 \in Int /\ 0 \in Int OBVIOUS
    <3>3. Proving!Torn \in Digests BY <3>1, <3>2 DEF Digests
    <3> QED BY <3>3
  <2>3. content' \in [Recorder -> [bytes : Digests, synced : BOOLEAN]]
    BY <1>5, <2>2 DEF RecordIInv, RecordTypes
  <2>4. changes' \in Nat BY <1>2 DEF RecordIInv, RecordTypes
  <2> QED BY <1>2, <1>4, <2>1, <2>3, <2>4 DEF RecordIInv, RecordTypes
<1>7. ASSUME NEW u \in Recorder PROVE WritesOnce(u)' /\ HoldsParent(u)' /\ MadeInParent(u)'
  <2>1. WritesOnce(u) /\ HoldsParent(u) /\ MadeInParent(u) BY DEF RecordIInv
  <2>2. job[u].at \in 0 .. 26 BY Crews DEF RecordIInv, RecordTypes, JobRecord
  <2>3. Proving!Running(u) <=> job[u].at \in 1 .. 25 BY RunsOrEnds
  <2>4. /\ job'[u].at \in {0, 1, 26}
        /\ job'[u].at # 0 => job'[u].at = job[u].at
        /\ job'[u].built = job[u].built /\ job'[u].held = job[u].held
        /\ job'[u].expected = job[u].expected
    BY <1>1, <1>2, <2>2, <2>3, Crews
  <2>5. content[u].synced => content'[u] = content[u] BY <1>5
  <2>6. WritesOnce(u)' BY <2>1, <2>4, <2>5 DEF WritesOnce
  <2>7. HoldsParent(u)' BY <2>1, <2>4 DEF HoldsParent
  <2>8. MadeInParent(u)'
    <3>1. job[u].at = 26 => job[u].held \in Proving!Directory BY <2>1 DEF HoldsParent
    <3>2. job[u].at = 26 /\ entry[job[u].held] = u => entry'[job[u].held] = u
      BY <1>3, <2>1, <3>1 DEF MadeInParent
    <3>3. changes >= 7 => changes' >= 7 BY <1>2 DEF RecordIInv, RecordTypes
    <3>4. job'[u].at = 26 => entry'[job[u].held] = u \/ changes' >= 7
      BY <2>1, <2>4, <3>2, <3>3 DEF MadeInParent
    <3>5. kept'[job'[u].held] = entry'[job'[u].held] BY <1>4
    <3>6. job'[u].at \notin 12 .. 25 BY <2>4
    <3> QED BY <2>4, <3>4, <3>5, <3>6 DEF MadeInParent
  <2> QED BY <2>6, <2>7, <2>8
<1>8. ASSUME NEW v \in Auditor PROVE StillSo(v)'
  <2>1. job'[v].calm => job'[v].at = 1 BY <1>2, Crews
  <2> QED BY <2>1 DEF StillSo
<1> QED BY <1>6, <1>7, <1>8 DEF RecordIInv

LEMMA RecordNextInv ==
  ASSUME RecordIInv, Proving!ProvenanceNext \/ UNCHANGED proving
  PROVE  RecordIInv'
<1>1. CASE UNCHANGED proving
  BY <1>1 DEF proving, RecordIInv, RecordTypes, WritesOnce, HoldsParent, MadeInParent, Enough,
              StillSo
<1>2. CASE Proving!ProvenanceNext
  <2>1. ASSUME NEW w \in Proving!Run,
               \/ Proving!CheckPinned(w) \/ Proving!Walk(w) \/ Proving!CompareSbom(w)
        PROVE  RecordIInv'
    BY <2>1, LooksInv DEF Looks
  <2>2. ASSUME NEW v \in Auditor, Proving!CompareRecord(v) PROVE RecordIInv'
    BY <2>2, LooksInv, Crews DEF Looks
  <2>3. ASSUME NEW w \in Recorder,
               \/ Proving!ListParent(w) \/ Proving!Revalidate(w) \/ Proving!LookUp(w)
               \/ Proving!Resolve(w) \/ Proving!VerifyRecord(w)
        PROVE  RecordIInv'
    BY <2>3, LooksInv, Crews DEF Looks
  <2> QED
    BY <1>2, <2>1, <2>2, <2>3, BuildsInv, ParentInv, OpenTargetInv, WriteInv, SyncParentInv, StopInv,
       OthersInv, RecordPowerInv DEF Proving!ProvenanceNext
<1> QED BY <1>1, <1>2

LEMMA VerifiedFollows == RecordIInv => Proving!VerifiedIsTrue
<1> SUFFICES ASSUME RecordIInv, NEW v \in Auditor, Proving!Finished(v), job[v].calm
             PROVE  /\ Proving!PathEntry \in Recorder
                    /\ content[Proving!PathEntry].bytes = Proving!Truth
                    /\ tree["sbom"] = tree["manifest"]
                    /\ Proving!Reviewed("stray")
  BY DEF Proving!VerifiedIsTrue
<1>1. job[v].at = 8 BY RunsOrEnds
<1>2. StillSo(v) /\ job[v].built \in Digests
  BY Crews DEF RecordIInv, RecordTypes, JobRecord
<1>3. /\ tree["pinned"] = 1 /\ tree["stray"] = 1 /\ job[v].built.sbom = tree["manifest"]
      /\ job[v].built.pinned = 1 /\ job[v].built.manifest = tree["manifest"]
      /\ entry[home] \in Recorder /\ content[entry[home]].bytes = job[v].built
      /\ tree["sbom"] = job[v].built.sbom
  BY <1>1, <1>2 DEF StillSo
<1>4. job[v].built = Proving!Truth BY <1>2, <1>3 DEF Digests, Proving!Truth
<1> QED BY <1>3, <1>4 DEF Proving!PathEntry, Proving!Reviewed

LEMMA CreatedFollows == RecordIInv /\ changes < 7 => Proving!CreatedOnce
<1> SUFFICES ASSUME RecordIInv, changes < 7, NEW w \in Recorder, Proving!Finished(w)
             PROVE  /\ entry[job[w].held] = w /\ kept[job[w].held] = w
                    /\ content[w] = [bytes |-> job[w].built, synced |-> TRUE]
  BY DEF Proving!CreatedOnce
<1>1. job[w].at = 26 BY RunsOrEnds
<1>2. WritesOnce(w) /\ MadeInParent(w) BY DEF RecordIInv
<1>3. content[w] \in [bytes : Digests, synced : BOOLEAN] BY DEF RecordIInv, RecordTypes
<1>4. content[w] = [bytes |-> job[w].built, synced |-> TRUE]
  <2>1. content[w].bytes = job[w].built /\ content[w].synced BY <1>1, <1>2 DEF WritesOnce
  <2>2. content[w].synced = TRUE BY <1>3, <2>1
  <2> QED BY <1>3, <2>1, <2>2
<1>5. changes \in Nat BY DEF RecordIInv, RecordTypes
<1>6. entry[job[w].held] = w /\ kept[job[w].held] = w
  BY <1>1, <1>2, <1>5 DEF MadeInParent
<1> QED BY <1>4, <1>6

\* An audit that passes on a tree nobody touched found the true record of that tree, whatever
\* the runs that made, raced for or tore a record did, and however often the tree was changed.
THEOREM VerifiedSound == ToolingSpec => []Proving!VerifiedIsTrue
<1>1. ToolingInit => RecordIInv BY RecordInitInv DEF ToolingInit
<1>2. RecordIInv /\ [ToolingNext]_toolingVars => RecordIInv'
  BY RecordNextInv DEF ToolingNext, Prove, toolingVars
<1> QED BY <1>1, <1>2, VerifiedFollows, PTL DEF ToolingSpec

\* A record reported as created is whole, under its name and durable, unless others changed
\* something seven times while it was made: the calls between the opening and the report look
\* at the directory and at the name in turn, and to find each where it is expected the two
\* directories have to change places before every such look.
THEOREM CreatedSound == ToolingSpec => [](changes < 7 => Proving!CreatedOnce)
<1>1. ToolingInit => RecordIInv BY RecordInitInv DEF ToolingInit
<1>2. RecordIInv /\ [ToolingNext]_toolingVars => RecordIInv'
  BY RecordNextInv DEF ToolingNext, Prove, toolingVars
<1>3. RecordIInv => (changes < 7 => Proving!CreatedOnce) BY CreatedFollows
<1> QED BY <1>1, <1>2, <1>3, PTL DEF ToolingSpec

LEMMA ChangesBounded ==
  ASSUME changes \in Nat, changes <= MaxEdits, Proving!ProvenanceNext \/ UNCHANGED proving
  PROVE  changes' \in Nat /\ changes' <= MaxEdits
<1>1. MaxEdits \in Nat BY ToolsAssumption DEF ToolsAssumption, Proving!ProvenanceAssumption
<1>2. UNCHANGED changes \/ (changes' = changes + 1 /\ changes < MaxEdits)
  <2> USE DEF Proving!Observes, Proving!Learns, Proving!Disturb
  <2>1. ASSUME NEW w \in Proving!Run,
               \/ Proving!CheckPinned(w) \/ Proving!Walk(w) \/ Proving!ReadManifest(w)
               \/ Proving!HashPinned(w) \/ Proving!HashManifest(w) \/ Proving!CompareSbom(w)
               \/ Proving!Stop(w)
        PROVE  UNCHANGED changes
    BY <2>1 DEF Proving!CheckPinned, Proving!Walk, Proving!ReadManifest, Proving!HashPinned,
                Proving!HashManifest, Proving!CompareSbom, Proving!Stop
  <2>2. ASSUME NEW v \in Auditor, Proving!CompareRecord(v) PROVE UNCHANGED changes
    BY <2>2 DEF Proving!CompareRecord
  <2>3. ASSUME NEW w \in Recorder,
               \/ Proving!ListParent(w) \/ Proving!ExpectParent(w) \/ Proving!HoldParent(w)
               \/ Proving!Revalidate(w) \/ Proving!OpenTarget(w) \/ Proving!LookUp(w)
               \/ Proving!Resolve(w) \/ Proving!WriteRecord(w) \/ Proving!SyncRecord(w)
               \/ Proving!SyncParent(w) \/ Proving!VerifyRecord(w)
        PROVE  UNCHANGED changes
    BY <2>3 DEF Proving!ListParent, Proving!ExpectParent, Proving!HoldParent,
                Proving!Revalidate, Proving!OpenTarget, Proving!LookUp, Proving!Resolve,
                Proving!WriteRecord, Proving!SyncRecord, Proving!SyncParent,
                Proving!VerifyRecord
  <2>4. ASSUME \/ \E f \in Proving!Part : Proving!Edit(f)
               \/ Proving!Exchange \/ Proving!Intrude \/ Proving!PowerLoss
        PROVE  changes' = changes + 1 /\ changes < MaxEdits
    BY <2>4 DEF Proving!Edit, Proving!Exchange, Proving!Intrude, Proving!PowerLoss
  <2> QED BY <2>1, <2>2, <2>3, <2>4 DEF Proving!ProvenanceNext, proving
<1> QED BY <1>1, <1>2

\* The three together, as the run checks them, where others change something less than seven
\* times in all.
THEOREM EvidenceSoundThroughout ==
  ASSUME MaxEdits < 7
  PROVE  ToolingSpec => []EvidenceIsTrue
<1> DEFINE I == /\ EvidenceIInv /\ FinalizeIInv /\ RecordIInv
                /\ changes \in Nat /\ changes <= MaxEdits
<1>1. MaxEdits \in Nat BY ToolsAssumption DEF ToolsAssumption, Proving!ProvenanceAssumption
<1>2. ToolingInit => I
  <2>1. ToolingInit => changes \in Nat /\ changes <= MaxEdits
    BY <1>1 DEF ToolingInit, Proving!ProvenanceInit
  <2> QED BY <2>1, EvidenceInitInv, FinalizeInitInv, RecordInitInv DEF ToolingInit
<1>3. I /\ [ToolingNext]_toolingVars => I'
  <2> SUFFICES ASSUME I, [ToolingNext]_toolingVars PROVE I'
    OBVIOUS
  <2>1. EvidenceIInv' BY EvidenceNextInv DEF ToolingNext, Record, toolingVars
  <2>2. FinalizeIInv' BY FinalizeNextInv DEF ToolingNext, Finalize, toolingVars
  <2>3. Proving!ProvenanceNext \/ UNCHANGED proving BY DEF ToolingNext, Prove, toolingVars
  <2>4. RecordIInv' BY <2>3, RecordNextInv
  <2>5. changes' \in Nat /\ changes' <= MaxEdits BY <2>3, ChangesBounded
  <2> QED BY <2>1, <2>2, <2>4, <2>5
<1>4. I => EvidenceIsTrue
  <2> SUFFICES ASSUME I PROVE EvidenceIsTrue
    OBVIOUS
  <2>1. changes < 7 BY <1>1
  <2>2. Proving!CreatedOnce BY <2>1, CreatedFollows
  <2> QED BY <2>2, EvidenceFollows, FinalizeFollows, VerifiedFollows
      DEF EvidenceIsTrue, Proving!RecordInv
<1> QED BY <1>2, <1>3, <1>4, PTL DEF ToolingSpec
=============================================================================
