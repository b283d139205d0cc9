---------------------------- MODULE AccessProofs ----------------------------
(***************************************************************************)
(* Theorems about the services that decide who may read and write what,    *)
(* and about the stores they guard: for every set of rows, requests,       *)
(* tokens and services, every limit and every depth of nested calls.       *)
(***************************************************************************)
EXTENDS TenantContext, Authentication, TenantReads, TenantTables, EventRevisions,
        FiniteSetTheorems, SequenceTheorems, TLAPS

---------------------------------------------------------------------------
(* The tenant context (TenantContext).                                     *)

\* The authority a frame decides about: read by an issuance, bound by a validation.
Known(f) == IF f.op = "issue" THEN f.authority ELSE contexts[f.context].authority

AuthoritySeen(f) == f.pc \notin {"ids", "capture", "lookup", "first"}
ActorSeen(f) ==
  f.pc \in IF f.op = "issue" THEN {"workload", "recheck", "bind"} ELSE {"last", "valid"}
WorkloadSeen(f) ==
  f.pc \in IF f.op = "issue" THEN {"recheck", "bind"} ELSE {"actor", "last", "valid"}

\* What a frame has found out so far, of one plane.
Seen(p, f) ==
  LET a == Known(f)
  IN /\ AuthoritySeen(f) =>
          p.authority[f.intent] = a /\ Readable(a) /\ a.mode = Mode(f.actor) /\ a.expires > f.now
     /\ ActorSeen(f) => ActorAllowed(p, a, f.actor, f.now)
     /\ WorkloadSeen(f) => WorkloadAllowed(p, a, f.workload, f.now)

IssuePcs == {"ids", "capture", "lookup", "actor", "workload", "recheck", "bind"}
ValidatePcs == {"first", "lookup", "workload", "actor", "last", "valid"}

\* While the generation a frame captured is the current one, everything it saw
\* holds of that generation; once it was rechecked, for ever.
FrameOK(f) ==
  /\ f.gen <= Generation /\ f.started \in 1 .. Generation
  /\ f.op = "issue" =>
       /\ f.pc \in IssuePcs
       /\ f.pc \notin {"ids", "capture"} => f.gen >= 1
       /\ f.pc # "ids" => f.ids \in Tuples /\ WellFormed(f.ids)
       /\ AuthoritySeen(f) => f.authority \in AuthorityType
  /\ f.op = "validate" =>
       /\ f.pc \in ValidatePcs
       /\ f.context \in DOMAIN contexts
       /\ LET x == contexts[f.context]
          IN /\ f.gen = x.gen /\ f.intent = x.intent /\ f.actor = x.actor
             /\ f.workload = x.workload /\ x.expires > f.now
       /\ f.gen <= f.started
       /\ f.pc # "first" => f.started = f.gen
  /\ f.gen >= 1 /\ (f.gen = Generation \/ f.pc \in {"bind", "valid"}) => Seen(planes[f.gen], f)

UsedInv ==
  /\ \A c \in DOMAIN contexts : contexts[c].ids \subseteq usedIds
  /\ IdentifiersUsedOnce /\ IssuedWithinBound

ContextInv ==
  \A c \in DOMAIN contexts :
    LET x == contexts[c]
    IN /\ x.expires <= x.authority.expires
       /\ Permits(planes[x.gen], x.intent, x.authority, x.actor, x.workload, x.issuedAt)

FrameInv == \A d \in DOMAIN stack : FrameOK(stack[d])

IInv == TypeOK /\ UsedInv /\ ContextInv /\ FrameInv

USE TenantAssumption, AuthorityAssumption

----------------------------------------------------------------------------
(* Operators                                                               *)

\* The front of a stack keeps all frames but the last.
LEMMA FrontFacts ==
  ASSUME NEW S, NEW q \in Seq(S), q # <<>>
  PROVE  /\ Front(q) \in Seq(S) /\ Len(Front(q)) = Len(q) - 1
         /\ \A d \in DOMAIN Front(q) : d \in DOMAIN q /\ Front(q)[d] = q[d]
         /\ Last(q) = q[Len(q)] /\ Last(q) \in S /\ Len(q) \in DOMAIN q
<1>1. Len(q) \in Nat \ {0} /\ Len(q) \in DOMAIN q /\ \A d \in 1 .. Len(q) : q[d] \in S
  OBVIOUS
<1>2. Front(q) = [d \in 1 .. Len(q) - 1 |-> q[d]]
  BY <1>1 DEF Front
<1>3. Front(q) \in Seq(S) /\ Len(Front(q)) = Len(q) - 1 /\ DOMAIN Front(q) = 1 .. Len(q) - 1
  BY <1>1, <1>2
<1> QED BY <1>1, <1>2, <1>3 DEF Last

\* A plane and the current generation have their types.
LEMMA PlaneFacts ==
  ASSUME TypeOK
  PROVE  Plane \in PlaneType /\ Generation \in Nat \ {0} /\ \A g \in 1 .. Generation : planes[g] \in PlaneType
BY DEF TypeOK, Plane, Generation

\* The expiry of a context is a time, and not after the end of its authority.
LEMMA ExpiryFacts ==
  ASSUME NEW a \in AuthorityType, NEW actor \in ActorType, NEW w \in Workloads
  PROVE  EffectiveExpiry(a, actor, w) \in Nat /\ EffectiveExpiry(a, actor, w) <= a.expires
<1> DEFINE S == {a.expires, ActorExpiry(actor), ServiceExpiry[w]}
<1>1. S \subseteq Nat BY DEF ActorExpiry, ActorType, AuthorityType
<1>2. \E x \in S : \A y \in S : x <= y BY <1>1
<1>3. Least(S) \in S /\ \A y \in S : Least(S) <= y BY <1>2 DEF Least
<1> QED BY <1>1, <1>3 DEF EffectiveExpiry

----------------------------------------------------------------------------
(* The shapes of a step                                                    *)

\* The initial state satisfies the invariant.
LEMMA InitInv == Init => IInv
<1> SUFFICES ASSUME Init PROVE IInv
  OBVIOUS
<1>1. PICK a \in [Intents -> Authorities] :
        planes = <<[authority |-> a, revision |-> 1, epoch |-> 1, membershipRevoked |-> FALSE,
                    credentialRevoked |-> FALSE, sessionStale |-> FALSE, revokedServices |-> {}]>>
  BY DEF Init
<1>2. planes \in Seq(PlaneType) /\ planes # <<>> BY <1>1 DEF PlaneType
<1> QED BY <1>2 DEF Init, IInv, TypeOK, UsedInv, ContextInv, FrameInv, IdentifiersUsedOnce,
                    IssuedWithinBound, Issued

\* A change of the plane: every captured generation is now an old one.
LEMMA ChangeInv ==
  ASSUME IInv, NEW p \in PlaneType, Change(p)
  PROVE  IInv'
<1>1. /\ planes' = Append(planes, p) /\ Generation' = Generation + 1
      /\ \A g \in 1 .. Generation : planes'[g] = planes[g]
      /\ UNCHANGED <<memberships, contexts, invalidated, usedIds, stack>>
  BY DEF Change, IInv, TypeOK, Generation
<1>2. Generation \in Nat \ {0} BY PlaneFacts DEF IInv
<1>3. TypeOK'
  <2>1. planes \in Seq(PlaneType) BY DEF IInv, TypeOK
  <2>2. planes' \in Seq(PlaneType) /\ planes' # <<>> BY <1>1, <2>1
  <2>3. \A c \in DOMAIN contexts : contexts[c].gen \in 1 .. Generation /\ Cardinality(contexts[c].ids) = 3
    BY DEF IInv, TypeOK
  <2>4. \A d \in DOMAIN stack : stack[d] \in FrameType /\ stack[d].gen <= Generation
                                /\ stack[d].started \in 1 .. Generation
    BY DEF IInv, TypeOK
  <2>5. \A d \in DOMAIN stack : stack[d].gen <= Generation' /\ stack[d].started \in 1 .. Generation'
    BY <2>4, <1>1, <1>2 DEF FrameType
  <2>6. \A c \in DOMAIN contexts : contexts[c].gen \in 1 .. Generation'
    BY <2>3, <1>1, <1>2
  <2> QED BY <1>1, <2>2, <2>3, <2>5, <2>6 DEF IInv, TypeOK, WellFormed
<1>4. UsedInv' BY <1>1 DEF IInv, UsedInv, IdentifiersUsedOnce, IssuedWithinBound, Issued
<1>5. ContextInv'
  <2>1. \A c \in DOMAIN contexts : planes'[contexts[c].gen] = planes[contexts[c].gen]
    BY <1>1 DEF IInv, TypeOK
  <2> QED BY <1>1, <2>1 DEF IInv, ContextInv, Permits, ActorAllowed, WorkloadAllowed
<1>6. FrameInv'
  <2> SUFFICES ASSUME NEW d \in DOMAIN stack PROVE FrameOK(stack[d])'
    BY <1>1 DEF FrameInv
  <2>1. FrameOK(stack[d]) /\ stack[d] \in FrameType BY DEF IInv, FrameInv, TypeOK
  <2>2. planes'[stack[d].gen] = planes[stack[d].gen] \/ stack[d].gen = 0
    <3>1. stack[d].gen \in Nat /\ stack[d].gen <= Generation
      BY <2>1 DEF FrameOK, FrameType
    <3>2. stack[d].gen \in 1 .. Generation \/ stack[d].gen = 0 BY <3>1, <1>2
    <3> QED BY <3>2, <1>1
  <2>3. /\ stack[d].gen <= Generation' /\ stack[d].gen # Generation'
        /\ stack[d].started \in 1 .. Generation'
    BY <2>1, <1>1, <1>2 DEF FrameOK, FrameType
  <2>4. Seen(planes[stack[d].gen], stack[d])' <=> Seen(planes'[stack[d].gen], stack[d])
    BY <1>1 DEF Seen, Known
  <2>5. stack[d].gen >= 1 /\ stack[d].pc \in {"bind", "valid"} => Seen(planes[stack[d].gen], stack[d])
    BY <2>1 DEF FrameOK
  <2>6. stack[d].gen >= 1 /\ stack[d].pc \in {"bind", "valid"} => Seen(planes'[stack[d].gen], stack[d])
    BY <2>5, <2>2, <2>1 DEF FrameType
  <2> QED BY <2>1, <2>3, <2>4, <2>6, <1>1 DEF FrameOK
<1> QED BY <1>3, <1>4, <1>5, <1>6 DEF IInv

\* A step that touches only the stack and the invalidated contexts, and leaves
\* sound frames, preserves the invariant.
LEMMA StackInv ==
  ASSUME IInv, UNCHANGED <<planes, memberships, contexts, usedIds>>,
         invalidated' \subseteq DOMAIN contexts, stack' \in Seq(FrameType),
         \A d \in DOMAIN stack' : FrameOK(stack'[d])
  PROVE  IInv'
<1>1. TypeOK' BY DEF IInv, TypeOK, Generation, FrameOK
<1>2. UsedInv' BY DEF IInv, UsedInv, IdentifiersUsedOnce, IssuedWithinBound, Issued
<1>3. ContextInv' BY DEF IInv, ContextInv
<1>4. FrameInv' BY DEF FrameInv, FrameOK, Generation, Seen, Known
<1> QED BY <1>1, <1>2, <1>3, <1>4 DEF IInv

\* A call ends.
LEMMA ReturnInv ==
  ASSUME IInv, UNCHANGED <<planes, memberships, contexts, usedIds>>, stack # <<>>,
         invalidated' \subseteq DOMAIN contexts, Return
  PROVE  IInv'
<1>1. stack \in Seq(FrameType) /\ \A d \in DOMAIN stack : FrameOK(stack[d])
  BY DEF IInv, TypeOK, FrameInv
<1>2. stack' \in Seq(FrameType) /\ \A d \in DOMAIN stack' : FrameOK(stack'[d])
  BY <1>1, FrontFacts DEF Return
<1> QED BY <1>2, StackInv

\* The top frame becomes another sound one.
LEMMA BecomeInv ==
  ASSUME IInv, UNCHANGED <<planes, memberships, contexts, usedIds>>, stack # <<>>,
         invalidated' \subseteq DOMAIN contexts,
         NEW f \in FrameType, FrameOK(f), Become(f)
  PROVE  IInv'
<1>1. stack \in Seq(FrameType) /\ \A d \in DOMAIN stack : FrameOK(stack[d])
  BY DEF IInv, TypeOK, FrameInv
<1>2. stack' \in Seq(FrameType) /\ \A d \in DOMAIN stack' : FrameOK(stack'[d])
  BY <1>1 DEF Become
<1> QED BY <1>2, StackInv

\* A call starts.
LEMMA PushInv ==
  ASSUME IInv, UNCHANGED <<planes, memberships, contexts, usedIds, invalidated>>,
         NEW f \in FrameType, FrameOK(f), stack' = Append(stack, f)
  PROVE  IInv'
<1>1. stack \in Seq(FrameType) /\ \A d \in DOMAIN stack : FrameOK(stack[d])
  BY DEF IInv, TypeOK, FrameInv
<1>2. stack' \in Seq(FrameType) /\ \A d \in DOMAIN stack' : FrameOK(stack'[d])
  BY <1>1
<1>3. invalidated \subseteq DOMAIN contexts BY DEF IInv, TypeOK
<1> QED BY <1>2, <1>3, StackInv
----------------------------------------------------------------------------
(* The authority plane                                                     *)

\* Every operation on the plane leaves a plane.
LEMMA AuthorityInv ==
  ASSUME IInv, AuthorityNext
  PROVE  IInv'
<1>1. Plane \in PlaneType BY PlaneFacts DEF IInv
<1>a. Plane.revision + 1 \in Nat BY <1>1 DEF PlaneType
<1> USE <1>1, <1>a DEF PlaneType
<1>2. ASSUME NEW i \in Intents, DeleteAuthority(i) PROVE IInv'
  <2>1. [Plane EXCEPT !.authority[i] = Deleted] \in PlaneType OBVIOUS
  <2> QED BY <2>1, <1>2, ChangeInv DEF DeleteAuthority
<1>3. ASSUME NEW i \in Intents, RevokeAuthority(i) PROVE IInv'
  <2>1. Plane.authority[i] \in AuthorityType BY <1>3 DEF RevokeAuthority
  <2>2. [Plane.authority[i] EXCEPT !.revoked = TRUE] \in AuthorityType
    BY <2>1 DEF AuthorityType
  <2>3. [Plane EXCEPT !.authority[i].revoked = TRUE] \in PlaneType BY <2>2
  <2> QED BY <2>3, <1>3, ChangeInv DEF RevokeAuthority
<1>4. ASSUME NEW i \in Intents, NEW a \in Authorities, ReplaceAuthority(i, a) PROVE IInv'
  <2>1. [Plane EXCEPT !.authority[i] = a] \in PlaneType OBVIOUS
  <2> QED BY <2>1, <1>4, ChangeInv DEF ReplaceAuthority
<1>5. CASE RevokePrincipal
  <2>1. [Plane EXCEPT !.credentialRevoked = TRUE, !.revision = @ + 1] \in PlaneType BY Zenon
  <2> QED BY <2>1, <1>5, ChangeInv DEF RevokePrincipal
<1>6. CASE RevokeMembership
  <2>1. [Plane EXCEPT !.membershipRevoked = TRUE, !.revision = @ + 1] \in PlaneType BY Zenon
  <2> QED BY <2>1, <1>6, ChangeInv DEF RevokeMembership
<1>7. ASSUME NEW stale \in BOOLEAN, ReactivatePrincipal(stale) PROVE IInv'
  <2>1. [Plane EXCEPT !.credentialRevoked = FALSE, !.sessionStale = stale, !.revision = @ + 1]
          \in PlaneType
    BY Zenon
  <2> QED BY <2>1, <1>7, ChangeInv DEF ReactivatePrincipal
<1>8. ASSUME NEW e \in 1 .. 2, SetEpoch(e) PROVE IInv'
  <2>1. e \in Nat BY <1>8
  <2>2. [Plane EXCEPT !.epoch = e, !.revision = @ + 1] \in PlaneType BY <2>1, Zenon
  <2> QED BY <2>2, <1>8, ChangeInv DEF SetEpoch
<1>9. ASSUME NEW w \in Workloads, RevokeWorkload(w) PROVE IInv'
  <2>1. [Plane EXCEPT !.revokedServices = @ \cup {w}] \in PlaneType OBVIOUS
  <2> QED BY <2>1, <1>9, ChangeInv DEF RevokeWorkload
<1> QED BY <1>2, <1>3, <1>4, <1>5, <1>6, <1>7, <1>8, <1>9 DEF AuthorityNext

----------------------------------------------------------------------------
(* The calls                                                               *)

\* A membership resolved on the side disturbs no frame.
LEMMA ResolveInv ==
  ASSUME IInv, NEW now \in Times, ResolveMembership(now)
  PROVE  IInv'
<1>1. memberships' \subseteq [revision : Nat, epoch : Nat]
  BY PlaneFacts DEF ResolveMembership, IInv, TypeOK, PlaneType
<1> USE <1>1 DEF ResolveMembership, IInv
<1>2. TypeOK' BY DEF TypeOK, Generation
<1>3. UsedInv' BY DEF UsedInv, IdentifiersUsedOnce, IssuedWithinBound, Issued
<1>4. ContextInv' BY DEF ContextInv
<1>5. FrameInv' BY DEF FrameInv, FrameOK, Generation, Seen, Known
<1> QED BY <1>2, <1>3, <1>4, <1>5

\* A new issuance has seen nothing yet.
LEMMA StartIssueInv ==
  ASSUME IInv, NEW s \in Services, NEW i \in Intents, NEW actor \in Actors,
         NEW w \in Workloads, NEW now \in Times, StartIssue(s, i, actor, w, now)
  PROVE  IInv'
<1> DEFINE f == [op |-> "issue", pc |-> "ids", service |-> s, now |-> now,
                 intent |-> i, actor |-> actor, workload |-> w, ids |-> {},
                 gen |-> 0, authority |-> Deleted, context |-> 0, started |-> Generation]
<1>1. actor \in ActorType BY DEF Actors, ActorType, IInv, TypeOK
<1>2. Generation \in Nat \ {0} BY PlaneFacts DEF IInv
<1>3. f \in FrameType BY <1>1, <1>2 DEF FrameType
<1>4. FrameOK(f) BY <1>2 DEF FrameOK, IssuePcs, AuthoritySeen
<1>5. stack' = Append(stack, f) /\ UNCHANGED <<planes, memberships, contexts, usedIds, invalidated>>
  BY DEF StartIssue
<1> HIDE DEF f
<1> QED BY <1>3, <1>4, <1>5, PushInv

\* The frame on top of the stack is one of the sound frames.
LEMMA TopFacts ==
  ASSUME IInv, stack # <<>>
  PROVE  /\ Top \in FrameType /\ FrameOK(Top)
         /\ invalidated \subseteq DOMAIN contexts
         /\ Generation \in Nat \ {0} /\ Plane = planes[Generation] /\ Plane \in PlaneType
<1>1. stack \in Seq(FrameType) /\ FrameInv BY DEF IInv, TypeOK
<1>2. Top = stack[Len(stack)] /\ Len(stack) \in DOMAIN stack /\ Top \in FrameType
  BY <1>1, FrontFacts DEF Top
<1> QED BY <1>1, <1>2, PlaneFacts DEF FrameInv, IInv, TypeOK, Plane

\* Every step of an issuance leaves a sound frame, or ends the call.
LEMMA IssueStepInv ==
  ASSUME IInv, IssueStep
  PROVE  IInv'
<1>1. stack # <<>> /\ UNCHANGED <<planes, memberships, contexts, invalidated, usedIds>>
  BY DEF IssueStep
<1>2. Top \in FrameType /\ FrameOK(Top) /\ Generation \in Nat \ {0} /\ Plane = planes[Generation]
      /\ invalidated' \subseteq DOMAIN contexts /\ Plane \in PlaneType
  BY <1>1, TopFacts
<1>3. ASSUME Return PROVE IInv' BY <1>1, <1>2, <1>3, ReturnInv
<1>4. ASSUME NEW f \in FrameType, FrameOK(f), Become(f) PROVE IInv'
  BY <1>1, <1>2, <1>4, BecomeInv
<1>5. ASSUME NEW ids \in Tuples, TakeIds(ids) PROVE IInv'
  <2> DEFINE f == [Top EXCEPT !.ids = ids, !.pc = "capture"]
  <2>1. Top.op = "issue" /\ Top.pc = "ids" BY <1>5 DEF TakeIds
  <2>2. ASSUME WellFormed(ids) PROVE f \in FrameType /\ FrameOK(f)
    BY <1>2, <2>1, <2>2 DEF FrameType, FrameOK, Seen, Known, AuthoritySeen, ActorSeen,
       WorkloadSeen, IssuePcs
  <2> QED BY <1>3, <1>4, <1>5, <2>2 DEF TakeIds
<1>6. CASE Capture
  <2> DEFINE f == [Top EXCEPT !.gen = Generation, !.pc = "lookup"]
  <2>1. Top.op = "issue" /\ Top.pc = "capture" BY <1>6 DEF Capture
  <2>2. f \in FrameType BY <1>2 DEF FrameType
  <2>3. FrameOK(f)
    BY <1>2, <2>1 DEF FrameType, FrameOK, Seen, Known, AuthoritySeen, ActorSeen,
       WorkloadSeen, IssuePcs
  <2> QED BY <1>4, <1>6, <2>2, <2>3 DEF Capture
<1>7. CASE ReadAuthority
  <2> DEFINE a == Plane.authority[Top.intent]
             f == [Top EXCEPT !.authority = a, !.pc = "actor"]
  <2>1. Top.op = "issue" /\ Top.pc = "lookup" BY <1>7 DEF ReadAuthority
  <2>2. ASSUME Readable(a), a.mode = Mode(Top.actor), a.expires > Top.now
        PROVE  f \in FrameType /\ FrameOK(f)
    <3>1. a \in AuthorityType BY <1>2, <2>2 DEF Readable, PlaneType, FrameType
    <3>2. f \in FrameType BY <1>2, <3>1 DEF FrameType
    <3>3. /\ f.op = "issue" /\ f.pc = "actor" /\ f.authority = a /\ f.gen = Top.gen
          /\ f.ids = Top.ids /\ f.intent = Top.intent /\ f.actor = Top.actor
          /\ f.now = Top.now /\ f.started = Top.started
      BY <1>2, <2>1 DEF FrameType
    <3>4. f.gen = Generation => Seen(planes[f.gen], f)
      BY <1>2, <2>2, <3>3 DEF Seen, Known, ActorSeen, WorkloadSeen
    <3> HIDE DEF f, a
    <3>5. FrameOK(f) BY <1>2, <2>1, <3>1, <3>3, <3>4 DEF FrameOK, IssuePcs, AuthoritySeen
    <3> QED BY <3>2, <3>5
  <2> QED BY <1>3, <1>4, <1>7, <2>2 DEF ReadAuthority
<1>8. ASSUME NEW to \in {"workload", "recheck", "bind"}, Top.op = "issue",
             <<Top.pc, to>> \in {<<"actor", "workload">>, <<"workload", "recheck">>, <<"recheck", "bind">>},
             Top.pc = "actor" => ActorAllowed(Plane, Top.authority, Top.actor, Top.now),
             Top.pc = "workload" => WorkloadAllowed(Plane, Top.authority, Top.workload, Top.now),
             Top.pc = "recheck" => Generation = Top.gen,
             Goto(to)
      PROVE  IInv'
  <2> DEFINE f == [Top EXCEPT !.pc = to]
  <2>1. f \in FrameType BY <1>2 DEF FrameType
  <2>2. /\ f.op = "issue" /\ f.pc = to /\ f.authority = Top.authority /\ f.gen = Top.gen
        /\ f.ids = Top.ids /\ f.intent = Top.intent /\ f.actor = Top.actor
        /\ f.workload = Top.workload /\ f.now = Top.now /\ f.started = Top.started
    BY <1>2, <1>8 DEF FrameType
  <2>3. Become(f) BY <1>8 DEF Goto
  <2> HIDE DEF f
  <2>4. Top.gen >= 1 /\ (Top.gen = Generation => Seen(Plane, Top)) /\ Top.pc \in {"actor", "workload", "recheck"}
    BY <1>2, <1>8 DEF FrameOK
  <2>5. f.gen = Generation => Seen(Plane, f)
    BY <1>8, <2>2, <2>4 DEF Seen, Known, AuthoritySeen, ActorSeen, WorkloadSeen
  <2>6. f.gen = Generation \/ f.pc = "bind" => Seen(planes[f.gen], f)
    BY <1>2, <1>8, <2>2, <2>5
  <2>7. f.pc # "valid" BY <1>8, <2>2
  <2>8. FrameOK(f)
    BY <1>2, <1>8, <2>2, <2>4, <2>6, <2>7 DEF FrameOK, IssuePcs, AuthoritySeen
  <2> QED BY <1>4, <2>1, <2>3, <2>8
<1>9. CASE CheckActor BY <1>3, <1>8, <1>9 DEF CheckActor
<1>10. CASE CheckWorkload BY <1>3, <1>8, <1>10 DEF CheckWorkload
<1>11. CASE Recheck BY <1>3, <1>8, <1>11 DEF Recheck
<1> QED BY <1>5, <1>6, <1>7, <1>9, <1>10, <1>11 DEF IssueStep

\* Binding takes identifiers nobody used, within the bound, for a frame whose
\* findings were rechecked.
LEMMA BindInv ==
  ASSUME IInv, BindContext
  PROVE  IInv'
<1>1. stack # <<>> /\ Top.op = "issue" /\ Top.pc = "bind" /\ Return
      /\ UNCHANGED <<planes, memberships, invalidated>>
  BY DEF BindContext
<1>2. Top \in FrameType /\ FrameOK(Top) /\ Generation \in Nat \ {0} BY <1>1, TopFacts
<1>3. CASE ~Bindable(Top)
  <2>1. UNCHANGED <<contexts, usedIds>> BY <1>3 DEF BindContext
  <2>2. invalidated' \subseteq DOMAIN contexts BY <1>1 DEF IInv, TypeOK
  <2> QED BY <1>1, <2>1, <2>2, ReturnInv
<1>4. CASE Bindable(Top)
  <2> DEFINE x == [service |-> Top.service, issuedAt |-> Top.now, ids |-> Top.ids, gen |-> Top.gen,
                   intent |-> Top.intent, authority |-> Top.authority, actor |-> Top.actor,
                   workload |-> Top.workload,
                   expires |-> EffectiveExpiry(Top.authority, Top.actor, Top.workload)]
  <2>1. contexts' = Append(contexts, x) /\ usedIds' = usedIds \cup Top.ids
    BY <1>4 DEF BindContext
  <2>2. /\ Top.authority \in AuthorityType /\ Top.ids \in Tuples /\ WellFormed(Top.ids)
        /\ Top.gen \in 1 .. Generation /\ Seen(planes[Top.gen], Top)
    BY <1>1, <1>2 DEF FrameOK, AuthoritySeen, FrameType
  <2>3. EffectiveExpiry(Top.authority, Top.actor, Top.workload) \in Nat
        /\ EffectiveExpiry(Top.authority, Top.actor, Top.workload) <= Top.authority.expires
    BY <1>2, <2>2, ExpiryFacts DEF FrameType
  <2>4. x \in ContextType BY <1>2, <2>2, <2>3 DEF FrameType, ContextType
  <2>5. Permits(planes[x.gen], x.intent, x.authority, x.actor, x.workload, x.issuedAt)
        /\ x.expires <= x.authority.expires
    BY <1>1, <2>2, <2>3 DEF Permits, Seen, Known, AuthoritySeen, ActorSeen, WorkloadSeen
  <2>6. x.ids = Top.ids /\ x.gen = Top.gen OBVIOUS
  <2> HIDE DEF x
  <2>7. contexts \in Seq(ContextType) /\ stack \in Seq(FrameType) BY DEF IInv, TypeOK
  <2>8. /\ contexts' \in Seq(ContextType) /\ Len(contexts') = Len(contexts) + 1
        /\ DOMAIN contexts' = DOMAIN contexts \cup {Len(contexts) + 1}
        /\ Len(contexts) + 1 \notin DOMAIN contexts
        /\ contexts'[Len(contexts) + 1] = x
        /\ \A c \in DOMAIN contexts : contexts'[c] = contexts[c]
    BY <2>1, <2>4, <2>7
  <2>9. stack' \in Seq(FrameType) /\ \A d \in DOMAIN stack' : d \in DOMAIN stack /\ stack'[d] = stack[d]
    BY <1>1, <2>7, FrontFacts DEF Return
  <2>10. TypeOK'
    <3>1. Generation' = Generation BY <1>1 DEF Generation
    <3>2. \A c \in DOMAIN contexts' : contexts'[c].gen \in 1 .. Generation /\ Cardinality(contexts'[c].ids) = 3
      BY <2>2, <2>6, <2>8 DEF IInv, TypeOK, WellFormed
    <3>3. invalidated \subseteq DOMAIN contexts' BY <2>8 DEF IInv, TypeOK
    <3>4. \A d \in DOMAIN stack' : stack'[d].gen <= Generation /\ stack'[d].started \in 1 .. Generation
      BY <2>9 DEF IInv, TypeOK
    <3> QED BY <1>1, <2>8, <2>9, <3>1, <3>2, <3>3, <3>4 DEF IInv, TypeOK, WellFormed
  <2>11. UsedInv'
    <3>1. Top.ids \cap usedIds = {} /\ Len(contexts) < IssuedContexts
      BY <1>4 DEF Bindable, Unused, Issued
    <3>2. \A c \in DOMAIN contexts : contexts[c].ids \subseteq usedIds BY DEF IInv, UsedInv
    <3>3. \A c \in DOMAIN contexts' : contexts'[c].ids \subseteq usedIds'
      BY <2>1, <2>6, <2>8, <3>2
    <3>4. IdentifiersUsedOnce'
      BY <2>6, <2>8, <3>1, <3>2 DEF IInv, UsedInv, IdentifiersUsedOnce
    <3>5. Len(contexts') <= IssuedContexts BY <2>7, <2>8, <3>1
    <3> QED BY <3>3, <3>4, <3>5 DEF UsedInv, IssuedWithinBound, Issued
  <2>12. ContextInv'
    <3> SUFFICES ASSUME NEW c \in DOMAIN contexts'
                 PROVE  /\ contexts'[c].expires <= contexts'[c].authority.expires
                        /\ Permits(planes[contexts'[c].gen], contexts'[c].intent, contexts'[c].authority,
                                   contexts'[c].actor, contexts'[c].workload, contexts'[c].issuedAt)
      BY <1>1 DEF ContextInv
    <3>1. CASE c \in DOMAIN contexts BY <3>1, <2>8 DEF IInv, ContextInv
    <3>2. CASE c = Len(contexts) + 1 BY <3>2, <2>5, <2>8
    <3> QED BY <3>1, <3>2, <2>8
  <2>13. FrameInv'
    <3>1. Generation' = Generation BY <1>1 DEF Generation
    <3>2. ASSUME NEW f \in FrameType, FrameOK(f) PROVE FrameOK(f)'
      <4>1. f.op = "validate" => f.context \in DOMAIN contexts' /\ contexts'[f.context] = contexts[f.context]
        BY <3>2, <2>8 DEF FrameOK
      <4>2. f.op \in {"issue", "validate"} BY DEF FrameType
      <4> QED BY <1>1, <3>1, <3>2, <4>1, <4>2 DEF FrameOK, Seen, Known
    <3>3. ASSUME NEW d \in DOMAIN stack' PROVE FrameOK(stack[d])'
      <4>1. stack'[d] = stack[d] /\ FrameOK(stack[d]) /\ stack[d] \in FrameType
        BY <2>9, <3>3 DEF IInv, FrameInv, TypeOK
      <4> QED BY <4>1, <3>2 DEF FrameOK, Seen, Known
    <3> QED BY <3>3 DEF FrameInv
  <2> QED BY <2>10, <2>11, <2>12, <2>13 DEF IInv
<1> QED BY <1>3, <1>4

\* A validation starts for a live context of the service, or ends it at once.
LEMMA StartValidateInv ==
  ASSUME IInv, NEW s \in Services, NEW c \in DOMAIN contexts, NEW now \in Times \cup {Malformed},
         StartValidate(s, c, now)
  PROVE  IInv'
<1> DEFINE f == [op |-> "validate", pc |-> "first", service |-> s, now |-> now,
                 intent |-> contexts[c].intent, actor |-> contexts[c].actor,
                 workload |-> contexts[c].workload, ids |-> {}, gen |-> contexts[c].gen,
                 authority |-> Deleted, context |-> c, started |-> Generation]
<1>1. UNCHANGED <<planes, memberships, contexts, usedIds>> BY DEF StartValidate
<1>2. CASE now = Malformed \/ contexts[c].expires <= now
  <2>1. UNCHANGED stack /\ invalidated' \subseteq DOMAIN contexts
    BY <1>2 DEF StartValidate, IInv, TypeOK
  <2>2. stack' \in Seq(FrameType) /\ \A d \in DOMAIN stack' : FrameOK(stack'[d])
    BY <2>1 DEF IInv, TypeOK, FrameInv
  <2> QED BY <1>1, <2>1, <2>2, StackInv
<1>3. CASE ~(now = Malformed \/ contexts[c].expires <= now)
  <2>1. stack' = Append(stack, f) /\ UNCHANGED invalidated BY <1>3 DEF StartValidate
  <2>2. Generation \in Nat \ {0} BY PlaneFacts DEF IInv
  <2>3. contexts[c] \in ContextType /\ contexts[c].gen \in 1 .. Generation /\ c \in Nat
    BY DEF IInv, TypeOK
  <2>4. now \in Times BY <1>3
  <2>5. f \in FrameType BY <2>2, <2>3, <2>4 DEF FrameType, ContextType
  <2>6. contexts[c].expires > now
    <3>1. contexts[c].expires \in Nat BY <2>3 DEF ContextType
    <3>2. now \in Nat BY <2>4, AuthorityAssumption
    <3>3. ~(contexts[c].expires <= now) BY <1>3
    <3> QED BY ONLY <3>1, <3>2, <3>3
  <2>7. FrameOK(f)
    BY <2>2, <2>3, <2>6 DEF FrameOK, ValidatePcs, Seen, AuthoritySeen, ActorSeen, WorkloadSeen
  <2> HIDE DEF f
  <2> QED BY <1>1, <2>1, <2>5, <2>7, PushInv
<1> QED BY <1>2, <1>3

\* One port answers a validation: what the frame knows grows by that answer.
LEMMA ValidateStepInv ==
  ASSUME IInv, NEW from, NEW passed \in BOOLEAN, NEW to, ValidateStep(from, passed, to),
         <<from, to>> \in {<<"first", "lookup">>, <<"lookup", "workload">>, <<"workload", "actor">>,
                           <<"actor", "last">>, <<"last", "valid">>},
         passed /\ from \in {"first", "last"} => Unchanged(Top),
         passed /\ from = "lookup" => SameAuthority(Top),
         passed /\ from = "workload" =>
           WorkloadAllowed(Plane, contexts[Top.context].authority, Top.workload, Top.now),
         passed /\ from = "actor" =>
           ActorAllowed(Plane, contexts[Top.context].authority, Top.actor, Top.now)
  PROVE  IInv'
<1>1. stack # <<>> /\ Top.op = "validate" /\ Top.pc = from
      /\ UNCHANGED <<planes, memberships, contexts, usedIds>>
  BY DEF ValidateStep
<1>2. /\ Top \in FrameType /\ FrameOK(Top) /\ invalidated \subseteq DOMAIN contexts
      /\ Generation \in Nat \ {0} /\ Plane = planes[Generation]
  BY <1>1, TopFacts
<1>3. Top.context \in DOMAIN contexts BY <1>1, <1>2 DEF FrameOK
<1>4. CASE ~passed
  BY <1>1, <1>2, <1>3, <1>4, ReturnInv DEF ValidateStep
<1>5. CASE passed
  <2> DEFINE f == [Top EXCEPT !.pc = to]
             x == contexts[Top.context]
  <2>1. Become(f) /\ UNCHANGED invalidated BY <1>5 DEF ValidateStep, Goto
  <2>2. to \in {"lookup", "workload", "actor", "last", "valid"} /\ from \in ValidatePcs \ {"valid"}
    BY DEF ValidatePcs
  <2>3. f \in FrameType BY <1>2, <2>2 DEF FrameType
  <2>4. /\ f.op = "validate" /\ f.pc = to /\ f.context = Top.context /\ f.gen = Top.gen
        /\ f.intent = Top.intent /\ f.actor = Top.actor /\ f.workload = Top.workload
        /\ f.now = Top.now /\ f.started = Top.started
    BY <1>1, <1>2 DEF FrameType
  <2>5. x \in ContextType /\ x.gen \in 1 .. Generation /\ Top.gen = x.gen /\ Top.intent = x.intent
        /\ Top.actor = x.actor /\ Top.workload = x.workload /\ x.expires > Top.now
        /\ Top.started \in Top.gen .. Generation /\ (from # "first" => Top.started = Top.gen)
    BY <1>1, <1>2, <1>3 DEF FrameOK, IInv, TypeOK
  <2>6. x.expires <= x.authority.expires
        /\ Permits(planes[x.gen], x.intent, x.authority, x.actor, x.workload, x.issuedAt)
    BY <1>3 DEF IInv, ContextInv
  <2>7. Top.now \in Nat /\ x.expires \in Nat /\ x.authority \in AuthorityType
    BY <1>2, <2>5 DEF FrameType, ContextType
  <2> HIDE DEF f, x
  <2>8. x.authority.expires > Top.now BY <2>5, <2>6, <2>7 DEF AuthorityType
  <2>9. x = contexts[Top.context] BY DEF x
  <2>10. Top.gen = Generation => Seen(Plane, Top) BY <1>2, <2>5 DEF FrameOK
  <2>11. f.gen = Generation => Seen(Plane, f)
    BY <1>1, <1>5, <2>4, <2>5, <2>6, <2>8, <2>9, <2>10
       DEF Seen, Known, AuthoritySeen, ActorSeen, WorkloadSeen, Unchanged, SameAuthority, Permits
  <2>12. f.pc = "valid" => f.gen = Generation BY <1>5, <2>4 DEF Unchanged
  <2>13. f.started = f.gen
    BY <1>5, <2>4, <2>5, <1>2 DEF Unchanged
  <2>14. f.pc \in ValidatePcs /\ f.pc # "bind" BY <2>2, <2>4 DEF ValidatePcs
  <2>15. FrameOK(f)
    BY <1>2, <1>3, <2>4, <2>5, <2>9, <2>11, <2>12, <2>13, <2>14 DEF FrameOK
  <2> QED BY <1>1, <1>2, <2>1, <2>3, <2>15, BecomeInv
<1> QED BY <1>4, <1>5

\* Every step preserves the inductive invariant.
LEMMA NextInv ==
  ASSUME IInv, [Next]_vars
  PROVE  IInv'
<1>1. CASE UNCHANGED vars
  BY <1>1 DEF vars, IInv, TypeOK, UsedInv, ContextInv, FrameInv, FrameOK, Seen, Known, Generation,
     IdentifiersUsedOnce, IssuedWithinBound, Issued
<1>2. CASE AuthorityNext BY <1>2, AuthorityInv
<1>3. CASE IssueStep BY <1>3, IssueStepInv
<1>4. CASE BindContext BY <1>4, BindInv
<1>5. CASE ValidateFirst
  <2>1. Unchanged(Top) \in BOOLEAN BY DEF Unchanged
  <2> QED BY <1>5, <2>1, ValidateStepInv DEF ValidateFirst
<1>6. CASE ValidateAuthority
  <2>1. SameAuthority(Top) \in BOOLEAN BY DEF SameAuthority
  <2> QED BY <1>6, <2>1, ValidateStepInv DEF ValidateAuthority
<1>7. CASE ValidateWorkload
  <2> DEFINE ok == WorkloadAllowed(Plane, contexts[Top.context].authority, Top.workload, Top.now)
  <2>1. ok \in BOOLEAN BY DEF WorkloadAllowed
  <2> QED BY <1>7, <2>1, ValidateStepInv DEF ValidateWorkload
<1>8. CASE ValidateActor
  <2>1. ActorAllowed(Plane, contexts[Top.context].authority, Top.actor, Top.now) \in BOOLEAN
    <3>1. stack # <<>> BY <1>8 DEF ValidateActor, ValidateStep
    <3>2. Top \in FrameType /\ Top.context \in DOMAIN contexts /\ Plane \in PlaneType
      BY <1>8, <3>1, TopFacts DEF ValidateActor, ValidateStep, FrameOK
    <3>3. contexts[Top.context] \in ContextType
      BY <3>2 DEF IInv, TypeOK
    <3>4. contexts[Top.context].authority \in AuthorityType BY <3>3 DEF ContextType
    <3> QED BY <3>2, <3>4 DEF ActorAllowed, AuthorityType, MembershipCurrent, ServiceCurrent
  <2> QED BY <1>8, <2>1, ValidateStepInv DEF ValidateActor
<1>9. CASE ValidateLast
  <2>1. Unchanged(Top) \in BOOLEAN BY DEF Unchanged
  <2> QED BY <1>9, <2>1, ValidateStepInv DEF ValidateLast
<1>10. CASE ReturnValid
  BY <1>10, ReturnInv DEF ReturnValid, IInv, TypeOK
<1>11. CASE PortFails
  <2>1. stack # <<>> BY <1>11 DEF PortFails
  <2>2. Top.op = "validate" => Top.context \in DOMAIN contexts BY <2>1, TopFacts DEF FrameOK
  <2>3. invalidated' \subseteq DOMAIN contexts BY <1>11, <2>2 DEF PortFails, IInv, TypeOK
  <2> QED BY <1>11, <2>1, <2>3, ReturnInv DEF PortFails
<1> QED BY <1>1, <1>2, <1>3, <1>4, <1>5, <1>6, <1>7, <1>8, <1>9, <1>10, <1>11,
           ResolveInv, StartIssueInv, StartValidateInv DEF Next, CallNext

\* The invariant holds for ever.
THEOREM Invariance == Spec => []IInv
<1> QED BY InitInv, NextInv, PTL DEF Spec

\* No two contexts share an identifier, however calls of the services nest.
THEOREM UsedOnce == Spec => []IdentifiersUsedOnce
<1>1. IInv => IdentifiersUsedOnce BY DEF IInv, UsedInv
<1> QED BY <1>1, Invariance, PTL

\* The services of one binder never exceed the bound on issued contexts.
THEOREM WithinBound == Spec => []IssuedWithinBound
<1>1. IInv => IssuedWithinBound BY DEF IInv, UsedInv
<1> QED BY <1>1, Invariance, PTL

\* Every context and every valid answer rests on one generation of the plane.
THEOREM OneGeneration == Spec => []DecidedInOneGeneration
<1>1. IInv => DecidedInOneGeneration
  <2> SUFFICES ASSUME IInv PROVE DecidedInOneGeneration
    OBVIOUS
  <2>1. ASSUME NEW d \in DOMAIN stack, stack[d].pc = "valid"
        PROVE  Permits(planes[stack[d].gen], stack[d].intent, contexts[stack[d].context].authority,
                       stack[d].actor, stack[d].workload, stack[d].now)
    <3>1. stack[d] \in FrameType /\ FrameOK(stack[d]) BY DEF IInv, TypeOK, FrameInv
    <3>2. stack[d].op = "validate" BY <2>1, <3>1 DEF FrameOK, FrameType, IssuePcs
    <3>3. stack[d].gen >= 1 BY <3>1, <3>2 DEF FrameOK, IInv, TypeOK
    <3> QED BY <2>1, <3>1, <3>2, <3>3
            DEF FrameOK, Seen, Known, AuthoritySeen, ActorSeen, WorkloadSeen, Permits
  <2> QED BY <2>1 DEF IInv, ContextInv, DecidedInOneGeneration
<1> QED BY <1>1, Invariance, PTL

\* A change of the plane ends a context for every later call of validate.
THEOREM Never == Spec => []NeverRevived
<1>1. IInv => NeverRevived
  <2> SUFFICES ASSUME IInv, NEW d \in DOMAIN stack, stack[d].pc = "valid"
               PROVE  stack[d].started = contexts[stack[d].context].gen
    BY DEF NeverRevived
  <2>1. stack[d] \in FrameType /\ FrameOK(stack[d]) BY DEF IInv, TypeOK, FrameInv
  <2>2. stack[d].op = "validate" BY <2>1 DEF FrameOK, FrameType, IssuePcs
  <2> QED BY <2>1, <2>2 DEF FrameOK
<1> QED BY <1>1, Invariance, PTL
---------------------------------------------------------------------------
(* The tables (TenantTables).                                              *)

RefersToAnchor(x) == x.payload # "null" =>
    \E a \in anchors : In(a, x) /\ a.ref = x.payload /\ a.requested = x.requested

HasTarget(r) == \E e \in events : In(e, r) /\ e.event = r.target

HasAnchor(k) == \E a \in anchors : In(a, k) /\ a.ref = k.ref /\ a.requested = k.requested

\* A row of material was written in the retention of its key anchor.
WrittenInTime(m) ==
    /\ m.key \in keys
    /\ m.key.expires - m.at <= RetentionLimit

SameMaterial(m, n) ==
    /\ m.kind = n.kind /\ m.kind # "superseded"
    /\ In(m.key, n.key) /\ m.key.ref = n.key.ref

\* Every foreign key of every table, and the keys of the material.
ConstraintsHold ==
    /\ keys \subseteq KeyRow /\ material \subseteq MaterialRow
    /\ \A x \in events \union requests : RefersToAnchor(x)
    /\ \A r \in requests : HasTarget(r)
    /\ \A k \in keys : HasAnchor(k) /\ KeyChecks(k)
    /\ \A m \in material : WrittenInTime(m)
    /\ \A m, n \in material : SameMaterial(m, n) => m = n

LEMMA TablesInitInv == TablesInit => ConstraintsHold
BY DEF TablesInit, ConstraintsHold

\* A row that keeps what it refers to.
LEMMA AnchorsGrow ==
    ASSUME anchors \subseteq anchors'
    PROVE  /\ \A x : RefersToAnchor(x) => RefersToAnchor(x)'
           /\ \A k : HasAnchor(k) => HasAnchor(k)'
BY DEF RefersToAnchor, HasAnchor, In

LEMMA RowInserted ==
    ASSUME ConstraintsHold
    PROVE  /\ \A x \in AnchorRow : InsertAnchor(x) => ConstraintsHold'
           /\ \A x \in EventRow : InsertEvent(x) => ConstraintsHold'
           /\ \A x \in RequestRow, s \in EventRow : InsertRequest(s, x) => ConstraintsHold'
<1>1. ASSUME NEW x \in AnchorRow, InsertAnchor(x) PROVE ConstraintsHold'
  <2>1. /\ anchors \subseteq anchors' /\ UNCHANGED <<events, requests, keys, material>>
    BY <1>1 DEF InsertAnchor
  <2> QED BY <2>1, AnchorsGrow DEF ConstraintsHold, HasTarget, WrittenInTime
<1>2. ASSUME NEW x \in EventRow, InsertEvent(x) PROVE ConstraintsHold'
  <2>1. events' = events \union {x} /\ UNCHANGED <<anchors, requests, keys, material>>
    BY <1>2 DEF InsertEvent
  <2>2. RefersToAnchor(x)
    BY <1>2 DEF InsertEvent, AnchorReference, RefersToAnchor
  <2>3. \A y : RefersToAnchor(y)' <=> RefersToAnchor(y)
    BY <2>1 DEF RefersToAnchor
  <2>4. \A r \in requests : HasTarget(r)'
    BY <2>1 DEF ConstraintsHold, HasTarget
  <2> QED BY <2>1, <2>2, <2>3, <2>4 DEF ConstraintsHold, HasAnchor, WrittenInTime
<1>3. ASSUME NEW x \in RequestRow, NEW s \in EventRow, InsertRequest(s, x) PROVE ConstraintsHold'
  <2>1. requests' = requests \union {x} /\ UNCHANGED <<anchors, events, keys, material>>
    BY <1>3 DEF InsertRequest
  <2>2. RefersToAnchor(x) /\ HasTarget(x)
    BY <1>3 DEF InsertRequest, AnchorReference, RefersToAnchor, HasTarget
  <2>3. \A y : (RefersToAnchor(y)' <=> RefersToAnchor(y)) /\ (HasTarget(y)' <=> HasTarget(y))
    BY <2>1 DEF RefersToAnchor, HasTarget
  <2> QED BY <2>1, <2>2, <2>3 DEF ConstraintsHold, HasAnchor, WrittenInTime
<1> QED BY <1>1, <1>2, <1>3

LEMMA KeyInserted ==
    ASSUME ConstraintsHold, NEW x \in KeyRow, InsertKey(x) \/ \E k \in keys : UpdateKey(k, x)
    PROVE  ConstraintsHold'
<1>1. UNCHANGED <<anchors, events, requests, material>> /\ HasAnchor(x) /\ KeyChecks(x)
  BY DEF InsertKey, UpdateKey, KeyFree, HasAnchor
<1>2. keys' \subseteq keys \union {x} /\ \A m \in material : m.key \in keys => m.key \in keys'
  <2>1. CASE InsertKey(x)
    BY <2>1 DEF InsertKey
  <2>2. ASSUME NEW k \in keys, UpdateKey(k, x)
        PROVE  keys' \subseteq keys \union {x} /\ \A m \in material : m.key \in keys => m.key \in keys'
    BY <2>2 DEF UpdateKey, ReferencedKey
  <2> QED BY <2>1, <2>2
<1>3. /\ \A y : (RefersToAnchor(y)' <=> RefersToAnchor(y)) /\ (HasTarget(y)' <=> HasTarget(y))
      /\ \A y : HasAnchor(y)' <=> HasAnchor(y)
  BY <1>1 DEF RefersToAnchor, HasTarget, HasAnchor
<1>4. \A m \in material : WrittenInTime(m) => WrittenInTime(m)'
  BY <1>2 DEF WrittenInTime
<1> QED BY <1>1, <1>2, <1>3, <1>4 DEF ConstraintsHold

LEMMA MaterialInserted ==
    ASSUME TablesAssumption, ConstraintsHold, NEW x \in MaterialRow, InsertMaterial(x)
    PROVE  ConstraintsHold'
<1>1. material' = material \union {x} /\ UNCHANGED <<anchors, events, requests, keys>>
  BY DEF InsertMaterial
<1>2. \A y : /\ RefersToAnchor(y)' <=> RefersToAnchor(y)
             /\ HasTarget(y)' <=> HasTarget(y)
             /\ HasAnchor(y)' <=> HasAnchor(y)
             /\ WrittenInTime(y)' <=> WrittenInTime(y)
  BY <1>1 DEF RefersToAnchor, HasTarget, HasAnchor, WrittenInTime
<1>3. WrittenInTime(x)
  <2>1. x.key \in keys /\ x.key.origin <= x.at /\ KeyChecks(x.key) /\ x.key \in KeyRow
    BY DEF InsertMaterial, ConstraintsHold
  <2>2. x.key.origin \in Int /\ x.key.expires \in Int /\ x.at \in Int /\ RetentionLimit \in Int
    BY <2>1 DEF TablesAssumption
  <2> QED BY <2>1, <2>2 DEF WrittenInTime, KeyChecks
<1>4. \A m \in material : ~SameMaterial(m, x) /\ ~SameMaterial(x, m)
  BY DEF InsertMaterial, SameMaterial, In
<1>5. \A m, n \in material' : SameMaterial(m, n) => m = n
  BY <1>1, <1>4 DEF ConstraintsHold
<1> QED BY <1>1, <1>2, <1>3, <1>5 DEF ConstraintsHold

\* What the foreign keys refer to is not deleted.
LEMMA RowDeleted ==
    ASSUME ConstraintsHold
    PROVE  /\ \A x \in AnchorRow : DeleteAnchor(x) => ConstraintsHold'
           /\ \A x \in EventRow : DeleteEvent(x) => ConstraintsHold'
           /\ \A x \in KeyRow : DeleteKey(x) => ConstraintsHold'
           /\ \A x \in MaterialRow : Erase(x) => ConstraintsHold'
<1>1. ASSUME NEW a \in AnchorRow, DeleteAnchor(a) PROVE ConstraintsHold'
  <2>1. /\ anchors' = anchors \ {a} /\ UNCHANGED <<events, requests, keys, material>>
        /\ \A x \in events \union requests :
              ~(In(a, x) /\ x.payload = a.ref /\ x.requested = a.requested)
        /\ \A k \in keys : ~(In(k, a) /\ k.ref = a.ref)
    BY <1>1 DEF DeleteAnchor, ReferencedAnchor
  <2>2. \A x \in events \union requests : RefersToAnchor(x)'
    BY <2>1 DEF ConstraintsHold, RefersToAnchor
  <2>3. \A k \in keys : HasAnchor(k)'
    BY <2>1 DEF ConstraintsHold, HasAnchor, In
  <2> QED BY <2>1, <2>2, <2>3 DEF ConstraintsHold, HasTarget, WrittenInTime
<1>2. ASSUME NEW e \in EventRow, DeleteEvent(e) PROVE ConstraintsHold'
  <2>1. /\ events' = events \ {e} /\ UNCHANGED <<anchors, requests, keys, material>>
        /\ \A r \in requests : ~(In(r, e) /\ r.target = e.event)
    BY <1>2 DEF DeleteEvent
  <2>2. \A r \in requests : HasTarget(r)'
    BY <2>1 DEF ConstraintsHold, HasTarget, In
  <2>3. \A y : (RefersToAnchor(y)' <=> RefersToAnchor(y)) /\ (HasAnchor(y)' <=> HasAnchor(y))
    BY <2>1 DEF RefersToAnchor, HasAnchor
  <2> QED BY <2>1, <2>2, <2>3 DEF ConstraintsHold, WrittenInTime
<1>3. ASSUME NEW k \in KeyRow, DeleteKey(k) PROVE ConstraintsHold'
  <2>1. /\ keys' = keys \ {k} /\ UNCHANGED <<anchors, events, requests, material>>
        /\ \A m \in material : m.key # k
    BY <1>3 DEF DeleteKey, ReferencedKey
  <2>2. \A y : /\ RefersToAnchor(y)' <=> RefersToAnchor(y)
               /\ HasTarget(y)' <=> HasTarget(y)
               /\ HasAnchor(y)' <=> HasAnchor(y)
    BY <2>1 DEF RefersToAnchor, HasTarget, HasAnchor
  <2>3. \A m \in material : WrittenInTime(m)'
    BY <2>1 DEF ConstraintsHold, WrittenInTime
  <2> QED BY <2>1, <2>2, <2>3 DEF ConstraintsHold
<1>4. ASSUME NEW m \in MaterialRow, Erase(m) PROVE ConstraintsHold'
  <2>1. material' \subseteq material /\ UNCHANGED <<anchors, events, requests, keys>>
    BY <1>4 DEF Erase
  <2>2. \A y : /\ RefersToAnchor(y)' <=> RefersToAnchor(y)
               /\ HasTarget(y)' <=> HasTarget(y)
               /\ HasAnchor(y)' <=> HasAnchor(y)
               /\ WrittenInTime(y)' <=> WrittenInTime(y)
    BY <2>1 DEF RefersToAnchor, HasTarget, HasAnchor, WrittenInTime
  <2> QED BY <2>1, <2>2 DEF ConstraintsHold
<1> QED BY <1>1, <1>2, <1>3, <1>4

LEMMA TablesNextInv ==
    ASSUME TablesAssumption PROVE ConstraintsHold /\ [TablesNext]_tableVars => ConstraintsHold'
<1> SUFFICES ASSUME ConstraintsHold, [TablesNext]_tableVars PROVE ConstraintsHold'
  OBVIOUS
<1>1. CASE TablesNext
  BY <1>1, RowInserted, KeyInserted, MaterialInserted, RowDeleted DEF TablesNext
<1>2. CASE UNCHANGED tableVars
  BY <1>2 DEF tableVars, ConstraintsHold, RefersToAnchor, HasTarget, HasAnchor, WrittenInTime
<1> QED BY <1>1, <1>2

\* A reference of a row ends in the scope of the row.
LEMMA ReferencesVisible == ASSUME ConstraintsHold PROVE ReferencesStayInScope
<1> SUFFICES ASSUME NEW s \in AnchorRow
             PROVE  LET mine == Visible(anchors, s)
                    IN  /\ \A x \in Visible(events, s) \union Visible(requests, s) :
                              x.payload # "null" =>
                                  \E a \in mine : a.ref = x.payload /\ a.requested = x.requested
                        /\ \A r \in Visible(requests, s) :
                              \E e \in Visible(events, s) : e.event = r.target
                        /\ \A k \in Visible(keys, s) : \E a \in mine : a.ref = k.ref
  BY DEF ReferencesStayInScope
<1>1. \A x, y : In(y, x) /\ x.tenant = s.tenant /\ x.purpose = s.purpose =>
                    y.tenant = s.tenant /\ y.purpose = s.purpose
  BY DEF In
<1>2. ASSUME NEW x \in Visible(events, s) \union Visible(requests, s), x.payload # "null"
      PROVE  \E a \in Visible(anchors, s) : a.ref = x.payload /\ a.requested = x.requested
  <2>1. x \in events \union requests /\ x.tenant = s.tenant /\ x.purpose = s.purpose
    BY DEF Visible
  <2> QED BY <1>1, <1>2, <2>1 DEF ConstraintsHold, RefersToAnchor, Visible
<1>3. ASSUME NEW r \in Visible(requests, s) PROVE \E e \in Visible(events, s) : e.event = r.target
  BY <1>1 DEF ConstraintsHold, HasTarget, Visible
<1>4. ASSUME NEW k \in Visible(keys, s) PROVE \E a \in Visible(anchors, s) : a.ref = k.ref
  BY <1>1 DEF ConstraintsHold, HasAnchor, Visible
<1> QED BY <1>2, <1>3, <1>4

\* No statement that commits leaves a reference to a row of another scope or to a deleted one,
\* material beyond the retention of its key anchor, or a second current material of a payload.
THEOREM TablesSound == ASSUME TablesAssumption PROVE TablesSpec => []TablesInv
<1>1. ConstraintsHold => RetentionHolds
  BY DEF ConstraintsHold, WrittenInTime, SameMaterial, RetentionHolds
<1>2. ConstraintsHold => TablesInv
  BY <1>1, ReferencesVisible DEF TablesInv
<1> QED BY <1>2, TablesInitInv, TablesNextInv, PTL DEF TablesSpec

---------------------------------------------------------------------------
(* Authentication.                                                         *)

Records == [revision : Nat,
            credential : [Credential -> [revoked : BOOLEAN, validAfter : Nat]],
            grant : [Grant -> [revoked : BOOLEAN, epoch : Nat]],
            retired : SUBSET Service]

AuthTypeOK == authority \in Records /\ principals \subseteq Token

IsMembership(m) ==
    /\ m.principal \in Token /\ m.grant \in Grant /\ m.tenant = m.grant.tenant
    /\ m.revision \in Nat /\ m.revision =< authority.revision
    /\ m.grant.subject = m.principal.subject
    /\ "principal" \in DOMAIN m

\* The authority has not changed since it resolved m, nor does it now say anything else of m.
StillVouched(m) ==
    m.revision = authority.revision =>
        \A now \in ServerTime : m.grant.expires > now =>
            m \in ResolvedMemberships(m.principal, m.tenant, m.epoch, now)

\* What was refused for the authority's sake stays behind: a membership of an earlier revision,
\* a service that was revoked.
Refused(x) ==
    \/ x \in vouched /\ x.revision < authority.revision
    \/ x \in authority.retired

Answered ==
    /\ \A x \in verdict.of : ~Refused(x)
    /\ verdict.now \in Nat /\ verdict.until \in Nat /\ verdict.now < verdict.until

AuthInv ==
    /\ AuthTypeOK
    /\ \A m \in vouched : IsMembership(m) /\ StillVouched(m)
    /\ attested \subseteq Service \union Presented
    /\ \A x \in refused : Refused(x)
    /\ Answered

LEMMA AuthInitInv == AuthInit => AuthInv
<1> SUFFICES ASSUME AuthInit PROVE AuthInv
  OBVIOUS
<1>1. AuthTypeOK
  BY DEF AuthInit, AuthTypeOK, Records
<1>2. Answered
  BY DEF AuthInit, NoVerdict, Answered
<1> QED BY <1>1, <1>2 DEF AuthInit, AuthInv

\* A change of what the authority says of credentials and memberships moves its revision.
LEMMA AdministerFacts ==
    ASSUME AuthAssumption, AuthTypeOK, Administer
    PROVE  /\ AuthTypeOK' /\ UNCHANGED <<principals, vouched, attested, refused>>
           /\ verdict' = NoVerdict
           /\ authority.revision =< authority'.revision
           /\ authority.retired \subseteq authority'.retired
           /\ authority'.revision = authority.revision =>
                 authority'.credential = authority.credential /\ authority'.grant = authority.grant
<1> USE DEF AuthTypeOK
<1>1. UNCHANGED <<principals, vouched, attested, refused>> /\ verdict' = NoVerdict
  BY DEF Administer
<1>2. ASSUME NEW to \in Records, Advance(to),
             to.revision = authority.revision, to.retired = authority.retired
      PROVE  /\ authority' \in Records /\ authority'.revision = authority.revision + 1
             /\ authority'.retired = authority.retired
  <2>1. authority' = [to EXCEPT !.revision = @ + 1]
    BY <1>2 DEF Advance
  <2> QED BY <1>2, <2>1 DEF Records
<1>3. CASE \E s \in Service \ authority.retired : RevokeService(s)
  BY <1>1, <1>3 DEF RevokeService, Records
<1>4. ASSUME NEW c \in Credential, NEW seconds \in ServerTime, ReactivateCredential(c, seconds)
      PROVE  \E to \in Records : /\ Advance(to) /\ to.revision = authority.revision
                                 /\ to.retired = authority.retired
  <2>1. seconds \in Nat
    BY DEF AuthAssumption
  <2>2. PICK q : q = [authority EXCEPT !.credential[c] = [revoked |-> FALSE, validAfter |-> seconds]]
    OBVIOUS
  <2>3. q \in Records /\ q.revision = authority.revision /\ q.retired = authority.retired
    BY <2>1, <2>2 DEF Records
  <2> QED BY <1>4, <2>2, <2>3 DEF ReactivateCredential
<1>5. ASSUME NEW c \in Credential, RevokeCredential(c)
      PROVE  \E to \in Records : /\ Advance(to) /\ to.revision = authority.revision
                                 /\ to.retired = authority.retired
  <2>1. PICK r : r = [authority EXCEPT !.credential[c].revoked = TRUE]
    OBVIOUS
  <2>2. r \in Records /\ r.revision = authority.revision /\ r.retired = authority.retired
    BY <2>1 DEF Records
  <2> QED BY <1>5, <2>1, <2>2 DEF RevokeCredential
<1>6. ASSUME NEW g \in Grant, NEW epoch \in 1..MaxEpoch, SetMembershipEpoch(g, epoch)
      PROVE  \E to \in Records : /\ Advance(to) /\ to.revision = authority.revision
                                 /\ to.retired = authority.retired
  <2>1. PICK q : q = [authority EXCEPT !.grant[g].epoch = epoch]
    OBVIOUS
  <2>2. epoch \in Nat
    BY DEF AuthAssumption
  <2>3. q \in Records /\ q.revision = authority.revision /\ q.retired = authority.retired
    BY <2>1, <2>2 DEF Records
  <2> QED BY <1>6, <2>1, <2>3 DEF SetMembershipEpoch
<1>7. ASSUME NEW g \in Grant, RevokeGrant(g)
      PROVE  \E to \in Records : /\ Advance(to) /\ to.revision = authority.revision
                                 /\ to.retired = authority.retired
  <2>1. PICK r : r = [authority EXCEPT !.grant[g].revoked = TRUE]
    OBVIOUS
  <2>2. r \in Records /\ r.revision = authority.revision /\ r.retired = authority.retired
    BY <2>1 DEF Records
  <2> QED BY <1>7, <2>1, <2>2 DEF RevokeGrant
<1>8. CASE \E to \in Records : Advance(to) /\ to.revision = authority.revision /\ to.retired = authority.retired
  <2>1. /\ authority' \in Records /\ authority'.revision = authority.revision + 1
        /\ authority'.retired = authority.retired /\ authority.revision \in Nat
    BY <1>2, <1>8 DEF Records
  <2> QED BY <1>1, <2>1
<1> QED BY <1>3, <1>4, <1>6, <1>7, <1>8, <1>5 DEF Administer

\* What holds of memberships and refusals survives every change of the authority.
LEMMA AuthorityMoves ==
    ASSUME AuthTypeOK, AuthTypeOK', \A m \in vouched : IsMembership(m), vouched \subseteq vouched',
           authority.revision =< authority'.revision, authority.retired \subseteq authority'.retired,
           authority'.revision = authority.revision =>
               authority'.credential = authority.credential /\ authority'.grant = authority.grant
    PROVE  /\ \A m : IsMembership(m) /\ StillVouched(m) => IsMembership(m)' /\ StillVouched(m)'
           /\ \A x : Refused(x) => Refused(x)'
<1>1. authority.revision \in Nat /\ authority'.revision \in Nat
  BY DEF AuthTypeOK, Records
<1>2. ASSUME NEW m, IsMembership(m) PROVE IsMembership(m)'
  BY <1>1, <1>2 DEF IsMembership
<1>3. ASSUME NEW m, IsMembership(m), StillVouched(m) PROVE StillVouched(m)'
  <2>1. CASE authority'.revision = authority.revision
    <3>1. \A t, hint, epoch, now :
             ResolvedMemberships(t, hint, epoch, now)' = ResolvedMemberships(t, hint, epoch, now)
      <4>1. \A t, g : Membership(t, g)' = Membership(t, g) /\ CredentialHolds(t)' = CredentialHolds(t)
        BY <2>1 DEF Membership, CredentialHolds
      <4> QED BY <2>1, <4>1 DEF ResolvedMemberships
    <3> QED BY <1>3, <2>1, <3>1 DEF StillVouched
  <2>2. CASE authority'.revision # authority.revision
    BY <1>1, <1>3, <2>2 DEF IsMembership, StillVouched
  <2> QED BY <2>1, <2>2
<1>4. ASSUME NEW x, Refused(x) PROVE Refused(x)'
  <2>1. CASE x \in vouched /\ x.revision < authority.revision
    BY <1>1, <2>1 DEF IsMembership, Refused
  <2>2. CASE x \in authority.retired
    BY <2>2 DEF Refused
  <2> QED BY <1>4, <2>1, <2>2 DEF Refused
<1> QED BY <1>2, <1>3, <1>4

LEMMA NoAnswer == verdict' = NoVerdict => Answered'
BY DEF NoVerdict, Answered

LEMMA AdministerInv == ASSUME AuthAssumption, AuthInv, Administer PROVE AuthInv'
<1>1. AuthTypeOK /\ \A m \in vouched : IsMembership(m)
  BY DEF AuthInv
<1>2. /\ AuthTypeOK' /\ UNCHANGED <<principals, vouched, attested, refused>>
      /\ verdict' = NoVerdict
      /\ authority.revision =< authority'.revision
      /\ authority.retired \subseteq authority'.retired
      /\ authority'.revision = authority.revision =>
            authority'.credential = authority.credential /\ authority'.grant = authority.grant
  BY <1>1, AdministerFacts
<1>3. /\ \A m : IsMembership(m) /\ StillVouched(m) => IsMembership(m)' /\ StillVouched(m)'
      /\ \A x : Refused(x) => Refused(x)'
  BY <1>1, <1>2, AuthorityMoves
<1> QED BY <1>2, <1>3, NoAnswer DEF AuthInv

\* A call leaves the authority alone.
LEMMA AuthorityStays ==
    ASSUME UNCHANGED authority, vouched \subseteq vouched'
    PROVE  /\ \A m : IsMembership(m) /\ StillVouched(m) => IsMembership(m)' /\ StillVouched(m)'
           /\ \A x : Refused(x) => Refused(x)'
           /\ AuthTypeOK /\ principals' \subseteq Token => AuthTypeOK'
BY DEF IsMembership, StillVouched, ResolvedMemberships, CredentialHolds, Membership, Refused, AuthTypeOK

LEMMA AuthenticateInv ==
    ASSUME AuthInv, NEW t \in Token, NEW now \in ServerTime, Authenticate(t, now) PROVE AuthInv'
<1>1. /\ principals' = principals \union {t} /\ verdict' = NoVerdict
      /\ UNCHANGED <<authority, vouched, attested, refused>>
  BY DEF Authenticate
<1>2. principals' \subseteq Token
  BY <1>1 DEF AuthInv, AuthTypeOK
<1> QED BY <1>1, <1>2, AuthorityStays, NoAnswer DEF AuthInv

\* A membership resolved now is resolved again for as long as the authority stays as it is.
LEMMA MembershipResolved ==
    ASSUME AuthAssumption, AuthInv, NEW t \in Token, NEW hint, NEW epoch, NEW now \in ServerTime,
           NEW m \in ResolvedMemberships(t, hint, epoch, now)
    PROVE  /\ IsMembership(m) /\ StillVouched(m)
           /\ m.revision = authority.revision /\ m.principal = t
<1>1. /\ CredentialHolds(t) /\ Cardinality(Matching(t, hint)) = 1
      /\ \E g \in Matching(t, hint) :
            /\ m = Membership(t, g) /\ ~authority.grant[g].revoked
            /\ epoch \in {0, authority.grant[g].epoch}
  BY DEF ResolvedMemberships
<1>2. PICK g \in Matching(t, hint) : m = Membership(t, g) /\ ~authority.grant[g].revoked
  BY <1>1
<1>3. g \in Grant /\ g.subject = t.subject /\ hint \in {"none", g.tenant}
  BY DEF Matching, IdentityMatches
<1>4. /\ m.principal = t /\ m.grant = g /\ m.tenant = g.tenant /\ m.revision = authority.revision
      /\ m.epoch = authority.grant[g].epoch /\ "principal" \in DOMAIN m
  BY <1>2 DEF Membership
<1>5. IsMembership(m)
  BY <1>3, <1>4 DEF IsMembership, AuthInv, AuthTypeOK, Records
<1>6. Cardinality(Matching(t, g.tenant)) = 1 /\ g \in Matching(t, g.tenant)
  <2>1. g \in Matching(t, g.tenant)
    BY <1>3 DEF Matching, IdentityMatches
  <2>2. CASE hint = g.tenant
    BY <1>1, <2>1, <2>2
  <2>3. CASE hint = "none"
    <3>1. IsFiniteSet(Matching(t, hint))
      <4>1. Matching(t, hint) \subseteq Grant
        BY DEF Matching, IdentityMatches
      <4> QED BY <4>1, FS_Subset DEF AuthAssumption
    <3>2. Matching(t, hint) = {g}
      BY <1>1, <3>1, FS_Singleton
    <3>3. Matching(t, g.tenant) \subseteq Matching(t, hint)
      BY <2>3 DEF Matching
    <3>4. Matching(t, g.tenant) = {g}
      BY <2>1, <3>2, <3>3
    <3> QED BY <1>1, <2>1, <3>2, <3>4
  <2> QED BY <1>3, <2>2, <2>3
<1>7. ASSUME NEW later \in ServerTime, g.expires > later
      PROVE  m \in ResolvedMemberships(t, g.tenant, m.epoch, later)
  BY <1>1, <1>2, <1>4, <1>6, <1>7 DEF ResolvedMemberships
<1> QED BY <1>4, <1>5, <1>7 DEF StillVouched

\* A membership or service that an answer is about is not one of those refused.
LEMMA Kinds ==
    ASSUME AuthAssumption, AuthInv
    PROVE  /\ \A m : IsMembership(m) => m \notin authority.retired
           /\ \A s \in Service \union Presented : s \notin vouched
<1>1. \A s \in Service \union Presented : "principal" \notin DOMAIN s
  BY DEF AuthAssumption, ServiceProjection
<1>2. authority.retired \subseteq Service
  BY DEF AuthInv, AuthTypeOK, Records
<1> QED BY <1>1, <1>2 DEF AuthInv, IsMembership

LEMMA ResolvedInv ==
    ASSUME AuthAssumption, AuthInv, NEW t \in principals, NEW hint, NEW epoch, NEW now \in ServerTime,
           Resolve(t, hint, epoch, now)
    PROVE  AuthInv'
<1>1. t \in Token /\ t.expires \in Nat /\ now \in Nat /\ t.expires > now
  BY DEF AuthInv, AuthTypeOK, AuthAssumption, Resolve, PrincipalLive
<1>2. PICK m \in ResolvedMemberships(t, hint, epoch, now) :
         /\ vouched' = vouched \union {m}
         /\ verdict' = [of |-> {m}, now |-> now, until |-> t.expires]
  BY DEF Resolve
<1>3. UNCHANGED <<authority, principals, attested, refused>>
  BY DEF Resolve
<1>4. IsMembership(m) /\ StillVouched(m) /\ m.revision = authority.revision
  BY <1>1, MembershipResolved
<1>5. ~Refused(m)'
  <2>1. ~(m.revision < authority.revision)
    BY <1>4 DEF IsMembership
  <2>2. m \notin authority.retired
    BY <1>4, Kinds
  <2> QED BY <1>3, <2>1, <2>2 DEF Refused
<1>6. Answered'
  BY <1>1, <1>2, <1>5 DEF Answered
<1>7. /\ \A x : IsMembership(x) /\ StillVouched(x) => IsMembership(x)' /\ StillVouched(x)'
      /\ \A x : Refused(x) => Refused(x)'
      /\ AuthTypeOK'
  BY <1>2, <1>3, AuthorityStays DEF AuthInv, AuthTypeOK
<1> QED BY <1>2, <1>3, <1>4, <1>6, <1>7 DEF AuthInv

LEMMA ValidateInv ==
    ASSUME AuthAssumption, AuthInv, NEW m \in vouched, NEW now \in ServerTime, Validate(m, now)
    PROVE  AuthInv'
<1> PICK found : found = ResolvedMemberships(m.principal, m.tenant, m.epoch, now)
  OBVIOUS
<1>1. IsMembership(m) /\ StillVouched(m) /\ m.principal \in Token
  BY DEF AuthInv, IsMembership
<1>2. UNCHANGED <<authority, principals, vouched, attested>>
  BY DEF Validate
<1>3. /\ \A x : IsMembership(x) /\ StillVouched(x) => IsMembership(x)' /\ StillVouched(x)'
      /\ \A x : Refused(x)' <=> Refused(x)
      /\ AuthTypeOK'
  BY <1>2, AuthorityStays DEF AuthInv, AuthTypeOK, Refused
<1>4. CASE /\ m \in found /\ UNCHANGED refused
           /\ verdict' = [of |-> {m}, now |-> now, until |-> m.principal.expires]
  <2>1. m.revision = authority.revision
    BY <1>1, <1>4, MembershipResolved
  <2>2. ~Refused(m)
    BY <1>1, <2>1, Kinds DEF Refused, IsMembership
  <2>3. now \in Nat /\ m.principal.expires \in Nat /\ m.principal.expires > now
    BY <1>1 DEF AuthAssumption, Validate, PrincipalLive
  <2>4. Answered'
    BY <1>3, <1>4, <2>2, <2>3 DEF Answered
  <2> QED BY <1>2, <1>3, <1>4, <2>4 DEF AuthInv
<1>5. CASE /\ m \notin found /\ verdict' = NoVerdict
           /\ refused' = IF m.grant.expires > now THEN refused \union {m} ELSE refused
  <2>1. m.grant.expires > now => m.revision # authority.revision
    BY <1>1, <1>5 DEF StillVouched
  <2>2. m.grant.expires > now => Refused(m)
    <3>1. authority.revision \in Nat
      BY DEF AuthInv, AuthTypeOK, Records
    <3>2. m.revision \in Nat /\ m.revision =< authority.revision
      BY <1>1 DEF IsMembership
    <3> QED BY <2>1, <3>1, <3>2 DEF Refused
  <2>3. \A x \in refused' : Refused(x)'
    BY <1>3, <1>5, <2>2 DEF AuthInv
  <2> QED BY <1>2, <1>3, <1>5, <2>3, NoAnswer DEF AuthInv
<1>6. LET same == {n \in found : SameMembership(m, n)}
      IN  \/ /\ same # {}
             /\ verdict' = [of |-> {m}, now |-> now, until |-> m.principal.expires]
             /\ UNCHANGED refused
          \/ /\ same = {}
             /\ refused' = IF m.grant.expires > now THEN refused \union {m} ELSE refused
             /\ verdict' = NoVerdict
  BY DEF Validate
<1>7. {n \in found : SameMembership(m, n)} # {} <=> m \in found
  BY DEF SameMembership
<1> QED BY <1>4, <1>5, <1>6, <1>7

LEMMA ServiceInv ==
    ASSUME AuthAssumption, AuthInv, NEW s \in Service \union Presented, NEW now \in ServerTime,
           \/ AuthenticateService(s, now)
           \/ ValidateService(s, now)
    PROVE  AuthInv'
<1>1. UNCHANGED <<authority, principals, vouched>>
  BY DEF AuthenticateService, ValidateService
<1>2. /\ \A x : IsMembership(x) /\ StillVouched(x) => IsMembership(x)' /\ StillVouched(x)'
      /\ \A x : Refused(x)' <=> Refused(x)
      /\ AuthTypeOK'
  BY <1>1, AuthorityStays DEF AuthInv, AuthTypeOK, Refused
<1>3. attested' \subseteq Service \union Presented
  BY DEF AuthInv, AuthenticateService, ValidateService
<1>4. CASE /\ CurrentService(s, now) /\ UNCHANGED refused
           /\ verdict' = [of |-> {s}, now |-> now, until |-> s.expires]
  <2>1. ~Refused(s)
    BY <1>4, Kinds DEF CurrentService, Refused
  <2>2. now \in Nat /\ s.expires \in Nat /\ s.expires > now
    BY <1>4 DEF AuthAssumption, ServiceProjection, CurrentService
  <2>3. Answered'
    BY <1>2, <1>4, <2>1, <2>2 DEF Answered
  <2> QED BY <1>1, <1>2, <1>3, <1>4, <2>3 DEF AuthInv
<1>5. CASE /\ verdict' = NoVerdict
           /\ refused' = IF s \in authority.retired THEN refused \union {s} ELSE refused
  <2>1. \A x \in refused' : Refused(x)'
    BY <1>2, <1>5 DEF AuthInv, Refused
  <2> QED BY <1>1, <1>2, <1>3, <1>5, <2>1, NoAnswer DEF AuthInv
<1> QED BY <1>4, <1>5 DEF AuthenticateService, ValidateService

LEMMA AuthNextInv == ASSUME AuthAssumption PROVE AuthInv /\ [AuthNext]_authVars => AuthInv'
<1> SUFFICES ASSUME AuthInv, [AuthNext]_authVars PROVE AuthInv'
  OBVIOUS
<1>1. CASE AuthNext
  <2>1. attested \subseteq Service \union Presented
    BY DEF AuthInv
  <2> QED BY <1>1, <2>1, AdministerInv, AuthenticateInv, ResolvedInv, ValidateInv, ServiceInv DEF AuthNext
<1>2. CASE UNCHANGED authVars
  <2>1. UNCHANGED <<authority, principals, vouched, attested, verdict, refused>>
    BY <1>2 DEF authVars
  <2>2. /\ \A x : IsMembership(x) /\ StillVouched(x) => IsMembership(x)' /\ StillVouched(x)'
        /\ \A x : Refused(x)' <=> Refused(x)
        /\ AuthTypeOK'
    BY <2>1, AuthorityStays DEF AuthInv, AuthTypeOK, Refused
  <2> QED BY <2>1, <2>2 DEF AuthInv, Answered
<1> QED BY <1>1, <1>2

\* A membership or service that was denied for the authority's sake is never answered again,
\* whatever the authority reactivates or renumbers; and no answer outlives its principal.
THEOREM RefusalsLast == ASSUME AuthAssumption PROVE AuthSpec => []RefusedForGood
<1>1. AuthInv => RefusedForGood
  BY DEF AuthInv, Answered, RefusedForGood
<1> QED BY <1>1, AuthInitInv, AuthNextInv, PTL DEF AuthSpec

---------------------------------------------------------------------------
(* Reads (TenantReads).                                                    *)

Kind == {"event", "anchor"}

InProgress ==
    /\ DOMAIN reading = {"phase", "context", "kind", "id", "revision", "answer"}
    /\ reading.phase \in {"asked", "answered"} /\ reading.kind \in Kind

\* The loader's keys hold of the tables, and what is disclosed or about to be is a row of them.
LocalReads ==
    /\ \A kind \in Kind : \A x, y \in Rows(kind) : PhysicalKey(x) = PhysicalKey(y) => x = y
    /\ \A e \in tables.events : Anchored(e, tables.anchors)
    /\ \A d \in disclosed : d.row \in Rows(d.kind)
    /\ reading.phase = "answered" /\ Parsed(reading.answer) =>
          reading.answer.row \in Rows(reading.kind)

ReadsInv ==
    /\ reading = Idle \/ InProgress
    /\ tables = Foreign \/ tables.origin = "local"
    /\ \A d \in disclosed : d.kind \in Kind /\ ScopeOf(d.row) = ScopeOf(d.context)
    /\ tables.origin = "local" => LocalReads

LEMMA ReadsInitInv == ReadsInit => ReadsInv
BY DEF ReadsInit, ReadsInv, Foreign

LEMMA LoadReads == ASSUME ReadsInv, NEW f \in Fixture, Load(f) PROVE ReadsInv'
<1>1. /\ reading = Idle /\ disclosed = {} /\ Loadable(f)
      /\ tables' = [origin |-> "local", anchors |-> Elements(f.anchors), events |-> Elements(f.events)]
      /\ UNCHANGED <<reading, disclosed, current>>
  BY DEF Load
<1>2. /\ \A x, y \in Elements(f.anchors) : PhysicalKey(x) = PhysicalKey(y) => x = y
      /\ \A x, y \in Elements(f.events) : PhysicalKey(x) = PhysicalKey(y) => x = y
      /\ \A e \in Elements(f.events) : Anchored(e, Elements(f.anchors))
  BY <1>1 DEF Loadable, DistinctRows, Elements
<1>3. /\ tables'.events = Elements(f.events) /\ tables'.anchors = Elements(f.anchors)
      /\ tables'.origin = "local"
  BY <1>1
<1>4. \A kind \in Kind : \A x, y \in Rows(kind)' : PhysicalKey(x) = PhysicalKey(y) => x = y
  BY <1>2, <1>3 DEF Rows
<1>5. \A e \in tables'.events : Anchored(e, tables'.anchors)
  BY <1>2, <1>3
<1>6. reading'.phase # "answered"
  BY <1>1 DEF Idle
<1>7. LocalReads'
  BY <1>1, <1>4, <1>5, <1>6 DEF LocalReads
<1> QED BY <1>1, <1>3, <1>7 DEF ReadsInv

\* A reader answers, or a call begins.
LEMMA ReadingMoves ==
    ASSUME ReadsInv, UNCHANGED <<tables, disclosed>>, reading' = Idle \/ InProgress',
           tables.origin = "local" /\ reading'.phase = "answered" /\ Parsed(reading'.answer) =>
               reading'.answer.row \in Rows(reading'.kind)
    PROVE  ReadsInv'
BY DEF ReadsInv, LocalReads, Rows

LEMMA BeginReads ==
    ASSUME ReadsInv, NEW c \in Reader, NEW kind \in Kind, NEW id, NEW revision, Begin(c, kind, id, revision)
    PROVE  ReadsInv'
<1>1. /\ reading' = [phase |-> "asked", context |-> c, kind |-> kind, id |-> id,
                     revision |-> revision, answer |-> Nothing]
      /\ UNCHANGED <<tables, disclosed>>
  BY DEF Begin
<1>2. InProgress' /\ reading'.phase # "answered"
  BY <1>1 DEF InProgress
<1> QED BY <1>1, <1>2, ReadingMoves

LEMMA AnswerReads == ASSUME ReadsInv, Answer PROVE ReadsInv'
<1>1. PICK a \in ReaderAnswers : reading' = [reading EXCEPT !.phase = "answered", !.answer = a]
  BY DEF Answer
<1>2. UNCHANGED <<tables, disclosed>> /\ reading.phase = "asked" /\ InProgress
  BY DEF Answer, ReadsInv, Idle
<1>3. /\ reading'.phase = "answered" /\ reading'.answer = a /\ reading'.kind = reading.kind
      /\ DOMAIN reading' = DOMAIN reading
  BY <1>1, <1>2 DEF InProgress
<1>4. InProgress'
  BY <1>2, <1>3 DEF InProgress
<1>5. ASSUME tables.origin = "local", Parsed(a) PROVE a.row \in Rows(reading.kind)
  <2>1. a \in {Row(x) : x \in LocalRows} \/ a = Nothing
    BY <1>5 DEF ReaderAnswers
  <2>2. a # Nothing
    BY <1>5 DEF Parsed, Nothing
  <2>3. PICK x \in LocalRows : a = Row(x)
    BY <2>1, <2>2
  <2> QED BY <2>3 DEF Row, LocalRows
<1> QED BY <1>2, <1>3, <1>4, <1>5, ReadingMoves

LEMMA DiscloseReads == ASSUME ReadsInv, Disclose PROVE ReadsInv'
<1>1. reading' = Idle /\ UNCHANGED <<tables, current>> /\ reading.phase = "answered" /\ InProgress
  BY DEF Disclose, ReadsInv, Idle
<1>2. reading'.phase # "answered"
  BY <1>1 DEF Idle
<1>3. CASE UNCHANGED disclosed
  BY <1>1, <1>2, <1>3, ReadingMoves
<1> PICK d : d = [context |-> reading.context, kind |-> reading.kind, row |-> reading.answer.row]
  OBVIOUS
<1>4. CASE disclosed' = disclosed \union {d} /\ Parsed(reading.answer) /\ Matches(reading.answer.row)
  <2>1. d.kind \in Kind /\ ScopeOf(d.row) = ScopeOf(d.context)
    BY <1>1, <1>4 DEF Matches, InProgress
  <2>2. ASSUME tables.origin = "local" PROVE LocalReads'
    <3>1. d.row \in Rows(d.kind)
      BY <1>1, <1>4, <2>2 DEF ReadsInv, LocalReads
    <3>2. \A kind : Rows(kind)' = Rows(kind)
      BY <1>1 DEF Rows
    <3> QED BY <1>1, <1>2, <1>4, <2>2, <3>1, <3>2 DEF ReadsInv, LocalReads
  <2> QED BY <1>1, <1>4, <2>1, <2>2 DEF ReadsInv
<1> QED BY <1>3, <1>4 DEF Disclose

LEMMA ReadsNextInv == ReadsInv /\ [ReadsNext]_readVars => ReadsInv'
<1> SUFFICES ASSUME ReadsInv, [ReadsNext]_readVars PROVE ReadsInv'
  OBVIOUS
<1>1. ASSUME UNCHANGED <<tables, reading, disclosed>> PROVE ReadsInv'
  BY <1>1 DEF ReadsInv, InProgress, LocalReads, Rows
<1>2. CASE \E c \in Reader : Expire(c)
  BY <1>1, <1>2 DEF Expire
<1>3. CASE UNCHANGED readVars
  BY <1>1, <1>3 DEF readVars
<1>4. CASE \E f \in Fixture : Load(f)
  BY <1>4, LoadReads
<1>5. CASE \E c \in Reader, kind \in Kind, k \in Keys : Begin(c, kind, k[1], k[2])
  BY <1>5, BeginReads
<1> QED BY <1>2, <1>3, <1>4, <1>5, AnswerReads, DiscloseReads DEF ReadsNext, Kind

LEMMA OneRowSeen == ASSUME ReadsInv PROVE OnePurposePerRow
<1> SUFFICES ASSUME tables.origin = "local"
             PROVE  /\ \A d, e \in disclosed :
                          /\ d.kind = e.kind /\ d.row.tenant = e.row.tenant
                          /\ d.row.id = e.row.id /\ d.row.revision = e.row.revision
                          => d.row = e.row
                    /\ \A d \in disclosed :
                          d.kind = "event" /\ d.row.payload # <<>> =>
                            \E a \in tables.anchors : /\ ScopeOf(a) = ScopeOf(d.context)
                                                      /\ <<a.id, a.revision>> = d.row.payload
  BY DEF OnePurposePerRow
<1>1. LocalReads /\ \A d \in disclosed : d.kind \in Kind /\ ScopeOf(d.row) = ScopeOf(d.context)
  BY DEF ReadsInv
<1>2. ASSUME NEW d \in disclosed, NEW e \in disclosed, d.kind = e.kind, d.row.tenant = e.row.tenant,
             d.row.id = e.row.id, d.row.revision = e.row.revision
      PROVE  d.row = e.row
  <2>1. PhysicalKey(d.row) = PhysicalKey(e.row)
    BY <1>2 DEF PhysicalKey
  <2> QED BY <1>1, <1>2, <2>1 DEF LocalReads
<1>3. ASSUME NEW d \in disclosed, d.kind = "event", d.row.payload # <<>>
      PROVE  \E a \in tables.anchors : /\ ScopeOf(a) = ScopeOf(d.context)
                                       /\ <<a.id, a.revision>> = d.row.payload
  <2>1. d.row \in tables.events
    BY <1>1, <1>3 DEF LocalReads, Rows
  <2>2. PICK a \in tables.anchors : /\ a.tenant = d.row.tenant /\ a.purpose = d.row.purpose
                                    /\ <<a.id, a.revision>> = d.row.payload
    BY <1>1, <1>3, <2>1 DEF LocalReads, Anchored
  <2>3. ScopeOf(a) = ScopeOf(d.row)
    BY <2>2 DEF ScopeOf
  <2> QED BY <1>1, <2>2, <2>3
<1> QED BY <1>2, <1>3

LEMMA DisclosesInScope ==
    [ReadsNext]_readVars => [\A d \in disclosed' \ disclosed :
                                /\ d.context \in current
                                /\ ScopeOf(d.row) = ScopeOf(d.context)]_readVars
<1> SUFFICES ASSUME ReadsNext, NEW d \in disclosed' \ disclosed
             PROVE  d.context \in current /\ ScopeOf(d.row) = ScopeOf(d.context)
  OBVIOUS
<1>1. Disclose
  BY DEF ReadsNext, Load, Begin, Answer, Expire
<1>2. /\ ScopeUnchanged(reading.context) /\ Matches(reading.answer.row)
      /\ d.context = reading.context /\ d.row = reading.answer.row
  BY <1>1 DEF Disclose
<1> QED BY <1>2 DEF ScopeUnchanged, Authorized, Matches

\* A row is disclosed only to a context of its tenant and purpose that validates at that moment,
\* whatever the reader behind it answers; and from a fixture no row is seen under two purposes,
\* and the payload of an event that is seen is an anchor its reader may see.
THEOREM ReadsStayInScope == ReadsSpec => ReadsInScope
<1>1. ReadsInv => OnePurposePerRow
  BY OneRowSeen
<1> QED BY <1>1, ReadsInitInv, ReadsNextInv, DisclosesInScope, PTL
        DEF ReadsSpec, ReadsInScope, DisclosedInScope

---------------------------------------------------------------------------
(* Event revision requests (EventRevisions).                               *)

Item == [key : {m.request : m \in Command} \union {m.operation : m \in Command}, stored : Requests]
Store == [key : {ScopeKey(r) : r \in Requests}, byRequest : Seq(Item), byOperation : Seq(Item)]

\* The two indexes of one store, between which a request may not be torn.
Twins(store) ==
    /\ Len(store.byRequest) = Len(store.byOperation)
    /\ OneKeyEach(store.byRequest) /\ OneKeyEach(store.byOperation)
    /\ \A n \in DOMAIN store.byRequest :
          /\ store.byRequest[n].stored = store.byOperation[n].stored
          /\ store.byRequest[n].key = store.byRequest[n].stored.request
          /\ store.byOperation[n].key = store.byOperation[n].stored.operation
          /\ ScopeKey(store.byRequest[n].stored) = store.key

StoreOK(store) == store \in Store /\ Twins(store) /\ Len(store.byRequest) \in 1..MaxPerScope

OneStoreEach == \A i, j \in DOMAIN scopes : scopes[i].key = scopes[j].key => i = j

\* A waiting request is one of its context.
Waiting(call) ==
    /\ call.context \in Context /\ call.owned \in Requests
    /\ call.owned.tenant = call.context.tenant /\ call.owned.purpose = call.context.purpose

RequestsInv ==
    /\ scopes \in Seq(Store) /\ Len(scopes) =< MaxScopes
    /\ \A i \in DOMAIN scopes : StoreOK(scopes[i])
    /\ OneStoreEach
    /\ \A i \in DOMAIN calls : Waiting(calls[i])
    /\ calls \in Seq([context : Context, owned : Requests])

LEMMA RequestFacts ==
    ASSUME NEW c \in Context, NEW m \in Command
    PROVE  /\ RequestOf(c, m) \in Requests
           /\ RequestOf(c, m).tenant = c.tenant /\ RequestOf(c, m).purpose = c.purpose
           /\ RequestOf(c, m).request = m.request /\ RequestOf(c, m).operation = m.operation
BY DEF RequestOf, Requests

LEMMA Keyed ==
    ASSUME NEW r \in Requests
    PROVE  /\ [key |-> r.request, stored |-> r] \in Item
           /\ [key |-> r.operation, stored |-> r] \in Item
<1>1. PICK c \in Context, m \in Command : r = RequestOf(c, m)
  BY DEF Requests
<1>2. r.request = m.request /\ r.operation = m.operation
  BY <1>1, RequestFacts
<1> QED BY <1>2 DEF Item

\* One index with a new entry.
LEMMA IndexGrows ==
    ASSUME NEW index \in Seq(Item), NEW x \in Item, OneKeyEach(index),
           \A i \in DOMAIN index : index[i].key # x.key
    PROVE  /\ Append(index, x) \in Seq(Item) /\ OneKeyEach(Append(index, x))
           /\ Len(Append(index, x)) = Len(index) + 1
           /\ Append(index, x)[Len(index) + 1] = x
           /\ \A i \in 1..Len(index) : Append(index, x)[i] = index[i]
           /\ Entries(Append(index, x)) = Entries(index) \union {x.stored}
<1> PICK n, longer : n = Len(index) /\ longer = Append(index, x)
  OBVIOUS
<1>1. /\ n \in Nat /\ longer \in Seq(Item) /\ Len(longer) = n + 1 /\ longer[n + 1] = x
      /\ \A i \in 1..n : longer[i] = index[i]
      /\ DOMAIN index = 1..n /\ DOMAIN longer = 1..(n + 1)
  OBVIOUS
<1>2. OneKeyEach(longer)
  <2>1. \A i \in 1..(n + 1) : i \in 1..n \/ i = n + 1
    OBVIOUS
  <2>2. n + 1 \notin 1..n
    OBVIOUS
  <2> QED BY <1>1, <2>1, <2>2 DEF OneKeyEach
<1>3. Entries(longer) = Entries(index) \union {x.stored}
  <2>1. \A i \in 1..(n + 1) : i \in 1..n \/ i = n + 1
    OBVIOUS
  <2>2. 1..n \subseteq 1..(n + 1) /\ n + 1 \in 1..(n + 1)
    OBVIOUS
  <2> QED BY <1>1, <2>1, <2>2 DEF Entries
<1> QED BY <1>1, <1>2, <1>3

\* A store that takes a request with a new name and a new operation.
LEMMA StoreGrows ==
    ASSUME RequestsAssumption, NEW store \in Store, Twins(store), NEW r \in Requests,
           ScopeKey(r) = store.key, Len(store.byRequest) < MaxPerScope,
           \A i \in DOMAIN store.byRequest : store.byRequest[i].key # r.request,
           \A i \in DOMAIN store.byOperation : store.byOperation[i].key # r.operation
    PROVE  /\ StoreOK(Extended(store, r)) /\ Extended(store, r).key = store.key
           /\ Entries(Extended(store, r).byRequest) = Entries(store.byRequest) \union {r}
<1> PICK x, y, longer : /\ x = [key |-> r.request, stored |-> r] /\ y = [key |-> r.operation, stored |-> r]
                        /\ longer = Extended(store, r)
  OBVIOUS
<1> PICK n, a, b : n = Len(a) /\ a = store.byRequest /\ b = store.byOperation
  OBVIOUS
<1>1. /\ x \in Item /\ y \in Item /\ x.key = r.request /\ y.key = r.operation
      /\ x.stored = r /\ y.stored = r
  BY Keyed
<1>2. /\ a \in Seq(Item) /\ b \in Seq(Item) /\ Len(b) = n /\ n \in Nat
      /\ OneKeyEach(a) /\ OneKeyEach(b)
      /\ \A i \in DOMAIN a : a[i].key # x.key
      /\ \A i \in DOMAIN b : b[i].key # y.key
  BY <1>1 DEF Store, Twins
<1>3. /\ longer = [store EXCEPT !.byRequest = Append(a, x), !.byOperation = Append(b, y)]
      /\ longer.key = store.key
  BY DEF Extended, Store
<1>4. longer.byRequest = Append(a, x) /\ longer.byOperation = Append(b, y)
  BY <1>3 DEF Store
<1>5. /\ Append(a, x) \in Seq(Item) /\ OneKeyEach(Append(a, x))
      /\ Len(Append(a, x)) = n + 1 /\ Append(a, x)[n + 1] = x
      /\ \A i \in 1..n : Append(a, x)[i] = a[i]
      /\ Entries(Append(a, x)) = Entries(a) \union {r}
  <2>1. /\ Append(a, x) \in Seq(Item) /\ OneKeyEach(Append(a, x))
        /\ Len(Append(a, x)) = Len(a) + 1 /\ Append(a, x)[Len(a) + 1] = x
        /\ \A i \in 1..Len(a) : Append(a, x)[i] = a[i]
        /\ Entries(Append(a, x)) = Entries(a) \union {x.stored}
    BY ONLY <1>1, <1>2, IndexGrows
  <2> QED BY <1>1, <2>1
<1>6. /\ Append(b, y) \in Seq(Item) /\ OneKeyEach(Append(b, y))
      /\ Len(Append(b, y)) = n + 1 /\ Append(b, y)[n + 1] = y
      /\ \A i \in 1..n : Append(b, y)[i] = b[i]
  <2>1. /\ Append(b, y) \in Seq(Item) /\ OneKeyEach(Append(b, y))
        /\ Len(Append(b, y)) = Len(b) + 1 /\ Append(b, y)[Len(b) + 1] = y
        /\ \A i \in 1..Len(b) : Append(b, y)[i] = b[i]
    BY ONLY <1>1, <1>2, IndexGrows
  <2> QED BY <1>1, <1>2, <2>1
<1>7. longer \in Store
  BY <1>3, <1>5, <1>6 DEF Store
<1> PICK c, d : c = longer.byRequest /\ d = longer.byOperation
  OBVIOUS
<1>8. Twins(longer)
  <2>1. ASSUME NEW i \in 1..(n + 1)
        PROVE  /\ c[i].stored = d[i].stored
               /\ c[i].key = c[i].stored.request
               /\ d[i].key = d[i].stored.operation
               /\ ScopeKey(c[i].stored) = store.key
    <3>1. CASE i \in 1..n
      <4>1. i \in DOMAIN a /\ c[i] = a[i] /\ d[i] = b[i]
        BY <1>2, <1>4, <1>5, <1>6, <3>1
      <4> QED BY <4>1 DEF Twins
    <3>2. CASE i = n + 1
      BY <1>1, <1>4, <1>5, <1>6, <3>2
    <3> QED BY <1>2, <3>1, <3>2
  <2>2. DOMAIN c = 1..(n + 1)
    BY <1>2, <1>4, <1>5
  <2> QED BY <1>3, <1>4, <1>5, <1>6, <2>1, <2>2 DEF Twins
<1>9. Len(longer.byRequest) \in 1..MaxPerScope
  BY <1>2, <1>4, <1>5 DEF RequestsAssumption
<1> QED BY <1>3, <1>4, <1>5, <1>7, <1>8, <1>9 DEF StoreOK

\* With one key each, the search of an index finds the entry there is.
LEMMA IndexedFacts ==
    ASSUME NEW index \in Seq(Item), OneKeyEach(index), NEW key
    PROVE  /\ Indexed(index, key) \subseteq Entries(index)
           /\ \A n \in DOMAIN index : index[n].key = key => index[n].stored \in Indexed(index, key)
<1>1. \A j, k \in DOMAIN index : index[j].key = key /\ index[k].key = key => j <= k
  <2>1. \A j \in DOMAIN index : j <= j
    OBVIOUS
  <2> QED BY <2>1 DEF OneKeyEach
<1> QED BY <1>1 DEF Indexed, Entries

LEMMA ScopeFacts ==
    ASSUME RequestsInv, NEW r
    PROVE  /\ FindScopeIndex(r) \subseteq DOMAIN scopes
           /\ \A i \in FindScopeIndex(r) :
                 /\ StoreOK(scopes[i]) /\ scopes[i].key = ScopeKey(r)
                 /\ \A j \in DOMAIN scopes : scopes[j].key = ScopeKey(r) => j = i
           /\ FoundRequest(r) \subseteq Recorded
           /\ FoundRequest(r) = {} => \A i \in FindScopeIndex(r) :
                 \A n \in DOMAIN scopes[i].byRequest : scopes[i].byRequest[n].key # r.request
           /\ FoundOperation(r) = {} => \A i \in FindScopeIndex(r) :
                 \A n \in DOMAIN scopes[i].byOperation : scopes[i].byOperation[n].key # r.operation
<1>1. FindScopeIndex(r) \subseteq DOMAIN scopes
  BY DEF FindScopeIndex
<1>2. ASSUME NEW i \in FindScopeIndex(r)
      PROVE  /\ StoreOK(scopes[i]) /\ scopes[i].key = ScopeKey(r)
             /\ \A j \in DOMAIN scopes : scopes[j].key = ScopeKey(r) => j = i
             /\ Indexed(scopes[i].byRequest, r.request) \subseteq Entries(scopes[i].byRequest)
             /\ \A n \in DOMAIN scopes[i].byRequest : scopes[i].byRequest[n].key = r.request =>
                   scopes[i].byRequest[n].stored \in FoundRequest(r)
             /\ \A n \in DOMAIN scopes[i].byOperation : scopes[i].byOperation[n].key = r.operation =>
                   scopes[i].byOperation[n].stored \in FoundOperation(r)
  <2>1. StoreOK(scopes[i]) /\ scopes[i].key = ScopeKey(r) /\ i \in DOMAIN scopes
    BY <1>1 DEF FindScopeIndex, RequestsInv
  <2>2. \A j \in DOMAIN scopes : scopes[j].key = ScopeKey(r) => j = i
    BY <2>1 DEF RequestsInv, OneStoreEach
  <2>3. /\ scopes[i].byRequest \in Seq(Item) /\ OneKeyEach(scopes[i].byRequest)
        /\ scopes[i].byOperation \in Seq(Item) /\ OneKeyEach(scopes[i].byOperation)
    BY <2>1 DEF StoreOK, Twins, Store
  <2>4. /\ Indexed(scopes[i].byRequest, r.request) \subseteq Entries(scopes[i].byRequest)
        /\ \A n \in DOMAIN scopes[i].byRequest : scopes[i].byRequest[n].key = r.request =>
              scopes[i].byRequest[n].stored \in Indexed(scopes[i].byRequest, r.request)
        /\ \A n \in DOMAIN scopes[i].byOperation : scopes[i].byOperation[n].key = r.operation =>
              scopes[i].byOperation[n].stored \in Indexed(scopes[i].byOperation, r.operation)
    BY <2>3, IndexedFacts
  <2> QED BY <2>1, <2>2, <2>4 DEF FoundRequest, FoundOperation
<1>3. FoundRequest(r) \subseteq Recorded
  BY <1>1, <1>2 DEF FoundRequest, Recorded
<1> QED BY <1>1, <1>2, <1>3

\* A request that is neither found nor denied is new, and there is room for it.
LEMMA NewRequest ==
    ASSUME RequestsAssumption, RequestsInv, NEW r \in Requests, AppendOutcome(r) = "appended"
    PROVE  /\ FoundRequest(r) = {} /\ FoundOperation(r) = {}
           /\ FindScopeIndex(r) = {} => Len(scopes) < MaxScopes
           /\ \A i \in FindScopeIndex(r) : Len(scopes[i].byRequest) < MaxPerScope
<1>1. /\ FoundRequest(r) \union FoundOperation(r) = {}
      /\ ~(FindScopeIndex(r) = {} /\ Len(scopes) >= MaxScopes)
      /\ \A i \in FindScopeIndex(r) : ~(Len(scopes[i].byRequest) >= MaxPerScope)
  BY DEF AppendOutcome
<1>2. Len(scopes) \in Nat /\ MaxScopes \in Nat /\ MaxPerScope \in Nat
  BY DEF RequestsInv, RequestsAssumption
<1>3. \A i \in FindScopeIndex(r) : Len(scopes[i].byRequest) \in 1..MaxPerScope
  BY ScopeFacts DEF StoreOK
<1> QED BY <1>1, <1>2, <1>3

LEMMA OpensStore ==
    ASSUME RequestsAssumption, RequestsInv, NEW r \in Requests, AppendOutcome(r) = "appended",
           FindScopeIndex(r) = {}, scopes' = Stored(r)
    PROVE  /\ scopes' \in Seq(Store) /\ Len(scopes') =< MaxScopes
           /\ \A i \in DOMAIN scopes' : StoreOK(scopes'[i])
           /\ OneStoreEach' /\ Recorded' = Recorded \union {r}
<1> PICK n, new, empty : n = Len(scopes) /\ empty = EmptyStore(r) /\ new = Extended(empty, r)
  OBVIOUS
<1>1. empty \in Store /\ Twins(empty) /\ empty.key = ScopeKey(r) /\ empty.byRequest = <<>>
      /\ empty.byOperation = <<>>
  BY DEF EmptyStore, Store, Twins, OneKeyEach
<1>2. StoreOK(new) /\ new.key = ScopeKey(r) /\ Entries(new.byRequest) = Entries(empty.byRequest) \union {r}
  <2>1. Len(empty.byRequest) < MaxPerScope
    BY <1>1 DEF RequestsAssumption
  <2> QED BY <1>1, <2>1, StoreGrows
<1>3. n \in Nat /\ n < MaxScopes /\ MaxScopes \in Nat
  BY NewRequest DEF RequestsInv, RequestsAssumption
<1>4. /\ scopes' \in Seq(Store) /\ Len(scopes') = n + 1 /\ scopes'[n + 1] = new
      /\ \A i \in 1..n : scopes'[i] = scopes[i]
      /\ DOMAIN scopes = 1..n /\ DOMAIN scopes' = 1..(n + 1)
  <2>1. scopes' = Append(scopes, new) /\ new \in Store
    BY <1>2 DEF Stored, StoreOK
  <2> QED BY <2>1 DEF RequestsInv
<1>5. \A i \in 1..(n + 1) : i \in 1..n \/ i = n + 1
  BY <1>3
<1>6. \A i \in DOMAIN scopes' : StoreOK(scopes'[i])
  BY <1>2, <1>4, <1>5 DEF RequestsInv
<1>7. OneStoreEach'
  <2>1. \A i \in 1..n : scopes[i].key # ScopeKey(r)
    BY <1>4 DEF FindScopeIndex
  <2> QED BY <1>2, <1>4, <1>5, <2>1 DEF RequestsInv, OneStoreEach
<1>8. Recorded' = Recorded \union {r}
  <2>1. Entries(new.byRequest) = {r}
    <3>1. Entries(empty.byRequest) = {}
      BY <1>1 DEF Entries
    <3> QED BY <1>2, <3>1
  <2>2. Recorded' = UNION {Entries(scopes'[i].byRequest) : i \in 1..(n + 1)}
    BY <1>4 DEF Recorded
  <2>3. Recorded = UNION {Entries(scopes[i].byRequest) : i \in 1..n}
    BY <1>4 DEF Recorded
  <2>4. 1..(n + 1) = 1..n \union {n + 1}
    BY <1>3
  <2> QED BY <1>4, <2>1, <2>2, <2>3, <2>4
<1>9. Len(scopes') =< MaxScopes
  BY <1>3, <1>4
<1> QED BY <1>4, <1>6, <1>7, <1>8, <1>9

LEMMA FillsStore ==
    ASSUME RequestsAssumption, RequestsInv, NEW r \in Requests, AppendOutcome(r) = "appended",
           NEW i \in FindScopeIndex(r), scopes' = Stored(r)
    PROVE  /\ scopes' \in Seq(Store) /\ Len(scopes') =< MaxScopes
           /\ \A j \in DOMAIN scopes' : StoreOK(scopes'[j])
           /\ OneStoreEach' /\ Recorded' = Recorded \union {r}
<1> PICK n, old, new : n = Len(scopes) /\ old = scopes[i] /\ new = Extended(old, r)
  OBVIOUS
<1>1. /\ n \in Nat /\ DOMAIN scopes = 1..n /\ i \in 1..n /\ StoreOK(old) /\ old.key = ScopeKey(r)
      /\ \A j \in 1..n : scopes[j].key = ScopeKey(r) => j = i
      /\ \A j \in 1..n : StoreOK(scopes[j])
  BY ScopeFacts DEF RequestsInv
<1>2. StoreOK(new) /\ new.key = ScopeKey(r) /\ Entries(new.byRequest) = Entries(old.byRequest) \union {r}
  <2>1. /\ Len(old.byRequest) < MaxPerScope
        /\ \A k \in DOMAIN old.byRequest : old.byRequest[k].key # r.request
        /\ \A k \in DOMAIN old.byOperation : old.byOperation[k].key # r.operation
    BY NewRequest, ScopeFacts
  <2>2. old \in Store /\ Twins(old)
    BY <1>1 DEF StoreOK
  <2> QED BY <1>1, <2>1, <2>2, StoreGrows
<1>3. /\ DOMAIN scopes' = 1..n /\ scopes'[i] = new
      /\ \A j \in 1..n : j # i => scopes'[j] = scopes[j]
  <2>1. scopes' = [j \in DOMAIN scopes |-> IF scopes[j].key = ScopeKey(r) THEN Extended(scopes[j], r)
                                           ELSE scopes[j]]
    BY DEF Stored
  <2> QED BY <1>1, <2>1
<1>4. \A j \in 1..n : StoreOK(scopes'[j]) /\ scopes'[j].key = scopes[j].key
  <2>1. ASSUME NEW j \in 1..n PROVE StoreOK(scopes'[j]) /\ scopes'[j].key = scopes[j].key
    <3>1. CASE j = i
      BY <1>1, <1>2, <1>3, <3>1
    <3>2. CASE j # i
      BY <1>1, <1>3, <3>2
    <3> QED BY <3>1, <3>2
  <2> QED BY <2>1
<1>5. scopes' \in Seq(Store) /\ Len(scopes') = n
  <2>1. scopes' = [j \in 1..n |-> scopes'[j]]
    BY <1>1 DEF Stored
  <2>2. scopes' \in [1..n -> Store]
    BY <1>4, <2>1 DEF StoreOK
  <2> QED BY <1>1, <2>2, IsASeq, LenProperties
<1>6. OneStoreEach'
  BY <1>1, <1>3, <1>4 DEF RequestsInv, OneStoreEach
<1>7. Recorded' = Recorded \union {r}
  <2>1. Recorded' = UNION {Entries(scopes'[j].byRequest) : j \in 1..n}
    BY <1>3 DEF Recorded
  <2>2. Recorded = UNION {Entries(scopes[j].byRequest) : j \in 1..n}
    BY <1>1 DEF Recorded
  <2>3. Entries(scopes'[i].byRequest) = Entries(scopes[i].byRequest) \union {r}
    BY <1>2, <1>3
  <2>4. \A j \in 1..n : j # i => Entries(scopes'[j].byRequest) = Entries(scopes[j].byRequest)
    BY <1>3
  <2>5. ASSUME NEW x \in Recorded' PROVE x \in Recorded \union {r}
    <3>1. PICK j \in 1..n : x \in Entries(scopes'[j].byRequest)
      BY <2>1
    <3> QED BY <1>1, <2>2, <2>3, <2>4, <3>1
  <2>6. ASSUME NEW x \in Recorded PROVE x \in Recorded'
    <3>1. PICK j \in 1..n : x \in Entries(scopes[j].byRequest)
      BY <2>2
    <3>2. x \in Entries(scopes'[j].byRequest)
      BY <2>3, <2>4, <3>1
    <3> QED BY <2>1, <3>2
  <2>7. r \in Recorded'
    BY <1>1, <2>1, <2>3
  <2> QED BY <2>5, <2>6, <2>7
<1>8. Len(scopes') =< MaxScopes
  BY <1>5 DEF RequestsInv
<1> QED BY <1>3, <1>4, <1>5, <1>6, <1>7, <1>8

LEMMA AppendsRequest ==
    ASSUME RequestsAssumption, RequestsInv, NEW r \in Requests, AppendOutcome(r) = "appended",
           scopes' = Stored(r)
    PROVE  /\ scopes' \in Seq(Store) /\ Len(scopes') =< MaxScopes
           /\ \A j \in DOMAIN scopes' : StoreOK(scopes'[j])
           /\ OneStoreEach' /\ Recorded' = Recorded \union {r}
<1>1. CASE FindScopeIndex(r) = {}
  BY <1>1, OpensStore
<1>2. CASE FindScopeIndex(r) # {}
  <2>1. PICK i : i \in FindScopeIndex(r)
    BY <1>2
  <2> QED BY <2>1, FillsStore
<1> QED BY <1>1, <1>2

---------------------------------------------------------------------------
LEMMA AskInv ==
    ASSUME RequestsInv, NEW c \in Context, NEW m \in Command, Ask(c, m)
    PROVE  RequestsInv' /\ Recorded' = Recorded
<1> PICK n, call : n = Len(calls) /\ call = [context |-> c, owned |-> RequestOf(c, m)]
  OBVIOUS
<1>1. Waiting(call) /\ call \in [context : Context, owned : Requests]
  BY RequestFacts DEF Waiting
<1>2. /\ calls' \in Seq([context : Context, owned : Requests])
      /\ DOMAIN calls' = 1..(n + 1) /\ calls'[n + 1] = call
      /\ \A i \in 1..n : calls'[i] = calls[i]
      /\ DOMAIN calls = 1..n /\ n \in Nat
  BY <1>1 DEF Ask, RequestsInv
<1>3. \A i \in 1..(n + 1) : i \in 1..n \/ i = n + 1
  BY <1>2
<1>4. \A i \in DOMAIN calls' : Waiting(calls'[i])
  BY <1>1, <1>2, <1>3 DEF RequestsInv
<1>5. scopes' = scopes
  BY DEF Ask
<1> QED BY <1>2, <1>4, <1>5 DEF RequestsInv, OneStoreEach, Recorded

\* The request taken off is one of its context.
LEMMA TakenOff ==
    ASSUME RequestsInv, calls # <<>>, calls' = Pop
    PROVE  /\ Waiting(Innermost)
           /\ \A i \in DOMAIN calls' : Waiting(calls'[i])
           /\ calls' \in Seq([context : Context, owned : Requests])
<1> PICK n : n = Len(calls)
  OBVIOUS
<1>1. n \in Nat /\ n >= 1 /\ DOMAIN calls = 1..n
  BY DEF RequestsInv
<1>2. /\ calls' \in Seq([context : Context, owned : Requests])
      /\ Len(calls') = n - 1 /\ \A i \in 1..(n - 1) : calls'[i] = calls[i]
  <2> PICK C : C = [context : Context, owned : Requests]
    OBVIOUS
  <2>0. calls \in Seq(C)
    BY DEF RequestsInv
  <2>1. \A i \in 1..(n - 1) : calls[i] \in C
    BY ONLY <1>1, <2>0
  <2>2. calls' = SubSeq(calls, 1, n - 1)
    BY DEF Pop
  <2> QED BY ONLY <1>1, <2>1, <2>2, SubSeqProperties, C = [context : Context, owned : Requests]
<1>3. DOMAIN calls' = 1..(n - 1) /\ n \in 1..n /\ 1..(n - 1) \subseteq 1..n
  BY <1>1, <1>2
<1> QED BY <1>1, <1>2, <1>3 DEF Innermost, RequestsInv

\* What an answer does: it records the request, or it leaves the stores as they were.
LEMMA SettleOutcomes ==
    ASSUME Settle
    PROVE  LET r == Innermost.owned
           IN  \/ /\ InScope(Innermost.context) /\ AppendOutcome(r) = "appended"
                  /\ scopes' = Stored(r) /\ told' = told \union {r}
               \/ /\ InScope(Innermost.context) /\ AppendOutcome(r) = "replayed"
                  /\ scopes' = scopes /\ told' = told \union {r}
               \/ scopes' = scopes /\ told' = told
<1> DEFINE r == Innermost.owned
           outcome == IF StillInScope(Innermost) THEN AppendOutcome(r) ELSE "denied"
<1>1. /\ scopes' = IF outcome = "appended" THEN Stored(r) ELSE scopes
      /\ told' = IF outcome \in {"appended", "replayed"} THEN told \union {r} ELSE told
  BY DEF Settle
<1>2. outcome \in {"appended", "replayed"} => StillInScope(Innermost) /\ AppendOutcome(r) = outcome
  OBVIOUS
<1> HIDE DEF r, outcome
<1>3. CASE outcome = "appended"
  BY <1>1, <1>2, <1>3 DEF StillInScope, r
<1>4. CASE outcome = "replayed"
  BY <1>1, <1>2, <1>4 DEF StillInScope, r
<1>5. CASE outcome \notin {"appended", "replayed"}
  BY <1>1, <1>5
<1> QED BY <1>3, <1>4, <1>5

LEMMA SettleInv == ASSUME RequestsAssumption, RequestsInv, Settle PROVE RequestsInv'
<1> PICK r : r = Innermost.owned
  OBVIOUS
<1>1. /\ Waiting(Innermost)
      /\ \A i \in DOMAIN calls' : Waiting(calls'[i])
      /\ calls' \in Seq([context : Context, owned : Requests])
  BY TakenOff DEF Settle
<1>2. r \in Requests
  BY <1>1 DEF Waiting
<1>3. CASE scopes' = scopes
  BY <1>1, <1>3 DEF RequestsInv, OneStoreEach
<1>4. CASE AppendOutcome(r) = "appended" /\ scopes' = Stored(r)
  BY <1>1, <1>2, <1>4, AppendsRequest DEF RequestsInv
<1> QED BY <1>3, <1>4, SettleOutcomes

LEMMA RequestsInitInv == ASSUME RequestsAssumption PROVE RequestsInit => RequestsInv
BY DEF RequestsAssumption, RequestsInit, RequestsInv, OneStoreEach

LEMMA RequestsNextInv ==
    ASSUME RequestsAssumption PROVE RequestsInv /\ [RequestsNext]_requestVars => RequestsInv'
<1> SUFFICES ASSUME RequestsInv, [RequestsNext]_requestVars PROVE RequestsInv'
  OBVIOUS
<1>1. ASSUME NEW c \in Context, NEW m \in Command, Ask(c, m) PROVE RequestsInv'
  BY <1>1, AskInv
<1>2. CASE Settle
  BY <1>2, SettleInv
<1>3. CASE UNCHANGED <<scopes, calls>>
  BY <1>3 DEF RequestsInv, OneStoreEach
<1> QED BY <1>1, <1>2, <1>3 DEF RequestsNext, Lapse, requestVars

LEMMA IndexesKept == RequestsInv => RequestIndexes
<1> SUFFICES ASSUME RequestsInv PROVE RequestIndexes
  OBVIOUS
<1>1. \A i \in DOMAIN scopes : Twins(scopes[i]) /\ Len(scopes[i].byRequest) \in 1..MaxPerScope
  BY DEF RequestsInv, StoreOK
<1>2. IndexesAgree
  BY <1>1 DEF Twins, IndexesAgree
<1>3. StoresBounded
  BY <1>1 DEF RequestsInv, OneStoreEach, StoresBounded
<1> QED BY <1>2, <1>3 DEF RequestIndexes

\* What is recorded and not found has another name and another operation.
LEMMA NewIsFresh ==
    ASSUME RequestsInv, NEW r \in Requests, FoundRequest(r) = {}, FoundOperation(r) = {},
           NEW x \in Recorded, RequestsLog!SameScope(r, x)
    PROVE  x.request # r.request /\ x.operation # r.operation
<1>1. PICK i \in DOMAIN scopes : x \in Entries(scopes[i].byRequest)
  BY DEF Recorded
<1>2. PICK k \in DOMAIN scopes[i].byRequest : x = scopes[i].byRequest[k].stored
  BY <1>1 DEF Entries
<1>3. StoreOK(scopes[i])
  BY DEF RequestsInv
<1>4. /\ ScopeKey(x) = scopes[i].key
      /\ scopes[i].byRequest[k].key = x.request /\ scopes[i].byOperation[k].key = x.operation
  BY <1>2, <1>3 DEF StoreOK, Twins
<1>5. k \in DOMAIN scopes[i].byOperation
  BY <1>3 DEF StoreOK, Twins, Store
<1>6. i \in FindScopeIndex(r)
  BY <1>4 DEF FindScopeIndex, ScopeKey, RequestsLog!SameScope
<1> QED BY <1>4, <1>5, <1>6, ScopeFacts

LEMMA SettleLogs ==
    ASSUME RequestsAssumption, RequestsInv, Settle
    PROVE  \/ \E c \in Context, r \in Requests : RequestsLog!Acknowledge(c, r)
           \/ UNCHANGED <<Recorded, told, valid>>
<1> PICK r, c : r = Innermost.owned /\ c = Innermost.context
  OBVIOUS
<1>1. r \in Requests /\ c \in Context /\ RequestsLog!SameScope(c, r)
  BY TakenOff DEF Settle, Waiting, RequestsLog!SameScope
<1>2. valid' = valid
  BY DEF Settle
<1>3. CASE /\ InScope(c) /\ AppendOutcome(r) = "appended"
           /\ scopes' = Stored(r) /\ told' = told \union {r}
  <2>1. Recorded' = Recorded \union {r}
    BY <1>1, <1>3, AppendsRequest
  <2>2. RequestsLog!Fresh(r)
    BY <1>1, <1>3, NewRequest, NewIsFresh DEF RequestsLog!Fresh
  <2>3. RequestsLog!Acknowledge(c, r)
    BY <1>1, <1>2, <1>3, <2>1, <2>2 DEF RequestsLog!Acknowledge, InScope
  <2> QED BY <1>1, <2>3
<1>4. CASE /\ InScope(c) /\ AppendOutcome(r) = "replayed"
           /\ scopes' = scopes /\ told' = told \union {r}
  <2>1. FoundRequest(r) = {r}
    BY <1>4 DEF AppendOutcome
  <2>2. r \in Recorded
    BY <2>1, ScopeFacts
  <2>3. Recorded' = Recorded
    BY <1>4 DEF Recorded
  <2>4. RequestsLog!Acknowledge(c, r)
    BY <1>1, <1>2, <1>4, <2>2, <2>3 DEF RequestsLog!Acknowledge, InScope
  <2> QED BY <1>1, <2>4
<1>5. CASE scopes' = scopes /\ told' = told
  BY <1>2, <1>5 DEF Recorded
<1> QED BY <1>3, <1>4, <1>5, SettleOutcomes

LEMMA StepsLog ==
    ASSUME RequestsAssumption, RequestsInv, [RequestsNext]_requestVars
    PROVE  [RequestsLog!LogNext]_<<Recorded, told, valid>>
<1>1. ASSUME NEW c \in Context, NEW m \in Command, Ask(c, m) PROVE UNCHANGED <<Recorded, told, valid>>
  BY <1>1, AskInv DEF Ask
<1>2. CASE Settle
  BY <1>2, SettleLogs DEF RequestsLog!LogNext
<1>3. ASSUME NEW c \in Context, Lapse(c) PROVE RequestsLog!LogNext
  <2>1. RequestsLog!Close(c)
    BY <1>3 DEF Lapse, RequestsLog!Close, Recorded
  <2> QED BY <2>1 DEF RequestsLog!LogNext
<1>4. CASE UNCHANGED requestVars
  BY <1>4 DEF requestVars, Recorded
<1> QED BY <1>1, <1>2, <1>3, <1>4 DEF RequestsNext

LEMMA StartsEmpty == RequestsInit => RequestsLog!LogInit
<1> SUFFICES ASSUME RequestsInit PROVE RequestsLog!LogInit
  OBVIOUS
<1>1. DOMAIN scopes = {}
  BY DEF RequestsInit
<1>2. Recorded = {}
  BY <1>1 DEF Recorded
<1> QED BY <1>2 DEF RequestsInit, RequestsLog!LogInit

\* However the requests nest and whenever a context lapses, the two indexes of a scope list the
\* same requests, within the limits; and what the stores hold and the callers are told is a log
\* that only grows, uses no request and no operation twice, and records or confirms nothing for
\* a context that no longer validates.
THEOREM RequestsKept ==
    ASSUME RequestsAssumption PROVE RequestsSpec => RequestsImplementLog
<1>1. RequestsInv /\ [RequestsNext]_requestVars => [RequestsLog!LogNext]_<<Recorded, told, valid>>
  BY StepsLog
<1> QED BY <1>1, RequestsInitInv, RequestsNextInv, IndexesKept, StartsEmpty, PTL
        DEF RequestsSpec, RequestsImplementLog, RequestsLog!LogSpec, RequestsLog!logVars
=============================================================================
