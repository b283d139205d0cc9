------------------------------ MODULE TenantContext ------------------------------
(***************************************************************************)
(* The tenant context service (C02): contexts issued for an intent and     *)
(* validated again before every use, against an authority plane that       *)
(* changes.  Every port a call uses (the id issuer, the generation reader, *)
(* the tenant lookup, the identity and service lookups) is a callback: it  *)
(* may change the plane, or call the service again, before it answers.  So *)
(* a call is a frame of a stack, each step ends with one port's answer,    *)
(* and anything may happen under the top frame between two steps.          *)
(***************************************************************************)
EXTENDS Integers, Sequences, FiniteSets, SequencesExt

CONSTANTS
  Services,        \* the context services created from one binder
  Tuples,          \* what the id issuer may answer: the set of the identifiers in it
  Intents,         \* the intents; each names an authority of its own
  Authorities,     \* the records an authority may hold
  Times,           \* the server times a caller passes
  Workloads,       \* the service identities (workloads and system origins)
  ServiceExpiry,   \* [Workloads -> Nat]
  MemberExpiry,    \* the earlier end of the membership and of its session
  IssuedContexts,  \* tenantContextLimits.issuedContexts
  MaxChanges,      \* bound: how often the plane changes
  MaxDepth         \* bound: how deep calls nest

ASSUME TenantAssumption ==
  /\ \A t \in Tuples : IsFiniteSet(t)
  /\ IssuedContexts \in Nat \ {0} /\ MaxChanges \in Nat /\ MaxDepth \in Nat \ {0}
  /\ ServiceExpiry \in [Workloads -> Nat] /\ MemberExpiry \in Nat

ActorType == [kind : {"membership"}, of : [revision : Nat, epoch : Nat]]
             \cup [kind : {"service"}, of : Workloads]

AuthorityType == [mode : {"principal", "system"}, revoked : BOOLEAN, expires : Nat,
                  admits : BOOLEAN, workload : Workloads, origin : Workloads]

ASSUME AuthorityAssumption == Authorities \subseteq AuthorityType /\ Times \subseteq Nat

Malformed == -1     \* a server time that safeSeconds refuses
Deleted == [mode |-> "none"]
PlaneType == [authority : [Intents -> AuthorityType \cup {Deleted}], revision : Nat, epoch : Nat,
              membershipRevoked : BOOLEAN, credentialRevoked : BOOLEAN, sessionStale : BOOLEAN,
              revokedServices : SUBSET Workloads]

Mode(actor) == IF actor.kind = "membership" THEN "principal" ELSE "system"

VARIABLES
  planes,       \* every generation of the authority plane; the last one is current
  memberships,  \* resolved memberships handed out: [revision, epoch]
  contexts,     \* the contexts bound so far, in order
  invalidated,  \* positions in contexts of those invalidated
  usedIds,      \* the replay state shared by the binder's services
  stack         \* the calls in progress, the innermost last

vars == <<planes, memberships, contexts, invalidated, usedIds, stack>>

----------------------------------------------------------------------------
(* The authority plane.  A generation is an object no other is equal to:   *)
(* here, a position in the history.                                        *)

Generation == Len(planes)
Plane == planes[Generation]

\* resolveMembership: the credential and the membership allow it now
Resolvable(p, now) ==
  /\ ~p.credentialRevoked /\ ~p.sessionStale
  /\ ~p.membershipRevoked /\ MemberExpiry > now

\* validateMembership: it still resolves, to the same snapshot
MembershipCurrent(p, m, now) ==
  Resolvable(p, now) /\ m.revision = p.revision /\ m.epoch = p.epoch

\* validateService
ServiceCurrent(p, w, now) == w \notin p.revokedServices /\ ServiceExpiry[w] > now

Change(p) ==
  /\ Generation <= MaxChanges
  /\ planes' = Append(planes, p)
  /\ UNCHANGED <<memberships, contexts, invalidated, usedIds, stack>>

DeleteAuthority(i) ==
  Plane.authority[i] # Deleted /\ Change([Plane EXCEPT !.authority[i] = Deleted])

\* also with the record it already holds: the generation is new all the same
ReplaceAuthority(i, a) ==
  Plane.authority[i] # Deleted /\ Change([Plane EXCEPT !.authority[i] = a])

RevokeAuthority(i) ==
  /\ Plane.authority[i] # Deleted
  /\ Change([Plane EXCEPT !.authority[i].revoked = TRUE])

RevokePrincipal ==
  Change([Plane EXCEPT !.credentialRevoked = TRUE, !.revision = @ + 1])

\* validAfter may lie after the start of the principal's session
ReactivatePrincipal(stale) ==
  Change([Plane EXCEPT !.credentialRevoked = FALSE, !.sessionStale = stale, !.revision = @ + 1])

RevokeMembership ==
  Change([Plane EXCEPT !.membershipRevoked = TRUE, !.revision = @ + 1])

SetEpoch(e) == Change([Plane EXCEPT !.epoch = e, !.revision = @ + 1])

RevokeWorkload(w) == Change([Plane EXCEPT !.revokedServices = @ \cup {w}])

----------------------------------------------------------------------------
(* Calls                                                                   *)

Top == Last(stack)
Return == stack' = Front(stack)
Become(f) == stack' = [stack EXCEPT ![Len(stack)] = f]
Goto(pc) == Become([Top EXCEPT !.pc = pc])

\* readAuthority: present and not revoked, parsed into a record
Readable(a) == a # Deleted /\ ~a.revoked

\* the actor of a context: a membership, or the origin of a system intent
ActorAllowed(p, a, actor, now) ==
  IF a.mode = "principal"
  THEN actor.kind = "membership" /\ a.admits /\ MembershipCurrent(p, actor.of, now)
  ELSE actor.kind = "service" /\ actor.of = a.origin /\ ServiceCurrent(p, actor.of, now)

WorkloadAllowed(p, a, w, now) == w = a.workload /\ ServiceCurrent(p, w, now)

Least(S) == CHOOSE x \in S : \A y \in S : x <= y

ActorExpiry(actor) == IF actor.kind = "membership" THEN MemberExpiry ELSE ServiceExpiry[actor.of]

\* the earliest end of the authority, the actor and the workload
EffectiveExpiry(a, actor, w) == Least({a.expires, ActorExpiry(actor), ServiceExpiry[w]})

Issued == Len(contexts)   \* replayState.issuedContexts
Unused(ids) == ids \cap usedIds = {}

Actors == [kind : {"membership"}, of : memberships] \cup [kind : {"service"}, of : Workloads]

\* A client resolves its membership to pass it to issuePrincipal.
ResolveMembership(now) ==
  /\ Resolvable(Plane, now)
  /\ memberships' = memberships \cup {[revision |-> Plane.revision, epoch |-> Plane.epoch]}
  /\ UNCHANGED <<planes, contexts, invalidated, usedIds, stack>>

\* issuePrincipal and issueSystem start: the bound, then the id issuer is called.
StartIssue(s, i, actor, w, now) ==
  /\ Len(stack) < MaxDepth
  /\ Issued < IssuedContexts
  /\ stack' = Append(stack, [op |-> "issue", pc |-> "ids", service |-> s, now |-> now,
                             intent |-> i, actor |-> actor, workload |-> w, ids |-> {},
                             gen |-> 0, authority |-> Deleted, context |-> 0, started |-> Generation])
  /\ UNCHANGED <<planes, memberships, contexts, invalidated, usedIds>>

\* parseIds: three identifiers, no two of them equal
WellFormed(ids) == Cardinality(ids) = 3

\* nextIds: the issuer answers; an identifier already used is a replay.
TakeIds(ids) ==
  /\ Top.op = "issue" /\ Top.pc = "ids"
  /\ IF WellFormed(ids) /\ Unused(ids)
     THEN Become([Top EXCEPT !.ids = ids, !.pc = "capture"])
     ELSE Return

\* captureGeneration
Capture ==
  /\ Top.op = "issue" /\ Top.pc = "capture"
  /\ Become([Top EXCEPT !.gen = Generation, !.pc = "lookup"])

\* readAuthority for the intent, its mode and its end
ReadAuthority ==
  /\ Top.op = "issue" /\ Top.pc = "lookup"
  /\ LET a == Plane.authority[Top.intent]
     IN IF Readable(a) /\ a.mode = Mode(Top.actor) /\ a.expires > Top.now
        THEN Become([Top EXCEPT !.authority = a, !.pc = "actor"])
        ELSE Return

CheckActor ==
  /\ Top.op = "issue" /\ Top.pc = "actor"
  /\ IF ActorAllowed(Plane, Top.authority, Top.actor, Top.now) THEN Goto("workload") ELSE Return

CheckWorkload ==
  /\ Top.op = "issue" /\ Top.pc = "workload"
  /\ IF WorkloadAllowed(Plane, Top.authority, Top.workload, Top.now) THEN Goto("recheck") ELSE Return

\* mutant: the generation is not read again before the context is bound
RecheckExpiryOnly ==
  /\ Top.op = "issue" /\ Top.pc = "recheck"
  /\ IF EffectiveExpiry(Top.authority, Top.actor, Top.workload) > Top.now THEN Goto("bind") ELSE Return

\* generationUnchanged and the effective expiry; the reader may still call
\* back after it read, so binding is a step of its own.
Recheck ==
  /\ Top.op = "issue" /\ Top.pc = "recheck"
  /\ IF /\ Generation = Top.gen
        /\ EffectiveExpiry(Top.authority, Top.actor, Top.workload) > Top.now
     THEN Goto("bind") ELSE Return

IssueStep ==
  /\ stack # <<>>
  /\ Capture \/ ReadAuthority \/ CheckActor \/ CheckWorkload \/ Recheck
     \/ \E ids \in Tuples : TakeIds(ids)
  /\ UNCHANGED <<planes, memberships, contexts, invalidated, usedIds>>

\* bindContext looks at the replay state and at the bound once more.
BindableUnused(f) == Unused(f.ids)               \* mutant: the bound is not looked at again
BindableInBound(f) == Issued < IssuedContexts    \* mutant: the identifiers are not looked at again
Bindable(f) == Unused(f.ids) /\ Issued < IssuedContexts

BindContext ==
  /\ stack # <<>> /\ Top.op = "issue" /\ Top.pc = "bind"
  /\ Return
  /\ IF Bindable(Top)
     THEN /\ contexts' = Append(contexts,
               [service |-> Top.service, issuedAt |-> Top.now, ids |-> Top.ids, gen |-> Top.gen, intent |-> Top.intent,
                authority |-> Top.authority, actor |-> Top.actor, workload |-> Top.workload,
                expires |-> EffectiveExpiry(Top.authority, Top.actor, Top.workload)])
          /\ usedIds' = usedIds \cup Top.ids
     ELSE UNCHANGED <<contexts, usedIds>>
  /\ UNCHANGED <<planes, memberships, invalidated>>

----------------------------------------------------------------------------
(* validate                                                                *)

\* A context is known only to the service that issued it, and an invalidated
\* one is denied before anything else is looked at.
StartValidate(s, c, now) ==
  /\ Len(stack) < MaxDepth
  /\ contexts[c].service = s /\ c \notin invalidated
  /\ IF now = Malformed \/ contexts[c].expires <= now
     THEN invalidated' = invalidated \cup {c} /\ UNCHANGED stack
     ELSE /\ stack' = Append(stack, [op |-> "validate", pc |-> "first", service |-> s, now |-> now,
                 intent |-> contexts[c].intent, actor |-> contexts[c].actor,
                 workload |-> contexts[c].workload, ids |-> {}, gen |-> contexts[c].gen,
                 authority |-> Deleted, context |-> c, started |-> Generation])
          /\ UNCHANGED invalidated
  /\ UNCHANGED <<planes, memberships, contexts, usedIds>>

\* generationUnchanged, before anything is read and after everything was
SameBytes(f) == Plane = planes[f.gen]   \* mutant: compares what the plane says, not its generation
Unchanged(f) == Generation = f.gen

\* readAuthority again: the very record the context was issued for
SameAuthority(f) ==
  LET a == Plane.authority[f.intent]
  IN Readable(a) /\ a = contexts[f.context].authority

\* One port answers: the call goes on, returns the context, or invalidates it.
ValidateStep(from, passed, to) ==
  /\ stack # <<>> /\ Top.op = "validate" /\ Top.pc = from
  /\ IF passed
     THEN Goto(to) /\ UNCHANGED invalidated
     ELSE Return /\ invalidated' = invalidated \cup {Top.context}
  /\ UNCHANGED <<planes, memberships, contexts, usedIds>>

ValidateFirst == ValidateStep("first", Unchanged(Top), "lookup")
ValidateAuthority == ValidateStep("lookup", SameAuthority(Top), "workload")
ValidateWorkload ==
  ValidateStep("workload",
    WorkloadAllowed(Plane, contexts[Top.context].authority, Top.workload, Top.now), "actor")
ValidateActor ==
  ValidateStep("actor",
    ActorAllowed(Plane, contexts[Top.context].authority, Top.actor, Top.now), "last")
ValidateLast == ValidateStep("last", Unchanged(Top), "valid")

\* A port throws, or answers something malformed: the call is denied.
PortFails ==
  /\ stack # <<>> /\ Top.pc \notin {"bind", "valid"}
  /\ Return
  /\ invalidated' = IF Top.op = "validate" THEN invalidated \cup {Top.context} ELSE invalidated
  /\ UNCHANGED <<planes, memberships, contexts, usedIds>>

\* the context is returned as issued
ReturnValid ==
  /\ stack # <<>> /\ Top.op = "validate" /\ Top.pc = "valid"
  /\ Return
  /\ UNCHANGED <<planes, memberships, contexts, invalidated, usedIds>>

----------------------------------------------------------------------------
Init ==
  /\ \E a \in [Intents -> Authorities] :
       planes = <<[authority |-> a, revision |-> 1, epoch |-> 1, membershipRevoked |-> FALSE,
                   credentialRevoked |-> FALSE, sessionStale |-> FALSE, revokedServices |-> {}]>>
  /\ memberships = {} /\ contexts = <<>> /\ invalidated = {} /\ usedIds = {} /\ stack = <<>>

AuthorityNext ==
  \/ \E i \in Intents : DeleteAuthority(i) \/ RevokeAuthority(i)
                      \/ \E a \in Authorities : ReplaceAuthority(i, a)
  \/ RevokePrincipal \/ RevokeMembership
  \/ \E stale \in BOOLEAN : ReactivatePrincipal(stale)
  \/ \E e \in 1 .. 2 : SetEpoch(e)
  \/ \E w \in Workloads : RevokeWorkload(w)

CallNext ==
  \/ \E now \in Times : ResolveMembership(now)
  \/ \E s \in Services, i \in Intents, actor \in Actors, w \in Workloads, now \in Times :
       StartIssue(s, i, actor, w, now)
  \/ IssueStep \/ BindContext
  \/ \E s \in Services, c \in DOMAIN contexts, now \in Times \cup {Malformed} : StartValidate(s, c, now)
  \/ ValidateFirst \/ ValidateAuthority \/ ValidateWorkload \/ ValidateActor \/ ValidateLast
  \/ PortFails \/ ReturnValid

Next == AuthorityNext \/ CallNext

Spec == Init /\ [][Next]_vars

----------------------------------------------------------------------------
(* Properties                                                              *)

FrameType ==
  [op : {"issue", "validate"},
   pc : {"ids", "capture", "lookup", "actor", "workload", "recheck", "bind", "first", "last", "valid"},
   service : Services, now : Times, intent : Intents, actor : ActorType, workload : Workloads,
   ids : Tuples \cup {{}}, gen : Nat, authority : AuthorityType \cup {Deleted},
   context : Nat, started : Nat]

ContextType ==
  [service : Services, issuedAt : Times, ids : Tuples, gen : Nat, intent : Intents,
   authority : AuthorityType, actor : ActorType, workload : Workloads, expires : Nat]

\* The types of the state: a bound context has three identifiers, and every
\* context and frame names a generation that existed.
TypeOK ==
  /\ planes \in Seq(PlaneType) /\ planes # <<>>
  /\ memberships \subseteq [revision : Nat, epoch : Nat]
  /\ contexts \in Seq(ContextType) /\ invalidated \subseteq DOMAIN contexts
  /\ \A c \in DOMAIN contexts : contexts[c].gen \in 1 .. Generation /\ Cardinality(contexts[c].ids) = 3
  /\ stack \in Seq(FrameType)
  /\ \A d \in DOMAIN stack : stack[d].gen <= Generation /\ stack[d].started \in 1 .. Generation

\* No identifier of a context is ever an identifier of another one, whichever
\* service of the binder issued it and however the issuances were nested.
IdentifiersUsedOnce ==
  \A c, d \in DOMAIN contexts : c # d => contexts[c].ids \cap contexts[d].ids = {}

\* All services of a binder together never issue more contexts than the limit.
IssuedWithinBound == Issued <= IssuedContexts

\* What one generation of the plane allows, all of it at one time.
Permits(p, intent, a, actor, w, now) ==
  /\ p.authority[intent] = a /\ Readable(a) /\ a.mode = Mode(actor) /\ a.expires > now
  /\ ActorAllowed(p, a, actor, now) /\ WorkloadAllowed(p, a, w, now)

\* A context is bound, and is returned as valid, only for inputs that one
\* single generation allowed together: a call never mixes an authority read
\* before a change with a membership or a service read after it.
DecidedInOneGeneration ==
  /\ \A c \in DOMAIN contexts :
       LET x == contexts[c]
       IN Permits(planes[x.gen], x.intent, x.authority, x.actor, x.workload, x.issuedAt)
  /\ \A d \in DOMAIN stack :
       LET f == stack[d]
       IN f.pc = "valid" =>
            Permits(planes[f.gen], f.intent, contexts[f.context].authority, f.actor, f.workload, f.now)

\* Once anything in the plane changed, no call of validate that starts later
\* returns the context, not even when the change was taken back or replaced a
\* record by the same one: a valid answer means that the generation at the
\* start of the call was the one the context was issued in.
NeverRevived ==
  \A d \in DOMAIN stack :
    stack[d].pc = "valid" => stack[d].started = contexts[stack[d].context].gen

================================================================================
