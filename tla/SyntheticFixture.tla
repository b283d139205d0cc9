-------------------------- MODULE SyntheticFixture --------------------------
(***************************************************************************)
(* The deterministic local harness (B04), createLocalSyntheticFixture of   *)
(* packages/adapters-local/src/local-synthetic-fixture.ts: the ID-only     *)
(* queue, the idempotent state rows and the controller's reset, in one     *)
(* tenant-and-purpose scope.  Every call is synchronous and is one step;   *)
(* a call that fails or changes nothing is a stuttering step.              *)
(*                                                                         *)
(* The manual clock is kept relative: of a delivery, how long its lease    *)
(* still runs, so that time never ends in the model (in the code it ends   *)
(* at MAX_SAFE_INTEGER milliseconds).  A handle is an object made by one   *)
(* claim: it stands for (generation, message, attempt), which one claim    *)
(* determines.  A scope handle is worth its generation.                    *)
(***************************************************************************)
EXTENDS Naturals, FiniteSets, Functions

CONSTANTS
  Message,      \* message ids, as numbers: claims compare ids
  Commitment,
  Cap,          \* messageCommitments = queueDepth
  MaxAttempts,  \* queueMaxAttempts
  Lease,        \* queueLeaseMilliseconds, in ticks
  LostAcks,     \* ordinals of the fault rules: acknowledgements that get lost
  Key, Value, Token,
  NoRevision,   \* no expectedRevision was given
  StateRows,    \* bound on state rows and on idempotency keys (64)
  MaxResets     \* bound of the model: how often the controller resets

FixtureAssumption ==
  /\ Message \subseteq Nat
  /\ Cap \in Nat /\ MaxAttempts \in Nat \ {0} /\ Lease \in Nat \ {0}
  /\ LostAcks \subseteq Nat \ {0}
  /\ StateRows \in Nat /\ NoRevision \notin Nat /\ MaxResets \in Nat

VARIABLES
  generation,
  scopes,    \* generations for which some client was issued a scope
  seen,      \* message id -> commitment, terminal until reset
  queue,     \* message id -> [attempts, left]; left > 0 while a lease runs
  dead,      \* dead-lettered ids, in order: here the set of them
  acked,     \* handles that were acknowledged in this generation (history)
  handles,   \* delivery handles ever issued
  ordinal,   \* acknowledgements that passed the checks
  journal,   \* ordinals of the faults that struck
  rows,      \* state key -> [revision, value]
  tokens     \* idempotency key -> the write it named and the revision it got

queueVars == <<seen, queue, dead, acked, handles, ordinal, journal>>
stateVars == <<rows, tokens>>
fixtureVars == <<generation, scopes, queueVars, stateVars>>

FixtureInit ==
  /\ generation = 0 /\ scopes = {}
  /\ seen = << >> /\ queue = << >> /\ dead = {} /\ acked = {}
  /\ handles = {} /\ ordinal = 0 /\ journal = {}
  /\ rows = << >> /\ tokens = << >>

-----------------------------------------------------------------------------
\* identity.resolve and identity.authorize: a scope is bound to its generation.
Authorize ==
  /\ scopes' = scopes \cup {generation}
  /\ UNCHANGED <<generation, queueVars, stateVars>>

InScope(g) == g \in scopes /\ g = generation

With(f, x, y) == [z \in DOMAIN f \cup {x} |-> IF z = x THEN y ELSE f[z]]

-----------------------------------------------------------------------------
\* A known id replays or conflicts, before the bounds are looked at.
Unseen(m) == m \notin DOMAIN seen

Enqueue(g, m, c) ==
  /\ InScope(g)
  /\ Unseen(m)
  /\ Cardinality(DOMAIN seen) < Cap /\ Cardinality(DOMAIN queue) < Cap
  /\ seen' = With(seen, m, c)
  /\ queue' = With(queue, m, [attempts |-> 0, left |-> 0])
  /\ UNCHANGED <<generation, scopes, dead, acked, handles, ordinal, journal, stateVars>>

\* Mutant: leases that are over are not cleared.
FreeIfFresh(m) == queue[m].left = 0 /\ queue[m].attempts = 0

Free(m) == queue[m].left = 0

Exhausted(m) == Free(m) /\ queue[m].attempts >= MaxAttempts
Claimable(m) == Free(m) /\ ~Exhausted(m)

\* claim() walks the rows in the order of their ids ...
NextClaim ==
  {m \in DOMAIN queue : Claimable(m) /\ \A n \in DOMAIN queue : Claimable(n) => m <= n}

\* ... and buries the exhausted ones it passes on the way.
Buried ==
  {m \in DOMAIN queue : Exhausted(m) /\ \A n \in NextClaim : m < n}

\* Mutant: a buried message stays in the queue.
KeptQueue == DOMAIN queue

Kept == DOMAIN queue \ Buried

Claim(g) ==
  /\ InScope(g)
  /\ Cardinality(dead) + Cardinality(Buried) =< Cap
  /\ dead' = dead \cup Buried
  /\ queue' = [m \in Kept |->
                 IF m \in NextClaim THEN [attempts |-> queue[m].attempts + 1, left |-> Lease]
                                    ELSE queue[m]]
  /\ handles' = handles \cup {[id |-> m, attempts |-> queue[m].attempts + 1,
                               generation |-> generation] : m \in NextClaim}
  /\ UNCHANGED <<generation, scopes, seen, acked, ordinal, journal, stateVars>>

\* Mutant: the handle is not compared with the running lease.
CurrentAnyAttempt(h) ==
  h.generation = generation /\ h.id \in DOMAIN queue /\ queue[h.id].left > 0

\* entry.lease === handle, after the leases that are over were cleared.
Current(h) ==
  /\ h.generation = generation
  /\ h.id \in DOMAIN queue /\ queue[h.id].left > 0
  /\ h.attempts = queue[h.id].attempts

Removed(h) ==
  [m \in (IF ordinal' \in LostAcks THEN DOMAIN queue ELSE DOMAIN queue \ {h.id}) |-> queue[m]]

Acknowledge(g, h) ==
  /\ InScope(g)
  /\ Current(h)
  /\ ordinal' = ordinal + 1
  /\ queue' = Removed(h)
  /\ IF ordinal' \in LostAcks
       THEN journal' = journal \cup {ordinal'} /\ UNCHANGED acked
       ELSE acked' = acked \cup {h} /\ UNCHANGED journal
  /\ UNCHANGED <<generation, scopes, seen, dead, handles, stateVars>>

\* clock.advance
Advance ==
  /\ \E m \in DOMAIN queue : queue[m].left > 0
  /\ queue' = [m \in DOMAIN queue |->
                 [queue[m] EXCEPT !.left = IF @ = 0 THEN 0 ELSE @ - 1]]
  /\ UNCHANGED <<generation, scopes, seen, dead, acked, handles, ordinal, journal, stateVars>>

-----------------------------------------------------------------------------

\* An expected revision never matches a key without a row, not even as 0.
Expected(k, e) == e # NoRevision => k \in DOMAIN rows /\ rows[k].revision = e

\* A used token replays its result or is an IDEMPOTENCY_MISMATCH.
FreshToken(t) == t \notin DOMAIN tokens

NextRevision(k) == IF k \in DOMAIN rows THEN rows[k].revision + 1 ELSE 1

Write(g, k, v, e, t) ==
  /\ InScope(g)
  /\ FreshToken(t)
  /\ Expected(k, e)
  /\ k \notin DOMAIN rows => Cardinality(DOMAIN rows) < StateRows
  /\ Cardinality(DOMAIN tokens) < StateRows
  /\ rows' = With(rows, k, [revision |-> NextRevision(k), value |-> v])
  /\ tokens' = With(tokens, t, [key |-> k, value |-> v, expected |-> e,
                                revision |-> NextRevision(k)])
  /\ UNCHANGED <<generation, scopes, queueVars>>

-----------------------------------------------------------------------------

QueueBusy == \E m \in DOMAIN queue : queue[m].left > 0

\* controller.reset: refused while a lease runs.
Reset ==
  /\ generation < MaxResets
  /\ ~QueueBusy
  /\ generation' = generation + 1
  /\ seen' = << >> /\ queue' = << >> /\ dead' = {} /\ acked' = {}
  /\ ordinal' = 0 /\ journal' = {} /\ rows' = << >> /\ tokens' = << >>
  /\ UNCHANGED <<scopes, handles>>

FixtureNext ==
  \/ Authorize
  \/ \E g \in scopes :
       \/ \E m \in Message, c \in Commitment : Enqueue(g, m, c)
       \/ Claim(g)
       \/ \E h \in handles : Acknowledge(g, h)
       \/ \E k \in Key, v \in Value, t \in Token :
            \E e \in 0 .. Cardinality(Token) \cup {NoRevision} : Write(g, k, v, e, t)
  \/ Advance
  \/ Reset

FixtureSpec == FixtureInit /\ [][FixtureNext]_fixtureVars

\* A driver that goes on: it has a scope, it polls, and it advances the clock.
Poll == \E g \in scopes : Claim(g)

FairSpec == FixtureSpec /\ WF_fixtureVars(Authorize) /\ WF_fixtureVars(Poll) /\ WF_fixtureVars(Advance)

-----------------------------------------------------------------------------
(* Properties.                                                             *)

\* Every variable has its type (the maps of createLocalSyntheticFixture).
FixtureTypeOK ==
  /\ generation \in Nat /\ scopes \subseteq 0 .. generation
  /\ seen \in [DOMAIN seen -> Commitment] /\ DOMAIN seen \subseteq Message
  /\ queue \in [DOMAIN queue -> [attempts : 0 .. MaxAttempts, left : 0 .. Lease]]
  /\ dead \subseteq Message /\ acked \subseteq handles
  /\ handles \subseteq [id : Message, attempts : 1 .. MaxAttempts, generation : 0 .. generation]
  /\ ordinal \in Nat /\ journal \subseteq LostAcks
  /\ rows \in [DOMAIN rows -> [revision : Nat, value : Value]] /\ DOMAIN rows \subseteq Key
  /\ DOMAIN tokens \subseteq Token

\* Until the next reset every known message is in exactly one place, queued, dead or
\* acknowledged, so none is lost or comes back, and the dead-letter bound that
\* claim() checks halfway through its walk is never met.
AckedIds == {h.id : h \in acked}

EachMessageOnce ==
  /\ DOMAIN seen = DOMAIN queue \cup dead \cup AckedIds
  /\ dead \intersect AckedIds = {}
  /\ (dead \cup AckedIds) \intersect DOMAIN queue = {}
  /\ Cardinality(dead) + Cardinality(Buried) =< Cap

\* A message is dead-lettered only after MaxAttempts deliveries of it, and is never
\* delivered more often, whatever acknowledgements are lost (claim()).
DeadAfterAllAttempts ==
  \A m \in dead : \A n \in 1 .. MaxAttempts :
    [id |-> m, attempts |-> n, generation |-> generation] \in handles

\* The idempotency records of a state key are its history: revisions 1, 2, ... without
\* a gap or a double, the last one current, and every write that named an expected
\* revision followed exactly that one (state.write).
RevisionsAreGapless ==
  \A k \in Key :
    LET writes == {t \in DOMAIN tokens : tokens[t].key = k} IN
    /\ {tokens[t].revision : t \in writes} = 1 .. Cardinality(writes)
    /\ k \in DOMAIN rows <=> writes # {}
    /\ \A t \in writes :
         /\ tokens[t].expected # NoRevision => tokens[t].revision = tokens[t].expected + 1
         /\ tokens[t].revision = rows[k].revision => tokens[t].value = rows[k].value
         /\ tokens[t].revision <= rows[k].revision

\* Until the next reset the maps of the fixture agree on every message and every state key and
\* stay in their types (enqueue(), claim(), acknowledge() and state.write each change several).
QueueInv == FixtureTypeOK /\ EachMessageOnce /\ DeadAfterAllAttempts /\ RevisionsAreGapless

\* A message is acknowledged only under the handle of its running lease, and only by an
\* acknowledgement that was not lost: a late handle, of an earlier attempt or of an earlier
\* generation, settles nothing (acknowledge()).  And a running lease is neither handed to
\* another claim nor cut short by a reset: it ends by its acknowledgement or by the clock
\* (expire(), reset()'s BUSY).
OnlyItsHolderSettles ==
  [][/\ \A h \in acked' \ acked :
          /\ h.generation = generation
          /\ h.id \in DOMAIN queue /\ queue[h.id].left > 0
          /\ queue[h.id].attempts = h.attempts
          /\ ordinal' \notin journal'
     /\ \A m \in DOMAIN queue :
          queue[m].left > 0 =>
            \/ \E h \in acked' : h.id = m
            \/ /\ m \in DOMAIN queue' /\ generation' = generation
               /\ queue'[m].attempts = queue[m].attempts
               /\ queue[m].left - queue'[m].left \in {0, 1}]_fixtureVars

\* No message starves, although claims favour the smaller ids and every consumer may
\* die with its lease: a driver that polls and advances the clock sees it leave.
EventuallySettled == \A m \in Message : m \in DOMAIN queue ~> m \notin DOMAIN queue
=============================================================================
