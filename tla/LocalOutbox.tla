----------------------------- MODULE LocalOutbox -----------------------------
(***************************************************************************)
(* The in-memory outbox and inbox of one tenant and purpose (C07):         *)
(* createLocalC07OutboxRepository behind the publish, consume and          *)
(* dead-letter services of c07-outbox-inbox.ts.                            *)
(*                                                                         *)
(* Every call is synchronous, so a call is one step; but a call asks       *)
(* currentScope() at its start and again before it writes, and a context   *)
(* can be refused in between.  Calls that change nothing (denied,          *)
(* conflict, replayed, stale, lost) are stuttering steps.  `now' is the    *)
(* server's clock.                                                         *)
(***************************************************************************)
EXTENDS Naturals, FiniteSets, Sequences, SequencesExt, Functions

CONSTANTS
  Draft,        \* drafts a publisher may append: [id, version, previous, operation]
  Consumer,
  NoConsumer,   \* the all-zero consumer id of a delivery nobody holds
  MaxAttempts,  \* maxAttempts
  LeaseTime,    \* leaseMilliseconds, in ticks
  MaxClock,     \* bound of the model: the clock stops here
  MaxClaims     \* bound of the model: claims granted in a behaviour

ASSUME OutboxAssumption ==
  /\ NoConsumer \notin Consumer
  /\ MaxAttempts \in Nat \ {0} /\ LeaseTime \in Nat \ {0}
  /\ MaxClock \in Nat /\ MaxClaims \in Nat
  /\ \A d \in Draft : /\ d.version \in Nat /\ d.previous \in Nat
                      /\ d.version > d.previous

VARIABLES
  log,         \* the appended drafts, in order: byMessage, byOperation, successors
  deliveries,  \* of every appended message: its delivery record
  pending,     \* the queue of message keys to hand out
  deadLetters, \* keys given up, in order
  inbox,       \* receipts recorded by consumers
  tickets,     \* every delivery a claim returned; holders keep and reuse them
  revoked,     \* consumers whose tenant context no longer validates
  clock,
  issued       \* claims granted so far: the identity of the last handle

vars == <<log, deliveries, pending, deadLetters, inbox, tickets, revoked, clock, issued>>

-----------------------------------------------------------------------------
Key(d) == [id |-> d.id, version |-> d.version]
Keys == {Key(d) : d \in Draft}
Appended == {log[i] : i \in DOMAIN log}
ByMessage == {Key(d) : d \in Appended}
ByOperation == {d.operation : d \in Appended}

\* successors.has(predecessorKey): the first version's predecessor is version 0.
HasSuccessor(d) == \E e \in Appended : e.id = d.id /\ e.previous = d.previous

\* nextFence: of the message id and the attempt, not of the version.
Fence(k, attempts) == [id |-> k.id, attempts |-> attempts]
NoFence == [id |-> "zero", attempts |-> 0]

Fresh == [status |-> "pending", attempts |-> 0, consumer |-> NoConsumer,
          fence |-> NoFence, handle |-> 0, lease |-> 0]

Returned(r) == [Fresh EXCEPT !.attempts = r.attempts]
Receipt(c, k, r) == [consumer |-> c, key |-> k, attempts |-> r.attempts, fence |-> r.fence]
Ticket(k, r) == [key |-> k, attempts |-> r.attempts, fence |-> r.fence, handle |-> r.handle]

InScope(c) == c \notin revoked

Init ==
  /\ log = <<>> /\ deliveries = << >> /\ pending = <<>> /\ deadLetters = <<>>
  /\ inbox = {} /\ tickets = {} /\ revoked = {} /\ clock = 0 /\ issued = 0

-----------------------------------------------------------------------------
Appendable(d) ==
  /\ d.previous # 0 => [id |-> d.id, version |-> d.previous] \in ByMessage
  /\ Key(d) \notin ByMessage /\ d.operation \notin ByOperation
  /\ ~HasSuccessor(d)

Publish(d) ==
  /\ Appendable(d)
  /\ log' = Append(log, d)
  /\ pending' = Append(pending, Key(d))
  /\ deliveries' = [k \in ByMessage \cup {Key(d)} |->
                      IF k = Key(d) THEN Fresh ELSE deliveries[k]]
  /\ UNCHANGED <<deadLetters, inbox, tickets, revoked, clock, issued>>

\* Mutant: every delivery whose lease field is past is swept, settled ones too.
ExpiredOfAnyStatus == {k \in ByMessage : deliveries[k].lease <= clock}

\* claim() first returns every delivery whose lease is over, in append order.
Expired == {k \in ByMessage : deliveries[k].status = "claimed" /\ deliveries[k].lease <= clock}
Swept == [k \in ByMessage |-> IF k \in Expired THEN Returned(deliveries[k]) ELSE deliveries[k]]
\* Mutant: swept deliveries become pending and are not pushed.
SweptQueueUnpushed == pending

\* Each key of S once, in append order: the walk of a Map.
AppendedBefore(k, l) == \E i, j \in DOMAIN log : i < j /\ Key(log[i]) = k /\ Key(log[j]) = l
InAppendOrder(S) ==
  CHOOSE q \in Bijection(1 .. Cardinality(S), S) :
    \A i, j \in DOMAIN q : i < j => AppendedBefore(q[i], q[j])

SweptQueue == pending \o InAppendOrder(Expired)

\* ... then shifts the queue to its first pending entry, dropping the others.
FirstPending ==
  SelectInSeq(SweptQueue, LAMBDA k : k \in ByMessage /\ Swept[k].status = "pending")

Claimed(c, k) ==
  [status |-> "claimed", attempts |-> Swept[k].attempts + 1, consumer |-> c,
   fence |-> Fence(k, Swept[k].attempts + 1), handle |-> issued + 1, lease |-> clock + LeaseTime]

\* With nothing pending claim() returns undefined; it cannot have swept then.
Claim(c) ==
  /\ InScope(c) /\ issued < MaxClaims
  /\ FirstPending # 0
  /\ LET k == SweptQueue[FirstPending] IN
       /\ deliveries' = [Swept EXCEPT ![k] = Claimed(c, k)]
       /\ tickets' = tickets \cup {Ticket(k, Claimed(c, k))}
  /\ pending' = SubSeq(SweptQueue, FirstPending + 1, Len(SweptQueue))
  /\ issued' = issued + 1
  /\ UNCHANGED <<log, deadLetters, inbox, revoked, clock>>

\* The context is refused after the entry was shifted off the queue: the claim
\* is denied and the entry is not put back.
ClaimDenied(c) ==
  /\ InScope(c)
  /\ FirstPending # 0
  /\ deliveries' = Swept
  /\ pending' = SubSeq(SweptQueue, FirstPending + 1, Len(SweptQueue))
  /\ revoked' = revoked \cup {c}
  /\ UNCHANGED <<log, deadLetters, inbox, tickets, clock, issued>>

\* Mutant: an acknowledgement is taken after the lease is over.
SettlesAfterExpiry(c, t, k) ==
  LET r == deliveries[k] IN
  /\ InScope(c)
  /\ r.status = "claimed" /\ k.id = t.key.id /\ r.handle = t.handle
  /\ r.consumer = c /\ r.attempts = t.attempts /\ r.fence = t.fence

\* The delivery an acknowledgement with ticket t settles: same id and handle,
\* and the caller, the attempt and the fence are those of the running lease.
Settles(c, t, k) ==
  LET r == deliveries[k] IN
  /\ InScope(c)
  /\ r.status = "claimed" /\ k.id = t.key.id /\ r.handle = t.handle
  /\ r.consumer = c /\ r.attempts = t.attempts /\ r.fence = t.fence
  /\ r.lease > clock

Acknowledge(c, t, k) ==
  /\ Settles(c, t, k)
  /\ Receipt(c, k, deliveries[k]) \in inbox
  /\ deliveries' = [deliveries EXCEPT ![k].status = "acked", ![k].lease = 0]
  /\ UNCHANGED <<log, pending, deadLetters, inbox, tickets, revoked, clock, issued>>

Retry(c, t, k) ==
  /\ Settles(c, t, k)
  /\ \/ /\ deliveries[k].attempts >= MaxAttempts
        /\ deliveries' = [deliveries EXCEPT ![k].status = "dead", ![k].lease = 0]
        /\ deadLetters' = Append(deadLetters, k)
        /\ UNCHANGED pending
     \/ /\ deliveries[k].attempts < MaxAttempts
        /\ deliveries' = [deliveries EXCEPT ![k] = Returned(@)]
        /\ pending' = Append(pending, k)
        /\ UNCHANGED deadLetters
  /\ UNCHANGED <<log, inbox, tickets, revoked, clock, issued>>

\* recordInbox takes no handle: version, attempt and fence name the lease.
RecordInbox(c, t) ==
  LET r == deliveries[t.key] IN
  /\ InScope(c)
  /\ r.status = "claimed" /\ r.lease > clock
  /\ r.consumer = c /\ r.attempts = t.attempts /\ r.fence = t.fence
  /\ inbox' = inbox \cup {Receipt(c, t.key, t)}
  /\ UNCHANGED <<log, deliveries, pending, deadLetters, tickets, revoked, clock, issued>>

\* A tenant context is invalidated (session revoked, authority withdrawn).
Revoke(c) ==
  /\ InScope(c)
  /\ revoked' = revoked \cup {c}
  /\ UNCHANGED <<log, deliveries, pending, deadLetters, inbox, tickets, clock, issued>>

Tick ==
  /\ clock < MaxClock
  /\ clock' = clock + 1
  /\ UNCHANGED <<log, deliveries, pending, deadLetters, inbox, tickets, revoked, issued>>

Next ==
  \/ \E d \in Draft : Publish(d)
  \/ \E c \in Consumer :
       \/ Claim(c) \/ ClaimDenied(c) \/ Revoke(c)
       \/ \E t \in tickets :
            \/ RecordInbox(c, t)
            \/ \E k \in ByMessage : Acknowledge(c, t, k) \/ Retry(c, t, k)
  \/ Tick

Spec == Init /\ [][Next]_vars

-----------------------------------------------------------------------------
Fences == [id : {d.id : d \in Draft} \cup {"zero"}, attempts : Nat]

Delivery ==
  [status : {"pending", "claimed", "acked", "dead"}, attempts : Nat,
   consumer : Consumer \cup {NoConsumer}, fence : Fences, handle : Nat, lease : Nat]

\* Every variable has its type (ScopeBucket and its delivery records).
TypeOK ==
  /\ log \in Seq(Draft)
  /\ deliveries \in [ByMessage -> Delivery]
  /\ pending \in Seq(Keys) /\ deadLetters \in Seq(Keys)
  /\ inbox \subseteq [consumer : Consumer, key : Keys, attempts : Nat, fence : Fences]
  /\ tickets \subseteq [key : Keys, attempts : Nat, fence : Fences, handle : Nat]
  /\ revoked \subseteq Consumer
  /\ clock \in Nat /\ issued \in Nat

\* The queue and the delivery records agree: no message is queued twice or
\* while it is claimed or settled, and none waits outside the queue unless a
\* claim lost it to a context refused halfway (claim(), the three places that
\* push a key and the one that shifts it).
PendingIsQueued ==
  /\ IsInjective(pending)
  /\ \A i \in DOMAIN pending : deliveries[pending[i]].status = "pending"
  /\ revoked = {} =>
       \A k \in ByMessage :
         deliveries[k].status = "pending" => \E i \in DOMAIN pending : pending[i] = k

\* However leases lapse and are retaken, one attempt at a message is recorded by
\* one consumer at most (recordInbox(), the fence and consumer comparison).
OneReceiptPerAttempt ==
  \A r, s \in inbox : r.key = s.key /\ r.attempts = s.attempts => r = s

\* The revisions of a message form one chain from its first version, each
\* appended after the one it follows, and an operation appends one message
\* (append(), the predecessor, successor and operation lookups).
RevisionsAreAChain ==
  \A i, j \in DOMAIN log :
    /\ i # j => log[i].operation # log[j].operation /\ Key(log[i]) # Key(log[j])
    /\ i # j /\ log[i].id = log[j].id => log[i].previous # log[j].previous
    /\ log[i].previous # 0 =>
         \E h \in 1 .. i - 1 : log[h].id = log[i].id /\ log[h].version = log[i].previous

\* The dead-letter list names each dead message once and nothing else, and none
\* of them was given up before its last attempt (acknowledge(), "retry").
DeadLettersAreDead ==
  /\ IsInjective(deadLetters)
  /\ Range(deadLetters) = {k \in ByMessage : deliveries[k].status = "dead"}
  /\ \A k \in Range(deadLetters) : deliveries[k].attempts >= MaxAttempts

\* The records of the repository agree with one another: queue, deliveries, dead letters, inbox
\* and log (append(), claim(), recordInbox() and acknowledge() each update more than one).
OutboxInv ==
  /\ TypeOK /\ PendingIsQueued /\ DeadLettersAreDead
  /\ OneReceiptPerAttempt /\ RevisionsAreAChain

\* A settled message stays settled, whatever late tickets, sweeps and claims come
\* after; and a message is claimed again only under a new attempt (claim()).
SettledIsFinal ==
  [][\A k \in ByMessage :
       /\ deliveries[k].status \in {"acked", "dead"} => deliveries'[k] = deliveries[k]
       /\ deliveries'[k].handle # deliveries[k].handle /\ deliveries'[k].status = "claimed"
            => deliveries'[k].attempts > deliveries[k].attempts]_vars

-----------------------------------------------------------------------------
\* A lease runs from the claim until the clock reaches its end, swept or not.
Phase(k) ==
  IF k \notin ByMessage THEN "absent"
  ELSE CASE deliveries[k].status = "acked" -> "done"
         [] deliveries[k].status = "dead" -> "buried"
         [] deliveries[k].status = "claimed" /\ deliveries[k].lease > clock -> "leased"
         [] OTHER -> "ready"

Holder(k) == IF Phase(k) \in {"absent", "ready"} THEN NoConsumer ELSE deliveries[k].consumer

Contract == INSTANCE OutboxContract WITH
  Message <- Keys,
  phase <- [k \in Keys |-> Phase(k)],
  holder <- [k \in Keys |-> Holder(k)],
  grant <- [k \in Keys |-> IF k \in ByMessage THEN deliveries[k].attempts ELSE 0],
  receipts <- {[message |-> r.key, consumer |-> r.consumer, grant |-> r.attempts] : r \in inbox}

\* The repository keeps the contract of leased delivery.
ImplementsContract == Contract!Spec

\* What the repository's test "retries then dead-letters after max attempts"
\* says of every message: it is not tried more often than MaxAttempts.
DeadAfterMaxAttempts == \A k \in ByMessage : deliveries[k].attempts <= MaxAttempts
=============================================================================
