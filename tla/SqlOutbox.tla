------------------------------ MODULE SqlOutbox ------------------------------
(***************************************************************************)
(* The outbox of one tenant and purpose in CockroachDB (migration 0006).   *)
(* The executor role cannot write deliveries or receipts itself: it calls  *)
(* three security-definer functions, each one serializable transaction and *)
(* here one step.  CURRENT_TIMESTAMP is the clock.  Delivery rows are put  *)
(* in by the migration owner, outside the repository's code.               *)
(***************************************************************************)
EXTENDS Naturals, FiniteSets

CONSTANTS
  Message,      \* (message_id, message_revision) of the rows; a strict order follows
  Precedes(_, _),
  Consumer,
  NoConsumer,   \* the all-zero consumer_id of a pending row
  Leases,       \* p_lease, in ticks: 1 second to 5 minutes in the code
  MaxAttempts,  \* of the contract; no function here gives a message up
  MaxClock,     \* bound of the model: the clock stops here
  MaxClaims     \* bound of the model: claims granted in a behaviour

SqlOutboxAssumption ==
  /\ NoConsumer \notin Consumer
  /\ Leases \subseteq Nat \ {0} /\ MaxClock \in Nat /\ MaxClaims \in Nat

VARIABLES
  row,       \* outbox_deliveries: message -> row
  receipts,  \* inbox_receipts
  tickets,   \* what claim_outbox_delivery returned; clients keep and reuse it
  clock,
  issued     \* claims granted: stands for the random 48-digit fence_token

vars == <<row, receipts, tickets, clock, issued>>

-----------------------------------------------------------------------------
NoRow == [status |-> "absent", attempts |-> 0, fence |-> 0, consumer |-> NoConsumer,
          expires |-> 0, updated |-> 0]

Init ==
  /\ row = [m \in Message |-> NoRow]
  /\ receipts = {} /\ tickets = {} /\ clock = 0 /\ issued = 0

Insert(m) ==
  /\ row[m].status = "absent"
  /\ row' = [row EXCEPT ![m] = [NoRow EXCEPT !.status = "pending", !.updated = clock]]
  /\ UNCHANGED <<receipts, tickets, clock, issued>>

Available(m) ==
  \/ row[m].status = "pending"
  \/ row[m].status = "claimed" /\ row[m].expires <= clock

\* ORDER BY updated_at, message_id, message_revision LIMIT 1
Earlier(m, n) ==
  \/ row[m].updated < row[n].updated
  \/ row[m].updated = row[n].updated /\ Precedes(m, n)

\* Mutant: any available row will do, as without the ORDER BY.
AnyAvailable(m) == Available(m)

Candidate(m) ==
  /\ Available(m)
  /\ \A n \in Message \ {m} : Available(n) => Earlier(m, n)

Claim(c, lease) ==
  /\ issued < MaxClaims
  /\ \E m \in Message :
       /\ Candidate(m)
       /\ row' = [row EXCEPT ![m] =
                    [status |-> "claimed", attempts |-> @.attempts + 1, fence |-> issued + 1,
                     consumer |-> c, expires |-> clock + lease, updated |-> clock]]
       /\ tickets' = tickets \cup
                       {[message |-> m, attempts |-> row[m].attempts + 1, fence |-> issued + 1]}
  /\ issued' = issued + 1
  /\ UNCHANGED <<receipts, clock>>

\* Mutant: the lease may be over.
RunningOrOver(c, t) ==
  LET r == row[t.message] IN
  /\ r.consumer = c /\ r.attempts = t.attempts /\ r.fence = t.fence
  /\ r.status = "claimed"

\* The WHERE clause of the two functions below: the caller's running lease.
Running(c, t) ==
  LET r == row[t.message] IN
  /\ r.consumer = c /\ r.attempts = t.attempts /\ r.fence = t.fence
  /\ r.status = "claimed" /\ r.expires > clock

\* The primary key has no fence: ON CONFLICT DO NOTHING keeps the first receipt.
SameKey(r, s) == r.consumer = s.consumer /\ r.message = s.message /\ r.attempts = s.attempts
ReceiptFor(c, t) ==
  [consumer |-> c, message |-> t.message, attempts |-> t.attempts, fence |-> t.fence]

RecordInbox(c, t) ==
  /\ Running(c, t)
  /\ ~ \E r \in receipts : SameKey(r, ReceiptFor(c, t))
  /\ receipts' = receipts \cup {ReceiptFor(c, t)}
  /\ UNCHANGED <<row, tickets, clock, issued>>

Acknowledge(c, t) ==
  /\ Running(c, t)
  /\ ReceiptFor(c, t) \in receipts
  /\ row' = [row EXCEPT ![t.message] =
               [@ EXCEPT !.status = "acked", !.expires = 0, !.updated = clock]]
  /\ UNCHANGED <<receipts, tickets, clock, issued>>

Tick ==
  /\ clock < MaxClock
  /\ clock' = clock + 1
  /\ UNCHANGED <<row, receipts, tickets, issued>>

Next ==
  \/ \E m \in Message : Insert(m)
  \/ \E c \in Consumer :
       \/ \E lease \in Leases : Claim(c, lease)
       \/ \E t \in tickets : RecordInbox(c, t) \/ Acknowledge(c, t)
  \/ Tick

Spec == Init /\ [][Next]_vars

-----------------------------------------------------------------------------
\* Every variable has its type.
TypeOK ==
  /\ row \in [Message ->
       [status : {"absent", "pending", "claimed", "acked"}, attempts : Nat, fence : Nat,
        consumer : Consumer \cup {NoConsumer}, expires : Nat, updated : Nat]]
  /\ receipts \subseteq [consumer : Consumer, message : Message, attempts : Nat, fence : Nat]
  /\ tickets \subseteq [message : Message, attempts : Nat, fence : Nat]
  /\ clock \in Nat /\ issued \in Nat

\* Every variable has its type, the CHECKs of the delivery table hold, an attempt at a message
\* has one receipt under one fence although the key of inbox_receipts has no fence, and a row
\* is acknowledged under a receipt of its last attempt (migration 0006).
DeliveryInv ==
  /\ TypeOK
  /\ \A m \in Message :
       /\ row[m].status = "pending" => row[m].consumer = NoConsumer
       /\ row[m].status = "claimed" <=> row[m].expires > 0
       /\ row[m].status = "acked" =>
            \E r \in receipts : /\ r.consumer = row[m].consumer /\ r.message = m
                               /\ r.attempts = row[m].attempts /\ r.fence = row[m].fence
  /\ \A r, s \in receipts : r.message = s.message /\ r.attempts = s.attempts => r = s

\* First come, first served: while a message available since before another was last touched is
\* waiting, no claim takes that other (claim, ORDER BY).  And a settled message stays settled,
\* whatever late tickets and claims come after (acknowledge, record_inbox).
FirstComeFirstServed ==
  [][\A m, n \in Message :
       /\ Available(m) /\ row[m].updated < row[n].updated => row'[n].fence = row[n].fence
       /\ row[m].status = "acked" => row'[m] = row[m]]_vars

\* The deliveries and receipts of the tables agree, and the tables serve the message untouched
\* longest and settle it once.
SqlDelivery == []DeliveryInv /\ FirstComeFirstServed

-----------------------------------------------------------------------------
Phase(m) ==
  CASE row[m].status = "acked" -> "done"
    [] row[m].status = "claimed" /\ row[m].expires > clock -> "leased"
    [] row[m].status = "absent" -> "absent"
    [] OTHER -> "ready"

Contract == INSTANCE OutboxContract WITH
  phase <- [m \in Message |-> Phase(m)],
  holder <- [m \in Message |->
               IF Phase(m) \in {"absent", "ready"} THEN NoConsumer ELSE row[m].consumer],
  grant <- [m \in Message |-> row[m].attempts],
  receipts <- {[message |-> r.message, consumer |-> r.consumer, grant |-> r.attempts] :
                 r \in receipts}

\* The three functions keep the contract of leased delivery.
SqlImplementsContract == Contract!Spec
=============================================================================
