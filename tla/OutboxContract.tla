--------------------------- MODULE OutboxContract ---------------------------
(***************************************************************************)
(* What the durable-messaging boundary promises a consumer, whoever keeps  *)
(* it: a published message is leased to one consumer at a time, every      *)
(* lease has a number of its own, a message is done only after the holder  *)
(* of the running lease left a receipt under that number, and is given up  *)
(* only after MaxAttempts leases.  LocalOutbox (the in-memory repository)  *)
(* and SqlOutbox (migration 0006) are both shown to implement it.          *)
(***************************************************************************)
EXTENDS Naturals

CONSTANTS Message, Consumer, NoConsumer, MaxAttempts

VARIABLES
  phase,     \* of each message: absent, ready, leased, done or buried
  holder,    \* the consumer of the running, or of the final, lease
  grant,     \* how many leases the message has had
  receipts   \* the receipts left: [message, consumer, grant]

vars == <<phase, holder, grant, receipts>>

Init ==
  /\ phase = [m \in Message |-> "absent"]
  /\ holder = [m \in Message |-> NoConsumer]
  /\ grant = [m \in Message |-> 0]
  /\ receipts = {}

ReceiptOf(m) == [message |-> m, consumer |-> holder[m], grant |-> grant[m]]

Publish(m) ==
  /\ phase[m] = "absent"
  /\ phase' = [phase EXCEPT ![m] = "ready"]
  /\ UNCHANGED <<holder, grant, receipts>>

Lease(m, c) ==
  /\ phase[m] = "ready"
  /\ phase' = [phase EXCEPT ![m] = "leased"]
  /\ holder' = [holder EXCEPT ![m] = c]
  /\ grant' = [grant EXCEPT ![m] = @ + 1]
  /\ UNCHANGED receipts

\* Leases end by time: those of any set M of messages may end together.
Lapse(M) ==
  /\ \A m \in M : phase[m] = "leased"
  /\ phase' = [m \in Message |-> IF m \in M THEN "ready" ELSE phase[m]]
  /\ holder' = [m \in Message |-> IF m \in M THEN NoConsumer ELSE holder[m]]
  /\ UNCHANGED <<grant, receipts>>

Return(m) == Lapse({m})

Receive(m) ==
  /\ phase[m] = "leased"
  /\ receipts' = receipts \cup {ReceiptOf(m)}
  /\ UNCHANGED <<phase, holder, grant>>

Complete(m) ==
  /\ phase[m] = "leased"
  /\ ReceiptOf(m) \in receipts
  /\ phase' = [phase EXCEPT ![m] = "done"]
  /\ UNCHANGED <<holder, grant, receipts>>

Bury(m) ==
  /\ phase[m] = "leased"
  /\ grant[m] >= MaxAttempts
  /\ phase' = [phase EXCEPT ![m] = "buried"]
  /\ UNCHANGED <<holder, grant, receipts>>

Next ==
  \/ \E m \in Message :
       \/ Publish(m)
       \/ \E c \in Consumer : Lease(m, c)
       \/ Return(m) \/ Receive(m) \/ Complete(m) \/ Bury(m)
  \/ \E M \in SUBSET Message : Lapse(M)

Spec == Init /\ [][Next]_vars
=============================================================================
