------------------------------ MODULE MCOutbox ------------------------------
(***************************************************************************)
(* Instances of the two outboxes.  A behaviour is one of one of them.      *)
(* LocalOutbox's drafts: the first two revisions of message a, a fork of   *)
(* its first revision, and a message b under the operation that a's first  *)
(* revision uses.  SqlOutbox's messages: two rows, ordered by their ids.   *)
(***************************************************************************)
EXTENDS LocalOutbox, TLC

CONSTANTS Message, Precedes(_, _), Leases, SqlAttempts

VARIABLES
  focus,                                   \* "local" or "sql"
  row, sqlReceipts, sqlTickets, sqlClock, sqlIssued

draft(i, v, p, o) == [id |-> i, version |-> v, previous |-> p, operation |-> o]

Revisions ==
  {draft("a", 1, 0, "o1"), draft("a", 2, 1, "o2"),
   draft("a", 3, 1, "o3"), draft("b", 1, 0, "o1")}

\* One message and its revision: the runs that need many claims.
OneRevision == {draft("a", 1, 0, "o1"), draft("a", 2, 1, "o2")}

Less(m, n) == m < n

Consumers == Permutations(Consumer)

Sql == INSTANCE SqlOutbox WITH
  MaxAttempts <- SqlAttempts,
  receipts <- sqlReceipts, tickets <- sqlTickets, clock <- sqlClock, issued <- sqlIssued

ASSUME SqlAssumption == Sql!SqlOutboxAssumption

sqlVars == <<row, sqlReceipts, sqlTickets, sqlClock, sqlIssued>>

MCInit == focus \in {"local", "sql"} /\ Init /\ Sql!Init

MCNext ==
  /\ UNCHANGED focus
  /\ \/ focus = "local" /\ Next
     \/ focus # "local" /\ UNCHANGED vars
  /\ \/ focus = "sql" /\ Sql!Next
     \/ focus # "sql" /\ UNCHANGED sqlVars

MCSpec == MCInit /\ [][MCNext]_<<vars, focus, sqlVars>>

---------------------------------------------------------------------------
\* The deliveries and receipts of the tables agree, and the tables serve the message untouched
\* longest and settle it once (SqlOutbox, migration 0006).
SqlDelivery == Sql!SqlDelivery

\* The three functions keep the contract of leased delivery (SqlOutbox, OutboxContract).
SqlImplementsContract == Sql!SqlImplementsContract
=============================================================================
