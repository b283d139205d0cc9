---------------------------- MODULE OutboxProofs ----------------------------
(***************************************************************************)
(* Theorems about the two outboxes, for every set of messages, consumers   *)
(* and leases, every number of attempts and every length of a behaviour:   *)
(* the functions of migration 0006 (SqlOutbox) and the in-memory           *)
(* repository (LocalOutbox), both against OutboxContract.                  *)
(***************************************************************************)
EXTENDS MCOutbox, FiniteSetTheorems, FunctionTheorems, SequenceTheorems, TLAPS

---------------------------------------------------------------------------
(* The tables: what the receipts of a message say about its row.           *)

SqlRow ==
  [status : {"absent", "pending", "claimed", "acked"}, attempts : Nat, fence : Nat,
   consumer : Consumer \cup {NoConsumer}, expires : Nat, updated : Nat]

\* A receipt is of an attempt the row has had, and one of its last attempt names the row's
\* consumer and fence; this is why its key needs no fence.
ReceiptOfRow(r) ==
  LET x == row[r.message] IN
  /\ x.status \in {"claimed", "acked"} /\ r.attempts =< x.attempts
  /\ r.attempts = x.attempts => r.consumer = x.consumer /\ r.fence = x.fence

SqlInv ==
  /\ Sql!DeliveryInv
  /\ \A r \in sqlReceipts : ReceiptOfRow(r)
  /\ \A m \in Message : row[m].status = "absent" => row[m] = Sql!NoRow

LEMMA SqlInitInv == Sql!SqlOutboxAssumption => (Sql!Init => SqlInv)
BY DEF Sql!SqlOutboxAssumption, Sql!Init, SqlInv, Sql!DeliveryInv, Sql!TypeOK, Sql!NoRow

LEMMA InsertInv ==
  ASSUME SqlInv, NEW m \in Message, Sql!Insert(m)
  PROVE  SqlInv'
<1> DEFINE x == [Sql!NoRow EXCEPT !.status = "pending", !.updated = sqlClock]
<1>1. /\ row[m].status = "absent" /\ row' = [row EXCEPT ![m] = x]
      /\ UNCHANGED <<sqlReceipts, sqlTickets, sqlClock, sqlIssued>>
  BY DEF Sql!Insert
<1>2. x \in SqlRow /\ x.status = "pending" /\ x.consumer = NoConsumer /\ x.expires = 0
  BY DEF Sql!NoRow, SqlRow, SqlInv, Sql!DeliveryInv, Sql!TypeOK
<1> HIDE DEF x
<1>3. row'[m] = x /\ \A n \in Message \ {m} : row'[n] = row[n]
  BY <1>1 DEF SqlInv, Sql!DeliveryInv, Sql!TypeOK
<1>4. \A r \in sqlReceipts : r.message \in Message \ {m}
  BY <1>1 DEF SqlInv, ReceiptOfRow, Sql!DeliveryInv, Sql!TypeOK
<1>5. Sql!TypeOK'
  BY <1>1, <1>2 DEF SqlInv, Sql!DeliveryInv, Sql!TypeOK, SqlRow
<1>6. Sql!DeliveryInv'
  BY <1>1, <1>2, <1>3, <1>5 DEF SqlInv, Sql!DeliveryInv
<1>7. \A r \in sqlReceipts' : ReceiptOfRow(r)'
  BY <1>1, <1>3, <1>4 DEF SqlInv, ReceiptOfRow
<1> QED BY <1>2, <1>3, <1>6, <1>7 DEF SqlInv

LEMMA SqlClaimInv ==
  ASSUME Sql!SqlOutboxAssumption, SqlInv, NEW c \in Consumer, NEW lease \in Leases,
         Sql!Claim(c, lease)
  PROVE  SqlInv'
<1>1. PICK m \in Message :
        /\ Sql!Candidate(m)
        /\ row' = [row EXCEPT ![m] =
                     [status |-> "claimed", attempts |-> @.attempts + 1, fence |-> sqlIssued + 1,
                      consumer |-> c, expires |-> sqlClock + lease, updated |-> sqlClock]]
        /\ sqlTickets' = sqlTickets \cup
             {[message |-> m, attempts |-> row[m].attempts + 1, fence |-> sqlIssued + 1]}
  BY DEF Sql!Claim
<1> DEFINE x == [status |-> "claimed", attempts |-> row[m].attempts + 1, fence |-> sqlIssued + 1,
                 consumer |-> c, expires |-> sqlClock + lease, updated |-> sqlClock]
<1>2. row[m] \in SqlRow /\ sqlClock \in Nat /\ sqlIssued \in Nat /\ lease \in Nat \ {0}
  BY DEF SqlInv, Sql!DeliveryInv, Sql!TypeOK, SqlRow, Sql!SqlOutboxAssumption
<1>3. x \in SqlRow /\ x.status = "claimed" /\ x.attempts = row[m].attempts + 1 /\ x.expires > 0
  BY <1>2 DEF SqlRow
<1>4. row' = [row EXCEPT ![m] = x] /\ UNCHANGED <<sqlReceipts, sqlClock>> /\ sqlIssued' \in Nat
  <2>1. row' = [row EXCEPT ![m] = x]
    BY <1>1
  <2>2. UNCHANGED <<sqlReceipts, sqlClock>> /\ sqlIssued' = sqlIssued + 1
    BY DEF Sql!Claim
  <2> QED BY <1>2, <2>1, <2>2
<1>5. sqlTickets' \subseteq [message : Message, attempts : Nat, fence : Nat]
  BY <1>1, <1>2 DEF SqlInv, Sql!DeliveryInv, Sql!TypeOK, SqlRow
<1> HIDE DEF x
<1>6. row'[m] = x /\ \A n \in Message \ {m} : row'[n] = row[n]
  BY <1>4 DEF SqlInv, Sql!DeliveryInv, Sql!TypeOK
<1>7. \A r \in sqlReceipts : r.message = m => r.attempts < x.attempts
  BY <1>2, <1>3 DEF SqlInv, ReceiptOfRow, Sql!DeliveryInv, Sql!TypeOK, SqlRow
<1>8. Sql!TypeOK'
  BY <1>3, <1>4, <1>5 DEF SqlInv, Sql!DeliveryInv, Sql!TypeOK, SqlRow
<1>9. Sql!DeliveryInv'
  BY <1>3, <1>4, <1>6, <1>8 DEF SqlInv, Sql!DeliveryInv
<1>10. \A r \in sqlReceipts' : ReceiptOfRow(r)'
  <2>1. ASSUME NEW r \in sqlReceipts, r.message = m PROVE ReceiptOfRow(r)'
    BY <1>2, <1>3, <1>6, <1>7, <2>1 DEF ReceiptOfRow, SqlInv, Sql!DeliveryInv, Sql!TypeOK, SqlRow
  <2>2. ASSUME NEW r \in sqlReceipts, r.message # m PROVE ReceiptOfRow(r)'
    <3>1. r.message \in Message \ {m}
      BY <2>2 DEF SqlInv, Sql!DeliveryInv, Sql!TypeOK
    <3> QED BY <1>6, <3>1 DEF ReceiptOfRow, SqlInv
  <2> QED BY <1>4, <2>1, <2>2
<1> QED BY <1>3, <1>6, <1>9, <1>10 DEF SqlInv

LEMMA SqlRecordInv ==
  ASSUME SqlInv, NEW c \in Consumer, NEW t \in sqlTickets, Sql!RecordInbox(c, t)
  PROVE  SqlInv'
<1> DEFINE new == Sql!ReceiptFor(c, t)
<1>1. /\ Sql!Running(c, t) /\ sqlReceipts' = sqlReceipts \cup {new}
      /\ ~ \E r \in sqlReceipts : Sql!SameKey(r, new)
      /\ UNCHANGED <<row, sqlTickets, sqlClock, sqlIssued>>
  BY DEF Sql!RecordInbox
<1>2. new \in [consumer : Consumer, message : Message, attempts : Nat, fence : Nat]
  BY DEF Sql!ReceiptFor, SqlInv, Sql!DeliveryInv, Sql!TypeOK
<1>3. /\ row[new.message].status = "claimed" /\ row[new.message].consumer = new.consumer
      /\ row[new.message].attempts = new.attempts /\ row[new.message].fence = new.fence
  BY <1>1 DEF Sql!Running, Sql!ReceiptFor
<1>4. ASSUME NEW r \in sqlReceipts PROVE ~(r.message = new.message /\ r.attempts = new.attempts)
  BY <1>1, <1>3 DEF SqlInv, ReceiptOfRow, Sql!SameKey
<1> HIDE DEF new
<1>5. Sql!TypeOK'
  BY <1>1, <1>2 DEF SqlInv, Sql!DeliveryInv, Sql!TypeOK
<1>6. \A r, s \in sqlReceipts' : r.message = s.message /\ r.attempts = s.attempts => r = s
  BY <1>1, <1>4 DEF SqlInv, Sql!DeliveryInv
<1>7. Sql!DeliveryInv'
  BY <1>1, <1>5, <1>6 DEF SqlInv, Sql!DeliveryInv
<1>8. ReceiptOfRow(new)
  BY <1>2, <1>3 DEF ReceiptOfRow
<1> QED BY <1>1, <1>7, <1>8 DEF SqlInv, ReceiptOfRow

LEMMA SqlAcknowledgeInv ==
  ASSUME SqlInv, NEW c \in Consumer, NEW t \in sqlTickets, Sql!Acknowledge(c, t)
  PROVE  SqlInv'
<1>1. PICK m \in Message : m = t.message
  BY DEF SqlInv, Sql!DeliveryInv, Sql!TypeOK
<1> DEFINE x == [row[m] EXCEPT !.status = "acked", !.expires = 0, !.updated = sqlClock]
<1>2. /\ Sql!Running(c, t) /\ Sql!ReceiptFor(c, t) \in sqlReceipts
      /\ row' = [row EXCEPT ![m] = x]
      /\ UNCHANGED <<sqlReceipts, sqlTickets, sqlClock, sqlIssued>>
  BY <1>1 DEF Sql!Acknowledge
<1>3. row[m] \in SqlRow /\ sqlClock \in Nat
  BY DEF SqlInv, Sql!DeliveryInv, Sql!TypeOK, SqlRow
<1>4. /\ x \in SqlRow /\ x.status = "acked" /\ x.expires = 0
      /\ x.consumer = row[m].consumer /\ x.attempts = row[m].attempts /\ x.fence = row[m].fence
  BY <1>3 DEF SqlRow
<1> HIDE DEF x
<1>5. row'[m] = x /\ \A n \in Message \ {m} : row'[n] = row[n]
  BY <1>2 DEF SqlInv, Sql!DeliveryInv, Sql!TypeOK
<1>6. \E r \in sqlReceipts : /\ r.consumer = x.consumer /\ r.message = m
                             /\ r.attempts = x.attempts /\ r.fence = x.fence
  BY <1>1, <1>2, <1>4 DEF Sql!Running, Sql!ReceiptFor
<1>7. Sql!TypeOK'
  BY <1>2, <1>4 DEF SqlInv, Sql!DeliveryInv, Sql!TypeOK, SqlRow
<1>8. Sql!DeliveryInv'
  BY <1>2, <1>4, <1>5, <1>6, <1>7 DEF SqlInv, Sql!DeliveryInv
<1>9. ASSUME NEW r \in sqlReceipts PROVE ReceiptOfRow(r)'
  <2>1. r.message \in Message /\ ReceiptOfRow(r)
    BY DEF SqlInv, Sql!DeliveryInv, Sql!TypeOK
  <2> QED BY <1>4, <1>5, <2>1 DEF ReceiptOfRow
<1> QED BY <1>2, <1>4, <1>5, <1>8, <1>9 DEF SqlInv

LEMMA SqlNextInv ==
  ASSUME Sql!SqlOutboxAssumption
  PROVE  SqlInv /\ [Sql!Next]_(Sql!vars) => SqlInv'
<1> SUFFICES ASSUME SqlInv, [Sql!Next]_(Sql!vars) PROVE SqlInv'
  OBVIOUS
<1>1. CASE Sql!Tick \/ UNCHANGED Sql!vars
  <2>1. UNCHANGED <<row, sqlReceipts, sqlTickets, sqlIssued>> /\ sqlClock' \in Nat
    BY <1>1 DEF Sql!Tick, Sql!vars, SqlInv, Sql!DeliveryInv, Sql!TypeOK
  <2>2. Sql!DeliveryInv'
    BY <2>1 DEF SqlInv, Sql!DeliveryInv, Sql!TypeOK
  <2> QED BY <2>1, <2>2 DEF SqlInv, ReceiptOfRow
<1> QED BY <1>1, InsertInv, SqlClaimInv, SqlRecordInv, SqlAcknowledgeInv DEF Sql!Next

\* What a step may do to the rows: a claim touches the candidate, an acknowledgement a row
\* that is claimed, an insertion one that is absent, and no other step any.
LEMMA RowSteps ==
  ASSUME SqlInv, [Sql!Next]_(Sql!vars), NEW n \in Message, row'[n] # row[n]
  PROVE  \/ Sql!Candidate(n)
         \/ row[n].status \in {"absent", "claimed"} /\ row'[n].fence = row[n].fence
<1>1. ASSUME NEW m \in Message, Sql!Insert(m)
      PROVE  row[n].status = "absent" /\ row'[n].fence = row[n].fence
  <2>1. m = n
    BY <1>1 DEF Sql!Insert, SqlInv, Sql!DeliveryInv, Sql!TypeOK
  <2>2. row'[n] = [Sql!NoRow EXCEPT !.status = "pending", !.updated = sqlClock]
    BY <1>1, <2>1 DEF Sql!Insert, SqlInv, Sql!DeliveryInv, Sql!TypeOK
  <2>3. row[n].status = "absent" /\ row[n] = Sql!NoRow
    BY <1>1, <2>1 DEF Sql!Insert, SqlInv
  <2> QED BY <2>2, <2>3 DEF Sql!NoRow
<1>2. ASSUME NEW c \in Consumer, NEW lease \in Leases, Sql!Claim(c, lease)
      PROVE  Sql!Candidate(n)
  BY <1>2 DEF Sql!Claim, SqlInv, Sql!DeliveryInv, Sql!TypeOK
<1>3. ASSUME NEW c \in Consumer, NEW t \in sqlTickets, Sql!Acknowledge(c, t)
      PROVE  row[n].status = "claimed" /\ row'[n].fence = row[n].fence
  <2>1. n = t.message
    BY <1>3 DEF Sql!Acknowledge, SqlInv, Sql!DeliveryInv, Sql!TypeOK
  <2>2. row'[n] = [row[n] EXCEPT !.status = "acked", !.expires = 0, !.updated = sqlClock]
    BY <1>3, <2>1 DEF Sql!Acknowledge, SqlInv, Sql!DeliveryInv, Sql!TypeOK
  <2> QED BY <1>3, <2>1, <2>2 DEF Sql!Acknowledge, Sql!Running, SqlInv, Sql!DeliveryInv, Sql!TypeOK
<1> QED BY <1>1, <1>2, <1>3 DEF Sql!Next, Sql!RecordInbox, Sql!Tick, Sql!vars

\* Whatever the tickets that come late and whoever claims: the tables agree, the message
\* untouched longest is served first, and what is settled stays so.
THEOREM SqlDelivered == ASSUME Sql!SqlOutboxAssumption PROVE Sql!Spec => SqlDelivery
<1> DEFINE Fair == \A m, n \in Message :
        /\ Sql!Available(m) /\ row[m].updated < row[n].updated => row'[n].fence = row[n].fence
        /\ row[m].status = "acked" => row'[m] = row[m]
<1>1. ASSUME SqlInv, [Sql!Next]_(Sql!vars) PROVE Fair
  <2>1. ASSUME NEW m \in Message, NEW n \in Message, Sql!Available(m),
               row[m].updated < row[n].updated
        PROVE  ~Sql!Candidate(n)
    <3>1. row[m].updated \in Nat /\ row[n].updated \in Nat
      BY <1>1 DEF SqlInv, Sql!DeliveryInv, Sql!TypeOK
    <3> QED BY <2>1, <3>1 DEF Sql!Candidate, Sql!Earlier
  <2>2. \A n \in Message : Sql!Candidate(n) => row[n].status # "acked"
    BY DEF Sql!Candidate, Sql!Available
  <2> QED BY <1>1, <2>1, <2>2, RowSteps
<1>2. SqlInv => Sql!DeliveryInv
  BY DEF SqlInv
<1>3. SqlInv /\ [Sql!Next]_(Sql!vars) => [Fair]_(Sql!vars)
  BY <1>1
<1> QED BY <1>2, <1>3, SqlInitInv, SqlNextInv, PTL
        DEF Sql!Spec, SqlDelivery, Sql!SqlDelivery, Sql!FirstComeFirstServed

---------------------------------------------------------------------------
(* The tables against the contract.                                        *)

SqlPhases == [m \in Message |-> Sql!Phase(m)]
SqlHolders ==
  [m \in Message |->
     IF Sql!Phase(m) \in {"absent", "ready"} THEN NoConsumer ELSE row[m].consumer]
SqlGrants == [m \in Message |-> row[m].attempts]
SqlReceived ==
  {[message |-> r.message, consumer |-> r.consumer, grant |-> r.attempts] : r \in sqlReceipts}

\* One row changes: so do the phase, the holder and the grants of that message and of no other.
LEMMA SqlOneRow ==
  ASSUME NEW m \in Message, UNCHANGED sqlClock, \A n \in Message \ {m} : row'[n] = row[n],
         NEW p, p = Sql!Phase(m)'
  PROVE  /\ SqlPhases' = [SqlPhases EXCEPT ![m] = p]
         /\ SqlHolders' = [SqlHolders EXCEPT ![m] =
              IF p \in {"absent", "ready"} THEN NoConsumer ELSE row'[m].consumer]
         /\ SqlGrants' = [SqlGrants EXCEPT ![m] = row'[m].attempts]
<1>1. \A n \in Message \ {m} : Sql!Phase(n)' = Sql!Phase(n)
  BY DEF Sql!Phase
<1>2. SqlPhases' = [SqlPhases EXCEPT ![m] = p]
  BY <1>1 DEF SqlPhases
<1>3. SqlHolders' = [SqlHolders EXCEPT ![m] =
        IF p \in {"absent", "ready"} THEN NoConsumer ELSE row'[m].consumer]
  <2>1. \A n \in Message \ {m} : SqlHolders'[n] = SqlHolders[n]
    BY <1>1 DEF SqlHolders
  <2>2. SqlHolders'[m] = IF p \in {"absent", "ready"} THEN NoConsumer ELSE row'[m].consumer
    BY DEF SqlHolders
  <2> QED BY <2>1, <2>2 DEF SqlHolders
<1> QED BY <1>2, <1>3 DEF SqlGrants

LEMMA InsertRefines ==
  ASSUME SqlInv, NEW m \in Message, Sql!Insert(m)
  PROVE  Sql!Contract!Publish(m)
<1>1. /\ row[m] = Sql!NoRow /\ \A n \in Message \ {m} : row'[n] = row[n]
      /\ row'[m] = [Sql!NoRow EXCEPT !.status = "pending", !.updated = sqlClock]
      /\ UNCHANGED <<sqlReceipts, sqlClock>>
  BY DEF Sql!Insert, SqlInv, Sql!DeliveryInv, Sql!TypeOK
<1>2. row'[m].status = "pending" /\ row'[m].attempts = 0 /\ row[m].attempts = 0
      /\ row[m].status = "absent"
  BY <1>1 DEF Sql!NoRow
<1>3. Sql!Phase(m) = "absent" /\ Sql!Phase(m)' = "ready"
  BY <1>2 DEF Sql!Phase
<1>4. SqlPhases[m] = "absent" /\ SqlHolders[m] = NoConsumer /\ SqlGrants[m] = 0
  BY <1>2, <1>3 DEF SqlPhases, SqlHolders, SqlGrants
<1>5. /\ SqlPhases' = [SqlPhases EXCEPT ![m] = "ready"]
      /\ SqlHolders' = [SqlHolders EXCEPT ![m] = NoConsumer]
      /\ SqlGrants' = [SqlGrants EXCEPT ![m] = 0]
  BY <1>1, <1>2, <1>3, SqlOneRow
<1>6. UNCHANGED <<SqlHolders, SqlGrants, SqlReceived>>
  BY <1>1, <1>4, <1>5 DEF SqlHolders, SqlGrants, SqlReceived
<1> QED BY <1>4, <1>5, <1>6
        DEF Sql!Contract!Publish, SqlPhases, SqlHolders, SqlGrants, SqlReceived

LEMMA SqlClaimRefines ==
  ASSUME Sql!SqlOutboxAssumption, SqlInv, NEW c \in Consumer, NEW lease \in Leases,
         Sql!Claim(c, lease)
  PROVE  \E m \in Message : Sql!Contract!Lease(m, c)
<1>1. PICK m \in Message :
        /\ Sql!Candidate(m)
        /\ row' = [row EXCEPT ![m] =
                     [status |-> "claimed", attempts |-> @.attempts + 1, fence |-> sqlIssued + 1,
                      consumer |-> c, expires |-> sqlClock + lease, updated |-> sqlClock]]
  BY DEF Sql!Claim
<1>2. /\ \A n \in Message \ {m} : row'[n] = row[n]
      /\ row'[m] = [status |-> "claimed", attempts |-> row[m].attempts + 1,
                    fence |-> sqlIssued + 1, consumer |-> c, expires |-> sqlClock + lease,
                    updated |-> sqlClock]
      /\ UNCHANGED <<sqlReceipts, sqlClock>>
  BY <1>1 DEF Sql!Claim, SqlInv, Sql!DeliveryInv, Sql!TypeOK
<1>3. sqlClock \in Nat /\ lease \in Nat \ {0} /\ row[m].expires \in Nat
  BY DEF SqlInv, Sql!DeliveryInv, Sql!TypeOK, Sql!SqlOutboxAssumption
<1>4. Sql!Phase(m) = "ready"
  BY <1>1, <1>3 DEF Sql!Candidate, Sql!Available, Sql!Phase
<1>5. Sql!Phase(m)' = "leased"
  BY <1>2, <1>3 DEF Sql!Phase
<1>6. /\ SqlPhases' = [SqlPhases EXCEPT ![m] = "leased"]
      /\ SqlHolders' = [SqlHolders EXCEPT ![m] = c]
      /\ SqlGrants' = [SqlGrants EXCEPT ![m] = row[m].attempts + 1]
  BY <1>2, <1>5, SqlOneRow
<1>7. SqlGrants' = [SqlGrants EXCEPT ![m] = @ + 1] /\ SqlPhases[m] = "ready"
  BY <1>4, <1>6 DEF SqlGrants, SqlPhases
<1>8. UNCHANGED SqlReceived
  BY <1>2 DEF SqlReceived
<1>9. Sql!Contract!Lease(m, c)
  BY <1>6, <1>7, <1>8
     DEF Sql!Contract!Lease, SqlPhases, SqlHolders, SqlGrants, SqlReceived
<1> QED BY <1>9

LEMMA SqlReceiveRefines ==
  ASSUME SqlInv, NEW c \in Consumer, NEW t \in sqlTickets, Sql!RecordInbox(c, t)
  PROVE  \E m \in Message : Sql!Contract!Receive(m)
<1>1. PICK m \in Message : m = t.message
  BY DEF SqlInv, Sql!DeliveryInv, Sql!TypeOK
<1>2. /\ row[m].consumer = c /\ row[m].attempts = t.attempts /\ row[m].status = "claimed"
      /\ row[m].expires > sqlClock /\ UNCHANGED <<row, sqlClock>>
      /\ sqlReceipts' = sqlReceipts \cup {Sql!ReceiptFor(c, t)}
  BY <1>1 DEF Sql!RecordInbox, Sql!Running
<1>3. SqlPhases[m] = "leased" /\ SqlHolders[m] = c /\ SqlGrants[m] = t.attempts
  BY <1>2 DEF SqlPhases, SqlHolders, SqlGrants, Sql!Phase
<1>4. UNCHANGED <<SqlPhases, SqlHolders, SqlGrants>>
  BY <1>2 DEF SqlPhases, SqlHolders, SqlGrants, Sql!Phase
<1>5. SqlReceived' = SqlReceived \cup {[message |-> m, consumer |-> c, grant |-> t.attempts]}
  <2>1. PICK new : new = Sql!ReceiptFor(c, t)
    OBVIOUS
  <2>2. new.message = m /\ new.consumer = c /\ new.attempts = t.attempts
    BY <1>1, <2>1 DEF Sql!ReceiptFor
  <2>3. sqlReceipts' = sqlReceipts \cup {new}
    BY <1>2, <2>1
  <2> QED BY <2>2, <2>3 DEF SqlReceived
<1>6. Sql!Contract!Receive(m)
  BY <1>3, <1>4, <1>5 DEF Sql!Contract!Receive, Sql!Contract!ReceiptOf, SqlPhases, SqlHolders,
                          SqlGrants, SqlReceived
<1> QED BY <1>6

LEMMA SqlCompleteRefines ==
  ASSUME SqlInv, NEW c \in Consumer, NEW t \in sqlTickets, Sql!Acknowledge(c, t)
  PROVE  \E m \in Message : Sql!Contract!Complete(m)
<1>1. PICK m \in Message : m = t.message
  BY DEF SqlInv, Sql!DeliveryInv, Sql!TypeOK
<1>2. /\ row[m].consumer = c /\ row[m].attempts = t.attempts /\ row[m].status = "claimed"
      /\ row[m].expires > sqlClock /\ UNCHANGED <<sqlReceipts, sqlClock>>
      /\ Sql!ReceiptFor(c, t) \in sqlReceipts
  BY <1>1 DEF Sql!Acknowledge, Sql!Running
<1>3. /\ \A n \in Message \ {m} : row'[n] = row[n]
      /\ row'[m] = [row[m] EXCEPT !.status = "acked", !.expires = 0, !.updated = sqlClock]
  BY <1>1 DEF Sql!Acknowledge, SqlInv, Sql!DeliveryInv, Sql!TypeOK
<1>4. row'[m].status = "acked" /\ row'[m].consumer = c /\ row'[m].attempts = row[m].attempts
  BY <1>2, <1>3 DEF SqlInv, Sql!DeliveryInv, Sql!TypeOK
<1>5. Sql!Phase(m)' = "done"
  BY <1>4 DEF Sql!Phase
<1>6. SqlPhases[m] = "leased" /\ SqlHolders[m] = c /\ SqlGrants[m] = t.attempts
  BY <1>2 DEF SqlPhases, SqlHolders, SqlGrants, Sql!Phase
<1>7. /\ SqlPhases' = [SqlPhases EXCEPT ![m] = "done"]
      /\ SqlHolders' = [SqlHolders EXCEPT ![m] = c]
      /\ SqlGrants' = [SqlGrants EXCEPT ![m] = t.attempts]
  BY <1>2, <1>3, <1>4, <1>5, SqlOneRow
<1>8. UNCHANGED <<SqlHolders, SqlGrants, SqlReceived>>
  BY <1>2, <1>6, <1>7 DEF SqlHolders, SqlGrants, SqlReceived
<1>9. [message |-> m, consumer |-> c, grant |-> t.attempts] \in SqlReceived
  BY <1>1, <1>2 DEF SqlReceived, Sql!ReceiptFor
<1>10. Sql!Contract!Complete(m)
  BY <1>6, <1>7, <1>8, <1>9 DEF Sql!Contract!Complete, Sql!Contract!ReceiptOf, SqlPhases,
                                SqlHolders, SqlGrants, SqlReceived
<1> QED BY <1>10

\* One tick may end the leases of several messages together.
LEMMA SqlTickRefines ==
  ASSUME SqlInv, Sql!Tick
  PROVE  \E M \in SUBSET Message : Sql!Contract!Lapse(M)
<1>. PICK M \in SUBSET Message :
       M = {m \in Message : Sql!Phase(m) = "leased" /\ row[m].expires = sqlClock + 1}
  OBVIOUS
<1>1. UNCHANGED <<row, sqlReceipts>> /\ sqlClock' = sqlClock + 1 /\ sqlClock \in Nat
  BY DEF Sql!Tick, SqlInv, Sql!DeliveryInv, Sql!TypeOK
<1>2. \A m \in Message : row[m].expires \in Nat
  BY DEF SqlInv, Sql!DeliveryInv, Sql!TypeOK
<1>3. \A m \in Message : Sql!Phase(m)' = IF m \in M THEN "ready" ELSE Sql!Phase(m)
  BY <1>1, <1>2 DEF Sql!Phase
<1>4. \A m \in M : SqlPhases[m] = "leased"
  BY DEF SqlPhases
<1>5. /\ SqlPhases' = [m \in Message |-> IF m \in M THEN "ready" ELSE SqlPhases[m]]
      /\ SqlHolders' = [m \in Message |-> IF m \in M THEN NoConsumer ELSE SqlHolders[m]]
      /\ UNCHANGED <<SqlGrants, SqlReceived>>
  <2>1. SqlPhases' = [m \in Message |-> IF m \in M THEN "ready" ELSE SqlPhases[m]]
    BY <1>3 DEF SqlPhases
  <2>2. \A m \in Message : SqlHolders'[m] = IF m \in M THEN NoConsumer ELSE SqlHolders[m]
    BY <1>1, <1>3 DEF SqlHolders
  <2>3. SqlHolders' = [m \in Message |-> IF m \in M THEN NoConsumer ELSE SqlHolders[m]]
    BY <2>2 DEF SqlHolders
  <2> QED BY <1>1, <2>1, <2>3 DEF SqlGrants, SqlReceived
<1>6. Sql!Contract!Lapse(M)
  BY <1>4, <1>5 DEF Sql!Contract!Lapse, SqlPhases, SqlHolders, SqlGrants, SqlReceived
<1> QED BY <1>6

LEMMA SqlContractInit == Sql!Init => Sql!Contract!Init
<1> SUFFICES ASSUME Sql!Init PROVE Sql!Contract!Init
  OBVIOUS
<1>1. \A m \in Message : Sql!Phase(m) = "absent" /\ row[m].attempts = 0
  BY DEF Sql!Init, Sql!NoRow, Sql!Phase
<1> QED BY <1>1 DEF Sql!Init, Sql!Contract!Init

LEMMA SqlContractStep ==
  ASSUME Sql!SqlOutboxAssumption, SqlInv, [Sql!Next]_(Sql!vars)
  PROVE  Sql!Contract!Next \/ UNCHANGED Sql!Contract!vars
<1>1. CASE UNCHANGED Sql!vars
  <2>1. UNCHANGED <<SqlPhases, SqlHolders, SqlGrants, SqlReceived>>
    BY <1>1 DEF Sql!vars, SqlPhases, SqlHolders, SqlGrants, SqlReceived, Sql!Phase
  <2> QED BY <2>1 DEF Sql!Contract!vars, SqlPhases, SqlHolders, SqlGrants, SqlReceived
<1> QED BY <1>1, InsertRefines, SqlClaimRefines, SqlReceiveRefines, SqlCompleteRefines,
           SqlTickRefines DEF Sql!Next, Sql!Contract!Next

\* The three functions of migration 0006 implement leased delivery.
THEOREM SqlKeepsContract ==
  ASSUME Sql!SqlOutboxAssumption PROVE Sql!Spec => SqlImplementsContract
<1>1. SqlInv /\ [Sql!Next]_(Sql!vars) => [Sql!Contract!Next]_(Sql!Contract!vars)
  BY SqlContractStep
<1> QED BY <1>1, SqlInitInv, SqlNextInv, SqlContractInit, PTL
        DEF Sql!Spec, SqlImplementsContract, Sql!SqlImplementsContract, Sql!Contract!Spec

---------------------------------------------------------------------------
(* The in-memory repository: lists without repetition, and the walk of a   *)
(* Map in append order.                                                    *)

\* Different values under a function into the numbers put a finite set in order: the place in
\* line of an element is how many of them do not come after it.
LEMMA SortByPlace ==
  ASSUME NEW S, IsFiniteSet(S), NEW place \in [S -> Nat],
         \A k, l \in S : place[k] = place[l] => k = l
  PROVE  \E q \in Bijection(1 .. Cardinality(S), S) :
            \A i, j \in DOMAIN q : i < j => place[q[i]] < place[q[j]]
<1> DEFINE UpTo(k) == {l \in S : place[l] =< place[k]}
           n == Cardinality(S)
           rank == [k \in S |-> Cardinality(UpTo(k))]
<1>1. n \in Nat
  BY FS_CardinalityType
<1>2. ASSUME NEW k \in S
      PROVE  /\ IsFiniteSet(UpTo(k)) /\ Cardinality(UpTo(k)) \in Nat \ {0}
             /\ Cardinality(UpTo(k)) =< n /\ k \in UpTo(k)
  <2>1. UpTo(k) \in SUBSET S /\ k \in UpTo(k)
    OBVIOUS
  <2>2. IsFiniteSet(UpTo(k)) /\ Cardinality(UpTo(k)) =< n
    BY <2>1, FS_Subset
  <2>3. Cardinality(UpTo(k)) \in Nat /\ Cardinality(UpTo(k)) # 0
    BY <2>1, <2>2, FS_CardinalityType, FS_EmptySet
  <2> QED BY <2>1, <2>2, <2>3
<1>3. ASSUME NEW k \in S, NEW l \in S, place[k] < place[l]
      PROVE  rank[k] < rank[l]
  <2>1. UpTo(k) \in SUBSET UpTo(l) /\ l \notin UpTo(k)
    BY <1>3
  <2>2. Cardinality(UpTo(k)) =< Cardinality(UpTo(l))
        /\ (Cardinality(UpTo(l)) = Cardinality(UpTo(k)) => UpTo(l) = UpTo(k))
    BY <1>2, <2>1, FS_Subset
  <2>3. UpTo(l) # UpTo(k)
    BY <1>2, <2>1
  <2> QED BY <1>2, <2>2, <2>3
<1>4. rank \in [S -> 1 .. n]
  BY <1>1, <1>2
<1> HIDE DEF rank, UpTo
<1>5. rank \in Bijection(S, 1 .. n)
  <2>1. \A k, l \in S : rank[k] = rank[l] => k = l
    BY <1>3, <1>4
  <2>2. rank \in Injection(S, 1 .. n)
    BY <1>4, <2>1, Fun_IsInj
  <2>3. IsFiniteSet(1 .. n) /\ Cardinality(1 .. n) = n
    BY <1>1, FS_Interval
  <2>4. rank \in Surjection(S, 1 .. n)
    BY <2>2, <2>3, FS_Injection
  <2> QED BY <2>2, <2>4 DEF Bijection
<1>6. PICK q : q = Inverse(rank, S, 1 .. n)
  OBVIOUS
<1>7. q \in Bijection(1 .. n, S) /\ \A k \in S : q[rank[k]] = k
  BY <1>5, <1>6, Fun_BijInverse
<1>8. \A i \in 1 .. n : q[i] \in S /\ rank[q[i]] = i
  <2>1. \A i \in 1 .. n : \E k \in S : rank[k] = i
    BY <1>5 DEF Bijection, Surjection
  <2> QED BY <1>7, <2>1
<1>9. DOMAIN q = 1 .. n
  BY <1>7, Fun_BijectionProperties
<1>10. ASSUME NEW i \in 1 .. n, NEW j \in 1 .. n, i < j PROVE place[q[i]] < place[q[j]]
  <2>1. ~(place[q[j]] < place[q[i]]) /\ place[q[i]] # place[q[j]]
    BY <1>3, <1>8, <1>10
  <2> QED BY <1>8, <2>1
<1> QED BY <1>7, <1>9, <1>10

\* The append order of any of the messages exists, and names each of them once.
LEMMA AppendOrder ==
  ASSUME TypeOK, RevisionsAreAChain, NEW S \in SUBSET ByMessage
  PROVE  /\ Cardinality(S) \in Nat
         /\ InAppendOrder(S) \in Bijection(1 .. Cardinality(S), S)
<1> DEFINE all == [i \in 1 .. Len(log) |-> Key(log[i])]
           place == [k \in S |-> CHOOSE i \in 1 .. Len(log) : Key(log[i]) = k]
<1>1. Len(log) \in Nat /\ DOMAIN log = 1 .. Len(log)
  BY DEF TypeOK
<1>2. \A k \in S : \E i \in 1 .. Len(log) : Key(log[i]) = k
  BY <1>1 DEF ByMessage, Appended
<1>3. IsFiniteSet(S) /\ Cardinality(S) \in Nat
  <2>1. all \in [1 .. Len(log) -> ByMessage] /\ \A k \in ByMessage : \E i \in 1 .. Len(log) : all[i] = k
    BY <1>1 DEF ByMessage, Appended
  <2>2. all \in Surjection(1 .. Len(log), ByMessage)
    BY <2>1, Fun_IsSurj
  <2>3. IsFiniteSet(1 .. Len(log))
    BY <1>1, FS_Interval
  <2>4. IsFiniteSet(ByMessage)
    BY <2>2, <2>3, FS_Surjection
  <2> QED BY <2>4, FS_Subset, FS_CardinalityType
<1>4. \A k \in S : place[k] \in 1 .. Len(log) /\ Key(log[place[k]]) = k
  BY <1>2
<1>5. place \in [S -> Nat] /\ \A k, l \in S : place[k] = place[l] => k = l
  BY <1>1, <1>4
<1> HIDE DEF place
<1>6. PICK q \in Bijection(1 .. Cardinality(S), S) :
        \A i, j \in DOMAIN q : i < j => place[q[i]] < place[q[j]]
  BY <1>3, <1>5, SortByPlace
<1>7. \A i, j \in DOMAIN q : i < j => AppendedBefore(q[i], q[j])
  <2>1. \A i \in DOMAIN q : q[i] \in S
    BY <1>6, Fun_BijectionProperties
  <2> QED BY <1>1, <1>4, <1>6, <2>1 DEF AppendedBefore
<1> QED BY <1>3, <1>6, <1>7 DEF InAppendOrder

\* A list with its last element appended, or without its first one, still repeats nothing.
LEMMA AppendInjective2 ==
  ASSUME NEW S, NEW q \in Seq(S), IsInjective(q), NEW x \in S, \A i \in DOMAIN q : q[i] # x
  PROVE  /\ Append(q, x) \in Seq(S) /\ IsInjective(Append(q, x))
         /\ Range(Append(q, x)) = Range(q) \cup {x}
<1> DEFINE r == Append(q, x)
<1>1. /\ r \in Seq(S) /\ Len(r) = Len(q) + 1 /\ Len(q) \in Nat /\ r[Len(r)] = x
      /\ \A i \in 1 .. Len(q) : r[i] = q[i]
  OBVIOUS
<1>2. DOMAIN r = 1 .. Len(q) + 1 /\ DOMAIN q = 1 .. Len(q)
  BY <1>1
<1> HIDE DEF r
<1>3. IsInjective(r)
  BY <1>1, <1>2 DEF IsInjective
<1>4. Range(r) = Range(q) \cup {x}
  <2>1. \A i \in DOMAIN q : r[i] = q[i] /\ i \in DOMAIN r
    BY <1>1, <1>2
  <2>2. \A i \in DOMAIN r : i \in DOMAIN q \/ r[i] = x
    BY <1>1, <1>2
  <2>3. x \in Range(r)
    BY <1>1, <1>2 DEF Range
  <2> QED BY <2>1, <2>2, <2>3 DEF Range
<1> QED BY <1>1, <1>3, <1>4 DEF r

LEMMA RestInjective ==
  ASSUME NEW S, NEW q \in Seq(S), IsInjective(q), q # <<>>
  PROVE  LET r == SubSeq(q, 2, Len(q)) IN
         r \in Seq(S) /\ IsInjective(r) /\ Range(r) = Range(q) \ {q[1]} /\ Range(r) \subseteq S
<1> PICK r : r = SubSeq(q, 2, Len(q))
  OBVIOUS
<1>1. Len(q) \in Nat \ {0} /\ DOMAIN q = 1 .. Len(q)
  OBVIOUS
<1>2. /\ r \in Seq(S) /\ DOMAIN r = 1 .. Len(q) - 1
      /\ \A i \in 1 .. Len(q) - 1 : r[i] = q[i + 1]
  BY <1>1
<1>. \A a, b \in DOMAIN q : q[a] = q[b] => a = b
  BY DEF IsInjective
<1>. 1 \in DOMAIN q /\ \A i \in DOMAIN r : i \in Nat /\ i + 1 \in DOMAIN q /\ r[i] = q[i + 1] /\ i + 1 # 1
  BY <1>1, <1>2
<1>3. IsInjective(r)
  <2>1. ASSUME NEW a \in DOMAIN r, NEW b \in DOMAIN r, r[a] = r[b] PROVE a = b
    <3>1. a + 1 = b + 1
      BY <2>1
    <3> QED BY <3>1
  <2> QED BY <2>1 DEF IsInjective
<1>4. ASSUME NEW i \in DOMAIN r PROVE r[i] # q[1] /\ \E j \in DOMAIN q : q[j] = r[i]
  OBVIOUS
<1>5. ASSUME NEW j \in DOMAIN q, q[j] # q[1] PROVE \E i \in DOMAIN r : r[i] = q[j]
  <2>1. j - 1 \in DOMAIN r /\ r[j - 1] = q[j]
    BY <1>1, <1>2, <1>5
  <2> QED BY <2>1
<1>6. \A i \in DOMAIN q : q[i] \in S
  BY <1>1
<1> QED BY <1>2, <1>3, <1>4, <1>5, <1>6 DEF Range

---------------------------------------------------------------------------
(* What a sweep does to the deliveries and to the queue.                   *)

\* A receipt is of an attempt the delivery has had, and one of its running or last attempt
\* names the delivery's consumer and fence.
ReceiptOfDelivery(r, x) ==
  /\ r.attempts =< x.attempts
  /\ r.attempts = x.attempts /\ x.status # "pending" => r.consumer = x.consumer /\ r.fence = x.fence

LocalInv ==
  /\ OutboxInv
  /\ Range(pending) \subseteq ByMessage
  /\ \A t \in tickets : t.key \in ByMessage
  /\ \A r \in inbox : r.key \in ByMessage /\ ReceiptOfDelivery(r, deliveries[r.key])

LEMMA FreshFacts ==
  Fresh \in Delivery /\ Fresh.status = "pending" /\ Fresh.attempts = 0
BY DEF Fresh, Delivery, Fences, NoFence

LEMMA ReturnedFacts ==
  ASSUME NEW r \in Delivery
  PROVE  /\ Returned(r) \in Delivery
         /\ Returned(r).status = "pending" /\ Returned(r).attempts = r.attempts
         /\ Returned(r).handle = 0
<1> PICK f : f = Fresh
  OBVIOUS
<1>1. f \in Delivery /\ f.status = "pending" /\ f.handle = 0
  BY FreshFacts DEF Fresh
<1>2. Returned(r) = [f EXCEPT !.attempts = r.attempts]
  BY DEF Returned
<1> QED BY <1>1, <1>2 DEF Delivery

LEMMA SweptFacts ==
  ASSUME LocalInv
  PROVE  /\ Swept \in [ByMessage -> Delivery]
         /\ \A k \in ByMessage :
              /\ Swept[k].attempts = deliveries[k].attempts
              /\ k \notin Expired => Swept[k] = deliveries[k]
              /\ k \in Expired => /\ Swept[k].status = "pending" /\ Swept[k].handle = 0
                                  /\ deliveries[k].status = "claimed"
                                  /\ deliveries[k].lease =< clock
              /\ Swept[k].status = "pending" => k \in Expired \/ deliveries[k].status = "pending"
<1>1. deliveries \in [ByMessage -> Delivery] /\ Expired \subseteq ByMessage
  BY DEF LocalInv, OutboxInv, TypeOK, Expired
<1>2. ASSUME NEW k \in ByMessage
      PROVE  Swept[k] = IF k \in Expired THEN Returned(deliveries[k]) ELSE deliveries[k]
  BY DEF Swept
<1>3. ASSUME NEW k \in Expired
      PROVE  Swept[k] = Returned(deliveries[k]) /\ deliveries[k] \in Delivery
             /\ deliveries[k].status = "claimed" /\ deliveries[k].lease =< clock
  BY <1>1, <1>2 DEF Expired
<1>4. Swept \in [ByMessage -> Delivery]
  <2>1. \A k \in ByMessage : Swept[k] \in Delivery
    BY <1>1, <1>2, <1>3, ReturnedFacts
  <2> QED BY <2>1 DEF Swept
<1>5. ASSUME NEW k \in ByMessage
      PROVE  /\ Swept[k].attempts = deliveries[k].attempts
             /\ k \notin Expired => Swept[k] = deliveries[k]
             /\ k \in Expired => Swept[k].status = "pending" /\ Swept[k].handle = 0
  BY <1>2, <1>3, ReturnedFacts
<1> QED BY <1>2, <1>3, <1>4, <1>5

\* The queue of a sweep: no message twice, pending ones only, and all of them if no claim was
\* refused halfway.
LEMMA QueueFacts ==
  ASSUME LocalInv
  PROVE  /\ SweptQueue \in Seq(ByMessage) /\ IsInjective(SweptQueue)
         /\ \A i \in DOMAIN SweptQueue : Swept[SweptQueue[i]].status = "pending"
         /\ revoked = {} =>
              \A k \in ByMessage :
                Swept[k].status = "pending" => \E i \in DOMAIN SweptQueue : SweptQueue[i] = k
<1> PICK o, n : o = InAppendOrder(Expired) /\ n = Cardinality(Expired)
  OBVIOUS
<1>1. Expired \in SUBSET ByMessage
  BY DEF Expired
<1>2. n \in Nat /\ o \in Bijection(1 .. n, Expired)
  BY <1>1, AppendOrder DEF LocalInv, OutboxInv
<1>3. /\ o \in [1 .. n -> Expired] /\ IsInjective(o)
      /\ \A k \in Expired : \E i \in 1 .. n : o[i] = k
  BY <1>2 DEF Bijection, Injection, Surjection
<1>4. o \in Seq(ByMessage) /\ DOMAIN o = 1 .. n /\ Len(o) = n
  <2>1. o \in [1 .. n -> ByMessage]
    BY <1>1, <1>3
  <2> QED BY <1>2, <2>1, IsASeq, LenProperties
<1>5. pending \in Seq(ByMessage) /\ IsInjective(pending)
      /\ DOMAIN pending = 1 .. Len(pending) /\ Len(pending) \in Nat
  <2>1. pending \in Seq(Keys) /\ Range(pending) \subseteq ByMessage /\ IsInjective(pending)
    BY DEF LocalInv, OutboxInv, TypeOK, PendingIsQueued
  <2>2. \A i \in 1 .. Len(pending) : pending[i] \in ByMessage
    BY <2>1 DEF Range
  <2> QED BY <2>1, <2>2
<1>6. \A i \in 1 .. Len(pending) : pending[i] \notin Expired /\ deliveries[pending[i]].status = "pending"
  BY <1>5 DEF LocalInv, OutboxInv, PendingIsQueued, Expired
<1> PICK q : q = SweptQueue
  OBVIOUS
<1>7. q = pending \o o
  BY DEF SweptQueue
<1>8. /\ q \in Seq(ByMessage) /\ DOMAIN q = 1 .. Len(pending) + n
      /\ \A i \in 1 .. Len(pending) : q[i] = pending[i]
      /\ \A i \in 1 .. n : q[Len(pending) + i] = o[i]
  BY <1>2, <1>4, <1>5, <1>7
<1>9. \A i \in DOMAIN q : \/ i \in 1 .. Len(pending) /\ q[i] = pending[i] /\ q[i] \notin Expired
                          \/ i - Len(pending) \in 1 .. n /\ q[i] = o[i - Len(pending)] /\ q[i] \in Expired
  <2> TAKE i \in DOMAIN q
  <2>1. CASE i =< Len(pending)
    BY <1>5, <1>6, <1>8, <2>1
  <2>2. CASE i > Len(pending)
    <3>1. PICK j \in 1 .. n : i = Len(pending) + j /\ j = i - Len(pending)
      BY <1>2, <1>5, <1>8, <2>2
    <3> QED BY <1>3, <1>8, <3>1
  <2> QED BY <1>5, <1>8, <2>1, <2>2
<1>10. IsInjective(q)
  <2> SUFFICES ASSUME NEW i \in DOMAIN q, NEW j \in DOMAIN q, q[i] = q[j] PROVE i = j
    BY DEF IsInjective
  <2> QED BY <1>2, <1>3, <1>5, <1>8, <1>9 DEF IsInjective
<1>11. \A i \in DOMAIN q : Swept[q[i]].status = "pending"
  <2>1. \A i \in DOMAIN q : q[i] \in ByMessage
    BY <1>8, ElementOfSeq, LenProperties
  <2> QED BY <1>6, <1>9, <2>1, SweptFacts
<1>12. ASSUME revoked = {}, NEW k \in ByMessage, Swept[k].status = "pending"
       PROVE  \E i \in DOMAIN q : q[i] = k
  <2>1. CASE k \in Expired
    <3>1. PICK j \in 1 .. n : o[j] = k
      BY <1>3, <2>1
    <3>2. Len(pending) + j \in DOMAIN q /\ q[Len(pending) + j] = k
      BY <1>2, <1>5, <1>8, <3>1
    <3> QED BY <3>2
  <2>2. CASE deliveries[k].status = "pending"
    <3>1. PICK i \in DOMAIN pending : pending[i] = k
      BY <1>12, <2>2 DEF LocalInv, OutboxInv, PendingIsQueued
    <3> QED BY <1>2, <1>5, <1>8, <3>1
  <2> QED BY <1>12, <2>1, <2>2, SweptFacts
<1> QED BY <1>8, <1>10, <1>11, <1>12

\* Every entry of the swept queue is pending: the claim takes the first.
LEMMA HeadFacts ==
  ASSUME LocalInv, FirstPending # 0
  PROVE  /\ FirstPending = 1 /\ SweptQueue # <<>> /\ SweptQueue[1] \in ByMessage
         /\ Swept[SweptQueue[1]].status = "pending"
<1> PICK q : q = SweptQueue
  OBVIOUS
<1>1. q \in Seq(ByMessage) /\ \A i \in DOMAIN q : Swept[q[i]].status = "pending"
  BY QueueFacts
<1> PICK I : I = {i \in 1 .. Len(q) : q[i] \in ByMessage /\ Swept[q[i]].status = "pending"}
  OBVIOUS
<1>2. FirstPending = IF I # {} THEN Min(I) ELSE 0
  BY DEF FirstPending, SelectInSeq
<1>3. I = 1 .. Len(q) /\ I # {}
  BY <1>1, <1>2
<1>4. Len(q) \in Nat /\ 1 \in I /\ \A i \in I : i \in Nat /\ 1 =< i
  BY <1>1, <1>3
<1>5. Min(I) = 1
  <2>1. \A x \in I : (\A y \in I : x =< y) => x = 1
    BY <1>4
  <2> QED BY <1>4, <2>1 DEF Min
<1> QED BY <1>1, <1>2, <1>3, <1>4, <1>5

---------------------------------------------------------------------------
(* The invariant of the in-memory repository.                              *)

LEMMA SameLog ==
  ASSUME UNCHANGED log
  PROVE  /\ ByMessage' = ByMessage
         /\ RevisionsAreAChain => RevisionsAreAChain'
BY DEF ByMessage, Appended, RevisionsAreAChain

\* What LocalInv says of the variables, in the words the steps below use.
LEMMA LocalFacts ==
  ASSUME LocalInv
  PROVE  /\ TypeOK /\ ByMessage \subseteq Keys
         /\ pending \in Seq(ByMessage)
         /\ \A k \in ByMessage : deliveries[k] \in Delivery
<1>1. TypeOK /\ Range(pending) \subseteq ByMessage
  BY DEF LocalInv, OutboxInv
<1>2. ByMessage \subseteq Keys
  <2>1. \A i \in DOMAIN log : log[i] \in Draft
    BY <1>1 DEF TypeOK
  <2> QED BY <2>1 DEF ByMessage, Appended, Keys
<1>3. pending \in Seq(ByMessage)
  <2>1. pending \in Seq(Keys) /\ \A i \in 1 .. Len(pending) : pending[i] \in ByMessage
    BY <1>1 DEF TypeOK, Range
  <2> QED BY <2>1
<1> QED BY <1>1, <1>2, <1>3 DEF TypeOK

LEMMA LocalInitInv == Init => LocalInv
<1> SUFFICES ASSUME Init PROVE LocalInv
  OBVIOUS
<1>1. ByMessage = {}
  BY DEF Init, ByMessage, Appended
<1>2. TypeOK
  BY <1>1 DEF Init, TypeOK
<1>3. Range(pending) = {} /\ Range(deadLetters) = {} /\ IsInjective(pending) /\ IsInjective(deadLetters)
  BY DEF Init, Range, IsInjective
<1>4. RevisionsAreAChain /\ OneReceiptPerAttempt
  BY DEF Init, RevisionsAreAChain, OneReceiptPerAttempt
<1> QED BY <1>1, <1>2, <1>3, <1>4 DEF Init, LocalInv, OutboxInv, PendingIsQueued, DeadLettersAreDead

LEMMA PublishChain ==
  ASSUME LocalInv, NEW d \in Draft, Publish(d)
  PROVE  /\ RevisionsAreAChain' /\ log' \in Seq(Draft)
         /\ ByMessage' = ByMessage \cup {Key(d)} /\ Key(d) \notin ByMessage
<1>1. /\ Appendable(d) /\ log' = Append(log, d) /\ log \in Seq(Draft)
  BY DEF Publish, LocalInv, OutboxInv, TypeOK
<1> PICK n \in Nat : n = Len(log)
  BY <1>1
<1>2. /\ log' \in Seq(Draft) /\ DOMAIN log' = 1 .. n + 1 /\ DOMAIN log = 1 .. n
      /\ log'[n + 1] = d /\ \A i \in 1 .. n : log'[i] = log[i]
  BY <1>1
<1>3. ByMessage' = ByMessage \cup {Key(d)}
  <2>1. Appended' = Appended \cup {d}
    BY <1>2 DEF Appended
  <2> QED BY <2>1 DEF ByMessage
<1>4. Key(d) \notin ByMessage
  BY <1>1 DEF Appendable
<1>5. \A i \in 1 .. n : /\ log[i].operation # d.operation /\ Key(log[i]) # Key(d)
                        /\ log[i].id = d.id => log[i].previous # d.previous
  BY <1>1, <1>2 DEF Appendable, ByMessage, ByOperation, Appended, HasSuccessor
<1>6. d.previous # 0 =>
        \E h \in 1 .. n : log[h].id = d.id /\ log[h].version = d.previous
  <2>1. ASSUME d.previous # 0 PROVE \E e \in Appended : e.id = d.id /\ e.version = d.previous
    BY <1>1, <2>1 DEF Appendable, ByMessage, Key
  <2> QED BY <1>2, <2>1 DEF Appended
<1>7. RevisionsAreAChain
  BY DEF LocalInv, OutboxInv
<1>8. RevisionsAreAChain'
  <2>1. ASSUME NEW i \in 1 .. n + 1, NEW j \in 1 .. n + 1, i # j
        PROVE  /\ log'[i].operation # log'[j].operation /\ Key(log'[i]) # Key(log'[j])
               /\ log'[i].id = log'[j].id => log'[i].previous # log'[j].previous
    <3>1. CASE i \in 1 .. n /\ j \in 1 .. n
      BY <1>2, <1>7, <2>1, <3>1 DEF RevisionsAreAChain
    <3>2. CASE i = n + 1 \/ j = n + 1
      BY <1>2, <1>5, <2>1, <3>2
    <3> QED BY <3>1, <3>2
  <2>2. ASSUME NEW i \in 1 .. n + 1, log'[i].previous # 0
        PROVE  \E h \in 1 .. i - 1 : log'[h].id = log'[i].id /\ log'[h].version = log'[i].previous
    <3>1. CASE i = n + 1
      BY <1>2, <1>6, <2>2, <3>1
    <3>2. CASE i \in 1 .. n
      <4>1. PICK h \in 1 .. i - 1 : log[h].id = log[i].id /\ log[h].version = log[i].previous
        BY <1>2, <1>7, <2>2, <3>2 DEF RevisionsAreAChain
      <4> QED BY <1>2, <3>2, <4>1
    <3> QED BY <3>1, <3>2
  <2> QED BY <1>2, <2>1, <2>2 DEF RevisionsAreAChain
<1> QED BY <1>2, <1>3, <1>4, <1>8

LEMMA PublishInv ==
  ASSUME LocalInv, NEW d \in Draft, Publish(d)
  PROVE  LocalInv'
<1> PICK k : k = Key(d)
  OBVIOUS
<1>1. /\ RevisionsAreAChain' /\ log' \in Seq(Draft)
      /\ ByMessage' = ByMessage \cup {k} /\ k \notin ByMessage /\ k \in Keys
  BY PublishChain DEF Keys
<1>2. /\ pending' = Append(pending, k)
      /\ deliveries' = [l \in ByMessage \cup {k} |-> IF l = k THEN Fresh ELSE deliveries[l]]
      /\ UNCHANGED <<deadLetters, inbox, tickets, revoked, clock, issued>>
  BY DEF Publish
<1>3. TypeOK /\ ByMessage \subseteq Keys /\ pending \in Seq(ByMessage)
      /\ \A l \in ByMessage : deliveries[l] \in Delivery
  BY LocalFacts
<1> PICK f : f = Fresh
  OBVIOUS
<1>4. f \in Delivery /\ f.status = "pending"
  BY FreshFacts
<1>5. deliveries'[k] = f /\ \A l \in ByMessage : deliveries'[l] = deliveries[l]
  BY <1>1, <1>2
<1>6. pending' \in Seq(ByMessage \cup {k}) /\ IsInjective(pending') /\ Range(pending') = Range(pending) \cup {k}
  <2>1. pending \in Seq(ByMessage \cup {k}) /\ \A i \in DOMAIN pending : pending[i] # k
    BY <1>1, <1>3
  <2>2. IsInjective(pending)
    BY DEF LocalInv, OutboxInv, PendingIsQueued
  <2> QED BY <1>2, <2>1, <2>2, AppendInjective2
<1>7. TypeOK'
  <2>1. deliveries' \in [ByMessage \cup {k} -> Delivery]
    BY <1>2, <1>3, <1>4
  <2>2. pending' \in Seq(Keys)
    BY <1>1, <1>3, <1>6
  <2> QED BY <1>1, <1>2, <1>3, <2>1, <2>2 DEF TypeOK
<1>8. PendingIsQueued'
  <2>1. \A i \in DOMAIN pending' : deliveries'[pending'[i]].status = "pending"
    <3>1. \A x \in Range(pending) : x \in ByMessage /\ deliveries[x].status = "pending"
      BY DEF LocalInv, OutboxInv, PendingIsQueued, Range
    <3>2. \A x \in Range(pending') : deliveries'[x].status = "pending"
      BY <1>4, <1>5, <1>6, <3>1
    <3> QED BY <3>2 DEF Range
  <2>2. ASSUME revoked' = {}, NEW l \in ByMessage', deliveries'[l].status = "pending"
        PROVE  \E i \in DOMAIN pending' : pending'[i] = l
    <3>1. l \in Range(pending')
      BY <1>1, <1>2, <1>5, <1>6, <2>2 DEF LocalInv, OutboxInv, PendingIsQueued, Range
    <3> QED BY <3>1 DEF Range
  <2> QED BY <1>6, <2>1, <2>2 DEF PendingIsQueued
<1>9. DeadLettersAreDead'
  BY <1>1, <1>2, <1>4, <1>5 DEF LocalInv, OutboxInv, DeadLettersAreDead
<1>10. OneReceiptPerAttempt'
  BY <1>2 DEF LocalInv, OutboxInv, OneReceiptPerAttempt
<1>11. Range(pending') \subseteq ByMessage' /\ \A t \in tickets' : t.key \in ByMessage'
  BY <1>1, <1>2, <1>6 DEF LocalInv
<1>12. \A r \in inbox' : r.key \in ByMessage' /\ ReceiptOfDelivery(r, deliveries'[r.key])
  BY <1>1, <1>2, <1>5 DEF LocalInv
<1> QED BY <1>1, <1>7, <1>8, <1>9, <1>10, <1>11, <1>12 DEF LocalInv, OutboxInv

\* The deliveries after a sweep and after what a claim writes at k: x is the delivery handed
\* out, or the swept one if the claim was refused.
LEMMA HandedOut ==
  ASSUME LocalInv, FirstPending # 0, UNCHANGED <<log, deadLetters, inbox, clock>>,
         NEW k, k = SweptQueue[1], NEW x \in Delivery, deliveries' = [Swept EXCEPT ![k] = x],
         \/ x.status = "pending" /\ revoked' # {} /\ x.attempts = deliveries[k].attempts
         \/ x.status = "claimed" /\ x.attempts = deliveries[k].attempts + 1 /\ revoked' = revoked,
         pending' = SubSeq(SweptQueue, FirstPending + 1, Len(SweptQueue)),
         tickets' \subseteq [key : Keys, attempts : Nat, fence : Fences, handle : Nat],
         \A t \in tickets' : t.key \in ByMessage,
         revoked' \subseteq Consumer, issued' \in Nat
  PROVE  LocalInv'
<1>1. TypeOK /\ ByMessage \subseteq Keys /\ \A l \in ByMessage : deliveries[l] \in Delivery
  BY LocalFacts
<1>2. ByMessage' = ByMessage /\ RevisionsAreAChain'
  BY SameLog DEF LocalInv, OutboxInv
<1>3. FirstPending = 1 /\ SweptQueue # <<>> /\ k \in ByMessage /\ Swept[k].status = "pending"
  BY HeadFacts
<1>4. /\ Swept \in [ByMessage -> Delivery]
      /\ \A l \in ByMessage :
           /\ Swept[l].attempts = deliveries[l].attempts
           /\ l \notin Expired => Swept[l] = deliveries[l]
           /\ l \in Expired => Swept[l].status = "pending" /\ deliveries[l].status = "claimed"
  BY SweptFacts
<1>5. /\ deliveries' \in [ByMessage -> Delivery] /\ deliveries'[k] = x
      /\ \A l \in ByMessage \ {k} : deliveries'[l] = Swept[l]
  BY <1>3, <1>4
<1> PICK q : q = SweptQueue
  OBVIOUS
<1>6. /\ q \in Seq(ByMessage) /\ IsInjective(q) /\ q # <<>> /\ q[1] = k
      /\ pending' = SubSeq(q, 2, Len(q))
      /\ \A i \in DOMAIN q : Swept[q[i]].status = "pending"
      /\ revoked = {} => \A l \in ByMessage : Swept[l].status = "pending" => \E i \in DOMAIN q : q[i] = l
  BY <1>3, QueueFacts
<1>7. /\ pending' \in Seq(ByMessage) /\ IsInjective(pending')
      /\ Range(pending') = Range(q) \ {k} /\ Range(pending') \subseteq ByMessage
  <2> PICK rest, B : rest = pending' /\ B = ByMessage
    OBVIOUS
  <2>1. q \in Seq(B) /\ IsInjective(q) /\ q # <<>> /\ rest = SubSeq(q, 2, Len(q))
    BY <1>6
  <2>2. /\ rest \in Seq(B) /\ IsInjective(rest)
        /\ Range(rest) = Range(q) \ {q[1]} /\ Range(rest) \subseteq B
    BY ONLY <2>1, RestInjective
  <2> QED BY <1>6, <2>2
<1>8. TypeOK'
  <2>1. pending' \in Seq(Keys)
    BY <1>1, <1>7
  <2> QED BY <1>1, <1>2, <1>5, <2>1 DEF TypeOK
<1>9. PendingIsQueued'
  <2>1. ASSUME NEW i \in DOMAIN pending' PROVE deliveries'[pending'[i]].status = "pending"
    <3>1. pending'[i] \in Range(pending')
      BY DEF Range
    <3>2. pending'[i] # k /\ pending'[i] \in ByMessage /\ \E j \in DOMAIN q : q[j] = pending'[i]
      BY <1>7, <3>1 DEF Range
    <3>3. Swept[pending'[i]].status = "pending"
      BY <1>6, <3>2
    <3>4. pending'[i] \in ByMessage \ {k}
      BY <3>2
    <3> QED BY <1>5, <3>3, <3>4
  <2>2. ASSUME revoked' = {}, NEW l \in ByMessage, deliveries'[l].status = "pending"
        PROVE  \E i \in DOMAIN pending' : pending'[i] = l
    <3>1. x.status = "claimed" /\ revoked = {}
      BY <2>2
    <3>2. l # k /\ Swept[l].status = "pending"
      BY <1>5, <2>2, <3>1
    <3>3. l \in Range(q)
      BY <1>6, <3>1, <3>2 DEF Range
    <3>4. l \in Range(pending')
      BY <1>7, <3>2, <3>3
    <3> QED BY <3>4 DEF Range
  <2> QED BY <1>2, <1>7, <2>1, <2>2 DEF PendingIsQueued
<1>10. DeadLettersAreDead'
  <2>1. \A l \in ByMessage : deliveries'[l].status = "dead" <=> deliveries[l].status = "dead"
    <3>1. deliveries[k].status # "dead"
      BY <1>3, <1>4
    <3> QED BY <1>4, <1>5, <3>1
  <2>2. \A l \in ByMessage : deliveries[l].status = "dead" => deliveries'[l] = deliveries[l]
    BY <1>3, <1>4, <1>5
  <2> QED BY <1>2, <2>1, <2>2 DEF LocalInv, OutboxInv, DeadLettersAreDead
<1>11. OneReceiptPerAttempt'
  BY DEF LocalInv, OutboxInv, OneReceiptPerAttempt
<1>12. Range(pending') \subseteq ByMessage'
  BY <1>2, <1>7
<1>13. ASSUME NEW r \in inbox PROVE r.key \in ByMessage /\ ReceiptOfDelivery(r, deliveries'[r.key])
  <2>1. r.key \in ByMessage /\ ReceiptOfDelivery(r, deliveries[r.key])
    BY DEF LocalInv
  <2>2. r.attempts \in Nat /\ deliveries[r.key].attempts \in Nat
    BY <1>1, <2>1 DEF TypeOK, Delivery
  <2>3. CASE r.key = k
    BY <1>5, <2>1, <2>2, <2>3 DEF ReceiptOfDelivery
  <2>4. CASE r.key # k
    BY <1>4, <1>5, <2>1, <2>4 DEF ReceiptOfDelivery
  <2> QED BY <2>1, <2>3, <2>4
<1> QED BY <1>2, <1>8, <1>9, <1>10, <1>11, <1>12, <1>13 DEF LocalInv, OutboxInv

LEMMA ClaimedFacts ==
  ASSUME LocalInv, NEW c \in Consumer, NEW k \in ByMessage
  PROVE  /\ Claimed(c, k) \in Delivery /\ Claimed(c, k).status = "claimed"
         /\ Claimed(c, k).attempts = deliveries[k].attempts + 1
         /\ Claimed(c, k).consumer = c /\ Claimed(c, k).lease > clock
         /\ Ticket(k, Claimed(c, k)) \in [key : Keys, attempts : Nat, fence : Fences, handle : Nat]
<1> PICK x : x = Claimed(c, k)
  OBVIOUS
<1>1. clock \in Nat /\ issued \in Nat /\ k \in Keys /\ deliveries[k].attempts \in Nat
  BY LocalFacts DEF TypeOK, Delivery
<1>2. Swept[k].attempts = deliveries[k].attempts
  BY SweptFacts
<1>3. \A n \in Nat : Fence(k, n) \in Fences
  <2>1. k.id \in {d.id : d \in Draft}
    BY <1>1 DEF Keys, Key
  <2> QED BY <2>1 DEF Fence, Fences
<1>4. x = [status |-> "claimed", attempts |-> deliveries[k].attempts + 1, consumer |-> c,
           fence |-> Fence(k, deliveries[k].attempts + 1), handle |-> issued + 1,
           lease |-> clock + LeaseTime]
  BY <1>2 DEF Claimed
<1>5. Fence(k, deliveries[k].attempts + 1) \in Fences
  BY <1>1, <1>3
<1>6. x \in Delivery
  BY <1>1, <1>4, <1>5, OutboxAssumption DEF Delivery
<1>7. x.status = "claimed" /\ x.consumer = c /\ x.attempts = deliveries[k].attempts + 1 /\ x.lease > clock
  BY <1>1, <1>4, OutboxAssumption
<1>8. Ticket(k, x) \in [key : Keys, attempts : Nat, fence : Fences, handle : Nat]
  BY <1>1, <1>6 DEF Ticket, Delivery
<1> QED BY <1>6, <1>7, <1>8

LEMMA ClaimInv ==
  ASSUME LocalInv, NEW c \in Consumer, Claim(c)
  PROVE  LocalInv'
<1> PICK k : k = SweptQueue[1]
  OBVIOUS
<1>1. FirstPending = 1 /\ k \in ByMessage
  BY HeadFacts DEF Claim
<1> PICK x, t : x = Claimed(c, k) /\ t = Ticket(k, x)
  OBVIOUS
<1>2. /\ x \in Delivery /\ x.status = "claimed" /\ x.attempts = deliveries[k].attempts + 1
      /\ t \in [key : Keys, attempts : Nat, fence : Fences, handle : Nat] /\ t.key = k
  <2>1. t.key = k
    BY DEF Ticket
  <2> QED BY <1>1, <2>1, ClaimedFacts
<1>3. /\ deliveries' = [Swept EXCEPT ![k] = x] /\ tickets' = tickets \cup {t}
      /\ UNCHANGED <<log, deadLetters, inbox, clock, revoked>> /\ issued' = issued + 1
      /\ pending' = SubSeq(SweptQueue, FirstPending + 1, Len(SweptQueue)) /\ FirstPending # 0
  BY <1>1 DEF Claim
<1>4. /\ tickets' \subseteq [key : Keys, attempts : Nat, fence : Fences, handle : Nat]
      /\ \A u \in tickets' : u.key \in ByMessage
      /\ revoked' \subseteq Consumer /\ issued' \in Nat
  <2>1. /\ tickets \subseteq [key : Keys, attempts : Nat, fence : Fences, handle : Nat]
        /\ \A u \in tickets : u.key \in ByMessage
        /\ revoked \subseteq Consumer /\ issued \in Nat
    BY DEF LocalInv, OutboxInv, TypeOK
  <2> QED BY <1>1, <1>2, <1>3, <2>1
<1> QED BY <1>2, <1>3, <1>4, HandedOut

LEMMA ClaimDeniedInv ==
  ASSUME LocalInv, NEW c \in Consumer, ClaimDenied(c)
  PROVE  LocalInv'
<1> PICK k : k = SweptQueue[1]
  OBVIOUS
<1>1. FirstPending # 0 /\ k \in ByMessage /\ Swept[k].status = "pending"
  BY HeadFacts DEF ClaimDenied
<1>2. Swept \in [ByMessage -> Delivery] /\ Swept[k].attempts = deliveries[k].attempts
  BY <1>1, SweptFacts
<1> PICK x \in Delivery : x = Swept[k]
  BY <1>1, <1>2
<1>3. /\ deliveries' = Swept /\ UNCHANGED <<log, deadLetters, inbox, tickets, clock, issued>>
      /\ revoked' = revoked \cup {c}
      /\ pending' = SubSeq(SweptQueue, FirstPending + 1, Len(SweptQueue))
  BY DEF ClaimDenied
<1>4. deliveries' = [Swept EXCEPT ![k] = x]
  BY <1>1, <1>2, <1>3
<1>5. /\ tickets' \subseteq [key : Keys, attempts : Nat, fence : Fences, handle : Nat]
      /\ \A u \in tickets' : u.key \in ByMessage
      /\ revoked' \subseteq Consumer /\ revoked' # {} /\ issued' \in Nat
  BY <1>3 DEF LocalInv, OutboxInv, TypeOK
<1>6. x.status = "pending" /\ x.attempts = deliveries[k].attempts
  BY <1>1, <1>2
<1> QED BY <1>1, <1>3, <1>4, <1>5, <1>6, HandedOut

\* An acknowledgement changes the delivery of k, from claimed to x.
LEMMA SettledFacts ==
  ASSUME LocalInv, UNCHANGED <<log, inbox, tickets, revoked, clock, issued>>,
         NEW k \in ByMessage, NEW x \in Delivery, deliveries' = [deliveries EXCEPT ![k] = x],
         deliveries[k].status = "claimed", x.status \in {"pending", "acked", "dead"},
         x.attempts = deliveries[k].attempts,
         x.status # "pending" => x.consumer = deliveries[k].consumer /\ x.fence = deliveries[k].fence,
         pending' = IF x.status = "pending" THEN Append(pending, k) ELSE pending,
         deadLetters' = IF x.status = "dead" THEN Append(deadLetters, k) ELSE deadLetters,
         x.status = "dead" => x.attempts >= MaxAttempts
  PROVE  LocalInv'
<1>1. TypeOK /\ ByMessage \subseteq Keys /\ \A l \in ByMessage : deliveries[l] \in Delivery
  BY LocalFacts
<1>2. ByMessage' = ByMessage /\ RevisionsAreAChain'
  BY SameLog DEF LocalInv, OutboxInv
<1>3. /\ deliveries' \in [ByMessage -> Delivery] /\ deliveries'[k] = x
      /\ \A l \in ByMessage \ {k} : deliveries'[l] = deliveries[l]
  BY <1>1 DEF TypeOK
<1>4. /\ pending \in Seq(ByMessage) /\ IsInjective(pending)
      /\ \A i \in DOMAIN pending : deliveries[pending[i]].status = "pending" /\ pending[i] # k
  BY LocalFacts DEF LocalInv, OutboxInv, PendingIsQueued
<1>5. /\ pending' \in Seq(ByMessage) /\ IsInjective(pending')
      /\ Range(pending') = Range(pending) \cup (IF x.status = "pending" THEN {k} ELSE {})
  BY <1>4, AppendInjective2
<1>6. /\ deadLetters \in Seq(Keys) /\ IsInjective(deadLetters)
      /\ Range(deadLetters) = {l \in ByMessage : deliveries[l].status = "dead"}
      /\ \A l \in Range(deadLetters) : deliveries[l].attempts >= MaxAttempts
  BY DEF LocalInv, OutboxInv, TypeOK, DeadLettersAreDead
<1>7. /\ deadLetters' \in Seq(Keys) /\ IsInjective(deadLetters')
      /\ Range(deadLetters') = Range(deadLetters) \cup (IF x.status = "dead" THEN {k} ELSE {})
  <2>1. \A i \in DOMAIN deadLetters : deadLetters[i] # k
    BY <1>6 DEF Range
  <2>2. k \in Keys
    BY <1>1
  <2> QED BY <1>6, <2>1, <2>2, AppendInjective2
<1>8. TypeOK'
  <2>1. pending' \in Seq(Keys)
    BY <1>1, <1>5
  <2> QED BY <1>1, <1>2, <1>3, <1>7, <2>1 DEF TypeOK
<1>9. Range(pending) \subseteq ByMessage /\ \A l \in Range(pending) : deliveries[l].status = "pending" /\ l # k
  BY <1>4 DEF LocalInv, Range
<1>10. PendingIsQueued'
  <2>1. \A l \in Range(pending') : deliveries'[l].status = "pending"
    BY <1>3, <1>5, <1>9
  <2>2. ASSUME revoked' = {}, NEW l \in ByMessage, deliveries'[l].status = "pending"
        PROVE  l \in Range(pending')
    <3>1. CASE l = k
      BY <1>3, <1>5, <2>2, <3>1
    <3>2. CASE l # k
      BY <1>3, <1>5, <2>2, <3>2 DEF LocalInv, OutboxInv, PendingIsQueued, Range
    <3> QED BY <3>1, <3>2
  <2> QED BY <1>2, <1>5, <2>1, <2>2 DEF PendingIsQueued, Range
<1>11. DeadLettersAreDead'
  <2>1. Range(deadLetters') = {l \in ByMessage : deliveries'[l].status = "dead"}
    <3>1. \A l \in ByMessage : deliveries'[l].status = "dead" <=>
            deliveries[l].status = "dead" \/ (l = k /\ x.status = "dead")
      BY <1>3
    <3> QED BY <1>6, <1>7, <3>1
  <2>2. \A l \in Range(deadLetters') : deliveries'[l].attempts >= MaxAttempts
    BY <1>3, <1>6, <1>7
  <2> QED BY <1>2, <1>7, <2>1, <2>2 DEF DeadLettersAreDead
<1>12. OneReceiptPerAttempt'
  BY DEF LocalInv, OutboxInv, OneReceiptPerAttempt
<1>13. Range(pending') \subseteq ByMessage'
  BY <1>2, <1>5, <1>9
<1>14. ASSUME NEW r \in inbox PROVE r.key \in ByMessage /\ ReceiptOfDelivery(r, deliveries'[r.key])
  <2>1. r.key \in ByMessage /\ ReceiptOfDelivery(r, deliveries[r.key])
    BY DEF LocalInv
  <2> QED BY <1>3, <2>1 DEF ReceiptOfDelivery
<1> QED BY <1>2, <1>8, <1>10, <1>11, <1>12, <1>13, <1>14 DEF LocalInv, OutboxInv

LEMMA AcknowledgeInv ==
  ASSUME LocalInv, NEW c \in Consumer, NEW t \in tickets, NEW k \in ByMessage, Acknowledge(c, t, k)
  PROVE  LocalInv'
<1> PICK x : x = [deliveries[k] EXCEPT !.status = "acked", !.lease = 0]
  OBVIOUS
<1>1. deliveries[k] \in Delivery /\ deliveries \in [ByMessage -> Delivery]
  BY LocalFacts DEF TypeOK
<1>2. /\ x \in Delivery /\ x.status = "acked" /\ x.attempts = deliveries[k].attempts
      /\ x.consumer = deliveries[k].consumer /\ x.fence = deliveries[k].fence
  BY <1>1 DEF Delivery
<1>3. deliveries' = [deliveries EXCEPT ![k] = x]
  BY <1>1 DEF Acknowledge
<1>4. /\ deliveries[k].status = "claimed"
      /\ UNCHANGED <<log, pending, deadLetters, inbox, tickets, revoked, clock, issued>>
  BY DEF Acknowledge, Settles
<1> QED BY <1>2, <1>3, <1>4, SettledFacts

LEMMA RetryInv ==
  ASSUME LocalInv, NEW c \in Consumer, NEW t \in tickets, NEW k \in ByMessage, Retry(c, t, k)
  PROVE  LocalInv'
<1>1. deliveries[k] \in Delivery /\ deliveries \in [ByMessage -> Delivery]
  BY LocalFacts DEF TypeOK
<1>2. deliveries[k].status = "claimed" /\ UNCHANGED <<log, inbox, tickets, revoked, clock, issued>>
  BY DEF Retry, Settles
<1>3. CASE /\ deliveries[k].attempts >= MaxAttempts
           /\ deliveries' = [deliveries EXCEPT ![k].status = "dead", ![k].lease = 0]
           /\ deadLetters' = Append(deadLetters, k) /\ UNCHANGED pending
  <2> PICK x : x = [deliveries[k] EXCEPT !.status = "dead", !.lease = 0]
    OBVIOUS
  <2>1. /\ x \in Delivery /\ x.status = "dead" /\ x.attempts = deliveries[k].attempts
        /\ x.consumer = deliveries[k].consumer /\ x.fence = deliveries[k].fence
    BY <1>1 DEF Delivery
  <2>2. deliveries' = [deliveries EXCEPT ![k] = x]
    BY <1>1, <1>3
  <2>3. /\ x.attempts >= MaxAttempts /\ deadLetters' = Append(deadLetters, k) /\ pending' = pending
    BY <1>3, <2>1
  <2> QED BY <1>2, <2>1, <2>2, <2>3, SettledFacts
<1>4. CASE /\ deliveries' = [deliveries EXCEPT ![k] = Returned(@)]
           /\ pending' = Append(pending, k) /\ UNCHANGED deadLetters
  <2> PICK x : x = Returned(deliveries[k])
    OBVIOUS
  <2>1. x \in Delivery /\ x.status = "pending" /\ x.attempts = deliveries[k].attempts
    BY <1>1, ReturnedFacts
  <2>2. deliveries' = [deliveries EXCEPT ![k] = x]
    BY <1>1, <1>4
  <2> QED BY <1>2, <1>4, <2>1, <2>2, SettledFacts
<1> QED BY <1>3, <1>4 DEF Retry

LEMMA RecordInboxInv ==
  ASSUME LocalInv, NEW c \in Consumer, NEW t \in tickets, RecordInbox(c, t)
  PROVE  LocalInv'
<1> PICK new : new = Receipt(c, t.key, t)
  OBVIOUS
<1>1. /\ inbox' = inbox \cup {new}
      /\ deliveries[t.key].status = "claimed" /\ deliveries[t.key].consumer = c
      /\ deliveries[t.key].attempts = t.attempts /\ deliveries[t.key].fence = t.fence
      /\ UNCHANGED <<log, deliveries, pending, deadLetters, tickets, revoked, clock, issued>>
  BY DEF RecordInbox
<1>2. /\ new.consumer = c /\ new.key = t.key /\ new.attempts = t.attempts /\ new.fence = t.fence
      /\ new \in [consumer : Consumer, key : Keys, attempts : Nat, fence : Fences]
  BY DEF Receipt, LocalInv, OutboxInv, TypeOK
<1>3. ByMessage' = ByMessage /\ RevisionsAreAChain' /\ t.key \in ByMessage
  BY <1>1, SameLog DEF LocalInv, OutboxInv
<1>4. TypeOK'
  BY <1>1, <1>2, <1>3, LocalFacts DEF TypeOK
<1>5. ReceiptOfDelivery(new, deliveries[new.key])
  <2>1. new.attempts \in Nat
    BY <1>2
  <2> QED BY <1>1, <1>2, <2>1 DEF ReceiptOfDelivery
<1>6. OneReceiptPerAttempt'
  <2>1. ASSUME NEW r \in inbox, r.key = new.key, r.attempts = new.attempts PROVE r = new
    <3>1. ReceiptOfDelivery(r, deliveries[new.key])
      BY <2>1 DEF LocalInv
    <3>2. r.consumer = new.consumer /\ r.fence = new.fence
      BY <1>1, <1>2, <2>1, <3>1 DEF ReceiptOfDelivery
    <3>3. r \in [consumer : Consumer, key : Keys, attempts : Nat, fence : Fences]
      BY LocalFacts DEF TypeOK
    <3> QED BY <1>2, <2>1, <3>2, <3>3
  <2> QED BY <1>1, <2>1 DEF LocalInv, OutboxInv, OneReceiptPerAttempt
<1>7. PendingIsQueued' /\ DeadLettersAreDead' /\ Range(pending') \subseteq ByMessage'
  BY <1>1, <1>3 DEF LocalInv, OutboxInv, PendingIsQueued, DeadLettersAreDead
<1> QED BY <1>1, <1>2, <1>3, <1>4, <1>5, <1>6, <1>7 DEF LocalInv, OutboxInv

LEMMA LocalNextInv == LocalInv /\ [Next]_vars => LocalInv'
<1> SUFFICES ASSUME LocalInv, [Next]_vars PROVE LocalInv'
  OBVIOUS
<1>1. ASSUME UNCHANGED <<log, deliveries, pending, deadLetters, inbox, tickets, issued>>,
             clock' \in Nat, revoked' \subseteq Consumer, revoked \subseteq revoked'
      PROVE  LocalInv'
  <2>1. ByMessage' = ByMessage /\ RevisionsAreAChain'
    BY <1>1, SameLog DEF LocalInv, OutboxInv
  <2>2. TypeOK' /\ OneReceiptPerAttempt'
    BY <1>1, <2>1 DEF LocalInv, OutboxInv, TypeOK, OneReceiptPerAttempt
  <2>3. revoked' = {} => revoked = {}
    BY <1>1
  <2>4. PendingIsQueued' /\ DeadLettersAreDead'
    BY <1>1, <2>1, <2>3 DEF LocalInv, OutboxInv, PendingIsQueued, DeadLettersAreDead
  <2> QED BY <1>1, <2>1, <2>2, <2>4 DEF LocalInv, OutboxInv
<1>2. clock \in Nat /\ revoked \subseteq Consumer
  BY DEF LocalInv, OutboxInv, TypeOK
<1>3. CASE Tick \/ UNCHANGED vars
  BY <1>1, <1>2, <1>3 DEF Tick, vars
<1>4. ASSUME NEW c \in Consumer, Revoke(c) PROVE LocalInv'
  BY <1>1, <1>2, <1>4 DEF Revoke
<1> QED BY <1>3, <1>4, PublishInv, ClaimInv, ClaimDeniedInv, AcknowledgeInv, RetryInv,
           RecordInboxInv DEF Next

\* Queue, deliveries, dead letters, receipts and log agree in every state of the in-memory
\* repository, whatever contexts are refused halfway and whichever tickets come late.
THEOREM OutboxConsistent == Spec => []OutboxInv
<1>1. LocalInv => OutboxInv
  BY DEF LocalInv
<1> QED BY <1>1, LocalInitInv, LocalNextInv, PTL DEF Spec

---------------------------------------------------------------------------
(* What a step does to one delivery.                                       *)

\* The claim in the words of the deliveries: what is swept, and the one handed out.
LEMMA ClaimDeliveries ==
  ASSUME LocalInv, NEW c \in Consumer, Claim(c), NEW k, k = SweptQueue[1]
  PROVE  /\ k \in ByMessage /\ Swept[k].status = "pending"
         /\ deliveries' = [Swept EXCEPT ![k] = Claimed(c, k)]
         /\ deliveries'[k] = Claimed(c, k) /\ \A l \in ByMessage \ {k} : deliveries'[l] = Swept[l]
<1>1. FirstPending = 1 /\ k \in ByMessage /\ Swept[k].status = "pending"
  BY HeadFacts DEF Claim
<1>2. deliveries' = [Swept EXCEPT ![k] = Claimed(c, k)]
  BY <1>1 DEF Claim
<1>3. Swept \in [ByMessage -> Delivery]
  BY SweptFacts
<1> QED BY <1>1, <1>2, <1>3

LEMMA DeliverySteps ==
  ASSUME LocalInv, [Next]_vars, NEW k \in ByMessage, deliveries'[k] # deliveries[k]
  PROVE  /\ deliveries[k].status \in {"pending", "claimed"}
         /\ \/ deliveries'[k].status # "claimed"
            \/ deliveries'[k].attempts > deliveries[k].attempts
<1>1. deliveries \in [ByMessage -> Delivery] /\ deliveries[k].attempts \in Nat
  BY LocalFacts DEF TypeOK, Delivery
<1>2. ASSUME Swept[k] # deliveries[k]
      PROVE  Swept[k].status = "pending" /\ deliveries[k].status = "claimed"
  BY <1>2, SweptFacts
<1>3. ASSUME NEW d \in Draft, Publish(d) PROVE FALSE
  BY <1>3, PublishChain DEF Publish
<1>4. ASSUME NEW c \in Consumer, Claim(c)
      PROVE  /\ deliveries[k].status \in {"pending", "claimed"}
             /\ \/ deliveries'[k].status # "claimed"
                \/ deliveries'[k].attempts > deliveries[k].attempts
  <2> PICK h : h = SweptQueue[1]
    OBVIOUS
  <2>1. /\ Swept[h].status = "pending"
        /\ deliveries'[h] = Claimed(c, h) /\ \A l \in ByMessage \ {h} : deliveries'[l] = Swept[l]
    BY <1>4, ClaimDeliveries
  <2>2. CASE k = h
    <3>1. deliveries'[k].attempts = deliveries[k].attempts + 1
      BY <2>1, <2>2, ClaimedFacts
    <3>2. deliveries[k].status \in {"pending", "claimed"}
      BY <1>2, <2>1, <2>2
    <3> QED BY <1>1, <3>1, <3>2
  <2>3. CASE k # h
    BY <1>2, <2>1, <2>3
  <2> QED BY <2>2, <2>3
<1>5. ASSUME NEW c \in Consumer, ClaimDenied(c)
      PROVE  deliveries[k].status = "claimed" /\ deliveries'[k].status # "claimed"
  BY <1>2, <1>5 DEF ClaimDenied
<1>6. ASSUME NEW c \in Consumer, NEW t \in tickets, NEW h \in ByMessage, Acknowledge(c, t, h)
      PROVE  deliveries[k].status = "claimed" /\ deliveries'[k].status # "claimed"
  <2>1. h = k
    BY <1>1, <1>6 DEF Acknowledge
  <2>2. deliveries'[k] = [deliveries[k] EXCEPT !.status = "acked", !.lease = 0]
    BY <1>1, <1>6, <2>1 DEF Acknowledge
  <2>3. deliveries'[k].status = "acked"
    BY <1>1, <2>2 DEF Delivery
  <2> QED BY <1>6, <2>1, <2>3 DEF Acknowledge, Settles
<1>7. ASSUME NEW c \in Consumer, NEW t \in tickets, NEW h \in ByMessage, Retry(c, t, h)
      PROVE  deliveries[k].status = "claimed" /\ deliveries'[k].status # "claimed"
  <2>1. h = k
    BY <1>1, <1>7 DEF Retry
  <2>2. \/ deliveries'[k] = [deliveries[k] EXCEPT !.status = "dead", !.lease = 0]
        \/ deliveries'[k] = Returned(deliveries[k])
    BY <1>1, <1>7, <2>1 DEF Retry
  <2>3. deliveries'[k].status \in {"dead", "pending"}
    <3>1. deliveries[k] \in Delivery
      BY <1>1
    <3>2. Returned(deliveries[k]).status = "pending"
      BY <3>1, ReturnedFacts
    <3>3. [deliveries[k] EXCEPT !.status = "dead", !.lease = 0].status = "dead"
      BY <3>1 DEF Delivery
    <3> QED BY <2>2, <3>2, <3>3
  <2> QED BY <1>7, <2>1, <2>3 DEF Retry, Settles
<1> QED BY <1>3, <1>4, <1>5, <1>6, <1>7 DEF Next, vars, RecordInbox, Revoke, Tick

\* No late ticket, sweep or claim reopens a settled message, and a message is handed out again
\* only under a new attempt.
THEOREM SettledForGood == Spec => SettledIsFinal
<1> DEFINE Final == \A k \in ByMessage :
       /\ deliveries[k].status \in {"acked", "dead"} => deliveries'[k] = deliveries[k]
       /\ deliveries'[k].handle # deliveries[k].handle /\ deliveries'[k].status = "claimed"
            => deliveries'[k].attempts > deliveries[k].attempts
<1>1. LocalInv /\ [Next]_vars => [Final]_vars
  <2> SUFFICES ASSUME LocalInv, [Next]_vars PROVE Final
    OBVIOUS
  <2> QED BY DeliverySteps
<1> QED BY <1>1, LocalInitInv, LocalNextInv, PTL DEF Spec, SettledIsFinal

---------------------------------------------------------------------------
(* The in-memory repository against the contract.                          *)

LocalPhases == [k \in Keys |-> Phase(k)]
LocalHolders == [k \in Keys |-> Holder(k)]
LocalGrants == [k \in Keys |-> IF k \in ByMessage THEN deliveries[k].attempts ELSE 0]
LocalReceived == {[message |-> r.key, consumer |-> r.consumer, grant |-> r.attempts] : r \in inbox}

\* The contract's variables where one message has a new phase p and holder h, and g leases.
LEMMA LocalOneKey ==
  ASSUME NEW k \in Keys, NEW p, NEW h, NEW g,
         Phase(k)' = p, Holder(k)' = h, LocalGrants'[k] = g,
         \A l \in Keys \ {k} : /\ Phase(l)' = Phase(l) /\ Holder(l)' = Holder(l)
                               /\ LocalGrants'[l] = LocalGrants[l]
  PROVE  /\ LocalPhases' = [LocalPhases EXCEPT ![k] = p]
         /\ LocalHolders' = [LocalHolders EXCEPT ![k] = h]
         /\ LocalGrants' = [LocalGrants EXCEPT ![k] = g]
<1>1. LocalPhases' = [LocalPhases EXCEPT ![k] = p]
  <2>1. \A l \in Keys : LocalPhases'[l] = IF l = k THEN p ELSE LocalPhases[l]
    BY DEF LocalPhases
  <2> QED BY <2>1 DEF LocalPhases
<1>2. LocalHolders' = [LocalHolders EXCEPT ![k] = h]
  <2>1. \A l \in Keys : LocalHolders'[l] = IF l = k THEN h ELSE LocalHolders[l]
    BY DEF LocalHolders
  <2> QED BY <2>1 DEF LocalHolders
<1>3. LocalGrants' = [LocalGrants EXCEPT ![k] = g]
  <2>1. \A l \in Keys : LocalGrants'[l] = IF l = k THEN g ELSE LocalGrants[l]
    OBVIOUS
  <2>2. LocalGrants' = [l \in Keys |-> LocalGrants'[l]]
    BY DEF LocalGrants
  <2>3. LocalGrants = [l \in Keys |-> LocalGrants[l]]
    BY DEF LocalGrants
  <2> QED BY <2>1, <2>2, <2>3
<1> QED BY <1>1, <1>2, <1>3

\* A delivery that keeps its phase keeps its holder, and so do those a sweep returns.
LEMMA SameView ==
  ASSUME NEW k \in Keys, UNCHANGED clock, (k \in ByMessage') <=> (k \in ByMessage),
         \/ deliveries'[k] = deliveries[k]
         \/ /\ Phase(k) = "ready" /\ deliveries'[k].status = "pending"
            /\ deliveries'[k].attempts = deliveries[k].attempts
  PROVE  /\ Phase(k)' = Phase(k) /\ Holder(k)' = Holder(k)
         /\ LocalGrants'[k] = LocalGrants[k]
<1>1. Phase(k)' = Phase(k)
  BY DEF Phase
<1>2. Holder(k)' = Holder(k)
  BY <1>1 DEF Holder
<1>3. LocalGrants'[k] = LocalGrants[k]
  BY DEF LocalGrants, Phase
<1> QED BY <1>1, <1>2, <1>3

LEMMA PublishRefines ==
  ASSUME LocalInv, NEW d \in Draft, Publish(d)
  PROVE  \E k \in Keys : Contract!Publish(k)
<1> PICK k \in Keys : k = Key(d)
  BY DEF Keys
<1>1. ByMessage' = ByMessage \cup {k} /\ k \notin ByMessage
  BY PublishChain
<1>2. /\ deliveries' = [l \in ByMessage \cup {k} |-> IF l = k THEN Fresh ELSE deliveries[l]]
      /\ UNCHANGED <<inbox, clock>>
  BY DEF Publish
<1>3. deliveries'[k] = Fresh /\ \A l \in ByMessage : deliveries'[l] = deliveries[l]
  BY <1>1, <1>2
<1>4. Phase(k) = "absent" /\ Phase(k)' = "ready"
  BY <1>1, <1>3, FreshFacts DEF Phase
<1>5. Holder(k) = NoConsumer /\ Holder(k)' = NoConsumer /\ LocalGrants[k] = 0 /\ LocalGrants'[k] = 0
  BY <1>1, <1>3, <1>4, FreshFacts DEF Holder, LocalGrants
<1>6. \A l \in Keys \ {k} : /\ Phase(l)' = Phase(l) /\ Holder(l)' = Holder(l)
                            /\ LocalGrants'[l] = LocalGrants[l]
  <2> TAKE l \in Keys \ {k}
  <2>1. CASE l \in ByMessage
    BY <1>1, <1>2, <1>3, <2>1, SameView
  <2>2. CASE l \notin ByMessage
    BY <1>1, <2>2 DEF Phase, Holder, LocalGrants
  <2> QED BY <2>1, <2>2
<1>7. /\ LocalPhases' = [LocalPhases EXCEPT ![k] = "ready"]
      /\ LocalHolders' = [LocalHolders EXCEPT ![k] = NoConsumer]
      /\ LocalGrants' = [LocalGrants EXCEPT ![k] = 0]
  BY <1>4, <1>5, <1>6, LocalOneKey
<1>8. UNCHANGED <<LocalHolders, LocalGrants, LocalReceived>> /\ LocalPhases[k] = "absent"
  BY <1>2, <1>4, <1>5, <1>7 DEF LocalHolders, LocalGrants, LocalReceived, LocalPhases
<1>9. Contract!Publish(k)
  BY <1>7, <1>8
     DEF Contract!Publish, LocalPhases, LocalHolders, LocalGrants, LocalReceived
<1> QED BY <1>9

\* A sweep alone changes nothing of the contract's: the leases it ends were over.
LEMMA SweepIsReady ==
  ASSUME LocalInv, UNCHANGED <<log, clock>>, NEW l \in Keys,
         l \in ByMessage => deliveries'[l] = Swept[l]
  PROVE  /\ Phase(l)' = Phase(l) /\ Holder(l)' = Holder(l) /\ LocalGrants'[l] = LocalGrants[l]
<1>1. ByMessage' = ByMessage
  BY SameLog
<1>2. CASE l \notin ByMessage
  BY <1>1, <1>2 DEF Phase, Holder, LocalGrants
<1>3. CASE l \in ByMessage /\ l \notin Expired
  BY <1>1, <1>3, SweptFacts, SameView
<1>4. CASE l \in ByMessage /\ l \in Expired
  <2>1. /\ Swept[l].attempts = deliveries[l].attempts /\ Swept[l].status = "pending"
        /\ deliveries[l].status = "claimed" /\ deliveries[l].lease =< clock
    BY <1>4, SweptFacts
  <2>2. clock \in Nat /\ deliveries[l].lease \in Nat
    BY <1>4, LocalFacts DEF TypeOK, Delivery
  <2>3. Phase(l) = "ready"
    BY <1>4, <2>1, <2>2 DEF Phase
  <2> QED BY <1>1, <1>4, <2>1, <2>3, SameView
<1> QED BY <1>2, <1>3, <1>4

LEMMA LeaseRefines ==
  ASSUME LocalInv, NEW c \in Consumer, Claim(c)
  PROVE  \E k \in Keys : Contract!Lease(k, c)
<1>1. UNCHANGED <<log, clock, inbox>>
  BY DEF Claim
<1> PICK k : k = SweptQueue[1]
  OBVIOUS
<1>2. /\ k \in ByMessage /\ Swept[k].status = "pending"
      /\ deliveries'[k] = Claimed(c, k) /\ \A l \in ByMessage \ {k} : deliveries'[l] = Swept[l]
  BY ClaimDeliveries
<1>3. k \in Keys /\ ByMessage' = ByMessage
  BY <1>1, <1>2, LocalFacts, SameLog
<1>4. /\ Claimed(c, k).status = "claimed" /\ Claimed(c, k).consumer = c
      /\ Claimed(c, k).attempts = deliveries[k].attempts + 1 /\ Claimed(c, k).lease > clock
  BY <1>2, ClaimedFacts
<1>5. Phase(k) = "ready"
  <2>1. CASE k \in Expired
    <3>1. clock \in Nat /\ deliveries[k].lease \in Nat
      BY <1>2, LocalFacts DEF TypeOK, Delivery
    <3> QED BY <1>2, <2>1, <3>1, SweptFacts DEF Phase
  <2>2. CASE k \notin Expired
    BY <1>2, <2>2, SweptFacts DEF Phase
  <2> QED BY <2>1, <2>2
<1>6. Phase(k)' = "leased" /\ Holder(k)' = c /\ LocalGrants'[k] = LocalGrants[k] + 1
  <2>1. Phase(k)' = "leased"
    BY <1>1, <1>2, <1>3, <1>4 DEF Phase
  <2>2. Holder(k)' = c
    BY <1>2, <1>4, <2>1 DEF Holder
  <2> QED BY <1>2, <1>3, <1>4, <2>1, <2>2 DEF LocalGrants
<1>7. \A l \in Keys \ {k} : /\ Phase(l)' = Phase(l) /\ Holder(l)' = Holder(l)
                            /\ LocalGrants'[l] = LocalGrants[l]
  BY <1>1, <1>2, SweepIsReady
<1>8. /\ LocalPhases' = [LocalPhases EXCEPT ![k] = "leased"]
      /\ LocalHolders' = [LocalHolders EXCEPT ![k] = c]
      /\ LocalGrants' = [LocalGrants EXCEPT ![k] = LocalGrants[k] + 1]
  BY <1>3, <1>6, <1>7, LocalOneKey
<1>9. UNCHANGED LocalReceived /\ LocalPhases[k] = "ready"
  BY <1>1, <1>3, <1>5 DEF LocalReceived, LocalPhases
<1>10. Contract!Lease(k, c)
  BY <1>8, <1>9 DEF Contract!Lease, LocalPhases, LocalHolders, LocalGrants, LocalReceived
<1> QED BY <1>3, <1>10

LEMMA ReceiveRefines ==
  ASSUME LocalInv, NEW c \in Consumer, NEW t \in tickets, RecordInbox(c, t)
  PROVE  \E k \in Keys : Contract!Receive(k)
<1> PICK k : k = t.key
  OBVIOUS
<1>1. k \in ByMessage /\ k \in Keys
  BY LocalFacts DEF LocalInv
<1>2. /\ deliveries[k].status = "claimed" /\ deliveries[k].lease > clock
      /\ deliveries[k].consumer = c /\ deliveries[k].attempts = t.attempts
      /\ inbox' = inbox \cup {Receipt(c, k, t)} /\ UNCHANGED <<log, deliveries, clock>>
  BY DEF RecordInbox
<1>3. Phase(k) = "leased"
  BY <1>1, <1>2 DEF Phase
<1>4. LocalPhases[k] = "leased" /\ LocalHolders[k] = c /\ LocalGrants[k] = t.attempts
  BY <1>1, <1>2, <1>3 DEF LocalPhases, LocalHolders, LocalGrants, Holder
<1>5. UNCHANGED <<LocalPhases, LocalHolders, LocalGrants>>
  BY <1>2 DEF LocalPhases, LocalHolders, LocalGrants, Holder, Phase, ByMessage, Appended
<1>6. LocalReceived' = LocalReceived \cup {[message |-> k, consumer |-> c, grant |-> t.attempts]}
  <2> PICK new : new = Receipt(c, k, t)
    OBVIOUS
  <2>1. new.key = k /\ new.consumer = c /\ new.attempts = t.attempts
    BY DEF Receipt
  <2>2. inbox' = inbox \cup {new}
    BY <1>2
  <2> QED BY <2>1, <2>2 DEF LocalReceived
<1>7. Contract!Receive(k)
  BY <1>1, <1>4, <1>5, <1>6
     DEF Contract!Receive, Contract!ReceiptOf, LocalPhases, LocalHolders, LocalGrants, LocalReceived
<1> QED BY <1>1, <1>7

\* The end of a running lease, in the contract's variables.
LEMMA LeaseEnds ==
  ASSUME NEW k \in ByMessage, LocalInv, UNCHANGED <<log, clock, inbox>>,
         deliveries[k].status = "claimed", deliveries[k].lease > clock,
         \A l \in ByMessage \ {k} : deliveries'[l] = deliveries[l],
         deliveries'[k].attempts = deliveries[k].attempts
  PROVE  /\ k \in Keys /\ ByMessage' = ByMessage /\ LocalPhases[k] = "leased"
         /\ LocalHolders[k] = deliveries[k].consumer /\ LocalGrants[k] = deliveries[k].attempts
         /\ LocalPhases' = [LocalPhases EXCEPT ![k] = Phase(k)']
         /\ LocalHolders' = [LocalHolders EXCEPT ![k] = Holder(k)']
         /\ UNCHANGED <<LocalGrants, LocalReceived>>
<1> PICK p, h : p = Phase(k)' /\ h = Holder(k)'
  OBVIOUS
<1>1. k \in Keys /\ ByMessage' = ByMessage
  BY LocalFacts, SameLog
<1>2. Phase(k) = "leased"
  BY DEF Phase
<1>3. LocalGrants[k] = deliveries[k].attempts /\ LocalGrants'[k] = deliveries[k].attempts
  BY <1>1 DEF LocalGrants
<1>4. \A l \in Keys \ {k} : /\ Phase(l)' = Phase(l) /\ Holder(l)' = Holder(l)
                            /\ LocalGrants'[l] = LocalGrants[l]
  <2> TAKE l \in Keys \ {k}
  <2>1. CASE l \in ByMessage
    BY <1>1, <2>1, SameView
  <2>2. CASE l \notin ByMessage
    BY <1>1, <2>2 DEF Phase, Holder, LocalGrants
  <2> QED BY <2>1, <2>2
<1>5. /\ LocalPhases' = [LocalPhases EXCEPT ![k] = p]
      /\ LocalHolders' = [LocalHolders EXCEPT ![k] = h]
      /\ LocalGrants' = [LocalGrants EXCEPT ![k] = deliveries[k].attempts]
  BY <1>1, <1>3, <1>4, LocalOneKey
<1>6. UNCHANGED <<LocalGrants, LocalReceived>>
  BY <1>3, <1>5 DEF LocalGrants, LocalReceived
<1>7. LocalPhases[k] = "leased" /\ LocalHolders[k] = deliveries[k].consumer
  BY <1>1, <1>2 DEF LocalPhases, LocalHolders, Holder
<1> QED BY <1>1, <1>3, <1>5, <1>6, <1>7

LEMMA CompleteRefines ==
  ASSUME LocalInv, NEW c \in Consumer, NEW t \in tickets, NEW k \in ByMessage, Acknowledge(c, t, k)
  PROVE  \E l \in Keys : Contract!Complete(l)
<1> PICK x : x = [deliveries[k] EXCEPT !.status = "acked", !.lease = 0]
  OBVIOUS
<1>1. deliveries[k] \in Delivery /\ deliveries \in [ByMessage -> Delivery]
  BY LocalFacts DEF TypeOK
<1>2. /\ x.status = "acked" /\ x.attempts = deliveries[k].attempts
      /\ x.consumer = deliveries[k].consumer
  BY <1>1 DEF Delivery
<1>3. /\ deliveries' = [deliveries EXCEPT ![k] = x] /\ UNCHANGED <<log, inbox, clock>>
      /\ deliveries[k].status = "claimed" /\ deliveries[k].lease > clock
      /\ Receipt(c, k, deliveries[k]) \in inbox /\ deliveries[k].consumer = c
  BY <1>1 DEF Acknowledge, Settles
<1>4. /\ k \in Keys /\ LocalPhases[k] = "leased"
      /\ LocalHolders[k] = c /\ LocalGrants[k] = deliveries[k].attempts
      /\ LocalPhases' = [LocalPhases EXCEPT ![k] = "done"]
      /\ LocalHolders' = [LocalHolders EXCEPT ![k] = c]
      /\ UNCHANGED <<LocalGrants, LocalReceived>>
  <2>1. /\ \A l \in ByMessage \ {k} : deliveries'[l] = deliveries[l]
        /\ deliveries'[k] = x /\ deliveries'[k].attempts = deliveries[k].attempts
    BY <1>1, <1>2, <1>3
  <2>2. Phase(k)' = "done" /\ Holder(k)' = c
    <3>1. ByMessage' = ByMessage
      BY <1>3, SameLog
    <3>2. Phase(k)' = "done"
      BY <1>2, <2>1, <3>1 DEF Phase
    <3> QED BY <1>2, <1>3, <2>1, <3>2 DEF Holder
  <2> QED BY <1>3, <2>1, <2>2, LeaseEnds
<1>5. UNCHANGED LocalHolders
  BY <1>4 DEF LocalHolders
<1>6. [message |-> k, consumer |-> c, grant |-> deliveries[k].attempts] \in LocalReceived
  BY <1>3 DEF LocalReceived, Receipt
<1>7. Contract!Complete(k)
  BY <1>4, <1>5, <1>6
     DEF Contract!Complete, Contract!ReceiptOf, LocalPhases, LocalHolders, LocalGrants, LocalReceived
<1> QED BY <1>4, <1>7

LEMMA RetryRefines ==
  ASSUME LocalInv, NEW c \in Consumer, NEW t \in tickets, NEW k \in ByMessage, Retry(c, t, k)
  PROVE  \/ \E l \in Keys : Contract!Bury(l)
         \/ \E M \in SUBSET Keys : Contract!Lapse(M)
<1>1. deliveries[k] \in Delivery /\ deliveries \in [ByMessage -> Delivery]
  BY LocalFacts DEF TypeOK
<1>2. /\ deliveries[k].status = "claimed" /\ deliveries[k].lease > clock
      /\ UNCHANGED <<log, inbox, clock>>
  BY DEF Retry, Settles
<1>3. CASE /\ deliveries[k].attempts >= MaxAttempts
           /\ deliveries' = [deliveries EXCEPT ![k].status = "dead", ![k].lease = 0]
  <2> PICK x : x = [deliveries[k] EXCEPT !.status = "dead", !.lease = 0]
    OBVIOUS
  <2>1. /\ x.status = "dead" /\ x.attempts = deliveries[k].attempts
        /\ x.consumer = deliveries[k].consumer
    BY <1>1 DEF Delivery
  <2>3. /\ k \in Keys /\ LocalPhases[k] = "leased"
        /\ LocalHolders[k] = deliveries[k].consumer /\ LocalGrants[k] = deliveries[k].attempts
        /\ LocalPhases' = [LocalPhases EXCEPT ![k] = "buried"]
        /\ LocalHolders' = [LocalHolders EXCEPT ![k] = deliveries[k].consumer]
        /\ UNCHANGED <<LocalGrants, LocalReceived>>
    <3>1. /\ \A l \in ByMessage \ {k} : deliveries'[l] = deliveries[l]
          /\ deliveries'[k] = x /\ deliveries'[k].attempts = deliveries[k].attempts
      BY <1>1, <1>3, <2>1
    <3>2. Phase(k)' = "buried" /\ Holder(k)' = deliveries[k].consumer
      <4>1. ByMessage' = ByMessage
        BY <1>2, SameLog
      <4>2. Phase(k)' = "buried"
        BY <2>1, <3>1, <4>1 DEF Phase
      <4> QED BY <2>1, <3>1, <4>2 DEF Holder
    <3> QED BY <1>2, <3>1, <3>2, LeaseEnds
  <2>4. UNCHANGED LocalHolders
    BY <2>3 DEF LocalHolders
  <2>5. Contract!Bury(k)
    BY <1>3, <2>3, <2>4
       DEF Contract!Bury, LocalPhases, LocalHolders, LocalGrants, LocalReceived
  <2> QED BY <2>3, <2>5
<1>4. CASE deliveries' = [deliveries EXCEPT ![k] = Returned(@)]
  <2> PICK x : x = Returned(deliveries[k])
    OBVIOUS
  <2>1. x.status = "pending" /\ x.attempts = deliveries[k].attempts
    BY <1>1, ReturnedFacts
  <2>3. /\ k \in Keys /\ LocalPhases[k] = "leased"
        /\ LocalPhases' = [LocalPhases EXCEPT ![k] = "ready"]
        /\ LocalHolders' = [LocalHolders EXCEPT ![k] = NoConsumer]
        /\ UNCHANGED <<LocalGrants, LocalReceived>>
    <3>1. /\ \A l \in ByMessage \ {k} : deliveries'[l] = deliveries[l]
          /\ deliveries'[k] = x /\ deliveries'[k].attempts = deliveries[k].attempts
      BY <1>1, <1>4, <2>1
    <3>2. Phase(k)' = "ready" /\ Holder(k)' = NoConsumer
      <4>1. ByMessage' = ByMessage
        BY <1>2, SameLog
      <4>2. Phase(k)' = "ready"
        BY <2>1, <3>1, <4>1 DEF Phase
      <4> QED BY <2>1, <3>1, <4>2 DEF Holder
    <3> QED BY <1>2, <3>1, <3>2, LeaseEnds
  <2> PICK M \in SUBSET Keys : M = {k}
    BY <2>3
  <2>4. /\ \A l \in M : LocalPhases[l] = "leased"
        /\ LocalPhases' = [l \in Keys |-> IF l \in M THEN "ready" ELSE LocalPhases[l]]
        /\ LocalHolders' = [l \in Keys |-> IF l \in M THEN NoConsumer ELSE LocalHolders[l]]
    BY <2>3 DEF LocalPhases, LocalHolders
  <2>5. Contract!Lapse(M)
    BY <2>3, <2>4
       DEF Contract!Lapse, LocalPhases, LocalHolders, LocalGrants, LocalReceived
  <2> QED BY <2>5
<1> QED BY <1>3, <1>4 DEF Retry

LEMMA TickRefines ==
  ASSUME LocalInv, Tick
  PROVE  \E M \in SUBSET Keys : Contract!Lapse(M)
<1> PICK M \in SUBSET Keys : M = {k \in Keys : Phase(k) = "leased" /\ deliveries[k].lease = clock + 1}
  OBVIOUS
<1>1. /\ UNCHANGED <<log, deliveries, inbox>> /\ clock' = clock + 1 /\ clock \in Nat
      /\ ByMessage' = ByMessage
  BY LocalFacts, SameLog DEF Tick, TypeOK
<1>2. \A k \in ByMessage : deliveries[k].lease \in Nat
  BY LocalFacts DEF Delivery
<1>3. \A k \in Keys : Phase(k)' = IF k \in M THEN "ready" ELSE Phase(k)
  <2> TAKE k \in Keys
  <2>1. CASE k \notin ByMessage
    BY <1>1, <2>1 DEF Phase
  <2>2. CASE k \in ByMessage
    BY <1>1, <1>2, <2>2 DEF Phase
  <2> QED BY <2>1, <2>2
<1>4. \A k \in M : LocalPhases[k] = "leased"
  BY DEF LocalPhases
<1>5. LocalPhases' = [k \in Keys |-> IF k \in M THEN "ready" ELSE LocalPhases[k]]
  BY <1>3 DEF LocalPhases
<1>6. LocalHolders' = [k \in Keys |-> IF k \in M THEN NoConsumer ELSE LocalHolders[k]]
  <2>1. \A k \in Keys : LocalHolders'[k] = IF k \in M THEN NoConsumer ELSE LocalHolders[k]
    BY <1>1, <1>3 DEF LocalHolders, Holder
  <2> QED BY <2>1 DEF LocalHolders
<1>7. UNCHANGED <<LocalGrants, LocalReceived>>
  BY <1>1 DEF LocalGrants, LocalReceived
<1>8. Contract!Lapse(M)
  BY <1>4, <1>5, <1>6, <1>7
     DEF Contract!Lapse, LocalPhases, LocalHolders, LocalGrants, LocalReceived
<1> QED BY <1>8

LEMMA LocalStutters ==
  ASSUME LocalInv, UNCHANGED <<log, clock, inbox>>,
         UNCHANGED deliveries \/ deliveries' = Swept
  PROVE  UNCHANGED Contract!vars
<1>1. \A k \in Keys : /\ Phase(k)' = Phase(k) /\ Holder(k)' = Holder(k)
                      /\ LocalGrants'[k] = LocalGrants[k]
  <2>1. CASE UNCHANGED deliveries
    BY <2>1, SameLog, SameView
  <2>2. CASE deliveries' = Swept
    BY <2>2, SweepIsReady
  <2> QED BY <2>1, <2>2
<1>2. UNCHANGED <<LocalPhases, LocalHolders>>
  BY <1>1 DEF LocalPhases, LocalHolders
<1>3. UNCHANGED LocalGrants
  <2>1. LocalGrants = [k \in Keys |-> LocalGrants[k]]
    BY DEF LocalGrants
  <2>2. LocalGrants' = [k \in Keys |-> LocalGrants'[k]]
    BY DEF LocalGrants
  <2> QED BY <1>1, <2>1, <2>2
<1>4. UNCHANGED LocalReceived
  BY DEF LocalReceived
<1> QED BY <1>2, <1>3, <1>4
        DEF Contract!vars, LocalPhases, LocalHolders, LocalGrants, LocalReceived

LEMMA LocalContractInit == Init => Contract!Init
<1> SUFFICES ASSUME Init PROVE Contract!Init
  OBVIOUS
<1>1. ByMessage = {}
  BY DEF Init, ByMessage, Appended
<1>2. \A k \in Keys : Phase(k) = "absent" /\ Holder(k) = NoConsumer
  BY <1>1 DEF Phase, Holder
<1> QED BY <1>1, <1>2 DEF Init, Contract!Init

\* The in-memory repository implements leased delivery: one consumer at a time holds a message,
\* done means the holder left a receipt, and only the last attempt may bury it.
THEOREM LocalKeepsContract == Spec => ImplementsContract
<1>1. ASSUME LocalInv, [Next]_vars PROVE [Contract!Next]_(Contract!vars)
  <2>1. CASE (\E c \in Consumer : ClaimDenied(c) \/ Revoke(c)) \/ UNCHANGED vars
    <3>1. UNCHANGED <<log, clock, inbox>> /\ (UNCHANGED deliveries \/ deliveries' = Swept)
      BY <2>1 DEF ClaimDenied, Revoke, vars
    <3> QED BY <1>1, <3>1, LocalStutters
  <2> QED BY <1>1, <2>1, PublishRefines, LeaseRefines, ReceiveRefines, CompleteRefines,
             RetryRefines, TickRefines DEF Next, Contract!Next
<1>2. LocalInv /\ [Next]_vars => [Contract!Next]_(Contract!vars)
  BY <1>1
<1> QED BY <1>2, LocalInitInv, LocalNextInv, LocalContractInit, PTL
        DEF Spec, ImplementsContract, Contract!Spec
=============================================================================
