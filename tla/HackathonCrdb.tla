--------------------------- MODULE HackathonCrdb ---------------------------
(***************************************************************************)
(* The CockroachDB store of the live demonstration: the tables of          *)
(* migrations 0008 and 0009 and the transactions that                      *)
(* packages/adapters-local/src/hackathon-crdb.ts runs on them.             *)
(*                                                                         *)
(* Every transaction is SERIALIZABLE, so it is one atomic step.  For each  *)
(* of them this module has XxxOutcome, what the transaction body returns,  *)
(* and XxxEffect, what it writes when that outcome is "succeeded".  The    *)
(* module has no next-state relation: HackathonLive calls these operators. *)
(*                                                                         *)
(* Operation, attempt and receipt identifiers and the request digest are   *)
(* digests of (session, step), so rows of one session and step always      *)
(* carry the same identifiers and the equality tests on them are true.     *)
(* The deletion fence of a session is written once, as 0, and compared     *)
(* with itself: it is left out.                                            *)
(***************************************************************************)
EXTENDS Integers, FiniteSets

CONSTANTS
    Session,      \* session digests a browser may present
    SessionCap,   \* unexpired sessions allowed at a time (100)
    TitanCap,     \* Titan calls that may ever be reserved (600)
    NovaCap       \* Nova calls that may ever be reserved (200)

ASSUME CapAssumption == SessionCap \in Nat /\ TitanCap \in Nat /\ NovaCap \in Nat

VARIABLES
    token,        \* token[s]: hackathon_session_tokens, "none", "live" or "expired"
    reserved,     \* reserved[s]: steps with a row in hackathon_provider_reservations
    used,         \* sums over hackathon_provider_usage
    enabled,      \* hackathon_runtime_control.provider_enabled
    done,         \* done[s]: steps with a row in hackathon_effect_results
    active,       \* active[s]: fact revisions whose fact_status is 'active'
    retracted,    \* retracted[s]: fact revisions whose fact_status is 'retracted'
    receipts,     \* receipts[s][a]: hackathon_answer_receipts with its lineage rows
    clock         \* clock[s]: how many receipt timestamps the session has drawn

storeVars == <<token, reserved, used, enabled, done, active, retracted, receipts, clock>>

Ask == {"ask_before", "ask_after"}
Step == Ask \union {"start", "correct", "latest_receipt"}

Ordinal == [start |-> 0, ask_before |-> 1, correct |-> 2, ask_after |-> 3, latest_receipt |-> 4]
Titan   == [start |-> 3, ask_before |-> 1, correct |-> 1, ask_after |-> 1, latest_receipt |-> 0]
Nova    == [start |-> 0, ask_before |-> 1, correct |-> 0, ask_after |-> 1, latest_receipt |-> 0]

\* A fact revision is named by its fact and revision number.
Revision == {"launch1", "launch2", "evidence1", "budget1"}
SeedRevisions == {"launch1", "evidence1", "budget1"}
Restricted == {"budget1"}

NoReceipt == [answer |-> 0, recalled |-> {}, withheld |-> {}, created |-> 0]
Receipt == [answer : Nat, recalled : SUBSET Revision, withheld : SUBSET Revision, created : Nat]

StoreTypeOK ==
    /\ token \in [Session -> {"none", "live", "expired"}]
    /\ reserved \in [Session -> SUBSET Step]
    /\ used \in [titan : Nat, nova : Nat]
    /\ enabled \in BOOLEAN
    /\ done \in [Session -> SUBSET {"start", "correct"}]
    /\ active \in [Session -> SUBSET Revision]
    /\ retracted \in [Session -> SUBSET Revision]
    /\ receipts \in [Session -> [Ask -> Receipt]]
    /\ clock \in [Session -> Nat]

StoreInit ==
    /\ token = [s \in Session |-> "none"]
    /\ reserved = [s \in Session |-> {}]
    /\ used = [titan |-> 0, nova |-> 0]
    /\ enabled = FALSE
    /\ done = [s \in Session |-> {}]
    /\ active = [s \in Session |-> {}]
    /\ retracted = [s \in Session |-> {}]
    /\ receipts = [s \in Session |-> [a \in Ask |-> NoReceipt]]
    /\ clock = [s \in Session |-> 0]

---------------------------------------------------------------------------
(* Reads shared by the transactions.                                       *)

Authenticated(s) == token[s] = "live"

LiveSessions == {s \in Session : token[s] = "live"}

Headroom(step) ==
    /\ used.titan + Titan[step] =< TitanCap
    /\ used.nova + Nova[step] =< NovaCap

ActivePublic(s) == active[s] \ Restricted
ActiveRestricted(s) == active[s] \intersect Restricted

HasReceipt(s, a) == receipts[s][a] # NoReceipt

Charge(step) ==
    used' = [titan |-> used.titan + Titan[step], nova |-> used.nova + Nova[step]]

---------------------------------------------------------------------------
(* startSession and reserveOperation: the quota lock is taken FOR UPDATE,  *)
(* so the caps are read and charged in one step.                           *)

\* Mutant: a session is started without the caps being read.
StartSessionOutcomeUncapped(s) ==
    IF token[s] = "none" THEN IF enabled THEN "succeeded" ELSE "denied" ELSE "conflict"

StartSessionOutcome(s) ==
    CASE token[s] = "live" /\ "start" \in reserved[s] -> "replayed"
      [] token[s] # "none" /\ ~(token[s] = "live" /\ "start" \in reserved[s]) -> "conflict"
      [] token[s] = "none" ->
            IF enabled /\ Cardinality(LiveSessions) < SessionCap /\ Headroom("start")
              THEN "succeeded" ELSE "denied"

StartSessionEffect(s) ==
    /\ token' = [token EXCEPT ![s] = "live"]
    /\ reserved' = [reserved EXCEPT ![s] = @ \union {"start"}]
    /\ Charge("start")
    /\ UNCHANGED <<enabled, done, active, retracted, receipts, clock>>

ReserveOperationOutcome(s, step) ==
    IF ~Authenticated(s) THEN "conflict"
    ELSE IF step \in reserved[s] THEN "replayed"
    ELSE IF Cardinality(reserved[s]) # Ordinal[step] THEN "conflict"
    ELSE IF /\ (Titan[step] > 0 \/ Nova[step] > 0) => enabled
            /\ Headroom(step)
      THEN "succeeded" ELSE "denied"

ReserveOperationEffect(s, step) ==
    /\ reserved' = [reserved EXCEPT ![s] = @ \union {step}]
    /\ Charge(step)
    /\ UNCHANGED <<token, enabled, done, active, retracted, receipts, clock>>

---------------------------------------------------------------------------
(* storeInitialFacts and correct: the two effects, each recorded once in   *)
(* hackathon_effect_results.                                               *)

StoreInitialFactsOutcome(s) ==
    IF ~Authenticated(s) THEN "conflict"
    ELSE IF "start" \in done[s] THEN "replayed"
    ELSE IF "start" \notin reserved[s] THEN "conflict"
    ELSE "succeeded"

StoreInitialFactsEffect(s) ==
    /\ active' = [active EXCEPT ![s] = @ \union SeedRevisions]
    /\ done' = [done EXCEPT ![s] = @ \union {"start"}]
    /\ UNCHANGED <<token, reserved, used, enabled, retracted, receipts, clock>>

CorrectOutcome(s) ==
    IF ~Authenticated(s) THEN "conflict"
    ELSE IF "correct" \in done[s] THEN "replayed"
    ELSE IF "correct" \notin reserved[s] THEN "conflict"
    ELSE IF "launch1" \notin active[s] THEN "conflict"
    ELSE "succeeded"

\* Mutant: the replacement is inserted and the old revision stays active.
CorrectEffectInsertOnly(s) ==
    /\ active' = [active EXCEPT ![s] = @ \union {"launch2"}]
    /\ done' = [done EXCEPT ![s] = @ \union {"correct"}]
    /\ UNCHANGED <<token, reserved, used, enabled, retracted, receipts, clock>>

CorrectEffect(s) ==
    /\ active' = [active EXCEPT ![s] = (@ \ {"launch1"}) \union {"launch2"}]
    /\ retracted' = [retracted EXCEPT ![s] = @ \union {"launch1"}]
    /\ done' = [done EXCEPT ![s] = @ \union {"correct"}]
    /\ UNCHANGED <<token, reserved, used, enabled, receipts, clock>>

---------------------------------------------------------------------------
(* finalizeAnswerReceipt, the optimistic check-and-insert, and the reads   *)
(* retrieveSnapshot, replayAnswer and latestReceipt.                       *)

RetrieveSnapshotOutcome(s) == IF Authenticated(s) THEN "succeeded" ELSE "conflict"

\* Everything of a receipt but its timestamp: what the exact-receipt query compares.
SameReceipt(r1, r2) ==
    /\ r1.answer = r2.answer
    /\ r1.recalled = r2.recalled
    /\ r1.withheld = r2.withheld

\* Mutant: the recalled revisions are not checked to be still active.
FinalizeOutcomeUnguarded(s, a, r) ==
    IF ~Authenticated(s) THEN "conflict"
    ELSE IF HasReceipt(s, a)
      THEN IF SameReceipt(receipts[s][a], r) THEN "replayed" ELSE "conflict"
    ELSE IF a \in reserved[s] THEN "succeeded" ELSE "conflict"

FinalizeOutcome(s, a, r) ==
    IF ~Authenticated(s) THEN "conflict"
    ELSE IF HasReceipt(s, a)
      THEN IF SameReceipt(receipts[s][a], r) THEN "replayed" ELSE "conflict"
    ELSE IF a \notin reserved[s] THEN "conflict"
    ELSE IF ~(r.recalled \subseteq ActivePublic(s)) THEN "conflict"
    ELSE IF ~(r.withheld \subseteq ActiveRestricted(s)) THEN "conflict"
    ELSE "succeeded"

FinalizeEffect(s, a, r) ==
    /\ receipts' = [receipts EXCEPT ![s][a] = r]
    /\ UNCHANGED <<token, reserved, used, enabled, done, active, retracted, clock>>

\* Mutant: an answer is replayed whether or not a receipt was found.
ReplayAnswerOutcomeUnchecked(s, a) == IF Authenticated(s) THEN "replayed" ELSE "conflict"

ReplayAnswerOutcome(s, a) ==
    IF Authenticated(s) /\ HasReceipt(s, a) THEN "replayed" ELSE "conflict"

\* ORDER BY created_at DESC LIMIT 1.
Latest(s) ==
    CHOOSE a \in Ask :
        /\ HasReceipt(s, a)
        /\ \A b \in Ask : receipts[s][b].created =< receipts[s][a].created

LatestReceiptOutcome(s) ==
    IF /\ Authenticated(s)
       /\ "latest_receipt" \in reserved[s]
       /\ \E a \in Ask : HasReceipt(s, a)
      THEN "succeeded" ELSE "conflict"

---------------------------------------------------------------------------
(* Steps the store takes on its own account: a token passes its expiry,    *)
(* and the operator runs scripts/h2-crdb-provider-control.mjs.             *)

Expire(s) ==
    /\ token[s] = "live"
    /\ token' = [token EXCEPT ![s] = "expired"]
    /\ UNCHANGED <<reserved, used, enabled, done, active, retracted, receipts, clock>>

EnableProvider ==
    /\ ~enabled
    /\ Cardinality(LiveSessions) < SessionCap
    /\ used.titan < TitanCap
    /\ used.nova < NovaCap
    /\ enabled' = TRUE
    /\ UNCHANGED <<token, reserved, used, done, active, retracted, receipts, clock>>

DisableProvider ==
    /\ enabled
    /\ enabled' = FALSE
    /\ UNCHANGED <<token, reserved, used, done, active, retracted, receipts, clock>>
=============================================================================
