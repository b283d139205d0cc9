--------------------------- MODULE HackathonLive ---------------------------
(***************************************************************************)
(* The five-step live orchestrator, createHackathonLive(...).run of        *)
(* packages/application/src/hackathon-live.ts, as it is deployed: every    *)
(* HTTP request runs in a worker process of its own, several workers may   *)
(* serve one session at once, each store call is one transaction of        *)
(* HackathonCrdb, each provider call is one Bedrock transmission, and the  *)
(* supervisor of apps/api/src/image-entry.ts may kill a worker at any      *)
(* point of its run.                                                       *)
(*                                                                         *)
(* A worker is between two awaits at every state: its pc names the call    *)
(* it is about to make (or has in flight).                                 *)
(***************************************************************************)
EXTENDS HackathonCrdb

CONSTANT Worker

VARIABLES
    worker,       \* worker[w]: the request that process w runs
    titanSent,    \* titanSent[s][step]: Titan transmissions dispatched (history)
    novaSent,     \* novaSent[s][step]: Nova transmissions dispatched (history)
    answers       \* answers[s][a]: answers of step a released to callers (history)

observed == <<titanSent, novaSent, answers>>
vars == <<storeVars, worker, observed>>

Pc == {"start_session", "replay", "reserve", "replay_again", "embed", "store_facts",
       "correct", "retrieve", "generate", "finalize", "refinalize", "read_latest"}

Idle == [pc |-> "idle"]

\* What a caller sees of an answer: the generation and its lineage, not the timestamp.
Answer == [answer : Nat, recalled : SUBSET Revision, withheld : SUBSET Revision]
AnswerOf(r) == [answer |-> r.answer, recalled |-> r.recalled, withheld |-> r.withheld]

Request == [pc : Pc, session : Session, step : Step, embeds : Nat, recalled : SUBSET Revision,
            withheld : SUBSET Revision, answer : Nat, begun : Nat]

TypeOK ==
    /\ StoreTypeOK
    /\ worker \in [Worker -> Request \union {Idle}]
    /\ titanSent \in [Session -> [Step -> Nat]]
    /\ novaSent \in [Session -> [Step -> Nat]]
    /\ answers \in [Session -> [Ask -> SUBSET Answer]]

Init ==
    /\ StoreInit
    /\ worker = [w \in Worker |-> Idle]
    /\ titanSent = [s \in Session |-> [step \in Step |-> 0]]
    /\ novaSent = [s \in Session |-> [step \in Step |-> 0]]
    /\ answers = [s \in Session |-> [a \in Ask |-> {}]]

---------------------------------------------------------------------------
(* Control shared by the handlers.                                         *)

At(w, pc) == worker[w].pc = pc
SessionOf(w) == worker[w].session
StepOf(w) == worker[w].step

Resume(w, request) == worker' = [worker EXCEPT ![w] = request]

\* Mutant: a worker that returns keeps its request.
GotoKeepingRequest(w, pc) == Resume(w, [worker[w] EXCEPT !.pc = pc])

Goto(w, pc) == Resume(w, IF pc = "idle" THEN Idle ELSE [worker[w] EXCEPT !.pc = pc])

(* How a transaction whose body returns outcome may end (scoped): it        *)
(* commits and answers; COMMIT fails without a serialization error and the *)
(* writes may be durable or not; the connection or a statement fails; or   *)
(* the worker was killed while the call was in flight, so that nobody saw  *)
(* its answer.                                                             *)
Reply(outcome) ==
    { [applied |-> TRUE,  seen |-> outcome],
      [applied |-> TRUE,  seen |-> "unknown"],
      [applied |-> TRUE,  seen |-> "killed"],
      [applied |-> FALSE, seen |-> "unknown"],
      [applied |-> FALSE, seen |-> "denied"] }

Writes(reply, outcome) == reply.applied /\ outcome = "succeeded"

Release(s, a, r) ==
    answers' = [answers EXCEPT ![s][a] = @ \union {AnswerOf(r)}]

---------------------------------------------------------------------------
(* Requests arrive and workers die.                                        *)

FirstPc(step) ==
    CASE step = "start" -> "start_session"
      [] step \in Ask -> "replay"
      [] step \in {"correct", "latest_receipt"} -> "reserve"

Arrive(w, s, step) ==
    /\ At(w, "idle")
    /\ worker' = [worker EXCEPT ![w] =
                     [pc |-> FirstPc(step), session |-> s, step |-> step, embeds |-> 0,
                      recalled |-> {}, withheld |-> {}, answer |-> 0, begun |-> 0]]
    /\ UNCHANGED <<storeVars, observed>>

(* SIGKILL of the process group after 20 s, an oversized output or a pipe  *)
(* error, before the next call has reached the other side.  A worker       *)
(* killed while a call is in flight is a "killed" Reply or a failed send.  *)
Kill(w) ==
    /\ ~At(w, "idle")
    /\ Goto(w, "idle")
    /\ UNCHANGED <<storeVars, observed>>

---------------------------------------------------------------------------
(* Reservations: what a worker must hold before it may reach the provider. *)

StartSession(w) ==
    LET s == SessionOf(w)
        outcome == StartSessionOutcome(s)
    IN  /\ At(w, "start_session")
        /\ \E reply \in Reply(outcome) :
              /\ IF Writes(reply, outcome) THEN StartSessionEffect(s) ELSE UNCHANGED storeVars
              /\ Goto(w, IF reply.seen = "succeeded" THEN "embed" ELSE "idle")
        /\ UNCHANGED observed

\* Mutant: a replayed reservation is taken for a granted one.
AfterReserveResuming(step, seen) ==
    IF seen \in {"succeeded", "replayed"}
      THEN IF step = "latest_receipt" THEN "read_latest" ELSE "embed"
      ELSE "idle"

AfterReserve(step, seen) ==
    CASE seen = "succeeded" -> IF step = "latest_receipt" THEN "read_latest" ELSE "embed"
      [] seen = "replayed" -> CASE step = "latest_receipt" -> "read_latest"
                                [] step \in Ask -> "replay_again"
                                [] OTHER -> "idle"
      [] OTHER -> "idle"

Reserve(w) ==
    LET s == SessionOf(w)
        step == StepOf(w)
        outcome == ReserveOperationOutcome(s, step)
    IN  /\ At(w, "reserve")
        /\ \E reply \in Reply(outcome) :
              /\ IF Writes(reply, outcome) THEN ReserveOperationEffect(s, step)
                                           ELSE UNCHANGED storeVars
              /\ Goto(w, AfterReserve(step, reply.seen))
        /\ UNCHANGED observed

---------------------------------------------------------------------------
(* Provider calls: dispatched at most once each, never retried.            *)

AfterEmbed(step) ==
    CASE step = "start" -> "store_facts"
      [] step = "correct" -> "correct"
      [] OTHER -> "retrieve"

\* The transmission leaves the process; its answer may be lost or malformed.
Embed(w) ==
    LET s == SessionOf(w)
        step == StepOf(w)
        n == worker[w].embeds + 1
    IN  /\ At(w, "embed")
        /\ titanSent' = [titanSent EXCEPT ![s][step] = @ + 1]
        /\ \/ Resume(w, [worker[w] EXCEPT
                            !.embeds = n,
                            !.pc = IF n = Titan[step] THEN AfterEmbed(step) ELSE "embed"])
           \/ Goto(w, "idle")
        /\ UNCHANGED <<storeVars, novaSent, answers>>

\* The contexts the transmission policy knows: before and after the correction.
ReviewedContext(revisions) ==
    revisions \in {{"launch1", "evidence1"}, {"launch2", "evidence1"}}

Generate(w) ==
    LET s == SessionOf(w)
        step == StepOf(w)
    IN  /\ At(w, "generate")
        /\ ReviewedContext(worker[w].recalled)
        /\ novaSent' = [novaSent EXCEPT ![s][step] = @ + 1]
        /\ \/ Resume(w, [worker[w] EXCEPT !.answer = novaSent'[s][step], !.pc = "finalize"])
           \/ Goto(w, "idle")
        /\ UNCHANGED <<storeVars, titanSent, answers>>

\* A policy denies the call, or it times out before dispatch: nothing was sent.
Refused(w) ==
    /\ worker[w].pc \in {"embed", "generate"}
    /\ Goto(w, "idle")
    /\ UNCHANGED <<storeVars, observed>>

---------------------------------------------------------------------------
(* The effects of start and correct.                                       *)

StoreInitialFacts(w) ==
    LET s == SessionOf(w)
        outcome == StoreInitialFactsOutcome(s)
    IN  /\ At(w, "store_facts")
        /\ \E reply \in Reply(outcome) :
              IF Writes(reply, outcome) THEN StoreInitialFactsEffect(s) ELSE UNCHANGED storeVars
        /\ Goto(w, "idle")
        /\ UNCHANGED observed

Correct(w) ==
    LET s == SessionOf(w)
        outcome == CorrectOutcome(s)
    IN  /\ At(w, "correct")
        /\ \E reply \in Reply(outcome) :
              IF Writes(reply, outcome) THEN CorrectEffect(s) ELSE UNCHANGED storeVars
        /\ Goto(w, "idle")
        /\ UNCHANGED observed

---------------------------------------------------------------------------
(* Asking: replay, snapshot, generation, and the optimistic finalize.      *)

ReplayAnswer(w) ==
    LET s == SessionOf(w)
        a == StepOf(w)
        outcome == ReplayAnswerOutcome(s, a)
    IN  /\ worker[w].pc \in {"replay", "replay_again"}
        /\ \E reply \in Reply(outcome) :
              \/ /\ reply.seen = "replayed"
                 /\ Release(s, a, receipts[s][a])
                 /\ Goto(w, "idle")
              \/ /\ reply.seen = "conflict"
                 /\ Goto(w, IF At(w, "replay") THEN "reserve" ELSE "idle")
                 /\ UNCHANGED answers
              \/ /\ reply.seen \in {"unknown", "killed", "denied"}
                 /\ Goto(w, "idle")
                 /\ UNCHANGED answers
        /\ UNCHANGED <<storeVars, titanSent, novaSent>>

RetrieveSnapshot(w) ==
    LET s == SessionOf(w)
        recalled == ActivePublic(s)
        withheld == ActiveRestricted(s)
    IN  /\ At(w, "retrieve")
        /\ \E reply \in Reply(RetrieveSnapshotOutcome(s)) :
              IF reply.seen = "succeeded" /\ recalled # {}
                THEN Resume(w, [worker[w] EXCEPT !.recalled = recalled, !.withheld = withheld,
                                                 !.pc = "generate"])
                ELSE Goto(w, "idle")
        /\ UNCHANGED <<storeVars, observed>>

\* BEGIN of the finalizing transaction, which fixes CURRENT_TIMESTAMP.
BeginFinalize(w) ==
    LET s == SessionOf(w)
    IN  /\ worker[w].pc \in {"finalize", "refinalize"}
        /\ worker[w].begun = 0
        /\ clock' = [clock EXCEPT ![s] = @ + 1]
        /\ worker' = [worker EXCEPT ![w].begun = clock'[s]]
        /\ UNCHANGED <<token, reserved, used, enabled, done, active, retracted, receipts>>
        /\ UNCHANGED observed

Candidate(w) ==
    [answer |-> worker[w].answer, recalled |-> worker[w].recalled,
     withheld |-> worker[w].withheld, created |-> worker[w].begun]

\* What the first finalize must return for its answer to be released; the second.
Confirmation(w) == IF At(w, "finalize") THEN "succeeded" ELSE "replayed"

FinalizeAnswer(w) ==
    LET s == SessionOf(w)
        a == StepOf(w)
        outcome == FinalizeOutcome(s, a, Candidate(w))
    IN  /\ worker[w].pc \in {"finalize", "refinalize"}
        /\ worker[w].begun > 0
        /\ \E reply \in Reply(outcome) :
              /\ IF Writes(reply, outcome) THEN FinalizeEffect(s, a, Candidate(w))
                                           ELSE UNCHANGED storeVars
              /\ IF reply.seen = Confirmation(w)
                   THEN Release(s, a, Candidate(w))
                   ELSE UNCHANGED answers
              /\ IF reply.seen = "unknown" /\ At(w, "finalize")
                   THEN Resume(w, [worker[w] EXCEPT !.pc = "refinalize", !.begun = 0])
                   ELSE Goto(w, "idle")
        /\ UNCHANGED <<titanSent, novaSent>>

LatestReceipt(w) ==
    LET s == SessionOf(w)
    IN  /\ At(w, "read_latest")
        /\ \E reply \in Reply(LatestReceiptOutcome(s)) :
              IF reply.seen = "succeeded"
                THEN Release(s, Latest(s), receipts[s][Latest(s)])
                ELSE UNCHANGED answers
        /\ Goto(w, "idle")
        /\ UNCHANGED <<storeVars, titanSent, novaSent>>

---------------------------------------------------------------------------
Operator ==
    /\ EnableProvider \/ DisableProvider
    /\ UNCHANGED <<worker, observed>>

TokenExpiry(s) == Expire(s) /\ UNCHANGED <<worker, observed>>

WorkerStep(w) ==
    \/ StartSession(w) \/ Reserve(w)
    \/ Embed(w) \/ Generate(w) \/ Refused(w)
    \/ StoreInitialFacts(w) \/ Correct(w)
    \/ ReplayAnswer(w) \/ RetrieveSnapshot(w)
    \/ BeginFinalize(w) \/ FinalizeAnswer(w) \/ LatestReceipt(w)

Next ==
    \/ \E w \in Worker, s \in Session, step \in Step : Arrive(w, s, step)
    \/ \E w \in Worker : WorkerStep(w) \/ Kill(w)
    \/ \E s \in Session : TokenExpiry(s)
    \/ Operator

Spec == Init /\ [][Next]_vars

---------------------------------------------------------------------------
(* Properties.                                                             *)

\* A step never sends more to Bedrock than its one reservation paid for, whatever requests
\* for it are repeated, run side by side, killed, or told "unknown" (reserveOperation and
\* the run handler's incomplete_prior_attempt refusals).
ProviderWithinReservation ==
    \A s \in Session, step \in Step :
        /\ titanSent[s][step] =< (IF step \in reserved[s] THEN Titan[step] ELSE 0)
        /\ novaSent[s][step] =< (IF step \in reserved[s] THEN Nova[step] ELSE 0)

\* The inductive form of ProviderWithinReservation.  A worker past its reservation holds it
\* alone, because a reservation is granted once and a repeated one answers "replayed"; it
\* counts its own Titan calls and makes its Nova call last.
Paid == {"embed", "store_facts", "correct", "retrieve", "generate", "finalize", "refinalize"}
Holds(w) == worker[w].pc \in Paid

PcFitsStep(w) ==
    /\ At(w, "start_session") => StepOf(w) = "start"
    /\ At(w, "reserve") => StepOf(w) # "start"
    /\ worker[w].pc \in {"replay", "replay_again", "retrieve", "generate", "finalize",
                         "refinalize"} => StepOf(w) \in Ask
    /\ worker[w].pc \in {"start_session", "replay", "reserve"} => worker[w].embeds = 0

CountsItsCalls(w) ==
    LET s == SessionOf(w)
        step == StepOf(w)
    IN  /\ At(w, "embed") => /\ titanSent[s][step] = worker[w].embeds
                             /\ worker[w].embeds < Titan[step]
        /\ worker[w].pc \in {"embed", "retrieve", "generate"} => novaSent[s][step] = 0

SoleHolder ==
    \A v, w \in Worker :
        Holds(v) /\ Holds(w) /\ SessionOf(v) = SessionOf(w) /\ StepOf(v) = StepOf(w) => v = w

SpendingInv ==
    /\ \A s \in Session : token[s] = "none" => reserved[s] = {}
    /\ \A w \in Worker : PcFitsStep(w)
    /\ \A w \in Worker : Holds(w) => StepOf(w) \in reserved[SessionOf(w)]
    /\ SoleHolder
    /\ \A w \in Worker : CountsItsCalls(w)
    /\ ProviderWithinReservation

\* What was charged, over all sessions together, stays within the caps, and so do the sessions
\* that are alive (startSession and reserveOperation under hackathon_quota_lock).
WithinCaps ==
    /\ used.titan =< TitanCap
    /\ used.nova =< NovaCap
    /\ Cardinality(LiveSessions) =< SessionCap

\* An answer that a caller ever received is the one durable answer of its step: no caller is
\* shown an answer that was not committed, and no two callers see different ones
\* (finalizeAnswerReceipt, its second try after an unknown COMMIT, and replayAnswer).
AnswersAreDurable ==
    \A s \in Session, a \in Ask : \A r \in answers[s][a] :
        HasReceipt(s, a) /\ r = AnswerOf(receipts[s][a])

\* The effect rows agree with the fact rows: a correction is recorded exactly when launch
\* revision 1 was retracted, and a seeded session has exactly one active launch revision
\* (correct's compare-and-set; index memory_facts_one_active_revision).
CorrectionIsAtomic ==
    \A s \in Session :
        /\ active[s] \intersect retracted[s] = {}
        /\ ("correct" \in done[s]) <=> ("launch1" \in retracted[s])
        /\ ("correct" \in done[s]) <=> ("launch2" \in active[s])
        /\ ("start" \in done[s]) <=> ("evidence1" \in active[s])
        /\ ("start" \in done[s]) <=> (active[s] \intersect {"launch1", "launch2"} # {})
        /\ ~({"launch1", "launch2"} \subseteq active[s])

\* Receipts age with the correction: a receipt with a later created_at never rests on an
\* older launch revision than one with an earlier created_at, so latestReceipt's ORDER BY
\* never goes back behind a correction (the active-revision check of finalizeAnswerReceipt).
ReceiptsFollowCorrection ==
    \A s \in Session : \A a, b \in Ask :
        /\ HasReceipt(s, a)
        /\ HasReceipt(s, b)
        /\ receipts[s][a].created < receipts[s][b].created
        /\ "launch2" \in receipts[s][a].recalled
        => "launch2" \in receipts[s][b].recalled

\* The session's memory is one story, whoever was told what: answers, corrections and receipts
\* agree, in rows and in what callers saw.
MemoryIsConsistent == AnswersAreDurable /\ CorrectionIsAtomic /\ ReceiptsFollowCorrection

\* A receipt is written once and never rewritten, and at the instant it is written it lists
\* exactly the active public revisions as recalled and the active restricted ones as
\* withheld, although the snapshot was read several calls earlier.
ReceiptsAreGrounded ==
    [][\A s \in Session, a \in Ask :
          receipts'[s][a] # receipts[s][a] =>
              /\ ~HasReceipt(s, a)
              /\ receipts'[s][a].recalled = ActivePublic(s)
              /\ receipts'[s][a].withheld = ActiveRestricted(s)]_vars

\* The orchestrator implements the ledger: receipts are its records, answers what was seen.
Lineage(answer) == [recalled |-> answer.recalled, withheld |-> answer.withheld]

Ledger == INSTANCE AnswerLedger WITH
    Question <- Ask,
    Seed <- SeedRevisions,
    Old <- "launch1",
    New <- "launch2",
    Withheld <- Restricted,
    memory <- active,
    recorded <- [s \in Session |-> [a \in Ask |->
                    IF HasReceipt(s, a) THEN {Lineage(receipts[s][a])} ELSE {}]],
    seen <- [s \in Session |-> [a \in Ask |-> {Lineage(r) : r \in answers[s][a]}]]

\* Whatever workers race, die or retry, the session behaves as the ledger does: one answer a
\* question, recorded from the memory of one instant, and nothing else is ever shown.
ImplementsLedger == Ledger!Spec

---------------------------------------------------------------------------
(* What the documentation says of the five steps.                          *)

\* README.md, Five-step demo: "ask_after answers the same question from the corrected
\* revision".  The code reserves ask_after once correct is reserved, not once it is done.
AskAfterUsesCorrection ==
    \A s \in Session :
        HasReceipt(s, "ask_after") => "launch2" \in receipts[s]["ask_after"].recalled
=============================================================================
