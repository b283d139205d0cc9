------------------------ MODULE HackathonLiveProofs ------------------------
(***************************************************************************)
(* Theorems about HackathonLive for every set of sessions and workers and  *)
(* for every value of the caps.                                            *)
(***************************************************************************)
EXTENDS MCHackathonLive, FiniteSetTheorems, WellFoundedInduction, TLAPS

\* The effects of the store's transactions preserve its types.
LEMMA StoreEffectTypes ==
    ASSUME StoreTypeOK, NEW s \in Session, NEW step \in Step
    PROVE  /\ StartSessionEffect(s) => StoreTypeOK'
           /\ ReserveOperationEffect(s, step) => StoreTypeOK'
           /\ StoreInitialFactsEffect(s) => StoreTypeOK'
           /\ CorrectEffect(s) => StoreTypeOK'
           /\ Expire(s) => StoreTypeOK'
           /\ EnableProvider => StoreTypeOK'
           /\ DisableProvider => StoreTypeOK'
<1>1. StartSessionEffect(s) => StoreTypeOK'
    BY DEF StoreTypeOK, StartSessionEffect, Charge, Titan, Nova, Step, Ask
<1>2. ReserveOperationEffect(s, step) => StoreTypeOK'
    BY DEF StoreTypeOK, ReserveOperationEffect, Charge, Titan, Nova, Step, Ask
<1>3. StoreInitialFactsEffect(s) => StoreTypeOK'
    BY DEF StoreTypeOK, StoreInitialFactsEffect, SeedRevisions, Revision
<1>4. CorrectEffect(s) => StoreTypeOK'
    BY DEF StoreTypeOK, CorrectEffect, Revision
<1>5. Expire(s) => StoreTypeOK'
    BY DEF StoreTypeOK, Expire
<1>6. EnableProvider \/ DisableProvider => StoreTypeOK'
    BY DEF StoreTypeOK, EnableProvider, DisableProvider
<1> QED BY <1>1, <1>2, <1>3, <1>4, <1>5, <1>6

LEMMA StoreUnchanged ==
    ASSUME StoreTypeOK, UNCHANGED storeVars
    PROVE  StoreTypeOK'
BY DEF StoreTypeOK, storeVars

LEMMA FinalizeEffectType ==
    ASSUME StoreTypeOK, NEW s \in Session, NEW a \in Ask, NEW r \in Receipt,
           FinalizeEffect(s, a, r)
    PROVE  StoreTypeOK'
BY DEF StoreTypeOK, FinalizeEffect

---------------------------------------------------------------------------
(* Type correctness.                                                       *)

\* A worker that holds a request holds a well-typed one, and going on keeps it so.
LEMMA RequestType ==
    ASSUME worker \in [Worker -> Request \union {Idle}], NEW w \in Worker, ~At(w, "idle")
    PROVE  /\ worker[w] \in Request
           /\ SessionOf(w) \in Session
           /\ StepOf(w) \in Step
           /\ \A pc \in Pc \union {"idle"} :
                 Goto(w, pc) => worker' \in [Worker -> Request \union {Idle}]
BY DEF At, Idle, Request, SessionOf, StepOf, Goto, Resume, Pc

LEMMA ResumeType ==
    ASSUME worker \in [Worker -> Request \union {Idle}], NEW w \in Worker,
           NEW r \in Request, Resume(w, r)
    PROVE  worker' \in [Worker -> Request \union {Idle}]
BY DEF Resume

LEMMA ReleaseType ==
    ASSUME StoreTypeOK, answers \in [Session -> [Ask -> SUBSET Answer]],
           NEW s \in Session, NEW a, NEW r \in Receipt, Release(s, a, r)
    PROVE  answers' \in [Session -> [Ask -> SUBSET Answer]]
<1>1. AnswerOf(r) \in Answer
    BY DEF AnswerOf, Answer, Receipt
<1>2. CASE a \in Ask
    BY <1>1, <1>2 DEF Release
<1>3. CASE a \notin Ask
    BY <1>3 DEF Release
<1> QED BY <1>2, <1>3

LEMMA ReleaseNowhere ==
    ASSUME answers \in [Session -> [Ask -> SUBSET Answer]],
           NEW s \in Session, NEW a, a \notin Ask, NEW r, Release(s, a, r)
    PROVE  answers' \in [Session -> [Ask -> SUBSET Answer]]
BY DEF Release

LEMMA StartSessionType ==
    ASSUME TypeOK, NEW w \in Worker, StartSession(w)
    PROVE  TypeOK'
<1>1. ~At(w, "idle")
    BY DEF StartSession, At
<1>2. PICK reply \in Reply(StartSessionOutcome(SessionOf(w))) :
        /\ IF Writes(reply, StartSessionOutcome(SessionOf(w)))
             THEN StartSessionEffect(SessionOf(w)) ELSE UNCHANGED storeVars
        /\ Goto(w, IF reply.seen = "succeeded" THEN "embed" ELSE "idle")
    BY DEF StartSession
<1>3. StoreTypeOK'
    BY <1>1, <1>2, RequestType, StoreEffectTypes, StoreUnchanged DEF TypeOK
<1>4. worker' \in [Worker -> Request \union {Idle}]
    BY <1>1, <1>2, RequestType DEF TypeOK, Pc
<1> QED BY <1>3, <1>4 DEF TypeOK, StartSession, observed

LEMMA ReserveType ==
    ASSUME TypeOK, NEW w \in Worker, Reserve(w)
    PROVE  TypeOK'
<1>1. ~At(w, "idle")
    BY DEF Reserve, At
<1>2. PICK reply \in Reply(ReserveOperationOutcome(SessionOf(w), StepOf(w))) :
        /\ IF Writes(reply, ReserveOperationOutcome(SessionOf(w), StepOf(w)))
             THEN ReserveOperationEffect(SessionOf(w), StepOf(w)) ELSE UNCHANGED storeVars
        /\ Goto(w, AfterReserve(StepOf(w), reply.seen))
    BY DEF Reserve
<1>3. StoreTypeOK'
    BY <1>1, <1>2, RequestType, StoreEffectTypes, StoreUnchanged DEF TypeOK
<1>4. AfterReserve(StepOf(w), reply.seen) \in Pc \union {"idle"}
    BY DEF AfterReserve, Pc
<1>5. worker' \in [Worker -> Request \union {Idle}]
    BY <1>1, <1>2, <1>4, RequestType DEF TypeOK
<1> QED BY <1>3, <1>5 DEF TypeOK, Reserve, observed

LEMMA ProviderType ==
    ASSUME TypeOK, NEW w \in Worker, Embed(w) \/ Generate(w) \/ Refused(w)
    PROVE  TypeOK'
<1>1. ~At(w, "idle")
    BY DEF Embed, Generate, Refused, At
<1>2. StoreTypeOK'
    BY StoreUnchanged DEF TypeOK, Embed, Generate, Refused
<1>3. CASE Embed(w)
    <2>1. titanSent' \in [Session -> [Step -> Nat]]
        BY <1>1, <1>3, RequestType DEF TypeOK, Embed
    <2>2. worker' \in [Worker -> Request \union {Idle}]
        <3>1. CASE Goto(w, "idle")
            BY <1>1, <3>1, RequestType DEF TypeOK
        <3>2. CASE ~Goto(w, "idle")
            <4> DEFINE pc == IF worker[w].embeds + 1 = Titan[StepOf(w)]
                               THEN AfterEmbed(StepOf(w)) ELSE "embed"
                       r == [worker[w] EXCEPT !.embeds = worker[w].embeds + 1, !.pc = pc]
            <4>1. worker[w] \in Request
                BY <1>1, RequestType DEF TypeOK
            <4>2. pc \in Pc
                BY DEF AfterEmbed, Pc
            <4>3. Resume(w, r)
                BY <1>3, <3>2 DEF Embed
            <4> HIDE DEF pc
            <4>4. worker[w].embeds + 1 \in Nat
                BY <4>1 DEF Request
            <4>5. r \in Request
                BY <4>1, <4>2, <4>4 DEF Request
            <4> QED BY <4>3, <4>5, ResumeType DEF TypeOK
        <3> QED BY <3>1, <3>2
    <2> QED BY <1>2, <1>3, <2>1, <2>2 DEF TypeOK, Embed
<1>4. CASE Generate(w)
    <2>1. novaSent' \in [Session -> [Step -> Nat]]
        BY <1>1, <1>4, RequestType DEF TypeOK, Generate
    <2>2. worker' \in [Worker -> Request \union {Idle}]
        <3>1. CASE Goto(w, "idle")
            BY <1>1, <3>1, RequestType DEF TypeOK
        <3>2. CASE ~Goto(w, "idle")
            <4> DEFINE r == [worker[w] EXCEPT !.answer = novaSent'[SessionOf(w)][StepOf(w)],
                                              !.pc = "finalize"]
            <4>1. worker[w] \in Request /\ novaSent'[SessionOf(w)][StepOf(w)] \in Nat
                BY <1>1, <2>1, RequestType DEF TypeOK
            <4>2. r \in Request
                BY <4>1 DEF Request, Pc
            <4>3. Resume(w, r)
                BY <1>4, <3>2 DEF Generate
            <4> QED BY <4>2, <4>3, ResumeType DEF TypeOK
        <3> QED BY <3>1, <3>2
    <2> QED BY <1>2, <1>4, <2>1, <2>2 DEF TypeOK, Generate
<1>5. CASE Refused(w)
    BY <1>1, <1>2, <1>5, RequestType DEF TypeOK, Refused, observed
<1> QED BY <1>3, <1>4, <1>5

LEMMA EffectStepType ==
    ASSUME TypeOK, NEW w \in Worker, StoreInitialFacts(w) \/ Correct(w)
    PROVE  TypeOK'
<1>1. ~At(w, "idle")
    BY DEF StoreInitialFacts, Correct, At
<1>2. \/ StoreInitialFactsEffect(SessionOf(w))
      \/ CorrectEffect(SessionOf(w))
      \/ UNCHANGED storeVars
    BY DEF StoreInitialFacts, Correct
<1>3. StoreTypeOK'
    BY <1>1, <1>2, RequestType, StoreEffectTypes, StoreUnchanged DEF TypeOK
<1>4. worker' \in [Worker -> Request \union {Idle}]
    BY <1>1, RequestType DEF TypeOK, StoreInitialFacts, Correct
<1> QED BY <1>3, <1>4 DEF TypeOK, StoreInitialFacts, Correct, observed

LEMMA ReplayAnswerType ==
    ASSUME TypeOK, NEW w \in Worker, ReplayAnswer(w), PcFitsStep(w)
    PROVE  TypeOK'
<1>1. ~At(w, "idle")
    BY DEF ReplayAnswer, At
<1>2. SessionOf(w) \in Session /\ StepOf(w) \in Ask
    BY <1>1, RequestType DEF TypeOK, ReplayAnswer, PcFitsStep
<1>3. receipts[SessionOf(w)][StepOf(w)] \in Receipt
    BY <1>2 DEF TypeOK, StoreTypeOK
<1>4. answers' \in [Session -> [Ask -> SUBSET Answer]]
    BY <1>2, <1>3, ReleaseType DEF TypeOK, ReplayAnswer
<1>5. worker' \in [Worker -> Request \union {Idle}]
    BY <1>1, RequestType DEF TypeOK, ReplayAnswer, Pc
<1>6. StoreTypeOK'
    BY StoreUnchanged DEF TypeOK, ReplayAnswer
<1> QED BY <1>4, <1>5, <1>6 DEF TypeOK, ReplayAnswer

LEMMA RetrieveSnapshotType ==
    ASSUME TypeOK, NEW w \in Worker, RetrieveSnapshot(w)
    PROVE  TypeOK'
<1>1. ~At(w, "idle")
    BY DEF RetrieveSnapshot, At
<1> DEFINE r == [worker[w] EXCEPT !.recalled = ActivePublic(SessionOf(w)),
                                  !.withheld = ActiveRestricted(SessionOf(w)),
                                  !.pc = "generate"]
<1>2. worker[w] \in Request /\ SessionOf(w) \in Session
    BY <1>1, RequestType DEF TypeOK
<1>3. /\ ActivePublic(SessionOf(w)) \in SUBSET Revision
      /\ ActiveRestricted(SessionOf(w)) \in SUBSET Revision
    BY <1>2 DEF TypeOK, StoreTypeOK, ActivePublic, ActiveRestricted
<1>4. r \in Request
    BY <1>2, <1>3 DEF Request, Pc
<1>5. Resume(w, r) \/ Goto(w, "idle")
    BY DEF RetrieveSnapshot
<1>6. worker' \in [Worker -> Request \union {Idle}]
    BY <1>1, <1>4, <1>5, RequestType, ResumeType DEF TypeOK
<1>7. StoreTypeOK'
    BY StoreUnchanged DEF TypeOK, RetrieveSnapshot
<1> QED BY <1>6, <1>7 DEF TypeOK, RetrieveSnapshot, observed

LEMMA BeginFinalizeType ==
    ASSUME TypeOK, NEW w \in Worker, BeginFinalize(w)
    PROVE  TypeOK'
<1>1. ~At(w, "idle")
    BY DEF BeginFinalize, At
<1>2. worker[w] \in Request /\ SessionOf(w) \in Session
    BY <1>1, RequestType DEF TypeOK
<1>3. StoreTypeOK' /\ clock'[SessionOf(w)] \in Nat
    BY <1>2 DEF TypeOK, StoreTypeOK, BeginFinalize
<1>4. [worker[w] EXCEPT !.begun = clock'[SessionOf(w)]] \in Request
    BY <1>2, <1>3 DEF Request
<1>5. worker' \in [Worker -> Request \union {Idle}]
    BY <1>4 DEF TypeOK, BeginFinalize
<1> QED BY <1>3, <1>5 DEF TypeOK, BeginFinalize, observed

LEMMA FinalizeAnswerType ==
    ASSUME TypeOK, NEW w \in Worker, FinalizeAnswer(w), PcFitsStep(w)
    PROVE  TypeOK'
<1>1. ~At(w, "idle")
    BY DEF FinalizeAnswer, At
<1>2. worker[w] \in Request /\ SessionOf(w) \in Session /\ StepOf(w) \in Ask
    BY <1>1, RequestType DEF TypeOK, FinalizeAnswer, PcFitsStep
<1>3. Candidate(w) \in Receipt
    BY <1>2 DEF Candidate, Receipt, Request
<1>4. \/ FinalizeEffect(SessionOf(w), StepOf(w), Candidate(w))
      \/ UNCHANGED storeVars
    BY DEF FinalizeAnswer
<1>5. StoreTypeOK'
    BY <1>2, <1>3, <1>4, StoreUnchanged, FinalizeEffectType DEF TypeOK
<1>6. Release(SessionOf(w), StepOf(w), Candidate(w)) \/ UNCHANGED answers
    BY DEF FinalizeAnswer
<1>7. answers' \in [Session -> [Ask -> SUBSET Answer]]
    BY <1>2, <1>3, <1>6, ReleaseType DEF TypeOK
<1> DEFINE r == [worker[w] EXCEPT !.pc = "refinalize", !.begun = 0]
<1>8. r \in Request
    BY <1>2 DEF Request, Pc
<1>9. Resume(w, r) \/ Goto(w, "idle")
    BY DEF FinalizeAnswer
<1>10. worker' \in [Worker -> Request \union {Idle}]
    BY <1>1, <1>8, <1>9, RequestType, ResumeType DEF TypeOK
<1> QED BY <1>5, <1>7, <1>10 DEF TypeOK, FinalizeAnswer

LEMMA LatestReceiptType ==
    ASSUME TypeOK, NEW w \in Worker, LatestReceipt(w)
    PROVE  TypeOK'
<1>1. ~At(w, "idle")
    BY DEF LatestReceipt, At
<1>2. SessionOf(w) \in Session
    BY <1>1, RequestType DEF TypeOK
<1> DEFINE a == Latest(SessionOf(w))
<1>3. answers' \in [Session -> [Ask -> SUBSET Answer]]
    <2>1. CASE a \in Ask
        <3>1. receipts[SessionOf(w)][a] \in Receipt
            BY <1>2, <2>1 DEF TypeOK, StoreTypeOK
        <3>2. Release(SessionOf(w), a, receipts[SessionOf(w)][a]) \/ UNCHANGED answers
            BY DEF LatestReceipt
        <3> QED BY <1>2, <3>1, <3>2, ReleaseType DEF TypeOK
    <2>2. CASE a \notin Ask
        <3>1. Release(SessionOf(w), a, receipts[SessionOf(w)][a]) \/ UNCHANGED answers
            BY DEF LatestReceipt
        <3> QED BY <1>2, <2>2, <3>1, ReleaseNowhere DEF TypeOK
    <2> QED BY <2>1, <2>2
<1>4. worker' \in [Worker -> Request \union {Idle}]
    BY <1>1, RequestType DEF TypeOK, LatestReceipt
<1>5. StoreTypeOK'
    BY StoreUnchanged DEF TypeOK, LatestReceipt
<1> QED BY <1>3, <1>4, <1>5 DEF TypeOK, LatestReceipt

---------------------------------------------------------------------------
(* ProviderWithinReservation: the inductive invariant is SpendingInv.      *)

\* What the worker of a step must look like afterwards when the step spends nothing.
Unpaid(w) ==
    /\ worker' = [worker EXCEPT ![w] = worker'[w]]
    /\ PcFitsStep(w)'
    /\ \/ ~Holds(w)'
       \/ /\ Holds(w)
          /\ SessionOf(w)' = SessionOf(w)
          /\ StepOf(w)' = StepOf(w)
          /\ ~At(w, "embed")'
          /\ (worker[w].pc \in {"retrieve", "generate"})'
                => worker[w].pc \in {"retrieve", "generate"}

\* A step that keeps the reservations and spends nothing keeps the invariant.
LEMMA UnpaidStep ==
    ASSUME TypeOK, SpendingInv, NEW w \in Worker, Unpaid(w),
           UNCHANGED <<reserved, titanSent, novaSent>>,
           \A s \in Session : token'[s] = "none" => token[s] = "none"
    PROVE  SpendingInv'
<1>1. \A v \in Worker \ {w} : worker'[v] = worker[v]
    BY DEF TypeOK, Unpaid
<1>2. \A s \in Session : token'[s] = "none" => reserved'[s] = {}
    BY DEF SpendingInv
<1>3. \A v \in Worker : PcFitsStep(v)'
    BY <1>1 DEF SpendingInv, Unpaid, PcFitsStep, At, StepOf
<1>4. \A v \in Worker : Holds(v)' =>
        /\ Holds(v) /\ SessionOf(v)' = SessionOf(v) /\ StepOf(v)' = StepOf(v)
    BY <1>1 DEF Unpaid, Holds, SessionOf, StepOf
<1>5. \A v \in Worker : Holds(v)' => StepOf(v)' \in reserved'[SessionOf(v)']
    BY <1>4 DEF SpendingInv
<1>6. SoleHolder'
    BY <1>4 DEF SpendingInv, SoleHolder
<1>7. \A v \in Worker : CountsItsCalls(v)'
    <2> SUFFICES ASSUME NEW v \in Worker PROVE CountsItsCalls(v)'
        OBVIOUS
    <2>1. CASE v # w
        BY <1>1, <2>1 DEF SpendingInv, CountsItsCalls, SessionOf, StepOf, At
    <2>2. CASE v = w
        BY <2>2 DEF SpendingInv, Unpaid, CountsItsCalls, SessionOf, StepOf, At, Holds, Paid
    <2> QED BY <2>1, <2>2
<1>8. ProviderWithinReservation'
    BY DEF SpendingInv, ProviderWithinReservation
<1> QED BY <1>2, <1>3, <1>5, <1>6, <1>7, <1>8 DEF SpendingInv

\* Granting a reservation: the step was free, so nobody held it and nothing was sent for it.
LEMMA GrantedStep ==
    ASSUME TypeOK, SpendingInv, NEW w \in Worker,
           ~At(w, "idle"), worker[w].embeds = 0, ~Holds(w),
           StepOf(w) \notin reserved[SessionOf(w)],
           reserved' = [reserved EXCEPT ![SessionOf(w)] = @ \union {StepOf(w)}],
           UNCHANGED <<titanSent, novaSent>>,
           \A s \in Session : token'[s] = "none" => token[s] = "none" /\ s # SessionOf(w),
           NEW pc \in {"idle", "embed", "read_latest"},
           pc = "embed" => StepOf(w) # "latest_receipt",
           Goto(w, pc)
    PROVE  SpendingInv'
<1> DEFINE s0 == SessionOf(w)
           step0 == StepOf(w)
<1>1. worker[w] \in Request /\ s0 \in Session /\ step0 \in Step
    BY RequestType DEF TypeOK
<1>2. \A v \in Worker \ {w} : worker'[v] = worker[v]
    BY DEF TypeOK, Goto, Resume
<1>3. worker'[w] = IF pc = "idle" THEN Idle ELSE [worker[w] EXCEPT !.pc = pc]
    BY DEF TypeOK, Goto, Resume
<1>4. /\ worker'[w].pc = pc
      /\ pc = "embed" => /\ SessionOf(w)' = s0 /\ StepOf(w)' = step0
                         /\ worker'[w].embeds = 0
    BY <1>1, <1>3 DEF Idle, Request, SessionOf, StepOf
<1>5. \A s \in Session : token'[s] = "none" => reserved'[s] = {}
    BY <1>1 DEF SpendingInv, TypeOK, StoreTypeOK
<1>6. \A v \in Worker : PcFitsStep(v)'
    BY <1>2, <1>4 DEF SpendingInv, PcFitsStep, At, StepOf
<1>7. \A v \in Worker : Holds(v)' => StepOf(v)' \in reserved'[SessionOf(v)']
    <2> SUFFICES ASSUME NEW v \in Worker, Holds(v)'
                 PROVE  StepOf(v)' \in reserved'[SessionOf(v)']
        OBVIOUS
    <2>1. CASE v = w
        BY <1>1, <1>4, <2>1 DEF Holds, Paid, TypeOK, StoreTypeOK
    <2>2. CASE v # w
        <3>1. Holds(v) /\ SessionOf(v)' = SessionOf(v) /\ StepOf(v)' = StepOf(v)
            BY <1>2, <2>2 DEF Holds, SessionOf, StepOf
        <3>2. SessionOf(v) \in Session
            BY <3>1, RequestType DEF TypeOK, At, Holds, Paid
        <3> QED BY <1>1, <3>1, <3>2 DEF SpendingInv, TypeOK, StoreTypeOK
    <2> QED BY <2>1, <2>2
<1>8. SoleHolder'
    <2>1. \A v \in Worker \ {w} : Holds(v) => ~(SessionOf(v) = s0 /\ StepOf(v) = step0)
        BY DEF SpendingInv
    <2>2. \A v \in Worker \ {w} : /\ Holds(v)' <=> Holds(v)
                                  /\ SessionOf(v)' = SessionOf(v) /\ StepOf(v)' = StepOf(v)
        BY <1>2 DEF Holds, SessionOf, StepOf
    <2>3. Holds(w)' => SessionOf(w)' = s0 /\ StepOf(w)' = step0
        BY <1>4 DEF Holds, Paid
    <2> QED BY <2>1, <2>2, <2>3 DEF SpendingInv, SoleHolder
<1>9. \A v \in Worker : CountsItsCalls(v)'
    <2> SUFFICES ASSUME NEW v \in Worker PROVE CountsItsCalls(v)'
        OBVIOUS
    <2>1. CASE v # w
        BY <1>2, <2>1 DEF SpendingInv, CountsItsCalls, SessionOf, StepOf, At
    <2>2. CASE v = w
        <3>1. titanSent[s0][step0] = 0 /\ novaSent[s0][step0] = 0
            BY <1>1 DEF SpendingInv, ProviderWithinReservation, TypeOK
        <3>2. step0 # "latest_receipt" => 0 < Titan[step0]
            BY <1>1 DEF Titan, Step, Ask
        <3> QED BY <1>4, <2>2, <3>1, <3>2 DEF CountsItsCalls, SessionOf, StepOf, At
    <2> QED BY <2>1, <2>2
<1>10. ProviderWithinReservation'
    <2>1. \A step \in Step : Titan[step] \in Nat /\ Nova[step] \in Nat
        BY DEF Titan, Nova, Step, Ask
    <2> QED BY <1>1, <2>1 DEF SpendingInv, ProviderWithinReservation, TypeOK, StoreTypeOK
<1> QED BY <1>5, <1>6, <1>7, <1>8, <1>9, <1>10 DEF SpendingInv

\* Going on to a pc that no reservation pays for, or on from one paid pc to another.
LEMMA UnpaidGoto ==
    ASSUME TypeOK, SpendingInv, NEW w \in Worker, ~At(w, "idle"), NEW pc, Goto(w, pc),
           \/ pc = "idle"
           \/ pc = "read_latest"
           \/ pc \in {"reserve", "replay_again"} /\ StepOf(w) \in Ask /\ worker[w].embeds = 0
    PROVE  Unpaid(w)
<1>1. worker[w] \in Request
    BY RequestType DEF TypeOK
<1>2. worker'[w] = (IF pc = "idle" THEN Idle ELSE [worker[w] EXCEPT !.pc = pc])
    BY DEF TypeOK, Goto, Resume
<1>3. worker' = [worker EXCEPT ![w] = worker'[w]]
    BY <1>2 DEF Goto, Resume
<1>4. worker'[w].pc = pc
    BY <1>1, <1>2 DEF Idle, Request
<1>5. pc # "idle" => StepOf(w)' = StepOf(w) /\ worker'[w].embeds = worker[w].embeds
    BY <1>1, <1>2 DEF Request, StepOf
<1>6. ~Holds(w)'
    BY <1>4 DEF Holds, Paid
<1>7. PcFitsStep(w)'
    BY <1>4, <1>5 DEF PcFitsStep, At, Ask
<1> QED BY <1>3, <1>6, <1>7 DEF Unpaid

\* A paid worker that goes on without spending, with new contents q.
LEMMA UnpaidResume ==
    ASSUME TypeOK, SpendingInv, NEW w \in Worker, Holds(w), NEW q \in Request, Resume(w, q),
           q.session = SessionOf(w), q.step = StepOf(w), StepOf(w) \in Ask,
           \/ q.pc \in {"finalize", "refinalize"}
           \/ q.pc = "generate" /\ At(w, "retrieve")
    PROVE  Unpaid(w)
<1>1. worker'[w] = q
    BY DEF TypeOK, Resume
<1>2. worker' = [worker EXCEPT ![w] = worker'[w]]
    BY <1>1 DEF Resume
<1>3. SessionOf(w)' = SessionOf(w) /\ StepOf(w)' = StepOf(w)
    BY <1>1 DEF SessionOf, StepOf
<1>4. PcFitsStep(w)'
    BY <1>1, <1>3 DEF PcFitsStep, At
<1> QED BY <1>1, <1>2, <1>3, <1>4 DEF Unpaid, At

LEMMA StoreUnchangedSpending ==
    ASSUME UNCHANGED storeVars
    PROVE  UNCHANGED reserved /\ UNCHANGED token
BY DEF storeVars

LEMMA StartSessionSpending ==
    ASSUME TypeOK, SpendingInv, NEW w \in Worker, StartSession(w)
    PROVE  SpendingInv'
<1> DEFINE s == SessionOf(w)
           outcome == StartSessionOutcome(s)
<1>1. ~At(w, "idle") /\ StepOf(w) = "start" /\ worker[w].embeds = 0 /\ ~Holds(w)
    BY DEF StartSession, At, SpendingInv, PcFitsStep, Holds, Paid
<1>2. s \in Session
    BY <1>1, RequestType DEF TypeOK
<1>3. PICK reply \in Reply(outcome) :
        /\ IF Writes(reply, outcome) THEN StartSessionEffect(s) ELSE UNCHANGED storeVars
        /\ Goto(w, IF reply.seen = "succeeded" THEN "embed" ELSE "idle")
    BY DEF StartSession
<1>4. UNCHANGED <<titanSent, novaSent>>
    BY DEF StartSession, observed
<1>5. CASE Writes(reply, outcome)
    <2>1. token[s] = "none"
        BY <1>5 DEF Writes, StartSessionOutcome
    <2>2. "start" \notin reserved[s]
        BY <1>2, <2>1 DEF SpendingInv
    <2>3. /\ reserved' = [reserved EXCEPT ![s] = @ \union {"start"}]
          /\ token' = [token EXCEPT ![s] = "live"]
        BY <1>3, <1>5 DEF StartSessionEffect
    <2>4. \A x \in Session : token'[x] = "none" => token[x] = "none" /\ x # s
        BY <1>2, <2>3 DEF TypeOK, StoreTypeOK
    <2> QED BY <1>1, <1>3, <1>4, <2>2, <2>3, <2>4, GrantedStep
<1>6. CASE ~Writes(reply, outcome)
    <2>1. reply.seen # "succeeded"
        BY <1>6 DEF Reply, Writes
    <2>2. Unpaid(w)
        BY <1>1, <1>3, <2>1, UnpaidGoto
    <2> QED BY <1>3, <1>4, <1>6, <2>2, UnpaidStep, StoreUnchangedSpending
<1> QED BY <1>5, <1>6

LEMMA ReserveSpending ==
    ASSUME TypeOK, SpendingInv, NEW w \in Worker, Reserve(w)
    PROVE  SpendingInv'
<1> DEFINE s == SessionOf(w)
           step == StepOf(w)
           outcome == ReserveOperationOutcome(s, step)
<1>1. ~At(w, "idle") /\ step # "start" /\ worker[w].embeds = 0 /\ ~Holds(w)
    BY DEF Reserve, At, SpendingInv, PcFitsStep, Holds, Paid
<1>2. s \in Session /\ step \in Step
    BY <1>1, RequestType DEF TypeOK
<1>3. PICK reply \in Reply(outcome) :
        /\ IF Writes(reply, outcome) THEN ReserveOperationEffect(s, step)
                                     ELSE UNCHANGED storeVars
        /\ Goto(w, AfterReserve(step, reply.seen))
    BY DEF Reserve
<1>4. UNCHANGED <<titanSent, novaSent>>
    BY DEF Reserve, observed
<1>5. CASE Writes(reply, outcome)
    <2>1. token[s] = "live" /\ step \notin reserved[s]
        BY <1>5 DEF Writes, ReserveOperationOutcome, Authenticated
    <2>2. reserved' = [reserved EXCEPT ![s] = @ \union {step}] /\ token' = token
        BY <1>3, <1>5 DEF ReserveOperationEffect
    <2>3. \A x \in Session : token'[x] = "none" => token[x] = "none" /\ x # s
        BY <2>1, <2>2
    <2>4. /\ AfterReserve(step, reply.seen) \in {"idle", "embed", "read_latest"}
          /\ AfterReserve(step, reply.seen) = "embed" => step # "latest_receipt"
        BY <1>5 DEF AfterReserve, Reply, Writes
    <2> HIDE DEF s, step, outcome
    <2> QED BY <1>1, <1>3, <1>4, <2>1, <2>2, <2>3, <2>4, GrantedStep DEF s, step
<1>6. CASE ~Writes(reply, outcome)
    <2>1. reply.seen # "succeeded"
        BY <1>6 DEF Reply, Writes
    <2>2. \/ AfterReserve(step, reply.seen) = "idle"
          \/ AfterReserve(step, reply.seen) = "read_latest"
          \/ AfterReserve(step, reply.seen) = "replay_again" /\ step \in Ask
        BY <1>2, <2>1 DEF AfterReserve
    <2>3. Unpaid(w)
        BY <1>1, <1>3, <2>2, UnpaidGoto
    <2> QED BY <1>3, <1>4, <1>6, <2>3, UnpaidStep, StoreUnchangedSpending
<1> QED BY <1>5, <1>6

LEMMA EmbedSpending ==
    ASSUME TypeOK, SpendingInv, NEW w \in Worker, Embed(w)
    PROVE  SpendingInv'
<1> DEFINE s == SessionOf(w)
           step == StepOf(w)
           n == worker[w].embeds + 1
<1>1. ~At(w, "idle") /\ Holds(w)
    BY DEF Embed, At, Holds, Paid
<1>2. worker[w] \in Request /\ s \in Session /\ step \in Step /\ worker[w].embeds \in Nat
    BY <1>1, RequestType DEF TypeOK, Request
<1>3. /\ titanSent' = [titanSent EXCEPT ![s][step] = @ + 1]
      /\ UNCHANGED <<reserved, token, novaSent>>
    BY DEF Embed, storeVars
<1>4. step \in reserved[s] /\ titanSent[s][step] = worker[w].embeds /\ novaSent[s][step] = 0
    BY <1>1 DEF SpendingInv, CountsItsCalls, Embed, At
<1>5. worker[w].embeds < Titan[step]
    BY DEF SpendingInv, CountsItsCalls, Embed, At
<1>6. \A v \in Worker \ {w} : worker'[v] = worker[v]
    BY DEF TypeOK, Embed, Goto, Resume
<1>7. \/ worker'[w] = Idle
      \/ worker'[w] = [worker[w] EXCEPT
                !.embeds = n, !.pc = IF n = Titan[step] THEN AfterEmbed(step) ELSE "embed"]
    BY DEF TypeOK, Embed, Goto, Resume
<1> DEFINE next == IF n = Titan[step] THEN AfterEmbed(step) ELSE "embed"
<1>a. next \in Paid /\ "idle" \notin Paid
    BY DEF AfterEmbed, Paid
<1>8. Holds(w)' => /\ SessionOf(w)' = s /\ StepOf(w)' = step
                   /\ worker'[w].embeds = n
                   /\ worker'[w].pc = next
    <2>1. CASE worker'[w] = Idle
        BY <1>a, <2>1 DEF Holds, Idle
    <2>2. CASE worker'[w] = [worker[w] EXCEPT !.embeds = n, !.pc = next]
        <3> HIDE DEF next
        <3> QED BY <1>2, <2>2 DEF Request, SessionOf, StepOf
    <2> QED BY <1>7, <2>1, <2>2
<1>9. ~Holds(w)' => worker'[w].pc = "idle"
    <2>1. CASE worker'[w] = Idle
        BY <2>1 DEF Idle
    <2>2. CASE worker'[w] = [worker[w] EXCEPT !.embeds = n, !.pc = next]
        <3> HIDE DEF next
        <3> QED BY <1>2, <1>a, <2>2 DEF Request, Holds
    <2> QED BY <1>7, <2>1, <2>2
<1>10. \A v \in Worker : PcFitsStep(v)'
    <2>1. PcFitsStep(w)'
        BY <1>2, <1>5, <1>8, <1>9 DEF PcFitsStep, AfterEmbed, At, Titan, Step, Holds, Paid
    <2> QED BY <1>6, <2>1 DEF SpendingInv, PcFitsStep, At, StepOf
<1>11. \A v \in Worker : Holds(v)' =>
        /\ Holds(v) /\ SessionOf(v)' = SessionOf(v) /\ StepOf(v)' = StepOf(v)
    BY <1>1, <1>6, <1>8 DEF Holds, SessionOf, StepOf
<1>12. \A v \in Worker : Holds(v)' => StepOf(v)' \in reserved'[SessionOf(v)']
    BY <1>3, <1>11 DEF SpendingInv
<1>13. SoleHolder'
    BY <1>11 DEF SpendingInv, SoleHolder
<1>14. \A v \in Worker : CountsItsCalls(v)'
    <2> SUFFICES ASSUME NEW v \in Worker PROVE CountsItsCalls(v)'
        OBVIOUS
    <2>1. CASE v = w
        <3>1. titanSent'[s][step] = n /\ novaSent'[s][step] = 0
            BY <1>2, <1>3, <1>4 DEF TypeOK
        <3>2. n # Titan[step] => n < Titan[step]
            BY <1>2, <1>5 DEF Titan, Step, Ask
        <3>3. AfterEmbed(step) # "embed"
            BY DEF AfterEmbed
        <3> HIDE DEF n, s, step
        <3> QED BY <1>8, <1>9, <2>1, <3>1, <3>2, <3>3
                DEF CountsItsCalls, At, Holds, Paid
    <2>2. CASE v # w
        <3>1. CASE ~Holds(v)
            BY <1>6, <2>2, <3>1 DEF CountsItsCalls, At, Holds, Paid
        <3>2. CASE Holds(v)
            <4>1. ~(SessionOf(v) = s /\ StepOf(v) = step)
                BY <1>1, <2>2, <3>2 DEF SpendingInv, SoleHolder
            <4>2. SessionOf(v) \in Session /\ StepOf(v) \in Step
                BY <3>2, RequestType DEF TypeOK, At, Holds, Paid
            <4>3. titanSent'[SessionOf(v)][StepOf(v)] = titanSent[SessionOf(v)][StepOf(v)]
                BY <1>2, <1>3, <4>1, <4>2 DEF TypeOK
            <4> QED BY <1>3, <1>6, <2>2, <4>3
                    DEF SpendingInv, CountsItsCalls, SessionOf, StepOf, At
        <3> QED BY <3>1, <3>2
    <2> QED BY <2>1, <2>2
<1>15. ProviderWithinReservation'
    <2>1. n =< Titan[step]
        BY <1>2, <1>5 DEF Titan, Step, Ask
    <2> QED BY <1>2, <1>3, <1>4, <2>1 DEF SpendingInv, ProviderWithinReservation, TypeOK
<1> QED BY <1>3, <1>10, <1>12, <1>13, <1>14, <1>15 DEF SpendingInv

LEMMA GenerateSpending ==
    ASSUME TypeOK, SpendingInv, NEW w \in Worker, Generate(w)
    PROVE  SpendingInv'
<1> DEFINE s == SessionOf(w)
           step == StepOf(w)
<1>1. ~At(w, "idle") /\ Holds(w) /\ step \in Ask
    BY DEF Generate, At, Holds, Paid, SpendingInv, PcFitsStep
<1>2. worker[w] \in Request /\ s \in Session /\ step \in Step
    BY <1>1, RequestType DEF TypeOK
<1>3. /\ novaSent' = [novaSent EXCEPT ![s][step] = @ + 1]
      /\ UNCHANGED <<reserved, token, titanSent>>
    BY DEF Generate, storeVars
<1>4. step \in reserved[s] /\ novaSent[s][step] = 0
    BY <1>1 DEF SpendingInv, CountsItsCalls, Generate, At
<1>5. \A v \in Worker \ {w} : worker'[v] = worker[v]
    BY DEF TypeOK, Generate, Goto, Resume
<1>6. \/ worker'[w] = Idle
      \/ worker'[w] = [worker[w] EXCEPT !.answer = novaSent'[s][step], !.pc = "finalize"]
    BY DEF TypeOK, Generate, Goto, Resume
<1>7. /\ worker'[w].pc \in {"idle", "finalize"}
      /\ Holds(w)' => SessionOf(w)' = s /\ StepOf(w)' = step
    <2>1. CASE worker'[w] = Idle
        BY <2>1 DEF Holds, Paid, Idle
    <2>2. CASE worker'[w] # Idle
        BY <1>2, <1>6, <2>2 DEF Request, SessionOf, StepOf
    <2> QED BY <2>1, <2>2
<1>8. \A v \in Worker : PcFitsStep(v)'
    <2>1. PcFitsStep(w)'
        BY <1>1, <1>7 DEF PcFitsStep, At, Holds, Paid
    <2> QED BY <1>5, <2>1 DEF SpendingInv, PcFitsStep, At, StepOf
<1>9. \A v \in Worker : Holds(v)' =>
        /\ Holds(v) /\ SessionOf(v)' = SessionOf(v) /\ StepOf(v)' = StepOf(v)
    BY <1>1, <1>5, <1>7 DEF Holds, SessionOf, StepOf
<1>10. \A v \in Worker : Holds(v)' => StepOf(v)' \in reserved'[SessionOf(v)']
    BY <1>3, <1>9 DEF SpendingInv
<1>11. SoleHolder'
    BY <1>9 DEF SpendingInv, SoleHolder
<1>12. \A v \in Worker : CountsItsCalls(v)'
    <2> SUFFICES ASSUME NEW v \in Worker PROVE CountsItsCalls(v)'
        OBVIOUS
    <2>1. CASE v = w
        BY <1>7, <2>1 DEF CountsItsCalls, At
    <2>2. CASE v # w
        <3>1. CASE ~Holds(v)
            BY <1>5, <2>2, <3>1 DEF CountsItsCalls, At, Holds, Paid
        <3>2. CASE Holds(v)
            <4>1. ~(SessionOf(v) = s /\ StepOf(v) = step)
                BY <1>1, <2>2, <3>2 DEF SpendingInv, SoleHolder
            <4>2. SessionOf(v) \in Session /\ StepOf(v) \in Step
                BY <3>2, RequestType DEF TypeOK, At, Holds, Paid
            <4>3. novaSent'[SessionOf(v)][StepOf(v)] = novaSent[SessionOf(v)][StepOf(v)]
                BY <1>2, <1>3, <4>1, <4>2 DEF TypeOK
            <4> QED BY <1>3, <1>5, <2>2, <4>3
                    DEF SpendingInv, CountsItsCalls, SessionOf, StepOf, At
        <3> QED BY <3>1, <3>2
    <2> QED BY <2>1, <2>2
<1>13. ProviderWithinReservation'
    <2>1. Nova[step] = 1
        BY <1>1 DEF Nova, Ask
    <2> QED BY <1>2, <1>3, <1>4, <2>1 DEF SpendingInv, ProviderWithinReservation, TypeOK
<1> QED BY <1>3, <1>8, <1>10, <1>11, <1>12, <1>13 DEF SpendingInv

\* Steps that end the worker's run without spending.
LEMMA EndingStepsSpending ==
    ASSUME TypeOK, SpendingInv, NEW w \in Worker,
           Refused(w) \/ StoreInitialFacts(w) \/ Correct(w) \/ LatestReceipt(w) \/ Kill(w)
    PROVE  SpendingInv'
<1>1. ~At(w, "idle") /\ Goto(w, "idle")
    BY DEF Refused, StoreInitialFacts, Correct, LatestReceipt, Kill, At
<1>2. UNCHANGED <<reserved, token, titanSent, novaSent>>
    BY DEF Refused, StoreInitialFacts, Correct, LatestReceipt, Kill, observed, storeVars,
           StoreInitialFactsEffect, CorrectEffect
<1>3. Unpaid(w)
    BY <1>1, UnpaidGoto
<1> QED BY <1>2, <1>3, UnpaidStep

LEMMA ReplayAnswerSpending ==
    ASSUME TypeOK, SpendingInv, NEW w \in Worker, ReplayAnswer(w)
    PROVE  SpendingInv'
<1>1. ~At(w, "idle") /\ StepOf(w) \in Ask
    BY DEF ReplayAnswer, At, SpendingInv, PcFitsStep
<1>2. \/ Goto(w, "idle")
      \/ Goto(w, "reserve") /\ At(w, "replay")
    BY DEF ReplayAnswer
<1>3. Unpaid(w)
    <2>1. At(w, "replay") => worker[w].embeds = 0
        BY DEF SpendingInv, PcFitsStep, At
    <2> QED BY <1>1, <1>2, <2>1, UnpaidGoto
<1>4. UNCHANGED <<reserved, token, titanSent, novaSent>>
    BY DEF ReplayAnswer, storeVars
<1> QED BY <1>3, <1>4, UnpaidStep

LEMMA RetrieveSnapshotSpending ==
    ASSUME TypeOK, SpendingInv, NEW w \in Worker, RetrieveSnapshot(w)
    PROVE  SpendingInv'
<1> DEFINE q == [worker[w] EXCEPT !.recalled = ActivePublic(SessionOf(w)),
                                  !.withheld = ActiveRestricted(SessionOf(w)),
                                  !.pc = "generate"]
<1>1. ~At(w, "idle") /\ StepOf(w) \in Ask /\ Holds(w) /\ At(w, "retrieve")
    BY DEF RetrieveSnapshot, At, SpendingInv, PcFitsStep, Holds, Paid
<1>2. worker[w] \in Request /\ SessionOf(w) \in Session
    BY <1>1, RequestType DEF TypeOK
<1>3. /\ ActivePublic(SessionOf(w)) \in SUBSET Revision
      /\ ActiveRestricted(SessionOf(w)) \in SUBSET Revision
    BY <1>2 DEF TypeOK, StoreTypeOK, ActivePublic, ActiveRestricted
<1>4. /\ q \in Request /\ q.session = SessionOf(w) /\ q.step = StepOf(w)
      /\ q.pc = "generate"
    BY <1>2, <1>3 DEF Request, Pc, SessionOf, StepOf
<1>5. Resume(w, q) \/ Goto(w, "idle")
    BY DEF RetrieveSnapshot
<1>6. Unpaid(w)
    BY <1>1, <1>4, <1>5, UnpaidGoto, UnpaidResume
<1>7. UNCHANGED <<reserved, token, titanSent, novaSent>>
    BY DEF RetrieveSnapshot, storeVars, observed
<1> QED BY <1>6, <1>7, UnpaidStep

LEMMA FinalizeSpending ==
    ASSUME TypeOK, SpendingInv, NEW w \in Worker, BeginFinalize(w) \/ FinalizeAnswer(w)
    PROVE  SpendingInv'
<1>1. ~At(w, "idle") /\ StepOf(w) \in Ask /\ Holds(w)
    BY DEF BeginFinalize, FinalizeAnswer, At, SpendingInv, PcFitsStep, Holds, Paid
<1>2. worker[w] \in Request /\ SessionOf(w) \in Session
    BY <1>1, RequestType DEF TypeOK
<1>3. UNCHANGED <<reserved, token, titanSent, novaSent>>
    BY DEF BeginFinalize, FinalizeAnswer, FinalizeEffect, storeVars, observed
<1>4. CASE BeginFinalize(w)
    <2> DEFINE q == [worker[w] EXCEPT !.begun = clock'[SessionOf(w)]]
    <2>1. clock'[SessionOf(w)] \in Nat
        BY <1>2, <1>4 DEF BeginFinalize, TypeOK, StoreTypeOK
    <2>2. /\ q \in Request /\ q.session = SessionOf(w) /\ q.step = StepOf(w)
          /\ q.pc \in {"finalize", "refinalize"}
        BY <1>2, <1>4, <2>1 DEF Request, SessionOf, StepOf, BeginFinalize
    <2>3. Resume(w, q)
        BY <1>4 DEF BeginFinalize, Resume
    <2> QED BY <1>1, <1>3, <2>2, <2>3, UnpaidResume, UnpaidStep
<1>5. CASE FinalizeAnswer(w)
    <2> DEFINE q == [worker[w] EXCEPT !.pc = "refinalize", !.begun = 0]
    <2>1. /\ q \in Request /\ q.session = SessionOf(w) /\ q.step = StepOf(w)
          /\ q.pc = "refinalize"
        BY <1>2 DEF Request, Pc, SessionOf, StepOf
    <2>2. Resume(w, q) \/ Goto(w, "idle")
        BY <1>5 DEF FinalizeAnswer
    <2>3. Unpaid(w)
        BY <1>1, <2>1, <2>2, UnpaidGoto, UnpaidResume
    <2> QED BY <1>3, <2>3, UnpaidStep
<1> QED BY <1>4, <1>5

LEMMA ArriveSpending ==
    ASSUME TypeOK, SpendingInv, NEW w \in Worker, NEW s \in Session, NEW step \in Step,
           Arrive(w, s, step)
    PROVE  SpendingInv' /\ TypeOK'
<1> DEFINE q == [pc |-> FirstPc(step), session |-> s, step |-> step, embeds |-> 0,
                 recalled |-> {}, withheld |-> {}, answer |-> 0, begun |-> 0]
<1>1. worker' = [worker EXCEPT ![w] = q] /\ worker'[w] = q
    BY DEF Arrive, TypeOK
<1>2. /\ FirstPc(step) \in {"start_session", "replay", "reserve"}
      /\ FirstPc(step) = "start_session" => step = "start"
      /\ FirstPc(step) = "replay" => step \in Ask
      /\ FirstPc(step) = "reserve" => step # "start"
    BY DEF FirstPc, Step, Ask
<1>3. q \in Request
    BY <1>2 DEF Request, Pc
<1>4. Unpaid(w)
    <2>1. worker' = [worker EXCEPT ![w] = worker'[w]]
        BY <1>1
    <2>2. worker'[w].pc = FirstPc(step) /\ StepOf(w)' = step /\ worker'[w].embeds = 0
        BY <1>1 DEF StepOf
    <2>3. PcFitsStep(w)' /\ ~Holds(w)'
        BY <1>2, <2>2 DEF PcFitsStep, Holds, Paid, At
    <2> QED BY <2>1, <2>3 DEF Unpaid
<1>5. UNCHANGED <<reserved, token, titanSent, novaSent>>
    BY DEF Arrive, storeVars, observed
<1>6. TypeOK'
    BY <1>1, <1>3, StoreUnchanged DEF Arrive, observed, TypeOK
<1> QED BY <1>4, <1>5, <1>6, UnpaidStep

\* Steps of the store: workers and history stay, and no token is un-issued.
LEMMA StoreSteps ==
    ASSUME TypeOK, SpendingInv, Operator \/ \E s \in Session : TokenExpiry(s)
    PROVE  SpendingInv' /\ TypeOK'
<1>1. UNCHANGED <<reserved, worker, titanSent, novaSent, answers>>
    BY DEF Operator, TokenExpiry, EnableProvider, DisableProvider, Expire, observed
<1>2. \A s \in Session : token'[s] = "none" => token[s] = "none"
    BY DEF Operator, TokenExpiry, EnableProvider, DisableProvider, Expire, TypeOK, StoreTypeOK
<1>3. StoreTypeOK'
    <2>1. "start" \in Step
        BY DEF Step
    <2>2. CASE Operator
        BY <2>2 DEF Operator, EnableProvider, DisableProvider, TypeOK, StoreTypeOK
    <2>3. CASE \E s \in Session : TokenExpiry(s)
        BY <2>1, <2>3, StoreEffectTypes DEF TokenExpiry, TypeOK
    <2> QED BY <2>2, <2>3
<1>4. \A w \in Worker : /\ PcFitsStep(w)' <=> PcFitsStep(w)
                        /\ Holds(w)' <=> Holds(w)
                        /\ CountsItsCalls(w)' <=> CountsItsCalls(w)
                        /\ SessionOf(w)' = SessionOf(w) /\ StepOf(w)' = StepOf(w)
    BY <1>1 DEF PcFitsStep, Holds, CountsItsCalls, SessionOf, StepOf, At
<1>5. SoleHolder' /\ ProviderWithinReservation'
    BY <1>1, <1>4 DEF SpendingInv, SoleHolder, ProviderWithinReservation
<1> QED BY <1>1, <1>2, <1>3, <1>4, <1>5 DEF SpendingInv, TypeOK

LEMMA InitInv == Init => TypeOK /\ SpendingInv
<1> SUFFICES ASSUME Init PROVE TypeOK /\ SpendingInv
    OBVIOUS
<1>1. NoReceipt \in Receipt
    BY DEF NoReceipt, Receipt
<1>2. TypeOK
    BY <1>1 DEF Init, StoreInit, TypeOK, StoreTypeOK
<1>3. \A w \in Worker : worker[w].pc = "idle"
    BY DEF Init, Idle
<1>4. \A w \in Worker : PcFitsStep(w) /\ ~Holds(w) /\ CountsItsCalls(w)
    BY <1>3 DEF PcFitsStep, Holds, Paid, CountsItsCalls, At
<1>5. ProviderWithinReservation
    BY DEF Init, StoreInit, ProviderWithinReservation
<1>6. SpendingInv
    BY <1>4, <1>5 DEF SpendingInv, SoleHolder, Init, StoreInit
<1> QED BY <1>2, <1>6

LEMMA NextInv == TypeOK /\ SpendingInv /\ [Next]_vars => TypeOK' /\ SpendingInv'
<1> SUFFICES ASSUME TypeOK, SpendingInv, [Next]_vars PROVE TypeOK' /\ SpendingInv'
    OBVIOUS
<1>1. CASE UNCHANGED vars
    <2>1. StoreTypeOK'
        BY <1>1, StoreUnchanged DEF vars, TypeOK
    <2>2. UNCHANGED <<token, reserved, worker, titanSent, novaSent, answers>>
        BY <1>1 DEF vars, storeVars, observed
    <2>3. \A w \in Worker : /\ PcFitsStep(w)' <=> PcFitsStep(w)
                            /\ Holds(w)' <=> Holds(w)
                            /\ CountsItsCalls(w)' <=> CountsItsCalls(w)
                            /\ SessionOf(w)' = SessionOf(w) /\ StepOf(w)' = StepOf(w)
        BY <2>2 DEF PcFitsStep, Holds, CountsItsCalls, SessionOf, StepOf, At
    <2>4. SoleHolder' /\ ProviderWithinReservation'
        BY <2>2, <2>3 DEF SpendingInv, SoleHolder, ProviderWithinReservation
    <2> QED BY <2>1, <2>2, <2>3, <2>4 DEF SpendingInv, TypeOK
<1>2. ASSUME NEW w \in Worker, WorkerStep(w) PROVE TypeOK' /\ SpendingInv'
    <2>1. PcFitsStep(w)
        BY DEF SpendingInv
    <2>2. CASE StartSession(w)
        BY <2>2, StartSessionType, StartSessionSpending
    <2>3. CASE Reserve(w)
        BY <2>3, ReserveType, ReserveSpending
    <2>4. CASE Embed(w)
        BY <2>4, ProviderType, EmbedSpending
    <2>5. CASE Generate(w)
        BY <2>5, ProviderType, GenerateSpending
    <2>6. CASE Refused(w)
        BY <2>6, ProviderType, EndingStepsSpending
    <2>7. CASE StoreInitialFacts(w) \/ Correct(w)
        BY <2>7, EffectStepType, EndingStepsSpending
    <2>8. CASE ReplayAnswer(w)
        BY <2>1, <2>8, ReplayAnswerType, ReplayAnswerSpending
    <2>9. CASE RetrieveSnapshot(w)
        BY <2>9, RetrieveSnapshotType, RetrieveSnapshotSpending
    <2>10. CASE BeginFinalize(w)
        BY <2>10, BeginFinalizeType, FinalizeSpending
    <2>11. CASE FinalizeAnswer(w)
        BY <2>1, <2>11, FinalizeAnswerType, FinalizeSpending
    <2>12. CASE LatestReceipt(w)
        BY <2>12, LatestReceiptType, EndingStepsSpending
    <2> QED BY <1>2, <2>2, <2>3, <2>4, <2>5, <2>6, <2>7, <2>8, <2>9, <2>10, <2>11, <2>12
            DEF WorkerStep
<1>3. ASSUME NEW w \in Worker, Kill(w) PROVE TypeOK' /\ SpendingInv'
    <2>1. TypeOK'
        BY <1>3, RequestType, StoreUnchanged DEF Kill, observed, TypeOK
    <2> QED BY <1>3, <2>1, EndingStepsSpending
<1> QED BY <1>1, <1>2, <1>3, ArriveSpending, StoreSteps DEF Next

\* Every state of every behaviour is well typed.
THEOREM TypeCorrect == Spec => []TypeOK
<1>1. TypeOK /\ SpendingInv => TypeOK
    OBVIOUS
<1> QED BY <1>1, InitInv, NextInv, PTL DEF Spec

\* Whatever the interleaving of requests, kills and lost acknowledgements, no step of any
\* session sends more to Bedrock than its reservation paid for.
THEOREM SpendingSafe == Spec => []ProviderWithinReservation
<1>1. TypeOK /\ SpendingInv => ProviderWithinReservation
    BY DEF SpendingInv
<1> QED BY <1>1, InitInv, NextInv, PTL DEF Spec

---------------------------------------------------------------------------
(* The caps.  Session may be infinite: that the live ones are finitely     *)
(* many is part of the invariant.                                          *)

CapsInv == WithinCaps /\ IsFiniteSet(LiveSessions)

LEMMA CapsKept ==
    ASSUME CapsInv, UNCHANGED <<token, used>>
    PROVE  CapsInv'
BY DEF CapsInv, WithinCaps, LiveSessions

LEMMA StartSessionCaps ==
    ASSUME TypeOK, CapsInv, NEW s \in Session, StartSessionOutcome(s) = "succeeded",
           StartSessionEffect(s)
    PROVE  CapsInv'
<1>1. Cardinality(LiveSessions) < SessionCap /\ Headroom("start")
    BY DEF StartSessionOutcome
<1>2. used'.titan =< TitanCap /\ used'.nova =< NovaCap
    BY <1>1 DEF StartSessionEffect, Charge, Headroom
<1>3. LiveSessions' = LiveSessions \union {s}
    BY DEF StartSessionEffect, LiveSessions, TypeOK, StoreTypeOK
<1>4. /\ IsFiniteSet(LiveSessions')
      /\ Cardinality(LiveSessions') =< Cardinality(LiveSessions) + 1
      /\ Cardinality(LiveSessions) \in Nat
    <2>1. Cardinality(LiveSessions) \in Nat
        BY FS_CardinalityType DEF CapsInv
    <2>2. /\ IsFiniteSet(LiveSessions')
          /\ \/ Cardinality(LiveSessions') = Cardinality(LiveSessions)
             \/ Cardinality(LiveSessions') = Cardinality(LiveSessions) + 1
        <3>1. IsFiniteSet(LiveSessions)
            BY DEF CapsInv
        <3>2. /\ IsFiniteSet(LiveSessions \union {s})
              /\ Cardinality(LiveSessions \union {s}) =
                    IF s \in LiveSessions THEN Cardinality(LiveSessions)
                                         ELSE Cardinality(LiveSessions) + 1
            BY ONLY <3>1, FS_AddElement
        <3> QED BY <1>3, <3>2
    <2> QED BY <2>1, <2>2
<1>5. Cardinality(LiveSessions') =< SessionCap
    BY <1>1, <1>4, FS_CardinalityType, CapAssumption
<1> QED BY <1>2, <1>4, <1>5 DEF CapsInv, WithinCaps

LEMMA ReserveCaps ==
    ASSUME CapsInv, NEW s, NEW step, ReserveOperationOutcome(s, step) = "succeeded",
           ReserveOperationEffect(s, step)
    PROVE  CapsInv'
<1>1. Headroom(step)
    BY DEF ReserveOperationOutcome
<1>2. used'.titan =< TitanCap /\ used'.nova =< NovaCap /\ UNCHANGED token
    BY <1>1 DEF ReserveOperationEffect, Charge, Headroom
<1> QED BY <1>2 DEF CapsInv, WithinCaps, LiveSessions

LEMMA ExpireCaps ==
    ASSUME TypeOK, CapsInv, NEW s \in Session, Expire(s)
    PROVE  CapsInv'
<1>1. LiveSessions' \in SUBSET LiveSessions /\ UNCHANGED used
    BY DEF Expire, LiveSessions, TypeOK, StoreTypeOK
<1>2. IsFiniteSet(LiveSessions') /\ Cardinality(LiveSessions') =< Cardinality(LiveSessions)
    BY <1>1, FS_Subset DEF CapsInv
<1>3. Cardinality(LiveSessions') =< SessionCap
    BY <1>2, FS_CardinalityType, CapAssumption DEF CapsInv, WithinCaps
<1> QED BY <1>1, <1>2, <1>3 DEF CapsInv, WithinCaps

LEMMA InitCaps == Init => CapsInv
<1> SUFFICES ASSUME Init PROVE CapsInv
    OBVIOUS
<1>1. LiveSessions = {} /\ used.titan = 0 /\ used.nova = 0
    BY DEF Init, StoreInit, LiveSessions
<1> QED BY <1>1, FS_EmptySet, CapAssumption DEF CapsInv, WithinCaps

LEMMA NextCaps == TypeOK /\ SpendingInv /\ CapsInv /\ [Next]_vars => CapsInv'
<1> SUFFICES ASSUME TypeOK, SpendingInv, CapsInv, [Next]_vars PROVE CapsInv'
    OBVIOUS
<1>1. ASSUME NEW w \in Worker, StartSession(w) PROVE CapsInv'
    <2>1. SessionOf(w) \in Session
        BY <1>1, RequestType DEF StartSession, At, TypeOK
    <2>2. \/ UNCHANGED storeVars
          \/ StartSessionOutcome(SessionOf(w)) = "succeeded" /\ StartSessionEffect(SessionOf(w))
        BY <1>1 DEF StartSession, Writes
    <2> QED BY <2>1, <2>2, StartSessionCaps, CapsKept DEF storeVars
<1>2. ASSUME NEW w \in Worker, Reserve(w) PROVE CapsInv'
    <2>1. \/ UNCHANGED storeVars
          \/ /\ ReserveOperationOutcome(SessionOf(w), StepOf(w)) = "succeeded"
             /\ ReserveOperationEffect(SessionOf(w), StepOf(w))
        BY <1>2 DEF Reserve, Writes
    <2> QED BY <2>1, ReserveCaps, CapsKept DEF storeVars
<1>3. ASSUME NEW w \in Worker, WorkerStep(w), ~StartSession(w), ~Reserve(w)
      PROVE  UNCHANGED <<token, used>>
    BY <1>3 DEF WorkerStep, Embed, Generate, Refused, StoreInitialFacts, Correct, ReplayAnswer,
                RetrieveSnapshot, BeginFinalize, FinalizeAnswer, LatestReceipt, storeVars,
                StoreInitialFactsEffect, CorrectEffect, FinalizeEffect
<1>4. ASSUME \/ \E w \in Worker, s \in Session, step \in Step : Arrive(w, s, step)
             \/ \E w \in Worker : Kill(w)
             \/ Operator
             \/ UNCHANGED vars
      PROVE  UNCHANGED <<token, used>>
    BY <1>4 DEF Arrive, Kill, Operator, EnableProvider, DisableProvider, storeVars, vars
<1>5. ASSUME NEW s \in Session, TokenExpiry(s) PROVE CapsInv'
    BY <1>5, ExpireCaps DEF TokenExpiry
<1> QED BY <1>1, <1>2, <1>3, <1>4, <1>5, CapsKept DEF Next

\* However many sessions start and reserve side by side, the charges and the live sessions stay
\* within the caps.
THEOREM CapsHold == Spec => []WithinCaps
<1>1. CapsInv => WithinCaps
    BY DEF CapsInv
<1> QED BY <1>1, InitInv, NextInv, InitCaps, NextCaps, PTL DEF Spec
---------------------------------------------------------------------------
(* Sums over a finite set: the community operator is a fold, a recursion   *)
(* on the subsets that takes the elements in an order of its own.  What is *)
(* proved by induction is proved of the set of those numbers, or subsets,  *)
(* of which it is true.                                                    *)

\* The element a fold takes next, and total as what it computes for every subset of S.
Picked(s) == CHOOSE x \in s : TRUE
Adds(f, S, total) ==
  total = [s \in SUBSET S |-> IF s = {} THEN 0 ELSE f[Picked(s)] + total[s \ {Picked(s)}]]

LEMMA SumIs ==
  ASSUME NEW f, NEW S
  PROVE  \E total : total = (CHOOSE t : Adds(f, S, t)) /\ SumFunctionOnSet(f, S) = total[S]
BY DEF SumFunctionOnSet, FoldFunctionOnSet, MapThenFoldSet, Adds, Picked

\* Induction on natural numbers, by the least counterexample.
LEMMA Least ==
  ASSUME NEW T \in SUBSET Nat, 0 \in T, \A n \in T : n + 1 \in T
  PROVE  T = Nat
<1> SUFFICES ASSUME Nat \ T # {} PROVE FALSE
  OBVIOUS
<1>1. \E R : IsWellFoundedOn(R, Nat) /\ \A m, n \in Nat : m < n => <<m, n>> \in R
  <2>1. IsWellFoundedOn(OpToRel(<, Nat), Nat) BY NatLessThanWellFounded
  <2>2. \A m, n \in Nat : m < n => <<m, n>> \in OpToRel(<, Nat) BY DEF OpToRel
  <2> QED BY <2>1, <2>2
<1>2. PICK R : IsWellFoundedOn(R, Nat) /\ \A m, n \in Nat : m < n => <<m, n>> \in R
  BY <1>1
<1>3. PICK n \in Nat \ T : \A m \in Nat \ T : ~(<<m, n>> \in R)
  <2>1. \A U : U \subseteq Nat /\ U # {} => \E x \in U : \A y \in U : ~(<<y, x>> \in R)
    <3> SUFFICES ASSUME NEW U, U \subseteq Nat, U # {}
                 PROVE  \E x \in U : \A y \in U : ~(<<y, x>> \in R)
      OBVIOUS
    <3>1. IsWellFoundedOn(R, Nat) BY <1>2
    <3> QED BY ONLY <3>1, U \subseteq Nat, U # {}, WFMin
  <2> QED BY <2>1
<1>4. n # 0 /\ n - 1 \in Nat /\ n - 1 < n
  OBVIOUS
<1>5. n - 1 \in T
  BY <1>2, <1>3, <1>4
<1> QED BY <1>4, <1>5

\* A step of the fold takes one element away.
LEMMA PickedOne ==
  ASSUME NEW S, IsFiniteSet(S)
  PROVE  \A s \in SUBSET S :
           /\ Cardinality(s) \in Nat /\ Cardinality(s) <= Cardinality(S) /\ Cardinality(S) \in Nat
           /\ s # {} => /\ Picked(s) \in s /\ s \ {Picked(s)} \in SUBSET S
                        /\ Cardinality(s \ {Picked(s)}) = Cardinality(s) - 1
           /\ Cardinality(s) = 0 <=> s = {}
<1> SUFFICES ASSUME NEW s \in SUBSET S
             PROVE  /\ Cardinality(s) \in Nat /\ Cardinality(S) \in Nat
                    /\ Cardinality(s) <= Cardinality(S)
                    /\ s # {} => /\ Picked(s) \in s /\ s \ {Picked(s)} \in SUBSET S
                                 /\ Cardinality(s \ {Picked(s)}) = Cardinality(s) - 1
                    /\ Cardinality(s) = 0 <=> s = {}
  OBVIOUS
<1>1. IsFiniteSet(s) /\ Cardinality(s) <= Cardinality(S)
  BY FS_Subset
<1>2. Cardinality(s) \in Nat /\ Cardinality(S) \in Nat /\ (Cardinality(s) = 0 <=> s = {})
  BY <1>1, FS_CardinalityType, FS_EmptySet
<1>3. s # {} => Picked(s) \in s
  BY DEF Picked
<1>4. s # {} => Cardinality(s \ {Picked(s)}) = Cardinality(s) - 1
  BY <1>1, <1>3, FS_RemoveElement
<1> QED BY <1>1, <1>2, <1>3, <1>4

\* Induction on the subsets of a finite set, along the elements as the fold takes them.
LEMMA FromTheEmptySet ==
  ASSUME NEW S, IsFiniteSet(S), NEW U, {} \in U,
         \A s \in SUBSET S : s # {} /\ s \ {Picked(s)} \in U => s \in U
  PROVE  \A s \in SUBSET S : s \in U
<1> DEFINE Upto(n) == {s \in SUBSET S : Cardinality(s) <= n}
           T == {n \in Nat : Upto(n) \subseteq U}
<1>1. 0 \in T
  <2> SUFFICES ASSUME NEW s \in SUBSET S, Cardinality(s) <= 0 PROVE s \in U
    OBVIOUS
  <2>1. Cardinality(s) \in Nat /\ (Cardinality(s) = 0 <=> s = {}) BY PickedOne
  <2>2. s = {} BY <2>1
  <2> QED BY <2>2
<1>2. \A n \in T : n + 1 \in T
  <2> SUFFICES ASSUME NEW n \in T, NEW s \in SUBSET S, Cardinality(s) <= n + 1 PROVE s \in U
    OBVIOUS
  <2>1. CASE s = {} BY <2>1
  <2>2. CASE s # {}
    <3>1. s \ {Picked(s)} \in SUBSET S /\ Cardinality(s \ {Picked(s)}) <= n
      BY <2>2, PickedOne
    <3> QED BY <2>2, <3>1
  <2> QED BY <2>1, <2>2
<1>3. T = Nat
  <2> HIDE DEF T
  <2>1. T \in SUBSET Nat BY DEF T
  <2> QED BY <1>1, <1>2, <2>1, Least
<1> SUFFICES ASSUME NEW s \in SUBSET S PROVE s \in U
  OBVIOUS
<1>4. Cardinality(s) \in Nat BY PickedOne
<1>5. Cardinality(s) \in T BY <1>3, <1>4
<1> QED BY <1>4, <1>5

\* A fold over a finite set is defined by its equation.
LEMMA SumExists ==
  ASSUME NEW f, NEW S, IsFiniteSet(S)
  PROVE  \E total : Adds(f, S, total)
<1> DEFINE Upto(n) == {s \in SUBSET S : Cardinality(s) <= n}
           Onward(g, s) == f[Picked(s)] + g[s \ {Picked(s)}]
           Part(n, g) == g = [s \in Upto(n) |-> IF s = {} THEN 0 ELSE Onward(g, s)]
           T == {n \in Nat : \E g : Part(n, g)}
<1>1. 0 \in T
  <2>1. ASSUME NEW s \in Upto(0) PROVE s = {}
    <3>1. Cardinality(s) \in Nat /\ (Cardinality(s) = 0 <=> s = {}) BY PickedOne
    <3> QED BY <3>1
  <2>2. Part(0, [s \in Upto(0) |-> 0]) BY <2>1
  <2> QED BY <2>2
<1>2. \A n \in T : n + 1 \in T
  <2> SUFFICES ASSUME NEW n \in T PROVE n + 1 \in T
    OBVIOUS
  <2>1. PICK g : Part(n, g) OBVIOUS
  <2> DEFINE h == [s \in Upto(n + 1) |-> IF s \in Upto(n) THEN g[s] ELSE Onward(g, s)]
  <2>2. ASSUME NEW s \in Upto(n + 1), s # {}
        PROVE  s \ {Picked(s)} \in Upto(n) /\ s \ {Picked(s)} \in Upto(n + 1)
    BY <2>2, PickedOne
  <2>3. ASSUME NEW s \in Upto(n + 1)
        PROVE  h[s] = IF s = {} THEN 0 ELSE Onward(h, s)
    <3>1. CASE s = {}
      <4>1. {} \in Upto(n)
        <5>1. Cardinality({}) = 0 BY PickedOne
        <5> QED BY <5>1
      <4> QED BY <3>1, <4>1, <2>1
    <3>2. CASE s # {}
      <4>1. h[s \ {Picked(s)}] = g[s \ {Picked(s)}] BY <2>2, <3>2
      <4>2. s \in Upto(n) => g[s] = Onward(g, s) BY <2>1, <3>2
      <4> QED BY <3>2, <4>1, <4>2
    <3> QED BY <3>1, <3>2
  <2>4. Part(n + 1, h)
    <3> HIDE DEF Next
    <3>1. h = [s \in Upto(n + 1) |-> h[s]] OBVIOUS
    <3> HIDE DEF h, Upto
    <3> QED BY <2>3, <3>1
  <2>5. \E g1 : Part(n + 1, g1)
    <3> HIDE DEF h, Part
    <3> QED BY <2>4
  <2>6. n + 1 \in Nat OBVIOUS
  <2> HIDE DEF Part
  <2> QED BY <2>5, <2>6
<1>3. T = Nat
  <2> HIDE DEF T
  <2>1. T \in SUBSET Nat BY DEF T
  <2> QED BY <1>1, <1>2, <2>1, Least
<1>4. Cardinality(S) \in Nat /\ Upto(Cardinality(S)) = SUBSET S
  BY PickedOne
<1>5. PICK g : Part(Cardinality(S), g)
  BY <1>3, <1>4
<1>6. Adds(f, S, g)
  BY <1>4, <1>5 DEF Adds
<1> QED BY <1>6

\* The equation of the fold, case by case.
Sums(f, S, total) ==
  /\ total[{}] = 0
  /\ \A s \in SUBSET S : s # {} => total[s] = f[Picked(s)] + total[s \ {Picked(s)}]

LEMMA SumAdds ==
  ASSUME NEW f, NEW S, IsFiniteSet(S)
  PROVE  \E total : Sums(f, S, total) /\ SumFunctionOnSet(f, S) = total[S]
<1>1. PICK total : total = (CHOOSE t : Adds(f, S, t)) /\ SumFunctionOnSet(f, S) = total[S]
  BY SumIs
<1>2. Adds(f, S, total) BY <1>1, SumExists
<1>3. Sums(f, S, total)
  <2>1. {} \in SUBSET S OBVIOUS
  <2> QED BY <1>2, <2>1 DEF Adds, Sums
<1> QED BY <1>1, <1>3

LEMMA SumType ==
  ASSUME NEW S, IsFiniteSet(S), NEW f \in [S -> Nat]
  PROVE  SumFunctionOnSet(f, S) \in Nat
<1>1. PICK t : Sums(f, S, t) /\ SumFunctionOnSet(f, S) = t[S]
  BY SumAdds
<1> DEFINE U == {s \in SUBSET S : t[s] \in Nat}
<1>2. {} \in U BY <1>1 DEF Sums
<1>3. ASSUME NEW s \in SUBSET S, s # {}, s \ {Picked(s)} \in U PROVE s \in U
  <2>1. Picked(s) \in S BY <1>3, PickedOne
  <2> QED BY <1>1, <1>3, <2>1 DEF Sums
<1>4. \A s \in SUBSET S : s \in U
  <2> HIDE DEF U
  <2> QED BY <1>2, <1>3, FromTheEmptySet
<1> QED BY <1>1, <1>4

LEMMA SumMonotone ==
  ASSUME NEW S, IsFiniteSet(S), NEW f \in [S -> Nat], NEW g \in [S -> Nat],
         \A x \in S : f[x] <= g[x]
  PROVE  SumFunctionOnSet(f, S) <= SumFunctionOnSet(g, S)
<1>1. PICK t : Sums(f, S, t) /\ SumFunctionOnSet(f, S) = t[S]
  BY SumAdds
<1>2. PICK u : Sums(g, S, u) /\ SumFunctionOnSet(g, S) = u[S]
  BY SumAdds
<1> DEFINE U == {s \in SUBSET S : t[s] \in Nat /\ u[s] \in Nat /\ t[s] <= u[s]}
<1>3. {} \in U BY <1>1, <1>2 DEF Sums
<1>4. ASSUME NEW s \in SUBSET S, s # {}, s \ {Picked(s)} \in U PROVE s \in U
  <2>1. Picked(s) \in S BY <1>4, PickedOne
  <2>2. /\ t[s] = f[Picked(s)] + t[s \ {Picked(s)}]
        /\ u[s] = g[Picked(s)] + u[s \ {Picked(s)}]
    BY <1>1, <1>2, <1>4 DEF Sums
  <2>3. f[Picked(s)] \in Nat /\ g[Picked(s)] \in Nat /\ f[Picked(s)] <= g[Picked(s)]
    BY <2>1
  <2> QED BY <1>4, <2>2, <2>3
<1>5. \A s \in SUBSET S : s \in U
  <2> HIDE DEF U
  <2> QED BY <1>3, <1>4, FromTheEmptySet
<1> QED BY <1>1, <1>2, <1>5

\* A sum grows by what one of its terms grows by.
LEMMA SumGrows ==
  ASSUME NEW S, IsFiniteSet(S), NEW f \in [S -> Nat], NEW g \in [S -> Nat], NEW x \in S,
         NEW d \in Nat, g[x] = f[x] + d, \A y \in S \ {x} : g[y] = f[y]
  PROVE  SumFunctionOnSet(g, S) = SumFunctionOnSet(f, S) + d
<1>1. PICK t : Sums(f, S, t) /\ SumFunctionOnSet(f, S) = t[S]
  BY SumAdds
<1>2. PICK u : Sums(g, S, u) /\ SumFunctionOnSet(g, S) = u[S]
  BY SumAdds
<1> DEFINE U == {s \in SUBSET S : t[s] \in Nat /\ u[s] = t[s] + (IF x \in s THEN d ELSE 0)}
<1>3. {} \in U BY <1>1, <1>2 DEF Sums
<1>4. ASSUME NEW s \in SUBSET S, s # {}, s \ {Picked(s)} \in U PROVE s \in U
  <2>1. Picked(s) \in s BY <1>4, PickedOne
  <2>2. /\ t[s] = f[Picked(s)] + t[s \ {Picked(s)}]
        /\ u[s] = g[Picked(s)] + u[s \ {Picked(s)}]
    BY <1>1, <1>2, <1>4 DEF Sums
  <2>3. CASE Picked(s) = x
    BY <1>4, <2>1, <2>2, <2>3
  <2>4. CASE Picked(s) # x
    <3>1. x \in s <=> x \in s \ {Picked(s)} BY <2>4
    <3>2. g[Picked(s)] = f[Picked(s)] /\ f[Picked(s)] \in Nat BY <2>1, <2>4
    <3> QED BY <1>4, <2>2, <3>1, <3>2
  <2> QED BY <2>3, <2>4
<1>5. \A s \in SUBSET S : s \in U
  <2> HIDE DEF U
  <2> QED BY <1>3, <1>4, FromTheEmptySet
<1> QED BY <1>1, <1>2, <1>5

LEMMA SumOfZeros ==
  ASSUME NEW S, IsFiniteSet(S), NEW f, \A x \in S : f[x] = 0
  PROVE  SumFunctionOnSet(f, S) = 0
<1>1. PICK t : Sums(f, S, t) /\ SumFunctionOnSet(f, S) = t[S]
  BY SumAdds
<1> DEFINE U == {s \in SUBSET S : t[s] = 0}
<1>2. {} \in U BY <1>1 DEF Sums
<1>3. ASSUME NEW s \in SUBSET S, s # {}, s \ {Picked(s)} \in U PROVE s \in U
  <2>1. Picked(s) \in S BY <1>3, PickedOne
  <2> QED BY <1>1, <1>3, <2>1 DEF Sums
<1>4. \A s \in SUBSET S : s \in U
  <2> HIDE DEF U
  <2> QED BY <1>2, <1>3, FromTheEmptySet
<1> QED BY <1>1, <1>4

---------------------------------------------------------------------------
(* What is sent over all sessions together.                                *)

\* What each step of each session was charged.
TitanCharges == [p \in SessionSteps |-> IF p[2] \in reserved[p[1]] THEN Titan[p[2]] ELSE 0]
NovaCharges == [p \in SessionSteps |-> IF p[2] \in reserved[p[1]] THEN Nova[p[2]] ELSE 0]

\* The usage is the sum of the charges of the reservations there are.
ChargedInv == used.titan = Total(TitanCharges) /\ used.nova = Total(NovaCharges)

LEMMA ChargeTypes ==
  /\ TitanCharges \in [SessionSteps -> Nat] /\ NovaCharges \in [SessionSteps -> Nat]
  /\ \A step \in Step : Titan[step] \in Nat /\ Nova[step] \in Nat
<1>1. \A step \in Step : Titan[step] \in Nat /\ Nova[step] \in Nat
  BY DEF Step, Ask, Titan, Nova
<1> QED BY <1>1 DEF TitanCharges, NovaCharges, SessionSteps

LEMMA FinitelyMany ==
  ASSUME IsFiniteSet(Session)
  PROVE  IsFiniteSet(SessionSteps)
<1>1. IsFiniteSet({"ask_before"}) /\ IsFiniteSet({"start"})
  BY FS_Singleton
<1>2. IsFiniteSet({"ask_before", "ask_after"})
  <2>1. {"ask_before", "ask_after"} = {"ask_before"} \union {"ask_after"} OBVIOUS
  <2> QED BY <1>1, <2>1, FS_AddElement
<1>3. IsFiniteSet({"start", "correct"})
  <2>1. {"start", "correct"} = {"start"} \union {"correct"} OBVIOUS
  <2> QED BY <1>1, <2>1, FS_AddElement
<1>4. IsFiniteSet({"start", "correct", "latest_receipt"})
  <2>1. {"start", "correct", "latest_receipt"} = {"start", "correct"} \union {"latest_receipt"}
    OBVIOUS
  <2> QED BY <1>3, <2>1, FS_AddElement
<1>9. IsFiniteSet(Step)
  BY <1>2, <1>4, FS_Union DEF Step, Ask
<1> QED BY <1>9, FS_Product DEF SessionSteps

\* A granted reservation is charged once, and at its place.
LEMMA GrantCharged ==
  ASSUME IsFiniteSet(Session), TypeOK, ChargedInv, NEW s \in Session, NEW step \in Step,
         step \notin reserved[s], reserved' = [reserved EXCEPT ![s] = @ \union {step}],
         Charge(step)
  PROVE  ChargedInv'
<1> DEFINE x == <<s, step>>
<1>1. x \in SessionSteps BY DEF SessionSteps
<1>2. \A p \in SessionSteps : p = <<p[1], p[2]>> /\ p[1] \in Session BY DEF SessionSteps
<1>3. /\ reserved'[s] = reserved[s] \union {step}
      /\ \A t \in Session \ {s} : reserved'[t] = reserved[t]
  BY DEF TypeOK, StoreTypeOK
<1>4. \A p \in SessionSteps \ {x} : p[2] \in reserved'[p[1]] <=> p[2] \in reserved[p[1]]
  BY <1>2, <1>3
<1>5. /\ TitanCharges'[x] = TitanCharges[x] + Titan[step]
      /\ \A p \in SessionSteps \ {x} : TitanCharges'[p] = TitanCharges[p]
  BY <1>1, <1>3, <1>4, ChargeTypes DEF TitanCharges
<1>6. /\ NovaCharges'[x] = NovaCharges[x] + Nova[step]
      /\ \A p \in SessionSteps \ {x} : NovaCharges'[p] = NovaCharges[p]
  BY <1>1, <1>3, <1>4, ChargeTypes DEF NovaCharges
<1>7. TitanCharges' \in [SessionSteps -> Nat] /\ NovaCharges' \in [SessionSteps -> Nat]
  BY ChargeTypes DEF TitanCharges, NovaCharges, SessionSteps
<1>8. Total(TitanCharges)' = Total(TitanCharges) + Titan[step]
  <2> HIDE DEF x
  <2> QED BY <1>1, <1>5, <1>7, ChargeTypes, FinitelyMany, SumGrows DEF Total
<1>9. Total(NovaCharges)' = Total(NovaCharges) + Nova[step]
  <2> HIDE DEF x
  <2> QED BY <1>1, <1>6, <1>7, ChargeTypes, FinitelyMany, SumGrows DEF Total
<1> QED BY <1>8, <1>9 DEF ChargedInv, Charge

LEMMA ChargedKept ==
  ASSUME ChargedInv, UNCHANGED <<reserved, used>>
  PROVE  ChargedInv'
BY DEF ChargedInv, TitanCharges, NovaCharges, Total, SessionSteps

LEMMA InitCharged == IsFiniteSet(Session) /\ Init => ChargedInv
<1> SUFFICES ASSUME IsFiniteSet(Session), Init PROVE ChargedInv
  OBVIOUS
<1>1. /\ \A p \in SessionSteps : TitanCharges[p] = 0 /\ NovaCharges[p] = 0
      /\ used.titan = 0 /\ used.nova = 0
  BY DEF Init, StoreInit, TitanCharges, NovaCharges, SessionSteps
<1> QED BY <1>1, FinitelyMany, SumOfZeros DEF ChargedInv, Total

LEMMA NextCharged ==
  IsFiniteSet(Session) /\ TypeOK /\ SpendingInv /\ ChargedInv /\ [Next]_vars => ChargedInv'
<1> SUFFICES ASSUME IsFiniteSet(Session), TypeOK, SpendingInv, ChargedInv, [Next]_vars
             PROVE  ChargedInv'
  OBVIOUS
<1>1. ASSUME NEW w \in Worker, StartSession(w) PROVE ChargedInv'
  <2>1. SessionOf(w) \in Session
    BY <1>1, RequestType DEF StartSession, At, TypeOK
  <2>2. \/ UNCHANGED storeVars
        \/ StartSessionOutcome(SessionOf(w)) = "succeeded" /\ StartSessionEffect(SessionOf(w))
    BY <1>1 DEF StartSession, Writes
  <2>3. CASE UNCHANGED storeVars
    BY <2>3, ChargedKept DEF storeVars
  <2>4. CASE StartSessionOutcome(SessionOf(w)) = "succeeded" /\ StartSessionEffect(SessionOf(w))
    <3>1. token[SessionOf(w)] = "none"
      BY <2>1, <2>4 DEF StartSessionOutcome, TypeOK, StoreTypeOK
    <3>2. "start" \notin reserved[SessionOf(w)]
      BY <2>1, <3>1 DEF SpendingInv
    <3>3. "start" \in Step BY DEF Step
    <3> QED BY <2>1, <2>4, <3>2, <3>3, GrantCharged DEF StartSessionEffect
  <2> QED BY <2>2, <2>3, <2>4
<1>2. ASSUME NEW w \in Worker, Reserve(w) PROVE ChargedInv'
  <2>1. SessionOf(w) \in Session /\ StepOf(w) \in Step
    BY <1>2, RequestType DEF Reserve, At, TypeOK
  <2>2. \/ UNCHANGED storeVars
        \/ /\ ReserveOperationOutcome(SessionOf(w), StepOf(w)) = "succeeded"
           /\ ReserveOperationEffect(SessionOf(w), StepOf(w))
    BY <1>2 DEF Reserve, Writes
  <2>3. CASE UNCHANGED storeVars
    BY <2>3, ChargedKept DEF storeVars
  <2>4. CASE /\ ReserveOperationOutcome(SessionOf(w), StepOf(w)) = "succeeded"
             /\ ReserveOperationEffect(SessionOf(w), StepOf(w))
    <3>1. StepOf(w) \notin reserved[SessionOf(w)]
      BY <2>4 DEF ReserveOperationOutcome
    <3> QED BY <2>1, <2>4, <3>1, GrantCharged DEF ReserveOperationEffect
  <2> QED BY <2>2, <2>3, <2>4
<1>3. ASSUME NEW w \in Worker, WorkerStep(w), ~StartSession(w), ~Reserve(w)
      PROVE  UNCHANGED <<reserved, used>>
  BY <1>3 DEF WorkerStep, Embed, Generate, Refused, StoreInitialFacts, Correct, ReplayAnswer,
              RetrieveSnapshot, BeginFinalize, FinalizeAnswer, LatestReceipt, storeVars,
              StoreInitialFactsEffect, CorrectEffect, FinalizeEffect
<1>4. ASSUME \/ \E w \in Worker, s \in Session, step \in Step : Arrive(w, s, step)
             \/ \E w \in Worker : Kill(w)
             \/ \E s \in Session : TokenExpiry(s)
             \/ Operator
             \/ UNCHANGED vars
      PROVE  UNCHANGED <<reserved, used>>
  BY <1>4 DEF Arrive, Kill, TokenExpiry, Expire, Operator, EnableProvider, DisableProvider,
              storeVars, vars
<1> QED BY <1>1, <1>2, <1>3, <1>4, ChargedKept DEF Next

\* Whatever the sessions do side by side: the Titan and Nova calls of all of them together are
\* covered by what was charged, and that stays within the caps.  Session digests have 256 bits,
\* so there are finitely many.
THEOREM SpendingCovered ==
  ASSUME IsFiniteSet(Session)
  PROVE  Spec => []SpendingWithinCaps
<1>1. ASSUME TypeOK, SpendingInv, CapsInv, ChargedInv
      PROVE  SpendingWithinCaps
  <2> DEFINE titan == [p \in SessionSteps |-> titanSent[p[1]][p[2]]]
             nova == [p \in SessionSteps |-> novaSent[p[1]][p[2]]]
  <2>1. \A p \in SessionSteps : p[1] \in Session /\ p[2] \in Step BY DEF SessionSteps
  <2>2. titan \in [SessionSteps -> Nat] /\ nova \in [SessionSteps -> Nat]
    BY <1>1, <2>1 DEF TypeOK
  <2>3. \A p \in SessionSteps : titan[p] <= TitanCharges[p] /\ nova[p] <= NovaCharges[p]
    BY <1>1, <2>1 DEF SpendingInv, ProviderWithinReservation, TitanCharges, NovaCharges
  <2>4. Total(titan) <= used.titan /\ Total(nova) <= used.nova
    <3> HIDE DEF titan, nova
    <3> QED BY <1>1, <2>2, <2>3, ChargeTypes, FinitelyMany, SumMonotone DEF ChargedInv, Total
  <2> QED BY <1>1, <2>4 DEF SpendingWithinCaps, TitanSentTotal, NovaSentTotal, CapsInv
<1>2. Init => ChargedInv BY InitCharged
<1>3. TypeOK /\ SpendingInv /\ ChargedInv /\ [Next]_vars => ChargedInv' BY NextCharged
<1>4. TypeOK /\ SpendingInv /\ CapsInv /\ ChargedInv => SpendingWithinCaps BY <1>1
<1> QED BY <1>2, <1>3, <1>4, InitInv, NextInv, InitCaps, NextCaps, PTL DEF Spec

---------------------------------------------------------------------------
(* The memory: answers, corrections and receipts agree, a receipt is grounded in the memory of    *)
(* the instant it is written, and the orchestrator implements AnswerLedger.                       *)

\* The memory of a session is empty, seeded or corrected, and its effect rows say which.
Story(s) ==
    \/ done[s] = {} /\ active[s] = {} /\ retracted[s] = {}
    \/ done[s] = {"start"} /\ active[s] = SeedRevisions /\ retracted[s] = {}
    \/ /\ done[s] = {"start", "correct"} /\ retracted[s] = {"launch1"}
       /\ active[s] = {"launch2", "evidence1", "budget1"}

\* r lists a memory that s has, or had before its correction.
Snapshot(s, r) ==
    /\ ReviewedContext(r.recalled) /\ r.withheld = Restricted
    /\ done[s] # {}
    /\ "launch2" \in r.recalled => "correct" \in done[s]

\* Nothing begun after t speaks of the old revision if what was begun at t does not.
Follows(s, recalled, t) ==
    t > 0 /\ "launch2" \in recalled =>
        \A b \in Ask : HasReceipt(s, b) /\ t < receipts[s][b].created
                          => "launch2" \in receipts[s][b].recalled

ReceiptInv(s, a) ==
    HasReceipt(s, a) =>
        /\ Snapshot(s, receipts[s][a])
        /\ 0 < receipts[s][a].created /\ receipts[s][a].created =< clock[s]
        /\ Follows(s, receipts[s][a].recalled, receipts[s][a].created)

Finalizing(w) == worker[w].pc \in {"finalize", "refinalize"}

\* Its transaction begins after the snapshot was read, and with it the receipt's timestamp.
WorkerInv(w) ==
    /\ Finalizing(w) \/ At(w, "generate") => Snapshot(SessionOf(w), worker[w])
    /\ ~Finalizing(w) /\ ~At(w, "idle") => worker[w].begun = 0
    /\ Finalizing(w) =>
          /\ worker[w].begun =< clock[SessionOf(w)]
          /\ Follows(SessionOf(w), worker[w].recalled, worker[w].begun)

\* The inductive invariant.
MemoryInv ==
    /\ \A s \in Session : Story(s)
    /\ \A s \in Session, a \in Ask : ReceiptInv(s, a)
    /\ \A w \in Worker : WorkerInv(w)
    /\ AnswersAreDurable

---------------------------------------------------------------------------
(* Steps that leave the receipts alone.                                    *)

LEMMA WorkerSession ==
    ASSUME TypeOK, NEW w \in Worker, ~At(w, "idle")
    PROVE  worker[w] \in Request /\ SessionOf(w) \in Session
BY RequestType DEF TypeOK

\* Rows of the memory are only added: what held of a receipt or of a resting worker still does.
LEMMA RestKept ==
    ASSUME TypeOK, MemoryInv, UNCHANGED receipts,
           \A s \in Session : done[s] \subseteq done'[s] /\ clock[s] =< clock'[s],
           TypeOK'
    PROVE  /\ \A s \in Session, a \in Ask : ReceiptInv(s, a)'
           /\ \A v \in Worker : worker'[v] = worker[v] => WorkerInv(v)'
<1>1. \A s \in Session : /\ \A r : Snapshot(s, r) => Snapshot(s, r)'
                         /\ \A recalled, t : Follows(s, recalled, t) => Follows(s, recalled, t)'
                         /\ \A a \in Ask : HasReceipt(s, a)' <=> HasReceipt(s, a)
    BY DEF Snapshot, Follows, HasReceipt, ReviewedContext
<1>2. \A s \in Session : clock[s] \in Nat /\ clock'[s] \in Nat
    BY DEF TypeOK, StoreTypeOK
<1>3. ASSUME NEW s \in Session, NEW a \in Ask PROVE ReceiptInv(s, a)'
    <2>1. receipts[s][a].created \in Nat
        BY DEF TypeOK, StoreTypeOK, Receipt
    <2> QED BY <1>1, <1>2, <2>1 DEF MemoryInv, ReceiptInv
<1>4. ASSUME NEW v \in Worker, worker'[v] = worker[v] PROVE WorkerInv(v)'
    <2>1. /\ SessionOf(v)' = SessionOf(v) /\ (Finalizing(v)' <=> Finalizing(v))
          /\ \A pc : At(v, pc)' <=> At(v, pc)
        BY <1>4 DEF SessionOf, Finalizing, At
    <2>2. CASE At(v, "idle")
        BY <2>1, <2>2 DEF WorkerInv, Finalizing, At
    <2>3. CASE ~At(v, "idle")
        <3>1. SessionOf(v) \in Session /\ worker[v].begun \in Nat
            BY <2>3, WorkerSession DEF Request
        <3> QED BY <1>1, <1>2, <1>4, <2>1, <3>1 DEF MemoryInv, WorkerInv, Snapshot, Follows
    <2> QED BY <2>2, <2>3
<1> QED BY <1>3, <1>4

\* What a caller is shown is a receipt that is there: the answers stay durable.
LEMMA AnswersKept ==
    ASSUME TypeOK, AnswersAreDurable, UNCHANGED receipts,
           \/ UNCHANGED answers
           \/ \E s \in Session, a \in Ask :
                 HasReceipt(s, a) /\ Release(s, a, receipts[s][a])
    PROVE  AnswersAreDurable'
<1>1. \A s \in Session, a \in Ask : HasReceipt(s, a)' <=> HasReceipt(s, a)
    BY DEF HasReceipt
<1>2. CASE UNCHANGED answers
    BY <1>1, <1>2 DEF AnswersAreDurable, AnswerOf
<1>3. ASSUME NEW s \in Session, NEW a \in Ask, HasReceipt(s, a),
             Release(s, a, receipts[s][a])
      PROVE  AnswersAreDurable'
    <2>1. \A x \in Session, b \in Ask :
             answers'[x][b] = IF x = s /\ b = a THEN answers[s][a] \union {AnswerOf(receipts[s][a])}
                              ELSE answers[x][b]
        BY <1>3 DEF Release, TypeOK
    <2> QED BY <1>1, <1>3, <2>1 DEF AnswersAreDurable, AnswerOf
<1> QED BY <1>2, <1>3

\* A step of worker w that writes no receipt.
LEMMA QuietStep ==
    ASSUME TypeOK, TypeOK', MemoryInv, NEW w \in Worker, UNCHANGED receipts,
           \A v \in Worker \ {w} : worker'[v] = worker[v],
           WorkerInv(w)', AnswersAreDurable',
           \A s \in Session : /\ Story(s)'
                              /\ done[s] \subseteq done'[s] /\ clock[s] =< clock'[s]
    PROVE  MemoryInv'
BY RestKept DEF MemoryInv

\* Going on to a call before the snapshot, or ending.
LEMMA GotoKept ==
    ASSUME TypeOK, MemoryInv, NEW w \in Worker, ~At(w, "idle"), NEW pc, Goto(w, pc),
           \/ pc = "idle"
           \/ ~Finalizing(w) /\ pc \notin {"generate", "finalize", "refinalize"}
    PROVE  /\ \A v \in Worker \ {w} : worker'[v] = worker[v]
           /\ WorkerInv(w)'
<1>1. worker[w] \in Request
    BY WorkerSession
<1>2. /\ \A v \in Worker \ {w} : worker'[v] = worker[v]
      /\ worker'[w] = IF pc = "idle" THEN Idle ELSE [worker[w] EXCEPT !.pc = pc]
    BY DEF TypeOK, Goto, Resume
<1>3. CASE pc = "idle"
    BY <1>2, <1>3 DEF WorkerInv, Finalizing, At, Idle
<1>4. CASE pc # "idle"
    <2>1. worker'[w].pc = pc /\ worker'[w].begun = worker[w].begun
        BY <1>1, <1>2, <1>4 DEF Request
    <2> QED BY <1>2, <1>4, <2>1 DEF WorkerInv, Finalizing, At, MemoryInv
<1> QED BY <1>2, <1>3, <1>4

\* A step that leaves the memory's rows and clock alone, too.
LEMMA RestingStep ==
    ASSUME TypeOK, TypeOK', MemoryInv, NEW w \in Worker,
           UNCHANGED <<done, active, retracted, receipts, clock>>,
           \A v \in Worker \ {w} : worker'[v] = worker[v],
           WorkerInv(w)', AnswersAreDurable'
    PROVE  MemoryInv'
<1>1. \A s \in Session : Story(s)'
    BY DEF MemoryInv, Story
<1>2. \A s \in Session : done[s] \subseteq done'[s] /\ clock[s] =< clock'[s]
    BY DEF TypeOK, StoreTypeOK
<1> QED BY <1>1, <1>2, QuietStep

LEMMA SimpleSteps ==
    ASSUME TypeOK, TypeOK', SpendingInv, MemoryInv, NEW w \in Worker,
           \/ StartSession(w) \/ Reserve(w) \/ Refused(w) \/ Kill(w)
    PROVE  MemoryInv'
<1>1. ~At(w, "idle")
    BY DEF StartSession, Reserve, Refused, Kill, At
<1>2. UNCHANGED <<done, active, retracted, receipts, clock>>
    BY DEF StartSession, Reserve, Refused, Kill, StartSessionEffect, ReserveOperationEffect,
           storeVars
<1>3. AnswersAreDurable'
    BY <1>2, AnswersKept DEF MemoryInv, StartSession, Reserve, Refused, Kill, observed
<1>4. \E pc : /\ Goto(w, pc)
             /\ \/ pc = "idle"
                \/ ~Finalizing(w) /\ pc \notin {"generate", "finalize", "refinalize"}
    <2>1. CASE StartSession(w)
        BY <2>1 DEF StartSession, At, Finalizing
    <2>2. CASE Reserve(w)
        <3>1. \A seen : AfterReserve(StepOf(w), seen) \notin {"generate", "finalize", "refinalize"}
            BY DEF AfterReserve
        <3> QED BY <2>2, <3>1 DEF Reserve, At, Finalizing
    <2>3. CASE Refused(w) \/ Kill(w)
        BY <2>3 DEF Refused, Kill
    <2> QED BY <2>1, <2>2, <2>3
<1>5. (\A v \in Worker \ {w} : worker'[v] = worker[v]) /\ WorkerInv(w)'
    BY <1>1, <1>4, GotoKept
<1> QED BY <1>2, <1>3, <1>5, RestingStep

LEMMA ArriveMemory ==
    ASSUME TypeOK, TypeOK', MemoryInv, NEW w \in Worker, NEW s \in Session, NEW step \in Step,
           Arrive(w, s, step)
    PROVE  MemoryInv'
<1>1. UNCHANGED <<done, active, retracted, receipts, clock, answers>>
    BY DEF Arrive, storeVars, observed
<1>2. \A v \in Worker \ {w} : worker'[v] = worker[v]
    BY DEF Arrive, TypeOK
<1>3. worker'[w].pc = FirstPc(step) /\ worker'[w].begun = 0
    BY DEF Arrive, TypeOK
<1>4. FirstPc(step) \in {"start_session", "replay", "reserve"}
    BY DEF FirstPc, Step, Ask
<1>5. WorkerInv(w)'
    BY <1>3, <1>4 DEF WorkerInv, Finalizing, At
<1> QED BY <1>1, <1>2, <1>5, AnswersKept, RestingStep DEF MemoryInv

LEMMA EmbedMemory ==
    ASSUME TypeOK, TypeOK', MemoryInv, NEW w \in Worker, Embed(w)
    PROVE  MemoryInv'
<1> DEFINE n == worker[w].embeds + 1
           pc == IF n = Titan[StepOf(w)] THEN AfterEmbed(StepOf(w)) ELSE "embed"
<1>1. ~At(w, "idle") /\ ~Finalizing(w)
    BY DEF Embed, At, Finalizing
<1>2. worker[w] \in Request
    BY <1>1, WorkerSession
<1>3. UNCHANGED <<done, active, retracted, receipts, clock, answers>>
    BY DEF Embed, storeVars
<1>4. CASE Goto(w, "idle")
    BY <1>1, <1>3, <1>4, GotoKept, AnswersKept, RestingStep DEF MemoryInv
<1>5. CASE ~Goto(w, "idle")
    <2>1. Resume(w, [worker[w] EXCEPT !.embeds = n, !.pc = pc])
        BY <1>5 DEF Embed
    <2>2. pc \in {"embed", "store_facts", "correct", "retrieve"}
        BY DEF AfterEmbed
    <2> HIDE DEF pc, n
    <2>3. /\ \A v \in Worker \ {w} : worker'[v] = worker[v]
          /\ worker'[w].pc = pc /\ worker'[w].begun = worker[w].begun
        BY <1>2, <2>1 DEF Resume, TypeOK, Request
    <2>4. WorkerInv(w)'
        BY <1>1, <2>2, <2>3 DEF MemoryInv, WorkerInv, Finalizing, At
    <2> QED BY <1>3, <2>3, <2>4, AnswersKept, RestingStep DEF MemoryInv
<1> QED BY <1>4, <1>5

\* A maximum exists among the receipts of the two questions.
LEMMA LatestIsReceipt ==
    ASSUME TypeOK, NEW s \in Session, \E a \in Ask : HasReceipt(s, a),
           \A a \in Ask : ReceiptInv(s, a)
    PROVE  Latest(s) \in Ask /\ HasReceipt(s, Latest(s))
<1> DEFINE Best(a) == /\ HasReceipt(s, a)
                      /\ \A b \in Ask : receipts[s][b].created =< receipts[s][a].created
<1>1. \A a \in Ask : receipts[s][a].created \in Nat
    BY DEF TypeOK, StoreTypeOK, Receipt
<1>2. \A a \in Ask : ~HasReceipt(s, a) => receipts[s][a].created = 0
    BY DEF HasReceipt, NoReceipt
<1>3. \A a \in Ask : HasReceipt(s, a) => 0 < receipts[s][a].created
    BY DEF ReceiptInv
<1>4. Ask = {"ask_before", "ask_after"}
    BY DEF Ask
<1>5. \E a \in Ask : Best(a)
    <2>1. CASE receipts[s]["ask_before"].created =< receipts[s]["ask_after"].created
        <3>1. HasReceipt(s, "ask_after")
            BY <1>1, <1>2, <1>3, <1>4, <2>1
        <3> QED BY <1>1, <1>4, <2>1, <3>1
    <2>2. CASE ~(receipts[s]["ask_before"].created =< receipts[s]["ask_after"].created)
        <3>1. HasReceipt(s, "ask_before")
            BY <1>1, <1>2, <1>3, <1>4, <2>2
        <3> QED BY <1>1, <1>4, <2>2, <3>1
    <2> QED BY <2>1, <2>2
<1>6. Latest(s) = CHOOSE a \in Ask : Best(a)
    BY DEF Latest
<1> HIDE DEF Best
<1>7. Latest(s) \in Ask /\ Best(Latest(s))
    BY <1>5, <1>6
<1> QED BY <1>7 DEF Best

\* Both reads of a receipt show one that is there, or nothing.
LEMMA ShowsReceipt ==
    ASSUME TypeOK, SpendingInv, MemoryInv, NEW w \in Worker,
           ReplayAnswer(w) \/ LatestReceipt(w)
    PROVE  \/ UNCHANGED answers
           \/ \E s \in Session, a \in Ask :
                 HasReceipt(s, a) /\ Release(s, a, receipts[s][a])
<1> DEFINE s == SessionOf(w)
<1>1. ~At(w, "idle")
    BY DEF ReplayAnswer, LatestReceipt, At
<1>2. s \in Session
    BY <1>1, WorkerSession
<1>3. CASE ReplayAnswer(w)
    <2>1. StepOf(w) \in Ask
        BY <1>3 DEF SpendingInv, PcFitsStep, ReplayAnswer
    <2>2. \A reply \in Reply(ReplayAnswerOutcome(s, StepOf(w))) :
             reply.seen = "replayed" => HasReceipt(s, StepOf(w))
        BY DEF Reply, ReplayAnswerOutcome
    <2> QED BY <1>2, <1>3, <2>1, <2>2 DEF ReplayAnswer
<1>4. CASE LatestReceipt(w)
    <2>1. \A reply \in Reply(LatestReceiptOutcome(s)) :
             reply.seen = "succeeded" => \E a \in Ask : HasReceipt(s, a)
        BY DEF Reply, LatestReceiptOutcome
    <2>2. (\E a \in Ask : HasReceipt(s, a)) => Latest(s) \in Ask /\ HasReceipt(s, Latest(s))
        BY <1>2, LatestIsReceipt DEF MemoryInv
    <2> QED BY <1>2, <1>4, <2>1, <2>2 DEF LatestReceipt
<1> QED BY <1>3, <1>4

LEMMA ShowMemory ==
    ASSUME TypeOK, TypeOK', SpendingInv, MemoryInv, NEW w \in Worker,
           ReplayAnswer(w) \/ LatestReceipt(w)
    PROVE  MemoryInv'
<1>1. ~At(w, "idle")
    BY DEF ReplayAnswer, LatestReceipt, At
<1>2. UNCHANGED <<done, active, retracted, receipts, clock>>
    BY DEF ReplayAnswer, LatestReceipt, storeVars
<1>3. AnswersAreDurable'
    BY <1>2, ShowsReceipt, AnswersKept DEF MemoryInv
<1>4. \/ Goto(w, "idle")
      \/ Goto(w, "reserve") /\ ~Finalizing(w)
    BY DEF ReplayAnswer, LatestReceipt, Finalizing
<1>5. (\A v \in Worker \ {w} : worker'[v] = worker[v]) /\ WorkerInv(w)'
    BY <1>1, <1>4, GotoKept
<1> QED BY <1>2, <1>3, <1>5, RestingStep

---------------------------------------------------------------------------
(* The two effects, and what an asking worker does.                        *)

LEMMA EffectMemory ==
    ASSUME TypeOK, TypeOK', MemoryInv, NEW w \in Worker, StoreInitialFacts(w) \/ Correct(w)
    PROVE  MemoryInv'
<1>1. ~At(w, "idle") /\ Goto(w, "idle") /\ UNCHANGED answers
    BY DEF StoreInitialFacts, Correct, At, observed
<1>2. PICK s \in Session : s = SessionOf(w)
    BY <1>1, WorkerSession
<1>3. UNCHANGED <<receipts, clock>>
    BY DEF StoreInitialFacts, Correct, StoreInitialFactsEffect, CorrectEffect, storeVars
<1>4. \/ UNCHANGED <<done, active, retracted>>
      \/ "start" \notin done[s] /\ StoreInitialFactsEffect(s)
      \/ "correct" \notin done[s] /\ "launch1" \in active[s] /\ CorrectEffect(s)
    BY <1>2 DEF StoreInitialFacts, Correct, StoreInitialFactsOutcome, CorrectOutcome, Writes,
                storeVars
<1>5. \A x \in Session : Story(x) /\ clock[x] =< clock'[x]
    BY <1>3 DEF MemoryInv, TypeOK, StoreTypeOK
<1>6. \A x \in Session : Story(x)' /\ done[x] \subseteq done'[x]
    <2>1. CASE UNCHANGED <<done, active, retracted>>
        BY <1>5, <2>1 DEF Story
    <2>2. CASE "start" \notin done[s] /\ StoreInitialFactsEffect(s)
        <3>1. /\ \A x \in Session : retracted'[x] = retracted[x]
              /\ \A x \in Session : x # s => done'[x] = done[x] /\ active'[x] = active[x]
            BY <2>2 DEF StoreInitialFactsEffect, TypeOK, StoreTypeOK
        <3>2. done'[s] = done[s] \union {"start"} /\ active'[s] = active[s] \union SeedRevisions
            BY <1>2, <2>2 DEF StoreInitialFactsEffect, TypeOK, StoreTypeOK
        <3>3. Story(s)
            BY <1>2, <1>5
        <3>4. Story(s)' /\ done[s] \subseteq done'[s]
            <4>1. done[s] = {} /\ active[s] = {} /\ retracted[s] = {}
                BY <2>2, <3>3 DEF Story
            <4>2. done'[s] = {"start"} /\ active'[s] = SeedRevisions /\ retracted'[s] = {}
                BY <3>1, <3>2, <4>1
            <4> QED BY <4>1, <4>2 DEF Story
        <3>5. ASSUME NEW x \in Session, x # s PROVE Story(x)' /\ done[x] \subseteq done'[x]
            BY <1>5, <3>1, <3>5 DEF Story
        <3> QED BY <3>4, <3>5
    <2>3. CASE "correct" \notin done[s] /\ "launch1" \in active[s] /\ CorrectEffect(s)
        <3>1. \A x \in Session : x # s =>
                done'[x] = done[x] /\ active'[x] = active[x] /\ retracted'[x] = retracted[x]
            BY <2>3 DEF CorrectEffect, TypeOK, StoreTypeOK
        <3>2. /\ done'[s] = done[s] \union {"correct"}
              /\ active'[s] = (active[s] \ {"launch1"}) \union {"launch2"}
              /\ retracted'[s] = retracted[s] \union {"launch1"}
            BY <1>2, <2>3 DEF CorrectEffect, TypeOK, StoreTypeOK
        <3>3. Story(s)
            BY <1>2, <1>5
        <3>4. Story(s)' /\ done[s] \subseteq done'[s]
            BY <1>2, <2>3, <3>2, <3>3 DEF Story, SeedRevisions
        <3> QED BY <1>5, <3>1, <3>4 DEF Story
    <2> QED BY <1>4, <2>1, <2>2, <2>3
<1>7. AnswersAreDurable'
    BY <1>1, <1>3, AnswersKept DEF MemoryInv
<1>8. (\A v \in Worker \ {w} : worker'[v] = worker[v]) /\ WorkerInv(w)'
    BY <1>1, GotoKept
<1> QED BY <1>3, <1>5, <1>6, <1>7, <1>8, QuietStep

\* What a session's memory discloses and withholds, by its story.
LEMMA SnapshotOfStory ==
    ASSUME NEW s, Story(s)
    PROVE  /\ done[s] = {} <=> active[s] = {}
           /\ active[s] = {} => ActivePublic(s) = {} /\ ActiveRestricted(s) = {}
           /\ active[s] # {} => /\ ActiveRestricted(s) = Restricted
                               /\ ActivePublic(s) = IF "correct" \in done[s]
                                                      THEN {"launch2", "evidence1"}
                                                      ELSE {"launch1", "evidence1"}
BY DEF Story, ActivePublic, ActiveRestricted, Restricted, SeedRevisions

LEMMA RetrieveMemory ==
    ASSUME TypeOK, TypeOK', MemoryInv, NEW w \in Worker, RetrieveSnapshot(w)
    PROVE  MemoryInv'
<1> DEFINE s == SessionOf(w)
           q == [worker[w] EXCEPT !.recalled = ActivePublic(s), !.withheld = ActiveRestricted(s),
                                  !.pc = "generate"]
<1>1. ~At(w, "idle") /\ ~Finalizing(w)
    BY DEF RetrieveSnapshot, At, Finalizing
<1>2. worker[w] \in Request /\ s \in Session
    BY <1>1, WorkerSession
<1>3. UNCHANGED <<done, active, retracted, receipts, clock, answers>>
    BY DEF RetrieveSnapshot, storeVars, observed
<1>4. Goto(w, "idle") \/ (Resume(w, q) /\ ActivePublic(s) # {})
    BY DEF RetrieveSnapshot
<1>5. CASE Goto(w, "idle")
    BY <1>1, <1>3, <1>5, GotoKept, AnswersKept, RestingStep DEF MemoryInv
<1>6. CASE Resume(w, q) /\ ActivePublic(s) # {}
    <2>1. /\ \A v \in Worker \ {w} : worker'[v] = worker[v]
          /\ worker'[w] = q
        BY <1>6 DEF Resume, TypeOK
    <2>2. /\ q.pc = "generate" /\ q.session = s /\ q.begun = worker[w].begun
          /\ q.recalled = ActivePublic(s) /\ q.withheld = ActiveRestricted(s)
        BY <1>2 DEF Request, SessionOf
    <2>3. worker[w].begun = 0
        BY <1>1 DEF MemoryInv, WorkerInv
    <2>4. Snapshot(s, q)
        BY <1>2, <1>6, <2>2, SnapshotOfStory DEF MemoryInv, Snapshot, ReviewedContext
    <2> HIDE DEF q
    <2>5. /\ worker'[w].pc = "generate" /\ SessionOf(w)' = s /\ worker'[w].begun = 0
          /\ worker'[w].recalled = q.recalled /\ worker'[w].withheld = q.withheld
        BY <2>1, <2>2, <2>3 DEF SessionOf
    <2> HIDE DEF s
    <2>6. Snapshot(SessionOf(w), worker[w])'
        BY <1>3, <2>4, <2>5 DEF Snapshot
    <2>7. WorkerInv(w)'
        BY <2>5, <2>6 DEF WorkerInv, Finalizing, At
    <2> QED BY <1>3, <2>1, <2>7, AnswersKept, RestingStep DEF MemoryInv
<1> QED BY <1>4, <1>5, <1>6

LEMMA GenerateMemory ==
    ASSUME TypeOK, TypeOK', MemoryInv, NEW w \in Worker, Generate(w)
    PROVE  MemoryInv'
<1> DEFINE s == SessionOf(w)
           q == [worker[w] EXCEPT !.answer = novaSent'[s][StepOf(w)], !.pc = "finalize"]
<1>1. At(w, "generate") /\ ~At(w, "idle") /\ ~Finalizing(w)
    BY DEF Generate, At, Finalizing
<1>2. worker[w] \in Request /\ s \in Session
    BY <1>1, WorkerSession
<1>3. UNCHANGED <<done, active, retracted, receipts, clock, answers>>
    BY DEF Generate, storeVars
<1>4. Goto(w, "idle") \/ Resume(w, q)
    BY DEF Generate
<1>5. CASE Goto(w, "idle")
    BY <1>1, <1>3, <1>5, GotoKept, AnswersKept, RestingStep DEF MemoryInv
<1>6. CASE Resume(w, q)
    <2>1. /\ \A v \in Worker \ {w} : worker'[v] = worker[v]
          /\ worker'[w] = q
        BY <1>6 DEF Resume, TypeOK
    <2>2. /\ q.pc = "finalize" /\ q.session = s /\ q.begun = worker[w].begun
          /\ q.recalled = worker[w].recalled /\ q.withheld = worker[w].withheld
        BY <1>2 DEF Request, SessionOf
    <2>3. worker[w].begun = 0 /\ Snapshot(s, worker[w])
        BY <1>1 DEF MemoryInv, WorkerInv
    <2> HIDE DEF q
    <2>4. /\ worker'[w].pc = "finalize" /\ SessionOf(w)' = s /\ worker'[w].begun = 0
          /\ worker'[w].recalled = worker[w].recalled /\ worker'[w].withheld = worker[w].withheld
        BY <2>1, <2>2, <2>3 DEF SessionOf
    <2>5. clock'[s] \in Nat
        BY <1>2 DEF TypeOK, StoreTypeOK
    <2> HIDE DEF s
    <2>6. Snapshot(SessionOf(w), worker[w])'
        BY <1>3, <2>3, <2>4 DEF Snapshot
    <2>7. WorkerInv(w)'
        BY <2>4, <2>5, <2>6 DEF WorkerInv, Finalizing, At, Follows
    <2> QED BY <1>3, <2>1, <2>7, AnswersKept, RestingStep DEF MemoryInv
<1> QED BY <1>4, <1>5, <1>6

\* The timestamp is drawn now: every receipt there is is older.
LEMMA BeginFinalizeMemory ==
    ASSUME TypeOK, TypeOK', MemoryInv, NEW w \in Worker, BeginFinalize(w)
    PROVE  MemoryInv'
<1> DEFINE s == SessionOf(w)
<1>1. ~At(w, "idle") /\ Finalizing(w)
    BY DEF BeginFinalize, At, Finalizing
<1>2. worker[w] \in Request /\ s \in Session
    BY <1>1, WorkerSession
<1>3. UNCHANGED <<done, active, retracted, receipts, answers>>
    BY DEF BeginFinalize, observed
<1>4. clock[s] \in Nat /\ clock' = [clock EXCEPT ![s] = @ + 1] /\ clock'[s] = clock[s] + 1
    BY <1>2 DEF BeginFinalize, TypeOK, StoreTypeOK
<1>5. \A x \in Session : clock[x] =< clock'[x]
    BY <1>2, <1>4 DEF TypeOK, StoreTypeOK
<1>6. worker' = [worker EXCEPT ![w].begun = clock'[s]]
    BY DEF BeginFinalize
<1>7. \A v \in Worker \ {w} : worker'[v] = worker[v]
    BY <1>6 DEF TypeOK
<1>8. /\ worker'[w].pc = worker[w].pc /\ SessionOf(w)' = s /\ worker'[w].begun = clock'[s]
      /\ worker'[w].recalled = worker[w].recalled /\ worker'[w].withheld = worker[w].withheld
    BY <1>2, <1>6 DEF TypeOK, Request, SessionOf
<1>9. Snapshot(s, worker[w])
    BY <1>1 DEF MemoryInv, WorkerInv
<1>10. \A b \in Ask : HasReceipt(s, b) => ~(clock'[s] < receipts[s][b].created)
    <2> SUFFICES ASSUME NEW b \in Ask, HasReceipt(s, b)
                 PROVE  ~(clock'[s] < receipts[s][b].created)
        OBVIOUS
    <2>1. receipts[s][b].created \in Nat /\ receipts[s][b].created =< clock[s]
        BY <1>2 DEF MemoryInv, ReceiptInv, TypeOK, StoreTypeOK, Receipt
    <2> QED BY <1>4, <2>1
<1> HIDE DEF s
<1>11. Snapshot(SessionOf(w), worker[w])'
    BY <1>3, <1>8, <1>9 DEF Snapshot
<1>12. WorkerInv(w)'
    BY <1>1, <1>3, <1>4, <1>8, <1>10, <1>11 DEF WorkerInv, Finalizing, At, Follows, HasReceipt
<1>13. \A x \in Session : Story(x)' /\ done[x] \subseteq done'[x]
    BY <1>3 DEF MemoryInv, Story
<1> QED BY <1>3, <1>5, <1>7, <1>12, <1>13, AnswersKept, QuietStep DEF MemoryInv

---------------------------------------------------------------------------
(* The finalizing transaction.                                             *)

\* What it can do: write a receipt that lists what is active now, or leave the rows alone;
\* what it releases is the receipt that is there afterwards.
LEMMA FinalizeFacts ==
    ASSUME TypeOK, SpendingInv, MemoryInv, NEW w \in Worker, FinalizeAnswer(w),
           NEW s, s = SessionOf(w), NEW a, a = StepOf(w), NEW r, r = Candidate(w)
    PROVE  /\ s \in Session /\ a \in Ask /\ r \in Receipt /\ r # NoReceipt
           /\ Finalizing(w) /\ ~At(w, "idle") /\ r.created = worker[w].begun
           /\ Snapshot(s, r) /\ Follows(s, r.recalled, r.created)
           /\ 0 < r.created /\ r.created =< clock[s]
           /\ UNCHANGED <<token, reserved, used, enabled, done, active, retracted, clock>>
           /\ \/ /\ UNCHANGED receipts
                 /\ \/ UNCHANGED answers
                    \/ /\ HasReceipt(s, a) /\ AnswerOf(r) = AnswerOf(receipts[s][a])
                       /\ Release(s, a, r)
              \/ /\ ~HasReceipt(s, a) /\ FinalizeEffect(s, a, r)
                 /\ r.recalled = ActivePublic(s) /\ r.withheld = ActiveRestricted(s)
                 /\ UNCHANGED answers \/ Release(s, a, r)
<1>1. Finalizing(w) /\ ~At(w, "idle") /\ worker[w].begun > 0
    BY DEF FinalizeAnswer, Finalizing, At
<1>2. worker[w] \in Request /\ s \in Session
    BY <1>1, WorkerSession
<1>3. a \in Ask
    BY <1>1 DEF SpendingInv, PcFitsStep, Finalizing
<1>4. /\ r.created = worker[w].begun /\ r.answer = worker[w].answer
      /\ r.recalled = worker[w].recalled /\ r.withheld = worker[w].withheld
      /\ r \in Receipt
    BY <1>2 DEF Candidate, Request, Receipt
<1>5. r # NoReceipt
    BY <1>1, <1>4 DEF NoReceipt
<1>6. Snapshot(s, r) /\ Follows(s, r.recalled, r.created) /\ r.created =< clock[s]
    BY <1>1, <1>4 DEF MemoryInv, WorkerInv, Snapshot
<1>7. UNCHANGED <<token, reserved, used, enabled, done, active, retracted, clock>>
    BY DEF FinalizeAnswer, FinalizeEffect, storeVars
<1>8. PICK reply \in Reply(FinalizeOutcome(s, a, r)) :
        /\ IF Writes(reply, FinalizeOutcome(s, a, r)) THEN FinalizeEffect(s, a, r)
                                                      ELSE UNCHANGED storeVars
        /\ IF reply.seen = Confirmation(w) THEN Release(s, a, r) ELSE UNCHANGED answers
    BY DEF FinalizeAnswer
<1> DEFINE outcome == FinalizeOutcome(s, a, r)
<1>9. CASE Writes(reply, outcome)
    <2>1. outcome = "succeeded"
        BY <1>9 DEF Writes
    <2>2. /\ ~HasReceipt(s, a)
          /\ r.recalled \subseteq ActivePublic(s) /\ r.withheld \subseteq ActiveRestricted(s)
        BY <2>1 DEF FinalizeOutcome
    <2>3. Story(s)
        BY <1>2 DEF MemoryInv
    <2>4. r.recalled = ActivePublic(s) /\ r.withheld = ActiveRestricted(s)
        <3>1. /\ ActiveRestricted(s) = Restricted
              /\ ActivePublic(s) = IF "correct" \in done[s] THEN {"launch2", "evidence1"}
                                                            ELSE {"launch1", "evidence1"}
            BY <1>6, <2>3, SnapshotOfStory DEF Snapshot
        <3>2. r.recalled = {"launch1", "evidence1"} \/ r.recalled = {"launch2", "evidence1"}
            BY <1>6 DEF Snapshot, ReviewedContext
        <3>3. r.recalled = ActivePublic(s)
            BY <2>2, <3>1, <3>2
        <3> QED BY <1>6, <3>1, <3>3 DEF Snapshot
    <2>5. FinalizeEffect(s, a, r) /\ (UNCHANGED answers \/ Release(s, a, r))
        BY <1>8, <1>9
    <2> QED BY <1>1, <1>2, <1>3, <1>4, <1>5, <1>6, <1>7, <2>2, <2>4, <2>5
<1>10. CASE ~Writes(reply, outcome)
    <2>1. UNCHANGED receipts
        BY <1>8, <1>10 DEF storeVars
    <2>2. CASE reply.seen = Confirmation(w)
        <3>1. outcome = "replayed"
            BY <1>10, <2>2 DEF Confirmation, Reply, Writes
        <3>2. HasReceipt(s, a) /\ SameReceipt(receipts[s][a], r)
            BY <3>1 DEF FinalizeOutcome
        <3>3. AnswerOf(r) = AnswerOf(receipts[s][a])
            BY <3>2 DEF SameReceipt, AnswerOf
        <3>4. Release(s, a, r)
            BY <1>8, <2>2
        <3> QED BY <1>1, <1>2, <1>3, <1>4, <1>5, <1>6, <1>7, <2>1, <3>2, <3>3, <3>4
    <2>3. CASE reply.seen # Confirmation(w)
        BY <1>1, <1>2, <1>3, <1>4, <1>5, <1>6, <1>7, <1>8, <2>1, <2>3
    <2> QED BY <2>2, <2>3
<1> QED BY <1>9, <1>10

LEMMA FinalizeWorker ==
    ASSUME TypeOK, MemoryInv, NEW w \in Worker, FinalizeAnswer(w), Finalizing(w),
           SessionOf(w) \in Session, UNCHANGED <<done, clock>>
    PROVE  /\ \A v \in Worker \ {w} : worker'[v] = worker[v]
           /\ WorkerInv(w)'
<1> DEFINE q == [worker[w] EXCEPT !.pc = "refinalize", !.begun = 0]
<1>1. ~At(w, "idle")
    BY DEF Finalizing, At
<1>2. worker[w] \in Request
    BY <1>1, WorkerSession
<1>3. Resume(w, q) \/ Goto(w, "idle")
    BY DEF FinalizeAnswer
<1>4. CASE Goto(w, "idle")
    BY <1>1, <1>4, GotoKept
<1>5. CASE Resume(w, q)
    <2>1. /\ \A v \in Worker \ {w} : worker'[v] = worker[v]
          /\ worker'[w] = q
        BY <1>5 DEF Resume, TypeOK
    <2>2. /\ worker'[w].pc = "refinalize" /\ SessionOf(w)' = SessionOf(w)
          /\ worker'[w].begun = 0
          /\ worker'[w].recalled = worker[w].recalled /\ worker'[w].withheld = worker[w].withheld
        BY <1>2, <2>1 DEF Request, SessionOf
    <2>3. Snapshot(SessionOf(w), worker[w]) /\ clock[SessionOf(w)] \in Nat
        BY DEF MemoryInv, WorkerInv, TypeOK, StoreTypeOK
    <2>4. WorkerInv(w)'
        BY <2>2, <2>3 DEF WorkerInv, Finalizing, At, Follows, Snapshot
    <2> QED BY <2>1, <2>4
<1> QED BY <1>3, <1>4, <1>5

LEMMA FinalizeMemory ==
    ASSUME TypeOK, TypeOK', SpendingInv, MemoryInv, NEW w \in Worker, FinalizeAnswer(w)
    PROVE  MemoryInv'
<1>1. PICK s, a, r : s = SessionOf(w) /\ a = StepOf(w) /\ r = Candidate(w)
    OBVIOUS
<1>2. /\ s \in Session /\ a \in Ask /\ r \in Receipt /\ r # NoReceipt
      /\ Finalizing(w) /\ ~At(w, "idle")
      /\ Snapshot(s, r) /\ Follows(s, r.recalled, r.created)
      /\ 0 < r.created /\ r.created =< clock[s]
      /\ UNCHANGED <<done, active, retracted, clock>>
    BY <1>1, FinalizeFacts
<1>3. (\A v \in Worker \ {w} : worker'[v] = worker[v]) /\ WorkerInv(w)'
    <2>1. SessionOf(w) \in Session
        BY <1>1, <1>2
    <2> QED BY <1>2, <2>1, FinalizeWorker
<1>4. CASE UNCHANGED receipts
    <2>1. \/ UNCHANGED answers
          \/ /\ HasReceipt(s, a) /\ AnswerOf(r) = AnswerOf(receipts[s][a])
             /\ Release(s, a, r)
        <3>1. CASE HasReceipt(s, a)
            BY <1>1, <3>1, FinalizeFacts
        <3>2. CASE ~HasReceipt(s, a)
            <4>1. ~FinalizeEffect(s, a, r)
                BY <1>2, <1>4, <3>2 DEF FinalizeEffect, TypeOK, StoreTypeOK, HasReceipt
            <4> QED BY <1>1, <3>2, <4>1, FinalizeFacts
        <3> QED BY <3>1, <3>2
    <2>2. UNCHANGED answers \/ (HasReceipt(s, a) /\ Release(s, a, receipts[s][a]))
        BY <2>1 DEF Release
    <2>3. AnswersAreDurable'
        BY <1>2, <1>4, <2>2, AnswersKept DEF MemoryInv
    <2> QED BY <1>2, <1>3, <1>4, <2>3, RestingStep
<1>5. CASE receipts' # receipts
    <2>1. /\ ~HasReceipt(s, a) /\ FinalizeEffect(s, a, r)
          /\ r.recalled = ActivePublic(s) /\ r.withheld = ActiveRestricted(s)
          /\ UNCHANGED answers \/ Release(s, a, r)
        BY <1>1, <1>5, FinalizeFacts
    <2>2. \A x \in Session, b \in Ask :
             receipts'[x][b] = IF x = s /\ b = a THEN r ELSE receipts[x][b]
        BY <2>1 DEF FinalizeEffect, TypeOK, StoreTypeOK
    <2>3. \A x \in Session, b \in Ask :
             HasReceipt(x, b)' <=> (HasReceipt(x, b) \/ (x = s /\ b = a))
        BY <1>2, <2>2 DEF HasReceipt
    <2>4. \A x \in Session : \A q : Snapshot(x, q) <=> Snapshot(x, q)'
        BY <1>2 DEF Snapshot
    <2>5. ASSUME NEW x \in Session, NEW recalled, NEW t, Follows(x, recalled, t),
                 "launch2" \in recalled => "correct" \in done[x]
          PROVE  Follows(x, recalled, t)'
        <3>1. CASE x # s
            BY <2>2, <2>3, <2>5, <3>1 DEF Follows
        <3>2. CASE x = s
            <4>1. "launch2" \in recalled => "launch2" \in r.recalled
                <5> SUFFICES ASSUME "launch2" \in recalled PROVE "launch2" \in r.recalled
                    OBVIOUS
                <5>1. "correct" \in done[s] /\ Story(s)
                    BY <1>2, <2>5, <3>2 DEF MemoryInv
                <5> QED BY <2>1, <5>1, SnapshotOfStory
            <4> QED BY <2>2, <2>3, <2>5, <3>2, <4>1 DEF Follows
        <3> QED BY <3>1, <3>2
    <2>6. ASSUME NEW x \in Session, NEW b \in Ask PROVE ReceiptInv(x, b)'
        <3>1. CASE x = s /\ b = a
            <4>1. Follows(s, r.recalled, r.created)'
                BY <1>2, <2>5 DEF Snapshot
            <4>2. Snapshot(s, r)'
                BY <1>2, <2>4
            <4>3. receipts'[x][b] = r
                BY <2>2, <3>1
            <4> QED BY <1>2, <3>1, <4>1, <4>2, <4>3 DEF ReceiptInv, Snapshot, Follows
        <3>2. CASE ~(x = s /\ b = a)
            <4> SUFFICES ASSUME HasReceipt(x, b)' PROVE ReceiptInv(x, b)'
                BY DEF ReceiptInv
            <4> DEFINE q == receipts[x][b]
            <4>1. HasReceipt(x, b) /\ receipts'[x][b] = q
                BY <2>2, <2>3, <3>2
            <4>2. /\ Snapshot(x, q) /\ Follows(x, q.recalled, q.created)
                  /\ 0 < q.created /\ q.created =< clock[x]
                BY <4>1 DEF MemoryInv, ReceiptInv
            <4>3. PICK q0 : q0 = q
                OBVIOUS
            <4>4. Follows(x, q0.recalled, q0.created)'
                BY <2>5, <4>2, <4>3 DEF Snapshot
            <4>5. Snapshot(x, q0)'
                BY <2>4, <4>2, <4>3
            <4> QED BY <1>2, <4>1, <4>2, <4>3, <4>4, <4>5 DEF ReceiptInv, Snapshot, Follows
        <3> QED BY <3>1, <3>2
    <2>7. ASSUME NEW v \in Worker \ {w} PROVE WorkerInv(v)'
        <3>1. /\ SessionOf(v)' = SessionOf(v) /\ (Finalizing(v)' <=> Finalizing(v))
              /\ \A pc : At(v, pc)' <=> At(v, pc)
              /\ worker'[v] = worker[v]
            BY <1>3 DEF SessionOf, Finalizing, At
        <3>2. WorkerInv(v)
            BY DEF MemoryInv
        <3>3. CASE At(v, "idle")
            BY <3>1, <3>3 DEF WorkerInv, Finalizing, At
        <3>4. CASE ~At(v, "idle")
            <4>1. PICK x \in Session : x = SessionOf(v)
                BY <3>4, WorkerSession
            <4>2. PICK q : q = worker[v]
                OBVIOUS
            <4>3. Finalizing(v) => Follows(x, q.recalled, q.begun)'
                BY <2>5, <3>2, <4>1, <4>2 DEF WorkerInv, Snapshot
            <4>4. Finalizing(v) \/ At(v, "generate") => Snapshot(x, q)'
                BY <2>4, <3>2, <4>1, <4>2 DEF WorkerInv
            <4> QED BY <1>2, <3>1, <3>2, <4>1, <4>2, <4>3, <4>4 DEF WorkerInv, Snapshot, Follows
        <3> QED BY <3>3, <3>4
    <2>8. AnswersAreDurable'
        <3>1. \A x \in Session, b \in Ask :
                 \/ answers'[x][b] = answers[x][b]
                 \/ x = s /\ b = a /\ answers'[x][b] = answers[x][b] \union {AnswerOf(r)}
            BY <1>2, <2>1 DEF Release, TypeOK
        <3>2. answers[s][a] = {}
            BY <1>2, <2>1 DEF MemoryInv, AnswersAreDurable
        <3> QED BY <1>2, <2>2, <2>3, <3>1, <3>2 DEF MemoryInv, AnswersAreDurable, AnswerOf
    <2>9. \A x \in Session : Story(x)'
        BY <1>2 DEF MemoryInv, Story
    <2> QED BY <1>3, <2>6, <2>7, <2>8, <2>9 DEF MemoryInv
<1> QED BY <1>4, <1>5

---------------------------------------------------------------------------
(* The theorems.                                                           *)

LEMMA InitMemory == Init => MemoryInv
<1> SUFFICES ASSUME Init PROVE MemoryInv
    OBVIOUS
<1>1. \A w \in Worker : worker[w].pc = "idle"
    BY DEF Init, Idle
<1>2. \A w \in Worker : WorkerInv(w)
    BY <1>1 DEF WorkerInv, Finalizing, At
<1>3. \A s \in Session : Story(s) /\ \A a \in Ask : ~HasReceipt(s, a) /\ answers[s][a] = {}
    BY DEF Init, StoreInit, Story, HasReceipt
<1> QED BY <1>2, <1>3 DEF MemoryInv, ReceiptInv, AnswersAreDurable

\* The store's own steps and the stuttering step touch none of it.
LEMMA RestMemory ==
    ASSUME TypeOK, TypeOK', MemoryInv,
           Operator \/ (\E s \in Session : TokenExpiry(s)) \/ UNCHANGED vars
    PROVE  MemoryInv'
<1>1. UNCHANGED <<done, active, retracted, receipts, clock, worker, answers>>
    BY DEF Operator, TokenExpiry, EnableProvider, DisableProvider, Expire, observed, vars, storeVars
<1>2. \A s \in Session : done[s] \subseteq done'[s] /\ clock[s] =< clock'[s]
    BY <1>1 DEF TypeOK, StoreTypeOK
<1>3. /\ \A s \in Session, a \in Ask : ReceiptInv(s, a)'
      /\ \A v \in Worker : WorkerInv(v)'
    BY <1>1, <1>2, RestKept
<1>4. AnswersAreDurable'
    BY <1>1, AnswersKept DEF MemoryInv
<1> QED BY <1>1, <1>3, <1>4 DEF MemoryInv, Story

LEMMA NextMemory ==
    ASSUME TypeOK, SpendingInv, MemoryInv, [Next]_vars
    PROVE  MemoryInv'
<1>1. TypeOK'
    BY NextInv
<1>2. ASSUME NEW w \in Worker, WorkerStep(w) PROVE MemoryInv'
    <2>1. CASE StartSession(w) \/ Reserve(w) \/ Refused(w)
        BY <1>1, <2>1, SimpleSteps
    <2>2. CASE Embed(w)
        BY <1>1, <2>2, EmbedMemory
    <2>3. CASE Generate(w)
        BY <1>1, <2>3, GenerateMemory
    <2>4. CASE StoreInitialFacts(w) \/ Correct(w)
        BY <1>1, <2>4, EffectMemory
    <2>5. CASE ReplayAnswer(w) \/ LatestReceipt(w)
        BY <1>1, <2>5, ShowMemory
    <2>6. CASE RetrieveSnapshot(w)
        BY <1>1, <2>6, RetrieveMemory
    <2>7. CASE BeginFinalize(w)
        BY <1>1, <2>7, BeginFinalizeMemory
    <2>8. CASE FinalizeAnswer(w)
        BY <1>1, <2>8, FinalizeMemory
    <2> QED BY <1>2, <2>1, <2>2, <2>3, <2>4, <2>5, <2>6, <2>7, <2>8 DEF WorkerStep
<1>3. ASSUME NEW w \in Worker, Kill(w) PROVE MemoryInv'
    BY <1>1, <1>3, SimpleSteps
<1>4. ASSUME NEW w \in Worker, NEW s \in Session, NEW step \in Step, Arrive(w, s, step)
      PROVE  MemoryInv'
    BY <1>1, <1>4, ArriveMemory
<1> QED BY <1>1, <1>2, <1>3, <1>4, RestMemory DEF Next

\* All the invariants together.
IInv == TypeOK /\ SpendingInv /\ MemoryInv

LEMMA Inductive == Spec => []IInv
<1>1. Init => IInv
    BY InitInv, InitMemory DEF IInv
<1>2. IInv /\ [Next]_vars => IInv'
    BY NextInv, NextMemory DEF IInv
<1> QED BY <1>1, <1>2, PTL DEF Spec

LEMMA MemoryInvImplies == MemoryInv => MemoryIsConsistent
<1> SUFFICES ASSUME MemoryInv PROVE MemoryIsConsistent
    OBVIOUS
<1>1. AnswersAreDurable
    BY DEF MemoryInv
<1>2. CorrectionIsAtomic
    <2> SUFFICES ASSUME NEW s \in Session
                 PROVE  /\ active[s] \intersect retracted[s] = {}
                        /\ ("correct" \in done[s]) <=> ("launch1" \in retracted[s])
                        /\ ("correct" \in done[s]) <=> ("launch2" \in active[s])
                        /\ ("start" \in done[s]) <=> ("evidence1" \in active[s])
                        /\ ("start" \in done[s]) <=> (active[s] \intersect {"launch1", "launch2"} # {})
                        /\ ~({"launch1", "launch2"} \subseteq active[s])
        BY DEF CorrectionIsAtomic
    <2> QED BY DEF MemoryInv, Story, SeedRevisions
<1>3. ReceiptsFollowCorrection
    <2> SUFFICES ASSUME NEW s \in Session, NEW a \in Ask, NEW b \in Ask,
                        HasReceipt(s, a), HasReceipt(s, b),
                        receipts[s][a].created < receipts[s][b].created,
                        "launch2" \in receipts[s][a].recalled
                 PROVE  "launch2" \in receipts[s][b].recalled
        BY DEF ReceiptsFollowCorrection
    <2> QED BY DEF MemoryInv, ReceiptInv, Follows
<1> QED BY <1>1, <1>2, <1>3 DEF MemoryIsConsistent

\* Answers shown are the durable ones, a correction is recorded exactly when it happened, and
\* receipts never go back behind it, whatever requests race, die or are told "unknown".
THEOREM MemoryConsistent == Spec => []MemoryIsConsistent
<1>1. IInv => MemoryIsConsistent
    BY MemoryInvImplies DEF IInv
<1> QED BY <1>1, Inductive, PTL

\* Only the finalizing transaction writes receipts.
LEMMA OnlyFinalizeWrites ==
    ASSUME [Next]_vars
    PROVE  UNCHANGED receipts \/ \E w \in Worker : FinalizeAnswer(w)
BY DEF Next, WorkerStep, vars, storeVars, Arrive, Kill, StartSession, Reserve, Embed, Generate,
       Refused, StoreInitialFacts, Correct, ReplayAnswer, RetrieveSnapshot, BeginFinalize,
       LatestReceipt, TokenExpiry, Operator, EnableProvider, DisableProvider, Expire,
       StartSessionEffect, ReserveOperationEffect, StoreInitialFactsEffect, CorrectEffect

\* A receipt is written once, and lists exactly what is active at the instant it is written,
\* although the snapshot it was answered from was read several calls earlier.
THEOREM Grounded == Spec => ReceiptsAreGrounded
<1> DEFINE Written(s, a) ==
        receipts'[s][a] # receipts[s][a] =>
            /\ ~HasReceipt(s, a)
            /\ receipts'[s][a].recalled = ActivePublic(s)
            /\ receipts'[s][a].withheld = ActiveRestricted(s)
<1>1. IInv /\ [Next]_vars => [\A s \in Session, a \in Ask : Written(s, a)]_vars
    <2> SUFFICES ASSUME IInv, [Next]_vars, NEW s \in Session, NEW a \in Ask,
                        receipts'[s][a] # receipts[s][a]
                 PROVE  Written(s, a)
        OBVIOUS
    <2>1. PICK w \in Worker : FinalizeAnswer(w)
        BY OnlyFinalizeWrites
    <2>2. PICK x, b, r : x = SessionOf(w) /\ b = StepOf(w) /\ r = Candidate(w)
        OBVIOUS
    <2>3. /\ ~HasReceipt(x, b) /\ FinalizeEffect(x, b, r) /\ x \in Session /\ b \in Ask
          /\ r.recalled = ActivePublic(x) /\ r.withheld = ActiveRestricted(x)
        BY <2>1, <2>2, FinalizeFacts DEF IInv
    <2>4. s = x /\ a = b /\ receipts'[s][a] = r
        BY <2>3 DEF FinalizeEffect, IInv, TypeOK, StoreTypeOK
    <2> QED BY <2>3, <2>4
<1> QED BY <1>1, Inductive, PTL DEF Spec, ReceiptsAreGrounded

---------------------------------------------------------------------------
(* The refinement of AnswerLedger.                                         *)

\* The ledger's variables as functions of the orchestrator's state.
Recorded ==
    [s \in Session |-> [a \in Ask |->
        IF HasReceipt(s, a) THEN {Lineage(receipts[s][a])} ELSE {}]]

Seen == [s \in Session |-> [a \in Ask |-> {Lineage(r) : r \in answers[s][a]}]]

LEMMA MapKept ==
    /\ UNCHANGED receipts => UNCHANGED Recorded
    /\ UNCHANGED answers => UNCHANGED Seen
BY DEF Recorded, Seen, HasReceipt

LEMMA LedgerStutters ==
    ASSUME UNCHANGED <<active, Recorded, Seen>>
    PROVE  UNCHANGED Ledger!ledger
BY DEF Ledger!ledger, Recorded, Seen

\* Releasing the answer of the receipt there will be, of which nothing else was ever released.
LEMMA ReleaseSeen ==
    ASSUME TypeOK, NEW s \in Session, NEW a \in Ask, NEW r, Release(s, a, r),
           \A q \in answers[s][a] : q = AnswerOf(r)
    PROVE  Seen' = [Seen EXCEPT ![s][a] = {Lineage(r)}]
<1>1. \A x \in Session, b \in Ask :
         answers'[x][b] = IF x = s /\ b = a THEN {AnswerOf(r)} ELSE answers[x][b]
    BY DEF Release, TypeOK
<1>2. Lineage(AnswerOf(r)) = Lineage(r)
    BY DEF Lineage, AnswerOf
<1>3. {Lineage(q) : q \in answers'[s][a]} = {Lineage(r)}
    BY <1>1, <1>2
<1>4. \A x \in Session, b \in Ask : ~(x = s /\ b = a) =>
         {Lineage(q) : q \in answers'[x][b]} = {Lineage(q) : q \in answers[x][b]}
    BY <1>1
<1>5. \A x \in Session, b \in Ask :
         Seen'[x][b] = IF x = s /\ b = a THEN {Lineage(r)} ELSE Seen[x][b]
    BY <1>3, <1>4 DEF Seen
<1>6. \A x \in Session : Seen'[x] = IF x = s THEN [Seen[s] EXCEPT ![a] = {Lineage(r)}]
                                             ELSE Seen[x]
    BY <1>5 DEF Seen
<1> QED BY <1>6 DEF Seen

LEMMA ShowRefines ==
    ASSUME TypeOK, AnswersAreDurable, NEW s \in Session, NEW a \in Ask, NEW r,
           HasReceipt(s, a), AnswerOf(r) = AnswerOf(receipts[s][a]), Release(s, a, r),
           UNCHANGED <<active, receipts>>
    PROVE  Ledger!Show(s, a)
<1>1. Lineage(r) = Lineage(receipts[s][a])
    BY DEF AnswerOf, Lineage
<1>2. Seen' = [Seen EXCEPT ![s][a] = {Lineage(r)}]
    BY ReleaseSeen DEF AnswersAreDurable
<1>3. Recorded[s][a] = {Lineage(r)}
    BY <1>1 DEF Recorded
<1>4. UNCHANGED <<active, Recorded>>
    BY MapKept
<1> QED BY <1>2, <1>3, <1>4 DEF Ledger!Show, Recorded, Seen

LEMMA RecordRefines ==
    ASSUME TypeOK, AnswersAreDurable, NEW s \in Session, NEW a \in Ask, NEW r \in Receipt,
           r # NoReceipt, ~HasReceipt(s, a), FinalizeEffect(s, a, r), active[s] # {},
           r.recalled = ActivePublic(s), r.withheld = ActiveRestricted(s),
           UNCHANGED answers \/ Release(s, a, r)
    PROVE  Ledger!Record(s, a)
<1>1. \A x \in Session, b \in Ask :
         receipts'[x][b] = IF x = s /\ b = a THEN r ELSE receipts[x][b]
    BY DEF FinalizeEffect, TypeOK, StoreTypeOK
<1>2. \A x \in Session, b \in Ask :
         Recorded'[x][b] = IF x = s /\ b = a THEN {Lineage(r)} ELSE Recorded[x][b]
    BY <1>1 DEF Recorded, HasReceipt
<1>3. \A x \in Session : Recorded'[x] = IF x = s THEN [Recorded[s] EXCEPT ![a] = {Lineage(r)}]
                                                 ELSE Recorded[x]
    <2>1. \A x \in Session : /\ Recorded[x] = [b \in Ask |-> Recorded[x][b]]
                            /\ Recorded'[x] = [b \in Ask |-> Recorded'[x][b]]
        BY DEF Recorded
    <2>2. ASSUME NEW x \in Session, x # s PROVE Recorded'[x] = Recorded[x]
        BY <1>2, <2>1, <2>2
    <2>3. Recorded'[s] = [Recorded[s] EXCEPT ![a] = {Lineage(r)}]
        BY <1>2, <2>1
    <2> QED BY <2>2, <2>3
<1>4. Recorded' = [Recorded EXCEPT ![s][a] = {Lineage(r)}]
    BY <1>3 DEF Recorded
<1>5. Lineage(r) = [recalled |-> active[s] \ Restricted,
                    withheld |-> active[s] \intersect Restricted]
    BY DEF Lineage, ActivePublic, ActiveRestricted
<1>6. Recorded[s][a] = {} /\ Recorded'[s][a] = {Lineage(r)}
    BY <1>2 DEF Recorded
<1>7. Seen' = [Seen EXCEPT ![s][a] = Recorded'[s][a]] \/ UNCHANGED Seen
    BY <1>6, MapKept, ReleaseSeen DEF AnswersAreDurable
<1>8. UNCHANGED active
    BY DEF FinalizeEffect
<1> QED BY <1>4, <1>5, <1>6, <1>7, <1>8 DEF Ledger!Record, Recorded, Seen

\* The two effects are the two changes of the memory.
LEMMA EffectRefines ==
    ASSUME IInv, NEW w \in Worker, StoreInitialFacts(w) \/ Correct(w)
    PROVE  Ledger!Next \/ UNCHANGED Ledger!ledger
<1>1. PICK s \in Session : s = SessionOf(w)
    <2>1. ~At(w, "idle")
        BY DEF StoreInitialFacts, Correct, At
    <2> QED BY <2>1, WorkerSession DEF IInv
<1>2. UNCHANGED <<Recorded, Seen>>
    BY MapKept DEF StoreInitialFacts, Correct, StoreInitialFactsEffect, CorrectEffect, storeVars,
                   observed
<1>3. \/ UNCHANGED active
      \/ "start" \notin done[s] /\ StoreInitialFactsEffect(s)
      \/ "launch1" \in active[s] /\ CorrectEffect(s)
    BY <1>1 DEF StoreInitialFacts, Correct, StoreInitialFactsOutcome, CorrectOutcome, Writes,
                storeVars
<1>4. CASE UNCHANGED active
    BY <1>2, <1>4, LedgerStutters
<1>5. CASE "start" \notin done[s] /\ StoreInitialFactsEffect(s)
    <2>1. active[s] = {}
        BY <1>5 DEF IInv, MemoryInv, Story
    <2>2. active' = [active EXCEPT ![s] = SeedRevisions]
        BY <1>5, <2>1 DEF StoreInitialFactsEffect
    <2>3. Ledger!SeedMemory(s)
        BY <1>2, <2>1, <2>2 DEF Ledger!SeedMemory, Recorded, Seen
    <2> QED BY <2>3 DEF Ledger!Next
<1>6. CASE "launch1" \in active[s] /\ CorrectEffect(s)
    <2>1. Ledger!Supersede(s)
        BY <1>2, <1>6 DEF Ledger!Supersede, CorrectEffect, Recorded, Seen
    <2> QED BY <2>1 DEF Ledger!Next
<1> QED BY <1>3, <1>4, <1>5, <1>6

LEMMA FinalizeRefines ==
    ASSUME IInv, NEW w \in Worker, FinalizeAnswer(w)
    PROVE  Ledger!Next \/ UNCHANGED Ledger!ledger
<1>1. PICK s, a, r : s = SessionOf(w) /\ a = StepOf(w) /\ r = Candidate(w)
    OBVIOUS
<1>2. /\ s \in Session /\ a \in Ask /\ r \in Receipt /\ r # NoReceipt /\ Snapshot(s, r)
      /\ UNCHANGED active
    BY <1>1, FinalizeFacts DEF IInv
<1>3. \/ /\ UNCHANGED receipts
         /\ \/ UNCHANGED answers
            \/ /\ HasReceipt(s, a) /\ AnswerOf(r) = AnswerOf(receipts[s][a])
               /\ Release(s, a, r)
      \/ /\ ~HasReceipt(s, a) /\ FinalizeEffect(s, a, r)
         /\ r.recalled = ActivePublic(s) /\ r.withheld = ActiveRestricted(s)
         /\ UNCHANGED answers \/ Release(s, a, r)
    BY <1>1, FinalizeFacts DEF IInv
<1>4. TypeOK /\ AnswersAreDurable
    BY DEF IInv, MemoryInv
<1>5. CASE UNCHANGED receipts /\ UNCHANGED answers
    BY <1>2, <1>5, MapKept, LedgerStutters
<1>6. CASE /\ UNCHANGED receipts /\ HasReceipt(s, a)
           /\ AnswerOf(r) = AnswerOf(receipts[s][a]) /\ Release(s, a, r)
    BY <1>2, <1>4, <1>6, ShowRefines DEF Ledger!Next
<1>7. CASE /\ ~HasReceipt(s, a) /\ FinalizeEffect(s, a, r)
           /\ r.recalled = ActivePublic(s) /\ r.withheld = ActiveRestricted(s)
           /\ UNCHANGED answers \/ Release(s, a, r)
    <2>1. active[s] # {}
        BY <1>2, SnapshotOfStory DEF IInv, MemoryInv, Snapshot
    <2>2. Ledger!Record(s, a)
        BY <1>2, <1>4, <1>7, <2>1, RecordRefines
    <2> QED BY <1>2, <2>2 DEF Ledger!Next
<1> QED BY <1>3, <1>5, <1>6, <1>7

\* No other step touches memory, receipts or answers, but for the two that show a receipt.
LEMMA OtherStepsStutter ==
    ASSUME [Next]_vars,
           \A w \in Worker : ~(StoreInitialFacts(w) \/ Correct(w) \/ FinalizeAnswer(w)
                                \/ ReplayAnswer(w) \/ LatestReceipt(w))
    PROVE  UNCHANGED <<active, receipts, answers>>
BY DEF Next, WorkerStep, vars, storeVars, observed, Arrive, Kill, StartSession, Reserve, Embed,
       Generate, Refused, RetrieveSnapshot, BeginFinalize, TokenExpiry, Operator, EnableProvider,
       DisableProvider, Expire, StartSessionEffect, ReserveOperationEffect

LEMMA LedgerStep ==
    ASSUME IInv, [Next]_vars
    PROVE  Ledger!Next \/ UNCHANGED Ledger!ledger
<1>1. ASSUME NEW w \in Worker, ReplayAnswer(w) \/ LatestReceipt(w)
      PROVE  Ledger!Next \/ UNCHANGED Ledger!ledger
    <2>1. UNCHANGED <<active, receipts>>
        BY <1>1 DEF ReplayAnswer, LatestReceipt, storeVars
    <2>2. CASE UNCHANGED answers
        BY <2>1, <2>2, MapKept, LedgerStutters
    <2>3. CASE answers' # answers
        <3>1. PICK s \in Session, a \in Ask : HasReceipt(s, a) /\ Release(s, a, receipts[s][a])
            BY <1>1, <2>3, ShowsReceipt DEF IInv
        <3>2. Ledger!Show(s, a)
            BY <2>1, <3>1, ShowRefines DEF IInv, MemoryInv
        <3> QED BY <3>2 DEF Ledger!Next
    <2> QED BY <2>2, <2>3
<1>2. CASE \A w \in Worker : ~(StoreInitialFacts(w) \/ Correct(w) \/ FinalizeAnswer(w)
                                \/ ReplayAnswer(w) \/ LatestReceipt(w))
    BY <1>2, OtherStepsStutter, MapKept, LedgerStutters
<1> QED BY <1>1, <1>2, EffectRefines, FinalizeRefines

LEMMA LedgerInit == Init => Ledger!Init
<1> SUFFICES ASSUME Init PROVE Ledger!Init
    OBVIOUS
<1>1. Recorded = [s \in Session |-> [a \in Ask |-> {}]]
    BY DEF Init, StoreInit, Recorded, HasReceipt
<1>2. Seen = [s \in Session |-> [a \in Ask |-> {}]]
    BY DEF Init, Seen
<1> QED BY <1>1, <1>2 DEF Ledger!Init, Init, StoreInit, Recorded, Seen

\* Whatever workers race, die or retry, the session behaves as the ledger: it is seeded and
\* corrected once, each question is recorded once, from the memory of one instant, and
\* nothing else is ever shown.
THEOREM LedgerImplemented == Spec => ImplementsLedger
<1>1. IInv /\ [Next]_vars => [Ledger!Next]_(Ledger!ledger)
    BY LedgerStep
<1> QED BY <1>1, LedgerInit, Inductive, PTL DEF Spec, ImplementsLedger, Ledger!Spec
=============================================================================
