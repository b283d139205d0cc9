--------------------------- MODULE ServingProofs ---------------------------
(***************************************************************************)
(* Theorems about what serves a request: the process started for it, for   *)
(* every limit on its output, and the transmissions it makes, for every    *)
(* set of requests and decisions, every policy lifetime and every          *)
(* patience, and the local fixture's queue and state rows, for every bound *)
(* of theirs.                                                              *)
(***************************************************************************)
EXTENDS RequestProcess, BedrockTransmission, SyntheticFixture, FiniteSetTheorems, TLAPS

---------------------------------------------------------------------------
(* The process (RequestProcess).                                           *)

Chunk == {"head", "tail", "unknown", "more"}

ProcessTypeOK ==
    /\ group \subseteq {"launcher", "worker"}
    /\ job \in {"none", "reading", "running", "head", "more", "unknown", "done"}
    /\ exit \in {0, 1} /\ errors \in {0, 1}
    /\ pipe \in Seq(Chunk)
    /\ watch \in [taken : Seq(Chunk), failed : BOOLEAN, killed : BOOLEAN, armed : BOOLEAN]
    /\ reply \in [kind : {"none", "unknown", "child_exit", "result"}, body : Seq(Chunk)]

\* A group that was killed is gone for good, nothing is kept beyond the limit, and whoever ends
\* well without having been failed ended after the work was done: the exit code stays 0 only
\* past a worker that is done, and what never started either reports an error or is starting.
ProcessInv ==
    /\ watch.killed => group = {} /\ watch.failed
    /\ ~watch.armed => watch.killed
    /\ Len(watch.taken) =< OutputLimit
    /\ ~watch.failed /\ exit = 0 /\ "worker" \notin group =>
          job = "done" \/ (job = "none" /\ (group = {"launcher"} \/ errors = 1))
    /\ job = "none" => "worker" \notin group
    /\ NobodyRunsOn

LEMMA ProcessInitInv == ASSUME ProcessAssumption PROVE ProcessInit => ProcessTypeOK /\ ProcessInv
BY DEF ProcessInit, NotSpawned, Spawned, Pending, ProcessTypeOK, ProcessInv, NobodyRunsOn,
       ProcessAssumption

LEMMA WorkerSteps ==
    ASSUME ProcessAssumption, ProcessTypeOK, ProcessInv,
           Launch \/ ReadInput \/ WriteOutput \/ EndWorker \/ EndLauncher \/ BreakStream
    PROVE  ProcessTypeOK' /\ ProcessInv'
<1>1. CASE Launch
    BY <1>1 DEF Launch, ProcessTypeOK, ProcessInv, NobodyRunsOn, Pending, Chunk
<1>2. CASE ReadInput
    <2>1. Append(pipe, "unknown") \in Seq(Chunk)
        BY DEF ProcessTypeOK, Chunk
    <2> QED BY <1>2, <2>1 DEF ReadInput, ProcessTypeOK, ProcessInv, NobodyRunsOn
<1>3. CASE WriteOutput
    <2>1. \A o \in Output : o[1] \in {"head", "unknown", "more"}
        BY DEF Output, ProcessAssumption
    <2>2. \A c \in Chunk : Append(pipe, c) \in Seq(Chunk)
        BY DEF ProcessTypeOK
    <2>3. "worker" \in group /\ job' # "none" /\ UNCHANGED <<group, exit, errors, watch, reply>>
        BY <1>3, <2>1 DEF WriteOutput
    <2>4. job' \in {"head", "more", "unknown", "done"} /\ pipe' \in Seq(Chunk)
        BY <1>3, <2>1, <2>2 DEF WriteOutput, Chunk, ProcessTypeOK
    <2> QED BY <2>3, <2>4 DEF ProcessTypeOK, ProcessInv, NobodyRunsOn
<1>4. CASE EndWorker
    BY <1>4 DEF EndWorker, ProcessTypeOK, ProcessInv, NobodyRunsOn
<1>5. CASE EndLauncher
    BY <1>5 DEF EndLauncher, ProcessTypeOK, ProcessInv, NobodyRunsOn
<1>6. CASE BreakStream
    BY <1>6 DEF BreakStream, ProcessTypeOK, ProcessInv, NobodyRunsOn, Pending
<1> QED BY <1>1, <1>2, <1>3, <1>4, <1>5, <1>6

LEMMA TerminateKeeps ==
    ASSUME ProcessTypeOK, ProcessInv, Terminate
    PROVE  /\ group' = {}
           /\ watch' = [watch EXCEPT !.failed = TRUE, !.killed = TRUE]
           /\ watch'.failed /\ watch'.killed /\ watch'.taken = watch.taken
           /\ watch' \in [taken : Seq(Chunk), failed : BOOLEAN, killed : BOOLEAN, armed : BOOLEAN]
BY DEF Terminate, ProcessTypeOK, ProcessInv

LEMMA EventSteps ==
    ASSUME ProcessAssumption, ProcessTypeOK, ProcessInv,
           OnError \/ OnData \/ OnTimeout \/ OnClose
    PROVE  ProcessTypeOK' /\ ProcessInv'
<1>1. CASE OnError
    BY <1>1, TerminateKeeps DEF OnError, ProcessTypeOK, ProcessInv, NobodyRunsOn, Pending
<1>2. CASE OnData
    <2>1. Head(pipe) \in Chunk /\ Tail(pipe) \in Seq(Chunk)
        BY <1>2 DEF OnData, ProcessTypeOK
    <2>2. CASE watch.failed
        BY <1>2, <2>1, <2>2 DEF OnData, ProcessTypeOK, ProcessInv, NobodyRunsOn
    <2>3. CASE ~watch.failed /\ Terminate
        BY <1>2, <2>1, <2>3, TerminateKeeps DEF OnData, ProcessTypeOK, ProcessInv, NobodyRunsOn
    <2>4. CASE ~watch.failed /\ ~(Len(watch.taken) >= OutputLimit)
        <3>1. watch' = [watch EXCEPT !.taken = Append(@, Head(pipe))] /\ UNCHANGED group
            BY <1>2, <2>4 DEF OnData
        <3>2. /\ Append(watch.taken, Head(pipe)) \in Seq(Chunk)
              /\ Len(Append(watch.taken, Head(pipe))) =< OutputLimit
            BY <2>1, <2>4 DEF ProcessTypeOK, ProcessAssumption
        <3>3. /\ watch'.taken = Append(watch.taken, Head(pipe))
              /\ watch'.failed = watch.failed /\ watch'.killed = watch.killed
              /\ watch'.armed = watch.armed
              /\ watch' \in [taken : Seq(Chunk), failed : BOOLEAN, killed : BOOLEAN,
                             armed : BOOLEAN]
            BY <3>1, <3>2 DEF ProcessTypeOK
        <3> QED BY <1>2, <2>1, <3>1, <3>2, <3>3
                DEF OnData, ProcessTypeOK, ProcessInv, NobodyRunsOn
    <2> QED BY <1>2, <2>2, <2>3, <2>4 DEF OnData
<1>3. CASE OnTimeout
    BY <1>3 DEF OnTimeout, ProcessTypeOK, ProcessInv, NobodyRunsOn
<1>4. CASE OnClose
    <2>1. /\ group = {} /\ errors = 0 /\ reply' = Reply
          /\ UNCHANGED <<group, job, exit, pipe, errors, watch>>
        BY <1>4 DEF OnClose, Closed
    <2>2. /\ Reply \in [kind : {"none", "unknown", "child_exit", "result"}, body : Seq(Chunk)]
          /\ Reply.kind = "result" => /\ ~watch.failed /\ exit = 0
                                      /\ Parses(watch.taken) /\ Reply.body = watch.taken
        BY DEF Reply, ProcessTypeOK
    <2>3. Reply.kind = "result" => job = "done"
        BY <2>1, <2>2 DEF ProcessInv
    <2> QED BY <2>1, <2>2, <2>3 DEF ProcessTypeOK, ProcessInv, NobodyRunsOn
<1> QED BY <1>1, <1>2, <1>3, <1>4

LEMMA ProcessNextInv ==
    ASSUME ProcessAssumption
    PROVE  ProcessTypeOK /\ ProcessInv /\ [ProcessNext]_processVars => ProcessTypeOK' /\ ProcessInv'
<1> SUFFICES ASSUME ProcessTypeOK, ProcessInv, [ProcessNext]_processVars
             PROVE  ProcessTypeOK' /\ ProcessInv'
    OBVIOUS
<1>1. CASE UNCHANGED processVars
    BY <1>1 DEF processVars, ProcessTypeOK, ProcessInv, NobodyRunsOn
<1> QED BY <1>1, WorkerSteps, EventSteps DEF ProcessNext

\* Whatever the launcher, the worker and its streams do, and whenever the timer fires: when a
\* request is answered nothing of it runs on, and a result is all that one worker printed
\* before it ended well.
THEOREM AnswersEndTheRequest == ASSUME ProcessAssumption PROVE ProcessSpec => []NobodyRunsOn
<1>1. ProcessTypeOK /\ ProcessInv => NobodyRunsOn
    BY DEF ProcessInv
<1> QED BY <1>1, ProcessInitInv, ProcessNextInv, PTL DEF ProcessSpec

---------------------------------------------------------------------------
(* The transmissions (BedrockTransmission).                                *)

Grant == [id : Decision, for : Transmission, issued : Nat, expires : Nat]
Denial == {"policy_denied", "provider_error", "timeout"}

BedrockTypeOK ==
    /\ moment \in Nat
    /\ transfer \in [Transmission ->
            [phase : {"new", "authorizing", "sent", "answered"}, since : Nat, aborted : BOOLEAN,
             outcome : {"none", "succeeded", "invalid_provider_response", "unknown"} \union Denial]]
    /\ granted \subseteq Grant
    /\ consumed \subseteq Decision
    /\ egress \subseteq [request : Transmission, grant : Grant, at : Nat]

\* Only what was sent can have left, and no denial is ever given to it; a decision that let a
\* request out is a consumed one, and identifies its grant.
BedrockInv ==
    /\ \A r \in Transmission : transfer[r].phase # "answered" =>
          transfer[r].outcome = "none" /\ ~transfer[r].aborted
    /\ \A e \in egress : /\ e.grant.id \in consumed
                         /\ transfer[e.request].phase \in {"sent", "answered"}
                         /\ transfer[e.request].outcome \notin Denial
    /\ OneDecisionPerEgress

LEMMA BedrockInitInv == BedrockAssumption => (BedrockInit => BedrockTypeOK /\ BedrockInv)
BY DEF BedrockInit, BedrockTypeOK, BedrockInv, OneDecisionPerEgress, Denial

\* A step that lets nothing out and denies only what did not leave.
LEMMA NothingLeaves ==
    ASSUME BedrockTypeOK, BedrockInv, UNCHANGED <<consumed, egress>>,
           NEW r \in Transmission, \A q \in Transmission \ {r} : transfer'[q] = transfer[q],
           transfer'[r].phase # "answered" => transfer'[r].outcome = "none" /\ ~transfer'[r].aborted,
           transfer[r].phase \in {"sent", "answered"} =>
              /\ transfer'[r].phase \in {"sent", "answered"}
              /\ transfer'[r].outcome \in Denial => transfer[r].outcome \in Denial,
           r \in {e.request : e \in egress} => transfer[r].phase \in {"sent", "answered"}
    PROVE  BedrockInv'
<1>1. \A e \in egress : /\ transfer'[e.request].phase \in {"sent", "answered"}
                        /\ transfer'[e.request].outcome \notin Denial
    BY DEF BedrockInv, BedrockTypeOK
<1>2. \A q \in Transmission : transfer'[q].outcome \in Denial => q \notin {e.request : e \in egress}
    BY <1>1
<1>3. OneDecisionPerEgress'
    BY <1>2 DEF BedrockInv, OneDecisionPerEgress, Denial
<1> QED BY <1>1, <1>3 DEF BedrockInv

LEMMA AnsweredType ==
    ASSUME BedrockTypeOK, NEW r \in Transmission,
           NEW o \in {"none", "succeeded", "invalid_provider_response", "unknown"} \union Denial,
           transfer' = Answered(r, o), UNCHANGED <<moment, consumed, egress>>, granted' \subseteq Grant
    PROVE  /\ BedrockTypeOK'
           /\ \A q \in Transmission \ {r} : transfer'[q] = transfer[q]
           /\ transfer'[r].phase = "answered" /\ transfer'[r].outcome = o
BY DEF Answered, BedrockTypeOK

LEMMA GrantType ==
    ASSUME BedrockAssumption, BedrockTypeOK, NEW r \in Transmission,
           NEW g \in granted \union FreshGrants(r)
    PROVE  g \in Grant
BY DEF BedrockAssumption, BedrockTypeOK, FreshGrants, Grant

LEMMA DispatchInv ==
    ASSUME BedrockAssumption, BedrockTypeOK, BedrockInv, NEW r \in Transmission, NEW g \in Grant,
           transfer[r].phase = "authorizing", Dispatchable(g, r), granted' \subseteq Grant,
           consumed' = consumed \union {g.id}, UNCHANGED moment,
           egress' = egress \union {[request |-> r, grant |-> g, at |-> moment]},
           transfer' = [transfer EXCEPT ![r].phase = "sent"]
    PROVE  BedrockTypeOK' /\ BedrockInv'
<1> DEFINE e0 == [request |-> r, grant |-> g, at |-> moment]
<1>1. BedrockTypeOK'
    <2>1. consumed' \subseteq Decision
        BY DEF BedrockTypeOK, Grant
    <2>2. egress' \subseteq [request : Transmission, grant : Grant, at : Nat]
        BY DEF BedrockTypeOK
    <2> QED BY <2>1, <2>2 DEF BedrockTypeOK
<1>2. /\ transfer'[r].phase = "sent" /\ transfer'[r].outcome = "none" /\ ~transfer'[r].aborted
      /\ \A q \in Transmission \ {r} : transfer'[q] = transfer[q]
    BY DEF BedrockTypeOK, BedrockInv, Dispatchable, InTime
<1>3. \A e \in egress : e.request # r /\ e.grant.id # g.id
    BY DEF BedrockInv, Dispatchable
<1>4. e0.grant.for = e0.request /\ e0.at \in e0.grant.issued..(e0.grant.issued + Lifetime - 1)
    BY DEF Dispatchable, Binds, Grant, BedrockTypeOK, BedrockAssumption
<1>5. \A e \in egress' : /\ e.grant.for = e.request
                         /\ e.at \in e.grant.issued..(e.grant.issued + Lifetime - 1)
    BY <1>4 DEF BedrockInv, OneDecisionPerEgress
<1>6. \A e, f \in egress' : e.request = f.request \/ e.grant.id = f.grant.id => e = f
    BY <1>3 DEF BedrockInv, OneDecisionPerEgress
<1>7. \A e \in egress' : /\ e.grant.id \in consumed'
                         /\ transfer'[e.request].phase \in {"sent", "answered"}
                         /\ transfer'[e.request].outcome \notin Denial
    BY <1>2, <1>3 DEF BedrockInv, BedrockTypeOK, Denial
<1>8. OneDecisionPerEgress'
    BY <1>5, <1>6, <1>7 DEF OneDecisionPerEgress, Denial
<1> QED BY <1>1, <1>2, <1>7, <1>8 DEF BedrockInv

LEMMA AuthorizeInv ==
    ASSUME BedrockAssumption, BedrockTypeOK, BedrockInv, NEW r \in Transmission, AuthorizeTransmission(r)
    PROVE  BedrockTypeOK' /\ BedrockInv'
<1>1. PICK g \in granted \union FreshGrants(r) :
          /\ granted' = granted \union {g}
          /\ IF Dispatchable(g, r)
               THEN /\ consumed' = consumed \union {g.id}
                    /\ egress' = egress \union {[request |-> r, grant |-> g, at |-> moment]}
                    /\ transfer' = [transfer EXCEPT ![r].phase =
                                        IF @ = "authorizing" THEN "sent" ELSE @]
               ELSE /\ transfer' = IF InTime(r) THEN Answered(r, "policy_denied") ELSE transfer
                    /\ UNCHANGED <<consumed, egress>>
    BY DEF AuthorizeTransmission
<1>2. g \in Grant /\ granted' \subseteq Grant /\ UNCHANGED moment
    BY <1>1, GrantType DEF AuthorizeTransmission, BedrockTypeOK
<1>3. CASE Dispatchable(g, r)
    <2>1. transfer[r].phase = "authorizing"
        BY <1>3 DEF AuthorizeTransmission, Dispatchable, InTime
    <2>2. transfer' = [transfer EXCEPT ![r].phase = "sent"]
        BY <1>1, <1>3, <2>1 DEF BedrockTypeOK
    <2> QED BY <1>1, <1>2, <1>3, <2>1, <2>2, DispatchInv
<1>4. CASE ~Dispatchable(g, r) /\ InTime(r)
    <2>1. transfer[r].phase = "authorizing"
        BY <1>4 DEF AuthorizeTransmission, InTime
    <2>2. transfer' = Answered(r, "policy_denied") /\ UNCHANGED <<consumed, egress>>
        BY <1>1, <1>4
    <2>3. r \notin {e.request : e \in egress}
        BY <2>1 DEF BedrockInv
    <2> QED BY <1>2, <2>1, <2>2, <2>3, AnsweredType, NothingLeaves DEF Denial
<1>5. CASE ~Dispatchable(g, r) /\ ~InTime(r)
    <2>1. UNCHANGED <<moment, transfer, consumed, egress>>
        BY <1>1, <1>2, <1>5
    <2> QED BY <1>2, <2>1 DEF BedrockTypeOK, BedrockInv, OneDecisionPerEgress
<1> QED BY <1>3, <1>4, <1>5

\* Every other step of a request, and time.
LEMMA OtherTransmissionSteps ==
    ASSUME BedrockAssumption, BedrockTypeOK, BedrockInv,
           \/ \E r \in Transmission : \/ RequestTransmission(r) \/ DenyTransmission(r)
                                      \/ Provide(r) \/ TimeOut(r)
           \/ Pass
           \/ UNCHANGED bedrockVars
    PROVE  BedrockTypeOK' /\ BedrockInv'
<1>1. ASSUME NEW r \in Transmission, RequestTransmission(r) PROVE BedrockTypeOK' /\ BedrockInv'
    <2>1. /\ BedrockTypeOK'
          /\ \A q \in Transmission \ {r} : transfer'[q] = transfer[q]
          /\ transfer'[r].phase = "authorizing" /\ transfer'[r].outcome = transfer[r].outcome
          /\ transfer'[r].aborted = transfer[r].aborted
        BY <1>1 DEF RequestTransmission, BedrockTypeOK
    <2>2. r \notin {e.request : e \in egress}
        BY <1>1 DEF RequestTransmission, BedrockInv
    <2> QED BY <1>1, <2>1, <2>2, NothingLeaves DEF RequestTransmission, BedrockInv
<1>2. ASSUME NEW r \in Transmission, DenyTransmission(r) PROVE BedrockTypeOK' /\ BedrockInv'
    <2>1. r \notin {e.request : e \in egress} /\ transfer[r].phase = "authorizing"
        BY <1>2 DEF DenyTransmission, BedrockInv
    <2> QED BY <1>2, <2>1, AnsweredType, NothingLeaves DEF DenyTransmission, BedrockTypeOK, Denial
<1>3. ASSUME NEW r \in Transmission, Provide(r) PROVE BedrockTypeOK' /\ BedrockInv'
    BY <1>3, AnsweredType, NothingLeaves DEF Provide, BedrockTypeOK, Denial
<1>4. ASSUME NEW r \in Transmission, TimeOut(r) PROVE BedrockTypeOK' /\ BedrockInv'
    <2>1. /\ BedrockTypeOK'
          /\ \A q \in Transmission \ {r} : transfer'[q] = transfer[q]
          /\ transfer'[r].phase = "answered"
          /\ transfer'[r].outcome = IF transfer[r].phase = "sent" THEN "unknown" ELSE "timeout"
        <3> DEFINE o == IF transfer[r].phase = "sent" THEN "unknown" ELSE "timeout"
                   t == [transfer[r] EXCEPT !.phase = "answered", !.outcome = o, !.aborted = TRUE]
        <3>1. transfer' = [transfer EXCEPT ![r] = t]
            BY <1>4 DEF TimeOut, Answered, BedrockTypeOK
        <3>2. t.phase = "answered" /\ t.outcome = o
            BY DEF BedrockTypeOK
        <3>3. BedrockTypeOK'
            <4>1. o \in {"none", "succeeded", "invalid_provider_response", "unknown"} \union Denial
                BY DEF Denial
            <4>2. t \in [phase : {"new", "authorizing", "sent", "answered"}, since : Nat,
                         aborted : BOOLEAN,
                         outcome : {"none", "succeeded", "invalid_provider_response", "unknown"}
                                     \union Denial]
                BY <4>1 DEF BedrockTypeOK
            <4> HIDE DEF t
            <4> QED BY <1>4, <3>1, <4>2 DEF TimeOut, BedrockTypeOK
        <3> QED BY <3>1, <3>2, <3>3 DEF BedrockTypeOK
    <2>2. transfer[r].phase = "authorizing" => r \notin {e.request : e \in egress}
        BY DEF BedrockInv
    <2> QED BY <1>4, <2>1, <2>2, NothingLeaves DEF TimeOut, Denial
<1>5. CASE Pass \/ UNCHANGED bedrockVars
    <2>1. UNCHANGED <<transfer, granted, consumed, egress>> /\ moment' \in Nat
        BY <1>5 DEF Pass, bedrockVars, BedrockTypeOK
    <2> QED BY <2>1 DEF BedrockTypeOK, BedrockInv, OneDecisionPerEgress
<1> QED BY <1>1, <1>2, <1>3, <1>4, <1>5

LEMMA BedrockNextInv ==
    ASSUME BedrockAssumption
    PROVE  BedrockTypeOK /\ BedrockInv /\ [BedrockNext]_bedrockVars => BedrockTypeOK' /\ BedrockInv'
BY AuthorizeInv, OtherTransmissionSteps DEF BedrockNext

\* However often a policy repeats a decision, however late it answers and for however long it
\* grants one: every egress has one decision of its own, and a denial stays true.
THEOREM DecidedOnce == ASSUME BedrockAssumption PROVE BedrockSpec => []OneDecisionPerEgress
<1>1. BedrockTypeOK /\ BedrockInv => OneDecisionPerEgress
    BY DEF BedrockInv
<1> QED BY <1>1, BedrockInitInv, BedrockNextInv, PTL DEF BedrockSpec

---------------------------------------------------------------------------
(* The queue and the state rows (SyntheticFixture).                        *)

Handle(m, n) == [id |-> m, attempts |-> n, generation |-> generation]
WritesOf(k) == {t \in DOMAIN tokens : tokens[t].key = k}

\* What every attempt of a message leaves behind, wherever the message is.
Delivered ==
  /\ \A m \in DOMAIN queue : \A n \in 1 .. queue[m].attempts : Handle(m, n) \in handles
  /\ \A m \in dead : \A n \in 1 .. MaxAttempts : Handle(m, n) \in handles

OnePlace ==
  /\ DOMAIN seen = DOMAIN queue \cup dead \cup AckedIds
  /\ dead \intersect AckedIds = {}
  /\ (dead \cup AckedIds) \intersect DOMAIN queue = {}
  /\ IsFiniteSet(DOMAIN seen) /\ Cardinality(DOMAIN seen) =< Cap

\* The history of a state key: as many writes as its row has revisions.
History(k) ==
  /\ {tokens[t].revision : t \in WritesOf(k)} = 1 .. Cardinality(WritesOf(k))
  /\ k \in DOMAIN rows <=> WritesOf(k) # {}
  /\ k \in DOMAIN rows => rows[k].revision = Cardinality(WritesOf(k))
  /\ \A t \in WritesOf(k) :
       /\ tokens[t].expected # NoRevision => tokens[t].revision = tokens[t].expected + 1
       /\ tokens[t].revision = rows[k].revision => tokens[t].value = rows[k].value
       /\ tokens[t].revision <= rows[k].revision

Histories ==
  /\ IsFiniteSet(DOMAIN tokens)
  /\ \A t \in DOMAIN tokens : tokens[t].key \in Key /\ tokens[t].revision \in Nat
  /\ \A k \in Key : History(k)

FixtureInv == FixtureTypeOK /\ Delivered /\ OnePlace /\ Histories

\* A function without arguments, which the code's new Map() is.
LEMMA EmptyMap == DOMAIN << >> = {} /\ \A S : << >> \in [{} -> S]
OBVIOUS

LEMMA WithFacts ==
  ASSUME NEW f, NEW x, NEW y
  PROVE  /\ DOMAIN With(f, x, y) = DOMAIN f \cup {x}
         /\ With(f, x, y)[x] = y
         /\ \A z \in DOMAIN f : z # x => With(f, x, y)[z] = f[z]
BY DEF With

LEMMA WithType ==
  ASSUME NEW S, NEW f, f \in [DOMAIN f -> S], NEW x, NEW y \in S
  PROVE  With(f, x, y) \in [DOMAIN With(f, x, y) -> S]
BY DEF With

\* A message that is passed by claim() moves to the dead letters together with the others that
\* are, so their bound is never met halfway.
LEMMA BurialFits ==
  ASSUME FixtureAssumption, OnePlace
  PROVE  Cardinality(dead) + Cardinality(Buried) =< Cap
<1>1. Buried \subseteq DOMAIN queue /\ dead \cup Buried \subseteq DOMAIN seen
      /\ dead \intersect Buried = {}
  BY DEF OnePlace, Buried
<1>2. /\ IsFiniteSet(dead) /\ IsFiniteSet(Buried)
      /\ IsFiniteSet(dead \cup Buried) /\ Cardinality(dead \cup Buried) =< Cardinality(DOMAIN seen)
  BY <1>1, FS_Subset DEF OnePlace
<1>3. Cardinality(dead \cup Buried) = Cardinality(dead) + Cardinality(Buried)
  <2>1. Cardinality(dead \cup Buried)
          = Cardinality(dead) + Cardinality(Buried) - Cardinality(dead \intersect Buried)
    BY <1>2, FS_Union
  <2>2. Cardinality(dead \intersect Buried) = 0
    BY <1>1, FS_EmptySet
  <2> QED BY <1>2, <2>1, <2>2, FS_CardinalityType
<1> QED BY <1>2, <1>3, FS_CardinalityType DEF OnePlace, FixtureAssumption

LEMMA FixtureImplies ==
  ASSUME FixtureAssumption, FixtureInv
  PROVE  QueueInv
<1>1. EachMessageOnce
  BY BurialFits DEF FixtureInv, OnePlace, EachMessageOnce
<1>2. DeadAfterAllAttempts
  BY DEF FixtureInv, Delivered, DeadAfterAllAttempts, Handle
<1>3. RevisionsAreGapless
  BY DEF FixtureInv, Histories, History, WritesOf, RevisionsAreGapless
<1> QED BY <1>1, <1>2, <1>3 DEF FixtureInv, QueueInv

LEMMA StateKept ==
  ASSUME Histories, UNCHANGED stateVars
  PROVE  Histories'
BY DEF Histories, History, WritesOf, stateVars

LEMMA QueueKept ==
  ASSUME Delivered, OnePlace, UNCHANGED <<generation, queueVars>>
  PROVE  Delivered' /\ OnePlace'
BY DEF Delivered, OnePlace, Handle, AckedIds, queueVars

LEMMA FixtureInitInv == FixtureAssumption => (FixtureInit => FixtureInv)
<1> SUFFICES ASSUME FixtureAssumption, FixtureInit PROVE FixtureInv
  OBVIOUS
<1>1. DOMAIN seen = {} /\ DOMAIN queue = {} /\ DOMAIN rows = {} /\ DOMAIN tokens = {}
  BY EmptyMap DEF FixtureInit
<1>2. FixtureTypeOK
  BY <1>1, EmptyMap DEF FixtureInit, FixtureTypeOK
<1>3. AckedIds = {} /\ \A k \in Key : WritesOf(k) = {}
  BY <1>1 DEF FixtureInit, AckedIds, WritesOf
<1>4. Delivered
  BY <1>1 DEF FixtureInit, Delivered
<1>5. OnePlace
  BY <1>1, <1>3, FS_EmptySet DEF FixtureInit, OnePlace, FixtureAssumption
<1>6. ASSUME NEW k \in Key PROVE History(k)
  <2>1. WritesOf(k) = {} /\ Cardinality(WritesOf(k)) = 0
    BY <1>3, FS_EmptySet
  <2> QED BY <1>1, <2>1 DEF History
<1>7. Histories
  BY <1>1, <1>6, FS_EmptySet DEF Histories
<1> QED BY <1>2, <1>4, <1>5, <1>7 DEF FixtureInv

LEMMA EnqueueInv ==
  ASSUME FixtureAssumption, FixtureInv, NEW g, NEW m \in Message, NEW c \in Commitment,
         Enqueue(g, m, c)
  PROVE  FixtureInv'
<1> DEFINE fresh == [attempts |-> 0, left |-> 0]
<1>1. /\ m \notin DOMAIN seen /\ m \notin DOMAIN queue
      /\ Cardinality(DOMAIN seen) < Cap
      /\ seen' = With(seen, m, c) /\ queue' = With(queue, m, fresh)
      /\ UNCHANGED <<generation, scopes, dead, acked, handles, ordinal, journal, stateVars>>
  BY DEF Enqueue, Unseen, FixtureInv, OnePlace
<1>2. /\ DOMAIN seen' = DOMAIN seen \cup {m} /\ DOMAIN queue' = DOMAIN queue \cup {m}
      /\ queue'[m] = fresh /\ \A n \in DOMAIN queue : queue'[n] = queue[n]
  <2> HIDE DEF fresh
  <2>1. DOMAIN seen' = DOMAIN seen \cup {m}
    BY <1>1, WithFacts
  <2>2. DOMAIN queue' = DOMAIN queue \cup {m} /\ queue'[m] = fresh
    BY <1>1 DEF With
  <2>3. \A n \in DOMAIN queue : queue'[n] = queue[n]
    BY <1>1 DEF With
  <2> QED BY <2>1, <2>2, <2>3
<1>3. FixtureTypeOK'
  <2>1. seen' \in [DOMAIN seen' -> Commitment]
    BY <1>1, WithType DEF FixtureInv, FixtureTypeOK
  <2>2. queue' \in [DOMAIN queue' -> [attempts : 0 .. MaxAttempts, left : 0 .. Lease]]
    <3>1. fresh \in [attempts : 0 .. MaxAttempts, left : 0 .. Lease]
      BY DEF FixtureAssumption
    <3> HIDE DEF fresh
    <3> QED BY <1>1, <3>1, WithType DEF FixtureInv, FixtureTypeOK
  <2> QED BY <1>1, <1>2, <2>1, <2>2 DEF FixtureInv, FixtureTypeOK, stateVars
<1>4. Delivered'
  BY <1>1, <1>2 DEF FixtureInv, Delivered, Handle
<1>5. OnePlace'
  <2>1. IsFiniteSet(DOMAIN seen') /\ Cardinality(DOMAIN seen') = Cardinality(DOMAIN seen) + 1
    <3>1. IsFiniteSet(DOMAIN seen) /\ m \notin DOMAIN seen
      BY <1>1 DEF FixtureInv, OnePlace
    <3>2. /\ IsFiniteSet(DOMAIN seen \cup {m})
          /\ Cardinality(DOMAIN seen \cup {m}) = Cardinality(DOMAIN seen) + 1
      BY ONLY <3>1, FS_AddElement
    <3> QED BY <1>2, <3>2
  <2>2. Cardinality(DOMAIN seen') =< Cap
    BY <1>1, <2>1, FS_CardinalityType DEF FixtureInv, OnePlace, FixtureAssumption
  <2>3. UNCHANGED AckedIds
    BY <1>1 DEF AckedIds
  <2> QED BY <1>1, <1>2, <2>1, <2>2, <2>3 DEF FixtureInv, OnePlace
<1> QED BY <1>1, <1>3, <1>4, <1>5, StateKept DEF FixtureInv

LEMMA ClaimInv ==
  ASSUME FixtureAssumption, FixtureInv, NEW g, Claim(g)
  PROVE  FixtureInv'
<1> DEFINE next(m) == [attempts |-> queue[m].attempts + 1, left |-> Lease]
           given == {Handle(m, queue[m].attempts + 1) : m \in NextClaim}
<1>1. /\ dead' = dead \cup Buried /\ handles' = handles \cup given
      /\ queue' = [m \in Kept |-> IF m \in NextClaim THEN next(m) ELSE queue[m]]
      /\ UNCHANGED <<generation, scopes, seen, acked, ordinal, journal, stateVars>>
  BY DEF Claim, Handle
<1>2. /\ DOMAIN queue' = DOMAIN queue \ Buried /\ Buried \subseteq DOMAIN queue
      /\ NextClaim \subseteq DOMAIN queue
      /\ \A m \in DOMAIN queue' : queue'[m] = IF m \in NextClaim THEN next(m) ELSE queue[m]
  BY <1>1 DEF Kept, Buried, NextClaim
<1>3. \A m \in DOMAIN queue : /\ queue[m].attempts \in 0 .. MaxAttempts /\ queue[m].left \in 0 .. Lease
                              /\ m \in Message
  BY DEF FixtureInv, FixtureTypeOK, OnePlace
<1>4. /\ \A m \in NextClaim : queue[m].attempts + 1 \in 1 .. MaxAttempts
      /\ \A m \in Buried : queue[m].attempts = MaxAttempts
  BY <1>2, <1>3 DEF NextClaim, Claimable, Exhausted, Buried, FixtureAssumption
<1>5. FixtureTypeOK'
  <2>1. \A m \in NextClaim : next(m) \in [attempts : 0 .. MaxAttempts, left : 0 .. Lease]
    BY <1>4 DEF FixtureAssumption
  <2>2. \A m \in DOMAIN queue : queue[m] \in [attempts : 0 .. MaxAttempts, left : 0 .. Lease]
    BY DEF FixtureInv, FixtureTypeOK
  <2> HIDE DEF next
  <2>3. queue' \in [DOMAIN queue' -> [attempts : 0 .. MaxAttempts, left : 0 .. Lease]]
    BY <1>1, <1>2, <2>1, <2>2
  <2>4. given \subseteq [id : Message, attempts : 1 .. MaxAttempts, generation : 0 .. generation]
    BY <1>2, <1>3, <1>4 DEF Handle, FixtureInv, FixtureTypeOK
  <2>5. dead' \subseteq Message
    BY <1>1, <1>2, <1>3 DEF FixtureInv, FixtureTypeOK
  <2> QED BY <1>1, <2>3, <2>4, <2>5 DEF FixtureInv, FixtureTypeOK, stateVars
<1>6. Delivered'
  <2>1. \A m \in DOMAIN queue : \A n \in 1 .. queue[m].attempts : Handle(m, n) \in handles
    BY DEF FixtureInv, Delivered
  <2>2. \A m, n : Handle(m, n)' = Handle(m, n)
    BY <1>1 DEF Handle
  <2>3. ASSUME NEW m \in DOMAIN queue', NEW n \in 1 .. queue'[m].attempts
        PROVE  Handle(m, n) \in handles'
    <3>1. CASE m \notin NextClaim
      BY <1>1, <1>2, <2>1, <2>3, <3>1
    <3>2. CASE m \in NextClaim
      <4>1. queue'[m].attempts = queue[m].attempts + 1
        BY <1>2, <2>3, <3>2
      <4>2. n \in 1 .. queue[m].attempts \/ n = queue[m].attempts + 1
        BY <1>2, <1>3, <2>3, <3>2, <4>1
      <4>3. Handle(m, queue[m].attempts + 1) \in given
        BY <3>2
      <4> QED BY <1>1, <1>2, <2>1, <3>2, <4>2, <4>3
    <3> QED BY <3>1, <3>2
  <2>4. \A m \in dead' : \A n \in 1 .. MaxAttempts : Handle(m, n) \in handles'
    BY <1>1, <1>2, <1>4, <2>1 DEF FixtureInv, Delivered
  <2> QED BY <2>2, <2>3, <2>4 DEF Delivered
<1>7. OnePlace'
  <2>1. UNCHANGED <<AckedIds, seen>>
    BY <1>1 DEF AckedIds
  <2> QED BY <1>1, <1>2, <2>1 DEF FixtureInv, OnePlace
<1> QED BY <1>1, <1>5, <1>6, <1>7, StateKept DEF FixtureInv

LEMMA AcknowledgeInv ==
  ASSUME FixtureAssumption, FixtureInv, NEW g, NEW h \in handles, Acknowledge(g, h)
  PROVE  FixtureInv'
<1>1. /\ h.id \in DOMAIN queue /\ ordinal' = ordinal + 1 /\ queue' = Removed(h)
      /\ UNCHANGED <<generation, scopes, seen, dead, handles, stateVars>>
  BY DEF Acknowledge, Current
<1>2. CASE ordinal' \in LostAcks
  <2>1. queue' = [m \in DOMAIN queue |-> queue[m]] /\ UNCHANGED acked
        /\ journal' = journal \cup {ordinal'}
    BY <1>1, <1>2 DEF Removed, Acknowledge
  <2>2. queue' = queue
    BY <2>1 DEF FixtureInv, FixtureTypeOK
  <2>3. FixtureTypeOK'
    BY <1>1, <1>2, <2>1, <2>2 DEF FixtureInv, FixtureTypeOK, stateVars
  <2>4. Delivered' /\ OnePlace'
    BY <1>1, <2>1, <2>2 DEF FixtureInv, Delivered, OnePlace, Handle, AckedIds
  <2> QED BY <1>1, <2>3, <2>4, StateKept DEF FixtureInv
<1>3. CASE ordinal' \notin LostAcks
  <2>1. queue' = [m \in DOMAIN queue \ {h.id} |-> queue[m]] /\ acked' = acked \cup {h}
        /\ UNCHANGED journal
    BY <1>1, <1>3 DEF Removed, Acknowledge
  <2>2. /\ DOMAIN queue' = DOMAIN queue \ {h.id}
        /\ \A m \in DOMAIN queue' : queue'[m] = queue[m]
        /\ AckedIds' = AckedIds \cup {h.id}
    BY <2>1 DEF AckedIds
  <2>3. FixtureTypeOK'
    BY <1>1, <2>1, <2>2 DEF FixtureInv, FixtureTypeOK, stateVars
  <2>4. Delivered'
    BY <1>1, <2>2 DEF FixtureInv, Delivered, Handle
  <2>5. OnePlace'
    BY <1>1, <2>2 DEF FixtureInv, OnePlace
  <2> QED BY <1>1, <2>3, <2>4, <2>5, StateKept DEF FixtureInv
<1> QED BY <1>2, <1>3

\* A scope is issued, or time passes.
LEMMA AuthorizeAdvanceInv ==
  ASSUME FixtureAssumption, FixtureInv, Authorize \/ Advance
  PROVE  FixtureInv'
<1>1. CASE Authorize
  <2>1. FixtureTypeOK'
    BY <1>1 DEF Authorize, FixtureInv, FixtureTypeOK, queueVars, stateVars
  <2> QED BY <1>1, <2>1, StateKept, QueueKept DEF Authorize, FixtureInv
<1>2. CASE Advance
  <2> DEFINE aged(m) == [queue[m] EXCEPT !.left = IF @ = 0 THEN 0 ELSE @ - 1]
  <2>1. /\ queue' = [m \in DOMAIN queue |-> aged(m)]
        /\ UNCHANGED <<generation, scopes, seen, dead, acked, handles, ordinal, journal, stateVars>>
    BY <1>2 DEF Advance
  <2>2. \A m \in DOMAIN queue : /\ aged(m) \in [attempts : 0 .. MaxAttempts, left : 0 .. Lease]
                                /\ aged(m).attempts = queue[m].attempts
    BY DEF FixtureInv, FixtureTypeOK, FixtureAssumption
  <2> HIDE DEF aged
  <2>3. FixtureTypeOK'
    BY <2>1, <2>2 DEF FixtureInv, FixtureTypeOK, stateVars
  <2>4. Delivered'
    BY <2>1, <2>2 DEF FixtureInv, Delivered, Handle
  <2>5. OnePlace'
    BY <2>1 DEF FixtureInv, OnePlace, AckedIds
  <2> QED BY <2>1, <2>3, <2>4, <2>5, StateKept DEF FixtureInv
<1> QED BY <1>1, <1>2

\* One more write of a key: its history grows by one revision, the histories of the others stay.
LEMMA WriteInv ==
  ASSUME FixtureAssumption, FixtureInv, NEW g, NEW k \in Key, NEW v \in Value, NEW e,
         NEW t \in Token, Write(g, k, v, e, t)
  PROVE  FixtureInv'
<1> DEFINE n == NextRevision(k)
           row == [revision |-> n, value |-> v]
           record == [key |-> k, value |-> v, expected |-> e, revision |-> n]
<1>1. /\ t \notin DOMAIN tokens /\ Expected(k, e)
      /\ rows' = With(rows, k, row) /\ tokens' = With(tokens, t, record)
      /\ UNCHANGED <<generation, scopes, queueVars>>
  BY DEF Write, FreshToken
<1>2. /\ DOMAIN rows' = DOMAIN rows \cup {k} /\ DOMAIN tokens' = DOMAIN tokens \cup {t}
      /\ rows'[k] = row /\ \A x \in DOMAIN rows : x # k => rows'[x] = rows[x]
      /\ tokens'[t] = record /\ \A x \in DOMAIN tokens : tokens'[x] = tokens[x]
  <2> HIDE DEF row, record
  <2> QED BY <1>1 DEF With
<1>3. WritesOf(k)' = WritesOf(k) \cup {t} /\ t \notin WritesOf(k)
  BY <1>1, <1>2 DEF WritesOf
<1>4. ASSUME NEW x \in Key, x # k PROVE WritesOf(x)' = WritesOf(x)
  BY <1>1, <1>2, <1>4 DEF WritesOf
<1>5. IsFiniteSet(WritesOf(k)) /\ Cardinality(WritesOf(k)) \in Nat /\ History(k)
      /\ IsFiniteSet(DOMAIN tokens)
  <2>1. WritesOf(k) \in SUBSET DOMAIN tokens /\ IsFiniteSet(DOMAIN tokens) /\ History(k)
    BY DEF WritesOf, FixtureInv, Histories
  <2> QED BY <2>1, FS_Subset, FS_CardinalityType
<1>6. PICK c \in Nat : c = Cardinality(WritesOf(k))
  BY <1>5
<1>7. Cardinality(WritesOf(k))' = c + 1
  <2>1. t \notin WritesOf(k) /\ IsFiniteSet(WritesOf(k))
    BY <1>3, <1>5
  <2>2. Cardinality(WritesOf(k) \cup {t}) = Cardinality(WritesOf(k)) + 1
    BY ONLY <2>1, FS_AddElement
  <2> QED BY <1>3, <1>6, <2>2
<1>8. n = c + 1
  <2>1. CASE k \in DOMAIN rows
    BY <1>5, <1>6, <2>1 DEF NextRevision, History
  <2>2. CASE k \notin DOMAIN rows
    <3>1. WritesOf(k) = {}
      BY <1>5, <2>2 DEF History
    <3> QED BY <1>6, <2>2, <3>1, FS_EmptySet DEF NextRevision
  <2> QED BY <2>1, <2>2
<1>9. FixtureTypeOK'
  <2>1. row \in [revision : Nat, value : Value]
    BY <1>8
  <2> HIDE DEF row
  <2>2. rows' \in [DOMAIN rows' -> [revision : Nat, value : Value]]
    BY <1>1, <2>1, WithType DEF FixtureInv, FixtureTypeOK
  <2> QED BY <1>1, <1>2, <2>2 DEF FixtureInv, FixtureTypeOK, queueVars
<1>10. History(k)'
  <2>1. {tokens[x].revision : x \in WritesOf(k)}' = 1 .. (c + 1)
    <3>1. {tokens'[x].revision : x \in WritesOf(k)'}
            = {tokens[x].revision : x \in WritesOf(k)} \cup {n}
      BY <1>2, <1>3 DEF WritesOf
    <3>2. {tokens[x].revision : x \in WritesOf(k)} = 1 .. c
      BY <1>5, <1>6 DEF History
    <3> QED BY <1>8, <3>1, <3>2
  <2>2. rows'[k].revision = c + 1 /\ rows'[k].value = v /\ k \in DOMAIN rows'
    BY <1>2, <1>8
  <2>3. ASSUME NEW x \in WritesOf(k)'
        PROVE  /\ tokens'[x].expected # NoRevision => tokens'[x].revision = tokens'[x].expected + 1
               /\ tokens'[x].revision = c + 1 => tokens'[x].value = v
               /\ tokens'[x].revision <= c + 1
    <3>1. CASE x = t
      <4>1. e # NoRevision => n = e + 1
        BY <1>1 DEF Expected, NextRevision
      <4> QED BY <1>2, <1>8, <3>1, <4>1
    <3>2. CASE x \in WritesOf(k)
      <4>1. tokens'[x] = tokens[x] /\ tokens[x].revision \in 1 .. c
        BY <1>2, <1>5, <1>6, <3>2 DEF WritesOf, History
      <4> QED BY <1>5, <3>2, <4>1 DEF History
    <3> QED BY <1>3, <2>3, <3>1, <3>2
  <2> QED BY <1>3, <1>7, <2>1, <2>2, <2>3 DEF History
<1>11. ASSUME NEW x \in Key, x # k PROVE History(x)'
  <2>1. /\ \A y \in WritesOf(x) : tokens'[y] = tokens[y]
        /\ x \in DOMAIN rows' <=> x \in DOMAIN rows
        /\ x \in DOMAIN rows => rows'[x] = rows[x]
    BY <1>2, <1>11 DEF WritesOf
  <2>2. History(x)
    BY DEF FixtureInv, Histories
  <2>3. WritesOf(x)' = WritesOf(x)
    BY <1>4, <1>11
  <2>4. \A y \in WritesOf(x) : x \in DOMAIN rows
    BY <2>2 DEF History
  <2> QED BY <2>1, <2>2, <2>3, <2>4 DEF History
<1>12. Histories'
  <2>1. IsFiniteSet(DOMAIN tokens')
    <3>1. IsFiniteSet(DOMAIN tokens \cup {t})
      BY ONLY <1>5, FS_AddElement
    <3> QED BY <1>2, <3>1
  <2>2. \A x \in DOMAIN tokens' : tokens'[x].key \in Key /\ tokens'[x].revision \in Nat
    BY <1>2, <1>8 DEF FixtureInv, Histories
  <2> QED BY <1>10, <1>11, <2>1, <2>2 DEF Histories
<1> QED BY <1>1, <1>9, <1>12, QueueKept DEF FixtureInv

LEMMA ResetInv ==
  ASSUME FixtureAssumption, FixtureInv, Reset
  PROVE  FixtureInv'
<1>1. /\ DOMAIN seen' = {} /\ DOMAIN queue' = {} /\ DOMAIN rows' = {} /\ DOMAIN tokens' = {}
      /\ dead' = {} /\ acked' = {} /\ generation' = generation + 1
      /\ UNCHANGED <<scopes, handles>>
  BY EmptyMap DEF Reset
<1>2. FixtureTypeOK'
  <2>1. /\ seen' \in [{} -> Commitment] /\ rows' \in [{} -> [revision : Nat, value : Value]]
        /\ queue' \in [{} -> [attempts : 0 .. MaxAttempts, left : 0 .. Lease]]
    BY EmptyMap DEF Reset
  <2>2. ordinal' = 0 /\ journal' = {}
    BY DEF Reset
  <2>3. /\ 0 .. generation \subseteq 0 .. generation' /\ generation' \in Nat
    BY <1>1 DEF FixtureInv, FixtureTypeOK
  <2>4. handles' \subseteq [id : Message, attempts : 1 .. MaxAttempts, generation : 0 .. generation']
    BY <1>1, <2>3 DEF FixtureInv, FixtureTypeOK
  <2> QED BY <1>1, <2>1, <2>2, <2>3, <2>4 DEF FixtureInv, FixtureTypeOK
<1>3. AckedIds' = {} /\ \A k \in Key : WritesOf(k)' = {}
  BY <1>1 DEF AckedIds, WritesOf
<1>4. Delivered'
  BY <1>1 DEF Delivered
<1>5. OnePlace'
  BY <1>1, <1>3, FS_EmptySet DEF OnePlace, FixtureAssumption
<1>6. ASSUME NEW k \in Key PROVE History(k)'
  <2>1. WritesOf(k)' = {} /\ Cardinality(WritesOf(k)') = 0
    BY <1>3, FS_EmptySet
  <2> QED BY <1>1, <2>1 DEF History
<1>7. Histories'
  BY <1>1, <1>6, FS_EmptySet DEF Histories
<1> QED BY <1>2, <1>4, <1>5, <1>7 DEF FixtureInv

LEMMA FixtureNextInv ==
  ASSUME FixtureAssumption
  PROVE  FixtureInv /\ [FixtureNext]_fixtureVars => FixtureInv'
<1> SUFFICES ASSUME FixtureInv, [FixtureNext]_fixtureVars PROVE FixtureInv'
  OBVIOUS
<1>1. CASE UNCHANGED fixtureVars
  <2>1. FixtureTypeOK'
    BY <1>1 DEF FixtureInv, FixtureTypeOK, fixtureVars, queueVars, stateVars
  <2> QED BY <1>1, <2>1, StateKept, QueueKept DEF FixtureInv, fixtureVars
<1> QED BY <1>1, EnqueueInv, ClaimInv, AcknowledgeInv, AuthorizeAdvanceInv, WriteInv, ResetInv
        DEF FixtureNext

\* Until the next reset a message is in one place, dead only after all its attempts, and the
\* idempotency records of a state key are its gapless history: for every bound of the fixture,
\* every lease and every pattern of lost acknowledgements.
THEOREM QueueCorrect == ASSUME FixtureAssumption PROVE FixtureSpec => []QueueInv
<1>1. FixtureInv => QueueInv
  BY FixtureImplies
<1> QED BY <1>1, FixtureInitInv, FixtureNextInv, PTL DEF FixtureSpec

Settled ==
  \A h \in acked' \ acked :
    /\ h.generation = generation
    /\ h.id \in DOMAIN queue /\ queue[h.id].left > 0
    /\ queue[h.id].attempts = h.attempts
    /\ ordinal' \notin journal'

LeaseKept ==
  \A m \in DOMAIN queue :
    queue[m].left > 0 =>
      \/ \E h \in acked' : h.id = m
      \/ /\ m \in DOMAIN queue' /\ generation' = generation
         /\ queue'[m].attempts = queue[m].attempts
         /\ queue[m].left - queue'[m].left \in {0, 1}

LEMMA LeasesUntouched ==
  ASSUME FixtureInv, UNCHANGED generation,
         \A m \in DOMAIN queue : queue[m].left > 0 => m \in DOMAIN queue' /\ queue'[m] = queue[m]
  PROVE  LeaseKept
BY DEF LeaseKept, FixtureInv, FixtureTypeOK

LEMMA StepSettles ==
  ASSUME FixtureAssumption, FixtureInv, [FixtureNext]_fixtureVars
  PROVE  Settled /\ LeaseKept
<1>1. CASE Authorize \/ UNCHANGED fixtureVars
  BY <1>1, LeasesUntouched DEF Authorize, fixtureVars, queueVars, Settled
<1>2. ASSUME NEW g, NEW m \in Message, NEW c, Enqueue(g, m, c) PROVE Settled /\ LeaseKept
  <2>1. m \notin DOMAIN queue /\ UNCHANGED <<acked, generation>>
        /\ queue' = With(queue, m, [attempts |-> 0, left |-> 0])
    BY <1>2 DEF Enqueue, Unseen, FixtureInv, OnePlace
  <2>2. \A n \in DOMAIN queue : n \in DOMAIN queue' /\ queue'[n] = queue[n]
    BY <2>1 DEF With
  <2> QED BY <2>1, <2>2, LeasesUntouched DEF Settled
<1>3. ASSUME NEW g, Claim(g) PROVE Settled /\ LeaseKept
  <2>1. \A n \in DOMAIN queue : queue[n].left > 0 => n \notin NextClaim /\ n \notin Buried
    BY DEF NextClaim, Buried, Claimable, Exhausted, Free
  <2>2. \A n \in DOMAIN queue : queue[n].left > 0 => n \in DOMAIN queue' /\ queue'[n] = queue[n]
    BY <1>3, <2>1 DEF Claim, Kept
  <2>3. LeaseKept
    BY <1>3, <2>2, LeasesUntouched DEF Claim
  <2>4. Settled
    BY <1>3 DEF Claim, Settled
  <2> QED BY <2>3, <2>4
<1>4. ASSUME NEW g, NEW h \in handles, Acknowledge(g, h) PROVE Settled /\ LeaseKept
  <2>1. Settled
    BY <1>4 DEF Acknowledge, Current, Settled, FixtureInv, FixtureTypeOK
  <2>2. CASE ordinal' \in LostAcks
    <3>1. \A n \in DOMAIN queue : n \in DOMAIN queue' /\ queue'[n] = queue[n]
      BY <1>4, <2>2 DEF Acknowledge, Removed
    <3> QED BY <1>4, <2>1, <3>1, LeasesUntouched DEF Acknowledge
  <2>3. CASE ordinal' \notin LostAcks
    <3>1. h \in acked' /\ UNCHANGED generation
      BY <1>4, <2>3 DEF Acknowledge
    <3>2. \A n \in DOMAIN queue : n # h.id => n \in DOMAIN queue' /\ queue'[n] = queue[n]
      BY <1>4, <2>3 DEF Acknowledge, Removed
    <3> QED BY <2>1, <3>1, <3>2 DEF LeaseKept, FixtureInv, FixtureTypeOK
  <2> QED BY <2>2, <2>3
<1>5. CASE Advance
  <2>1. UNCHANGED <<acked, generation>>
        /\ \A n \in DOMAIN queue : n \in DOMAIN queue' /\
              queue'[n] = [queue[n] EXCEPT !.left = IF @ = 0 THEN 0 ELSE @ - 1]
    BY <1>5 DEF Advance
  <2>2. ASSUME NEW n \in DOMAIN queue, queue[n].left > 0
        PROVE  /\ queue'[n].attempts = queue[n].attempts
               /\ queue[n].left - queue'[n].left = 1
    <3>1. queue[n] \in [attempts : 0 .. MaxAttempts, left : 0 .. Lease] /\ Lease \in Nat
      BY DEF FixtureInv, FixtureTypeOK, FixtureAssumption
    <3>2. queue'[n] = [queue[n] EXCEPT !.left = queue[n].left - 1]
      BY <2>1, <2>2, <3>1
    <3> QED BY <3>1, <3>2
  <2> QED BY <2>1, <2>2 DEF Settled, LeaseKept
<1>6. ASSUME NEW g, NEW k, NEW v, NEW e, NEW t, Write(g, k, v, e, t) PROVE Settled /\ LeaseKept
  BY <1>6, LeasesUntouched DEF Write, queueVars, Settled
<1>7. CASE Reset
  <2>1. \A n \in DOMAIN queue : ~(queue[n].left > 0)
    BY <1>7 DEF Reset, QueueBusy
  <2> QED BY <1>7, <2>1 DEF Reset, Settled, LeaseKept
<1> QED BY <1>1, <1>2, <1>3, <1>4, <1>5, <1>6, <1>7 DEF FixtureNext

\* No late handle settles anything, and a running lease ends by its acknowledgement or by the
\* clock and by nothing else.
THEOREM OnlyTheHolder == ASSUME FixtureAssumption PROVE FixtureSpec => OnlyItsHolderSettles
<1>1. FixtureInv /\ FixtureInv' /\ [FixtureNext]_fixtureVars => [Settled /\ LeaseKept]_fixtureVars
  BY StepSettles
<1> QED BY <1>1, FixtureInitInv, FixtureNextInv, PTL
        DEF FixtureSpec, OnlyItsHolderSettles, Settled, LeaseKept
=============================================================================
