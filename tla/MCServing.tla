----------------------------- MODULE MCServing -----------------------------
(***************************************************************************)
(* Instances of the parts in which something must happen in the end, and   *)
(* of what a request goes through: the page and the boundary it talks to,  *)
(* with a patient visitor; the process the boundary starts for it; the     *)
(* transmissions that process makes; and the local queue, or the state     *)
(* rows, of the synthetic fixture.  A behaviour is one of one of them.     *)
(***************************************************************************)
EXTENDS RequestProcess, BedrockTransmission, SyntheticFixture, DemoSession, SequencesExt

VARIABLE focus   \* the part of this behaviour

ASSUME ServingAssumption == ProcessAssumption /\ BedrockAssumption /\ FixtureAssumption

\* A generation of the fixture uses the queue or the state rows, which share nothing but the
\* scope handles and the reset.
OneUse == rows = <<>> \/ seen = <<>>

MCInit ==
  /\ focus \in {"page", "process", "transmission", "fixture"}
  /\ Init /\ ProcessInit /\ BedrockInit /\ FixtureInit
  /\ focus # "process" => group = {}

MCNext ==
  /\ UNCHANGED focus
  /\ \/ focus = "page" /\ PatientNext
     \/ focus # "page" /\ UNCHANGED vars
  /\ \/ focus = "process" /\ ProcessNext
     \/ focus # "process" /\ UNCHANGED processVars
  /\ \/ focus = "transmission" /\ BedrockNext
     \/ focus # "transmission" /\ UNCHANGED bedrockVars
  /\ \/ focus = "fixture" /\ FixtureNext /\ OneUse'
     \/ focus # "fixture" /\ UNCHANGED fixtureVars

\* What is fair in the part the behaviour is one of: requests are answered or given up, the
\* visitor goes on, restarts when advised and a pause ends; RequestProcess's events are delivered; whoever drives
\* the fixture asks for a scope, polls and advances the clock.
OnPage(A) == focus = "page" /\ A
InProcess(A) == focus = "process" /\ A
InFixture(A) == focus = "fixture" /\ A

OnPageFairness ==
  /\ \A t \in Tab : /\ WF_vars(OnPage(Serve(t))) /\ WF_vars(OnPage(Answer(t)))
                    /\ WF_vars(OnPage(PatientPrimary(t))) /\ SF_vars(OnPage(PatientRestart(t)))
  /\ WF_vars(OnPage(Resume))

InProcessFairness ==
  /\ WF_processVars(InProcess(OnError)) /\ WF_processVars(InProcess(OnData))
  /\ WF_processVars(InProcess(OnTimeout)) /\ WF_processVars(InProcess(OnClose))

InFixtureFairness ==
  /\ WF_fixtureVars(InFixture(Authorize)) /\ WF_fixtureVars(InFixture(Poll))
  /\ WF_fixtureVars(InFixture(Advance))

MCSpec ==
  /\ MCInit /\ [][MCNext]_<<vars, focus, processVars, bedrockVars, fixtureVars>>
  /\ OnPageFairness /\ InProcessFairness /\ InFixtureFairness

---------------------------------------------------------------------------
\* A patient visitor of one tab sees the beat through (DemoSession).
PageFinishes == focus = "page" => EventuallyFinished

\* Every request is answered, whatever the process started for it does (RequestProcess).
RequestAnswered == focus = "process" => EventuallyAnswered

\* A message leaves the queue in the end (SyntheticFixture).
MessagesSettle == focus = "fixture" => EventuallySettled
=============================================================================
