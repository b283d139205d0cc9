---------------------------- MODULE DemoSession ----------------------------
(***************************************************************************)
(* The demonstration as a visitor meets it: the buttons and the sequential *)
(* runners of apps/web/src/main.tsx, postDemo of apps/web/src/api.ts, the  *)
(* session cookie and HTTP boundary of apps/api/src/index.ts, and behind   *)
(* them the five steps, here in two atomic halves: admission (replay and   *)
(* reservation) and work (provider calls and effect).  HackathonLive       *)
(* models those halves call by call; caps are left out here.               *)
(*                                                                         *)
(* Tabs of one browser share the cookie.  A call whose tab stopped waiting *)
(* (20 s, or the page went) lives on at the server as an orphan.           *)
(***************************************************************************)
EXTENDS Naturals, Sequences

CONSTANTS
    Tab,
    MaxSession,   \* bound: tokens the API mints
    MaxFault      \* bound: faults, pauses, expiries and reloads together

ASSUME DemoAssumption == MaxSession \in Nat /\ MaxFault \in Nat

VARIABLES
    tab,      \* tab[t]: React state of the page
    call,     \* call[t]: the request the page awaits (busyRef)
    orphans,  \* requests at the server that nobody awaits
    jar,      \* session named by the cookie, 0 for none
    minted,   \* tokens minted so far: session k is the k-th
    server,   \* server[s]: the rows of session s
    enabled,  \* provider_enabled
    faults

vars == <<tab, call, orphans, jar, minted, server, enabled, faults>>

Beat == <<"start", "ask_before", "correct", "ask_after", "latest_receipt">>
Ask == {"ask_before", "ask_after"}
RequestStep == {Beat[i] : i \in 1..5} \union {"proofs"}
Ordinal == [start |-> 0, ask_before |-> 1, correct |-> 2, ask_after |-> 3, latest_receipt |-> 4]
Session == 1..MaxSession

\* What runs when the awaited step succeeds: nothing, the rest of the beat, or the proofs.
Runner == {"one", "rest", "proofs"}
Failure == {"conflict", "denied", "network", "service", "unknown"}
Entry == [step : RequestStep, session : Session, revision : 0..2]
Outcome == {"succeeded", "conflict", "denied", "unknown", "child_exit"}

Blank == [position |-> 0, history |-> <<>>, error |-> "none"]
NoCall == [phase |-> "none", step |-> "start", session |-> 0, restart |-> FALSE,
           runner |-> "one", outcome |-> "denied", revision |-> 0]
NoRows == [token |-> "none", reserved |-> 0, done |-> {},
           answer |-> [a \in Ask |-> 0], latest |-> 0]

TypeOK ==
    /\ tab \in [Tab -> [position : 0..5, history : Seq(Entry), error : Failure \union {"none"}]]
    /\ call \in [Tab -> [phase : {"none", "sent", "working", "answered"}, step : RequestStep,
                         session : 0..MaxSession, restart : BOOLEAN, runner : Runner,
                         outcome : Outcome, revision : 0..2]]
    /\ orphans \subseteq [phase : {"sent", "working"}, step : RequestStep, session : Session]
    /\ jar \in 0..MaxSession
    /\ minted \in 0..MaxSession
    /\ server \in [Session -> [token : {"none", "live", "expired"}, reserved : 0..5,
                               done : SUBSET {"start", "correct"},
                               answer : [Ask -> 0..2], latest : 0..2]]
    /\ enabled \in BOOLEAN
    /\ faults \in 0..MaxFault

Init ==
    /\ tab = [t \in Tab |-> Blank]
    /\ call = [t \in Tab |-> NoCall]
    /\ orphans = {}
    /\ jar = 0
    /\ minted = 0
    /\ server = [s \in Session |-> NoRows]
    /\ enabled = TRUE
    /\ faults = 0

Busy(t) == call[t].phase # "none"

---------------------------------------------------------------------------
(* The page sends a step and the API binds it to a session: start to a     *)
(* fresh token, every other step to the cookie's.                          *)

MayMint(step) == step = "start" => minted < MaxSession

SessionFor(step) == IF step = "start" THEN minted + 1 ELSE jar

\* Mutant: a restart clears the beat only when its start succeeds.
ClearedLater(t, restart) == [tab[t] EXCEPT !.error = "none"]

\* The beat is cleared when a restart is sent, not when it succeeds.
Cleared(t, restart) == IF restart THEN Blank ELSE [tab[t] EXCEPT !.error = "none"]

Sent(t, step, restart, runner) ==
    LET s == SessionFor(step)
    IN  [phase |-> IF s = 0 THEN "answered" ELSE "sent", step |-> step, session |-> s,
         restart |-> restart, runner |-> runner, outcome |-> "denied", revision |-> 0]

Send(t, step, restart, runner) ==
    /\ MayMint(step)
    /\ call' = [call EXCEPT ![t] = Sent(t, step, restart, runner)]
    /\ minted' = IF step = "start" THEN minted + 1 ELSE minted

Click(t, step, restart, runner) ==
    /\ ~Busy(t)
    /\ tab' = [tab EXCEPT ![t] = Cleared(t, restart)]
    /\ Send(t, step, restart, runner)
    /\ UNCHANGED <<orphans, jar, server, enabled, faults>>

\* The primary button: all five steps, or the one the visitor stands at.
Primary(t) ==
    LET p == tab[t].position
    IN  IF p \in {0, 5} THEN Click(t, "start", TRUE, "rest") ELSE Click(t, Beat[p + 1], FALSE, "one")

Remaining(t) ==
    /\ tab[t].position \in 1..4
    /\ Click(t, Beat[tab[t].position + 1], FALSE, "rest")

Restart(t) ==
    /\ tab[t].position > 0
    /\ Click(t, "start", TRUE, "one")

\* The step runProofs asks for with the beat at position p: enough of the beat comes first.
NextForProofs(p) == IF p < 2 THEN Beat[p + 1] ELSE "proofs"

Proofs(t) ==
    LET step == NextForProofs(tab[t].position)
    IN  Click(t, step, tab[t].history = <<>>, "proofs")

---------------------------------------------------------------------------
(* The server: admission and work of a request r, awaited or not.          *)

Live(s) == server[s].token = "live"

Admission(r) ==
    LET s == r.session
        rows == server[s]
    IN  CASE r.step = "proofs" -> "succeeded"
          [] r.step = "start" -> IF enabled THEN "work" ELSE "denied"
          [] r.step \notin {"start", "proofs"} ->
               IF ~Live(s) THEN "conflict"
               ELSE IF r.step \in Ask /\ rows.answer[r.step] > 0 THEN "succeeded"
               ELSE IF Ordinal[r.step] < rows.reserved
                 THEN IF r.step = "latest_receipt" THEN "work" ELSE "conflict"
               ELSE IF Ordinal[r.step] > rows.reserved THEN "conflict"
               ELSE IF r.step = "latest_receipt" \/ enabled THEN "work" ELSE "denied"

AdmittedRows(r) ==
    LET rows == server[r.session]
    IN  CASE r.step = "start" -> [rows EXCEPT !.token = "live", !.reserved = 1]
          [] r.step = "proofs" -> rows
          [] OTHER -> IF Ordinal[r.step] = rows.reserved
                        THEN [rows EXCEPT !.reserved = @ + 1] ELSE rows

RevisionNow(rows) == IF "correct" \in rows.done THEN 2 ELSE 1

Worked(r) ==
    CASE r.step = "start" /\ ~Live(r.session) -> "denied"
      [] r.step # "start" /\ ~Live(r.session) -> "conflict"
      [] r.step = "latest_receipt" /\ server[r.session].latest = 0 -> "conflict"
      [] OTHER -> "succeeded"

WorkedRows(r) ==
    LET rows == server[r.session]
    IN  CASE r.step \in {"start", "correct"} -> [rows EXCEPT !.done = @ \union {r.step}]
          [] r.step \in Ask ->
               [rows EXCEPT !.answer[r.step] = RevisionNow(rows), !.latest = RevisionNow(rows)]
          [] OTHER -> rows

\* The revision a successful answer to r speaks of.
RevisionOf(r, rows) ==
    CASE r.step \in Ask -> rows.answer[r.step]
      [] r.step = "latest_receipt" -> rows.latest
      [] r.step = "correct" -> 2
      [] OTHER -> 0

(* One half of r runs: its ruling is "work" (admitted) or the outcome the  *)
(* API answers, and rows are the session's rows after it.  Or a fault      *)
(* strikes: the database or the provider fails, the COMMIT answer is lost, *)
(* or the child is killed, with the rows written or not.                   *)
Half(r) ==
    IF r.phase = "sent"
      THEN [ruling |-> Admission(r),
            rows |-> IF Admission(r) = "work" THEN AdmittedRows(r) ELSE server[r.session]]
      ELSE [ruling |-> Worked(r),
            rows |-> IF Worked(r) = "succeeded" THEN WorkedRows(r) ELSE server[r.session]]

FaultOutcome == {"denied", "unknown", "child_exit"}

Serve(t) ==
    LET r == call[t]
        half == Half(r)
    IN  /\ r.phase \in {"sent", "working"}
        /\ \/ /\ server' = [server EXCEPT ![r.session] = half.rows]
              /\ call' = [call EXCEPT ![t] =
                     IF half.ruling = "work" THEN [r EXCEPT !.phase = "working"]
                     ELSE [r EXCEPT !.phase = "answered", !.outcome = half.ruling,
                                    !.revision = IF half.ruling = "succeeded"
                                                   THEN RevisionOf(r, half.rows) ELSE 0]]
              /\ UNCHANGED faults
           \/ /\ faults < MaxFault
              /\ faults' = faults + 1
              /\ \E rows \in {server[r.session], half.rows} :
                    server' = [server EXCEPT ![r.session] = rows]
              /\ \E outcome \in FaultOutcome :
                    call' = [call EXCEPT ![t] = [r EXCEPT !.phase = "answered",
                                                          !.outcome = outcome]]
        /\ UNCHANGED <<tab, orphans, jar, minted, enabled>>

\* An orphan runs on, or its child is killed or fails; nobody learns which.
ServeOrphan(r) ==
    /\ r \in orphans
    /\ \/ /\ server' = [server EXCEPT ![r.session] = Half(r).rows]
          /\ orphans' = (orphans \ {r}) \union
                 IF Half(r).ruling = "work" THEN {[r EXCEPT !.phase = "working"]} ELSE {}
       \/ /\ orphans' = orphans \ {r}
          /\ UNCHANGED server
    /\ UNCHANGED <<tab, call, jar, minted, enabled, faults>>

---------------------------------------------------------------------------
(* The answer: status code, cookie, and the page's reaction, which sends   *)
(* the runner's next step before any other click can be handled.           *)

\* runFailure (HTTP status) and statusFailure (what the page calls it).
FailureOf(outcome) ==
    CASE outcome = "conflict" -> "conflict"      \* 409
      [] outcome = "denied" -> "denied"          \* 403
      [] outcome = "unknown" -> "unknown"        \* 503
      [] OTHER -> "service"                      \* 502

\* Mutant: the cookie accompanies every answer to start.
SetsCookieAlways(r) == r.step = "start"

SetsCookie(r) == r.step = "start" /\ r.outcome = "succeeded"

\* The cookie after the browser has seen the headers of the answer to r.
JarAfter(r) == IF SetsCookie(r) THEN r.session ELSE jar

Shown(r) == [step |-> r.step, session |-> r.session, revision |-> r.revision]

Advanced(t, r) ==
    IF r.step = "proofs" THEN tab[t]
    ELSE LET history == IF r.restart THEN <<Shown(r)>> ELSE Append(tab[t].history, Shown(r))
             index == IF r.restart THEN 0 ELSE tab[t].position
         IN  [tab[t] EXCEPT !.history = history, !.position = index + 1]

\* The step a runner goes on to with the beat at position p, if any.
Following(runner, step, p) ==
    CASE runner = "rest" /\ p < 5 -> {Beat[p + 1]}
      [] runner = "proofs" /\ step # "proofs" -> {NextForProofs(p)}
      [] OTHER -> {}

Succeed(t) ==
    LET r == call[t]
        page == Advanced(t, r)
    IN  /\ r.phase = "answered"
        /\ r.outcome = "succeeded"
        /\ tab' = [tab EXCEPT ![t] = page]
        /\ jar' = JarAfter(r)
        /\ LET more == Following(r.runner, r.step, page.position)
           IN  call' = [call EXCEPT ![t] =
                   IF more = {} THEN NoCall
                   ELSE [phase |-> IF jar' = 0 THEN "answered" ELSE "sent",
                         step |-> CHOOSE step \in more : TRUE, session |-> jar',
                         restart |-> FALSE, runner |-> r.runner,
                         outcome |-> "denied", revision |-> 0]]
        /\ UNCHANGED <<orphans, minted, server, enabled, faults>>

\* Mutant: a failure leaves the page busy.
FailBusy(t) ==
    /\ call[t].phase = "answered"
    /\ call[t].outcome # "succeeded"
    /\ tab[t].error = "none"
    /\ tab' = [tab EXCEPT ![t].error = FailureOf(call[t].outcome)]
    /\ UNCHANGED <<call, jar, orphans, minted, server, enabled, faults>>

Fail(t) ==
    LET r == call[t]
    IN  /\ r.phase = "answered"
        /\ r.outcome # "succeeded"
        /\ tab' = [tab EXCEPT ![t].error = FailureOf(r.outcome)]
        /\ jar' = JarAfter(r)
        /\ call' = [call EXCEPT ![t] = NoCall]
        /\ UNCHANGED <<orphans, minted, server, enabled, faults>>

(* The page stops waiting: after 20 s, or because the body never came.     *)
(* The headers may have come, and with them the cookie; afterwards the     *)
(* browser takes nothing more from this request.                           *)
Abandoned(t) ==
    /\ faults < MaxFault
    /\ faults' = faults + 1
    /\ jar' \in {jar, IF call[t].phase = "answered" THEN JarAfter(call[t]) ELSE jar}
    /\ orphans' = orphans \union
           IF call[t].phase \in {"sent", "working"}
             THEN {[phase |-> call[t].phase, step |-> call[t].step, session |-> call[t].session]}
             ELSE {}
    /\ call' = [call EXCEPT ![t] = NoCall]
    /\ UNCHANGED <<minted, server, enabled>>

LoseReply(t) ==
    /\ Busy(t)
    /\ tab' = [tab EXCEPT ![t].error = "network"]
    /\ Abandoned(t)

\* The visitor reloads the page: its state goes, the cookie stays.
Reload(t) ==
    /\ tab' = [tab EXCEPT ![t] = Blank]
    /\ Abandoned(t)

---------------------------------------------------------------------------
(* The operator pauses the provider and resumes it; sessions expire.       *)

Pause ==
    /\ enabled
    /\ faults < MaxFault
    /\ faults' = faults + 1
    /\ enabled' = FALSE
    /\ UNCHANGED <<tab, call, orphans, jar, minted, server>>

Resume ==
    /\ ~enabled
    /\ enabled' = TRUE
    /\ UNCHANGED <<tab, call, orphans, jar, minted, server, faults>>

Expire(s) ==
    /\ Live(s)
    /\ faults < MaxFault
    /\ faults' = faults + 1
    /\ server' = [server EXCEPT ![s].token = "expired"]
    /\ UNCHANGED <<tab, call, orphans, jar, minted, enabled>>

\* Max-Age runs from the answer to start, so the cookie outlives the session's rows.
DropCookie ==
    /\ jar # 0
    /\ ~Live(jar)
    /\ jar' = 0
    /\ UNCHANGED <<tab, call, orphans, minted, server, enabled, faults>>

---------------------------------------------------------------------------
Page(t) == Primary(t) \/ Remaining(t) \/ Restart(t) \/ Proofs(t)
Answer(t) == Succeed(t) \/ Fail(t)

Next ==
    \/ \E t \in Tab : Page(t) \/ Serve(t) \/ Answer(t) \/ LoseReply(t) \/ Reload(t)
    \/ \E r \in orphans : ServeOrphan(r)
    \/ Pause \/ Resume \/ DropCookie
    \/ \E s \in Session : Expire(s)

Spec == Init /\ [][Next]_vars

(* A patient visitor presses the primary button until the beat is over,    *)
(* restarts only when the page advises it (conflict, denied), and starts   *)
(* nothing while the provider is paused.  Requests are answered or given   *)
(* up, which the two 20 s timers ensure, and a pause ends.                 *)
Advised(t) == tab[t].error \in {"conflict", "denied"}

PatientPrimary(t) ==
    /\ tab[t].position < 5
    /\ enabled \/ tab[t].position > 0
    /\ Primary(t)

PatientRestart(t) == enabled /\ Advised(t) /\ Restart(t)

PatientNext ==
    \/ \E t \in Tab :
          PatientPrimary(t) \/ PatientRestart(t) \/ Serve(t) \/ Answer(t) \/ LoseReply(t)
    \/ \E r \in orphans : ServeOrphan(r)
    \/ Pause \/ Resume \/ DropCookie
    \/ \E s \in Session : Expire(s)

---------------------------------------------------------------------------
(* Properties.                                                             *)

\* What the page lists is the beat from its first step on, without a gap or a double,
\* whatever is clicked, lost, retried or restarted (run, runFrom and runProofs advance the
\* history and the position separately).
HistoryIsTheBeat ==
    \A t \in Tab :
        /\ Len(tab[t].history) = tab[t].position
        /\ \A i \in 1..tab[t].position : tab[t].history[i].step = Beat[i]

\* A cookie only ever names a session whose facts are stored: a failed start leaves the old
\* one (the cookie accompanies a 200 only), so no later step runs on an empty memory.
CookieNamesStarted == jar # 0 => "start" \in server[jar].done

\* Whatever the page shows is in the database and agrees with it, also after lost answers and
\* replays: no step is shown that the session's rows do not record.
EntryIsDurable(e) ==
    LET rows == server[e.session]
    IN  /\ e.step \in {"start", "correct"} => e.step \in rows.done
        /\ e.step \in Ask => e.revision = rows.answer[e.step] /\ e.revision > 0

ShownIsDurable ==
    \A t \in Tab : \A i \in DOMAIN tab[t].history : EntryIsDurable(tab[t].history[i])

\* The page, the cookie and the rows fit one another in every state of a visit.
PageInv == TypeOK /\ HistoryIsTheBeat /\ CookieNamesStarted /\ ShownIsDurable

\* A patient visitor sees all five steps in the end, whatever finitely many answers are lost,
\* children killed, sessions expired and pauses made: no failure leaves the page stuck.
EventuallyFinished == \A t \in Tab : <>(tab[t].position = 5)
=============================================================================
