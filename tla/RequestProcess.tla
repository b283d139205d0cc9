--------------------------- MODULE RequestProcess ---------------------------
(***************************************************************************)
(* One request of the container image: the handler spawns a process group  *)
(* of two, the secret launcher (external) and the one-request worker that  *)
(* inherits its standard output, and supervises it with the listeners of   *)
(* supervise and one timer.  Events are delivered one at a time.           *)
(***************************************************************************)
EXTENDS Integers, Sequences, SequencesExt, FiniteSets

CONSTANTS OutputLimit  \* maximumOutputBytes, in the chunks of this model

ProcessAssumption == OutputLimit \in Nat

VARIABLES group,   \* the processes of the group that run
          job,     \* how far the worker is
          exit,    \* the exit code of the launcher
          pipe,    \* standard output, not yet delivered
          errors,  \* "error" events not yet delivered
          watch,   \* the supervisor: bytes taken, failed, killed, armed
          reply    \* what run resolved to

processVars == <<group, job, exit, pipe, errors, watch, reply>>

Pending == [kind |-> "none", body |-> <<>>]

\* What the worker may print: its result in two chunks, the refusal of an input or a runtime it
\* could not read or build, or more than the limit.
Output == {<<"head", "tail">>, <<"unknown">>, [i \in 1..(OutputLimit + 1) |-> "more"]}

NotSpawned == [group |-> {}, job |-> "none", errors |-> 1]
Spawned == [group |-> {"launcher"}, job |-> "none", errors |-> 0]

\* run: a request and an environment that pass, and a child; one that cannot be spawned reports
\* an error and closes.  (A spawn that throws, or a bad request, is "unknown" at once.)
ProcessInit ==
    /\ \E start \in {NotSpawned, Spawned} :
          group = start.group /\ job = start.job /\ errors = start.errors
    /\ exit = 0 /\ pipe = <<>>
    /\ watch = [taken |-> <<>>, failed |-> FALSE, killed |-> FALSE, armed |-> TRUE]
    /\ reply = Pending

---------------------------------------------------------------------------
\* The launcher resolves the secret and starts the worker, or fails (external).
Launch ==
    /\ group = {"launcher"} /\ job = "none"
    /\ \/ group' = {"launcher", "worker"} /\ job' = "reading" /\ UNCHANGED exit
       \/ group' = {} /\ exit' = 1 /\ UNCHANGED job
    /\ UNCHANGED <<pipe, errors, watch, reply>>

\* Reads its input; a bad one, or a runtime that cannot be built, ends in "unknown".
ReadInput ==
    /\ "worker" \in group /\ job = "reading"
    /\ job' \in {"running", "done"}
    /\ pipe' = IF job' = "done" THEN Append(pipe, "unknown") ELSE pipe
    /\ UNCHANGED <<group, exit, errors, watch, reply>>

\* The one run of the request, then its output, chunk by chunk.
WriteOutput ==
    /\ "worker" \in group
    /\ \/ /\ job = "running"
          /\ \E o \in Output : job' = o[1] /\ pipe' = Append(pipe, o[1])
       \/ /\ job = "head" /\ job' = "done" /\ pipe' = Append(pipe, "tail")
       \/ /\ job = "more" /\ job' \in {"more", "done"} /\ pipe' = Append(pipe, "more")
          /\ Len(pipe) <= OutputLimit
       \/ job = "unknown" /\ job' = "done" /\ UNCHANGED pipe
    /\ UNCHANGED <<group, exit, errors, watch, reply>>

\* The worker ends, or crashes; its code is the launcher's.
EndWorker ==
    /\ "worker" \in group
    /\ group' = group \ {"worker"}
    /\ exit' \in IF job = "done" /\ exit = 0 THEN {0, 1} ELSE {1}
    /\ UNCHANGED <<job, pipe, errors, watch, reply>>

\* It waits for the worker, unless something ends it first.
EndLauncher ==
    /\ "launcher" \in group /\ job # "none"
    /\ group' = group \ {"launcher"}
    /\ exit' = IF "worker" \in group THEN 1 ELSE exit
    /\ UNCHANGED <<job, pipe, errors, watch, reply>>

\* The payload, or a pipe, breaks: "error" on the child or one of its streams.
BreakStream ==
    /\ errors = 0 /\ reply = Pending /\ ~watch.failed
    /\ errors' = 1
    /\ UNCHANGED <<group, job, exit, pipe, watch, reply>>

---------------------------------------------------------------------------
\* Mutant: only the child is killed, not its group.
TerminateChild ==
    /\ watch' = [watch EXCEPT !.failed = TRUE, !.killed = TRUE]
    /\ group' = IF watch.killed THEN group ELSE group \ {"launcher"}

\* terminate: fails the request, and kills the whole group once.
Terminate ==
    /\ watch' = [watch EXCEPT !.failed = TRUE, !.killed = TRUE]
    /\ group' = IF watch.killed THEN group ELSE {}

OnError ==
    /\ errors = 1 /\ reply = Pending
    /\ errors' = 0
    /\ Terminate
    /\ UNCHANGED <<job, exit, pipe, reply>>

\* A chunk is kept while it fits, and once failed it is dropped.
OnData ==
    /\ pipe # <<>> /\ reply = Pending
    /\ pipe' = Tail(pipe)
    /\ IF watch.failed THEN UNCHANGED <<watch, group>>
       ELSE IF Len(watch.taken) >= OutputLimit THEN Terminate
       ELSE /\ watch' = [watch EXCEPT !.taken = Append(@, Head(pipe))]
            /\ UNCHANGED group
    /\ UNCHANGED <<job, exit, errors, reply>>

OnTimeout ==
    /\ watch.armed /\ reply = Pending
    /\ watch' = [watch EXCEPT !.armed = FALSE, !.failed = TRUE, !.killed = TRUE]
    /\ group' = IF watch.killed THEN group ELSE {}
    /\ UNCHANGED <<job, exit, pipe, errors, reply>>

\* Mutant: the child's exit is enough.
ClosedAtExit == "launcher" \notin group

\* "close" comes once the child exited and nobody holds its output, all of it delivered.
Closed == group = {} /\ pipe = <<>>

\* One JSON text; a result cut short is none.
Parses(chunks) == chunks \in {<<"head", "tail">>, <<"unknown">>}

Reply ==
    IF watch.failed THEN [kind |-> "unknown", body |-> <<>>]
    ELSE IF exit # 0 THEN [kind |-> "child_exit", body |-> <<>>]
    ELSE IF Parses(watch.taken) THEN [kind |-> "result", body |-> watch.taken]
    ELSE [kind |-> "unknown", body |-> <<>>]

OnClose ==
    /\ Closed /\ errors = 0 /\ reply = Pending
    /\ reply' = Reply
    /\ UNCHANGED <<group, job, exit, pipe, errors, watch>>

ProcessNext ==
    \/ Launch \/ ReadInput \/ WriteOutput \/ EndWorker \/ EndLauncher \/ BreakStream
    \/ OnError \/ OnData \/ OnTimeout \/ OnClose

\* The event loop delivers what is there, the timer included; of the group nothing is assumed
\* but that a process which was killed is gone.
ProcessFairness == WF_processVars(OnError) /\ WF_processVars(OnData)
                   /\ WF_processVars(OnTimeout) /\ WF_processVars(OnClose)

ProcessSpec == ProcessInit /\ [][ProcessNext]_processVars /\ ProcessFairness

---------------------------------------------------------------------------
\* A request answered, in whatever way, is over: nothing of it runs on beside the next request
\* of the session; and a result is all of what one worker printed before it ended well.
NobodyRunsOn ==
    reply # Pending =>
        /\ group = {}
        /\ reply.kind = "result" => exit = 0 /\ job = "done" /\ Parses(reply.body)

\* A worker that hangs, writes without end or holds its output open is answered for all the same.
EventuallyAnswered == <>(reply # Pending)
=============================================================================
