-------------------------- MODULE MCHackathonLive --------------------------
(***************************************************************************)
(* HackathonLive for TLC.  The token expiry and the operator's switch are  *)
(* part of Next; the bounds are the sizes of Session and Worker and the    *)
(* caps, all given in the .cfg files.                                      *)
(***************************************************************************)
EXTENDS HackathonLive, FiniteSetsExt, TLC

Workers == Permutations(Worker)
WorkersAndSessions == Permutations(Worker) \union Permutations(Session)

\* Sums over the steps of all sessions.
SessionSteps == Session \X Step
Total(f) == SumFunctionOnSet(f, SessionSteps)
TitanSentTotal == Total([p \in SessionSteps |-> titanSent[p[1]][p[2]]])
NovaSentTotal == Total([p \in SessionSteps |-> novaSent[p[1]][p[2]]])

\* Over all sessions together, what was sent is covered by what was charged, and what was
\* charged stays within the caps, although workers of different sessions reserve at once
\* (startSession and reserveOperation under hackathon_quota_lock).
SpendingWithinCaps ==
    /\ TitanSentTotal =< used.titan
    /\ NovaSentTotal =< used.nova
    /\ WithinCaps
=============================================================================
