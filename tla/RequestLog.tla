----------------------------- MODULE RequestLog -----------------------------
(***************************************************************************)
(* What the event revision requests of C06 promise: an append-only log in  *)
(* which a request and an operation are each used once per scope, and an   *)
(* answer "appended" or "replayed" only for what the log holds.            *)
(***************************************************************************)
CONSTANTS Caller, \* the contexts: records with tenant and purpose
          Entry   \* the requests: those fields, request and operation

VARIABLES log,          \* the recorded requests
          acknowledged, \* those whose callers were told so
          open          \* the contexts that still validate

logVars == <<log, acknowledged, open>>

LogInit == log = {} /\ acknowledged = {} /\ open = Caller

SameScope(r, x) == r.tenant = x.tenant /\ r.purpose = x.purpose

Fresh(r) == \A x \in log : SameScope(r, x) => x.request # r.request /\ x.operation # r.operation

\* A request is recorded, or found recorded, for a context that validates at that moment.
Acknowledge(c, r) ==
    /\ c \in open
    /\ SameScope(c, r)
    /\ log' = log \union {r}
    /\ r \in log \/ Fresh(r)
    /\ acknowledged' = acknowledged \union {r}
    /\ UNCHANGED open

Close(c) == open' = open \ {c} /\ UNCHANGED <<log, acknowledged>>

LogNext == \E c \in Caller : Close(c) \/ \E r \in Entry : Acknowledge(c, r)

LogSpec == LogInit /\ [][LogNext]_logVars
=============================================================================
