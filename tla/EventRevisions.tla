--------------------------- MODULE EventRevisions ---------------------------
(***************************************************************************)
(* The event revision requests of C06: the service, which asks the tenant  *)
(* context twice, over the in-memory repository with its two indexes.      *)
(* Between the two looks the context port runs code of its own: contexts   *)
(* lapse there, and further requests may be made on top of the one that    *)
(* waits.  An issued context never validates again once it stopped to      *)
(* (NeverRevived of TenantContext).                                        *)
(***************************************************************************)
EXTENDS Integers, Sequences, FiniteSets

CONSTANTS Context,     \* issued contexts: [tenant, purpose, operation]
          Command,     \* what callers ask: [request, operation, target]
          MaxScopes,   \* 64 in the code
          MaxPerScope, \* 64 in the code
          MaxCalls     \* bound: how deep requests nest

RequestsAssumption == MaxScopes \in Nat /\ MaxPerScope \in Nat \ {0} /\ MaxCalls \in Nat

VARIABLES scopes,   \* the repository: one store per tenant and purpose, oldest first
          calls,    \* the requests between their two looks, innermost last
          told,     \* the requests answered "appended" or "replayed"
          valid     \* the contexts that validate

requestVars == <<scopes, calls, told, valid>>

RequestOf(c, m) ==
    [tenant |-> c.tenant, purpose |-> c.purpose, request |-> m.request,
     operation |-> m.operation, target |-> m.target]

\* The first look: the context is issued for this operation and capability.
InScope(c) == c \in valid /\ c.operation = "event.revision.request"

\* A request may not target itself; every other check of a command is about its spelling.
WellFormedCommand(m) == m.target # m.request

RequestsInit == scopes = <<>> /\ calls = <<>> /\ told = {} /\ valid = Context

Ask(c, m) ==
    /\ Len(calls) < MaxCalls
    /\ InScope(c)
    /\ WellFormedCommand(m)
    /\ calls' = Append(calls, [context |-> c, owned |-> RequestOf(c, m)])
    /\ UNCHANGED <<scopes, told, valid>>

---------------------------------------------------------------------------
ScopeKey(r) == <<r.tenant, r.purpose>>

FindScopeIndex(r) == {i \in DOMAIN scopes : scopes[i].key = ScopeKey(r)}

\* The entries stored under a key: none or, as the indexes are searched in order, the first.
Indexed(entries, key) ==
    LET hits == {i \in DOMAIN entries : entries[i].key = key}
    IN  {entries[i].stored : i \in {j \in hits : \A k \in hits : j <= k}}

FoundRequest(r) == UNION {Indexed(scopes[i].byRequest, r.request) : i \in FindScopeIndex(r)}
FoundOperation(r) == UNION {Indexed(scopes[i].byOperation, r.operation) : i \in FindScopeIndex(r)}

AppendOutcome(r) ==
    IF FoundRequest(r) \union FoundOperation(r) # {}
      THEN IF FoundRequest(r) = {r} /\ FoundOperation(r) = {r} THEN "replayed" ELSE "conflict"
    ELSE IF \/ FindScopeIndex(r) = {} /\ Len(scopes) >= MaxScopes
            \/ \E i \in FindScopeIndex(r) : Len(scopes[i].byRequest) >= MaxPerScope
      THEN "denied"
    ELSE "appended"

EmptyStore(r) == [key |-> ScopeKey(r), byRequest |-> <<>>, byOperation |-> <<>>]

Extended(store, r) ==
    [store EXCEPT !.byRequest = Append(@, [key |-> r.request, stored |-> r]),
                  !.byOperation = Append(@, [key |-> r.operation, stored |-> r])]

\* The store that replaces the scope's, in its place or at the end.
Stored(r) ==
    IF FindScopeIndex(r) = {}
      THEN Append(scopes, Extended(EmptyStore(r), r))
      ELSE [i \in DOMAIN scopes |-> IF scopes[i].key = ScopeKey(r) THEN Extended(scopes[i], r)
                                    ELSE scopes[i]]

---------------------------------------------------------------------------
Innermost == calls[Len(calls)]

Pop == SubSeq(calls, 1, Len(calls) - 1)

\* Mutant: the scope found at the first look is still used at the second.
StillInScopeRemembered(call) == TRUE

\* The second look, taken by the repository through currentScope.
StillInScope(call) == InScope(call.context)

Settle ==
    /\ calls # <<>>
    /\ calls' = Pop
    /\ LET r == Innermost.owned
           outcome == IF StillInScope(Innermost) THEN AppendOutcome(r) ELSE "denied"
       IN  /\ scopes' = IF outcome = "appended" THEN Stored(r) ELSE scopes
           /\ told' = IF outcome \in {"appended", "replayed"} THEN told \union {r} ELSE told
    /\ UNCHANGED valid

\* What the context port does meanwhile, and time: a context ceases to validate.
Lapse(c) ==
    /\ c \in valid
    /\ valid' = valid \ {c}
    /\ UNCHANGED <<scopes, calls, told>>

RequestsNext ==
    \/ \E c \in Context, m \in Command : Ask(c, m)
    \/ Settle
    \/ \E c \in Context : Lapse(c)

RequestsSpec == RequestsInit /\ [][RequestsNext]_requestVars

---------------------------------------------------------------------------
Entries(index) == {index[i].stored : i \in DOMAIN index}

Recorded == UNION {Entries(scopes[i].byRequest) : i \in DOMAIN scopes}

OneKeyEach(index) == \A i, j \in DOMAIN index : index[i].key = index[j].key => i = j

\* The two indexes of a scope list the same requests in the same order, each under its own key,
\* whichever requests were made inside the callback of another: the indexes are built before
\* the one assignment that publishes them.
IndexesAgree ==
    \A i \in DOMAIN scopes :
        LET store == scopes[i]
        IN  /\ Len(store.byRequest) = Len(store.byOperation)
            /\ OneKeyEach(store.byRequest) /\ OneKeyEach(store.byOperation)
            /\ \A n \in DOMAIN store.byRequest :
                  /\ store.byRequest[n].stored = store.byOperation[n].stored
                  /\ store.byRequest[n].key = store.byRequest[n].stored.request
                  /\ store.byOperation[n].key = store.byOperation[n].stored.operation
                  /\ ScopeKey(store.byRequest[n].stored) = store.key

\* One store per scope, within the limits, whatever was decided while other requests waited.
StoresBounded ==
    /\ Len(scopes) <= MaxScopes
    /\ \A i, j \in DOMAIN scopes : scopes[i].key = scopes[j].key => i = j
    /\ \A i \in DOMAIN scopes : Len(scopes[i].byRequest) \in 1..MaxPerScope

\* The repository's state is consistent between any two steps of nested requests.
RequestIndexes == IndexesAgree /\ StoresBounded

Requests == {RequestOf(c, m) : c \in Context, m \in Command}

RequestsLog == INSTANCE RequestLog WITH
    Caller <- Context, Entry <- Requests, log <- Recorded, acknowledged <- told, open <- valid

\* Requests, replays and lapsing contexts, nested in any way, are an append-only log in which
\* no request and no operation is used twice, and nothing is recorded or confirmed for a
\* context that lapsed between the two looks; and both indexes of every scope hold that log.
RequestsImplementLog == []RequestIndexes /\ RequestsLog!LogSpec
=============================================================================
