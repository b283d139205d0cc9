------------------------ MODULE BedrockTransmission ------------------------
(***************************************************************************)
(* One pair of Bedrock ports: embeddings and generations, each authorized  *)
(* by the transmission policy before it leaves, each racing a timer of its *)
(* own, all sharing the decisions already consumed.  The policy is a port: *)
(* besides what this repository's own policy answers, it may repeat a      *)
(* decision, answer late, or grant one for too long.                       *)
(***************************************************************************)
EXTENDS Integers, FiniteSets

CONSTANTS Transmission, \* the requests made, each with a nonce of its own
          Decision,     \* the identifiers of decisions
          Lifetime,     \* policyLifetimeMilliseconds
          Patience,     \* requestTimeoutMilliseconds
          LastMoment    \* bound: the clock

BedrockAssumption == Lifetime \in Nat /\ Patience \in Nat /\ LastMoment \in Nat

VARIABLES moment,   \* Date.now()
          transfer, \* what became of each request
          granted,  \* the decisions the policy made: [id, for, issued, expires]
          consumed, \* consumedDecisionIds
          egress    \* what was handed to the sender: [request, grant, at]

bedrockVars == <<moment, transfer, granted, consumed, egress>>

BedrockInit ==
    /\ moment = 0
    /\ transfer = [r \in Transmission |-> [phase |-> "new", since |-> 0, aborted |-> FALSE,
                                           outcome |-> "none"]]
    /\ granted = {} /\ consumed = {} /\ egress = {}

Answered(r, outcome) == [transfer EXCEPT ![r].phase = "answered", ![r].outcome = outcome]

\* embed or generate: a text within its limit under a valid scope; anything else is an
\* "invalid_request" with no effect.  The timer starts with the question to the policy.
RequestTransmission(r) ==
    /\ transfer[r].phase = "new"
    /\ transfer' = [transfer EXCEPT ![r].phase = "authorizing", ![r].since = moment]
    /\ UNCHANGED <<moment, granted, consumed, egress>>

---------------------------------------------------------------------------
\* What authorize may resolve to: a decision made now, under a fresh identifier, for this
\* request; one made before; or none (a denial, a malformed record, an exception).
FreshGrants(r) ==
    {[id |-> d, for |-> r, issued |-> moment, expires |-> moment + span] :
        d \in Decision \ {g.id : g \in granted}, span \in {Lifetime, Lifetime + 1}}

\* Mutant: a decision need not name the request.
BindsAnyRequest(g, r) ==
    g.issued <= moment /\ moment < g.expires /\ g.expires - g.issued <= Lifetime

\* authorizedDecisionId: every field of the request echoed, in force now, not for too long.
Binds(g, r) ==
    /\ g.for = r
    /\ g.issued <= moment /\ moment < g.expires
    /\ g.expires - g.issued <= Lifetime

InTime(r) == ~transfer[r].aborted

Dispatchable(g, r) == InTime(r) /\ Binds(g, r) /\ g.id \notin consumed

\* The policy answers, and the request leaves in the same step or never.  An answer that comes
\* after the timer changes nothing the caller sees.
AuthorizeTransmission(r) ==
    /\ transfer[r].phase = "authorizing" \/ (transfer[r].aborted /\ transfer[r].outcome = "timeout")
    /\ \E g \in granted \union FreshGrants(r) :
          /\ granted' = granted \union {g}
          /\ IF Dispatchable(g, r)
               THEN /\ consumed' = consumed \union {g.id}
                    /\ egress' = egress \union {[request |-> r, grant |-> g, at |-> moment]}
                    /\ transfer' = [transfer EXCEPT ![r].phase =
                                        IF @ = "authorizing" THEN "sent" ELSE @]
               ELSE /\ transfer' = IF InTime(r) THEN Answered(r, "policy_denied") ELSE transfer
                    /\ UNCHANGED <<consumed, egress>>
    /\ UNCHANGED moment

DenyTransmission(r) ==
    /\ transfer[r].phase = "authorizing"
    /\ \E outcome \in {"policy_denied", "provider_error"} : transfer' = Answered(r, outcome)
    /\ UNCHANGED <<moment, granted, consumed, egress>>

\* The sender's promise: an answer that parses, one that does not, or a rejection.
Provide(r) ==
    /\ transfer[r].phase = "sent"
    /\ \E outcome \in {"succeeded", "invalid_provider_response", "unknown"} :
          transfer' = Answered(r, outcome)
    /\ UNCHANGED <<moment, granted, consumed, egress>>

\* The timer fires, as late as the event loop lets it: the signal is aborted, then the race lost.
TimeOut(r) ==
    /\ transfer[r].phase \in {"authorizing", "sent"}
    /\ moment >= transfer[r].since + Patience
    /\ transfer' = [Answered(r, IF transfer[r].phase = "sent" THEN "unknown" ELSE "timeout")
                      EXCEPT ![r].aborted = TRUE]
    /\ UNCHANGED <<moment, granted, consumed, egress>>

Pass ==
    /\ moment < LastMoment
    /\ moment' = moment + 1
    /\ UNCHANGED <<transfer, granted, consumed, egress>>

BedrockNext ==
    \/ \E r \in Transmission :
          \/ RequestTransmission(r) \/ AuthorizeTransmission(r) \/ DenyTransmission(r)
          \/ Provide(r) \/ TimeOut(r)
    \/ Pass

BedrockSpec == BedrockInit /\ [][BedrockNext]_bedrockVars

---------------------------------------------------------------------------
\* Whatever a policy repeats or delays: a request leaves once, under a decision made for it and
\* in force at that moment, and no decision lets two requests out, embeddings or generations.
\* A denial that names no provider answer is the truth for ever: its request did not leave and
\* no late decision lets it out, although the caller, told so, has long gone on.
OneDecisionPerEgress ==
    /\ \A e \in egress : /\ e.grant.for = e.request
                         /\ e.at \in e.grant.issued..(e.grant.issued + Lifetime - 1)
    /\ \A e, f \in egress : e.request = f.request \/ e.grant.id = f.grant.id => e = f
    /\ \A r \in Transmission :
          transfer[r].outcome \in {"policy_denied", "provider_error", "timeout"} =>
              r \notin {e.request : e \in egress}
=============================================================================
