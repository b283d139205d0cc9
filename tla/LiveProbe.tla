----------------------------- MODULE LiveProbe -----------------------------
(***************************************************************************)
(* scripts/h2-crdb-live-probe.mjs: an operator's proof, on the database    *)
(* that visitors are using, that a correction contended by twenty          *)
(* connections takes effect once.  It seeds canary rows whose names are    *)
(* computed from a nonce, lets the production adapter correct them over    *)
(* connections of its own, verifies, removes what it seeded and compares   *)
(* the tables' counts with those it began with.  --cleanup removes the     *)
(* rows of a nonce whose run was cut off.                                  *)
(*                                                                         *)
(* Each transaction is one step; the service makes them serializable.  The *)
(* correction's own steps are in module HackathonCrdb.                     *)
(***************************************************************************)
EXTENDS Integers, FiniteSets

CONSTANTS
    Prober,       \* operators who may run the tool, at once or again
    Nonce,        \* the nonces they choose
    Contenders,   \* the connections that contend (twenty)
    MaxOrphans,   \* bound: corrections left in flight, of one nonce
    MaxVisitors   \* bound: sessions that visitors start

LiveProbeAssumption ==
    /\ IsFiniteSet(Prober) /\ IsFiniteSet(Nonce)
    /\ Contenders \in Nat \ {0} /\ MaxOrphans \in Nat /\ MaxVisitors \in Nat

VARIABLES
    canary,    \* the rows of a nonce: "none", "seeded" or "corrected"
    orphans,   \* corrections of a nonce still in flight although their run ended
    visitors,  \* sessions that visitors have started
    probe,     \* what each operator's run is doing
    verdict,   \* what it last said
    cleaned    \* the nonces removed and not seeded since

probeVars == <<canary, orphans, visitors, probe, verdict, cleaned>>

Out == [at |-> "out"]

\* The tables' counts: a seeding is three tenants' sessions, a correction one
\* effect.
GlobalCounts ==
    [sessions |-> visitors + 3 * Cardinality({n \in Nonce : canary[n] # "none"}),
     effects |-> Cardinality({n \in Nonce : canary[n] = "corrected"})]

ProbeInit ==
    /\ canary = [n \in Nonce |-> "none"]
    /\ orphans = [n \in Nonce |-> 0]
    /\ visitors = 0
    /\ probe = [o \in Prober |-> Out]
    /\ verdict = [o \in Prober |-> "none"]
    /\ cleaned = {}

Moves(o, where) == probe' = [probe EXCEPT ![o].at = where]

\* The baseline, in a read-only transaction: none of the nonce's rows exist.
Baseline(o, n) ==
    /\ probe[o] = Out /\ canary[n] = "none"
    /\ probe' = [probe EXCEPT ![o] =
                   [at |-> "seed", nonce |-> n, before |-> GlobalCounts,
                    sent |-> 0, won |-> 0, replayed |-> 0]]
    /\ verdict' = [verdict EXCEPT ![o] = "none"]
    /\ UNCHANGED <<canary, orphans, visitors, cleaned>>

\* The canary's tenants are inserted, which fails if they are there by now.
Seed(o) ==
    /\ probe[o].at = "seed" /\ canary[probe[o].nonce] = "none"
    /\ canary' = [canary EXCEPT ![probe[o].nonce] = "seeded"]
    /\ cleaned' = cleaned \ {probe[o].nonce}
    /\ Moves(o, "prove")
    /\ UNCHANGED <<orphans, visitors, verdict>>

\* The pool's reuse and the plan are read; then every contender sends the
\* same correction.
Contend(o) ==
    /\ probe[o].at = "prove"
    /\ probe' = [probe EXCEPT ![o].at = "contend", ![o].sent = Contenders]
    /\ UNCHANGED <<canary, orphans, visitors, verdict, cleaned>>

\* Mutant: a correction that does not ask for its session.
CorrectedAnyway(rows) == "corrected"
\* What one correction does to the rows: it needs its session and its
\* reservation, and a second one finds the recorded effect.
Corrected(rows) == IF rows = "none" THEN "none" ELSE "corrected"

Correct(o) ==
    /\ probe[o].at = "contend" /\ probe[o].sent > 0
    /\ LET n == probe[o].nonce
           rows == canary[n]
       IN  /\ canary' = [canary EXCEPT ![n] = Corrected(rows)]
           /\ probe' = [probe EXCEPT
                ![o].sent = @ - 1,
                ![o].won = IF rows = "seeded" THEN @ + 1 ELSE @,
                ![o].replayed = IF rows = "corrected" THEN @ + 1 ELSE @]
    /\ UNCHANGED <<orphans, visitors, verdict, cleaned>>

OrphanCommits(n) ==
    /\ orphans[n] > 0
    /\ orphans' = [orphans EXCEPT ![n] = @ - 1]
    /\ canary' = [canary EXCEPT ![n] = Corrected(canary[n])]
    /\ UNCHANGED <<visitors, probe, verdict, cleaned>>

OrphanAborts(n) ==
    /\ orphans[n] > 0
    /\ orphans' = [orphans EXCEPT ![n] = @ - 1]
    /\ UNCHANGED <<canary, visitors, probe, verdict, cleaned>>

\* One correction succeeded, the others replayed it, and the rows show it.
Verified(o) ==
    /\ probe[o].won = 1 /\ probe[o].replayed = Contenders - 1
    /\ canary[probe[o].nonce] = "corrected"

Verify(o) ==
    /\ probe[o].at = "contend" /\ probe[o].sent = 0 /\ Verified(o)
    /\ Moves(o, "clean")
    /\ UNCHANGED <<canary, orphans, visitors, verdict, cleaned>>

Removed(n) ==
    /\ canary' = [canary EXCEPT ![n] = "none"]
    /\ cleaned' = cleaned \cup {n}

CleanUp(o) ==
    /\ probe[o].at = "clean"
    /\ Removed(probe[o].nonce)
    /\ Moves(o, "count")
    /\ UNCHANGED <<orphans, visitors, verdict>>

Says(o, what) ==
    /\ probe' = [probe EXCEPT ![o] = Out]
    /\ verdict' = [verdict EXCEPT ![o] = what]

Compare(o) ==
    /\ probe[o].at = "count"
    /\ Says(o, IF GlobalCounts = probe[o].before THEN "proved" ELSE "rejected")
    /\ UNCHANGED <<canary, orphans, visitors, cleaned>>

\* --cleanup <nonce>: one transaction, whatever is there.
CleanUpOnly(o, n) ==
    /\ probe[o] = Out
    /\ Removed(n)
    /\ Says(o, "cleaned")
    /\ UNCHANGED <<orphans, visitors>>

\* A check fails, a connection is lost or the machine stops.  The corrections
\* that were sent may still be executed.
GiveUp(o) ==
    /\ probe[o] # Out
    /\ LET n == probe[o].nonce
           left == orphans[n] + probe[o].sent
       IN  left <= MaxOrphans /\ orphans' = [orphans EXCEPT ![n] = left]
    /\ Says(o, "rejected")
    /\ UNCHANGED <<canary, visitors, cleaned>>

Visit ==
    /\ visitors < MaxVisitors
    /\ visitors' = visitors + 1
    /\ UNCHANGED <<canary, orphans, probe, verdict, cleaned>>

ProbeNext ==
    \/ \E o \in Prober :
          \/ \E n \in Nonce : Baseline(o, n) \/ CleanUpOnly(o, n)
          \/ Seed(o) \/ Contend(o) \/ Correct(o) \/ Verify(o) \/ CleanUp(o)
          \/ Compare(o) \/ GiveUp(o)
    \/ \E n \in Nonce : OrphanCommits(n) \/ OrphanAborts(n)
    \/ Visit

ProbeSpec == ProbeInit /\ [][ProbeNext]_probeVars

(***************************************************************************)
(* Properties.                                                             *)
(***************************************************************************)

\* What a probe leaves on the visitors' database: once a nonce is cleaned
\* nothing of it comes back before it is seeded again, not by a correction of
\* a run that ended with its connections still working, nor by another
\* operator's run of the same nonce.
CleanedStaysClean == \A n \in cleaned : canary[n] = "none"
=============================================================================
