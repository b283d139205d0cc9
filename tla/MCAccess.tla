------------------------------ MODULE MCAccess ------------------------------
(***************************************************************************)
(* Instances of the services that decide who may do what and of the        *)
(* stores they guard.  A behaviour is one of one service.  TenantContext   *)
(* has two focuses: nested issuances of two services, whose identifiers    *)
(* collide in one or two places or within themselves, under a plane that   *)
(* does not change; or a plane that changes between any two steps of one   *)
(* call at a time.                                                         *)
(***************************************************************************)
EXTENDS TenantContext, Authentication, TenantReads, TenantTables, EventRevisions

VARIABLE focus   \* the service of this behaviour

ASSUME AccessAssumption == AuthAssumption /\ TablesAssumption /\ RequestsAssumption

---------------------------------------------------------------------------
(* TenantContext *)
MCTuples == {{1, 2, 3}, {3, 4, 5}, {6, 7, 8}, {9, 10, 11}, {12, 13}}

MCAuthority(mode, expires, admits, origin) ==
  [mode |-> mode, revoked |-> FALSE, expires |-> expires, admits |-> admits,
   workload |-> "worker", origin |-> origin]

MCAuthorities == {MCAuthority("principal", 3, TRUE, "cron"), MCAuthority("principal", 2, FALSE, "cron"),
                  MCAuthority("system", 3, FALSE, "cron")}

MCExpiries == [w \in Workloads |-> IF w = "worker" THEN 3 ELSE 2]

\* What the frames of a behaviour with the focus may be.
NestedFrame(f) == f.now = 1 /\ f.workload = "worker" /\ f.actor.kind = "membership"
SingleFrame(f) == f.service = "s1" /\ f.ids \in {{}, {1, 2, 3}}

InFocus ==
  CASE focus = "nesting" -> Generation = 1 /\ \A d \in DOMAIN stack : NestedFrame(stack[d])
    [] focus = "plane" -> Len(stack) <= 1 /\ \A d \in DOMAIN stack : SingleFrame(stack[d])

---------------------------------------------------------------------------
(* Authentication: a credential with two access tokens and an id token. *)
MCToken ==
  LET token(form, issued, expires) ==
        [credential |-> "c1", subject |-> "u", form |-> form, authenticated |-> 1,
         issued |-> issued, expires |-> expires]
  IN  {token("access", 1, 3), token("access", 3, 4), token("id", 1, 4)}
MCCredential == {[credential |-> "c1", subject |-> "u"]}
MCGrant == {[subject |-> "u", tenant |-> "t1", expires |-> 4],
            [subject |-> "u", tenant |-> "t2", expires |-> 3]}
MCService == {[subject |-> "w", issued |-> 1, expires |-> 3]}
MCPresented == MCService \cup {[subject |-> "w", issued |-> 1, expires |-> 4]}

---------------------------------------------------------------------------
(* TenantReads: rows of two tenants and two purposes, with one name. *)
Scoped(t, p, o) == [tenant |-> t, purpose |-> p, operation |-> o]

MCReader == {Scoped("t1", "p", "database.read"), Scoped("t1", "q", "database.read"),
             Scoped("t2", "p", "database.read"), Scoped("t1", "p", "event.revision.request")}

RowOf(t, p, i) == [tenant |-> t, purpose |-> p, id |-> i, revision |-> 1]
EventOf(r, a) == [tenant |-> r.tenant, purpose |-> r.purpose, id |-> r.id,
                  revision |-> r.revision, payload |-> a]

MCAnchor == {RowOf("t1", "p", "a"), RowOf("t1", "q", "a"), RowOf("t2", "p", "a")}
MCEvent == {EventOf(RowOf(s[1], s[2], s[3]), s[4]) :
               s \in {<<"t1", "p", "e", <<"a", 1>>>>, <<"t1", "q", "e", <<"a", 1>>>>, <<"t1", "q", "e", <<>>>>,
                      <<"t1", "q", "f", <<"a", 1>>>>, <<"t2", "p", "e", <<"a", 1>>>>}}

\* Tables of the tenant t1: nothing, a row under purpose p, or that row and another.
TablesOf(first, others) == {<<>>, <<first>>} \cup {<<first, r>> : r \in others}
MCFixture ==
  LET anchor == RowOf("t1", "p", "a")
      event == EventOf(RowOf("t1", "p", "e"), <<"a", 1>>)
  IN  [anchors : TablesOf(anchor, MCAnchor \ {RowOf("t2", "p", "a")}),
       events : TablesOf(event, {e \in MCEvent : e.tenant = "t1"})]

---------------------------------------------------------------------------
(* TenantTables: an anchor under two purposes, its events, keys and material. *)
MCAnchorRow == {[tenant |-> t, purpose |-> p, ref |-> "a", requested |-> p] :
                   <<t, p>> \in {<<"t", "p">>, <<"t", "q">>, <<"u", "p">>}}
MCEventRow == {[tenant |-> "t", purpose |-> p, event |-> "e", requested |-> p, payload |-> a] :
                   <<p, a>> \in {<<"p", "a">>, <<"p", "null">>, <<"q", "a">>}}
MCRequestRow == {[tenant |-> "t", purpose |-> "p", request |-> r, requested |-> "p",
                  operation |-> "o", target |-> "e", payload |-> "a"] : r \in {"e", "r", "s"}}
MCKeyRow == {[tenant |-> "t", purpose |-> k[1], ref |-> "a", requested |-> k[1],
              scope |-> k[2], origin |-> k[3], expires |-> k[4]] :
                 k \in {<<"p", "k", 0, 1>>, <<"p", "k", 0, 2>>, <<"p", "l", 1, 4>>, <<"q", "k", 0, 2>>}}
MCMaterialRow ==
  LET material_(k, kind, v) == [key |-> k, kind |-> kind, version |-> v, at |-> 0]
      keysUntil(x) == {k \in MCKeyRow : k.purpose = "p" /\ k.scope = "k" /\ k.expires \in x}
  IN  {material_(k, kind, v) : k \in keysUntil({2}), kind \in {"wrapped", "superseded"}, v \in {1, 2}}
        \cup {material_(k, "content", 1) : k \in keysUntil({1, 2})}

---------------------------------------------------------------------------
(* EventRevisions: requests and operations used twice, in and across scopes. *)
MCContext == {Scoped("t1", "p", "event.revision.request"), Scoped("t1", "q", "event.revision.request"),
              Scoped("t1", "p", "database.read")}
MCCommand == {[request |-> c[1], operation |-> c[2], target |-> c[3]] :
                 c \in {<<"r1", "o1", "e">>, <<"r2", "o2", "e">>, <<"r1", "o2", "e">>,
                        <<"r1", "o1", "r1">>, <<"r1", "o1", "f">>}}

---------------------------------------------------------------------------
authenticating == <<authority, principals, vouched, attested, verdict, refused>>
reads == <<tables, reading, disclosed, current>>
keeping == <<anchors, events, requests, keys, material>>
requesting == <<scopes, calls, told, valid>>

\* Bound: the rows disclosed in a behaviour.
MaxDisclosed == 3

MCInit ==
  /\ Init /\ AuthInit /\ ReadsInit /\ TablesInit
  /\ RequestsInit
  /\ \/ focus \in {"plane", "authentication", "reads", "tables", "requests"}
     \/ focus = "nesting" /\ \A i \in Intents : Plane.authority[i].admits
  /\ focus \notin {"plane", "nesting"} =>
       \A i \in Intents : Plane.authority[i] = CHOOSE a \in Authorities : a.mode = "system"

MCNext ==
  /\ UNCHANGED focus
  /\ \/ focus \in {"plane", "nesting"} /\ Next /\ InFocus'
     \/ focus \notin {"plane", "nesting"} /\ UNCHANGED vars
  /\ \/ focus = "authentication" /\ AuthNext
     \/ focus # "authentication" /\ UNCHANGED authenticating
  /\ \/ focus = "reads" /\ ReadsNext /\ Cardinality(disclosed') =< MaxDisclosed
     \/ focus # "reads" /\ UNCHANGED reads
  /\ \/ focus = "tables" /\ TablesNext
     \/ focus # "tables" /\ UNCHANGED keeping
  /\ \/ focus = "requests" /\ RequestsNext
     \/ focus # "requests" /\ UNCHANGED requesting

MCSpec == MCInit /\ [][MCNext]_<<vars, focus, authenticating, reads, keeping, requesting>>

=============================================================================
