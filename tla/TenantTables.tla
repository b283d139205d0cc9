---------------------------- MODULE TenantTables ----------------------------
(***************************************************************************)
(* The tables of migrations 0001 to 0005 after all five have run: tenants, *)
(* payload anchors, events, event revision requests, and the key anchors   *)
(* with the erasable material behind them.  No program of the repository   *)
(* writes them, so a writer is anyone: a statement on one row commits iff  *)
(* the keys, checks and foreign keys hold.  Columns whose checks only      *)
(* concern their spelling are left out.                                    *)
(***************************************************************************)
EXTENDS Integers, FiniteSets

CONSTANTS AnchorRow,    \* [tenant, purpose, ref, requested]; ref stands for <<ref, revision>>
          EventRow,     \* [tenant, purpose, event, requested, payload]
          RequestRow,   \* [tenant, purpose, request, requested, operation, target, payload]
          KeyRow,       \* [tenant, purpose, ref, requested, scope, origin, expires]
          MaterialRow,  \* [key |-> a KeyRow, kind, version, at]
          RetentionLimit \* 24 hours

\* Times are integers.
TablesAssumption ==
    /\ RetentionLimit \in Int
    /\ \A x \in KeyRow : x.origin \in Int /\ x.expires \in Int
    /\ \A x \in MaterialRow : x.at \in Int

VARIABLES anchors, events, requests, keys, material

tableVars == <<anchors, events, requests, keys, material>>

TablesInit == anchors = {} /\ events = {} /\ requests = {} /\ keys = {} /\ material = {}

\* Row level security: the rows a reader or executor session with these settings sees.
Visible(rows, session) == {x \in rows : x.tenant = session.tenant /\ x.purpose = session.purpose}

In(x, y) == x.tenant = y.tenant /\ x.purpose = y.purpose

---------------------------------------------------------------------------
\* MATCH FULL: no payload at all, or an anchor equal in all five columns.
AnchorReference(x) ==
    x.payload = "null"
    \/ \E a \in anchors : In(a, x) /\ a.ref = x.payload /\ a.requested = x.requested

InsertAnchor(x) ==
    /\ ~\E a \in anchors : In(a, x) /\ a.ref = x.ref
    /\ anchors' = anchors \union {x}
    /\ UNCHANGED <<events, requests, keys, material>>

InsertEvent(x) ==
    /\ ~\E e \in events : In(e, x) /\ e.event = x.event
    /\ AnchorReference(x)
    /\ events' = events \union {x}
    /\ UNCHANGED <<anchors, requests, keys, material>>

\* The executor's policy lets it insert what is in its session's scope.
InsertRequest(session, x) ==
    /\ x \in Visible({x}, session)
    /\ x.requested = x.purpose
    /\ x.target # x.request
    /\ ~\E r \in requests : In(r, x) /\ (r.request = x.request \/ r.operation = x.operation)
    /\ \E e \in events : In(e, x) /\ e.event = x.target /\ e.requested = x.requested
    /\ AnchorReference(x)
    /\ requests' = requests \union {x}
    /\ UNCHANGED <<anchors, events, keys, material>>

KeyChecks(x) ==
    /\ x.origin < x.expires
    /\ x.expires <= x.origin + RetentionLimit

KeyFree(x, others) ==
    /\ ~\E k \in others : In(k, x) /\ (k.ref = x.ref \/ k.scope = x.scope)
    /\ \E a \in anchors : In(a, x) /\ a.ref = x.ref /\ a.requested = x.requested

InsertKey(x) ==
    /\ KeyChecks(x)
    /\ KeyFree(x, keys)
    /\ keys' = keys \union {x}
    /\ UNCHANGED <<anchors, events, requests, material>>

\* What a row of material repeats of its key anchor is compared in all ten columns, the
\* retention among them.
InsertMaterial(x) ==
    /\ x.key \in keys
    /\ x.key.origin <= x.at /\ x.at < x.key.expires
    /\ ~\E m \in material :
          /\ m.kind = x.kind /\ In(m.key, x.key) /\ m.key.ref = x.key.ref
          /\ x.kind = "superseded" => m.version = x.version
    /\ material' = material \union {x}
    /\ UNCHANGED <<anchors, events, requests, keys>>

---------------------------------------------------------------------------
\* Mutant: a key anchor may be changed under its material.
ReferencedKeyNever(k) == FALSE

\* ON DELETE RESTRICT ON UPDATE RESTRICT.
ReferencedKey(k) == \E m \in material : m.key = k

ReferencedAnchor(a) ==
    \/ \E x \in events \union requests : In(a, x) /\ x.payload = a.ref /\ x.requested = a.requested
    \/ \E k \in keys : In(k, a) /\ k.ref = a.ref

DeleteAnchor(a) ==
    /\ a \in anchors /\ ~ReferencedAnchor(a)
    /\ anchors' = anchors \ {a}
    /\ UNCHANGED <<events, requests, keys, material>>

DeleteEvent(e) ==
    /\ e \in events
    /\ ~\E r \in requests : In(r, e) /\ r.target = e.event
    /\ events' = events \ {e}
    /\ UNCHANGED <<anchors, requests, keys, material>>

\* The retention of a key anchor, or its key scope, is changed.
UpdateKey(k, x) ==
    /\ k \in keys /\ In(k, x) /\ k.ref = x.ref /\ k # x
    /\ ~ReferencedKey(k)
    /\ KeyChecks(x)
    /\ KeyFree(x, keys \ {k})
    /\ keys' = (keys \ {k}) \union {x}
    /\ UNCHANGED <<anchors, events, requests, material>>

DeleteKey(k) ==
    /\ k \in keys /\ ~ReferencedKey(k)
    /\ keys' = keys \ {k}
    /\ UNCHANGED <<anchors, events, requests, material>>

\* Erasure: material goes first.
Erase(m) ==
    /\ m \in material
    /\ material' = material \ {m}
    /\ UNCHANGED <<anchors, events, requests, keys>>

TablesNext ==
    \/ \E x \in AnchorRow : InsertAnchor(x) \/ DeleteAnchor(x)
    \/ \E x \in EventRow : InsertEvent(x) \/ DeleteEvent(x)
    \/ \E x \in RequestRow, s \in EventRow : InsertRequest(s, x)
    \/ \E x \in KeyRow : InsertKey(x) \/ DeleteKey(x) \/ \E k \in keys : UpdateKey(k, x)
    \/ \E x \in MaterialRow : InsertMaterial(x) \/ Erase(x)

TablesSpec == TablesInit /\ [][TablesNext]_tableVars

---------------------------------------------------------------------------
\* What a session sees refers to nothing it does not see: no payload, target or key anchor
\* of another tenant or purpose, nor a deleted one.
ReferencesStayInScope ==
    \A s \in AnchorRow :
        LET mine == Visible(anchors, s)
        IN  /\ \A x \in Visible(events, s) \union Visible(requests, s) :
                  x.payload # "null" => \E a \in mine : a.ref = x.payload /\ a.requested = x.requested
            /\ \A r \in Visible(requests, s) : \E e \in Visible(events, s) : e.event = r.target
            /\ \A k \in Visible(keys, s) : \E a \in mine : a.ref = k.ref

\* Whatever is updated in between, no material outlives the 24 hours of its key anchor as it
\* stands in the table, and a payload revision has one current material and wrapped key.
RetentionHolds ==
    /\ \A m \in material : /\ m.key \in keys
                           /\ m.key.expires - m.at <= RetentionLimit
    /\ \A m, n \in material :
          /\ m.kind = n.kind /\ m.kind # "superseded"
          /\ In(m.key, n.key) /\ m.key.ref = n.key.ref
          => m = n

TablesInv == ReferencesStayInScope /\ RetentionHolds
=============================================================================
