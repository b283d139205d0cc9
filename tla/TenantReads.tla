---------------------------- MODULE TenantReads ----------------------------
(***************************************************************************)
(* The reads of C03 and C04: the isolation service, which asks the tenant  *)
(* context before and after its reader, over the local database built from *)
(* a fixture or over any other reader, whose answers are not to be         *)
(* trusted.  Contexts lapse at any time and are never revived.             *)
(***************************************************************************)
EXTENDS Integers, Sequences, FiniteSets

CONSTANTS Reader,   \* issued contexts: [tenant, purpose, operation]
          Anchor,   \* anchor rows a fixture may have: [tenant, purpose, id, revision]
          Event,    \* event rows: the same fields and payload, an <<id, revision>> or <<>>
          Fixture   \* fixtures: [anchors |-> Seq(Anchor), events |-> Seq(Event)]

VARIABLES tables,    \* the rows behind the reader, or that of a reader of unknown making
          reading,   \* the call in progress
          disclosed, \* what was answered "found": [context, kind, row]
          current    \* the contexts that validate

readVars == <<tables, reading, disclosed, current>>

Idle == [phase |-> "idle"]
Foreign == [origin |-> "foreign", anchors |-> {}, events |-> {}]

ReadsInit ==
    /\ tables = Foreign
    /\ reading = Idle
    /\ disclosed = {}
    /\ current = Reader

---------------------------------------------------------------------------
\* createLocalC04Database.
Elements(s) == {s[i] : i \in DOMAIN s}

PhysicalKey(row) == <<row.tenant, row.id, row.revision>>

DistinctRows(s) == \A i, j \in DOMAIN s : PhysicalKey(s[i]) = PhysicalKey(s[j]) => i = j

\* The payload of an event is an anchor of its tenant, and of its purpose.
Anchored(e, anchors) ==
    e.payload # <<>> =>
      \E a \in anchors : /\ a.tenant = e.tenant /\ a.purpose = e.purpose
                         /\ <<a.id, a.revision>> = e.payload

Loadable(f) ==
    /\ DistinctRows(f.anchors)
    /\ DistinctRows(f.events)
    /\ \A e \in Elements(f.events) : Anchored(e, Elements(f.anchors))

\* An invalid fixture throws and leaves no database.
Load(f) ==
    /\ tables = Foreign /\ reading = Idle
    /\ disclosed = {}
    /\ Loadable(f)
    /\ tables' = [origin |-> "local", anchors |-> Elements(f.anchors), events |-> Elements(f.events)]
    /\ UNCHANGED <<reading, disclosed, current>>

---------------------------------------------------------------------------
ScopeOf(c) == [tenant |-> c.tenant, purpose |-> c.purpose]

\* scope(): the context validates, for this operation and capability.
Authorized(c) == c \in current /\ c.operation = "database.read"

Row(x) == [given |-> "row", row |-> x]
Nothing == [given |-> "nothing"]

\* The first look at the context.
Begin(c, kind, id, revision) ==
    /\ reading = Idle
    /\ Authorized(c)
    /\ reading' = [phase |-> "asked", context |-> c, kind |-> kind, id |-> id,
                   revision |-> revision, answer |-> Nothing]
    /\ UNCHANGED <<tables, disclosed, current>>

Rows(kind) == IF kind = "event" THEN tables.events ELSE tables.anchors

\* The local reader looks up the key of the scope.
LocalRows ==
    {x \in Rows(reading.kind) : /\ ScopeOf(x) = ScopeOf(reading.context)
                                /\ x.id = reading.id /\ x.revision = reading.revision}

\* What a reader may answer: a row, nothing, or, if it is not the local one, any row, one that
\* does not parse (too long, not canonical, not a row at all) or an exception.
ReaderAnswers ==
    IF tables.origin = "local"
      THEN IF LocalRows = {} THEN {Nothing} ELSE {Row(x) : x \in LocalRows}
      ELSE {Row(x) : x \in IF reading.kind = "event" THEN Event ELSE Anchor}
           \union {Nothing, [given |-> "malformed"], [given |-> "failed"]}

Answer ==
    /\ reading.phase = "asked"
    /\ \E a \in ReaderAnswers : reading' = [reading EXCEPT !.phase = "answered", !.answer = a]
    /\ UNCHANGED <<tables, disclosed, current>>

\* Mutant: the answer is given without a second look at the context.
ScopeUnchangedRemembered(c) == TRUE

ScopeUnchanged(c) == Authorized(c)

\* No exception, and for parseEventRow and parseAnchorRow a canonical encoding of a row.
Parsed(answer) == answer.given = "row"

\* The row is the one that was asked for.
Matches(row) ==
    /\ ScopeOf(row) = ScopeOf(reading.context)
    /\ row.id = reading.id /\ row.revision = reading.revision

\* Everything after the reader: the second look, then the row.  Denials and "not found" have
\* no effect.
Disclose ==
    /\ reading.phase = "answered"
    /\ reading' = Idle
    /\ disclosed' =
         IF /\ ScopeUnchanged(reading.context)
            /\ Parsed(reading.answer)
            /\ Matches(reading.answer.row)
           THEN disclosed \union {[context |-> reading.context, kind |-> reading.kind,
                                   row |-> reading.answer.row]}
           ELSE disclosed
    /\ UNCHANGED <<tables, current>>

Expire(c) ==
    /\ c \in current
    /\ current' = current \ {c}
    /\ UNCHANGED <<tables, reading, disclosed>>

Keys == {<<row.id, row.revision>> : row \in Anchor \union Event}

ReadsNext ==
    \/ \E f \in Fixture : Load(f)
    \/ \E c \in Reader, kind \in {"event", "anchor"}, k \in Keys : Begin(c, kind, k[1], k[2])
    \/ Answer
    \/ Disclose
    \/ \E c \in Reader : Expire(c)

ReadsSpec == ReadsInit /\ [][ReadsNext]_readVars

---------------------------------------------------------------------------
\* A row is disclosed to a context of its tenant and purpose that validates at that moment,
\* whatever the reader answered and whatever lapsed while it did.
DisclosedInScope ==
    [][\A d \in disclosed' \ disclosed :
          /\ d.context \in current
          /\ ScopeOf(d.row) = ScopeOf(d.context)]_readVars

\* From a fixture, nothing is ever seen under two purposes, and the payload an event names is
\* an anchor its reader may see: the loader's keys leave the purpose out on purpose.
OnePurposePerRow ==
    tables.origin = "local" =>
      /\ \A d, e \in disclosed :
            /\ d.kind = e.kind /\ d.row.tenant = e.row.tenant
            /\ d.row.id = e.row.id /\ d.row.revision = e.row.revision
            => d.row = e.row
      /\ \A d \in disclosed :
            d.kind = "event" /\ d.row.payload # <<>> =>
              \E a \in tables.anchors : /\ ScopeOf(a) = ScopeOf(d.context)
                                        /\ <<a.id, a.revision>> = d.row.payload

\* What is disclosed is in the reader's scope, and nothing is seen under two purposes.
ReadsInScope == []OnePurposePerRow /\ DisclosedInScope
=============================================================================
