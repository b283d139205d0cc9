----------------------------- MODULE DemoProofs -----------------------------
(***************************************************************************)
(* The page and the server behind it keep one another honest, for every    *)
(* set of tabs and every bound (PageSound); a visitor with one tab is      *)
(* shown one session's story (OneStory); and the server behind the page    *)
(* keeps the promises of AnswerLedger (ServerKeepsLedger).                 *)
(***************************************************************************)
EXTENDS MCDemoSession, TLAPS, SequenceTheorems

Rows == [token : {"none", "live", "expired"}, reserved : 0..5, done : SUBSET {"start", "correct"},
         answer : [Ask -> 0..2], latest : 0..2]

Orphan == [phase : {"sent", "working"}, step : RequestStep, session : Session]

\* Two requests at one point for one step of one session.
Same(r, q) == r.phase = q.phase /\ r.step = q.step /\ r.session = q.session

\* Of these a session has one: the start that will make its rows, and the one reservation of a
\* question.
Exclusive(r) ==
    \/ r.phase = "sent" /\ r.step = "start"
    \/ r.phase = "working" /\ r.step \in Ask

RequestOK(r) ==
    /\ r.session \in 1..minted
    /\ r.phase = "sent" /\ r.step = "start" => server[r.session] = NoRows
    /\ r.phase = "working" /\ r.step \in Ask =>
          Ordinal[r.step] < server[r.session].reserved /\ server[r.session].answer[r.step] = 0

Awaiting(t) == call[t].phase \in {"sent", "working"}

RequestsInv ==
    /\ \A t \in Tab : Awaiting(t) => RequestOK(call[t])
    /\ \A r \in orphans : RequestOK(r)
    /\ \A t, u \in Tab : t # u /\ Exclusive(call[t]) => ~Same(call[t], call[u])
    /\ \A t \in Tab : \A r \in orphans : Exclusive(call[t]) => ~Same(call[t], r)
    /\ \A s \in Session : s > minted => server[s] = NoRows

\* What a tab awaits is the step its beat has come to, and an answer tells what is stored.
Fits(r, p) ==
    /\ r.step # "proofs" => p =< 4 /\ r.step = Beat[p + 1]
    /\ r.step = "proofs" => r.runner = "proofs" /\ ~r.restart
    /\ r.restart => p = 0

Told(r) ==
    r.phase = "answered" /\ r.outcome = "succeeded" => r.session \in Session /\ EntryIsDurable(Shown(r))

CallOK(t) == call[t].session =< minted /\ Fits(call[t], tab[t].position) /\ Told(call[t])

CallsInv == \A t \in Tab : Busy(t) => CallOK(t)

DemoInv == PageInv /\ jar =< minted /\ RequestsInv /\ CallsInv

USE DemoAssumption

LEMMA DemoInitInv == Init => DemoInv
<1> SUFFICES ASSUME Init PROVE DemoInv
  OBVIOUS
<1>1. NoRows \in Rows /\ NoCall \in [phase : {"none", "sent", "working", "answered"}, step : RequestStep,
                         session : 0..MaxSession, restart : BOOLEAN, runner : Runner,
                         outcome : Outcome, revision : 0..2]
  BY DEF NoRows, Rows, NoCall, RequestStep, Runner, Outcome, Beat
<1>2. TypeOK
  BY <1>1 DEF Init, TypeOK, Rows, Blank, Failure
<1>3. HistoryIsTheBeat /\ CookieNamesStarted /\ ShownIsDurable
  BY DEF Init, Blank, HistoryIsTheBeat, CookieNamesStarted, ShownIsDurable
<1>4. \A t \in Tab : ~Busy(t) /\ ~Awaiting(t) /\ ~Exclusive(call[t])
  BY DEF Init, Busy, NoCall, Awaiting, Exclusive
<1> QED BY <1>2, <1>3, <1>4 DEF DemoInv, PageInv, RequestsInv, CallsInv, Init, Session

---------------------------------------------------------------------------
LEMMA BeatFacts ==
    /\ \A i \in 1..5 : Beat[i] \in RequestStep /\ Beat[i] # "proofs" /\ (Beat[i] = "start" <=> i = 1)
    /\ Beat[1] = "start" /\ Beat[2] = "ask_before" /\ Beat[3] = "correct" /\ Beat[4] = "ask_after"
    /\ Beat[5] = "latest_receipt"
    /\ RequestStep = {"start", "ask_before", "correct", "ask_after", "latest_receipt", "proofs"}
    /\ Ordinal["start"] = 0 /\ Ordinal["ask_before"] = 1 /\ Ordinal["correct"] = 2
    /\ Ordinal["ask_after"] = 3 /\ Ordinal["latest_receipt"] = 4
<1>1. /\ Beat[1] = "start" /\ Beat[2] = "ask_before" /\ Beat[3] = "correct" /\ Beat[4] = "ask_after"
      /\ Beat[5] = "latest_receipt"
  BY DEF Beat
<1>2. /\ Ordinal["start"] = 0 /\ Ordinal["ask_before"] = 1 /\ Ordinal["correct"] = 2
      /\ Ordinal["ask_after"] = 3 /\ Ordinal["latest_receipt"] = 4
  BY DEF Ordinal
<1>3. {Beat[i] : i \in 1..5} = {"start", "ask_before", "correct", "ask_after", "latest_receipt"}
  <2>1. \A i \in 1..5 : i = 1 \/ i = 2 \/ i = 3 \/ i = 4 \/ i = 5
    OBVIOUS
  <2> QED BY <1>1, <2>1
<1>4. \A i \in 1..5 : Beat[i] # "proofs" /\ (Beat[i] = "start" <=> i = 1)
  <2>1. \A i \in 1..5 : i = 1 \/ i = 2 \/ i = 3 \/ i = 4 \/ i = 5
    OBVIOUS
  <2> QED BY <1>1, <2>1
<1> QED BY <1>1, <1>2, <1>3, <1>4 DEF RequestStep

LEMMA StartedRow ==
    ASSUME NEW rows \in Rows, NEW x, x = [rows EXCEPT !.token = "live", !.reserved = 1]
    PROVE  /\ x \in Rows /\ x.reserved = 1 /\ x.done = rows.done
           /\ x.answer = rows.answer /\ x.latest = rows.latest
<1>1. PICK z : z = [rows EXCEPT !.token = "live"]
  OBVIOUS
<1>2. /\ z \in Rows /\ z.done = rows.done /\ z.answer = rows.answer /\ z.latest = rows.latest
  BY <1>1 DEF Rows
<1>3. x = [z EXCEPT !.reserved = 1]
  BY <1>1 DEF Rows
<1> QED BY <1>2, <1>3 DEF Rows

\* Admission of a request to its session: what it may write and what it learns.
LEMMA AdmissionFacts ==
    ASSUME NEW r, r.phase = "sent", r.step \in RequestStep, r.session \in Session, RequestOK(r),
           server[r.session] \in Rows,
           NEW rows, rows = server[r.session], NEW rows2, rows2 = Half(r).rows
    PROVE  /\ rows2 \in Rows
           /\ Half(r).ruling \in {"work", "succeeded", "conflict", "denied"}
           /\ rows2.done = rows.done /\ rows2.answer = rows.answer /\ rows2.latest = rows.latest
           /\ rows.reserved =< rows2.reserved
           /\ rows2 # rows => Half(r).ruling = "work" /\ (r.step = "start" \/ rows # NoRows)
           /\ Half(r).ruling = "work" /\ r.step \in Ask =>
                 rows.answer[r.step] = 0 /\ rows.reserved = Ordinal[r.step]
                 /\ rows2.reserved = rows.reserved + 1
           /\ Half(r).ruling = "work" /\ r.step = "start" => rows = NoRows
           /\ Half(r).ruling = "succeeded" =>
                 r.step = "proofs" \/ (r.step \in Ask /\ rows.answer[r.step] > 0)
<1>1. Half(r).ruling = Admission(r)
      /\ rows2 = IF Admission(r) = "work" THEN AdmittedRows(r) ELSE rows
  BY DEF Half
<1>2. /\ rows.token \in {"none", "live", "expired"} /\ rows.reserved \in 0..5
      /\ rows.answer \in [Ask -> 0..2]
  BY DEF Rows
<1>3. CASE r.step = "start"
  <2>1. Admission(r) \in {"work", "denied"} BY <1>3 DEF Admission
  <2>2. rows = NoRows BY <1>3 DEF RequestOK
  <2>3. AdmittedRows(r) = [rows EXCEPT !.token = "live", !.reserved = 1]
    BY <1>3 DEF AdmittedRows
  <2>4. rows.reserved = 0 BY <2>2 DEF NoRows
  <2>5. AdmittedRows(r) \in Rows /\ AdmittedRows(r).reserved = 1 /\ AdmittedRows(r).done = rows.done
        /\ AdmittedRows(r).answer = rows.answer /\ AdmittedRows(r).latest = rows.latest
    BY <2>3, StartedRow
  <2>6. r.step \notin Ask BY <1>3 DEF Ask
  <2> QED BY <1>1, <1>3, <2>1, <2>2, <2>4, <2>5, <2>6
<1>4. CASE r.step = "proofs"
  <2>1. Admission(r) = "succeeded" BY <1>4 DEF Admission
  <2> QED BY <1>1, <1>2, <1>4, <2>1 DEF Ask
<1>5. CASE r.step \notin {"start", "proofs"}
  <2>1. Ordinal[r.step] \in 1..4 /\ (r.step = "latest_receipt" <=> Ordinal[r.step] = 4)
    BY <1>5, BeatFacts
  <2>2. Admission(r) =
               IF ~Live(r.session) THEN "conflict"
               ELSE IF r.step \in Ask /\ rows.answer[r.step] > 0 THEN "succeeded"
               ELSE IF Ordinal[r.step] < rows.reserved
                 THEN IF r.step = "latest_receipt" THEN "work" ELSE "conflict"
               ELSE IF Ordinal[r.step] > rows.reserved THEN "conflict"
               ELSE IF r.step = "latest_receipt" \/ enabled THEN "work" ELSE "denied"
    BY <1>5 DEF Admission
  <2>3. AdmittedRows(r) = IF Ordinal[r.step] = rows.reserved
                        THEN [rows EXCEPT !.reserved = @ + 1] ELSE rows
    BY <1>5 DEF AdmittedRows
  <2>4. Live(r.session) => rows # NoRows BY DEF Live, NoRows
  <2>5. Admission(r) \in {"work", "succeeded", "conflict", "denied"}
    BY <2>2
  <2>6. AdmittedRows(r) \in Rows /\ AdmittedRows(r).reserved >= rows.reserved
    BY <1>2, <2>1, <2>3 DEF Rows
  <2>7. AdmittedRows(r).done = rows.done /\ AdmittedRows(r).answer = rows.answer
        /\ AdmittedRows(r).latest = rows.latest
    BY <2>3 DEF Rows
  <2>8. Admission(r) = "work" /\ r.step \in Ask =>
          rows.answer[r.step] = 0 /\ rows.reserved = Ordinal[r.step]
          /\ AdmittedRows(r).reserved = rows.reserved + 1
    <3> SUFFICES ASSUME Admission(r) = "work", r.step \in Ask
                 PROVE  rows.answer[r.step] = 0 /\ rows.reserved = Ordinal[r.step]
                        /\ AdmittedRows(r).reserved = rows.reserved + 1
      OBVIOUS
    <3>1. r.step # "latest_receipt" BY DEF Ask
    <3>2. rows.answer[r.step] \in 0..2 BY <1>2
    <3>3. ~(rows.answer[r.step] > 0) /\ ~(Ordinal[r.step] < rows.reserved)
          /\ ~(Ordinal[r.step] > rows.reserved)
      BY <2>2, <3>1
    <3>4. rows.reserved = Ordinal[r.step] BY <1>2, <2>1, <3>3
    <3> QED BY <2>3, <3>2, <3>3, <3>4 DEF Rows
  <2>9. Admission(r) = "succeeded" => r.step \in Ask /\ rows.answer[r.step] > 0
    BY <2>2
  <2>10. Admission(r) = "work" => rows # NoRows
    BY <2>2, <2>4
  <2> QED BY <1>1, <1>2, <1>5, <2>5, <2>6, <2>7, <2>8, <2>9, <2>10
<1> QED BY <1>3, <1>4, <1>5

\* The work of an admitted request.
LEMMA WorkFacts ==
    ASSUME NEW r, r.phase = "working", r.step \in RequestStep, r.session \in Session, RequestOK(r),
           server[r.session] \in Rows,
           NEW rows, rows = server[r.session], NEW rows2, rows2 = Half(r).rows
    PROVE  /\ rows2 \in Rows
           /\ Half(r).ruling \in {"succeeded", "conflict", "denied"}
           /\ rows.done \subseteq rows2.done /\ rows2.reserved = rows.reserved
           /\ \A a \in Ask : rows2.answer[a] # rows.answer[a] => r.step = a /\ rows.answer[a] = 0
           /\ rows2 # rows => rows # NoRows
           /\ Half(r).ruling = "succeeded" =>
                 /\ r.step \in {"start", "correct"} => r.step \in rows2.done
                 /\ r.step \in Ask => rows2.answer[r.step] = RevisionNow(rows)
                                      /\ rows2.latest = RevisionNow(rows)
                 /\ r.step \notin Ask => rows2.answer = rows.answer /\ rows2.latest = rows.latest
                 /\ r.step = "latest_receipt" => rows.latest > 0
<1>1. /\ Half(r).ruling = Worked(r)
      /\ rows2 = IF Worked(r) = "succeeded" THEN WorkedRows(r) ELSE rows
  BY DEF Half
<1>2. Worked(r) \in {"succeeded", "conflict", "denied"}
      /\ (Worked(r) = "succeeded" => Live(r.session))
      /\ (Worked(r) = "succeeded" /\ r.step = "latest_receipt" => rows.latest # 0)
  <2>1. CASE ~Live(r.session) BY <2>1 DEF Worked
  <2>2. CASE Live(r.session) BY <2>2 DEF Worked
  <2> QED BY <2>1, <2>2
<1>3. Live(r.session) => rows # NoRows BY DEF Live, NoRows
<1>4. RevisionNow(rows) \in 1..2 BY DEF RevisionNow
<1>5. CASE r.step \in {"start", "correct"}
  <2>1. WorkedRows(r) = [rows EXCEPT !.done = @ \union {r.step}] /\ r.step \notin Ask
    BY <1>5 DEF WorkedRows, Ask
  <2> QED BY <1>1, <1>2, <1>3, <1>5, <2>1 DEF Rows
<1>6. CASE r.step \in Ask
  <2>1. WorkedRows(r) = [rows EXCEPT !.answer[r.step] = RevisionNow(rows), !.latest = RevisionNow(rows)]
        /\ r.step \notin {"start", "correct"} /\ r.step # "latest_receipt"
    BY <1>6 DEF WorkedRows, Ask
  <2>2. rows.answer[r.step] = 0 BY <1>6 DEF RequestOK
  <2>3. WorkedRows(r) \in Rows /\ WorkedRows(r).done = rows.done
        /\ WorkedRows(r).reserved = rows.reserved /\ WorkedRows(r).latest = RevisionNow(rows)
        /\ WorkedRows(r).answer = [rows.answer EXCEPT ![r.step] = RevisionNow(rows)]
        /\ rows.answer \in [Ask -> 0..2]
    <3>1. rows.answer \in [Ask -> 0..2] BY DEF Rows
    <3>2. PICK a, v : a = r.step /\ v = RevisionNow(rows)
      OBVIOUS
    <3>3. PICK y : y = [rows EXCEPT !.answer[a] = v, !.latest = v]
      OBVIOUS
    <3>4. /\ y \in Rows /\ y.reserved = rows.reserved /\ y.done = rows.done
          /\ y.answer = [rows.answer EXCEPT ![a] = v] /\ y.latest = v
      <4>1. rows \in Rows /\ rows.answer \in [Ask -> 0..2] /\ a \in Ask /\ v \in 0..2
        BY <1>4, <1>6, <3>1, <3>2
      <4>2. PICK b : b = [rows.answer EXCEPT ![a] = v]
        OBVIOUS
      <4>3. b \in [Ask -> 0..2]
        BY <4>1, <4>2
      <4>4. y = [rows EXCEPT !.answer = b, !.latest = v]
        BY ONLY <3>3, <4>1, <4>2 DEF Rows
      <4> QED BY ONLY <4>1, <4>2, <4>3, <4>4 DEF Rows
    <3> QED BY <2>1, <3>1, <3>2, <3>3, <3>4
  <2>4. \A a \in Ask : WorkedRows(r).answer[a] # rows.answer[a] => r.step = a /\ rows.answer[a] = 0
    BY <2>2, <2>3
  <2>5. WorkedRows(r).answer[r.step] = RevisionNow(rows)
    BY <1>6, <2>3
  <2> QED BY <1>1, <1>2, <1>3, <1>6, <2>1, <2>3, <2>4, <2>5
<1>7. CASE r.step \notin Ask /\ r.step \notin {"start", "correct"}
  <2>1. WorkedRows(r) = rows BY <1>7 DEF WorkedRows
  <2>2. rows.latest \in 0..2 BY DEF Rows
  <2> QED BY <1>1, <1>2, <1>3, <1>7, <2>1, <2>2
<1> QED BY <1>5, <1>6, <1>7
---------------------------------------------------------------------------
(* What serving a request does to the rows, and to everybody else.         *)

Others(t) == {call[u] : u \in {v \in Tab \ {t} : Awaiting(v)}} \union orphans

LEMMA ServedRows ==
    ASSUME server \in [Session -> Rows], NEW r, r.phase \in {"sent", "working"},
           r.step \in RequestStep, r.session \in Session, RequestOK(r),
           NEW rows, rows = server[r.session] \/ rows = Half(r).rows,
           server' \in [Session -> Rows], server'[r.session] = rows,
           \A s \in Session \ {r.session} : server'[s] = server[s], minted' = minted
    PROVE  /\ \A s \in Session : server[s].done \subseteq server'[s].done
           /\ \A e \in [step : RequestStep, session : Session, revision : 0..2] :
                 EntryIsDurable(e) => EntryIsDurable(e)'
           /\ \A q : q.session \in Session /\ RequestOK(q) /\ ~(Exclusive(r) /\ Same(r, q)) => RequestOK(q)'
<1>1. PICK old : old = server[r.session]
  OBVIOUS
<1>2. old \in Rows
  BY <1>1
<1>3. /\ rows \in Rows /\ old.done \subseteq rows.done /\ old.reserved =< rows.reserved
      /\ \A a \in Ask : rows.answer[a] # old.answer[a] =>
            r.phase = "working" /\ r.step = a /\ old.answer[a] = 0
      /\ rows # old /\ old = NoRows => r.phase = "sent" /\ r.step = "start"
  <2>1. CASE rows = old BY <1>2, <2>1 DEF Rows
  <2>2. CASE rows = Half(r).rows /\ r.phase = "sent"
    <3>1. /\ rows \in Rows /\ rows.done = old.done /\ rows.answer = old.answer
          /\ old.reserved =< rows.reserved
          /\ rows # old => (r.step = "start" \/ old # NoRows)
      BY <1>1, <1>2, <2>2, AdmissionFacts
    <3> QED BY <2>2, <3>1
  <2>3. CASE rows = Half(r).rows /\ r.phase = "working"
    <3>1. /\ rows \in Rows /\ old.done \subseteq rows.done /\ rows.reserved = old.reserved
          /\ \A a \in Ask : rows.answer[a] # old.answer[a] => r.step = a /\ old.answer[a] = 0
          /\ rows # old => old # NoRows
      BY <1>1, <1>2, <2>3, WorkFacts
    <3>2. old.reserved \in Nat BY <1>2 DEF Rows
    <3> QED BY <2>3, <3>1, <3>2
  <2> QED BY <1>1, <2>1, <2>2, <2>3
<1>4. server' \in [Session -> Rows] /\ server'[r.session] = rows
      /\ \A s \in Session \ {r.session} : server'[s] = server[s]
  BY <1>3
<1>5. \A s \in Session : server[s].done \subseteq server'[s].done
  BY <1>1, <1>3, <1>4
<1>6. ASSUME NEW e \in [step : RequestStep, session : Session, revision : 0..2], EntryIsDurable(e)
      PROVE  EntryIsDurable(e)'
  <2>1. CASE e.session # r.session
    BY <1>4, <1>6, <2>1 DEF EntryIsDurable
  <2>2. CASE e.session = r.session
    <3>1. e.step \in {"start", "correct"} => e.step \in rows.done
      BY <1>1, <1>3, <1>6, <2>2 DEF EntryIsDurable
    <3>2. e.step \in Ask => e.revision = old.answer[e.step] /\ old.answer[e.step] > 0
      BY <1>1, <1>6, <2>2 DEF EntryIsDurable
    <3>3. e.step \in Ask => e.revision = rows.answer[e.step] /\ e.revision > 0
      BY <1>3, <3>2
    <3> QED BY <1>4, <2>2, <3>1, <3>3 DEF EntryIsDurable
  <2> QED BY <2>1, <2>2
<1>7. ASSUME NEW q, q.session \in Session, RequestOK(q), ~(Exclusive(r) /\ Same(r, q)) PROVE RequestOK(q)'
  <2>1. CASE q.session # r.session
    <3>2. server'[q.session] = server[q.session]
      BY <1>7, <2>1
    <3> QED BY <1>7, <3>2 DEF RequestOK
  <2>2. CASE q.session = r.session
    <3>1. CASE q.phase = "sent" /\ q.step = "start"
      <4>1. old = NoRows BY <1>1, <1>7, <2>2, <3>1 DEF RequestOK
      <4>2. rows = old
        BY <1>3, <1>7, <2>2, <3>1, <4>1 DEF Same, Exclusive
      <4> QED BY <1>4, <1>7, <2>2, <3>1, <4>1, <4>2 DEF RequestOK
    <3>2. CASE q.phase = "working" /\ q.step \in Ask
      <4>1. Ordinal[q.step] < old.reserved /\ old.answer[q.step] = 0
        BY <1>1, <1>7, <2>2, <3>2 DEF RequestOK
      <4>2. rows.answer[q.step] = 0
        BY <1>3, <1>7, <2>2, <3>2, <4>1 DEF Same, Exclusive
      <4>3. Ordinal[q.step] \in Nat
        BY <3>2, BeatFacts DEF Ask
      <4>4. old.reserved \in Nat /\ rows.reserved \in Nat
        BY <1>2, <1>3 DEF Rows
      <4>5. Ordinal[q.step] < rows.reserved
        BY <1>3, <4>1, <4>3, <4>4
      <4> QED BY <1>4, <1>7, <2>2, <3>2, <4>2, <4>5 DEF RequestOK
    <3>3. CASE ~(q.phase = "sent" /\ q.step = "start") /\ ~(q.phase = "working" /\ q.step \in Ask)
      BY <1>7, <3>3 DEF RequestOK
    <3> QED BY <3>1, <3>2, <3>3
  <2> QED BY <2>1, <2>2
<1> QED BY <1>4, <1>5, <1>6, <1>7

\* Who was admitted to a question holds its only reservation.
LEMMA NewWork ==
    ASSUME server \in [Session -> Rows], NEW r, r.phase = "sent",
           r.step \in RequestStep, r.session \in Session, RequestOK(r), Half(r).ruling = "work",
           server' = [server EXCEPT ![r.session] = Half(r).rows], minted' = minted,
           NEW w, w.phase = "working", w.step = r.step, w.session = r.session
    PROVE  RequestOK(w)' /\ (Exclusive(w) => \A q : RequestOK(q) => ~Same(w, q))
<1>1. PICK rows, rows2 : rows = server[r.session] /\ rows2 = Half(r).rows
  OBVIOUS
<1>2. server'[r.session] = rows2
  BY <1>1
<1>3. r.step \in Ask => rows.answer[r.step] = 0 /\ rows.reserved = Ordinal[r.step]
           /\ rows2.reserved = rows.reserved + 1 /\ rows2.answer = rows.answer
  BY <1>1, AdmissionFacts
<1>4. r.step \in Ask => Ordinal[r.step] \in Nat
  BY BeatFacts DEF Ask
<1>5. RequestOK(w)'
  BY <1>2, <1>3, <1>4 DEF RequestOK
<1>6. ASSUME Exclusive(w), NEW q, RequestOK(q), Same(w, q) PROVE FALSE
  <2>1. q.phase = "working" /\ q.step = r.step /\ q.session = r.session /\ r.step \in Ask
    BY <1>6 DEF Same, Exclusive
  <2>2. Ordinal[r.step] < rows.reserved
    BY <1>1, <1>6, <2>1 DEF RequestOK
  <2> QED BY <1>3, <1>4, <2>1, <2>2
<1> QED BY <1>5, <1>6

---------------------------------------------------------------------------
(* The steps.                                                              *)

CallType == [phase : {"none", "sent", "working", "answered"}, step : RequestStep,
             session : 0..MaxSession, restart : BOOLEAN, runner : Runner,
             outcome : Outcome, revision : 0..2]
TabType == [position : 0..5, history : Seq(Entry), error : Failure \union {"none"}]

LEMMA Types == TypeOK <=>
    /\ tab \in [Tab -> TabType] /\ call \in [Tab -> CallType] /\ orphans \subseteq Orphan
    /\ jar \in 0..MaxSession /\ minted \in 0..MaxSession /\ server \in [Session -> Rows]
    /\ enabled \in BOOLEAN /\ faults \in 0..MaxFault
BY DEF TypeOK, CallType, TabType, Orphan, Rows

\* One tab's request changes.
LEMMA CallChanges ==
    ASSUME DemoInv, NEW t \in Tab, NEW c, c \in CallType, call' = [call EXCEPT ![t] = c],
           UNCHANGED orphans,
           c.phase \in {"sent", "working"} => RequestOK(c)',
           \A q \in Others(t) : RequestOK(q)',
           Exclusive(c) => \A q \in Others(t) : ~Same(c, q),
           \A s \in Session : s > minted' => server'[s] = NoRows
    PROVE  RequestsInv'
<1>1. call \in [Tab -> CallType] /\ orphans \subseteq Orphan
  BY Types DEF DemoInv, PageInv
<1>2. call'[t] = c /\ \A u \in Tab \ {t} : call'[u] = call[u]
  BY <1>1
<1>3. ASSUME NEW u \in Tab, Awaiting(u)' PROVE RequestOK(call[u])'
  <2>1. CASE u = t BY <1>2, <1>3, <2>1 DEF Awaiting, RequestOK
  <2>2. CASE u # t
    <3>1. PICK q : q = call[u] OBVIOUS
    <3>2. q \in Others(t) BY <1>2, <1>3, <2>2, <3>1 DEF Awaiting, Others
    <3>3. RequestOK(q)' BY <3>2
    <3> QED BY <1>2, <2>2, <3>1, <3>3 DEF RequestOK
  <2> QED BY <2>1, <2>2
<1>4. \A q \in orphans' : RequestOK(q)'
  BY DEF Others
<1>5. ASSUME NEW u \in Tab, NEW v \in Tab, u # v, Exclusive(call'[u]), Same(call'[u], call'[v])
      PROVE  FALSE
  <2>1. CASE u = t
    <3>1. Awaiting(v) /\ call'[v] = call[v]
      BY <1>2, <1>5, <2>1 DEF Exclusive, Same, Awaiting
    <3> QED BY <1>2, <1>5, <2>1, <3>1 DEF Others
  <2>2. CASE v = t
    <3>1. Awaiting(u) /\ call'[u] = call[u] /\ Exclusive(c) /\ Same(c, call[u])
      BY <1>2, <1>5, <2>2 DEF Exclusive, Same, Awaiting
    <3> QED BY <1>5, <2>2, <3>1 DEF Others
  <2>3. CASE u # t /\ v # t
    BY <1>2, <1>5, <2>3 DEF DemoInv, RequestsInv
  <2> QED BY <2>1, <2>2, <2>3
<1>6. ASSUME NEW u \in Tab, NEW q \in orphans, Exclusive(call'[u]), Same(call'[u], q)
      PROVE  FALSE
  <2>1. CASE u = t BY <1>2, <1>6, <2>1 DEF Others
  <2>2. CASE u # t BY <1>2, <1>6, <2>2 DEF DemoInv, RequestsInv
  <2> QED BY <2>1, <2>2
<1>7. \A u, v \in Tab : u # v /\ Exclusive(call'[u]) => ~Same(call'[u], call'[v])
  BY <1>5
<1>8. \A u \in Tab : \A q \in orphans' : Exclusive(call'[u]) => ~Same(call'[u], q)
  BY <1>6
<1> QED BY <1>3, <1>4, <1>7, <1>8 DEF RequestsInv, Exclusive, Same

\* The parts of the invariant that a step on rows and calls, the page left alone, must keep.
LEMMA PageStays ==
    ASSUME DemoInv, UNCHANGED <<tab, jar, minted>>, TypeOK', RequestsInv', CallsInv',
           \A s \in Session : server[s].done \subseteq server'[s].done,
           \A e \in [step : RequestStep, session : Session, revision : 0..2] :
                 EntryIsDurable(e) => EntryIsDurable(e)'
    PROVE  DemoInv'
<1>1. tab \in [Tab -> TabType] /\ jar \in 0..MaxSession
  BY Types DEF DemoInv, PageInv
<1>2. HistoryIsTheBeat'
  BY DEF DemoInv, PageInv, HistoryIsTheBeat
<1>3. CookieNamesStarted'
  BY <1>1 DEF DemoInv, PageInv, CookieNamesStarted, Session
<1>4. ShownIsDurable'
  <2> SUFFICES ASSUME NEW t \in Tab, NEW i \in DOMAIN tab[t].history
               PROVE  EntryIsDurable(tab[t].history[i])'
    BY DEF ShownIsDurable
  <2>1. tab[t].history \in Seq(Entry)
    BY <1>1 DEF TabType
  <2>2. PICK e : e = tab[t].history[i]
    OBVIOUS
  <2>3. e \in Entry /\ EntryIsDurable(e)
    BY <2>1, <2>2 DEF DemoInv, PageInv, ShownIsDurable
  <2>4. EntryIsDurable(e)'
    BY <2>3 DEF Entry
  <2> QED BY <2>2, <2>4 DEF EntryIsDurable
<1> QED BY <1>2, <1>3, <1>4 DEF DemoInv, PageInv

LEMMA ServedAnswer ==
    ASSUME DemoInv, NEW t \in Tab, NEW r, r = call[t], r.phase \in {"sent", "working"}
    PROVE  /\ Half(r).ruling \in {"work", "succeeded", "conflict", "denied"}
           /\ Half(r).ruling = "work" => r.phase = "sent"
           /\ Half(r).ruling = "succeeded" =>
                 /\ r.step \in {"start", "correct"} => r.step \in Half(r).rows.done
                 /\ r.step \in Ask => Half(r).rows.answer[r.step] > 0
                 /\ RevisionOf(r, Half(r).rows) \in 0..2
<1>2. /\ call \in [Tab -> CallType]
      /\ server \in [Session -> Rows] /\ minted \in 0..MaxSession
  BY Types DEF DemoInv, PageInv
<1>3. /\ r.step \in RequestStep /\ RequestOK(r) /\ r.session \in Session
  <2>1. r \in CallType
    BY <1>2
  <2>2. RequestOK(r)
    BY DEF DemoInv, RequestsInv, Awaiting
  <2>3. r.session \in 1..minted
    BY <2>2 DEF RequestOK
  <2>4. r.session \in Session
    BY <1>2, <2>3 DEF Session
  <2> QED BY <2>1, <2>2, <2>4 DEF CallType
<1>7. Half(r).ruling \in {"work", "succeeded", "conflict", "denied"} /\ Half(r).rows \in Rows
  BY <1>2, <1>3, AdmissionFacts, WorkFacts
<1>8. Half(r).ruling = "work" => r.phase = "sent"
  BY <1>2, <1>3, WorkFacts
<1>9. ASSUME Half(r).ruling = "succeeded"
      PROVE  /\ r.step \in {"start", "correct"} => r.step \in Half(r).rows.done
             /\ r.step \in Ask => Half(r).rows.answer[r.step] > 0
             /\ RevisionOf(r, Half(r).rows) \in 0..2
  <2>1. PICK old, new : old = server[r.session] /\ new = Half(r).rows
    OBVIOUS
  <2>2. old \in Rows /\ new \in Rows BY <1>2, <1>3, <1>7, <2>1
  <2>3. r.step \in Ask => r.step \notin {"start", "correct", "proofs"} BY DEF Ask
  <2>4. (r.step \in {"start", "correct"} => r.step \in new.done) /\ (r.step \in Ask => new.answer[r.step] > 0)
    <3>1. CASE r.phase = "sent"
      <4>1. r.step = "proofs" \/ (r.step \in Ask /\ old.answer[r.step] > 0)
        BY <1>2, <1>3, <1>9, <2>1, <2>2, <3>1, AdmissionFacts
      <4>2. new.answer = old.answer
        BY <1>2, <1>3, <1>9, <2>1, <2>2, <3>1, AdmissionFacts
      <4> QED BY <2>3, <4>1, <4>2
    <3>2. CASE r.phase = "working"
      <4>1. /\ r.step \in {"start", "correct"} => r.step \in new.done
            /\ r.step \in Ask => new.answer[r.step] = RevisionNow(old)
        BY <1>2, <1>3, <1>9, <2>1, <2>2, <3>2, WorkFacts
      <4> QED BY <4>1 DEF RevisionNow
    <3> QED BY <1>3, <3>1, <3>2
  <2>5. RevisionOf(r, new) \in 0..2
    <3>1. r.step \in Ask => RevisionOf(r, new) = new.answer[r.step] /\ new.answer[r.step] \in 0..2
      BY <2>2 DEF RevisionOf, Rows, Ask
    <3>2. r.step = "latest_receipt" => RevisionOf(r, new) = new.latest /\ new.latest \in 0..2
      BY <2>2 DEF RevisionOf, Rows, Ask
    <3>3. r.step \notin Ask /\ r.step # "latest_receipt" => RevisionOf(r, new) \in {0, 2}
      BY DEF RevisionOf
    <3> QED BY <3>1, <3>2, <3>3
  <2> QED BY <2>1, <2>4, <2>5
<1> QED BY <1>7, <1>8, <1>9

LEMMA ServeStep ==
    ASSUME DemoInv, NEW t \in Tab, NEW r, r = call[t], r.phase \in {"sent", "working"},
           NEW rows, rows \in {server[r.session], Half(r).rows},
           server' = [server EXCEPT ![r.session] = rows],
           NEW c \in CallType, call' = [call EXCEPT ![t] = c],
           c.step = r.step, c.session = r.session, c.restart = r.restart, c.runner = r.runner,
           c.phase \in {"working", "answered"},
           c.phase = "working" => Half(r).ruling = "work" /\ rows = Half(r).rows,
           c.phase = "answered" /\ c.outcome = "succeeded" =>
              /\ Half(r).ruling = "succeeded" /\ rows = Half(r).rows
              /\ c.revision = RevisionOf(r, rows),
           UNCHANGED <<tab, orphans, jar, minted, enabled>>, faults' \in 0..MaxFault
    PROVE  DemoInv'
<1>1. r = call[t]
  OBVIOUS
<1>2. /\ tab \in [Tab -> TabType] /\ call \in [Tab -> CallType] /\ orphans \subseteq Orphan
      /\ server \in [Session -> Rows] /\ minted \in 0..MaxSession /\ faults \in 0..MaxFault
  BY Types DEF DemoInv, PageInv
<1>3. /\ r \in CallType /\ r.phase \in {"sent", "working"} /\ r.step \in RequestStep
      /\ RequestOK(r) /\ r.session \in Session
  <2>1. r \in CallType
    BY <1>2
  <2>2. RequestOK(r)
    BY DEF DemoInv, RequestsInv, Awaiting
  <2>3. r.session \in 1..minted
    BY <2>2 DEF RequestOK
  <2>4. r.session \in Session
    BY <1>2, <2>3 DEF Session
  <2> QED BY <2>1, <2>2, <2>4 DEF CallType
<1>4. call' = [call EXCEPT ![t] = c]
  OBVIOUS
<1>5. UNCHANGED <<tab, orphans, jar, minted, enabled>>
  OBVIOUS
<1>6. /\ server' \in [Session -> Rows] /\ server'[r.session] = rows
      /\ \A s \in Session \ {r.session} : server'[s] = server[s]
  <2>1. Half(r).rows \in Rows
    BY <1>2, <1>3, AdmissionFacts, WorkFacts
  <2> QED BY <1>2, <1>3, <2>1
<1>8. /\ \A s \in Session : server[s].done \subseteq server'[s].done
      /\ \A e \in [step : RequestStep, session : Session, revision : 0..2] :
            EntryIsDurable(e) => EntryIsDurable(e)'
      /\ \A q : q.session \in Session /\ RequestOK(q) /\ ~(Exclusive(r) /\ Same(r, q)) => RequestOK(q)'
  BY <1>2, <1>3, <1>5, <1>6, ServedRows
<1>7. /\ Half(r).ruling = "work" => r.phase = "sent"
      /\ Half(r).ruling = "succeeded" =>
            /\ r.step \in {"start", "correct"} => r.step \in Half(r).rows.done
            /\ r.step \in Ask => Half(r).rows.answer[r.step] > 0
  BY ServedAnswer
<1>10. c \in CallType /\ c.step = r.step /\ c.session = r.session /\ c.restart = r.restart
       /\ c.runner = r.runner
  OBVIOUS
<1>11. c.phase \in {"working", "answered"} /\ (c.phase = "working" => Half(r).ruling = "work" /\ rows = Half(r).rows)
  OBVIOUS
<1>12. c.phase = "answered" /\ c.outcome = "succeeded" =>
          Half(r).ruling = "succeeded" /\ rows = Half(r).rows /\ c.revision = RevisionOf(r, rows)
  OBVIOUS
<1>13. TypeOK'
  <2>1. call' \in [Tab -> CallType] BY <1>2, <1>4, <1>10
  <2> QED BY <1>5, <1>6, <2>1, Types DEF DemoInv, PageInv, TypeOK, CallType, TabType, Orphan, Rows
<1>14. RequestsInv'
  <2>1. ASSUME NEW q \in Others(t)
        PROVE  RequestOK(q) /\ ~(Exclusive(r) /\ Same(r, q)) /\ q.session \in Session
    <3>1. RequestOK(q) /\ ~(Exclusive(r) /\ Same(r, q))
      BY <1>1, <2>1 DEF Others, DemoInv, RequestsInv
    <3> QED BY <1>2, <3>1 DEF RequestOK, Session
  <2>2. \A q \in Others(t) : RequestOK(q)'
    BY <1>8, <2>1
  <2>3. c.phase = "working" => RequestOK(c)' /\ (Exclusive(c) => \A q : RequestOK(q) => ~Same(c, q))
    BY <1>2, <1>3, <1>4, <1>5, <1>7, <1>10, <1>11, NewWork
  <2>4. Exclusive(c) => c.phase = "working" BY <1>11 DEF Exclusive
  <2>5. \A s \in Session : s > minted' => server'[s] = NoRows
    <3>1. r.session \in 1..minted /\ minted \in Nat BY <1>2, <1>3 DEF RequestOK
    <3> QED BY <1>5, <1>6, <3>1 DEF DemoInv, RequestsInv, Session
  <2> QED BY <1>4, <1>5, <1>10, <1>11, <2>1, <2>2, <2>3, <2>4, <2>5, CallChanges
<1>15. CallsInv'
  <2> SUFFICES ASSUME NEW u \in Tab, Busy(u)' PROVE CallOK(u)'
    BY DEF CallsInv
  <2>1. CASE u # t
    <3>1. call'[u] = call[u] /\ Busy(u) /\ CallOK(u) BY <1>2, <1>4, <2>1 DEF Busy, DemoInv, CallsInv
    <3>2. PICK e : e = Shown(call[u]) OBVIOUS
    <3>3. call[u].phase = "answered" /\ call[u].outcome = "succeeded" =>
            e \in [step : RequestStep, session : Session, revision : 0..2] /\ EntryIsDurable(e)
      BY <1>2, <3>1, <3>2 DEF CallOK, Told, Shown, CallType
    <3>4. call[u].phase = "answered" /\ call[u].outcome = "succeeded" => EntryIsDurable(Shown(call[u]))'
      BY <1>8, <3>1, <3>2, <3>3 DEF EntryIsDurable, Shown
    <3> QED BY <1>5, <3>1, <3>4 DEF CallOK, Told
  <2>2. CASE u = t
    <3>1. call'[t] = c /\ CallOK(t) BY <1>1, <1>2, <1>3, <1>4 DEF Busy, DemoInv, CallsInv
    <3>2. c.phase = "answered" /\ c.outcome = "succeeded" => EntryIsDurable(Shown(c))'
      <4> SUFFICES ASSUME c.phase = "answered", c.outcome = "succeeded" PROVE EntryIsDurable(Shown(c))'
        OBVIOUS
      <4>1. /\ r.step \in {"start", "correct"} => r.step \in rows.done
            /\ r.step \in Ask => rows.answer[r.step] > 0
        BY <1>7, <1>12
      <4>2. r.step \in Ask => c.revision = rows.answer[r.step]
        BY <1>12 DEF RevisionOf, Ask
      <4> QED BY <1>6, <1>10, <4>1, <4>2 DEF EntryIsDurable, Shown
    <3> QED BY <1>1, <1>3, <1>5, <1>10, <2>2, <3>1, <3>2 DEF CallOK, Told, Fits
  <2> QED BY <2>1, <2>2
<1> QED BY <1>5, <1>6, <1>8, <1>13, <1>14, <1>15, PageStays

LEMMA ServeInv == ASSUME DemoInv, NEW t \in Tab, Serve(t) PROVE DemoInv'
<1>1. PICK r : r = call[t]
  OBVIOUS
<1>2. /\ call \in [Tab -> CallType] /\ faults \in 0..MaxFault /\ server \in [Session -> Rows]
      /\ minted \in 0..MaxSession
  BY Types DEF DemoInv, PageInv
<1>3. r \in CallType /\ r.phase \in {"sent", "working"} /\ UNCHANGED <<tab, orphans, jar, minted, enabled>>
  BY <1>1, <1>2 DEF Serve
<1>4. CASE /\ server' = [server EXCEPT ![r.session] = Half(r).rows]
           /\ call' = [call EXCEPT ![t] =
                   IF Half(r).ruling = "work" THEN [r EXCEPT !.phase = "working"]
                   ELSE [r EXCEPT !.phase = "answered", !.outcome = Half(r).ruling,
                                  !.revision = IF Half(r).ruling = "succeeded"
                                                 THEN RevisionOf(r, Half(r).rows) ELSE 0]]
           /\ UNCHANGED faults
  <2>1. PICK k : k = IF Half(r).ruling = "succeeded" THEN RevisionOf(r, Half(r).rows) ELSE 0
    OBVIOUS
  <2>2. PICK c : c = IF Half(r).ruling = "work" THEN [r EXCEPT !.phase = "working"]
                   ELSE [r EXCEPT !.phase = "answered", !.outcome = Half(r).ruling, !.revision = k]
    OBVIOUS
  <2>3. Half(r).ruling \in {"work", "succeeded", "conflict", "denied"} /\ k \in 0..2
    BY <1>1, <1>3, <2>1, ServedAnswer
  <2>4. CASE Half(r).ruling = "work"
    <3>1. /\ c \in CallType /\ c.step = r.step /\ c.session = r.session /\ c.restart = r.restart
          /\ c.runner = r.runner /\ c.phase = "working"
      BY <1>3, <2>2, <2>4 DEF CallType
    <3> QED BY <1>1, <1>2, <1>3, <1>4, <2>1, <2>2, <2>4, <3>1, ServeStep
  <2>5. CASE Half(r).ruling # "work"
    <3>1. PICK o : o = Half(r).ruling OBVIOUS
    <3>2. o \in Outcome BY <2>3, <2>5, <3>1 DEF Outcome
    <3>3. c = [r EXCEPT !.phase = "answered", !.outcome = o, !.revision = k]
      BY <2>2, <2>5, <3>1
    <3>4. /\ c \in CallType /\ c.step = r.step /\ c.session = r.session /\ c.restart = r.restart
          /\ c.runner = r.runner /\ c.phase = "answered" /\ c.outcome = o /\ c.revision = k
      BY <1>3, <2>3, <3>2, <3>3 DEF CallType
    <3>5. PICK rows : rows = Half(r).rows OBVIOUS
    <3>6. c.outcome = "succeeded" => Half(r).ruling = "succeeded" /\ c.revision = RevisionOf(r, rows)
      BY <2>1, <3>1, <3>4, <3>5
    <3>7. server' = [server EXCEPT ![r.session] = rows] /\ call' = [call EXCEPT ![t] = c]
          /\ faults' \in 0..MaxFault /\ rows \in {server[r.session], Half(r).rows}
      BY <1>2, <1>4, <2>1, <2>2, <3>5
    <3> QED BY <1>1, <1>3, <3>4, <3>5, <3>6, <3>7, ServeStep
  <2> QED BY <2>4, <2>5
<1>5. CASE /\ faults < MaxFault /\ faults' = faults + 1
           /\ \E rows \in {server[r.session], Half(r).rows} :
                  server' = [server EXCEPT ![r.session] = rows]
           /\ \E outcome \in FaultOutcome :
                  call' = [call EXCEPT ![t] = [r EXCEPT !.phase = "answered", !.outcome = outcome]]
  <2>1. PICK rows \in {server[r.session], Half(r).rows} : server' = [server EXCEPT ![r.session] = rows]
    BY <1>5
  <2>2. PICK outcome \in FaultOutcome :
                  call' = [call EXCEPT ![t] = [r EXCEPT !.phase = "answered", !.outcome = outcome]]
    BY <1>5
  <2>3. PICK c : c = [r EXCEPT !.phase = "answered", !.outcome = outcome]
    OBVIOUS
  <2>4. /\ c \in CallType /\ c.step = r.step /\ c.session = r.session /\ c.restart = r.restart
        /\ c.runner = r.runner /\ c.phase = "answered" /\ c.outcome # "succeeded"
    BY <1>3, <2>3 DEF CallType, FaultOutcome, Outcome
  <2>5. faults' \in 0..MaxFault BY <1>2, <1>5
  <2> QED BY <1>1, <1>3, <2>1, <2>2, <2>3, <2>4, <2>5, ServeStep
<1> QED BY <1>1, <1>4, <1>5 DEF Serve

LEMMA ServeOrphanInv == ASSUME DemoInv, NEW r \in orphans, ServeOrphan(r) PROVE DemoInv'
<1>1. /\ tab \in [Tab -> TabType] /\ call \in [Tab -> CallType] /\ orphans \subseteq Orphan
      /\ server \in [Session -> Rows] /\ minted \in 0..MaxSession
  BY Types DEF DemoInv, PageInv
<1>2. UNCHANGED <<tab, call, jar, minted, enabled, faults>>
  BY DEF ServeOrphan
<1>3. r \in Orphan /\ r.phase \in {"sent", "working"} /\ r.step \in RequestStep /\ r.session \in Session
      /\ RequestOK(r)
  BY <1>1 DEF Orphan, DemoInv, RequestsInv
<1>4. PICK rows : (rows = server[r.session] \/ rows = Half(r).rows)
                  /\ server' = [server EXCEPT ![r.session] = rows]
  <2>1. CASE server' = [server EXCEPT ![r.session] = Half(r).rows]
    BY <2>1
  <2>2. CASE UNCHANGED server
    <3>1. server' = [server EXCEPT ![r.session] = server[r.session]] BY <1>1, <2>2
    <3> QED BY <3>1
  <2> QED BY <2>1, <2>2 DEF ServeOrphan
<1>5. /\ server' \in [Session -> Rows] /\ server'[r.session] = rows
      /\ \A s \in Session \ {r.session} : server'[s] = server[s]
  <2>1. Half(r).rows \in Rows
    BY <1>1, <1>3, AdmissionFacts, WorkFacts
  <2> QED BY <1>1, <1>3, <1>4, <2>1
<1>6. /\ \A s \in Session : server[s].done \subseteq server'[s].done
      /\ \A e \in [step : RequestStep, session : Session, revision : 0..2] :
            EntryIsDurable(e) => EntryIsDurable(e)'
      /\ \A q : q.session \in Session /\ RequestOK(q) /\ ~(Exclusive(r) /\ Same(r, q)) => RequestOK(q)'
  <2>1. rows = server[r.session] \/ rows = Half(r).rows BY <1>4
  <2>2. minted' = minted BY <1>2
  <2> QED BY ONLY <1>1, <1>3, <1>5, <2>1, <2>2, ServedRows
<1>7. PICK w : w = [r EXCEPT !.phase = "working"]
  OBVIOUS
<1>8. w \in Orphan /\ w.phase = "working" /\ w.step = r.step /\ w.session = r.session
  BY <1>3, <1>7 DEF Orphan
<1>9. \/ orphans' = orphans \ {r}
      \/ /\ orphans' = (orphans \ {r}) \union {w} /\ RequestOK(w)'
         /\ Exclusive(w) => \A q : RequestOK(q) => ~Same(w, q)
  <2>1. CASE Half(r).ruling = "work" /\ server' = [server EXCEPT ![r.session] = Half(r).rows]
             /\ orphans' = (orphans \ {r}) \union {w}
    <3>1. r.phase = "sent" BY <1>1, <1>3, <2>1, WorkFacts
    <3>2. RequestOK(w)' /\ (Exclusive(w) => \A q : RequestOK(q) => ~Same(w, q))
      BY <1>1, <1>2, <1>3, <1>8, <2>1, <3>1, NewWork
    <3> QED BY <2>1, <3>2
  <2> QED BY <1>7, <2>1 DEF ServeOrphan
<1>10. TypeOK'
  BY <1>1, <1>2, <1>5, <1>8, <1>9, Types DEF DemoInv, PageInv, TypeOK, CallType, TabType, Orphan, Rows
<1>11. RequestsInv'
  <2>1. ASSUME NEW t \in Tab, Awaiting(t) PROVE RequestOK(call[t])'
    <3>1. PICK q : q = call[t] OBVIOUS
    <3>2. RequestOK(q) /\ q.session \in Session
      BY <1>1, <2>1, <3>1 DEF DemoInv, RequestsInv, RequestOK, Session
    <3>3. ~(Exclusive(r) /\ Same(r, q))
      BY <2>1, <3>1 DEF DemoInv, RequestsInv, Exclusive, Same
    <3>4. RequestOK(q)' BY <1>6, <3>2, <3>3
    <3> QED BY <1>2, <3>1, <3>4 DEF RequestOK
  <2>2. ASSUME NEW q \in orphans \ {r} PROVE RequestOK(q)'
    <3>1. q \in Orphan /\ RequestOK(q) BY <1>1 DEF DemoInv, RequestsInv
    <3>2. ~Same(r, q) BY <1>3, <3>1 DEF Orphan, Same
    <3> QED BY <1>6, <3>1, <3>2 DEF Orphan
  <2>3. \A q \in orphans' : RequestOK(q)'
    BY <1>9, <2>2
  <2>4. ASSUME NEW t \in Tab, NEW q \in orphans', Exclusive(call[t]), Same(call[t], q) PROVE FALSE
    <3>1. q \notin orphans BY <2>4 DEF DemoInv, RequestsInv
    <3>2. q = w /\ (Exclusive(w) => \A x : RequestOK(x) => ~Same(w, x)) BY <1>9, <3>1
    <3>3. Exclusive(w) /\ Same(w, call[t]) /\ Awaiting(t)
      BY <2>4, <3>2 DEF Exclusive, Same, Awaiting
    <3>4. RequestOK(call[t]) BY <3>3 DEF DemoInv, RequestsInv
    <3> QED BY <3>2, <3>3, <3>4
  <2>5. \A s \in Session : s > minted' => server'[s] = NoRows
    <3>1. r.session \in 1..minted BY <1>3 DEF RequestOK
    <3> QED BY <1>1, <1>2, <1>5, <3>1 DEF DemoInv, RequestsInv, Session
  <2>6. \A t \in Tab : Awaiting(t)' <=> Awaiting(t) BY <1>2 DEF Awaiting
  <2>7. \A t, u \in Tab : t # u /\ Exclusive(call[t]) => ~Same(call[t], call[u])
    BY DEF DemoInv, RequestsInv
  <2>8. \A t \in Tab : \A q \in orphans' : Exclusive(call[t]) => ~Same(call[t], q)
    BY <2>4
  <2> QED BY <1>2, <2>1, <2>3, <2>5, <2>6, <2>7, <2>8 DEF RequestsInv, Exclusive, Same
<1>12. CallsInv'
  <2> SUFFICES ASSUME NEW u \in Tab, Busy(u)' PROVE CallOK(u)'
    BY DEF CallsInv
  <2>1. Busy(u) /\ CallOK(u) BY <1>2 DEF Busy, DemoInv, CallsInv
  <2>2. PICK e : e = Shown(call[u]) OBVIOUS
  <2>3. call[u].phase = "answered" /\ call[u].outcome = "succeeded" =>
          e \in [step : RequestStep, session : Session, revision : 0..2] /\ EntryIsDurable(e)
    BY <1>1, <2>1, <2>2 DEF CallOK, Told, Shown, CallType
  <2>4. call[u].phase = "answered" /\ call[u].outcome = "succeeded" => EntryIsDurable(Shown(call[u]))'
    BY <1>2, <1>6, <2>2, <2>3 DEF EntryIsDurable, Shown
  <2> QED BY <1>2, <2>1, <2>4 DEF CallOK, Told
<1> QED BY <1>2, <1>6, <1>10, <1>11, <1>12, PageStays

---------------------------------------------------------------------------
(* Steps of a page, which leave the rows alone.                            *)

LEMMA TabStep ==
    ASSUME DemoInv, NEW t \in Tab, NEW c \in CallType, NEW page \in TabType,
           tab' = [tab EXCEPT ![t] = page], call' = [call EXCEPT ![t] = c],
           UNCHANGED <<orphans, server, enabled, faults>>,
           minted' \in minted..MaxSession, jar' \in 0..minted',
           jar' # 0 => "start" \in server[jar'].done,
           Len(page.history) = page.position,
           \A i \in 1..page.position : page.history[i].step = Beat[i] /\ EntryIsDurable(page.history[i]),
           c.phase \in {"sent", "working"} => RequestOK(c)',
           Exclusive(c) => \A q \in Others(t) : ~Same(c, q),
           c.phase # "none" => c.session =< minted' /\ Fits(c, page.position) /\ Told(c)
    PROVE  DemoInv'
<1>1. /\ tab \in [Tab -> TabType] /\ call \in [Tab -> CallType] /\ minted \in 0..MaxSession
  BY Types DEF DemoInv, PageInv
<1>2. /\ tab' \in [Tab -> TabType] /\ call' \in [Tab -> CallType] /\ minted' \in 0..MaxSession
      /\ jar' \in 0..MaxSession /\ tab'[t] = page /\ call'[t] = c
      /\ \A u \in Tab \ {t} : tab'[u] = tab[u] /\ call'[u] = call[u]
  BY <1>1
<1>3. TypeOK'
  BY <1>2, Types DEF DemoInv, PageInv, TypeOK, CallType, TabType, Orphan, Rows
<1>4. HistoryIsTheBeat'
  BY <1>2 DEF DemoInv, PageInv, HistoryIsTheBeat
<1>5. CookieNamesStarted'
  BY DEF CookieNamesStarted
<1>6. ShownIsDurable'
  <2> SUFFICES ASSUME NEW u \in Tab, NEW h, h = tab'[u].history, NEW i \in DOMAIN h, NEW e, e = h[i]
               PROVE  EntryIsDurable(e)'
    BY DEF ShownIsDurable, EntryIsDurable
  <2>1. h \in Seq(Entry) BY <1>2 DEF TabType
  <2>2. CASE u = t
    <3>1. i \in 1..page.position BY <1>2, <2>1, <2>2
    <3>2. EntryIsDurable(e) BY <1>2, <2>2, <3>1
    <3> QED BY <3>2 DEF EntryIsDurable
  <2>3. CASE u # t
    <3>1. EntryIsDurable(e) BY <1>2, <2>3 DEF DemoInv, PageInv, ShownIsDurable
    <3> QED BY <3>1 DEF EntryIsDurable
  <2> QED BY <2>2, <2>3
<1>7. \A s \in Session : s > minted' => server'[s] = NoRows
  BY <1>1, <1>2 DEF DemoInv, RequestsInv, Session
<1>8. ASSUME NEW q \in Others(t) PROVE RequestOK(q)'
  <2>1. RequestOK(q) BY <1>8 DEF DemoInv, RequestsInv, Others
  <2> QED BY <1>1, <1>2, <2>1 DEF RequestOK
<1>9. RequestsInv'
  BY <1>7, <1>8, CallChanges
<1>10. CallsInv'
  <2> SUFFICES ASSUME NEW u \in Tab, Busy(u)' PROVE CallOK(u)'
    BY DEF CallsInv
  <2>1. CASE u = t BY <1>2, <2>1 DEF Busy, CallOK, Told, EntryIsDurable
  <2>2. CASE u # t
    <3>1. CallOK(u) BY <1>2, <2>2 DEF Busy, DemoInv, CallsInv
    <3>2. call[u].session \in Nat BY <1>1 DEF CallType
    <3> QED BY <1>1, <1>2, <2>2, <3>1, <3>2 DEF CallOK, Told, EntryIsDurable
  <2> QED BY <2>1, <2>2
<1> QED BY <1>2, <1>3, <1>4, <1>5, <1>6, <1>9, <1>10 DEF DemoInv, PageInv

\* What is known of a tab before it does anything.
LEMMA TabFacts ==
    ASSUME DemoInv, NEW t \in Tab
    PROVE  /\ tab[t] \in TabType /\ call[t] \in CallType
           /\ Len(tab[t].history) = tab[t].position /\ tab[t].history \in Seq(Entry)
           /\ \A i \in 1..tab[t].position :
                 tab[t].history[i].step = Beat[i] /\ EntryIsDurable(tab[t].history[i])
           /\ jar \in 0..minted /\ minted \in 0..MaxSession
           /\ Busy(t) => CallOK(t)
           /\ \A q \in Others(t) : RequestOK(q)
<1>1. /\ tab \in [Tab -> TabType] /\ call \in [Tab -> CallType] /\ jar \in 0..MaxSession
      /\ minted \in 0..MaxSession
  BY Types DEF DemoInv, PageInv
<1>2. tab[t] \in TabType /\ tab[t].history \in Seq(Entry)
  BY <1>1 DEF TabType
<1>3. /\ Len(tab[t].history) = tab[t].position
      /\ \A i \in 1..tab[t].position : tab[t].history[i].step = Beat[i]
  BY DEF DemoInv, PageInv, HistoryIsTheBeat
<1>4. \A i \in DOMAIN tab[t].history : EntryIsDurable(tab[t].history[i])
  BY DEF DemoInv, PageInv, ShownIsDurable
<1>5. \A q \in Others(t) : RequestOK(q)
  BY DEF DemoInv, RequestsInv, Others
<1> QED BY <1>1, <1>2, <1>3, <1>4, <1>5 DEF DemoInv, CallsInv

LEMMA ClickInv ==
    ASSUME DemoInv, NEW t \in Tab, NEW step \in RequestStep, NEW restart \in BOOLEAN,
           NEW runner \in Runner, Click(t, step, restart, runner),
           step # "proofs" =>
              IF restart THEN step = "start" ELSE tab[t].position < 5 /\ step = Beat[tab[t].position + 1],
           step = "proofs" => runner = "proofs" /\ ~restart
    PROVE  DemoInv'
<1>1. /\ tab[t] \in TabType /\ Len(tab[t].history) = tab[t].position
      /\ \A i \in 1..tab[t].position :
            tab[t].history[i].step = Beat[i] /\ EntryIsDurable(tab[t].history[i])
      /\ jar \in 0..minted /\ minted \in 0..MaxSession
      /\ \A q \in Others(t) : RequestOK(q)
  BY TabFacts
<1>2. PICK page : page = Cleared(t, restart)
  OBVIOUS
<1>3. /\ page \in TabType /\ page.position = (IF restart THEN 0 ELSE tab[t].position)
      /\ page.history = (IF restart THEN <<>> ELSE tab[t].history)
  BY <1>1, <1>2 DEF Cleared, Blank, TabType
<1>4. PICK s : s = SessionFor(step)
  OBVIOUS
<1>5. minted' = (IF step = "start" THEN minted + 1 ELSE minted) /\ minted' \in minted..MaxSession
      /\ s = (IF step = "start" THEN minted + 1 ELSE jar) /\ s \in 0..minted'
  BY <1>1, <1>4 DEF Click, Send, MayMint, SessionFor
<1>6. PICK c : c = Sent(t, step, restart, runner)
  OBVIOUS
<1>7. /\ c.phase = (IF s = 0 THEN "answered" ELSE "sent") /\ c.step = step /\ c.session = s
      /\ c.restart = restart /\ c.runner = runner /\ c.outcome = "denied"
  BY <1>4, <1>6 DEF Sent
<1>8. c \in CallType
  <2>1. PICK phase : phase = IF s = 0 THEN "answered" ELSE "sent" OBVIOUS
  <2>2. c = [phase |-> phase, step |-> step, session |-> s, restart |-> restart, runner |-> runner,
             outcome |-> "denied", revision |-> 0]
    BY <1>4, <1>6, <2>1 DEF Sent
  <2>3. s \in 0..MaxSession /\ phase \in {"answered", "sent"} BY <1>1, <1>5, <2>1
  <2> QED BY <2>2, <2>3 DEF CallType, Outcome
<1>9. /\ tab' = [tab EXCEPT ![t] = page] /\ call' = [call EXCEPT ![t] = c]
      /\ UNCHANGED <<orphans, jar, server, enabled, faults>>
  BY <1>2, <1>6 DEF Click, Send
<1>10. /\ Len(page.history) = page.position
       /\ \A i \in 1..page.position : page.history[i].step = Beat[i] /\ EntryIsDurable(page.history[i])
  BY <1>1, <1>3
<1>11. step = "start" => server[s] = NoRows
  BY <1>1, <1>5 DEF DemoInv, RequestsInv, Session
<1>12. c.phase \in {"sent", "working"} => RequestOK(c)'
  <2> SUFFICES ASSUME s # 0, c.phase = "sent" PROVE RequestOK(c)'
    BY <1>7
  <2> QED BY <1>1, <1>5, <1>7, <1>9, <1>11 DEF RequestOK
<1>13. Exclusive(c) => \A q \in Others(t) : ~Same(c, q)
  BY <1>1, <1>5, <1>7 DEF Exclusive, Same, RequestOK
<1>14. Fits(c, page.position)
  <2>1. restart => page.position = 0 /\ (step # "proofs" => step = Beat[page.position + 1])
    BY <1>3, BeatFacts
  <2>2. tab[t].position \in Nat BY <1>1 DEF TabType
  <2> QED BY <1>3, <1>7, <2>1, <2>2 DEF Fits
<1>15. Told(c)
  BY <1>7 DEF Told
<1>16. jar' \in 0..minted' /\ (jar' # 0 => "start" \in server[jar'].done)
  BY <1>1, <1>5, <1>9 DEF DemoInv, PageInv, CookieNamesStarted
<1>17. c.session =< minted' /\ Fits(c, page.position) /\ Told(c)
  BY <1>1, <1>5, <1>7, <1>14, <1>15
<1>18. page \in TabType BY <1>3
<1>19. minted' \in minted..MaxSession BY <1>5
<1> QED BY ONLY DemoInv, <1>8, <1>9, <1>10, <1>12, <1>13, <1>16, <1>17, <1>18, <1>19, TabStep

LEMMA PagesInv == ASSUME DemoInv, NEW t \in Tab, Page(t) PROVE DemoInv'
<1>1. tab[t] \in TabType /\ tab[t].position \in 0..5 /\ Len(tab[t].history) = tab[t].position
  BY TabFacts DEF TabType
<1>2. {"one", "rest", "proofs"} = Runner /\ "start" \in RequestStep /\ "proofs" \in RequestStep
  BY BeatFacts DEF Runner
<1>3. \A p \in 0..4 : Beat[p + 1] \in RequestStep /\ Beat[p + 1] # "proofs"
  BY BeatFacts
<1>4. CASE Primary(t)
  <2>1. CASE tab[t].position \in {0, 5}
    BY <1>2, <1>4, <2>1, ClickInv DEF Primary
  <2>2. CASE tab[t].position \notin {0, 5}
    <3>1. PICK step : step = Beat[tab[t].position + 1] OBVIOUS
    <3>2. Click(t, step, FALSE, "one") BY <1>4, <2>2, <3>1 DEF Primary
    <3>3. step \in RequestStep /\ step # "proofs" /\ tab[t].position < 5 BY <1>1, <1>3, <2>2, <3>1
    <3> QED BY <1>2, <3>1, <3>2, <3>3, ClickInv
  <2> QED BY <2>1, <2>2
<1>5. CASE Remaining(t)
  <2>1. PICK step : step = Beat[tab[t].position + 1] OBVIOUS
  <2>2. Click(t, step, FALSE, "rest") /\ tab[t].position \in 1..4 BY <1>5, <2>1 DEF Remaining
  <2>3. step \in RequestStep /\ step # "proofs" /\ tab[t].position < 5 BY <1>3, <2>1, <2>2
  <2> QED BY <1>2, <2>1, <2>2, <2>3, ClickInv
<1>6. CASE Restart(t)
  BY <1>2, <1>6, ClickInv DEF Restart
<1>7. CASE Proofs(t)
  <2>1. PICK step : step = NextForProofs(tab[t].position)
    OBVIOUS
  <2>2. tab[t].history = <<>> <=> tab[t].position = 0
    <3>1. tab[t].history \in Seq(Entry) BY TabFacts
    <3> QED BY <1>1, <3>1
  <2>3. PICK restart \in BOOLEAN : Click(t, step, restart, "proofs") /\ (restart <=> tab[t].position = 0)
    <3>1. CASE tab[t].history = <<>>
      <4>1. (tab[t].history = <<>>) = TRUE BY <3>1
      <4> QED BY <1>7, <2>1, <2>2, <3>1, <4>1 DEF Proofs
    <3>2. CASE tab[t].history # <<>>
      <4>1. (tab[t].history = <<>>) = FALSE BY <3>2
      <4> QED BY <1>7, <2>1, <2>2, <3>2, <4>1 DEF Proofs
    <3> QED BY <3>1, <3>2
  <2>4. CASE tab[t].position < 2
    <3>1. step = Beat[tab[t].position + 1] /\ step \in RequestStep /\ step # "proofs"
      BY <1>1, <1>3, <2>1, <2>4 DEF NextForProofs
    <3>2. restart => step = "start" BY <2>3, <3>1, BeatFacts
    <3>3. tab[t].position < 5 BY <1>1, <2>4
    <3> QED BY <1>2, <2>3, <3>1, <3>2, <3>3, ClickInv
  <2>5. CASE ~(tab[t].position < 2)
    <3>1. step = "proofs" /\ ~restart BY <1>1, <2>1, <2>3, <2>5 DEF NextForProofs
    <3> QED BY <1>2, <2>3, <3>1, ClickInv
  <2> QED BY <2>4, <2>5
<1> QED BY <1>4, <1>5, <1>6, <1>7 DEF Page

\* The cookie after an answer names a session that was started.
LEMMA JarFacts ==
    ASSUME DemoInv, NEW t \in Tab, Busy(t), call[t].phase = "answered",
           NEW j \in {jar, JarAfter(call[t])}
    PROVE  j \in 0..minted /\ (j # 0 => "start" \in server[j].done)
<1>1. jar \in 0..minted /\ minted \in 0..MaxSession /\ CallOK(t) /\ call[t] \in CallType
  BY TabFacts
<1>2. CASE j = jar
  BY <1>1, <1>2 DEF DemoInv, PageInv, CookieNamesStarted
<1>3. CASE SetsCookie(call[t]) /\ j = call[t].session
  BY <1>1, <1>3 DEF SetsCookie, CallOK, Told, EntryIsDurable, Shown, Session
<1> QED BY <1>2, <1>3 DEF JarAfter

\* A tab that goes idle.
LEMMA IdleStep ==
    ASSUME DemoInv, NEW t \in Tab, NEW page \in TabType,
           tab' = [tab EXCEPT ![t] = page], call' = [call EXCEPT ![t] = NoCall],
           page.history = tab[t].history /\ page.position = tab[t].position,
           UNCHANGED <<orphans, server, enabled, faults, minted>>,
           jar' \in 0..minted, jar' # 0 => "start" \in server[jar'].done
    PROVE  DemoInv'
<1>1. PICK c : c = NoCall
  OBVIOUS
<1>2. c \in CallType /\ c.phase = "none"
  BY <1>1, BeatFacts DEF NoCall, CallType, Runner, Outcome
<1>3. ~Exclusive(c)
  BY <1>2 DEF Exclusive
<1>4. /\ Len(page.history) = page.position /\ minted' \in minted..MaxSession /\ jar' \in 0..minted'
      /\ \A i \in 1..page.position : page.history[i].step = Beat[i] /\ EntryIsDurable(page.history[i])
  BY TabFacts
<1> QED BY <1>1, <1>2, <1>3, <1>4, TabStep

LEMMA FailInv == ASSUME DemoInv, NEW t \in Tab, Fail(t) PROVE DemoInv'
<1>1. tab[t] \in TabType BY TabFacts
<1>2. PICK page : page = [tab[t] EXCEPT !.error = FailureOf(call[t].outcome)] OBVIOUS
<1>3. FailureOf(call[t].outcome) \in Failure BY DEF FailureOf, Failure
<1>4. page \in TabType /\ page.history = tab[t].history /\ page.position = tab[t].position
  BY <1>1, <1>2, <1>3 DEF TabType
<1>5. /\ tab' = [tab EXCEPT ![t] = page] /\ call' = [call EXCEPT ![t] = NoCall]
      /\ UNCHANGED <<orphans, minted, server, enabled, faults>> /\ jar' = JarAfter(call[t])
      /\ call[t].phase = "answered"
  BY <1>2 DEF Fail
<1>6. Busy(t) BY <1>5 DEF Busy
<1>7. jar' \in 0..minted /\ (jar' # 0 => "start" \in server[jar'].done)
  BY <1>5, <1>6, JarFacts
<1> QED BY <1>4, <1>5, <1>7, IdleStep

\* The page after a success: one step further, or, after the proofs, where it was.
LEMMA AdvancedFacts ==
    ASSUME DemoInv, NEW t \in Tab, Succeed(t), NEW r, r = call[t], NEW page, page = Advanced(t, r)
    PROVE  /\ page \in TabType /\ Len(page.history) = page.position
           /\ \A i \in 1..page.position : page.history[i].step = Beat[i] /\ EntryIsDurable(page.history[i])
           /\ r.step = "proofs" => r.runner = "proofs" /\ page = tab[t]
           /\ r.step # "proofs" => /\ page.position = tab[t].position + 1
                                   /\ page.history = Append(tab[t].history, Shown(r))
<1>1. /\ tab[t] \in TabType /\ tab[t].position \in 0..5 /\ Len(tab[t].history) = tab[t].position
      /\ tab[t].history \in Seq(Entry) /\ r \in CallType
      /\ \A i \in 1..tab[t].position :
            tab[t].history[i].step = Beat[i] /\ EntryIsDurable(tab[t].history[i])
  BY TabFacts DEF TabType
<1>2. Fits(r, tab[t].position) /\ Told(r) /\ r.phase = "answered" /\ r.outcome = "succeeded"
  BY TabFacts DEF Succeed, Busy, CallOK
<1>3. CASE r.step = "proofs"
  BY <1>1, <1>2, <1>3 DEF Advanced, Fits
<1>4. CASE r.step # "proofs"
  <2>1. tab[t].position =< 4 /\ r.step = Beat[tab[t].position + 1] /\ (r.restart => tab[t].position = 0)
    BY <1>2, <1>4 DEF Fits
  <2>2. PICK e : e = Shown(r) OBVIOUS
  <2>3. e \in Entry /\ e.step = r.step /\ EntryIsDurable(e)
    BY <1>1, <1>2, <2>2 DEF Told, Shown, Entry, CallType
  <2>4. PICK h : h = Append(tab[t].history, e) OBVIOUS
  <2>5. /\ h \in Seq(Entry) /\ Len(h) = tab[t].position + 1 /\ h[tab[t].position + 1] = e
        /\ \A i \in 1..tab[t].position : h[i] = tab[t].history[i]
    BY <1>1, <2>3, <2>4
  <2>6. r.restart => <<e>> = h
    <3>1. r.restart => tab[t].history = <<>> BY <1>1, <2>1
    <3> QED BY <2>4, <3>1
  <2>7. PICK p : p = tab[t].position + 1 OBVIOUS
  <2>8. page = [tab[t] EXCEPT !.history = h, !.position = p]
    BY <1>4, <2>1, <2>2, <2>4, <2>6, <2>7 DEF Advanced
  <2>9. page \in TabType /\ page.history = h /\ page.position = p
    <3>1. p \in 0..5 BY <1>1, <2>1, <2>7
    <3> QED BY <1>1, <2>5, <2>8, <3>1 DEF TabType
  <2>10. \A i \in 1..p : h[i].step = Beat[i] /\ EntryIsDurable(h[i])
    <3> SUFFICES ASSUME NEW i \in 1..p PROVE h[i].step = Beat[i] /\ EntryIsDurable(h[i])
      OBVIOUS
    <3>1. CASE i = p BY <2>1, <2>3, <2>5, <2>7, <3>1
    <3>2. CASE i # p
      <4>1. i \in 1..tab[t].position BY <1>1, <2>7, <3>2
      <4> QED BY <1>1, <2>5, <4>1
    <3> QED BY <3>1, <3>2
  <2> QED BY <1>4, <2>2, <2>4, <2>5, <2>7, <2>9, <2>10
<1> QED BY <1>3, <1>4

LEMMA SucceedInv == ASSUME DemoInv, NEW t \in Tab, Succeed(t) PROVE DemoInv'
<1>1. PICK r, page : r = call[t] /\ page = Advanced(t, r)
  OBVIOUS
<1>2. /\ page \in TabType /\ Len(page.history) = page.position
      /\ \A i \in 1..page.position : page.history[i].step = Beat[i] /\ EntryIsDurable(page.history[i])
      /\ r.step = "proofs" => r.runner = "proofs"
      /\ r.step # "proofs" => page.position = tab[t].position + 1
  BY <1>1, AdvancedFacts
<1>3. tab[t].position \in 0..5 /\ minted \in 0..MaxSession /\ r \in CallType /\ page.position \in 0..5
  BY <1>1, <1>2, TabFacts DEF TabType
<1>4. /\ tab' = [tab EXCEPT ![t] = page] /\ jar' = JarAfter(r) /\ r.phase = "answered"
      /\ UNCHANGED <<orphans, minted, server, enabled, faults>>
  BY <1>1 DEF Succeed
<1>5. jar' \in 0..minted /\ (jar' # 0 => "start" \in server[jar'].done)
  BY <1>1, <1>4, JarFacts DEF Busy
<1>6. PICK more : more = Following(r.runner, r.step, page.position)
  OBVIOUS
<1>7. \/ more = {}
      \/ /\ r.step # "proofs"
         /\ \/ page.position < 5 /\ more = {Beat[page.position + 1]}
            \/ r.runner = "proofs" /\ more = {"proofs"}
  <2>1. CASE r.runner = "rest" /\ page.position < 5
    BY <1>2, <1>6, <2>1 DEF Following
  <2>2. CASE r.runner = "proofs" /\ r.step # "proofs"
    <3>1. more = {NextForProofs(page.position)} BY <1>6, <2>2 DEF Following
    <3> QED BY <1>3, <2>2, <3>1 DEF NextForProofs
  <2>3. CASE ~(r.runner = "rest" /\ page.position < 5) /\ ~(r.runner = "proofs" /\ r.step # "proofs")
    BY <1>6, <2>3 DEF Following
  <2> QED BY <2>1, <2>2, <2>3
<1>8. PICK c : c = IF more = {} THEN NoCall
                   ELSE [phase |-> IF jar' = 0 THEN "answered" ELSE "sent",
                         step |-> CHOOSE step \in more : TRUE, session |-> jar',
                         restart |-> FALSE, runner |-> r.runner,
                         outcome |-> "denied", revision |-> 0]
  OBVIOUS
<1>9. call' = [call EXCEPT ![t] = c]
  BY <1>1, <1>6, <1>8 DEF Succeed
<1>10. CASE more = {}
  <2>1. c = NoCall BY <1>8, <1>10
  <2>2. c \in CallType /\ c.phase = "none"
    BY <2>1, BeatFacts DEF NoCall, CallType, Runner, Outcome
  <2>3. ~Exclusive(c) BY <2>2 DEF Exclusive
  <2>4. minted' \in minted..MaxSession /\ jar' \in 0..minted' BY <1>3, <1>4, <1>5
  <2> QED BY <1>2, <1>4, <1>5, <1>9, <2>2, <2>3, <2>4, TabStep
<1>11. CASE more # {}
  <2>1. PICK step : step = CHOOSE x \in more : TRUE
    OBVIOUS
  <2>2. step \in more BY <1>11, <2>1
  <2>3. page.position \in 1..5 /\ r.step # "proofs" BY <1>2, <1>3, <1>7, <1>11
  <2>4. /\ step \in RequestStep /\ step # "start"
        /\ step # "proofs" => page.position < 5 /\ step = Beat[page.position + 1]
        /\ step = "proofs" => r.runner = "proofs"
    <3>1. CASE page.position < 5 /\ more = {Beat[page.position + 1]}
      <4>1. page.position + 1 \in 2..5 BY <2>3, <3>1
      <4>2. step = Beat[page.position + 1] BY <2>2, <3>1
      <4>3. step \in RequestStep /\ step # "start" /\ step # "proofs" BY <4>1, <4>2, BeatFacts
      <4> QED BY <3>1, <4>2, <4>3
    <3>2. CASE r.runner = "proofs" /\ more = {"proofs"}
      BY <2>2, <3>2, BeatFacts
    <3> QED BY <1>7, <1>11, <3>1, <3>2
  <2>5. PICK phase : phase = IF jar' = 0 THEN "answered" ELSE "sent"
    OBVIOUS
  <2>6. c = [phase |-> phase, step |-> step, session |-> jar', restart |-> FALSE, runner |-> r.runner,
             outcome |-> "denied", revision |-> 0]
    BY <1>8, <1>11, <2>1, <2>5
  <2>7. /\ c.phase = phase /\ c.step = step /\ c.session = jar' /\ ~c.restart
        /\ c.runner = r.runner /\ c.outcome = "denied"
    BY <2>6
  <2>8. c \in CallType
    <3>1. jar' \in 0..MaxSession BY <1>3, <1>5
    <3>2. phase \in {"none", "sent", "working", "answered"} /\ r.runner \in Runner BY <1>3, <2>5 DEF CallType
    <3> QED BY <2>4, <2>6, <3>1, <3>2 DEF CallType, Outcome
  <2>9. ~Exclusive(c)
    BY <2>4, <2>5, <2>7 DEF Exclusive
  <2>10. c.phase \in {"sent", "working"} => RequestOK(c)'
    BY <1>4, <1>5, <2>4, <2>5, <2>7 DEF RequestOK
  <2>11. c.session =< minted' /\ Fits(c, page.position) /\ Told(c)
    BY <1>4, <1>5, <2>3, <2>4, <2>7 DEF Fits, Told
  <2>12. minted' \in minted..MaxSession /\ jar' \in 0..minted' BY <1>3, <1>4, <1>5
  <2>13. page \in TabType /\ Len(page.history) = page.position BY <1>2
  <2>14. \A i \in 1..page.position : page.history[i].step = Beat[i] /\ EntryIsDurable(page.history[i])
    BY <1>2
  <2> QED BY ONLY DemoInv, <1>4, <1>5, <1>9, <2>8, <2>9, <2>10, <2>11, <2>12, <2>13, <2>14, TabStep
<1> QED BY <1>10, <1>11

\* A tab that stops waiting leaves its request behind.
LEMMA AbandonStep ==
    ASSUME DemoInv, NEW t \in Tab, NEW page \in TabType, tab' = [tab EXCEPT ![t] = page], Abandoned(t),
           \/ page.history = tab[t].history /\ page.position = tab[t].position
           \/ page.history = <<>> /\ page.position = 0
    PROVE  DemoInv'
<1>1. /\ tab \in [Tab -> TabType] /\ call \in [Tab -> CallType] /\ orphans \subseteq Orphan
      /\ jar \in 0..minted /\ minted \in 0..MaxSession /\ faults \in 0..MaxFault
      /\ server \in [Session -> Rows]
  BY Types, TabFacts DEF DemoInv, PageInv
<1>2. /\ call' = [call EXCEPT ![t] = NoCall] /\ UNCHANGED <<minted, server, enabled>>
      /\ faults < MaxFault /\ faults' = faults + 1
  BY DEF Abandoned
<1>3. jar' \in 0..minted /\ (jar' # 0 => "start" \in server[jar'].done)
  <2>1. CASE jar' = jar BY <1>1, <2>1 DEF DemoInv, PageInv, CookieNamesStarted
  <2>2. CASE jar' = JarAfter(call[t]) /\ call[t].phase = "answered"
    BY <2>2, JarFacts DEF Busy
  <2> QED BY <2>1, <2>2 DEF Abandoned
<1>4. PICK w : w = [phase |-> call[t].phase, step |-> call[t].step, session |-> call[t].session]
  OBVIOUS
<1>5. /\ orphans' = orphans \union (IF Awaiting(t) THEN {w} ELSE {})
      /\ w.phase = call[t].phase /\ w.step = call[t].step /\ w.session = call[t].session
  BY <1>4 DEF Abandoned, Awaiting
<1>6. Awaiting(t) => w \in Orphan /\ RequestOK(w)
  <2> SUFFICES ASSUME Awaiting(t) PROVE w \in Orphan /\ RequestOK(w)
    OBVIOUS
  <2>1. RequestOK(call[t]) BY DEF DemoInv, RequestsInv
  <2>2. call[t].session \in Session BY <1>1, <2>1 DEF RequestOK, Session
  <2>3. call[t].step \in RequestStep BY <1>1 DEF CallType
  <2> QED BY <1>4, <1>5, <2>1, <2>2, <2>3 DEF Orphan, RequestOK, Awaiting
<1>7. NoCall \in CallType /\ NoCall.phase = "none"
  BY BeatFacts DEF NoCall, CallType, Runner, Outcome
<1>8. call' \in [Tab -> CallType] /\ call'[t] = NoCall /\ \A u \in Tab \ {t} : call'[u] = call[u]
  BY <1>1, <1>2, <1>7
<1>9. tab' \in [Tab -> TabType] /\ tab'[t] = page /\ \A u \in Tab \ {t} : tab'[u] = tab[u]
  BY <1>1
<1>10. TypeOK'
  <2>1. faults' \in 0..MaxFault /\ jar' \in 0..MaxSession BY <1>1, <1>2, <1>3
  <2>2. orphans' \subseteq Orphan BY <1>1, <1>5, <1>6
  <2> QED BY <1>2, <1>8, <1>9, <2>1, <2>2, Types DEF DemoInv, PageInv, TypeOK, CallType, TabType, Orphan, Rows
<1>11. HistoryIsTheBeat'
  <2>1. Len(page.history) = page.position /\ \A i \in 1..page.position : page.history[i].step = Beat[i]
    BY TabFacts
  <2> QED BY <1>9, <2>1 DEF DemoInv, PageInv, HistoryIsTheBeat
<1>12. ShownIsDurable'
  <2> SUFFICES ASSUME NEW u \in Tab, NEW h, h = tab'[u].history, NEW i \in DOMAIN h, NEW e, e = h[i]
               PROVE  EntryIsDurable(e)'
    BY DEF ShownIsDurable, EntryIsDurable
  <2>1. h = tab[u].history \/ h = <<>> BY <1>9
  <2>2. EntryIsDurable(e) BY <2>1 DEF DemoInv, PageInv, ShownIsDurable
  <2> QED BY <1>2, <2>2 DEF EntryIsDurable
<1>13. RequestsInv'
  <2>1. \A u \in Tab : Awaiting(u)' => u # t /\ Awaiting(u) /\ call'[u] = call[u]
    BY <1>7, <1>8 DEF Awaiting
  <2>2. \A q : RequestOK(q) => RequestOK(q)'
    BY <1>2 DEF RequestOK
  <2>3. \A u \in Tab : Awaiting(u)' => RequestOK(call[u])'
    BY <1>2, <2>1 DEF DemoInv, RequestsInv, RequestOK
  <2>4. \A q \in orphans' : RequestOK(q)'
    BY <1>5, <1>6, <2>2 DEF DemoInv, RequestsInv
  <2>5. \A u \in Tab : Exclusive(call'[u]) => u # t /\ call'[u] = call[u]
    BY <1>7, <1>8 DEF Exclusive
  <2>6. \A u, v \in Tab : u # v /\ Exclusive(call'[u]) => ~Same(call'[u], call'[v])
    <3> SUFFICES ASSUME NEW u \in Tab, NEW v \in Tab, u # v, Exclusive(call'[u]), Same(call'[u], call'[v])
                 PROVE  FALSE
      OBVIOUS
    <3>1. v # t BY <1>7, <1>8, <2>5 DEF Exclusive, Same
    <3> QED BY <1>8, <2>5, <3>1 DEF DemoInv, RequestsInv
  <2>7. \A u \in Tab : \A q \in orphans' : Exclusive(call'[u]) => ~Same(call'[u], q)
    <3> SUFFICES ASSUME NEW u \in Tab, NEW q \in orphans', Exclusive(call'[u]), Same(call'[u], q)
                 PROVE  FALSE
      OBVIOUS
    <3>1. CASE q \in orphans BY <2>5, <3>1 DEF DemoInv, RequestsInv
    <3>2. CASE q = w
      <4>1. Same(call[u], call[t]) BY <1>5, <2>5, <3>2 DEF Same
      <4> QED BY <2>5, <4>1 DEF DemoInv, RequestsInv
    <3> QED BY <1>5, <3>1, <3>2
  <2>8. \A s \in Session : s > minted' => server'[s] = NoRows
    BY <1>2 DEF DemoInv, RequestsInv
  <2> QED BY <2>3, <2>4, <2>6, <2>7, <2>8 DEF RequestsInv, Exclusive, Same
<1>14. CallsInv'
  <2> SUFFICES ASSUME NEW u \in Tab, Busy(u)' PROVE CallOK(u)'
    BY DEF CallsInv
  <2>1. u # t /\ Busy(u) BY <1>7, <1>8 DEF Busy
  <2>2. CallOK(u) BY <2>1 DEF DemoInv, CallsInv
  <2> QED BY <1>2, <1>8, <1>9, <2>1, <2>2 DEF CallOK, Told, EntryIsDurable
<1> QED BY <1>1, <1>2, <1>3, <1>10, <1>11, <1>12, <1>13, <1>14 DEF DemoInv, PageInv, CookieNamesStarted

LEMMA LoseReplyInv == ASSUME DemoInv, NEW t \in Tab, LoseReply(t) PROVE DemoInv'
<1>1. PICK page : page = [tab[t] EXCEPT !.error = "network"] OBVIOUS
<1>2. tab[t] \in TabType BY TabFacts
<1>3. page \in TabType /\ page.history = tab[t].history /\ page.position = tab[t].position
  BY <1>1, <1>2 DEF TabType, Failure
<1>4. tab' = [tab EXCEPT ![t] = page] /\ Abandoned(t)
  <2>1. Abandoned(t) BY DEF LoseReply
  <2>2. tab' = [tab EXCEPT ![t].error = "network"] BY DEF LoseReply
  <2> QED BY <1>1, <2>1, <2>2
<1> QED BY <1>3, <1>4, AbandonStep

LEMMA ReloadInv == ASSUME DemoInv, NEW t \in Tab, Reload(t) PROVE DemoInv'
<1>1. PICK page : page = Blank OBVIOUS
<1>2. page \in TabType /\ page.history = <<>> /\ page.position = 0
  BY <1>1 DEF Blank, TabType, Failure
<1>3. tab' = [tab EXCEPT ![t] = page] /\ Abandoned(t)
  BY <1>1 DEF Reload
<1> QED BY <1>2, <1>3, AbandonStep

\* The operator, time and the browser's cookie store touch no page and no request.
LEMMA OutsideStep ==
    ASSUME DemoInv, UNCHANGED <<tab, call, orphans, minted>>, enabled' \in BOOLEAN,
           faults' \in 0..MaxFault, jar' \in {0, jar}, server' \in [Session -> Rows],
           \A s \in Session : /\ server'[s].done = server[s].done /\ server'[s].answer = server[s].answer
                              /\ server'[s].reserved = server[s].reserved
                              /\ server[s] = NoRows => server'[s] = NoRows
    PROVE  DemoInv'
<1>1. /\ tab \in [Tab -> TabType] /\ call \in [Tab -> CallType] /\ orphans \subseteq Orphan
      /\ jar \in 0..minted /\ minted \in 0..MaxSession
  BY Types, TabFacts DEF DemoInv, PageInv
<1>2. jar' \in 0..minted' /\ jar' \in 0..MaxSession
  BY <1>1
<1>3. TypeOK'
  BY <1>1, <1>2, Types DEF DemoInv, PageInv, TypeOK, Rows
<1>4. HistoryIsTheBeat'
  BY DEF DemoInv, PageInv, HistoryIsTheBeat
<1>5. CookieNamesStarted'
  BY <1>1 DEF DemoInv, PageInv, CookieNamesStarted, Session
<1>6. ASSUME NEW e, e.session \in Session, EntryIsDurable(e) PROVE EntryIsDurable(e)'
  BY <1>6 DEF EntryIsDurable
<1>7. ShownIsDurable'
  <2> SUFFICES ASSUME NEW u \in Tab, NEW h, h = tab[u].history, NEW i \in DOMAIN h, NEW e, e = h[i]
               PROVE  EntryIsDurable(e)'
    BY DEF ShownIsDurable, EntryIsDurable
  <2>1. EntryIsDurable(e) BY DEF DemoInv, PageInv, ShownIsDurable
  <2>2. h \in Seq(Entry) BY <1>1 DEF TabType
  <2>3. e \in Entry BY <2>2
  <2>4. e.session \in Session BY <2>3 DEF Entry
  <2> QED BY <1>6, <2>1, <2>4
<1>8. ASSUME NEW r, RequestOK(r) PROVE RequestOK(r)'
  <2>1. r.session \in Session BY <1>1, <1>8 DEF RequestOK, Session
  <2> QED BY <1>8, <2>1 DEF RequestOK
<1>9. RequestsInv'
  BY <1>8 DEF DemoInv, RequestsInv, Awaiting, RequestOK, Exclusive, Same
<1>10. CallsInv'
  <2> SUFFICES ASSUME NEW u \in Tab, Busy(u)' PROVE CallOK(u)'
    BY DEF CallsInv
  <2>1. CallOK(u) BY DEF DemoInv, CallsInv, Busy
  <2>2. PICK e : e = Shown(call[u]) OBVIOUS
  <2>3. e.session = call[u].session BY <2>2 DEF Shown
  <2>4. Told(call[u])'
    <3>1. Told(call[u]) BY <2>1 DEF CallOK
    <3>2. call[u].session \in Session /\ EntryIsDurable(e) => EntryIsDurable(e)' BY <1>6, <2>3
    <3> QED BY <2>2, <3>1, <3>2 DEF Told, EntryIsDurable
  <2> QED BY <2>1, <2>4 DEF CallOK, Told
<1> QED BY <1>2, <1>3, <1>4, <1>5, <1>7, <1>9, <1>10 DEF DemoInv, PageInv

LEMMA ExpireInv == ASSUME DemoInv, NEW s \in Session, Expire(s) PROVE DemoInv'
<1>1. server \in [Session -> Rows] /\ faults \in 0..MaxFault /\ enabled \in BOOLEAN
  BY Types DEF DemoInv, PageInv, TypeOK
<1>2. PICK rows : rows = [server[s] EXCEPT !.token = "expired"] OBVIOUS
<1>3. server[s] \in Rows BY <1>1
<1>4. /\ rows \in Rows /\ rows.done = server[s].done /\ rows.answer = server[s].answer
      /\ rows.reserved = server[s].reserved
  BY <1>2, <1>3 DEF Rows
<1>5. server' = [server EXCEPT ![s] = rows]
  <2>1. server' = [server EXCEPT ![s].token = "expired"] BY DEF Expire
  <2> QED BY <1>2, <2>1
<1>6. server[s] # NoRows BY DEF Expire, Live, NoRows
<1>7. /\ faults < MaxFault /\ faults' = faults + 1 /\ UNCHANGED <<tab, call, orphans, jar, minted, enabled>>
  BY DEF Expire
<1>8. faults' \in 0..MaxFault BY <1>1, <1>7
<1> QED BY <1>1, <1>4, <1>5, <1>6, <1>7, <1>8, OutsideStep

LEMMA DemoNextInv == DemoInv /\ [Next]_vars => DemoInv'
<1> SUFFICES ASSUME DemoInv, [Next]_vars PROVE DemoInv'
  OBVIOUS
<1>0. /\ server \in [Session -> Rows] /\ faults \in 0..MaxFault /\ enabled \in BOOLEAN
      /\ orphans \subseteq Orphan
  BY Types DEF DemoInv, PageInv, TypeOK
<1>1. ASSUME NEW t \in Tab, Page(t) PROVE DemoInv'
  BY <1>1, PagesInv
<1>2. ASSUME NEW t \in Tab, Serve(t) PROVE DemoInv'
  BY <1>2, ServeInv
<1>3. ASSUME NEW t \in Tab, Answer(t) PROVE DemoInv'
  BY <1>3, SucceedInv, FailInv DEF Answer
<1>4. ASSUME NEW t \in Tab, LoseReply(t) \/ Reload(t) PROVE DemoInv'
  BY <1>4, LoseReplyInv, ReloadInv
<1>5. ASSUME NEW r \in orphans, ServeOrphan(r) PROVE DemoInv'
  BY <1>5, ServeOrphanInv
<1>6. CASE Pause
  <2>1. faults' \in 0..MaxFault BY <1>0, <1>6 DEF Pause
  <2> QED BY <1>0, <1>6, <2>1, OutsideStep DEF Pause
<1>7. CASE Resume BY <1>0, <1>7, OutsideStep DEF Resume
<1>8. CASE DropCookie BY <1>0, <1>8, OutsideStep DEF DropCookie
<1>9. ASSUME NEW s \in Session, Expire(s) PROVE DemoInv'
  BY <1>9, ExpireInv
<1>10. CASE UNCHANGED vars BY <1>0, <1>10, OutsideStep DEF vars
<1> QED BY <1>1, <1>2, <1>3, <1>4, <1>5, <1>6, <1>7, <1>8, <1>9, <1>10 DEF Next

\* Whatever visitors, faults and the operator do, and in any number of tabs and sessions, the page
\* lists the beat without a gap, the cookie names a started session, and every entry shown is
\* stored (run, runFrom and runProofs of main.tsx against createHackathonLive).
THEOREM PageSound == Spec => []PageInv
<1>1. DemoInv => PageInv BY DEF DemoInv
<1> QED BY DemoInitInv, DemoNextInv, <1>1, PTL DEF Spec

---------------------------------------------------------------------------
(* A visitor with one tab (MCSpec, alone).                                 *)

Shows(h, j) ==
    \A i \in DOMAIN h :
        /\ h[i].session = h[1].session /\ j \in {0, h[i].session}
        /\ h[i].step = "latest_receipt" => h[i].revision = 2

\* The request c continues the story of history h and cookie j.
Continues(c, h, j) ==
    /\ c.phase # "none" /\ c.step # "start" =>
          j \in {0, c.session} /\ \A i \in DOMAIN h : c.session \in {0, h[i].session}
    /\ c.phase = "answered" /\ c.outcome = "succeeded" /\ c.step = "latest_receipt" => c.revision = 2

CorrectDone(s) == "correct" \in server[s].done

\* An ask_after, awaited or not, was asked of a corrected session; so its answer speaks of the
\* correction, and after it every answer does.
CorrectedFirst ==
    /\ \A r \in orphans : r.step = "ask_after" => CorrectDone(r.session)
    /\ \A s \in Session : server[s].answer["ask_after"] # 0 =>
          server[s].answer["ask_after"] = 2 /\ server[s].latest = 2 /\ CorrectDone(s)

Quiet == \A t \in Tab \ {FirstTab} : ~Busy(t) /\ tab[t] = Blank

Story ==
    /\ Quiet /\ CorrectedFirst
    /\ Shows(tab[FirstTab].history, jar)
    /\ Continues(call[FirstTab], tab[FirstTab].history, jar)

StoryInv == DemoInv /\ alone \in BOOLEAN /\ (alone => Story)

LEMMA FirstTabIsATab == Tab # {} => FirstTab \in Tab
BY DEF FirstTab

LEMMA StoryInitInv == ASSUME Tab # {}, MCInit PROVE StoryInv
<1>1. DemoInv /\ alone \in BOOLEAN BY DemoInitInv DEF MCInit
<1>2. /\ tab = [t \in Tab |-> Blank] /\ call = [t \in Tab |-> NoCall] /\ orphans = {}
      /\ server = [s \in Session |-> NoRows]
  BY DEF MCInit, Init
<1>3. Blank.history = <<>> /\ NoCall.phase = "none" /\ NoRows.answer["ask_after"] = 0
  BY DEF Blank, NoCall, NoRows, Ask
<1>4. CorrectedFirst BY <1>2, <1>3 DEF CorrectedFirst
<1>5. Quiet BY <1>2, <1>3 DEF Quiet, Busy
<1>6. Shows(tab[FirstTab].history, jar) /\ Continues(call[FirstTab], tab[FirstTab].history, jar)
  BY <1>2, <1>3, FirstTabIsATab DEF Shows, Continues
<1> QED BY <1>1, <1>4, <1>5, <1>6 DEF StoryInv, Story

\* When an ask_after waits, the correction is stored; when a latest_receipt does, so is the
\* second answer.
LEMMA AskedInOrder ==
    ASSUME DemoInv, NEW t \in Tab, Awaiting(t), Continues(call[t], tab[t].history, jar)
    PROVE  /\ call[t].step = "ask_after" => CorrectDone(call[t].session)
           /\ call[t].step = "latest_receipt" => server[call[t].session].answer["ask_after"] # 0
<1>1. /\ tab[t] \in TabType /\ tab[t].position \in 0..5 /\ Len(tab[t].history) = tab[t].position
      /\ tab[t].history \in Seq(Entry) /\ minted \in 0..MaxSession
      /\ \A i \in 1..tab[t].position :
            tab[t].history[i].step = Beat[i] /\ EntryIsDurable(tab[t].history[i])
  BY TabFacts DEF TabType
<1>2. Fits(call[t], tab[t].position) /\ call[t].phase # "none"
  BY TabFacts DEF Awaiting, Busy, CallOK
<1>3. call[t].session \in 1..minted
  BY DEF DemoInv, RequestsInv, RequestOK
<1>4. ASSUME NEW i \in 1..tab[t].position, call[t].step # "start"
      PROVE  EntryIsDurable(tab[t].history[i]) /\ tab[t].history[i].step = Beat[i]
             /\ tab[t].history[i].session = call[t].session
  <2>1. i \in DOMAIN tab[t].history BY <1>1
  <2>2. call[t].session \in {0, tab[t].history[i].session} BY <1>2, <1>4, <2>1 DEF Continues
  <2> QED BY <1>1, <1>3, <2>2
<1>5. CASE call[t].step = "ask_after"
  <2>1. tab[t].position + 1 \in 1..5 /\ Beat[tab[t].position + 1] = "ask_after"
    BY <1>1, <1>2, <1>5 DEF Fits
  <2>2. tab[t].position = 3
    <3>1. tab[t].position \in 0..4 BY <1>1, <2>1
    <3> QED BY <2>1, <3>1, BeatFacts
  <2>3. 3 \in 1..tab[t].position BY <2>2
  <2> QED BY <1>4, <1>5, <2>3, BeatFacts DEF EntryIsDurable, CorrectDone
<1>6. CASE call[t].step = "latest_receipt"
  <2>1. tab[t].position + 1 \in 1..5 /\ Beat[tab[t].position + 1] = "latest_receipt"
    BY <1>1, <1>2, <1>6 DEF Fits
  <2>2. tab[t].position = 4
    <3>1. tab[t].position \in 0..4 BY <1>1, <2>1
    <3> QED BY <2>1, <3>1, BeatFacts
  <2>3. 4 \in 1..tab[t].position BY <2>2
  <2>4. PICK e : e = tab[t].history[4] OBVIOUS
  <2>5. EntryIsDurable(e) /\ e.step = "ask_after" /\ e.session = call[t].session
    BY <1>4, <1>6, <2>3, <2>4, BeatFacts
  <2>6. e.revision = server[e.session].answer["ask_after"] /\ e.revision > 0
    BY <2>5 DEF EntryIsDurable, Ask
  <2> QED BY <1>6, <2>5, <2>6
<1> QED BY <1>5, <1>6

\* Serving keeps the answers of corrected sessions corrected.
LEMMA ServedStory ==
    ASSUME CorrectedFirst, server \in [Session -> Rows], NEW r, r.phase \in {"sent", "working"},
           r.step \in RequestStep, r.session \in Session, RequestOK(r),
           r.step = "ask_after" => CorrectDone(r.session),
           NEW rows, rows = server[r.session] \/ rows = Half(r).rows,
           server' \in [Session -> Rows], server'[r.session] = rows,
           \A s \in Session \ {r.session} : server'[s] = server[s], minted' = minted
    PROVE  /\ \A s \in Session : CorrectDone(s) => CorrectDone(s)'
           /\ \A s \in Session : server'[s].answer["ask_after"] # 0 =>
                 server'[s].answer["ask_after"] = 2 /\ server'[s].latest = 2 /\ CorrectDone(s)'
           /\ r.step = "latest_receipt" /\ Half(r).ruling = "succeeded" /\ rows = Half(r).rows
              /\ server[r.session].answer["ask_after"] # 0 => rows.latest = 2
<1>1. PICK old : old = server[r.session]
  OBVIOUS
<1>2. old \in Rows /\ "ask_after" \in Ask /\ "ask_before" \in Ask
  BY <1>1 DEF Ask
<1>3. old.answer["ask_after"] # 0 => old.answer["ask_after"] = 2 /\ old.latest = 2 /\ "correct" \in old.done
  BY <1>1 DEF CorrectedFirst, CorrectDone
<1>4. \A s \in Session : server[s].done \subseteq server'[s].done
  BY ServedRows
<1>5. old.done \subseteq rows.done
  BY <1>1, <1>4
<1>6. /\ rows.answer["ask_after"] # 0 =>
            rows.answer["ask_after"] = 2 /\ rows.latest = 2 /\ "correct" \in rows.done
      /\ r.step = "latest_receipt" /\ Half(r).ruling = "succeeded" /\ rows = Half(r).rows
         /\ old.answer["ask_after"] # 0 => rows.latest = 2
  <2>1. CASE rows = old BY <1>3, <2>1
  <2>2. CASE rows = Half(r).rows /\ r.phase = "sent"
    <3>1. rows.done = old.done /\ rows.answer = old.answer /\ rows.latest = old.latest
      BY <1>1, <1>2, <2>2, AdmissionFacts
    <3> QED BY <1>3, <3>1
  <2>3. CASE rows = Half(r).rows /\ r.phase = "working" /\ Half(r).ruling # "succeeded"
    <3>1. rows = old BY <1>1, <2>3 DEF Half
    <3> QED BY <1>3, <3>1
  <2>4. CASE rows = Half(r).rows /\ r.phase = "working" /\ Half(r).ruling = "succeeded"
    <3>1. /\ r.step \in Ask => rows.answer[r.step] = RevisionNow(old) /\ rows.latest = RevisionNow(old)
          /\ r.step \notin Ask => rows.answer = old.answer /\ rows.latest = old.latest
          /\ \A a \in Ask : rows.answer[a] # old.answer[a] => r.step = a
      BY <1>1, <1>2, <2>4, WorkFacts
    <3>2. "correct" \in old.done => RevisionNow(old) = 2
      BY DEF RevisionNow
    <3>3. r.step = "ask_after" => "correct" \in old.done
      BY <1>1 DEF CorrectDone
    <3>4. CASE r.step = "ask_after" BY <1>2, <1>5, <3>1, <3>2, <3>3, <3>4
    <3>5. CASE r.step \in Ask /\ r.step # "ask_after"
      <4>1. rows.answer["ask_after"] = old.answer["ask_after"] /\ r.step # "latest_receipt"
        BY <1>2, <3>1, <3>5 DEF Ask
      <4> QED BY <1>3, <1>5, <3>1, <3>2, <3>5, <4>1
    <3>6. CASE r.step \notin Ask BY <1>3, <1>5, <3>1, <3>6
    <3> QED BY <3>4, <3>5, <3>6
  <2> QED BY <1>1, <2>1, <2>2, <2>3, <2>4
<1>7. \A s \in Session : server'[s].answer["ask_after"] # 0 =>
          server'[s].answer["ask_after"] = 2 /\ server'[s].latest = 2 /\ "correct" \in server'[s].done
  <2> SUFFICES ASSUME NEW s \in Session, server'[s].answer["ask_after"] # 0
               PROVE  server'[s].answer["ask_after"] = 2 /\ server'[s].latest = 2 /\ "correct" \in server'[s].done
    OBVIOUS
  <2>1. CASE s = r.session BY <1>6, <2>1
  <2>2. CASE s # r.session BY <2>2 DEF CorrectedFirst, CorrectDone
  <2> QED BY <2>1, <2>2
<1>8. \A s \in Session : CorrectDone(s) => CorrectDone(s)'
  BY <1>4 DEF CorrectDone
<1>9. \A s \in Session : server'[s].answer["ask_after"] # 0 =>
          server'[s].answer["ask_after"] = 2 /\ server'[s].latest = 2 /\ CorrectDone(s)'
  BY <1>7 DEF CorrectDone
<1>10. r.step = "latest_receipt" /\ Half(r).ruling = "succeeded" /\ rows = Half(r).rows
       /\ server[r.session].answer["ask_after"] # 0 => rows.latest = 2
  BY <1>1, <1>6
<1> QED BY <1>8, <1>9, <1>10

\* What a step must show of the page, given the rest.
LEMMA StoryStep ==
    ASSUME DemoInv', alone \in BOOLEAN, UNCHANGED alone, Quiet', CorrectedFirst',
           NEW h, NEW c, h = tab'[FirstTab].history, c = call'[FirstTab],
           Shows(h, jar'), Continues(c, h, jar')
    PROVE  StoryInv'
BY DEF StoryInv, Story, Shows, Continues

\* Steps that leave the rows alone.
LEMMA RowsRest ==
    ASSUME CorrectedFirst, UNCHANGED server,
           \A q \in orphans' : q \in orphans \/ (q.step = "ask_after" => CorrectDone(q.session))
    PROVE  CorrectedFirst'
BY DEF CorrectedFirst, CorrectDone

LEMMA RowsAfter == DemoInv' => server' \in [Session -> Rows]
BY DEF DemoInv, PageInv, TypeOK, Rows

LEMMA FreshCall ==
    ASSUME NEW c, NEW h, NEW j, Shows(h, j), c.outcome # "succeeded",
           c.phase # "none" /\ c.step # "start" => c.session = j
    PROVE  Continues(c, h, j)
BY DEF Shows, Continues

LEMMA IdleCall == \A h, j : Continues(NoCall, h, j)
BY DEF NoCall, Continues

LEMMA ShowsNothing == \A h, j : h = <<>> => Shows(h, j)
BY DEF Shows

LEMMA ClickStory ==
    ASSUME Story, DemoInv, DemoInv', alone \in BOOLEAN, UNCHANGED alone, Quiet', FirstTab \in Tab,
           NEW step, NEW restart, NEW runner, Click(FirstTab, step, restart, runner)
    PROVE  StoryInv'
<1>1. PICK page, c : page = Cleared(FirstTab, restart) /\ c = Sent(FirstTab, step, restart, runner)
  OBVIOUS
<1>2. tab' = [tab EXCEPT ![FirstTab] = page] /\ call' = [call EXCEPT ![FirstTab] = c]
      /\ UNCHANGED <<orphans, jar, server>>
  BY <1>1 DEF Click, Send
<1>3. tab \in [Tab -> TabType] /\ call \in [Tab -> CallType]
  BY Types DEF DemoInv, PageInv
<1>4. tab'[FirstTab] = page /\ call'[FirstTab] = c
  BY <1>2, <1>3
<1>5. page.history = tab[FirstTab].history \/ page.history = <<>>
  <2>1. tab[FirstTab] \in TabType BY <1>3
  <2> QED BY <1>1, <2>1 DEF Cleared, Blank, TabType
<1>6. Shows(page.history, jar)
  BY <1>5, ShowsNothing DEF Story
<1>7. c.outcome = "denied" /\ c.step = step /\ (step # "start" => c.session = jar)
  BY <1>1 DEF Sent, SessionFor
<1>8. Continues(c, page.history, jar)
  BY <1>6, <1>7, FreshCall
<1>9. CorrectedFirst'
  BY <1>2, RowsRest DEF Story
<1> QED BY <1>2, <1>4, <1>6, <1>8, <1>9, StoryStep

LEMMA SucceedStory ==
    ASSUME Story, DemoInv, DemoInv', alone \in BOOLEAN, UNCHANGED alone, Quiet', FirstTab \in Tab,
           Succeed(FirstTab)
    PROVE  StoryInv'
<1>1. PICK r, page : r = call[FirstTab] /\ page = Advanced(FirstTab, r)
  OBVIOUS
<1>2. /\ page \in TabType /\ Len(page.history) = page.position
      /\ r.step = "proofs" => page = tab[FirstTab]
      /\ r.step # "proofs" => page.history = Append(tab[FirstTab].history, Shown(r))
  BY <1>1, AdvancedFacts
<1>3. /\ tab \in [Tab -> TabType] /\ call \in [Tab -> CallType]
      /\ tab[FirstTab].history \in Seq(Entry) /\ Len(tab[FirstTab].history) = tab[FirstTab].position
      /\ tab[FirstTab].position \in 0..5
  BY Types, TabFacts DEF DemoInv, PageInv, TabType
<1>4. /\ r.phase = "answered" /\ r.outcome = "succeeded" /\ jar' = JarAfter(r)
      /\ UNCHANGED <<orphans, server>> /\ tab' = [tab EXCEPT ![FirstTab] = page]
  BY <1>1 DEF Succeed
<1>5. Fits(r, tab[FirstTab].position) /\ r.session \in Session
  BY <1>1, <1>4, TabFacts DEF Busy, CallOK, Told
<1>6. Continues(r, tab[FirstTab].history, jar) /\ Shows(tab[FirstTab].history, jar)
  BY <1>1 DEF Story
<1>7. Shows(page.history, jar')
  <2>1. CASE r.step = "proofs"
    <3>1. jar' = jar BY <1>4, <2>1 DEF JarAfter, SetsCookie
    <3> QED BY <1>2, <1>6, <2>1, <3>1
  <2>2. CASE r.step # "proofs"
    <3>1. PICK h, e : h = tab[FirstTab].history /\ e = Shown(r)
      OBVIOUS
    <3>2. e.step = r.step /\ e.session = r.session /\ e.revision = r.revision
      BY <3>1 DEF Shown
    <3>3. PICK n : n = Len(h) OBVIOUS
    <3>4. PICK g : g = Append(h, e) OBVIOUS
    <3>5. h \in Seq(Entry) /\ n \in Nat /\ e \in Entry
      <4>1. r \in CallType BY <1>1, <1>3
      <4> QED BY <1>3, <1>5, <3>1, <3>3, <4>1 DEF Entry, Shown, CallType
    <3>6. /\ DOMAIN g = 1..(n + 1) /\ g[n + 1] = e /\ \A i \in 1..n : g[i] = h[i]
          /\ DOMAIN h = 1..n /\ page.history = g
      BY <1>2, <2>2, <3>1, <3>3, <3>4, <3>5
    <3>7. CASE r.step = "start"
      <4>1. tab[FirstTab].position + 1 \in 1..5 /\ Beat[tab[FirstTab].position + 1] = "start"
        BY <1>3, <1>5, <3>7 DEF Fits
      <4>2. n = 0
        <5>1. tab[FirstTab].position + 1 = 1 BY <4>1, BeatFacts
        <5> QED BY <1>3, <3>1, <3>3, <5>1
      <4>3. jar' = r.session BY <1>4, <3>7 DEF JarAfter, SetsCookie
      <4>4. \A i \in DOMAIN g : i = 1 /\ g[i] = e BY <3>6, <4>2
      <4> QED BY <3>2, <3>6, <3>7, <4>3, <4>4 DEF Shows
    <3>8. CASE r.step # "start"
      <4>1. jar' = jar BY <1>4, <3>8 DEF JarAfter, SetsCookie
      <4>2. \A i \in 1..n : h[i].session = r.session
        BY <1>4, <1>5, <1>6, <3>1, <3>6, <3>8 DEF Continues, Session
      <4>3. \A i \in DOMAIN g : g[i].session = r.session
        <5> SUFFICES ASSUME NEW i \in DOMAIN g PROVE g[i].session = r.session
          OBVIOUS
        <5>1. i \in 1..n \/ i = n + 1 BY <3>5, <3>6
        <5> QED BY <3>2, <3>6, <4>2, <5>1
      <4>4. jar \in {0, r.session} BY <1>4, <1>6, <3>8 DEF Continues
      <4>5. \A i \in DOMAIN g : g[i].step = "latest_receipt" => g[i].revision = 2
        <5> SUFFICES ASSUME NEW i \in DOMAIN g, g[i].step = "latest_receipt" PROVE g[i].revision = 2
          OBVIOUS
        <5>1. CASE i \in 1..n BY <1>6, <3>1, <3>6, <5>1 DEF Shows
        <5>2. CASE i = n + 1 BY <1>4, <1>6, <3>2, <3>6, <5>2 DEF Continues
        <5> QED BY <3>5, <3>6, <5>1, <5>2
      <4>6. g[1].session = r.session
        <5>1. 1 \in DOMAIN g BY <3>5, <3>6
        <5> QED BY <4>3, <5>1
      <4> QED BY <3>6, <4>1, <4>3, <4>4, <4>5, <4>6 DEF Shows
    <3> QED BY <3>7, <3>8
  <2> QED BY <2>1, <2>2
<1>8. PICK c : c = call'[FirstTab]
  OBVIOUS
<1>9. c.outcome = "denied" /\ (c.phase # "none" => c.session = jar')
  <2>1. PICK more : more = Following(r.runner, r.step, page.position) OBVIOUS
  <2>2. c = IF more = {} THEN NoCall
                   ELSE [phase |-> IF jar' = 0 THEN "answered" ELSE "sent",
                         step |-> CHOOSE step \in more : TRUE, session |-> jar',
                         restart |-> FALSE, runner |-> r.runner,
                         outcome |-> "denied", revision |-> 0]
    BY <1>1, <1>3, <1>8, <2>1 DEF Succeed
  <2>3. CASE more = {} BY <2>2, <2>3 DEF NoCall
  <2>4. CASE more # {} BY <2>2, <2>4
  <2> QED BY <2>3, <2>4
<1>10. Continues(c, page.history, jar')
  BY <1>7, <1>9, FreshCall
<1>11. CorrectedFirst'
  BY <1>4, RowsRest DEF Story
<1>12. tab'[FirstTab] = page
  BY <1>3, <1>4
<1> QED BY <1>7, <1>8, <1>10, <1>11, <1>12, StoryStep

LEMMA FailStory ==
    ASSUME Story, DemoInv, DemoInv', alone \in BOOLEAN, UNCHANGED alone, Quiet', FirstTab \in Tab,
           Fail(FirstTab)
    PROVE  StoryInv'
<1>1. /\ tab \in [Tab -> TabType] /\ call \in [Tab -> CallType]
  BY Types DEF DemoInv, PageInv
<1>2. PICK page : page = [tab[FirstTab] EXCEPT !.error = FailureOf(call[FirstTab].outcome)]
  OBVIOUS
<1>3. tab[FirstTab] \in TabType
  BY <1>1
<1>4. page.history = tab[FirstTab].history
  BY <1>2, <1>3 DEF TabType
<1>5. /\ tab' = [tab EXCEPT ![FirstTab] = page] /\ call' = [call EXCEPT ![FirstTab] = NoCall]
      /\ UNCHANGED <<orphans, server>> /\ jar' = JarAfter(call[FirstTab])
      /\ call[FirstTab].outcome # "succeeded"
  BY <1>2 DEF Fail
<1>6. jar' = jar
  BY <1>5 DEF JarAfter, SetsCookie
<1>7. tab'[FirstTab].history = tab[FirstTab].history /\ call'[FirstTab] = NoCall
  BY <1>1, <1>4, <1>5
<1>8. Shows(tab[FirstTab].history, jar')
  BY <1>6 DEF Story
<1>9. CorrectedFirst'
  BY <1>5, RowsRest DEF Story
<1> QED BY <1>7, <1>8, <1>9, IdleCall, StoryStep

LEMMA AbandonStory ==
    ASSUME Story, DemoInv, DemoInv', alone \in BOOLEAN, UNCHANGED alone, Quiet', FirstTab \in Tab,
           Abandoned(FirstTab),
           tab'[FirstTab].history = tab[FirstTab].history \/ tab'[FirstTab].history = <<>>
    PROVE  StoryInv'
<1>1. /\ tab \in [Tab -> TabType] /\ call \in [Tab -> CallType]
  BY Types DEF DemoInv, PageInv
<1>2. PICK r : r = call[FirstTab] OBVIOUS
<1>3. PICK w : w = [phase |-> r.phase, step |-> r.step, session |-> r.session] OBVIOUS
<1>4. /\ call' = [call EXCEPT ![FirstTab] = NoCall] /\ UNCHANGED server
      /\ jar' = jar \/ (r.phase = "answered" /\ jar' = JarAfter(r))
      /\ orphans' = orphans \union (IF Awaiting(FirstTab) THEN {w} ELSE {})
      /\ w.step = r.step /\ w.session = r.session
  BY <1>2, <1>3 DEF Abandoned, Awaiting
<1>5. call'[FirstTab] = NoCall
  BY <1>1, <1>4
<1>6. CorrectedFirst'
  <2>1. Awaiting(FirstTab) /\ w.step = "ask_after" => CorrectDone(w.session)
    BY <1>2, <1>4, AskedInOrder DEF Story
  <2> QED BY <1>4, <2>1, RowsRest DEF Story
<1>7. Shows(tab'[FirstTab].history, jar')
  <2>1. CASE tab'[FirstTab].history = <<>>
    BY <2>1, ShowsNothing
  <2>2. CASE tab'[FirstTab].history = tab[FirstTab].history /\ jar' = jar
    BY <2>2 DEF Story
  <2>3. CASE tab'[FirstTab].history = tab[FirstTab].history /\ jar' # jar
    <3>1. r.phase = "answered" /\ r.step = "start" BY <1>4, <2>3 DEF JarAfter, SetsCookie
    <3>2. /\ Fits(r, tab[FirstTab].position) /\ tab[FirstTab].position \in 0..5
          /\ tab[FirstTab].history \in Seq(Entry) /\ Len(tab[FirstTab].history) = tab[FirstTab].position
      BY <1>2, <3>1, TabFacts DEF Busy, CallOK, TabType
    <3>3. tab[FirstTab].position + 1 \in 1..5 /\ Beat[tab[FirstTab].position + 1] = "start"
      BY <3>1, <3>2 DEF Fits
    <3>4. tab[FirstTab].position + 1 = 1
      BY <3>3, BeatFacts
    <3>5. tab[FirstTab].history = <<>>
      BY <3>2, <3>4
    <3> QED BY <2>3, <3>5, ShowsNothing
  <2> QED BY <2>1, <2>2, <2>3
<1> QED BY <1>5, <1>6, <1>7, IdleCall, StoryStep

LEMMA ServeStory ==
    ASSUME Story, DemoInv, DemoInv', alone \in BOOLEAN, UNCHANGED alone, Quiet', FirstTab \in Tab,
           Serve(FirstTab)
    PROVE  StoryInv'
<1>1. PICK r : r = call[FirstTab] OBVIOUS
<1>2. /\ tab \in [Tab -> TabType] /\ call \in [Tab -> CallType] /\ server \in [Session -> Rows]
      /\ minted \in 0..MaxSession
  BY Types DEF DemoInv, PageInv
<1>3. r.phase \in {"sent", "working"} /\ UNCHANGED <<tab, orphans, jar, minted>>
  BY <1>1 DEF Serve
<1>4. /\ r \in CallType /\ RequestOK(r) /\ r.session \in Session /\ r.step \in RequestStep
  <2>1. r \in CallType /\ RequestOK(r) BY <1>1, <1>2, <1>3 DEF DemoInv, RequestsInv, Awaiting
  <2>2. r.session \in 1..minted BY <2>1 DEF RequestOK
  <2> QED BY <1>2, <2>1, <2>2 DEF Session, CallType
<1>5. /\ r.step = "ask_after" => CorrectDone(r.session)
      /\ r.step = "latest_receipt" => server[r.session].answer["ask_after"] # 0
  BY <1>1, <1>3, AskedInOrder DEF Story, Awaiting
<1>6. Continues(r, tab[FirstTab].history, jar) /\ Shows(tab[FirstTab].history, jar) /\ CorrectedFirst
  BY <1>1 DEF Story
<1>7. ASSUME NEW rows, rows = server[r.session] \/ rows = Half(r).rows,
             server' = [server EXCEPT ![r.session] = rows],
             NEW c, call' = [call EXCEPT ![FirstTab] = c], c.step = r.step, c.session = r.session,
             c.outcome = "succeeded" /\ c.phase = "answered" =>
                Half(r).ruling = "succeeded" /\ rows = Half(r).rows /\ c.revision = RevisionOf(r, rows)
      PROVE  StoryInv'
  <2>1. call'[FirstTab] = c BY <1>2, <1>7
  <2>2. server' \in [Session -> Rows] BY RowsAfter
  <2>3. server'[r.session] = rows /\ \A s \in Session \ {r.session} : server'[s] = server[s]
    BY <1>2, <1>4, <1>7
  <2>4. /\ \A s \in Session : CorrectDone(s) => CorrectDone(s)'
        /\ \A s \in Session : server'[s].answer["ask_after"] # 0 =>
              server'[s].answer["ask_after"] = 2 /\ server'[s].latest = 2 /\ CorrectDone(s)'
        /\ r.step = "latest_receipt" /\ Half(r).ruling = "succeeded" /\ rows = Half(r).rows
           /\ server[r.session].answer["ask_after"] # 0 => rows.latest = 2
    BY <1>2, <1>3, <1>4, <1>5, <1>6, <1>7, <2>2, <2>3, ServedStory
  <2>5. CorrectedFirst'
    <3>1. \A q \in orphans' : q.step = "ask_after" => CorrectDone(q.session)'
      <4> SUFFICES ASSUME NEW q \in orphans, q.step = "ask_after" PROVE CorrectDone(q.session)'
        BY <1>3
      <4>1. CorrectDone(q.session) BY <1>6 DEF CorrectedFirst
      <4>2. orphans \subseteq Orphan BY Types DEF DemoInv, PageInv
      <4>3. q.session \in Session BY <4>2 DEF Orphan
      <4> QED BY <2>4, <4>1, <4>3 DEF CorrectDone
    <3> QED BY <2>4, <3>1 DEF CorrectedFirst, CorrectDone
  <2>6. c.phase = "answered" /\ c.outcome = "succeeded" /\ c.step = "latest_receipt" => c.revision = 2
    <3> SUFFICES ASSUME c.phase = "answered", c.outcome = "succeeded", c.step = "latest_receipt"
                 PROVE  c.revision = 2
      OBVIOUS
    <3>1. c.revision = rows.latest BY <1>7 DEF RevisionOf, Ask
    <3> QED BY <1>5, <1>7, <2>4, <3>1
  <2>7. Continues(c, tab[FirstTab].history, jar)
    BY <1>3, <1>6, <1>7, <2>6 DEF Continues
  <2>8. tab'[FirstTab].history = tab[FirstTab].history /\ jar' = jar BY <1>3
  <2> QED BY <1>6, <2>1, <2>5, <2>7, <2>8, StoryStep
<1>8. CASE /\ server' = [server EXCEPT ![r.session] = Half(r).rows]
           /\ call' = [call EXCEPT ![FirstTab] =
                   IF Half(r).ruling = "work" THEN [r EXCEPT !.phase = "working"]
                   ELSE [r EXCEPT !.phase = "answered", !.outcome = Half(r).ruling,
                                  !.revision = IF Half(r).ruling = "succeeded"
                                                 THEN RevisionOf(r, Half(r).rows) ELSE 0]]
  <2>1. PICK o, k, rows : /\ o = Half(r).ruling /\ rows = Half(r).rows
                          /\ k = IF Half(r).ruling = "succeeded" THEN RevisionOf(r, Half(r).rows) ELSE 0
    OBVIOUS
  <2>2. PICK c : c = IF o = "work" THEN [r EXCEPT !.phase = "working"]
                   ELSE [r EXCEPT !.phase = "answered", !.outcome = o, !.revision = k]
    OBVIOUS
  <2>3. c.step = r.step /\ c.session = r.session
        /\ (c.outcome = "succeeded" /\ c.phase = "answered" => o = "succeeded" /\ c.revision = k)
    <3>1. CASE o = "work" BY <1>4, <2>2, <3>1 DEF CallType
    <3>2. CASE o # "work" BY <1>4, <2>2, <3>2 DEF CallType
    <3> QED BY <3>1, <3>2
  <2>4. call' = [call EXCEPT ![FirstTab] = c] /\ server' = [server EXCEPT ![r.session] = rows]
    BY <1>8, <2>1, <2>2
  <2> QED BY <1>7, <2>1, <2>3, <2>4
<1>9. CASE /\ \E rows \in {server[r.session], Half(r).rows} :
                  server' = [server EXCEPT ![r.session] = rows]
           /\ \E outcome \in FaultOutcome :
                  call' = [call EXCEPT ![FirstTab] = [r EXCEPT !.phase = "answered", !.outcome = outcome]]
  <2>1. PICK rows \in {server[r.session], Half(r).rows} : server' = [server EXCEPT ![r.session] = rows]
    BY <1>9
  <2>2. PICK outcome \in FaultOutcome :
                  call' = [call EXCEPT ![FirstTab] = [r EXCEPT !.phase = "answered", !.outcome = outcome]]
    BY <1>9
  <2>3. PICK c : c = [r EXCEPT !.phase = "answered", !.outcome = outcome]
    OBVIOUS
  <2>4. c.step = r.step /\ c.session = r.session /\ c.outcome # "succeeded"
    BY <1>4, <2>3 DEF CallType, FaultOutcome
  <2> QED BY <1>7, <2>1, <2>2, <2>3, <2>4
<1> QED BY <1>1, <1>8, <1>9 DEF Serve

LEMMA OrphanStory ==
    ASSUME Story, DemoInv, DemoInv', alone \in BOOLEAN, UNCHANGED alone, Quiet', FirstTab \in Tab,
           NEW r \in orphans, ServeOrphan(r)
    PROVE  StoryInv'
<1>1. /\ orphans \subseteq Orphan /\ server \in [Session -> Rows] /\ server' \in [Session -> Rows]
  BY Types, RowsAfter DEF DemoInv, PageInv
<1>2. UNCHANGED <<tab, call, jar, minted>>
  BY DEF ServeOrphan
<1>3. r.phase \in {"sent", "working"} /\ r.step \in RequestStep /\ r.session \in Session
      /\ RequestOK(r) /\ (r.step = "ask_after" => CorrectDone(r.session)) /\ CorrectedFirst
  BY <1>1 DEF Orphan, DemoInv, RequestsInv, Story, CorrectedFirst
<1>4. PICK rows : (rows = server[r.session] \/ rows = Half(r).rows)
                  /\ server' = [server EXCEPT ![r.session] = rows]
  <2>1. CASE server' = [server EXCEPT ![r.session] = Half(r).rows]
    BY <2>1
  <2>2. CASE UNCHANGED server
    <3>1. server' = [server EXCEPT ![r.session] = server[r.session]] BY <1>1, <2>2
    <3> QED BY <3>1
  <2> QED BY <2>1, <2>2 DEF ServeOrphan
<1>5. server'[r.session] = rows /\ \A s \in Session \ {r.session} : server'[s] = server[s]
  BY <1>1, <1>3, <1>4
<1>6. /\ \A s \in Session : CorrectDone(s) => CorrectDone(s)'
      /\ \A s \in Session : server'[s].answer["ask_after"] # 0 =>
            server'[s].answer["ask_after"] = 2 /\ server'[s].latest = 2 /\ CorrectDone(s)'
  BY <1>1, <1>2, <1>3, <1>4, <1>5, ServedStory
<1>7. \A q \in orphans' : \E p \in orphans : q.step = p.step /\ q.session = p.session
  <2>1. PICK w : w = [r EXCEPT !.phase = "working"] OBVIOUS
  <2>2. w.step = r.step /\ w.session = r.session BY <1>1, <2>1 DEF Orphan
  <2>3. orphans' \subseteq orphans \union {w} BY <2>1 DEF ServeOrphan
  <2> QED BY <2>2, <2>3
<1>8. CorrectedFirst'
  <2>1. \A q \in orphans' : q.step = "ask_after" => CorrectDone(q.session)'
    <3> SUFFICES ASSUME NEW q \in orphans', q.step = "ask_after" PROVE CorrectDone(q.session)'
      OBVIOUS
    <3>1. CorrectDone(q.session) /\ q.session \in Session
      BY <1>1, <1>3, <1>7 DEF CorrectedFirst, Orphan
    <3> QED BY <1>6, <3>1
  <2> QED BY <1>6, <2>1 DEF CorrectedFirst, CorrectDone
<1> QED BY <1>2, <1>8, StoryStep DEF Story

LEMMA OutsideStory ==
    ASSUME Story, DemoInv', alone \in BOOLEAN, UNCHANGED alone, Quiet',
           tab'[FirstTab] = tab[FirstTab], call'[FirstTab] = call[FirstTab], UNCHANGED orphans,
           jar' \in {0, jar},
           \A s \in Session : /\ server'[s].done = server[s].done /\ server'[s].answer = server[s].answer
                              /\ server'[s].latest = server[s].latest,
           \A r \in orphans : r.session \in Session
    PROVE  StoryInv'
<1>1. CorrectedFirst'
  BY DEF Story, CorrectedFirst, CorrectDone
<1>2. Shows(tab[FirstTab].history, jar') /\ Continues(call[FirstTab], tab[FirstTab].history, jar')
  BY DEF Story, Shows, Continues
<1> QED BY <1>1, <1>2, StoryStep

\* A further tab of a visitor who is alone stays as it is; it may only be reloaded.
LEMMA OtherTabStep ==
    ASSUME Story, DemoInv, Quiet', NEW t \in Tab, t # FirstTab, FirstTab \in Tab,
           Page(t) \/ Serve(t) \/ Answer(t) \/ LoseReply(t) \/ Reload(t)
    PROVE  /\ tab'[FirstTab] = tab[FirstTab] /\ call'[FirstTab] = call[FirstTab]
           /\ UNCHANGED <<orphans, server>> /\ jar' = jar
<1>1. /\ tab \in [Tab -> TabType] /\ call \in [Tab -> CallType]
  BY Types DEF DemoInv, PageInv
<1>2. ~Busy(t) /\ call[t].phase = "none" /\ call'[t].phase = "none"
  BY DEF Story, Quiet, Busy
<1>3. ASSUME NEW step, NEW restart, NEW runner, Click(t, step, restart, runner) PROVE FALSE
  <2>1. PICK c : c = Sent(t, step, restart, runner) OBVIOUS
  <2>2. call' = [call EXCEPT ![t] = c] BY <1>3, <2>1 DEF Click, Send
  <2>3. c.phase # "none" BY <2>1 DEF Sent
  <2> QED BY <1>1, <1>2, <2>2, <2>3
<1>4. ~Page(t)
  <2>1. ~Primary(t) BY <1>3 DEF Primary
  <2>2. ~Remaining(t) BY <1>3 DEF Remaining
  <2>3. ~Restart(t) BY <1>3 DEF Restart
  <2>4. ~Proofs(t) BY <1>3 DEF Proofs
  <2> QED BY <2>1, <2>2, <2>3, <2>4 DEF Page
<1>5. ~Serve(t) /\ ~Answer(t) /\ ~LoseReply(t)
  BY <1>2 DEF Serve, Answer, Succeed, Fail, LoseReply
<1>6. Reload(t)
  BY <1>4, <1>5
<1>7. tab' = [tab EXCEPT ![t] = Blank] /\ call' = [call EXCEPT ![t] = NoCall]
      /\ jar' = jar /\ orphans' = orphans /\ server' = server
  BY <1>2, <1>6 DEF Reload, Abandoned
<1> QED BY <1>1, <1>7

LEMMA StoryNextInv == ASSUME Tab # {}, StoryInv, [MCNext]_<<vars, alone>> PROVE StoryInv'
<1>1. DemoInv' /\ UNCHANGED alone /\ alone \in BOOLEAN /\ DemoInv /\ (alone => Story)
  BY DemoNextInv DEF StoryInv, MCNext, vars
<1>2. CASE ~alone
  BY <1>1, <1>2 DEF StoryInv
<1>3. CASE alone
  <2>1. FirstTab \in Tab /\ Story /\ alone' BY <1>1, <1>3, FirstTabIsATab
  <2>2. \A r \in orphans : r.session \in Session
    <3>1. orphans \subseteq Orphan BY <1>1, Types DEF DemoInv, PageInv
    <3> QED BY <3>1 DEF Orphan
  <2>3. Quiet'
    <3>1. CASE UNCHANGED vars BY <2>1, <3>1 DEF Story, Quiet, Busy, vars
    <3>2. CASE InFocus' BY <2>1, <3>2 DEF InFocus, Quiet
    <3> QED BY <3>1, <3>2 DEF MCNext, vars
  <2>4. CASE UNCHANGED vars
    BY <1>1, <2>1, <2>2, <2>3, <2>4, OutsideStory DEF vars
  <2>5. ASSUME NEW t \in Tab, Page(t) \/ Serve(t) \/ Answer(t) \/ LoseReply(t) \/ Reload(t)
        PROVE  StoryInv'
    <3>1. CASE t # FirstTab
      <4>1. /\ tab'[FirstTab] = tab[FirstTab] /\ call'[FirstTab] = call[FirstTab]
            /\ UNCHANGED <<orphans, server>> /\ jar' = jar
        BY <1>1, <2>1, <2>3, <2>5, <3>1, OtherTabStep
      <4> QED BY <1>1, <2>1, <2>2, <2>3, <4>1, OutsideStory
    <3>2. CASE t = FirstTab
      <4>1. ASSUME NEW step, NEW restart, NEW runner, Click(FirstTab, step, restart, runner)
            PROVE  StoryInv'
        BY <1>1, <2>1, <2>3, <4>1, ClickStory
      <4>2. CASE Page(t)
        <5>1. CASE Primary(t) BY <3>2, <4>1, <5>1 DEF Primary
        <5>2. CASE Remaining(t) BY <3>2, <4>1, <5>2 DEF Remaining
        <5>3. CASE Restart(t) BY <3>2, <4>1, <5>3 DEF Restart
        <5>4. CASE Proofs(t) BY <3>2, <4>1, <5>4 DEF Proofs
        <5> QED BY <4>2, <5>1, <5>2, <5>3, <5>4 DEF Page
      <4>3. CASE Serve(t) BY <1>1, <2>1, <2>3, <3>2, <4>3, ServeStory
      <4>4. CASE Answer(t)
        BY <1>1, <2>1, <2>3, <3>2, <4>4, SucceedStory, FailStory DEF Answer
      <4>5. CASE LoseReply(t) \/ Reload(t)
        <5>1. tab \in [Tab -> TabType] BY <1>1, Types DEF DemoInv, PageInv
        <5>2. Abandoned(FirstTab) BY <3>2, <4>5 DEF LoseReply, Reload
        <5>3. CASE LoseReply(t)
          <6>1. tab'[FirstTab] = [tab[FirstTab] EXCEPT !.error = "network"]
            BY <2>1, <3>2, <5>1, <5>3 DEF LoseReply
          <6>2. tab'[FirstTab].history = tab[FirstTab].history BY <2>1, <5>1, <6>1 DEF TabType
          <6> QED BY <1>1, <2>1, <2>3, <5>2, <6>2, AbandonStory
        <5>4. CASE Reload(t)
          <6>1. tab'[FirstTab].history = <<>> BY <2>1, <3>2, <5>1, <5>4 DEF Reload, Blank
          <6> QED BY <1>1, <2>1, <2>3, <5>2, <6>1, AbandonStory
        <5> QED BY <4>5, <5>3, <5>4
      <4> QED BY <2>5, <4>2, <4>3, <4>4, <4>5
    <3> QED BY <3>1, <3>2
  <2>6. ASSUME NEW r \in orphans, ServeOrphan(r) PROVE StoryInv'
    BY <1>1, <2>1, <2>3, <2>6, OrphanStory
  <2>7. CASE Pause \/ Resume \/ DropCookie
    <3>1. UNCHANGED <<tab, call, orphans, server>> /\ jar' \in {0, jar}
      BY <2>7 DEF Pause, Resume, DropCookie
    <3> QED BY <1>1, <2>1, <2>2, <2>3, <3>1, OutsideStory
  <2>8. ASSUME NEW s \in Session, Expire(s) PROVE StoryInv'
    <3>1. server \in [Session -> Rows] BY <1>1, Types DEF DemoInv, PageInv
    <3>2. PICK rows : rows = [server[s] EXCEPT !.token = "expired"] OBVIOUS
    <3>3. server[s] \in Rows BY <3>1
    <3>4. rows.done = server[s].done /\ rows.answer = server[s].answer /\ rows.latest = server[s].latest
      BY <3>2, <3>3 DEF Rows
    <3>5. server' = [server EXCEPT ![s] = rows]
      <4>1. server' = [server EXCEPT ![s].token = "expired"] BY <2>8 DEF Expire
      <4> QED BY <3>2, <4>1
    <3>6. UNCHANGED <<tab, call, orphans, jar>> BY <2>8 DEF Expire
    <3> QED BY <1>1, <2>1, <2>2, <2>3, <3>1, <3>4, <3>5, <3>6, OutsideStory
  <2> QED BY <2>4, <2>5, <2>6, <2>7, <2>8 DEF MCNext, Next
<1> QED BY <1>1, <1>2, <1>3

\* A visitor with one tab never sees two sessions mixed: all that is shown comes from one session,
\* no other is named by the cookie, and what follows the correction speaks of it, whatever is lost,
\* killed, retried, restarted or reloaded (run, runFrom and runProofs of main.tsx).
THEOREM OneStory == ASSUME Tab # {} PROVE MCSpec => []OneStoryShown
<1>1. ASSUME StoryInv PROVE OneStoryShown
  <2> SUFFICES ASSUME alone, NEW h, h = tab[FirstTab].history, NEW i \in DOMAIN h, NEW e, e = h[i]
               PROVE  /\ jar \in {0, e.session}
                      /\ e.step \in {"ask_after", "latest_receipt"} => e.revision = 2
    BY DEF OneStoryShown
  <2>1. Story /\ DemoInv /\ FirstTab \in Tab BY <1>1, FirstTabIsATab DEF StoryInv
  <2>2. jar \in {0, e.session} /\ (e.step = "latest_receipt" => e.revision = 2)
    BY <2>1 DEF Story, Shows
  <2>3. EntryIsDurable(e) BY <2>1 DEF DemoInv, PageInv, ShownIsDurable
  <2>4. e \in Entry
    <3>1. h \in Seq(Entry) BY <2>1, TabFacts
    <3> QED BY <3>1
  <2>5. e.session \in Session BY <2>4 DEF Entry
  <2>6. e.step = "ask_after" => e.revision = 2
    BY <2>1, <2>3, <2>5 DEF EntryIsDurable, Ask, Story, CorrectedFirst
  <2> QED BY <2>2, <2>6
<1> QED BY StoryInitInv, StoryNextInv, <1>1, PTL DEF MCSpec

---------------------------------------------------------------------------
(* The rows of a session keep the promises of AnswerLedger.                *)

RowMemory(rows) ==
    IF "correct" \in rows.done THEN {2} ELSE IF "start" \in rows.done THEN {1} ELSE {}

RowRecord(rows) ==
    [a \in Ask |-> IF rows.answer[a] = 0 THEN {} ELSE {[recalled |-> {rows.answer[a]}, withheld |-> {}]}]

\* An answer that is stored may be shown to anybody who asks (the replay of a question).
Promise == INSTANCE AnswerLedger WITH
    Question <- Ask,
    Seed <- {1},
    Old <- 1,
    New <- 2,
    Withheld <- {},
    memory <- [s \in Session |-> RowMemory(server[s])],
    recorded <- [s \in Session |-> RowRecord(server[s])],
    seen <- [s \in Session |-> RowRecord(server[s])]

Seeded(s) == "start" \in server[s].done

Needs(r) == r.step \notin {"start", "proofs"}

Requests == {call[t] : t \in {u \in Tab : Awaiting(u)}} \union orphans

\* Nobody asks of a session, or corrects it, before its facts are stored.
SeededFirst ==
    /\ \A r \in Requests : Needs(r) => Seeded(r.session)
    /\ \A s \in Session : CorrectDone(s) => Seeded(s)

LedgerInv == DemoInv /\ SeededFirst

\* A half of a request writes what the ledger allows: its step's mark, or the one answer.
LEMMA HalfWrites ==
    ASSUME server \in [Session -> Rows], NEW r, r.phase \in {"sent", "working"},
           r.step \in RequestStep, r.session \in Session, RequestOK(r),
           NEW old, old = server[r.session], NEW rows, rows = old \/ rows = Half(r).rows
    PROVE  /\ rows \in Rows
           /\ \/ rows.done = old.done /\ rows.answer = old.answer
              \/ /\ r.step \in {"start", "correct"}
                 /\ rows.done = old.done \union {r.step} /\ rows.answer = old.answer
              \/ /\ r.step \in Ask /\ old.answer[r.step] = 0 /\ rows.done = old.done
                 /\ rows.answer = [old.answer EXCEPT ![r.step] = RevisionNow(old)]
<1>1. old \in Rows
  OBVIOUS
<1>2. CASE rows = old
  BY <1>1, <1>2
<1>3. CASE rows = Half(r).rows /\ r.phase = "sent"
  BY <1>1, <1>3, AdmissionFacts
<1>4. CASE rows = Half(r).rows /\ r.phase = "working"
  <2>1. rows = (IF Worked(r) = "succeeded" THEN WorkedRows(r) ELSE old)
    BY <1>4 DEF Half
  <2>2. rows \in Rows
    BY <1>1, <1>4, WorkFacts
  <2>3. CASE r.step \in {"start", "correct"}
    <3>1. WorkedRows(r) = [old EXCEPT !.done = @ \union {r.step}]
      BY <2>3 DEF WorkedRows, Ask
    <3> QED BY <1>1, <2>1, <2>2, <2>3, <3>1 DEF Rows
  <2>4. CASE r.step \in Ask
    <3>1. r.step \notin {"start", "correct"} BY <2>4 DEF Ask
    <3>2. WorkedRows(r) =
            [old EXCEPT !.answer[r.step] = RevisionNow(old), !.latest = RevisionNow(old)]
      BY <2>4, <3>1 DEF WorkedRows
    <3>3. old.answer[r.step] = 0 BY <1>4, <2>4 DEF RequestOK
    <3>4. WorkedRows(r).done = old.done
          /\ WorkedRows(r).answer = [old.answer EXCEPT ![r.step] = RevisionNow(old)]
      BY ONLY <1>1, <3>2 DEF Rows
    <3> QED BY <2>1, <2>2, <2>4, <3>3, <3>4
  <2>5. CASE r.step \notin Ask /\ r.step \notin {"start", "correct"}
    <3>1. WorkedRows(r) = old BY <2>5 DEF WorkedRows
    <3> QED BY <2>1, <2>2, <3>1
  <2> QED BY <2>3, <2>4, <2>5
<1> QED BY <1>2, <1>3, <1>4

LEMMA MarkedMemory ==
    ASSUME NEW old \in Rows, NEW rows \in Rows, NEW step \in {"start", "correct"},
           "correct" \in old.done \/ step = "correct" => "start" \in old.done,
           rows.done = old.done \union {step}
    PROVE  \/ RowMemory(rows) = RowMemory(old)
           \/ step = "start" /\ RowMemory(old) = {} /\ RowMemory(rows) = {1}
           \/ step = "correct" /\ RowMemory(old) = {1} /\ RowMemory(rows) = {2}
BY DEF RowMemory, Rows

LEMMA RowsKeptStutter ==
    ASSUME server \in [Session -> Rows],
           \A s \in Session : server'[s].done = server[s].done /\ server'[s].answer = server[s].answer
    PROVE  UNCHANGED Promise!ledger
BY DEF Promise!ledger, RowMemory, RowRecord

LEMMA ServedPromise ==
    ASSUME server \in [Session -> Rows], NEW r, r.phase \in {"sent", "working"},
           r.step \in RequestStep, r.session \in Session, RequestOK(r),
           NEW rows, rows = server[r.session] \/ rows = Half(r).rows,
           server'[r.session] = rows, \A s \in Session \ {r.session} : server'[s] = server[s],
           Needs(r) \/ CorrectDone(r.session) => Seeded(r.session)
    PROVE  [Promise!Next]_(Promise!ledger)
<1> DEFINE s == r.session
           memory == [x \in Session |-> RowMemory(server[x])]
           recorded == [x \in Session |-> RowRecord(server[x])]
<1>1. PICK old : old = server[s]
  OBVIOUS
<1>2. old \in Rows /\ server'[s] = rows /\ \A x \in Session \ {s} : server'[x] = server[x]
  BY <1>1
<1>3. ("correct" \in old.done => "start" \in old.done) /\ (Needs(r) => "start" \in old.done)
  BY <1>1 DEF CorrectDone, Seeded
<1>4. /\ memory' = [memory EXCEPT ![s] = RowMemory(rows)]
      /\ recorded' = [recorded EXCEPT ![s] = RowRecord(rows)]
      /\ memory[s] = RowMemory(old) /\ recorded[s] = RowRecord(old)
  BY <1>1, <1>2
<1>5. CASE rows.done = old.done /\ rows.answer = old.answer
  <2>1. \A x \in Session : server'[x].done = server[x].done /\ server'[x].answer = server[x].answer
    BY <1>1, <1>2, <1>5
  <2> QED BY <2>1, RowsKeptStutter
<1>6. CASE /\ r.step \in {"start", "correct"}
           /\ rows.done = old.done \union {r.step} /\ rows.answer = old.answer /\ rows \in Rows
  <2>1. recorded' = recorded
    <3>1. RowRecord(rows) = RowRecord(old) BY <1>6 DEF RowRecord
    <3> QED BY <1>4, <3>1
  <2>2. r.step = "correct" => "start" \in old.done
    BY <1>3 DEF Needs
  <2>3. \/ RowMemory(rows) = RowMemory(old)
        \/ r.step = "start" /\ RowMemory(old) = {} /\ RowMemory(rows) = {1}
        \/ r.step = "correct" /\ RowMemory(old) = {1} /\ RowMemory(rows) = {2}
    BY <1>2, <1>3, <1>6, <2>2, MarkedMemory
  <2>4. CASE RowMemory(rows) = RowMemory(old)
    <3>1. memory' = memory BY <1>4, <2>4
    <3> QED BY <2>1, <3>1 DEF Promise!ledger
  <2>5. CASE RowMemory(old) = {} /\ RowMemory(rows) = {1}
    BY <1>4, <2>1, <2>5 DEF Promise!Next, Promise!SeedMemory
  <2>6. CASE RowMemory(old) = {1} /\ RowMemory(rows) = {2}
    <3>1. ({1} \ {1}) \union {2} = {2} OBVIOUS
    <3>2. Promise!Supersede(s) BY <1>4, <2>1, <2>6, <3>1 DEF Promise!Supersede
    <3> QED BY <3>2 DEF Promise!Next
  <2> QED BY <2>3, <2>4, <2>5, <2>6
<1>7. CASE /\ r.step \in Ask /\ old.answer[r.step] = 0 /\ rows.done = old.done
           /\ rows.answer = [old.answer EXCEPT ![r.step] = RevisionNow(old)]
  <2>1. PICK q : q = r.step OBVIOUS
  <2>2. Needs(r) /\ "start" \in old.done
    BY <1>3, <1>7 DEF Needs, Ask
  <2>3. RowMemory(old) = {RevisionNow(old)} /\ RowMemory(rows) = RowMemory(old)
    BY <1>7, <2>2 DEF RowMemory, RevisionNow
  <2>4. memory' = memory BY <1>4, <2>3
  <2>5. PICK record : record = {[recalled |-> RowMemory(old) \ {}, withheld |-> RowMemory(old) \intersect {}]}
    OBVIOUS
  <2>6. record = {[recalled |-> {RevisionNow(old)}, withheld |-> {}]}
    <3>1. RowMemory(old) \ {} = {RevisionNow(old)} /\ RowMemory(old) \intersect {} = {} BY <2>3
    <3> QED BY <2>5, <3>1
  <2>7. RowRecord(rows) = [RowRecord(old) EXCEPT ![q] = record]
    <3>1. \A a \in Ask : rows.answer[a] = IF a = q THEN RevisionNow(old) ELSE old.answer[a]
      BY <1>2, <1>7, <2>1 DEF Rows
    <3>2. RevisionNow(old) # 0 BY DEF RevisionNow
    <3> QED BY <2>6, <3>1, <3>2 DEF RowRecord
  <2>8. RowRecord(old)[q] = {} /\ q \in Ask
    BY <1>7, <2>1 DEF RowRecord
  <2>9. recorded' = [recorded EXCEPT ![s][q] = record] /\ recorded'[s][q] = record
    BY <1>4, <2>7, <2>8 DEF RowRecord
  <2>10. Promise!Record(s, q)
    BY <1>4, <2>3, <2>4, <2>5, <2>8, <2>9 DEF Promise!Record
  <2> QED BY <2>8, <2>10 DEF Promise!Next
<1>8. rows \in Rows
      /\ \/ rows.done = old.done /\ rows.answer = old.answer
         \/ /\ r.step \in {"start", "correct"}
            /\ rows.done = old.done \union {r.step} /\ rows.answer = old.answer
         \/ /\ r.step \in Ask /\ old.answer[r.step] = 0 /\ rows.done = old.done
            /\ rows.answer = [old.answer EXCEPT ![r.step] = RevisionNow(old)]
  BY <1>1, HalfWrites
<1> QED BY <1>5, <1>6, <1>7, <1>8

\* The requests of a step are requests of before it, or of a session whose facts are stored.
LEMMA SeededStep ==
    ASSUME LedgerInv,
           \A s \in Session : server[s].done \subseteq server'[s].done,
           \A s \in Session : CorrectDone(s)' => CorrectDone(s) \/ Seeded(s),
           \A q \in Requests' : Needs(q) =>
              q.session \in Session
              /\ (Seeded(q.session) \/ \E p \in Requests : p.step = q.step /\ p.session = q.session)
    PROVE  SeededFirst'
<1>1. ASSUME NEW q \in Requests', Needs(q) PROVE Seeded(q.session)'
  <2>1. q.session \in Session
        /\ (Seeded(q.session) \/ \E p \in Requests : p.step = q.step /\ p.session = q.session)
    BY <1>1
  <2>2. Seeded(q.session)
    BY <1>1, <2>1 DEF LedgerInv, SeededFirst, Needs
  <2> QED BY <2>1, <2>2 DEF Seeded
<1>2. ASSUME NEW s \in Session, CorrectDone(s)' PROVE Seeded(s)'
  <2>1. Seeded(s) BY <1>2 DEF LedgerInv, SeededFirst
  <2> QED BY <2>1 DEF Seeded
<1> QED BY <1>1, <1>2 DEF SeededFirst

LEMMA RequestSession ==
    ASSUME DemoInv, NEW r \in Requests
    PROVE  r.session \in Session /\ RequestOK(r) /\ r.phase \in {"sent", "working"}
           /\ r.step \in RequestStep
<1>1. call \in [Tab -> CallType] /\ orphans \subseteq Orphan /\ minted \in 0..MaxSession
  BY Types DEF DemoInv, PageInv
<1>2. RequestOK(r)
  BY DEF Requests, DemoInv, RequestsInv
<1>3. r.session \in Session
  BY <1>1, <1>2 DEF RequestOK, Session
<1> QED BY <1>1, <1>2, <1>3 DEF Requests, Awaiting, CallType, Orphan

\* A tab's request changes, no row does.
LEMMA PageSeeded ==
    ASSUME LedgerInv, NEW t \in Tab, NEW c, call' = [call EXCEPT ![t] = c],
           UNCHANGED server, UNCHANGED orphans,
           c.phase \in {"sent", "working"} /\ Needs(c) => c.session \in Session /\ Seeded(c.session)
    PROVE  SeededFirst'
<1>1. call \in [Tab -> CallType]
  BY Types DEF LedgerInv, DemoInv, PageInv
<1>2. \A q \in Requests' : q \in Requests \/ (q = c /\ c.phase \in {"sent", "working"})
  BY <1>1 DEF Requests, Awaiting
<1>3. \A q \in Requests : q.session \in Session
  BY RequestSession DEF LedgerInv
<1>4. \A q \in Requests' : Needs(q) =>
         q.session \in Session
         /\ (Seeded(q.session) \/ \E p \in Requests : p.step = q.step /\ p.session = q.session)
  BY <1>2, <1>3
<1> QED BY <1>4, SeededStep DEF CorrectDone

LEMMA ClickSeeded ==
    ASSUME LedgerInv, NEW t \in Tab, NEW step, NEW restart, NEW runner,
           Click(t, step, restart, runner)
    PROVE  SeededFirst'
<1>1. PICK c : c = Sent(t, step, restart, runner)
  OBVIOUS
<1>2. call' = [call EXCEPT ![t] = c] /\ UNCHANGED server /\ UNCHANGED orphans
  BY <1>1 DEF Click, Send
<1>3. ASSUME c.phase \in {"sent", "working"}, Needs(c) PROVE c.session \in Session /\ Seeded(c.session)
  <2>1. c.session # 0 /\ c.session = SessionFor(step) /\ c.step = step
    BY <1>1, <1>3 DEF Sent
  <2>2. c.session = jar
    BY <1>3, <2>1 DEF SessionFor, Needs
  <2>3. jar \in 0..MaxSession
    BY Types DEF LedgerInv, DemoInv, PageInv
  <2> QED BY <2>1, <2>2, <2>3 DEF LedgerInv, DemoInv, PageInv, CookieNamesStarted, Seeded, Session
<1> QED BY <1>2, <1>3, PageSeeded

LEMMA SucceedSeeded == ASSUME LedgerInv, NEW t \in Tab, Succeed(t) PROVE SeededFirst'
<1>1. PICK r, more : r = call[t] /\ more = Following(r.runner, r.step, Advanced(t, r).position)
  OBVIOUS
<1>2. jar' \in 0..minted /\ (jar' # 0 => "start" \in server[jar'].done)
      /\ minted \in 0..MaxSession /\ r.phase = "answered"
  <2>1. jar' = JarAfter(r) /\ r.phase = "answered" BY <1>1 DEF Succeed
  <2>2. Busy(t) BY <1>1, <2>1 DEF Busy
  <2> QED BY <1>1, <2>1, <2>2, JarFacts, TabFacts DEF LedgerInv
<1>3. PICK c : c = IF more = {} THEN NoCall
                   ELSE [phase |-> IF jar' = 0 THEN "answered" ELSE "sent",
                         step |-> CHOOSE step \in more : TRUE, session |-> jar',
                         restart |-> FALSE, runner |-> r.runner,
                         outcome |-> "denied", revision |-> 0]
  OBVIOUS
<1>4. call' = [call EXCEPT ![t] = c] /\ UNCHANGED server /\ UNCHANGED orphans
  BY <1>1, <1>3 DEF Succeed
<1>5. c.phase \in {"sent", "working"} => c.session = jar' /\ jar' # 0
  BY <1>3 DEF NoCall
<1>6. c.phase \in {"sent", "working"} /\ Needs(c) => c.session \in Session /\ Seeded(c.session)
  BY <1>2, <1>5 DEF Seeded, Session
<1> QED BY <1>4, <1>6, PageSeeded

LEMMA AbandonSeeded == ASSUME LedgerInv, NEW t \in Tab, Abandoned(t) PROVE SeededFirst'
<1>1. call \in [Tab -> CallType]
  BY Types DEF LedgerInv, DemoInv, PageInv
<1>2. call' = [call EXCEPT ![t] = NoCall] /\ UNCHANGED server
  BY DEF Abandoned
<1>3. NoCall.phase = "none"
  BY DEF NoCall
<1>4. ASSUME NEW q \in Requests'
      PROVE  \E p \in Requests : p.step = q.step /\ p.session = q.session
  <2>1. CASE q \in Requests BY <2>1
  <2>2. CASE /\ Awaiting(t)
             /\ q = [phase |-> call[t].phase, step |-> call[t].step, session |-> call[t].session]
    <3>1. call[t] \in Requests BY <2>2 DEF Requests
    <3> QED BY <2>2, <3>1
  <2>3. \A u \in Tab : Awaiting(u)' => Awaiting(u) /\ call'[u] = call[u]
    BY <1>1, <1>2, <1>3 DEF Awaiting
  <2>4. q \in {call[u] : u \in {v \in Tab : Awaiting(v)}} \union orphans'
    BY <2>3 DEF Requests
  <2>5. q \in Requests \/ q \in orphans'
    BY <2>4 DEF Requests
  <2> QED BY <2>1, <2>2, <2>5 DEF Requests, Abandoned, Awaiting
<1>5. \A q \in Requests' : Needs(q) =>
         q.session \in Session
         /\ (Seeded(q.session) \/ \E p \in Requests : p.step = q.step /\ p.session = q.session)
  BY <1>4, RequestSession DEF LedgerInv
<1> QED BY <1>2, <1>5, SeededStep DEF CorrectDone


\* A request that is served keeps its step and its session.
LEMMA ServedSeeded ==
    ASSUME LedgerInv, NEW r, r \in Requests,
           NEW rows, rows = server[r.session] \/ rows = Half(r).rows,
           server' = [server EXCEPT ![r.session] = rows],
           \A q \in Requests' : \E p \in Requests : p.step = q.step /\ p.session = q.session
    PROVE  SeededFirst' /\ [Promise!Next]_(Promise!ledger)
<1>1. server \in [Session -> Rows]
  BY Types DEF LedgerInv, DemoInv, PageInv
<1>2. r.session \in Session /\ RequestOK(r) /\ r.phase \in {"sent", "working"} /\ r.step \in RequestStep
  BY RequestSession DEF LedgerInv
<1>3. (Needs(r) => Seeded(r.session)) /\ \A s \in Session : CorrectDone(s) => Seeded(s)
  BY DEF LedgerInv, SeededFirst
<1>4. [Promise!Next]_(Promise!ledger)
  <2>1. rows = server[r.session] \/ rows = Half(r).rows
    OBVIOUS
  <2>2. server'[r.session] = rows /\ \A s \in Session \ {r.session} : server'[s] = server[s]
    BY <1>1, <1>2
  <2>3. r.phase \in {"sent", "working"}
    BY <1>2
  <2>4. r.step \in RequestStep
    BY <1>2
  <2>5. r.session \in Session
    BY <1>2
  <2>6. RequestOK(r)
    BY <1>2
  <2>7. Needs(r) \/ CorrectDone(r.session) => Seeded(r.session)
    BY <1>2, <1>3
  <2> QED BY ONLY <1>1, <2>1, <2>2, <2>3, <2>4, <2>5, <2>6, <2>7, ServedPromise
<1>5. server'[r.session] = rows /\ \A s \in Session \ {r.session} : server'[s] = server[s]
  BY <1>1, <1>2
<1>6. \/ rows.done = server[r.session].done
      \/ r.step \in {"start", "correct"} /\ rows.done = server[r.session].done \union {r.step}
  <2>1. PICK old : old = server[r.session]
    OBVIOUS
  <2>2. rows = old \/ rows = Half(r).rows
    BY <2>1
  <2>3. /\ rows \in Rows
        /\ \/ rows.done = old.done /\ rows.answer = old.answer
           \/ /\ r.step \in {"start", "correct"}
              /\ rows.done = old.done \union {r.step} /\ rows.answer = old.answer
           \/ /\ r.step \in Ask /\ old.answer[r.step] = 0 /\ rows.done = old.done
              /\ rows.answer = [old.answer EXCEPT ![r.step] = RevisionNow(old)]
    <3>1. r.session \in Session BY <1>2
    <3>2. RequestOK(r) BY <1>2
    <3>3. r.phase \in {"sent", "working"} BY <1>2
    <3>4. r.step \in RequestStep BY <1>2
    <3> QED BY ONLY <1>1, <3>1, <3>2, <3>3, <3>4, <2>1, <2>2, HalfWrites
  <2> QED BY <2>1, <2>3
<1>7. \A s \in Session : server[s].done \subseteq server'[s].done
  BY <1>5, <1>6
<1>8. \A s \in Session : CorrectDone(s)' => CorrectDone(s) \/ Seeded(s)
  BY <1>3, <1>5, <1>6 DEF CorrectDone, Needs
<1>9. \A q \in Requests' : Needs(q) =>
         q.session \in Session
         /\ (Seeded(q.session) \/ \E p \in Requests : p.step = q.step /\ p.session = q.session)
  BY RequestSession DEF LedgerInv
<1> QED BY <1>4, <1>7, <1>8, <1>9, SeededStep

LEMMA ServePromise ==
    ASSUME LedgerInv, NEW t \in Tab, Serve(t)
    PROVE  SeededFirst' /\ [Promise!Next]_(Promise!ledger)
<1>1. PICK r : r = call[t]
  OBVIOUS
<1>2. call \in [Tab -> CallType] /\ r \in CallType
  BY <1>1, Types DEF LedgerInv, DemoInv, PageInv
<1>3. r \in Requests /\ UNCHANGED orphans
  BY <1>1 DEF Serve, Requests, Awaiting
<1>4. PICK rows : /\ rows = server[r.session] \/ rows = Half(r).rows
                  /\ server' = [server EXCEPT ![r.session] = rows]
  BY <1>1 DEF Serve
<1>5. PICK c : call' = [call EXCEPT ![t] = c] /\ c.step = r.step /\ c.session = r.session
  <2>1. CASE call' = [call EXCEPT ![t] = [r EXCEPT !.phase = "working"]]
    <3>1. PICK c : c = [r EXCEPT !.phase = "working"] OBVIOUS
    <3>2. c.step = r.step /\ c.session = r.session BY <1>2, <3>1 DEF CallType
    <3> QED BY <2>1, <3>1, <3>2
  <2>2. ASSUME NEW o, NEW k,
               call' = [call EXCEPT ![t] = [r EXCEPT !.phase = "answered", !.outcome = o, !.revision = k]]
        PROVE  \E c : call' = [call EXCEPT ![t] = c] /\ c.step = r.step /\ c.session = r.session
    <3>1. PICK c : c = [r EXCEPT !.phase = "answered", !.outcome = o, !.revision = k] OBVIOUS
    <3>2. c.step = r.step /\ c.session = r.session BY <1>2, <3>1 DEF CallType
    <3> QED BY <2>2, <3>1, <3>2
  <2>3. ASSUME NEW o, call' = [call EXCEPT ![t] = [r EXCEPT !.phase = "answered", !.outcome = o]]
        PROVE  \E c : call' = [call EXCEPT ![t] = c] /\ c.step = r.step /\ c.session = r.session
    <3>1. PICK c : c = [r EXCEPT !.phase = "answered", !.outcome = o] OBVIOUS
    <3>2. c.step = r.step /\ c.session = r.session BY <1>2, <3>1 DEF CallType
    <3> QED BY <2>3, <3>1, <3>2
  <2>4. CASE Half(r).ruling = "work" /\ call' = [call EXCEPT ![t] =
                     IF Half(r).ruling = "work" THEN [r EXCEPT !.phase = "working"]
                     ELSE [r EXCEPT !.phase = "answered", !.outcome = Half(r).ruling,
                                    !.revision = IF Half(r).ruling = "succeeded"
                                                   THEN RevisionOf(r, Half(r).rows) ELSE 0]]
    BY <2>1, <2>4
  <2>5. CASE Half(r).ruling # "work" /\ call' = [call EXCEPT ![t] =
                     IF Half(r).ruling = "work" THEN [r EXCEPT !.phase = "working"]
                     ELSE [r EXCEPT !.phase = "answered", !.outcome = Half(r).ruling,
                                    !.revision = IF Half(r).ruling = "succeeded"
                                                   THEN RevisionOf(r, Half(r).rows) ELSE 0]]
    BY <2>2, <2>5
  <2> QED BY <1>1, <2>3, <2>4, <2>5 DEF Serve
<1>6. ASSUME NEW q \in Requests' PROVE \E p \in Requests : p.step = q.step /\ p.session = q.session
  <2>1. \A u \in Tab \ {t} : call'[u] = call[u] BY <1>2, <1>5
  <2>2. call'[t] = c BY <1>2, <1>5
  <2>3. q \in Requests \/ q = c BY <1>3, <2>1, <2>2 DEF Requests, Awaiting
  <2> QED BY <1>3, <1>5, <2>3
<1> QED BY <1>3, <1>4, <1>6, ServedSeeded

LEMMA ServeOrphanPromise ==
    ASSUME LedgerInv, NEW r \in orphans, ServeOrphan(r)
    PROVE  SeededFirst' /\ [Promise!Next]_(Promise!ledger)
<1>1. server \in [Session -> Rows] /\ orphans \subseteq Orphan
  BY Types DEF LedgerInv, DemoInv, PageInv
<1>2. r \in Requests /\ r \in Orphan /\ UNCHANGED call
  BY <1>1 DEF ServeOrphan, Requests
<1>3. PICK rows : /\ rows = server[r.session] \/ rows = Half(r).rows
                  /\ server' = [server EXCEPT ![r.session] = rows]
  <2>1. CASE server' = [server EXCEPT ![r.session] = Half(r).rows]
    BY <2>1
  <2>2. CASE UNCHANGED server
    <3>1. server' = [server EXCEPT ![r.session] = server[r.session]] BY <1>1, <2>2
    <3> QED BY <3>1
  <2> QED BY <2>1, <2>2 DEF ServeOrphan
<1>4. PICK w : w = [r EXCEPT !.phase = "working"]
  OBVIOUS
<1>5. orphans' \subseteq orphans \union {w} /\ w.step = r.step /\ w.session = r.session
  BY <1>2, <1>4 DEF ServeOrphan, Orphan
<1>6. \A q \in Requests' : \E p \in Requests : p.step = q.step /\ p.session = q.session
  BY <1>2, <1>5 DEF Requests, Awaiting
<1> QED BY <1>2, <1>3, <1>6, ServedSeeded

\* The operator, time and the browser ask nothing and write neither fact nor answer.
LEMMA OutsidePromise ==
    ASSUME LedgerInv, UNCHANGED <<call, orphans>>,
           \A s \in Session : server'[s].done = server[s].done /\ server'[s].answer = server[s].answer
    PROVE  SeededFirst' /\ [Promise!Next]_(Promise!ledger)
<1>1. server \in [Session -> Rows]
  BY Types DEF LedgerInv, DemoInv, PageInv
<1>2. Requests' = Requests
  BY DEF Requests, Awaiting
<1>3. \A q \in Requests' : Needs(q) =>
         q.session \in Session
         /\ (Seeded(q.session) \/ \E p \in Requests : p.step = q.step /\ p.session = q.session)
  BY <1>2, RequestSession DEF LedgerInv
<1>4. SeededFirst'
  BY <1>3, SeededStep DEF CorrectDone
<1> QED BY <1>1, <1>4, RowsKeptStutter

LEMMA KeepsPromise ==
    LedgerInv /\ [Next]_vars => LedgerInv' /\ [Promise!Next]_(Promise!ledger)
<1> SUFFICES ASSUME LedgerInv, [Next]_vars
             PROVE  SeededFirst' /\ [Promise!Next]_(Promise!ledger)
  BY DemoNextInv DEF LedgerInv
<1>1. server \in [Session -> Rows]
  BY Types DEF LedgerInv, DemoInv, PageInv
<1>2. UNCHANGED server => [Promise!Next]_(Promise!ledger)
  BY <1>1, RowsKeptStutter
<1>3. ASSUME NEW t \in Tab, Page(t) PROVE SeededFirst' /\ UNCHANGED server
  <2>1. PICK step, restart, runner : Click(t, step, restart, runner)
    BY <1>3 DEF Page, Primary, Remaining, Restart, Proofs
  <2>2. UNCHANGED server BY <2>1 DEF Click
  <2> QED BY <2>1, <2>2, ClickSeeded
<1>4. ASSUME NEW t \in Tab, Answer(t) PROVE SeededFirst' /\ UNCHANGED server
  <2>1. CASE Succeed(t) BY <2>1, SucceedSeeded DEF Succeed
  <2>2. CASE Fail(t)
    <3>1. PICK c : c = NoCall OBVIOUS
    <3>2. c.phase \notin {"sent", "working"} BY <3>1 DEF NoCall
    <3>3. call' = [call EXCEPT ![t] = c] /\ UNCHANGED server /\ UNCHANGED orphans
      BY <2>2, <3>1 DEF Fail
    <3> QED BY <3>2, <3>3, PageSeeded
  <2> QED BY <1>4, <2>1, <2>2 DEF Answer
<1>5. ASSUME NEW t \in Tab, LoseReply(t) \/ Reload(t) PROVE SeededFirst' /\ UNCHANGED server
  BY <1>5, AbandonSeeded DEF LoseReply, Reload, Abandoned
<1>6. CASE Pause \/ Resume \/ DropCookie \/ UNCHANGED vars
  BY <1>6, OutsidePromise DEF Pause, Resume, DropCookie, vars
<1>7. ASSUME NEW s \in Session, Expire(s) PROVE SeededFirst' /\ [Promise!Next]_(Promise!ledger)
  <2>1. server' = [server EXCEPT ![s].token = "expired"] /\ UNCHANGED <<call, orphans>>
    BY <1>7 DEF Expire
  <2>2. PICK rows : rows = [server[s] EXCEPT !.token = "expired"]
    OBVIOUS
  <2>3. rows.done = server[s].done /\ rows.answer = server[s].answer
    BY <1>1, <2>2 DEF Rows
  <2>4. server' = [server EXCEPT ![s] = rows]
    BY <2>1, <2>2
  <2>5. \A x \in Session : server'[x].done = server[x].done /\ server'[x].answer = server[x].answer
    BY <1>1, <2>3, <2>4
  <2> QED BY <2>1, <2>5, OutsidePromise
<1> QED BY <1>2, <1>3, <1>4, <1>5, <1>6, <1>7, ServePromise, ServeOrphanPromise DEF Next

LEMMA LedgerInit == Init => LedgerInv /\ Promise!Init
<1> SUFFICES ASSUME Init PROVE LedgerInv /\ Promise!Init
  OBVIOUS
<1>1. server = [s \in Session |-> NoRows] /\ orphans = {} /\ \A t \in Tab : ~Awaiting(t)
  BY DEF Init, Awaiting, NoCall
<1>2. NoRows.done = {} /\ NoRows.answer = [a \in Ask |-> 0]
  BY DEF NoRows
<1>3. RowMemory(NoRows) = {} /\ RowRecord(NoRows) = [a \in Ask |-> {}]
  BY <1>2 DEF RowMemory, RowRecord
<1>4. SeededFirst
  BY <1>1, <1>2 DEF SeededFirst, Requests, CorrectDone
<1> QED BY <1>1, <1>3, <1>4, DemoInitInv DEF LedgerInv, Promise!Init

\* In any number of tabs and sessions, and whatever is lost, retried, killed, paused or expired,
\* the rows of the five steps keep the promises of AnswerLedger: a session's facts are stored
\* once and before anything is asked, its correction replaces them at most once, and each
\* question is answered once, with the revision that holds at that instant, for good
\* (createHackathonLive.run behind postDemo).
THEOREM ServerKeepsLedger == Spec => Promise!Spec
<1> QED BY LedgerInit, KeepsPromise, PTL DEF Spec, Promise!Spec
=============================================================================
