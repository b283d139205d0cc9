--------------------------- MODULE EvidenceWriter ---------------------------
(***************************************************************************)
(* scripts/safe-evidence-writer.mjs, safeCreateEvidence: publishes one     *)
(* revision of a piece of evidence at most once, on a file system that may *)
(* lose what was not synced when the power fails.  An attempt writes a     *)
(* temporary file beside the target, links the target to it, and removes   *)
(* it; an attempt that fails leaves its temporary file where the next one  *)
(* finds it, and the revision is burned.                                   *)
(***************************************************************************)
EXTENDS Integers, FiniteSets

CONSTANTS
    Creator,   \* attempts at the revision, each with a file of its own
    Nobody     \* no file: the target is absent

Somebody == "foreign"   \* a file that somebody else put at the target

EvidenceWriterAssumption ==
    /\ IsFiniteSet(Creator)
    /\ Nobody \notin Creator /\ Somebody \notin Creator

VARIABLES
    temps,     \* the attempts whose temporary file is in the directory
    target,    \* the file the target's name leads to
    onDisk,    \* what of the directory has been synced: its temps and target
    bytes,     \* each attempt's file: "none", "written", "synced" or "torn"
    at,        \* where each attempt is
    noted      \* the attempts whose temporary file's name has been synced

evidenceVars == <<temps, target, onDisk, bytes, at, noted>>

Ended == {"created", "refused", "burned", "dead"}
NotStarted == "not started"

EvidenceInit ==
    /\ temps = {}
    /\ target = Nobody
    /\ onDisk = [temps |-> {}, target |-> Nobody]
    /\ bytes = [w \in Creator |-> "none"]
    /\ at = [w \in Creator |-> NotStarted]
    /\ noted = {}

Goes(w, from, to) == at[w] = from /\ at' = [at EXCEPT ![w] = to]

\* The target must be absent, and no temporary file of another attempt there.
Inspect(w) ==
    /\ Goes(w, NotStarted, IF target = Nobody THEN "inspected" ELSE "refused")
    /\ UNCHANGED <<temps, target, onDisk, bytes, noted>>

List(w) ==
    /\ Goes(w, "inspected", IF temps = {} THEN "listed" ELSE "refused")
    /\ UNCHANGED <<temps, target, onDisk, bytes, noted>>

OpenTemp(w) ==
    /\ Goes(w, "listed", "opened")
    /\ temps' = temps \cup {w}
    /\ UNCHANGED <<target, onDisk, bytes, noted>>

\* Syncing the directory makes its names durable as they are now.
SyncDirectory == onDisk' = [temps |-> temps', target |-> target']

NoteAttempt(w) ==
    /\ Goes(w, "opened", "noted")
    /\ UNCHANGED <<temps, target, bytes>>
    /\ SyncDirectory
    /\ noted' = noted \cup {w}

WriteBytes(w) ==
    /\ Goes(w, "noted", "written")
    /\ bytes' = [bytes EXCEPT ![w] = "written"]
    /\ UNCHANGED <<temps, target, onDisk, noted>>

SyncBytes(w) ==
    /\ Goes(w, "written", "ready")
    /\ bytes' = [bytes EXCEPT ![w] = "synced"]
    /\ UNCHANGED <<temps, target, onDisk, noted>>

\* The target is looked at again, then the other attempts.
Recheck(w) ==
    /\ Goes(w, "ready", IF target = Nobody THEN "rechecked" ELSE "burned")
    /\ UNCHANGED <<temps, target, onDisk, bytes, noted>>

Compete(w) ==
    /\ Goes(w, "rechecked", IF temps = {w} THEN "alone" ELSE "burned")
    /\ UNCHANGED <<temps, target, onDisk, bytes, noted>>

\* link fails when the name is taken, by whomever.
Link(w) ==
    /\ IF target = Nobody
       THEN Goes(w, "alone", "linked") /\ target' = w
       ELSE Goes(w, "alone", "burned") /\ UNCHANGED target
    /\ UNCHANGED <<temps, onDisk, bytes, noted>>

\* Mutant: the publication is not synced before the temporary file goes.
SyncNothing(w) ==
    /\ Goes(w, "linked", "published")
    /\ UNCHANGED <<temps, target, onDisk, bytes, noted>>

SyncPublication(w) ==
    /\ Goes(w, "linked", IF target = w THEN "published" ELSE "burned")
    /\ UNCHANGED <<temps, target, bytes, noted>>
    /\ SyncDirectory

Unlink(w) ==
    /\ Goes(w, "published", "unlinked")
    /\ temps' = temps \ {w}
    /\ UNCHANGED <<target, onDisk, bytes, noted>>

SyncCleanup(w) ==
    /\ Goes(w, "unlinked", "cleaned")
    /\ UNCHANGED <<temps, target, bytes, noted>>
    /\ SyncDirectory

VerifyFinal(w) ==
    /\ Goes(w, "cleaned", IF target = w /\ temps = {} THEN "created" ELSE "burned")
    /\ UNCHANGED <<temps, target, onDisk, bytes, noted>>

\* Any step may fail - a link also after it took effect - and what is there is
\* preserved; a process that is killed leaves the same.
Fail(w) ==
    /\ at[w] \notin Ended \cup {NotStarted}
    /\ at' = [at EXCEPT ![w] = "burned"]
    /\ \/ UNCHANGED target
       \/ at[w] = "alone" /\ target = Nobody /\ target' = w
    /\ UNCHANGED <<temps, onDisk, bytes, noted>>

\* Somebody else's file appears at the target.
Intrude ==
    /\ target = Nobody
    /\ target' = Somebody
    /\ UNCHANGED <<temps, onDisk, bytes, at, noted>>

\* The power fails: a name changed since the last sync is as it was or as it
\* became, and bytes that were not synced may be torn.  Every attempt is over.
PowerLoss ==
    /\ \E lost \in SUBSET (onDisk.temps \cup temps) :
          /\ onDisk.temps \cap temps \subseteq lost
          /\ temps' = lost
    /\ target' \in {onDisk.target, target}
    /\ onDisk' = [temps |-> temps', target |-> target']
    /\ bytes' \in {[w \in Creator |-> IF bytes[w] = "written" THEN b ELSE bytes[w]] :
                     b \in {"synced", "torn"}}
    /\ at' = [w \in Creator |->
                IF at[w] \in Ended \cup {NotStarted} THEN at[w] ELSE "dead"]
    /\ \E w \in Creator : at[w] \notin Ended \cup {NotStarted}
    /\ UNCHANGED noted

EvidenceNext ==
    \/ \E w \in Creator :
          \/ Inspect(w) \/ List(w) \/ OpenTemp(w) \/ NoteAttempt(w)
          \/ WriteBytes(w) \/ SyncBytes(w) \/ Recheck(w) \/ Compete(w)
          \/ Link(w) \/ SyncPublication(w) \/ Unlink(w) \/ SyncCleanup(w)
          \/ VerifyFinal(w) \/ Fail(w)
    \/ Intrude
    \/ PowerLoss

EvidenceSpec == EvidenceInit /\ [][EvidenceNext]_evidenceVars

(***************************************************************************)
(* Properties.                                                             *)
(***************************************************************************)

\* One revision is created at most once, its bytes are whole and durable even
\* after the power fails, and no other file takes its place.  And an attempt that
\* got as far as noting itself is never forgotten: whatever happens, the power
\* failing included, its temporary file or its publication is there for the
\* next attempt to stop at.
EvidenceInv ==
    /\ \A v, w \in Creator : at[v] = "created" /\ at[w] = "created" => v = w
    /\ \A w \in Creator : at[w] = "created" => target = w /\ onDisk.target = w
    /\ target \in Creator => bytes[target] = "synced"
    /\ \A w \in noted : w \in temps \/ target = w
=============================================================================
