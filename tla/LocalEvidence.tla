--------------------------- MODULE LocalEvidence ---------------------------
(***************************************************************************)
(* scripts/generate-b03-local-evidence.mjs: the finalizer that replaces    *)
(* four pieces of evidence in place, one after the other, and then creates *)
(* the provenance that describes them.  It takes no lock: the inputs it    *)
(* captured are read again before every write, it begins only from the     *)
(* four reviewed predecessors and without provenance, and what a run that  *)
(* was cut off leaves behind keeps every later run from beginning.         *)
(*                                                                         *)
(* The create-once file is that of module EvidenceWriter, in one step.     *)
(***************************************************************************)
EXTENDS Integers, FiniteSets

CONSTANTS
    Finalizer,   \* runs of the finalizer
    MaxEdits     \* bound: edits of the stable inputs

LocalEvidenceAssumption == IsFiniteSet(Finalizer) /\ MaxEdits \in Nat

VARIABLES
    inputs,       \* the version of the policy, the lockfile and the finalizer
    file,         \* the four files: what each holds
    provenance,   \* what the provenance describes
    work          \* what each run is doing

localEvidenceVars == <<inputs, file, provenance, work>>

File == 1 .. 4                  \* licenses, tool payloads, trust, SBOM
Predecessor == [kind |-> "predecessor", of |-> 0]
Torn == [kind |-> "torn", of |-> 0]
MadeOf(v) == [kind |-> "made", of |-> v]
Absent == [kind |-> "absent", of |-> 0]
Remnant == [kind |-> "remnant", of |-> 0]

LocalEvidenceInit ==
    /\ inputs = 1
    /\ file = [k \in File |-> Predecessor]
    /\ provenance = Absent
    /\ work = [w \in Finalizer |-> [at |-> "out", captured |-> 0, built |-> 0, next |-> 1]]

InputsStable(w) == inputs = work[w].captured

Goes(w, where) == work' = [work EXCEPT ![w].at = where]

\* The prestate, then the capture of the inputs.
Begin(w) ==
    /\ work[w].at = "out"
    /\ \A k \in File : file[k] = Predecessor
    /\ provenance = Absent
    /\ work' = [work EXCEPT ![w] = [@ EXCEPT !.at = "writing", !.captured = inputs]]
    /\ UNCHANGED <<inputs, file, provenance>>

\* A file is truncated before it is written.  The first three hold what was
\* collected from the captured inputs.
Truncate(w, k) ==
    /\ work[w].at = "writing" /\ work[w].next = k /\ k # 4
    /\ InputsStable(w)
    /\ file' = [file EXCEPT ![k] = Torn]
    /\ work' = [work EXCEPT ![w].at = "truncated", ![w].built = work[w].captured]
    /\ UNCHANGED <<inputs, provenance>>

\* The SBOM and the provenance are built from the inputs as they are by then.
Check(w) ==
    /\ work[w].at = "writing" /\ work[w].next = 4
    /\ InputsStable(w)
    /\ Goes(w, "building")
    /\ UNCHANGED <<inputs, file, provenance>>

Build(w) ==
    /\ work[w].at = "building"
    /\ file' = [file EXCEPT ![4] = Torn]
    /\ work' = [work EXCEPT ![w].at = "truncated", ![w].built = inputs]
    /\ UNCHANGED <<inputs, provenance>>

Write(w, k) ==
    /\ work[w].at = "truncated" /\ work[w].next = k
    /\ file' = [file EXCEPT ![k] = MadeOf(work[w].built)]
    /\ work' = [work EXCEPT ![w].at = "writing", ![w].next = k + 1]
    /\ UNCHANGED <<inputs, provenance>>

Provenance(w) ==
    /\ work[w].at = "writing" /\ work[w].next = 5
    /\ InputsStable(w)
    /\ \/ /\ provenance = Absent
          /\ provenance' = MadeOf(work[w].built)
          /\ Goes(w, "published")
       \/ /\ provenance' = IF provenance = Absent THEN Remnant ELSE provenance
          /\ Goes(w, "failed")
    /\ UNCHANGED <<inputs, file>>

\* Everything is read back and rebuilt.
ReadBack(w) ==
    /\ work[w].at = "published" /\ InputsStable(w)
    /\ \A k \in File : file[k] = MadeOf(work[w].captured)
    /\ Goes(w, "done")
    /\ UNCHANGED <<inputs, file, provenance>>

\* A check fails or the process is killed, between two steps of any kind.
GiveUp(w) ==
    /\ work[w].at \in {"writing", "building", "truncated", "published"}
    /\ Goes(w, "failed")
    /\ UNCHANGED <<inputs, file, provenance>>

Edit ==
    /\ inputs <= MaxEdits
    /\ inputs' = inputs + 1
    /\ UNCHANGED <<file, provenance, work>>

LocalEvidenceNext ==
    \/ \E w \in Finalizer :
          \/ Begin(w)
          \/ \E k \in File : Truncate(w, k) \/ Write(w, k)
          \/ Check(w) \/ Build(w) \/ Provenance(w) \/ ReadBack(w) \/ GiveUp(w)
    \/ Edit

LocalEvidenceSpec ==
    LocalEvidenceInit /\ [][LocalEvidenceNext]_localEvidenceVars

(***************************************************************************)
(* Properties.                                                             *)
(***************************************************************************)

\* Provenance is never published beside a file that is not of the inputs it
\* describes, although the inputs may be edited at any time and other runs may
\* be cut off in the middle of a write or still be writing.  A file may differ
\* from it only by the hand of another run that began as early.
ProvenanceTellsTheTruth ==
    provenance.kind = "made" =>
       \A k \in File :
          \/ file[k] = provenance
          \/ \E w \in Finalizer :
               /\ work[w].captured = provenance.of
               /\ work[w].at \notin {"out", "published", "done"}
               /\ file[k] \in {Torn, MadeOf(work[w].built)}
=============================================================================
