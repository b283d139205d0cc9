-------------------------- MODULE ProvenanceRecord --------------------------
(***************************************************************************)
(* scripts/verify-supply-chain.mjs: --create-provenance writes, once, the  *)
(* record of what the tree holds; --verify builds the record again and     *)
(* compares.  Both read the tree file by file and take no lock, so the     *)
(* tree may be edited between any two reads, and what was checked may be   *)
(* read again later.  The record is opened in place, so a run that is cut  *)
(* off leaves it empty or torn, and the revision is burned.                *)
(***************************************************************************)
EXTENDS Integers, Sequences, FiniteSets

CONSTANTS
    Recorder,   \* runs of --create-provenance
    Auditor,    \* runs of --verify
    Nobody,     \* no file: the target is absent
    MaxEdits    \* bound: what others do to the tree

Somebody == "foreign"          \* a file that no recorder made

ProvenanceAssumption ==
    /\ IsFiniteSet(Recorder) /\ IsFiniteSet(Auditor) /\ Recorder \cap Auditor = {}
    /\ Nobody \notin Recorder /\ Somebody \notin Recorder /\ MaxEdits \in Nat

VARIABLES
    tree,      \* the version of each part of the tree
    home,      \* the directory at the path of the record's parent
    entry,     \* per directory, the file under the record's name
    kept,      \* the same, as far as it was synced
    content,   \* what each recorder's file holds
    job,       \* what each run is doing
    changes    \* how often others changed something

provenanceVars == <<tree, home, entry, kept, content, job, changes>>

Directory == {1, 2}
Run == Recorder \cup Auditor

\* "pinned" stands for what the policy knows by digest (the records of predecessors and of
\* failed candidates, the lockfile, the trust anchors), "manifest" for what the SBOM is made
\* of, "sbom" for the manifest it was made of, "stray" for what may not be in the tree at
\* all.  Version 1 is the reviewed one.
Part == {"pinned", "manifest", "sbom", "stray"}

Empty == [pinned |-> 0, manifest |-> 0, sbom |-> 0]      \* no digest is 0
Torn == [Empty EXCEPT !.pinned = -1]

ProvenanceInit ==
    /\ tree = [f \in Part |-> 1]
    /\ home = 1
    /\ entry = [d \in Directory |-> Nobody]
    /\ kept = entry
    /\ content = [w \in Recorder |-> [bytes |-> Empty, synced |-> TRUE]]
    /\ \E crew \in SUBSET Run :        \* the runs there will be
          job = [w \in Run |-> [at |-> IF w \in crew THEN 1 ELSE 0, built |-> Empty,
                                expected |-> 0, held |-> 0, calm |-> w \in Auditor]]
    /\ changes = 0

---------------------------------------------------------------------------
\* A run is a list of calls; it fails at the first that does not find what it expects.
\* (--verify-sbom is --verify without "compareRecord".)
Build == <<"checkPinned", "walk", "readManifest", "hashPinned", "hashManifest">>

Guard == <<"revalidate", "lookUp", "revalidate", "resolve", "revalidate", "lookUp",
           "revalidate", "revalidate">>

Script(w) ==
    IF w \in Auditor THEN Build \o <<"compareRecord", "compareSbom">>
    ELSE <<"list">> \o Build \o <<"compareSbom", "list", "expectParent", "holdParent",
           "revalidate", "open">> \o Guard \o
         <<"write", "sync", "syncParent", "revalidate", "verify">>

Failed == 0
Finished(w) == job[w].at = Len(Script(w)) + 1
Running(w) == job[w].at \in DOMAIN Script(w)

\* Run w makes this call, goes on with `next` if it is content, and fails if it is not.
Makes(w, call, found, next) ==
    /\ Running(w)
    /\ Script(w)[job[w].at] = call
    /\ job' = [job EXCEPT ![w] = IF found THEN [next EXCEPT !.at = @ + 1]
                                 ELSE [@ EXCEPT !.at = Failed]]

Observes(w, call, found) ==
    /\ Makes(w, call, found, job[w])
    /\ UNCHANGED <<tree, home, entry, kept, content, changes>>

Learns(w, call, found, next) ==
    /\ Makes(w, call, found, next)
    /\ UNCHANGED <<tree, home, entry, kept, content, changes>>

---------------------------------------------------------------------------
\* What both modes build the record from.
Reviewed(f) == tree[f] = 1

CheckPinned(w) == Observes(w, "checkPinned", Reviewed("pinned"))

\* Every governed directory is listed and every file read; what is found must be what the
\* policy lists, and nothing of a kind that is prohibited.  (verify-cleanroom's walk.)
Walk(w) == Observes(w, "walk", Reviewed("stray"))

ReadManifest(w) ==
    Learns(w, "readManifest", TRUE, [job[w] EXCEPT !.built.sbom = tree["manifest"]])

\* The subjects are read once more for the record, without a second look at their pins; the
\* SBOM's entry is that of the one just made.
HashPinned(w) ==
    Learns(w, "hashPinned", TRUE, [job[w] EXCEPT !.built.pinned = tree["pinned"]])

HashManifest(w) ==
    Learns(w, "hashManifest", TRUE, [job[w] EXCEPT !.built.manifest = tree["manifest"]])

CompareSbom(w) == Observes(w, "compareSbom", tree["sbom"] = job[w].built.sbom)

---------------------------------------------------------------------------
PathEntry == entry[home]

CompareRecord(w) ==
    Observes(w, "compareRecord", PathEntry \in Recorder /\ content[PathEntry].bytes = job[w].built)

\* A file left under the name, by whomever, is never replaced.  (A temporary file of
\* safe-evidence-writer beside it is refused, too; this tool makes none.)
ListParent(w) == Observes(w, "list", PathEntry = Nobody)

ExpectParent(w) == Learns(w, "expectParent", TRUE, [job[w] EXCEPT !.expected = home])

HoldParent(w) == Learns(w, "holdParent", TRUE, [job[w] EXCEPT !.held = home])

\* The held directory and the one at the path are the one first seen.
Revalidate(w) ==
    Observes(w, "revalidate", job[w].expected = job[w].held /\ job[w].expected = home)

\* Exclusively, by path.
OpenTarget(w) ==
    /\ Makes(w, "open", PathEntry = Nobody, job[w])
    /\ entry' = IF PathEntry = Nobody THEN [entry EXCEPT ![home] = w] ELSE entry
    /\ UNCHANGED <<tree, home, kept, content, changes>>

\* The name leads to the opened file.  (The code compares the identities after the second
\* look; it does nothing else between them.)
LookUp(w) == Observes(w, "lookUp", PathEntry = w)

\* The name's real path is the one it was given: whatever file is there.
Resolve(w) == Observes(w, "resolve", PathEntry # Nobody)

WriteRecord(w) ==
    /\ Makes(w, "write", TRUE, job[w])
    /\ content' = [content EXCEPT ![w] = [bytes |-> job[w].built, synced |-> FALSE]]
    /\ UNCHANGED <<tree, home, entry, kept, changes>>

SyncRecord(w) ==
    /\ Makes(w, "sync", TRUE, job[w])
    /\ content' = [content EXCEPT ![w].synced = TRUE]
    /\ UNCHANGED <<tree, home, entry, kept, changes>>

SyncParent(w) ==
    /\ Makes(w, "syncParent", TRUE, job[w])
    /\ kept' = [kept EXCEPT ![job[w].held] = entry[job[w].held]]
    /\ UNCHANGED <<tree, home, entry, content, changes>>

VerifyRecord(w) == Observes(w, "verify", PathEntry = w /\ content[w].bytes = job[w].built)

\* A call fails or the process is killed: whatever is there stays.
Stop(w) ==
    /\ Running(w)
    /\ content' \in {content} \cup
         IF Script(w)[job[w].at] = "write" THEN {[content EXCEPT ![w].bytes = Torn]} ELSE {}
    /\ job' = [job EXCEPT ![w].at = Failed]
    /\ UNCHANGED <<tree, home, entry, kept, changes>>

---------------------------------------------------------------------------
\* Others: they edit the tree or put it back, exchange the directory, or use the name.  A run
\* is calm if nobody did so since its first call.
Disturb(died) ==
    /\ changes < MaxEdits
    /\ changes' = changes + 1
    /\ job' = [w \in Run |->
                 IF Running(w) /\ job[w].at = 1 THEN job[w]
                 ELSE [job[w] EXCEPT !.calm = FALSE, !.at = IF w \in died THEN Failed ELSE @]]

Edit(f) ==
    /\ Disturb({})
    /\ tree' = [tree EXCEPT ![f] = 3 - @]
    /\ UNCHANGED <<home, entry, kept, content>>

Exchange ==
    /\ Disturb({})
    /\ home' = 3 - home
    /\ UNCHANGED <<tree, entry, kept, content>>

Intrude ==
    /\ Disturb({})
    /\ PathEntry = Nobody
    /\ entry' = [entry EXCEPT ![home] = Somebody]
    /\ UNCHANGED <<tree, home, kept, content>>

\* The power fails: names are as synced or as they became, bytes that were not synced torn.
PowerLoss ==
    /\ Disturb({w \in Run : Running(w)})
    /\ \E lost \in SUBSET Directory :
          entry' = [d \in Directory |-> IF d \in lost THEN kept[d] ELSE entry[d]]
    /\ kept' = entry'
    /\ content' = [w \in Recorder |->
                     IF content[w].synced THEN content[w] ELSE [bytes |-> Torn, synced |-> TRUE]]
    /\ UNCHANGED <<tree, home>>

ProvenanceNext ==
    \/ \E w \in Run :
          \/ CheckPinned(w) \/ Walk(w) \/ ReadManifest(w) \/ HashPinned(w) \/ HashManifest(w)
          \/ CompareSbom(w) \/ Stop(w)
    \/ \E w \in Auditor : CompareRecord(w)
    \/ \E w \in Recorder :
          \/ ListParent(w) \/ ExpectParent(w) \/ HoldParent(w) \/ Revalidate(w) \/ OpenTarget(w)
          \/ LookUp(w) \/ Resolve(w) \/ WriteRecord(w) \/ SyncRecord(w) \/ SyncParent(w)
          \/ VerifyRecord(w)
    \/ \E f \in Part : Edit(f)
    \/ Exchange \/ Intrude \/ PowerLoss

ProvenanceSpec == ProvenanceInit /\ [][ProvenanceNext]_provenanceVars

(***************************************************************************)
(* Properties.                                                             *)
(***************************************************************************)

\* A record reported as created is whole, under its name in the directory it was made in, and
\* stays there when the power fails; two runs never create it in the same directory.
CreatedOnce ==
    \A w \in Recorder :
       Finished(w) =>
          /\ entry[job[w].held] = w /\ kept[job[w].held] = w
          /\ content[w] = [bytes |-> job[w].built, synced |-> TRUE]

\* The record of the tree as it is.
Truth == [pinned |-> 1, manifest |-> tree["manifest"], sbom |-> tree["manifest"]]

\* --verify passes on a tree that nobody touches only if the record at its place is whole and
\* true of that tree, however many runs made it, raced for it, read a tree that was being
\* edited or were cut off in the middle of it.
VerifiedIsTrue ==
    \A v \in Auditor :
       Finished(v) /\ job[v].calm =>
          /\ PathEntry \in Recorder /\ content[PathEntry].bytes = Truth
          /\ tree["sbom"] = tree["manifest"]
          /\ Reviewed("stray")

RecordInv == CreatedOnce /\ VerifiedIsTrue
=============================================================================
