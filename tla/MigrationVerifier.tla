------------------------- MODULE MigrationVerifier -------------------------
(***************************************************************************)
(* The verifiers of the migrations (C03 to C06, H2, live): each reads its  *)
(* files while anyone may rewrite, replace or link them, and passes only   *)
(* if it finds the reviewed bytes.  They differ in how often they look.    *)
(* The bytes of a file are "reviewed", "alike" or "other": every text      *)
(* check but that of H2 ends in a comparison with reviewed bytes or the    *)
(* whole statement set; H2 asks for some statements and refuses others.    *)
(***************************************************************************)
EXTENDS Integers, Sequences, FiniteSets

CONSTANT MaxEdits \* bound on what happens to the files

VARIABLES verifier, \* which script runs
          disk,     \* the files: [inode, version, bytes, regular]
          listed,   \* the names in the directory of migrations: reviewed or not, at which edit
          edits,    \* edits made
          step,     \* [at, file]: the next call, and the file it is about
          initial,  \* c03: the versions of the files and of the directory before anything is read
          seen,     \* per file: its version at the look before its read
          handle,   \* the open file
          got,      \* per file: the bytes read
          last      \* per file: what stood there at the last look, a history variable

fileVars == <<verifier, disk, listed, edits, step, initial, seen, handle, got, last>>

Verifier == {"c03", "c04_purpose", "c04_role", "c05", "c06", "h2", "live"}

\* What each verifier reads, in order: at most two files, where it reads more in the same way
\* ("c03" its README and a second contract, "c04_role" 0002, "live" the other predecessors).
Reads ==
    [c03 |-> <<"0001", "event.schema">>, c04_purpose |-> <<"0001", "0002">>,
     c04_role |-> <<"0001", "0003">>, c05 |-> <<"0004">>, c06 |-> <<"0005">>, h2 |-> <<"0007">>,
     live |-> <<"0007", "0008">>]

File == {"0001", "0002", "0003", "0004", "0005", "0007", "0008", "event.schema"}

Lists == {"c04_purpose", "c04_role", "c06", "h2"}           \* read the directory first
Looks == Verifier \ {"live"}                                \* look at a path before its read
Guarded == Verifier \ {"h2", "live"}                        \* compare the handle before and after
Relooks == {"c03", "c05"}                                   \* look at the path after the read
Rechecks == {"c03", "c04_purpose", "c04_role"}              \* look at all files again at the end

NotOpen == [inode |-> 0, version |-> 0, bytes |-> "none", regular |-> FALSE]

\* The first call about a file.
FirstCall == IF verifier \in Looks THEN "look" ELSE "open"

VerifierInit ==
    /\ verifier \in Verifier
    /\ disk = [f \in File |-> [inode |-> 1, version |-> 1, bytes |-> "reviewed", regular |-> TRUE]]
    /\ listed = [reviewed |-> TRUE, version |-> 1]
    /\ edits = 0
    /\ step = [at |-> IF verifier = "c03" THEN "snapshot"
                      ELSE IF verifier \in Lists THEN "list" ELSE FirstCall, file |-> 1]
    /\ initial = [files |-> [f \in File |-> 0], listing |-> 0]
    /\ seen = [f \in File |-> 0] /\ handle = NotOpen
    /\ got = [f \in File |-> "none"] /\ last = [f \in File |-> "none"]

Current == Reads[verifier][step.file]

Goto(label) == step' = [step EXCEPT !.at = label]

\* Every failed check throws; the script prints FAIL and exits with 1.
Fail == Goto("failed")

---------------------------------------------------------------------------
\* C03 takes a snapshot of every path and of the directory before it reads anything.
Snapshot ==
    /\ step.at = "snapshot"
    /\ IF \A i \in DOMAIN Reads[verifier] : disk[Reads[verifier][i]].regular
         THEN /\ Goto("list")
              /\ initial' = [files |-> [f \in File |-> disk[f].version], listing |-> listed.version]
         ELSE Fail /\ UNCHANGED initial
    /\ UNCHANGED <<verifier, disk, listed, edits, seen, handle, got, last>>

\* The names of the migrations are the reviewed ones, in order.
List ==
    /\ step.at = "list"
    /\ IF listed.reviewed THEN Goto(FirstCall) ELSE Fail
    /\ UNCHANGED <<verifier, disk, listed, edits, initial, seen, handle, got, last>>

\* lstat and realpath: a canonical path to a regular file of bounded size.
Look ==
    /\ step.at = "look"
    /\ IF disk[Current].regular
         THEN /\ Goto("open")
              /\ seen' = [seen EXCEPT ![Current] = disk[Current].version]
              /\ last' = [last EXCEPT ![Current] = disk[Current].bytes]
         ELSE Fail /\ UNCHANGED <<seen, last>>
    /\ UNCHANGED <<verifier, disk, listed, edits, initial, handle, got>>

\* The open file as it is now: rewriting it changes what the handle reads, replacing it does not.
Opened == IF disk[Current].inode = handle.inode THEN disk[Current] ELSE handle

\* O_NOFOLLOW, except in the script that reads by name, and the first fstat.
Open ==
    /\ step.at = "open"
    /\ IF /\ disk[Current].regular \/ verifier \notin Looks
          /\ verifier \in Guarded => disk[Current].version = seen[Current]
         THEN Goto("read") /\ handle' = disk[Current]
         ELSE Fail /\ UNCHANGED handle
    /\ UNCHANGED <<verifier, disk, listed, edits, initial, seen, got, last>>

Read ==
    /\ step.at = "read"
    /\ got' = [got EXCEPT ![Current] = Opened.bytes]
    /\ handle' = Opened
    /\ Goto("after")
    /\ UNCHANGED <<verifier, disk, listed, edits, initial, seen, last>>

\* The second fstat agrees with the first.
SameHandle == verifier \in Guarded => Opened.version = seen[Current]

\* Mutant: the path is not looked at again.
SamePathAlways(f, version) == TRUE

\* The path leads to the file that had this version.
SamePath(f, version) == disk[f].regular /\ disk[f].version = version

After ==
    /\ step.at = "after"
    /\ IF SameHandle /\ (verifier \in Relooks => SamePath(Current, seen[Current]))
         THEN /\ Goto("check")
              /\ last' = IF verifier \in Relooks THEN [last EXCEPT ![Current] = disk[Current].bytes]
                         ELSE last
         ELSE Fail /\ UNCHANGED last
    /\ handle' = NotOpen
    /\ UNCHANGED <<verifier, disk, listed, edits, initial, seen, got>>

\* The text of a migration: framing, forbidden statements, required ones, and the comparison
\* with the canonical statement set or digest, which H2 does without.
Accepts(bytes) == bytes \in IF verifier = "h2" THEN {"reviewed", "alike"} ELSE {"reviewed"}

\* The contracts that the statement set is derived from have their exact digests.
Binds(bytes) == bytes = "reviewed"

Check ==
    /\ step.at = "check"
    /\ IF ~(IF Current = "event.schema" THEN Binds(got[Current]) ELSE Accepts(got[Current])) THEN Fail
       ELSE IF step.file < Len(Reads[verifier])
         THEN step' = [at |-> FirstCall, file |-> step.file + 1]
       ELSE step' = [at |-> IF verifier \in Rechecks THEN "recheck" ELSE "passed", file |-> 1]
    /\ UNCHANGED <<verifier, disk, listed, edits, initial, seen, handle, got, last>>

\* What the last look compares with: the snapshot, or the look before the read.
Remembered == IF verifier = "c03" THEN initial.files[Current] ELSE seen[Current]

Recheck ==
    /\ step.at = "recheck"
    /\ IF ~SamePath(Current, Remembered) THEN Fail /\ UNCHANGED last
       ELSE /\ last' = [last EXCEPT ![Current] = disk[Current].bytes]
            /\ IF step.file < Len(Reads[verifier])
                 THEN step' = [step EXCEPT !.file = @ + 1]
                 ELSE Goto("relist")
    /\ UNCHANGED <<verifier, disk, listed, edits, initial, seen, handle, got>>

\* The same names again, and for C03 the same directory.
Relist ==
    /\ step.at = "relist"
    /\ IF listed.reviewed /\ (verifier = "c03" => listed.version = initial.listing) THEN Goto("passed") ELSE Fail
    /\ UNCHANGED <<verifier, disk, listed, edits, initial, seen, handle, got, last>>

---------------------------------------------------------------------------
\* Somebody edits a file in place, replaces it, or puts a link in its place.
Edit(f, inode, regular) ==
    /\ step.at \notin {"passed", "failed"}
    /\ edits < MaxEdits
    /\ edits' = edits + 1
    /\ \E bytes \in {"reviewed", "alike", "other"} :
          disk' = [disk EXCEPT ![f] = [inode |-> inode, version |-> edits + 2, bytes |-> bytes,
                                       regular |-> regular]]
    /\ UNCHANGED <<verifier, listed, step, initial, seen, handle, got, last>>

Rewrite(f) == disk[f].regular /\ Edit(f, disk[f].inode, TRUE)
Replace(f) == Edit(f, edits + 2, TRUE)
Link(f) == Edit(f, edits + 2, FALSE)

Rename ==
    /\ step.at \notin {"passed", "failed"}
    /\ edits < MaxEdits
    /\ edits' = edits + 1
    /\ listed' = [reviewed |-> ~listed.reviewed, version |-> edits + 2]
    /\ UNCHANGED <<verifier, disk, step, initial, seen, handle, got, last>>

VerifierNext ==
    \/ Snapshot \/ List \/ Look \/ Open \/ Read \/ After \/ Check \/ Recheck \/ Relist
    \/ \E i \in DOMAIN Reads[verifier] :
          LET f == Reads[verifier][i] IN Rewrite(f) \/ Replace(f) \/ Link(f)
    \/ Rename

VerifierSpec == VerifierInit /\ [][VerifierNext]_fileVars

---------------------------------------------------------------------------
\* A PASS is about the files as they were found at the last look, not only about the bytes that
\* were read: where the script looks at the path after its read, the reviewed bytes stood there
\* then, whoever edited, replaced or linked what in between.
PassedIsReviewed ==
    step.at = "passed" =>
        \A i \in DOMAIN Reads[verifier] :
            LET f == Reads[verifier][i]
            IN  /\ got[f] \in (IF verifier = "h2" THEN {"reviewed", "alike"} ELSE {"reviewed"})
                /\ verifier \in Relooks \union Rechecks => last[f] = "reviewed"
=============================================================================
