----------------------------- MODULE MCTooling -----------------------------
(***************************************************************************)
(* Instances of the repository's scripts, side by side: the lock of the    *)
(* commands that change the tree, and the tools that check, apply or       *)
(* record something; and of the package of contracts.  A tool works on     *)
(* files and tables of its own, so a behaviour is one of one tool; nothing *)
(* happens to what belongs to the others.                                  *)
(***************************************************************************)
EXTENDS OperationLock, Integers, Sequences, FiniteSets, TLC

CONSTANTS Operator, AcceptsRoutines, Prober, Nonce, Contenders, MaxOrphans, MaxVisitors,
          Creator, Nobody, Finalizer, MaxEdits, Recorder, Auditor

VARIABLES
  tool,                                                           \* the tool of this behaviour
  ran, empty, reviewed, run, report,                              \* SchemaPack
  extended, window, member, used, task, told, appliers,           \* LiveMigrations
  canary, orphans, visitors, probe, verdict, cleaned,             \* LiveProbe
  temps, target, onDisk, bytes, at, noted,                        \* EvidenceWriter
  inputs, file, provenance, work,                                 \* LocalEvidence
  tree, home, entry, kept, content, job, changes,                 \* ProvenanceRecord
  verifier, disk, listed, edits, step, initial, seen, handle, got, last \* MigrationVerifier

Packing   == INSTANCE SchemaPack
Migrating == INSTANCE LiveMigrations
Probing   == INSTANCE LiveProbe
Recording == INSTANCE EvidenceWriter
Finalizing == INSTANCE LocalEvidence
Proving == INSTANCE ProvenanceRecord
Verifying == INSTANCE MigrationVerifier

ASSUME ToolsAssumption ==
  /\ Packing!SchemaPackAssumption /\ Migrating!LiveMigrationsAssumption
  /\ Probing!LiveProbeAssumption /\ Recording!EvidenceWriterAssumption
  /\ Finalizing!LocalEvidenceAssumption /\ Proving!ProvenanceAssumption

packing == <<ran, empty, reviewed, run, report>>
migrating == <<extended, window, member, used, task, told, appliers>>
probing == <<canary, orphans, visitors, probe, verdict, cleaned>>
recording == <<temps, target, onDisk, bytes, at, noted>>
finalizing == <<inputs, file, provenance, work>>
proving == <<tree, home, entry, kept, content, job, changes>>
verifying == <<verifier, disk, listed, edits, step, initial, seen, handle, got, last>>

toolingVars ==
  <<vars, tool, packing, migrating, probing, recording, finalizing, proving, verifying>>

ToolingInit ==
  /\ Init /\ Packing!PackInit /\ Migrating!LiveMigrationInit /\ Probing!ProbeInit
  /\ Recording!EvidenceInit /\ Finalizing!LocalEvidenceInit /\ Proving!ProvenanceInit
  /\ Verifying!VerifierInit

\* A component moves in the behaviours of its own tool.
Lock == IF tool = "lock" THEN Next ELSE UNCHANGED vars
Pack == IF tool = "pack" THEN Packing!PackNext ELSE UNCHANGED packing
Live == IF tool = "live" THEN Migrating!LiveMigrationNext ELSE UNCHANGED migrating
Probe == IF tool = "probe" THEN Probing!ProbeNext ELSE UNCHANGED probing
Record == IF tool = "record" THEN Recording!EvidenceNext ELSE UNCHANGED recording
Finalize == IF tool = "finalize" THEN Finalizing!LocalEvidenceNext ELSE UNCHANGED finalizing
Prove == IF tool = "provenance" THEN Proving!ProvenanceNext ELSE UNCHANGED proving
Verifies == IF tool = "verify" THEN Verifying!VerifierNext ELSE UNCHANGED verifying

ToolingNext ==
  /\ UNCHANGED tool
  /\ Lock /\ Pack /\ Live /\ Probe /\ Record /\ Finalize /\ Prove /\ Verifies

ToolingSpec == ToolingInit /\ [][ToolingNext]_toolingVars

---------------------------------------------------------------------------
\* The package of contracts.

CONSTANTS Budget, Share, MaxItems, MaxVersion, Code, Time

VARIABLES
  defs, schema, admitted, text, answer,                           \* ContractSchemas
  family, table, accepted, message, coherent,                     \* ContractProfile
  receipt, judgement                                              \* ReceiptSemantics

Validating == INSTANCE ContractSchemas
Profiling == INSTANCE ContractProfile
Judging == INSTANCE ReceiptSemantics WITH verdict <- judgement

ASSUME ContractsAssumption ==
  Validating!ContractAssumption /\ Profiling!ProfileAssumption /\ Judging!ReceiptAssumption

\* The operators of each tool are alike, and so are two of the runs that write evidence.
Alike ==
  {p @@ q : p \in Permutations(Operator \union Prober),
            q \in Permutations(Finalizer \union Recorder)}

\* Two runs of verify-supply-chain at a time: two that create, or one and one that verifies.
Present == {w \in Recorder \union Auditor : job[w].at = 1}
TwoAtATime == {Recorder} \union {Auditor \union {w} : w \in Recorder}

MCInit ==
  /\ tool \in {"lock", "pack", "live", "probe", "record", "finalize", "provenance", "verify",
              "schemas", "profile", "receipts"}
  /\ ToolingInit
  /\ Present \in IF tool = "provenance" THEN TwoAtATime ELSE {{}}
  /\ tool # "verify" => verifier = "c03"
  /\ Judging!ReceiptInit
  /\ IF tool = "schemas" THEN Validating!ContractInit
     ELSE defs = <<>> /\ schema = <<>> /\ admitted = "unknown" /\ text = <<>> /\ answer = "none"
  /\ IF tool = "profile" THEN Profiling!ProfileInit
     ELSE /\ family = "registry" /\ table = <<>> /\ accepted = "unknown"
          /\ message = <<>> /\ coherent = "none"

validating == <<defs, schema, admitted, text, answer>>
profiling == <<family, table, accepted, message, coherent>>
judging == <<receipt, judgement>>

Validate == IF tool = "schemas" THEN Validating!ContractNext ELSE UNCHANGED validating
Profile == IF tool = "profile" THEN Profiling!ProfileNext ELSE UNCHANGED profiling
Judge == IF tool = "receipts" THEN Judging!ReceiptNext ELSE UNCHANGED judging

MCNext == ToolingNext /\ Validate /\ Profile /\ Judge

MCSpec == MCInit /\ [][MCNext]_<<toolingVars, validating, profiling, judging>>

---------------------------------------------------------------------------
\* The schema pack's order, its confirmation and its read-backs (h2-crdb-migrate).
PackInv == Packing!PackInv

\* What 0008's two tools may find and leave (h2-crdb-apply-0008, -0009, -0011).
LiveMigrationInv == Migrating!LiveMigrationInv

\* What a probe removed stays removed until a probe seeds it (h2-crdb-live-probe).
CleanedStaysClean == Probing!CleanedStaysClean

\* What is published is whole and survives a power loss (safe-evidence-writer), what a
\* provenance says was built from the inputs it names (generate-b03-local-evidence), and a
\* record that passes on a quiet tree is true of it (verify-supply-chain).
EvidenceIsTrue ==
  Recording!EvidenceInv /\ Finalizing!ProvenanceTellsTheTruth /\ Proving!RecordInv

\* A verifier that passes has judged the reviewed bytes of one moment (verify-c03, c04, c05).
PassedIsReviewed == Verifying!PassedIsReviewed

\* A message found valid means to every reader what its schema says, and has one reading
\* under an accepted profile (restricted-schema, validation, semantic-profile, compatibility).
MessagesMeanOneThing ==
  Validating!AcceptedConforms /\ Profiling!OneReading /\ Profiling!NothingAttachedToFailure

\* A receipt found valid tells one story of all but its verifier, with nothing it did
\* outside left out (inspectReceiptSemantics).
ReceiptsAreWhole == Judging!TellsOneStory /\ Judging!NoHiddenAttempt
=============================================================================
