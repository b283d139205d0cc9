-------------------------- MODULE ContractProfile --------------------------
(***************************************************************************)
(* packages/contracts: the semantic profile, the tables that say which     *)
(* outcome goes with which code and which attachment.  A profile is        *)
(* checked on its own (validateSemanticProfile) and against the schemas    *)
(* (crossValidateExecutableSemantics); messages are checked against its    *)
(* tables (inspectContractSemantics, inspectRegistrySemantics).            *)
(*                                                                         *)
(* A candidate differs from the reviewed profile in the table of one       *)
(* family, and a family's schema names a few values of each column.  Codes *)
(* are numbers: the profile lists them in order.                           *)
(***************************************************************************)
EXTENDS Integers, Sequences, FiniteSets, SequencesExt

CONSTANT Code       \* the codes of a stage or of the variant denied

ProfileAssumption == IsFiniteSet(Code) /\ {1, 2} \subseteq Code /\ Code \subseteq Nat \ {0}

VARIABLES
    family,     \* the family whose table the candidate changes
    table,      \* that table
    accepted,   \* what the two checks said of it: "unknown", "yes" or "no"
    message,    \* the last message of the family
    coherent    \* what the semantic check said of it: "none", "yes" or "no"

profileVars == <<family, table, accepted, message, coherent>>

-----------------------------------------------------------------------------
\* The tables.  Two families divide codes between two verdicts, three give each outcome
\* (or state) one row, and receipt lists rows with their key.

Dividing == {"policy", "denied"}          \* of a stage; of the provider's variant denied
Giving   == {"api", "result", "task"}     \* of a server_response, a result, a status
Key      == {"succeeded", "failed"}       \* what the schema of a giving family names
Verdict  == {"allow", "deny"}             \* "denied" and "unknown" of the variant denied

AnyCode == Code \cup {0}                    \* 0: a code no schema names
CodesOf(f) == IF f \in Dividing THEN Code ELSE {1, 2}      \* named by the family's schema
ShortList(S) == {<<>>} \cup {<<x>> : x \in S} \cup (S \X S)

\* outcome: task's column of outcomes; what: must the message carry an attachment
Row == [outcome : Key, code : AnyCode, what : {"required", "forbidden", "optional"}]
ReceiptRow == [key : {1, 2}, dispatch : {"required", "forbidden"}]

Tables(f) ==
    CASE f \in Dividing -> [Verdict -> ShortList(AnyCode)]
      [] f \in Giving   -> UNION {[K -> Row] : K \in {Key, {"succeeded"}}}
      [] f = "receipt"  -> ShortList(ReceiptRow) \ {<<>>}

CanonicalStringSet(s) == s # <<>> /\ \A i \in DOMAIN s : i > 1 => s[i - 1] < s[i]

\* The family's part of validateSemanticProfile.
validateSemanticProfile(f, t) ==
    /\ f \in Dividing => \A v \in Verdict : CanonicalStringSet(t[v])
    /\ f \in Giving   =>
          /\ DOMAIN t = Key
          /\ t["succeeded"].what = "required" /\ t["failed"].what = "forbidden"
    /\ f = "receipt"  =>
          \A i, j \in DOMAIN t : i < j => t[i].key < t[j].key

\* The family's part of crossValidateExecutableSemantics, against the schema.
crossValidateExecutableSemantics(f, t) ==
    /\ validateSemanticProfile(f, t)
    /\ f \in Dividing =>
          /\ ToSet(t["allow"]) \cap ToSet(t["deny"]) = {}
          /\ ToSet(t["allow"]) \cup ToSet(t["deny"]) = CodesOf(f)
    /\ f \in Giving   =>
          /\ {t[k].code : k \in Key} = CodesOf(f)
          /\ f = "task" => {t[k].outcome : k \in Key} = Key
    /\ f = "receipt"  => \A i \in DOMAIN t : t[i].key \in {1, 2}

-----------------------------------------------------------------------------
\* Messages that fit their schema.

Response == [key : Key, code : CodesOf("api"), attached : BOOLEAN]
Decision == [decision : Verdict, codes : {s \in ShortList(Code) : IsInjective(s)}]
Denial == [decision : Verdict, code : Code]        \* its schema has no input and no output
Result == [key : Key, code : CodesOf("result"), input : BOOLEAN, attached : BOOLEAN]
Status == [kind : {"status"}, key : Key, outcome : Key, code : CodesOf("task"), attached : BOOLEAN]
Command == [kind : {"command"}]                    \* its schema has no field of a status
Receipt == [key : {1, 2}, dispatched : BOOLEAN]
Registry == [schemas : SeqOf([family : {1, 2}, id : {1, 2}], 3)]
Messages(f) ==
    CASE f = "api"  -> Response
      [] f = "policy" -> Decision
      [] f = "denied" -> Denial
      [] f = "result" -> Result
      [] f = "task" -> Status \cup Command
      [] f = "receipt" -> Receipt
      [] f = "registry" -> Registry

\* The message carries what the row says.
Fits(m, row) == m.code = row.code /\ m.attached = (row.what = "required")

inspectContractSemantics(f, t, m) ==
    CASE f = "policy" ->
           /\ m.codes # <<>> /\ ToSet(m.codes) \subseteq ToSet(t[m.decision])
           /\ m.decision = "allow" => m.codes = t["allow"]
      [] f = "denied" -> m.code \in ToSet(t[m.decision])
      [] f = "api"    -> Fits(m, t[m.key])
      [] f = "result" -> m.input /\ Fits(m, t[m.key])
      [] f = "task"   -> m.kind = "status" => Fits(m, t[m.key]) /\ m.outcome = t[m.key].outcome

\* The rows with a receipt's key: inspectReceiptSemantics asks for one, and goes by it.
ReceiptFits(t, m) ==
    LET rows == {i \in DOMAIN t : t[i].key = m.key}
    IN Cardinality(rows) = 1 /\ \A i \in rows : m.dispatched = (t[i].dispatch = "required")

\* A registry lists, for each family, the schema of that family (here its own number).
inspectRegistrySemantics(m) ==
    LET at == DOMAIN m.schemas
    IN /\ \A i \in at : m.schemas[i].family = m.schemas[i].id
       /\ \A i, j \in at : i < j => m.schemas[i].family # m.schemas[j].family
       /\ Cardinality({m.schemas[i].family : i \in at}) = 2

Coherent(f, t, m) ==
    CASE f = "receipt"  -> ReceiptFits(t, m)
      [] f = "registry" -> inspectRegistrySemantics(m)
      [] OTHER -> inspectContractSemantics(f, t, m)

-----------------------------------------------------------------------------
ProfileInit ==
    /\ \/ family \in Dividing \cup Giving \cup {"receipt"} /\ table \in Tables(family)
       \/ family = "registry" /\ table = <<>>
    /\ accepted = "unknown"
    /\ message = <<>>
    /\ coherent = "none"

\* The tools, and the package when it is loaded (initializeSemanticProfile).
initializeSemanticProfile ==
    /\ accepted = "unknown"
    /\ accepted' = IF crossValidateExecutableSemantics(family, table) THEN "yes" ELSE "no"
    /\ UNCHANGED <<family, table, message, coherent>>

Judge(m) ==
    /\ accepted = "yes"
    /\ message' = m
    /\ coherent' = IF Coherent(family, table, m) THEN "yes" ELSE "no"
    /\ UNCHANGED <<family, table, accepted>>

ProfileNext == initializeSemanticProfile \/ \E m \in Messages(family) : Judge(m)

ProfileSpec == ProfileInit /\ [][ProfileNext]_profileVars

-----------------------------------------------------------------------------
CoherentMessages == {m \in Messages(family) : Coherent(family, table, m)}

\* What a table that the checks accept does for every message of its family: the codes of a
\* message tell the verdict, an outcome has one code and is told with its attachment or
\* without it, a receipt is dispatched or is not, and there is no outcome and no code of the
\* schema that no message can use.
OneReading ==
    accepted = "yes" =>
        /\ \A m, n \in CoherentMessages :
              /\ family = "policy" /\ m.codes = n.codes => m.decision = n.decision
              /\ family = "denied" /\ m.code = n.code => m.decision = n.decision
              /\ family = "receipt" /\ m.key = n.key => m = n
              /\ family \in {"api", "result"} /\ m.key = n.key => m = n
              /\ family = "registry" => Len(m.schemas) = 2 /\ ToSet(m.schemas) = ToSet(n.schemas)
        /\ family = "policy" => UNION {ToSet(m.codes) : m \in CoherentMessages} = CodesOf(family)
        /\ family \in {"denied", "api", "result"} => {m.code : m \in CoherentMessages} = CodesOf(family)
        /\ family \in {"api", "result"} => {m.key : m \in CoherentMessages} = Key

\* No message found coherent carries a content, an output or a checkpoint with a failure.
NothingAttachedToFailure ==
    coherent = "yes" /\ family \in Giving /\ "attached" \in DOMAIN message =>
        (message.attached <=> message.key = "succeeded")
=============================================================================
