-------------------------- MODULE ContractSchemas --------------------------
(***************************************************************************)
(* packages/contracts: which schemas are admitted to the catalog           *)
(* (restricted-schema.ts, scripts/verify-contracts.mjs), how a message is  *)
(* validated against the catalog under a budget of nodes (validation.ts),  *)
(* and which later schema may take the place of an earlier one             *)
(* (compatibility.ts).                                                     *)
(*                                                                         *)
(* A schema refers to the definitions of the envelope.  A text is an atom, *)
(* a list, or an object as the sequence of its members, where a name may   *)
(* occur twice.  The assertions on strings are the atoms they admit.       *)
(***************************************************************************)
EXTENDS Integers, Sequences, FiniteSets, FiniteSetsExt

CONSTANTS
    Budget,       \* the nodes a validation may visit
    Share,        \* the most of them one alternative of a choice may visit
    MaxItems,     \* the items of a list that are inspected, and a schema may admit
    MaxVersion    \* the last version of a schema (64 bits in the code)

ContractAssumption ==
    /\ Budget \in Nat \ {0} /\ Share \in Nat \ {0} /\ MaxItems \in Nat \ {0}
    /\ MaxVersion \in Nat \ {0}

VARIABLES
    defs,       \* the definitions of the envelope
    schema,     \* the schema of the contract in the catalog
    admitted,   \* what the tools said of it: "unknown", "yes" or "no"
    text,       \* the last message
    answer      \* what parseAndValidateContract said of it

contractVars == <<defs, schema, admitted, text, answer>>

-----------------------------------------------------------------------------
\* Schemas.

Name == {"a", "b"}
Atom == {0, 1}

Const(c) == [kind |-> "const", is |-> c]
Ref(n) == [kind |-> "ref", to |-> n]
Object(m, n) == [kind |-> "object", x |-> Ref(m), y |-> Ref(n)]      \* x is required
List(n, max) == [kind |-> "array", of |-> Ref(n), max |-> max]
OneOf(m, n) == [kind |-> "oneOf", of |-> <<Ref(m), Ref(n)>>]
AnyOf(m, n) == [kind |-> "anyOf", of |-> <<Ref(m), Ref(n)>>]
Unclosed == [kind |-> "unclosed"]        \* an object open to any member

Shape ==
    {Const(c) : c \in Atom} \cup {Ref(n) : n \in Name \cup {"missing"}}
    \cup {Object(m, n) : m, n \in Name} \cup {List(n, MaxItems) : n \in Name}
    \cup {List("a", MaxItems + 1), OneOf("a", "b"), AnyOf("a", "b"), Unclosed}

\* inspect of restricted-schema.ts: the shape is one the validator implements whole.
Restricted(shape) ==
    /\ shape # Unclosed
    /\ shape.kind = "array" => shape.max <= MaxItems

\* The references inspect of restricted-schema.ts collects.
References(shape) ==
    CASE shape.kind = "ref"    -> {shape.to}
      [] shape.kind = "object" -> {shape.x.to, shape.y.to}
      [] shape.kind = "array"  -> {shape.of.to}
      [] shape.kind \in {"oneOf", "anyOf"} -> {shape.of[i].to : i \in 1 .. 2}
      [] OTHER -> {}

\* visit of rejectDefinitionCycles, for the names in front one after the other: a name it
\* is in the middle of (active) is a cycle, and a complete one is not walked again.
Walk(front, active, complete) == [front |-> front, active |-> active, complete |-> complete]

Visit(d) ==
    LET visit[w \in [front : SUBSET Name, active : SUBSET Name, complete : SUBSET Name]] ==
          IF w.front = {} THEN [cyclic |-> FALSE, complete |-> w.complete]
          ELSE LET n == CHOOSE m \in w.front : TRUE
                   below == visit[Walk(References(d[n]) \cap Name, w.active \cup {n}, w.complete)]
                   rest == w.front \ {n}
               IN IF n \in w.active THEN [cyclic |-> TRUE, complete |-> w.complete]
                  ELSE IF n \in w.complete THEN visit[Walk(rest, w.active, w.complete)]
                  ELSE IF below.cyclic THEN below
                  ELSE visit[Walk(rest, w.active, below.complete \cup {n})]
    IN visit[Walk(Name, {}, {})]

validateRestrictedSchemaWithLocalRefs(shape, d) ==
    /\ Restricted(shape) /\ \A n \in Name : Restricted(d[n])
    /\ ~Visit(d).cyclic
    /\ References(shape) \subseteq Name

\* Every schema of the catalog, the definitions of the envelope among them.
Admits(d, shape) ==
    \A s \in {d[n] : n \in Name} \cup {shape} : validateRestrictedSchemaWithLocalRefs(s, d)

-----------------------------------------------------------------------------
\* Texts, and the values a reader takes them for.

Leaf(c) == [kind |-> "atom", is |-> c]
Listing(s) == [kind |-> "list", items |-> s]
Members(s) == [kind |-> "members", of |-> s]

Pair(k, c) == Members(<<<<"x", Leaf(c)>>, <<k, Leaf(0)>>>>)      \* k = "x": twice
Inner ==
    {Leaf(c) : c \in Atom}
    \cup {Listing(<<Leaf(0)>>), Members(<<<<"x", Leaf(0)>>>>), Pair("x", 1)}
Turned == Members(<<<<"y", Leaf(0)>>, <<"x", Leaf(0)>>>>)         \* Pair("y", 0), turned around
Text ==
    Inner \cup {Listing(s) : s \in {<<>>} \cup {<<t>> : t \in Inner} \cup (Inner \X Inner)}
    \cup {Listing(<<Pair("y", 0), Members(<<<<"x", Leaf(0)>>>>), Leaf(0)>>),
          Listing(<<Pair("y", 0), Turned>>)}
    \cup {Members(<<<<"x", t>>>>) : t \in Inner} \cup {Members(<<<<"y", Leaf(0)>>>>)}
    \cup {Pair(k, c) : k \in {"x", "y", "z"}, c \in Atom}

\* The texts directly in a text.  No text of Text nests more than twice.
Inside(t) ==
    CASE t.kind = "atom"    -> {}
      [] t.kind = "list"    -> {t.items[i] : i \in DOMAIN t.items}
      [] t.kind = "members" -> {t.of[i][2] : i \in DOMAIN t.of}

NamesDiffer(t) == t.kind = "members" => \A i, j \in DOMAIN t.of : i # j => t.of[i][1] # t.of[j][1]

\* Mutant: objects inside a list are not looked into.
KeysDifferOutsideLists(t) ==
    NamesDiffer(t) /\ (t.kind = "members" => \A u \in Inside(t) : NamesDiffer(u))

\* rejectDuplicateJsonKeys lets a text pass.
KeysDiffer(t) ==
    NamesDiffer(t) /\ \A u \in Inside(t) : NamesDiffer(u) /\ \A w \in Inside(u) : NamesDiffer(w)

\* The value of a text whose parts have the values given: to a reader who takes the "last"
\* occurrence of a name, as JSON.parse does, or the "first".
Read(t, take, value) ==
    LET At(key) == {i \in DOMAIN t.of : t.of[i][1] = key}
        Taken(key) == IF take = "last" THEN Max(At(key)) ELSE Min(At(key))
    IN CASE t.kind = "atom" -> t
         [] t.kind = "list" -> Listing([i \in DOMAIN t.items |-> value[t.items[i]]])
         [] t.kind = "members" ->
              [kind |-> "record",
               of |-> [key \in {t.of[i][1] : i \in DOMAIN t.of} |-> value[t.of[Taken(key)][2]]]]

Value(t, take) ==
    Read(t, take, [u \in Inside(t) |-> Read(u, take, [w \in Inside(u) |-> w])])

\* The values directly in a value, and a value with all there are in it.
Within(v) ==
    CASE v.kind = "atom"   -> {}
      [] v.kind = "list"   -> {v.items[i] : i \in DOMAIN v.items}
      [] v.kind = "record" -> {v.of[key] : key \in DOMAIN v.of}
Under(v) == {v} \cup Within(v) \cup UNION {Within(u) : u \in Within(v)}

-----------------------------------------------------------------------------
\* inspect of validation.ts: whether a value fits a shape, and what it leaves of the
\* budget.  A choice gives each alternative a share of what is left.

Outcome(ok, left) == [ok |-> ok, left |-> left]

Allocated(left, alternatives) == Min({Share, Max({1, left \div alternatives})})

\* Everywhere below, of[n] is inspect of the definition n: at a reference, for one
\* alternative of a choice, and for a value after those that went before it.
Follow(of, ref, v, budget) ==
    IF budget <= 0 THEN Outcome(FALSE, budget) ELSE of[ref.to][v][budget - 1]

Alternative(of, ref, v, left) ==
    LET share == Allocated(left, 2)
        r == Follow(of, ref, v, share)
    IN Outcome(r.ok, left - (share - r.left))

InTurn(of, before, ref, v) ==
    LET r == Follow(of, ref, v, before.left) IN Outcome(before.ok /\ r.ok, r.left)

Member(of, before, shape, v, key) ==
    IF key \in DOMAIN v.of THEN InTurn(of, before, shape[key], v.of[key]) ELSE before

Looked(items) == IF Len(items) < MaxItems THEN Len(items) ELSE MaxItems
Items(of, ref, items, left) ==
    LET turn[i \in 0 .. Looked(items)] ==
          IF i = 0 THEN Outcome(TRUE, left) ELSE InTurn(of, turn[i - 1], ref, items[i])
    IN turn[Looked(items)]

\* inspect of a shape.
Inspected(of, shape, v, budget) ==
    LET left == budget - 1
    IN CASE budget <= 0 -> Outcome(FALSE, budget)
         [] budget > 0 /\ shape.kind = "oneOf" ->
              LET first == Alternative(of, shape.of[1], v, left)
                  second == Alternative(of, shape.of[2], v, first.left)
              IN Outcome(first.ok # second.ok, second.left)
         [] budget > 0 /\ shape.kind = "anyOf" ->
              LET first == Alternative(of, shape.of[1], v, left)
              IN IF first.ok THEN first ELSE Alternative(of, shape.of[2], v, first.left)
         [] budget > 0 /\ shape.kind = "ref" -> of[shape.to][v][left]
         [] budget > 0 /\ shape.kind = "const" -> Outcome(v = Leaf(shape.is), left)
         [] budget > 0 /\ shape.kind = "object" ->
              IF v.kind # "record" THEN Outcome(FALSE, left)
              ELSE LET x == Member(of, Outcome(TRUE, left), shape, v, "x")
                       all == Member(of, x, shape, v, "y")
                   IN Outcome(all.ok /\ "x" \in DOMAIN v.of /\ "z" \notin DOMAIN v.of, all.left)
         [] budget > 0 /\ shape.kind = "array" ->
              IF v.kind # "list" \/ Len(v.items) > shape.max THEN Outcome(FALSE, left)
              ELSE LET all == Items(of, shape.of, v.items, left)
                       distinct == {v.items[i] : i \in DOMAIN v.items}
                   IN Outcome(all.ok /\ Cardinality(distinct) = Len(v.items), all.left)

\* No definition of an admitted catalog refers to itself, so inspect nests no deeper than
\* there are definitions: the second round has what the first found of the ones it refers to.
inspect(d, shape, v, budget) ==
    LET none == [n \in Name |-> [u \in Under(v) |-> [b \in Int |-> Outcome(FALSE, b)]]]
        once == [n \in Name |-> [u \in Under(v) |-> [b \in Int |-> Inspected(none, d[n], u, b)]]]
        twice == [n \in Name |-> [u \in Under(v) |-> [b \in Int |-> Inspected(once, d[n], u, b)]]]
    IN Inspected(twice, shape, v, budget)

parseAndValidateContract(d, shape, t) ==
    KeysDiffer(t) /\ inspect(d, shape, Value(t, "last"), Budget).ok

-----------------------------------------------------------------------------
\* compatibility.ts.  Beside its shape a schema has a version and a semantic profile;
\* only the executable one counts as known.

Schema == [version : 1 .. MaxVersion + 1, shape : Shape, profile : {"executable", "other"}]

\* What both checks ask of the two schemas.
Comparable(d, previous, candidate) ==
    /\ previous.profile = "executable" /\ candidate.profile = "executable"
    /\ validateRestrictedSchemaWithLocalRefs(previous.shape, d)
    /\ validateRestrictedSchemaWithLocalRefs(candidate.shape, d)

\* identity: the version of a schema is one that can be compared.
HasIdentity(s) == s.version <= MaxVersion

checkSameVersionCompatibility(d, previous, candidate) ==
    previous = candidate /\ Comparable(d, previous, candidate)

checkOldProducerToNewConsumerCompatibility(d, previous, candidate) ==
    /\ HasIdentity(previous) /\ HasIdentity(candidate)
    /\ candidate.version = previous.version + 1
    /\ candidate.shape = previous.shape
    /\ Comparable(d, previous, candidate)

-----------------------------------------------------------------------------
ContractInit ==
    /\ defs \in [Name -> Shape]
    /\ schema \in [version : {1}, shape : Shape, profile : {"executable"}]
    /\ admitted = "unknown"
    /\ text = Leaf(0)
    /\ answer = "none"

\* The tools look at the catalog.
verifyContracts ==
    /\ admitted = "unknown"
    /\ admitted' = IF Admits(defs, schema.shape) THEN "yes" ELSE "no"
    /\ UNCHANGED <<defs, schema, text, answer>>

\* A message arrives.
Receive(t) ==
    /\ admitted = "yes" /\ answer = "none"
    /\ text' = t
    /\ answer' = IF parseAndValidateContract(defs, schema.shape, t) THEN "valid" ELSE "invalid"
    /\ UNCHANGED <<defs, schema, admitted>>

\* A later schema, found compatible, takes the place of the one in the catalog.
Supersede(candidate) ==
    /\ admitted = "yes"
    /\ \/ checkSameVersionCompatibility(defs, schema, candidate)
       \/ checkOldProducerToNewConsumerCompatibility(defs, schema, candidate)
    /\ schema' = candidate
    /\ UNCHANGED <<defs, admitted, text, answer>>

ContractNext ==
    \/ verifyContracts
    \/ \E t \in Text : Receive(t)
    \/ \E candidate \in Schema : Supersede(candidate)

ContractSpec == ContractInit /\ [][ContractNext]_contractVars

-----------------------------------------------------------------------------
\* What the keywords mean: without a budget, for every item and member.

Below(d, names) == names \cup UNION {References(d[n]) : n \in names \cap Name}
Circular(d) == \E n \in Name : n \in Below(d, Below(d, References(d[n])))

\* Whether a value fits a shape, where fits[n] are the values that fit the definition n.
Fits(shape, fits, v) ==
    CASE shape.kind = "const" -> v = Leaf(shape.is)
      [] shape.kind = "ref"   -> v \in fits[shape.to]
      [] shape.kind = "oneOf" -> (v \in fits[shape.of[1].to]) # (v \in fits[shape.of[2].to])
      [] shape.kind = "anyOf" -> v \in fits[shape.of[1].to] \/ v \in fits[shape.of[2].to]
      [] shape.kind = "object" ->
           /\ v.kind = "record"
           /\ "x" \in DOMAIN v.of /\ DOMAIN v.of \subseteq {"x", "y"}
           /\ \A key \in DOMAIN v.of : v.of[key] \in fits[shape[key].to]
      [] shape.kind = "array" ->
           /\ v.kind = "list"
           /\ Len(v.items) <= shape.max
           /\ \A i, j \in DOMAIN v.items : i # j => v.items[i] # v.items[j]
           /\ \A i \in DOMAIN v.items : v.items[i] \in fits[shape.of.to]

\* Which of some values fit the definitions.  Where no definition refers to itself, one that
\* refers to none is settled by the first round, and the other by the second.
Meaning(d, values) ==
    LET Round(fits) == [n \in Name |-> {v \in values : Fits(d[n], fits, v)}]
    IN Round(Round([n \in Name |-> {}]))

Conforms(d, shape, v) == Fits(shape, Meaning(d, Under(v)), v)

\* No part of a value fits both alternatives: the choices of the catalog tell by a member
\* with one value (messageKind, variant, stage) or by a kind.
Discriminated(d, v) == Meaning(d, Under(v))["a"] \cap Meaning(d, Under(v))["b"] = {}

\* In an admitted catalog no definition refers to itself and no reference dangles, and a
\* message found valid conforms to its schema and to every schema that later takes its
\* place, whichever of two members of one name a reader takes, although inspect stops at
\* its budgets, looks at so many items only, and walks a definition for each reference.
AcceptedConforms ==
    admitted = "yes" =>
        /\ ~Circular(defs)
        /\ \A n \in Name : References(defs[n]) \subseteq Name
        /\ answer = "valid" /\ Discriminated(defs, Value(text, "last")) =>
              \A take \in {"first", "last"} : Conforms(defs, schema.shape, Value(text, take))
=============================================================================
