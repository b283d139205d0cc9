---------------------------- MODULE RecallParity ----------------------------
(***************************************************************************)
(* The two stores of the recall ledger given the same commands.  A command *)
(* that one of them refuses leaves that one unchanged; one that both       *)
(* refuse is a stuttering step.                                            *)
(***************************************************************************)
EXTENDS LocalRecall

VARIABLES rows, propagated

Sql == INSTANCE SqlRecall

vars == <<localVars, rows, propagated>>

Init == LocalInit /\ Sql!SqlInit

\* One command: a store that refuses it stays as it is, and one of them takes it.
Taken(local, sql, Local, InSql) ==
    /\ local \/ sql
    /\ IF local THEN Local ELSE UNCHANGED localVars
    /\ IF sql THEN InSql ELSE UNCHANGED <<rows, propagated>>

Teach(f, draft) ==
    Taken(~Taught(f), ~Sql!HasRow(rows, f, 1), LocalTeach(f, draft), Sql!SqlTeach(f, draft))

Supersede(f, expected, draft) ==
    Taken(Correctable(f, expected) /\ HasSuccessor(expected),
          Sql!SupersedeCommits(f, expected, draft),
          LocalSupersede(f, expected, draft), Sql!SqlSupersede(f, expected, draft))

Retract(f, expected) ==
    Taken(Correctable(f, expected), Sql!RetractCommits(f, expected),
          LocalRetract(f, expected), Sql!SqlRetract(f, expected))

Next ==
    \/ \E f \in Fact, draft \in Draft : Teach(f, draft)
    \/ \E f \in Fact, expected \in 1..MaxRevision, draft \in Draft : Supersede(f, expected, draft)
    \/ \E f \in Fact, expected \in 1..MaxRevision : Retract(f, expected)
    \/ \E tier \in Tier, k \in 1..MaxTopK : LocalAsk(tier, k) /\ UNCHANGED <<rows, propagated>>

Spec == Init /\ [][Next]_vars

---------------------------------------------------------------------------
\* Both stores hold the same current version of every fact after the same commands; and no row
\* that recallSelect returns is withheld from that caller by the local repository: the SQL path
\* discloses no fact that the in-memory path would not disclose to a larger topK.
SameFacts ==
    /\ propagations = propagated
    /\ \A f \in Fact :
          /\ Taught(f) <=> Sql!HasRow(rows, f, 1)
          /\ Taught(f) =>
                LET x == Sql!Newest(f)
                IN  /\ x.revision = latest[f].revision
                    /\ x.status = latest[f].status
                    /\ x.sensitivity = latest[f].sensitivity
                    /\ x.similarity = latest[f].similarity
    /\ \A tier \in Tier, k \in 1..MaxTopK : \A x \in Sql!Selected(tier, k) :
          /\ x.fact \in Disclosed(tier, Cardinality(Fact))
          /\ x.revision = latest[x.fact].revision

\* "Retraction erases content and embeddings across EVERY revision", in either store, whatever
\* was superseded before.
RetractionIsTotal == ErasureIsTotal /\ Sql!RetractionIsTotal

\* Both stores are well formed: values of their types, the in-memory maps and the propagation
\* log telling one story, one active row per fact, the newest of a gapless chain, although no
\* plan looks at a row count; and receipts are sound, taken together and each by itself.
StoresInv ==
    /\ LocalTypeOK /\ MapsAgree /\ ReceiptsNeverGoBack /\ StandardSeesPublic
    /\ Sql!SqlTypeOK /\ Sql!OneActiveRevision /\ Sql!RevisionsAreChained
    /\ RetractionIsTotal

\* The plans and the keys of the tables implement the ledger's compare-and-set, and with
\* SameFacts so does the in-memory store.
ImplementsLedger == Sql!SqlImplementsLedger

---------------------------------------------------------------------------
\* For model checking: embeddings opposed to the question, so that an erased one ranks before
\* its caller's other facts.
Similarities == {-1}
=============================================================================
