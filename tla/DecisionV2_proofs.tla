------------------------- MODULE DecisionV2_proofs -------------------------
(***************************************************************************)
(* The safety properties of DecisionV2, for every store, question, glossary*)
(* and number of edits.  All of them follow from one inductive invariant,  *)
(* DecisionInv: what each read left behind is still explained by the store *)
(* or by an edit since, and what was chosen is the selection over it.      *)
(***************************************************************************)
EXTENDS DecisionV2, Ordering_proofs, SequenceTheorems, TLAPS

----------------------------------------------------------------------------
(* The ranking.                                                            *)

ReadTypes ==
  /\ found \subseteq [id : Artifacts, status : {"PUBLISHED"}]
  /\ gloss \in [terms : SUBSET Terms, synonyms : SUBSET Synonyms]

(* artifact_selector.py:132-145: a score is a number.                      *)
LEMMA ScoreIsInt ==
  ASSUME NEW a \in Artifacts
  PROVE  Score(a) \in Int
<1>1. ASSUME NEW weight PROVE Weighing(a, weight) \in Nat
  <2>1. {surface \in Hits(a) : Weight(a, surface) = weight} \in SUBSET Question
    BY DEF Hits
  <2>2. IsFiniteSet(Question)
    BY DecisionAssumption
  <2> QED
    BY <2>1, <2>2, FS_Subset, FS_CardinalityType DEF Weighing
<1>2. TermScore(a) \in Int
  BY <1>1 DEF TermScore
<1>3. Row[a].similarity \in Int
  BY DecisionAssumption
<1>4. Min({TermScore(a), 30}) \in Int /\ Max({Row[a].similarity, 0}) \in Int
  BY <1>2, <1>3, OfTwo, Zenon
<1>5. Similarity(a) \in Int
  BY <1>4 DEF Similarity
<1> QED
  BY <1>4, <1>5 DEF Score

(* artifact_selector.py:161: (-score, artifact_id) ranks any artifacts.    *)
LEMMA OrderIsStrict ==
  ASSUME NEW S \in SUBSET Artifacts
  PROVE  StrictOrder(S, Order)
<1> DEFINE score == [a \in Artifacts |-> Score(a)]
<1>1. score \in [Artifacts -> Int]
  BY ScoreIsInt
<1>2. \A a, b \in Artifacts :
        <<a, b>> \in Order <=>
          \/ score[a] > score[b]
          \/ score[a] = score[b] /\ IdRank[a] < IdRank[b]
  BY DEF Order, Before
<1>3. IdRank \in [Artifacts -> Nat]
      /\ \A a, b \in Artifacts : IdRank[a] = IdRank[b] => a = b
  BY DecisionAssumption
<1> HIDE DEF score
<1>4. \A x \in S : <<x, x>> \notin Order
  BY <1>1, <1>2, <1>3
<1>5. \A x, y \in S : x # y => <<x, y>> \in Order \/ <<y, x>> \in Order
  <2> SUFFICES ASSUME NEW x \in S, NEW y \in S, x # y
               PROVE  <<x, y>> \in Order \/ <<y, x>> \in Order
    OBVIOUS
  <2>1. score[x] \in Int /\ score[y] \in Int /\ IdRank[x] \in Nat /\ IdRank[y] \in Nat
    BY <1>1, <1>3
  <2>2. IdRank[x] # IdRank[y]
    BY <1>3
  <2> QED
    BY <1>2, <2>1, <2>2
<1>6. \A x, y, z \in S : <<x, y>> \in Order /\ <<y, z>> \in Order => <<x, z>> \in Order
  <2> SUFFICES ASSUME NEW x \in S, NEW y \in S, NEW z \in S,
                      <<x, y>> \in Order, <<y, z>> \in Order
               PROVE  <<x, z>> \in Order
    OBVIOUS
  <2>1. /\ score[x] \in Int /\ score[y] \in Int /\ score[z] \in Int
        /\ IdRank[x] \in Nat /\ IdRank[y] \in Nat /\ IdRank[z] \in Nat
    BY <1>1, <1>3
  <2> QED
    BY <1>2, <2>1
<1> QED
  BY <1>4, <1>5, <1>6 DEF StrictOrder

(* The first TopK of a sequence.                                           *)
LEMMA BestIsPrefix ==
  ASSUME NEW S, NEW k \in Nat, NEW ranked \in [1..k -> S]
  PROVE  /\ Best(ranked) \in Seq(S)
         /\ Len(Best(ranked)) <= TopK
         /\ Len(Best(ranked)) <= k
         /\ k > 0 => Len(Best(ranked)) > 0
         /\ k > Len(Best(ranked)) => Len(Best(ranked)) = TopK
         /\ \A i \in 1..Len(Best(ranked)) : Best(ranked)[i] = ranked[i]
<1>1. TopK \in Nat /\ TopK > 0
  BY DecisionAssumption
<1>2. ranked \in Seq(S) /\ Len(ranked) = k
  <2>1. ranked \in Seq(S)
    OBVIOUS
  <2> QED
    BY <2>1, LenProperties
<1> DEFINE m == Min({TopK, k})
<1>3. m = IF TopK <= k THEN TopK ELSE k
  <2>1. TopK \in Int /\ k \in Int
    BY <1>1
  <2> QED
    BY <2>1, OfTwo, Zenon
<1> HIDE DEF m
<1>4. Best(ranked) = SubSeq(ranked, 1, m)
  BY <1>2 DEF Best, m
<1>5. m \in 0..k
  BY <1>1, <1>3
<1>6. \A i \in 1..m : ranked[i] \in S
  BY <1>5
<1>7. /\ SubSeq(ranked, 1, m) \in Seq(S)
      /\ Len(SubSeq(ranked, 1, m)) = IF 1 <= m THEN m - 1 + 1 ELSE 0
      /\ \A i \in 1..(m - 1 + 1) : SubSeq(ranked, 1, m)[i] = ranked[1 + i - 1]
  BY <1>5, <1>6, SubSeqProperties
<1>8. Len(Best(ranked)) = m
  BY <1>4, <1>5, <1>7
<1>9. \A i \in 1..m : Best(ranked)[i] = ranked[i]
  BY <1>4, <1>5, <1>7
<1> QED
  BY <1>1, <1>3, <1>4, <1>5, <1>7, <1>8, <1>9

LEMMA CandidatesAreFinite ==
  ASSUME ReadTypes, NEW now
  PROVE  Candidates(now) \in SUBSET Artifacts /\ IsFiniteSet(Candidates(now))
<1>1. Candidates(now) \in SUBSET Artifacts
  BY DEF Candidates, Eligible, ReadTypes
<1> QED
  BY <1>1, DecisionAssumption, FS_Subset

(* artifact_selector.py:154-163: the selection is made of candidates, best *)
(* first, and leaves one out only when it is full and the last kept is     *)
(* better.                                                                 *)
LEMMA SelectionRanks ==
  ASSUME ReadTypes, NEW now
  PROVE  /\ Selection(now) \in Seq(Artifacts)
         /\ Len(Selection(now)) <= TopK
         /\ Candidates(now) = {} <=> Selection(now) = <<>>
         /\ \A i \in 1..Len(Selection(now)) : Selection(now)[i] \in Candidates(now)
         /\ \A i, j \in 1..Len(Selection(now)) :
              i < j => Before(Selection(now)[i], Selection(now)[j])
         /\ \A a \in Candidates(now) :
              \/ \E i \in 1..Len(Selection(now)) : Selection(now)[i] = a
              \/ /\ Len(Selection(now)) = TopK
                 /\ Before(Selection(now)[Len(Selection(now))], a)
<1> DEFINE S == Candidates(now)
           k == Cardinality(S)
           ranked == SortedBy(S, Order)
           best == Best(ranked)
<1>1. S \in SUBSET Artifacts /\ IsFiniteSet(S)
  BY CandidatesAreFinite
<1>2. /\ k \in Nat
      /\ ranked \in [1..k -> S]
      /\ \A x \in S : \E n \in 1..k : ranked[n] = x
      /\ \A m, n \in 1..k : m < n => <<ranked[m], ranked[n]>> \in Order
  BY <1>1, OrderIsStrict, SortedByOrders
<1>3. S # {} => k > 0
  BY <1>1, <1>2, FS_EmptySet
<1>4. Selection(now) = best
  BY DEF Selection
<1>5. /\ best \in Seq(S) /\ Len(best) <= TopK /\ Len(best) <= k
      /\ k > 0 => Len(best) > 0
      /\ k > Len(best) => Len(best) = TopK
      /\ \A i \in 1..Len(best) : best[i] = ranked[i]
  BY <1>2, BestIsPrefix
<1>6. Len(best) \in Nat
  BY <1>5, LenProperties
<1> HIDE DEF ranked, best, k, S
<1>7. \A i \in 1..Len(best) : best[i] \in S
  BY <1>2, <1>5, <1>6
<1>8. best \in Seq(Artifacts)
  BY <1>1, <1>5, SeqMonotonic
<1>9. \A m, n \in 1..k : m < n => Before(ranked[m], ranked[n])
  BY <1>1, <1>2 DEF Order
<1>10. \A i, j \in 1..Len(best) : i < j => Before(best[i], best[j])
  <2> SUFFICES ASSUME NEW i \in 1..Len(best), NEW j \in 1..Len(best), i < j
               PROVE  Before(best[i], best[j])
    OBVIOUS
  <2>1. i \in 1..k /\ j \in 1..k /\ best[i] = ranked[i] /\ best[j] = ranked[j]
    BY <1>2, <1>5, <1>6
  <2> QED
    BY <1>9, <2>1
<1>11. ASSUME NEW a \in S, \A i \in 1..Len(best) : best[i] # a
       PROVE  Len(best) = TopK /\ Before(best[Len(best)], a)
  <2>1. PICK n \in 1..k : ranked[n] = a
    BY <1>2
  <2>2. ~(n <= Len(best))
    BY <1>5, <1>6, <1>11, <2>1
  <2>3. Len(best) = TopK
    BY <1>2, <1>5, <1>6, <2>2
  <2>4. Len(best) \in 1..k /\ Len(best) < n /\ Len(best) \in 1..Len(best)
    BY <1>2, <1>5, <1>6, <2>2, <2>3, DecisionAssumption
  <2>5. Before(ranked[Len(best)], ranked[n])
    BY <1>9, <2>4
  <2> QED
    BY <1>5, <2>1, <2>3, <2>4, <2>5
<1>12. S = {} <=> best = <<>>
  <2>1. S # {} => best # <<>>
    BY <1>3, <1>5, <1>6
  <2>2. S = {} => Len(best) = 0
    BY <1>6, <1>7
  <2> QED
    BY <1>5, <2>1, <2>2, EmptySeq
<1> QED
  BY <1>4, <1>5, <1>7, <1>8, <1>10, <1>11, <1>12 DEF S

----------------------------------------------------------------------------
(* The inductive invariant.                                                *)

(* What a moment of the call knows of the variables later ones set.        *)
Shape ==
  /\ pc = "idle" => found = {} /\ known = {}
  /\ pc \notin {"selecting", "payloads", "done"} => gloss.synonyms = {}
  /\ pc # "done" => code = 0 /\ rejected = {} /\ tables = {}
  /\ pc \notin {"payloads", "done"} => picked = <<>>
  /\ pc = "payloads" => picked # <<>>

(* What was chosen is the selection over what was read, at chosenAt.       *)
Chosen ==
  /\ picked # <<>> => picked = Selection(chosenAt)
  /\ Blocked => /\ tables = {} /\ rejected = Blockers(chosenAt)
                /\ Candidates(chosenAt) = {}

(* A row that was read is still in the store, or an edit has touched it.   *)
Reads ==
  /\ \A rec \in found : WasPublished(rec.id)
  /\ \A rec \in found : Row[rec.id].tenant = caller.tenant
  /\ pc \in {"snapshots", "terms", "synonyms", "selecting", "payloads"} \/ code = 200
       => \A rec \in found : rec.id \in vectors
  /\ \A s \in known : SnapshotTenant[s] = caller.tenant /\ WasRegistered(s)
  /\ pc = "synonyms" => Stable \cap terms \subseteq gloss.terms \cup touched
  /\ \A s \in gloss.synonyms :
       SynonymOf[s] \in gloss.terms \cup touched \/ SynonymOf[s] \notin Stable

DecisionInv == TypeOK /\ Shape /\ Chosen /\ Reads /\ ContextCompleteIfUntouched

(* While what was read stays, so does everything computed from it.         *)
LEMMA FrozenReads ==
  ASSUME UNCHANGED <<found, vectors, known, gloss, caller>>
  PROVE  \A now : /\ Candidates(now)' = Candidates(now)
                  /\ Selection(now)' = Selection(now)
                  /\ Blockers(now)' = Blockers(now)
<1> SUFFICES ASSUME NEW now
             PROVE  /\ Candidates(now)' = Candidates(now)
                    /\ Selection(now)' = Selection(now)
                    /\ Blockers(now)' = Blockers(now)
  OBVIOUS
<1>1. \A rec : Failed(rec, now)' = Failed(rec, now)
  BY DEF Failed, Tests, RoleDenied, NotYetValid, Expired, Second
<1>2. \A rec : Reason(rec, now)' = Reason(rec, now)
  <2> SUFFICES ASSUME NEW rec PROVE Reason(rec, now)' = Reason(rec, now)
    OBVIOUS
  <2>1. Failed(rec, now)' = Failed(rec, now)
    BY <1>1
  <2> QED
    BY <2>1, Zenon DEF Reason
<1>3. Eligible(now)' = Eligible(now)
  BY <1>1 DEF Eligible
<1>4. \A a : Hits(a)' = Hits(a)
  BY DEF Hits, Surfaces
<1>5. \A a, surface : Weight(a, surface)' = Weight(a, surface)
  BY DEF Weight
<1>6. \A a, weight : Weighing(a, weight)' = Weighing(a, weight)
  BY <1>4, <1>5 DEF Weighing
<1>7. \A a, b : Before(a, b)' = Before(a, b)
  BY <1>6 DEF Before, Score, TermScore, Similarity
<1>8. Order' = Order
  BY <1>7 DEF Order
<1>9. Candidates(now)' = Candidates(now)
  BY <1>3, <1>4 DEF Candidates
<1>10. Selection(now)' = Selection(now)
  BY <1>8, <1>9 DEF Selection, Best
<1>11. Blockers(now)' = Blockers(now)
  BY <1>2, <1>3 DEF Blockers, Blocker
<1> QED
  BY <1>9, <1>10, <1>11

(* v2_store.py:125-160: what the queries return.                           *)
LEMMA QueriesTyped ==
  ASSUME StoreTypeOK, NEW tenant, NEW ids
  PROVE  /\ ListPublished(tenant) \subseteq Artifacts
         /\ ArtifactEmbeddings(tenant) \subseteq Artifacts
         /\ KnownSnapshotIds(tenant) \subseteq Snapshots
         /\ SnapshotPayloads(tenant, ids) \subseteq Snapshots
         /\ GlossaryTerms \subseteq Terms /\ GlossarySynonyms \subseteq Synonyms
  BY DEF StoreTypeOK, ListPublished, ArtifactEmbeddings, KnownSnapshotIds, SnapshotPayloads,
         GlossaryTerms, GlossarySynonyms

LEMMA InitInv == Init => DecisionInv
<1> SUFFICES ASSUME Init PROVE DecisionInv
  OBVIOUS
<1>1. TypeOK
  <2>1. picked \in Seq(Artifacts) /\ Len(picked) <= TopK
    BY EmptySeq, DecisionAssumption DEF Init
  <2>2. StoreTypeOK
    BY StoreAssumption DEF Init, StoreInit, StoreTypeOK, Status
  <2> QED
    BY <2>1, <2>2, DecisionAssumption DEF Init, TypeOK, Internal
<1>2. Shape /\ Chosen /\ Reads /\ ContextCompleteIfUntouched
  BY DEF Init, Shape, Chosen, Blocked, Reads, ContextCompleteIfUntouched, Ready
<1> QED
  BY <1>1, <1>2 DEF DecisionInv

(* The publisher's writes keep the store well-formed.                      *)
LEMMA PublisherTyped ==
  ASSUME StoreTypeOK, NEW row, Publisher(row)
  PROVE  StoreTypeOK'
<1> USE StoreAssumption DEF StoreTypeOK, Edit, Status
<1>1. CASE EditArtifact(row)
  BY <1>1 DEF EditArtifact
<1>2. CASE EditSnapshot(row)
  BY <1>2 DEF EditSnapshot, Toggled
<1>3. CASE EditTerm(row)
  BY <1>3 DEF EditTerm, Toggled
<1>4. CASE EditSynonym(row)
  BY <1>4 DEF EditSynonym, Toggled
<1> QED
  BY <1>1, <1>2, <1>3, <1>4 DEF Publisher

LEMMA TypeStep ==
  ASSUME TypeOK, [Next]_vars
  PROVE  TypeOK'
<1> USE DEF TypeOK, Waits, storeVars, readVars, answerVars, Static, Idle,
            Begin, Waiting, Answer
<1>store. UNCHANGED storeVars => StoreTypeOK'
  BY DEF StoreTypeOK
<1>1. CASE Refuse
  BY <1>1, <1>store DEF Refuse
<1>2. CASE Admit
  BY <1>2, <1>store, DecisionAssumption DEF Admit, Internal
<1>3. CASE Embed
  BY <1>3, <1>store DEF Embed
<1>4. CASE EmbedFails
  BY <1>4, <1>store DEF EmbedFails
<1>5. CASE ReadArtifacts
  <2>1. found' \subseteq [id : Artifacts, status : {"PUBLISHED"}]
    BY <1>5 DEF ReadArtifacts, ListPublished
  <2> QED
    BY <1>5, <1>store, <2>1 DEF ReadArtifacts
<1>6. CASE ReadSnapshotIds
  <2>1. known' \in SUBSET Snapshots
    BY <1>6 DEF ReadSnapshotIds, KnownSnapshotIds, StoreTypeOK
  <2> QED
    BY <1>6, <1>store, <2>1 DEF ReadSnapshotIds
<1>7. CASE ReadTerms
  BY <1>7, <1>store, QueriesTyped DEF ReadTerms
<1>8. CASE ReadSynonyms
  BY <1>8, <1>store, QueriesTyped DEF ReadSynonyms
<1>9. CASE Select
  <2>1. picked' \in Seq(Artifacts) /\ Len(picked') <= TopK
    BY <1>9, SelectionRanks DEF Select, ReadTypes
  <2>2. \A b \in Blockers(clock) : b.reference \in Artifacts \cup {NoReference}
    BY DEF Blockers, Blocker
  <2>3. \A b \in rejected' : b.reference \in Artifacts \cup {NoReference}
    BY <1>9, <2>2 DEF Select
  <2> QED
    BY <1>9, <1>store, <2>1, <2>3 DEF Select
<1>10. CASE ReadPayloads
  <2>1. \A ids, returned :
          returned \subseteq Snapshots =>
            ContextTables(ids, returned) \subseteq
              {<<s, t>> : s \in Snapshots, t \in UNION Range(SnapshotTables)}
    BY DecisionAssumption DEF ContextTables, Range
  <2>2. tables' \subseteq {<<s, t>> : s \in Snapshots, t \in UNION Range(SnapshotTables)}
    BY <1>10, <2>1, QueriesTyped DEF ReadPayloads
  <2> QED
    BY <1>10, <1>store, <2>2 DEF ReadPayloads
<1>11. CASE StoreFails
  BY <1>11, <1>store DEF StoreFails
<1>12. CASE Tick
  BY <1>12, <1>store, DecisionAssumption DEF Tick
<1>13. CASE Publish
  <2>1. PICK row \in Rows : Publisher(row) /\ touched' = touched \cup {row}
    BY <1>13 DEF Publish
  <2>2. StoreTypeOK'
    BY <2>1, PublisherTyped
  <2> QED
    BY <1>13, <2>1, <2>2 DEF Publish
<1>14. CASE UNCHANGED vars
  BY <1>14, <1>store DEF vars
<1>15. CASE ReadEmbeddings
  <2>1. vectors' = ArtifactEmbeddings(caller.tenant)
    BY <1>15 DEF ReadEmbeddings
  <2>2. StoreTypeOK
    BY DEF TypeOK
  <2>3. ArtifactEmbeddings(caller.tenant) \subseteq Artifacts
    BY <2>2, QueriesTyped, Zenon
  <2>4. vectors' \in SUBSET Artifacts
    BY <2>1, <2>3
  <2> QED
    BY <1>15, <1>store, <2>4 DEF ReadEmbeddings
<1> QED
  BY <1>1, <1>2, <1>3, <1>4, <1>5, <1>6, <1>7, <1>8, <1>9, <1>10, <1>11, <1>12,
     <1>13, <1>14, <1>15 DEF Next

LEMMA ShapeStep ==
  ASSUME TypeOK, Shape, [Next]_vars
  PROVE  Shape'
<1> USE DEF Shape, storeVars, readVars, answerVars, Static, Idle, Begin, Waiting, Answer
<1>1. CASE Refuse \/ Admit
  BY <1>1 DEF Refuse, Admit
<1>2. CASE Embed \/ EmbedFails \/ StoreFails
  BY <1>2 DEF Embed, EmbedFails, StoreFails
<1>3. CASE \/ ReadArtifacts \/ ReadEmbeddings \/ ReadSnapshotIds
            \/ ReadTerms \/ ReadSynonyms
  <2>1. ReadTerms => gloss'.synonyms = gloss.synonyms
    BY DEF ReadTerms, TypeOK
  <2> QED
    BY <1>3, <2>1
    DEF ReadArtifacts, ReadEmbeddings, ReadSnapshotIds, ReadTerms, ReadSynonyms
<1>4. CASE Select
  <2>1. Candidates(clock) # {} => Selection(clock) # <<>>
    BY SelectionRanks DEF TypeOK, ReadTypes
  <2> QED
    BY <1>4, <2>1 DEF Select
<1>5. CASE ReadPayloads
  BY <1>5 DEF ReadPayloads
<1>6. CASE Tick
  BY <1>6 DEF Tick
<1>7. CASE Publish
  BY <1>7 DEF Publish
<1>8. CASE UNCHANGED vars
  BY <1>8 DEF vars
<1> QED
  BY <1>1, <1>2, <1>3, <1>4, <1>5, <1>6, <1>7, <1>8 DEF Next

LEMMA ChosenStep ==
  ASSUME TypeOK, Shape, Chosen, [Next]_vars
  PROVE  Chosen'
<1> USE DEF Shape, Chosen, Blocked, storeVars, readVars, answerVars, Static, Idle,
            Begin, Waiting, Answer
<1>1. CASE UNCHANGED <<readVars, answerVars, caller, pc>>
  BY <1>1, FrozenReads
<1>2. CASE Refuse \/ Admit
  BY <1>2 DEF Refuse, Admit
<1>3. CASE Embed \/ EmbedFails
  BY <1>3 DEF Embed, EmbedFails
<1>4. CASE \/ ReadArtifacts \/ ReadEmbeddings \/ ReadSnapshotIds
            \/ ReadTerms \/ ReadSynonyms
  BY <1>4 DEF ReadArtifacts, ReadEmbeddings, ReadSnapshotIds, ReadTerms, ReadSynonyms
<1>5. CASE Select
  <2>1. chosenAt' = clock
    BY <1>5 DEF Select
  <2>3. Candidates(clock) # {} => pc' = "payloads"
    BY <1>5 DEF Select
  <2>4. \A now : /\ Selection(now)' = Selection(now) /\ Blockers(now)' = Blockers(now)
                 /\ Candidates(now)' = Candidates(now)
    BY <1>5, FrozenReads DEF Select
  <2>5. /\ Selection(chosenAt)' = Selection(clock) /\ Blockers(chosenAt)' = Blockers(clock)
        /\ Candidates(chosenAt)' = Candidates(clock)
    BY <2>1, <2>4
  <2> QED
    BY <1>5, <2>5 DEF Select
<1>6. CASE ReadPayloads
  BY <1>6, FrozenReads DEF ReadPayloads
<1>7. CASE StoreFails
  BY <1>7, FrozenReads DEF StoreFails
<1>8. CASE Tick \/ Publish \/ UNCHANGED vars
  BY <1>1, <1>8 DEF Tick, Publish, vars
<1> QED
  BY <1>2, <1>3, <1>4, <1>5, <1>6, <1>7, <1>8 DEF Next

(* v2_store.py:153-155: what a read returned stays true of the store, or   *)
(* the row is among those edited since the call began.                     *)
LEMMA ReadsStep ==
  ASSUME TypeOK, Shape, Reads, [Next]_vars
  PROVE  Reads'
<1> USE DEF Shape, Reads, WasPublished, WasRegistered, storeVars, readVars, answerVars,
            Static, Idle, Begin, Waiting, Answer
<1>1. CASE UNCHANGED <<storeVars, readVars, caller, touched, pc, code>>
  BY <1>1
<1>2. CASE Refuse \/ Admit
  BY <1>2 DEF Refuse, Admit
<1>3. CASE Embed \/ EmbedFails \/ StoreFails
  BY <1>3 DEF Embed, EmbedFails, StoreFails
<1>4. CASE ReadArtifacts
  BY <1>4 DEF ReadArtifacts, ListPublished
<1>12. CASE ReadEmbeddings
  <2>1. \A rec \in found : rec.id \in Artifacts
    BY DEF TypeOK
  <2>2. \A rec \in found : rec.id \in vectors'
    BY <1>12, <2>1 DEF ReadEmbeddings, ArtifactEmbeddings
  <2> QED
    BY <1>12, <2>2 DEF ReadEmbeddings
<1>5. CASE ReadSnapshotIds
  BY <1>5 DEF ReadSnapshotIds, KnownSnapshotIds
<1>6. CASE ReadTerms
  <2>1. /\ gloss' = [gloss EXCEPT !.terms = GlossaryTerms]
        /\ gloss \in [terms : SUBSET Terms, synonyms : SUBSET Synonyms]
    BY <1>6 DEF ReadTerms, TypeOK
  <2>2. gloss'.terms = terms \cap Stable /\ gloss'.synonyms = gloss.synonyms
    BY <2>1 DEF GlossaryTerms
  <2>3. Stable \cap terms' \subseteq gloss'.terms
    BY <1>6, <2>2 DEF ReadTerms
  <2>4. gloss'.synonyms = {}
    BY <1>6, <2>2 DEF ReadTerms
  <2> QED
    BY <1>6, <2>3, <2>4 DEF ReadTerms
<1>7. CASE ReadSynonyms
  <2>1. /\ gloss' = [gloss EXCEPT !.synonyms = GlossarySynonyms]
        /\ gloss \in [terms : SUBSET Terms, synonyms : SUBSET Synonyms]
    BY <1>7 DEF ReadSynonyms, TypeOK
  <2>2. /\ gloss'.terms = gloss.terms
        /\ \A s \in gloss'.synonyms : SynonymOf[s] \in terms
    BY <2>1 DEF GlossarySynonyms
  <2>3. /\ UNCHANGED <<storeVars, found, vectors, known, caller, touched, code>>
        /\ pc = "synonyms" /\ pc' = "selecting"
    BY <1>7 DEF ReadSynonyms
  <2>4. \A s \in gloss'.synonyms :
          SynonymOf[s] \in gloss'.terms \cup touched' \/ SynonymOf[s] \notin Stable
    BY <2>2, <2>3
  <2> QED
    BY <2>3, <2>4
<1>8. CASE Select
  BY <1>8 DEF Select
<1>9. CASE ReadPayloads
  BY <1>9 DEF ReadPayloads
<1>10. CASE Publish
  <2>1. PICK row \in Rows : Publisher(row) /\ touched' = touched \cup {row}
    BY <1>10 DEF Publish
  <2>2. /\ \A a \in Artifacts : status'[a] = status[a] \/ a = row
        /\ \A s : s \in snapshots => s \in snapshots' \/ s = row
        /\ \A t : t \in terms' => t \in terms \/ t = row
    <3> USE DEF TypeOK, StoreTypeOK
    <3>1. CASE EditArtifact(row)
      BY <3>1 DEF EditArtifact
    <3>2. CASE EditSnapshot(row)
      BY <3>2 DEF EditSnapshot, Toggled
    <3>3. CASE EditTerm(row)
      BY <3>3 DEF EditTerm, Toggled
    <3>4. CASE EditSynonym(row)
      BY <3>4 DEF EditSynonym
    <3> QED
      BY <2>1, <3>1, <3>2, <3>3, <3>4 DEF Publisher
  <2>3. \A rec \in found : rec.id \in Artifacts
    BY DEF TypeOK
  <2>4. UNCHANGED <<readVars, caller, pc>>
    BY <1>10 DEF Publish
  <2>5. \A rec \in found' : WasPublished(rec.id)'
    BY <2>1, <2>2, <2>3, <2>4
  <2>6. \A s \in known' : SnapshotTenant[s] = caller'.tenant /\ WasRegistered(s)'
    BY <2>1, <2>2, <2>4
  <2> QED
    BY <1>10, <2>1, <2>2, <2>4, <2>5, <2>6 DEF Publish
<1>11. CASE Tick \/ UNCHANGED vars
  BY <1>1, <1>11 DEF Tick, vars
<1> QED
  BY <1>2, <1>3, <1>4, <1>5, <1>6, <1>7, <1>8, <1>9, <1>10, <1>11, <1>12 DEF Next

(* A selected artifact passed every test of hard_filter and has a name or  *)
(* a glossary entry in the question.                                       *)
LEMMA PickedPasses ==
  ASSUME TypeOK, Chosen, NEW a \in Range(picked)
  PROVE  a \in Candidates(chosenAt) /\ a \in Artifacts
<1>1. PICK i \in DOMAIN picked : picked[i] = a
  BY DEF Range
<1>2. DOMAIN picked = 1..Len(picked)
  BY LenProperties DEF TypeOK
<1>3. picked # <<>>
  BY <1>1, <1>2, EmptySeq
<1>4. a \in Candidates(chosenAt)
  BY <1>1, <1>2, <1>3, SelectionRanks DEF Chosen, TypeOK, ReadTypes
<1> QED
  BY <1>4, CandidatesAreFinite DEF TypeOK, ReadTypes

(* artifact_selector.py:68-101: the tests a candidate passed.              *)
LEMMA CandidatePasses ==
  ASSUME ReadTypes, NEW now, NEW a \in Candidates(now)
  PROVE  \E rec \in found :
           /\ rec.id = a /\ Row[a].tenant = caller.tenant /\ Row[a].ready
           /\ ~NotYetValid(a, now) /\ ~Expired(a, now)
           /\ Row[a].snapshot \in known /\ ~RoleDenied(a)
           /\ Hits(a) # {}
<1>1. PICK rec \in Eligible(now) : rec.id = a
  BY DEF Candidates
<1>2. rec \in found /\ Failed(rec, now) = {} /\ Hits(a) # {}
  BY <1>1 DEF Eligible, Candidates
<1>3. \A test \in Tests(rec, now) : ~test[3]
  BY <1>2 DEF Failed
<1> QED
  BY <1>1, <1>2, <1>3 DEF Tests

(* bundle_assembler.py:149-157.                                            *)
LEMMA ContextStep ==
  ASSUME TypeOK, Shape, Chosen, Reads, ContextCompleteIfUntouched, [Next]_vars
  PROVE  ContextCompleteIfUntouched'
<1> USE DEF ContextCompleteIfUntouched, ContextComplete, Ready, Shape, storeVars,
            readVars, answerVars, Static, Idle, Begin, Waiting, Answer
<1>1. CASE UNCHANGED <<answerVars, touched, pc>>
  BY <1>1
<1>2. CASE Refuse \/ Admit
  BY <1>2 DEF Refuse, Admit
<1>3. CASE Embed \/ EmbedFails \/ StoreFails
  BY <1>3 DEF Embed, EmbedFails, StoreFails
<1>4. CASE \/ ReadArtifacts \/ ReadEmbeddings \/ ReadSnapshotIds
            \/ ReadTerms \/ ReadSynonyms
  BY <1>4 DEF ReadArtifacts, ReadEmbeddings, ReadSnapshotIds, ReadTerms, ReadSynonyms
<1>5. CASE Select
  <2>1. Candidates(clock) = {} => Selection(clock) = <<>>
    BY SelectionRanks DEF TypeOK, ReadTypes
  <2> QED
    BY <1>5, <2>1 DEF Select
<1>6. CASE ReadPayloads
  <2> DEFINE asked == {Row[a].snapshot : a \in Range(picked)}
             returned == SnapshotPayloads(caller.tenant, asked)
  <2>1. SUFFICES ASSUME touched \cap Snapshots = {}, NEW a \in Range(picked),
                        NEW t \in Row[a].tables \cap SnapshotTables[Row[a].snapshot]
                 PROVE  <<Row[a].snapshot, t>> \in tables'
    BY <1>6 DEF ReadPayloads
  <2>2. Row[a].snapshot \in known
    BY PickedPasses, CandidatePasses DEF TypeOK, ReadTypes
  <2>3. /\ Row[a].snapshot \in Snapshots /\ Row[a].snapshot \in snapshots
        /\ SnapshotTenant[Row[a].snapshot] = caller.tenant
    BY <2>1, <2>2 DEF Reads, WasRegistered, TypeOK
  <2>4. Row[a].snapshot \in returned
    BY <2>3 DEF SnapshotPayloads, KnownSnapshotIds
  <2>5. t \in Allowed(Range(picked))
    BY DEF Allowed
  <2>6. tables' = ContextTables(Range(picked), returned)
    BY <1>6 DEF ReadPayloads
  <2> HIDE DEF returned
  <2> QED
    BY <2>4, <2>5, <2>6 DEF ContextTables
<1>7. CASE Publish
  BY <1>7 DEF Publish
<1>8. CASE Tick \/ UNCHANGED vars
  BY <1>1, <1>8 DEF Tick, vars
<1> QED
  BY <1>2, <1>3, <1>4, <1>5, <1>6, <1>7, <1>8 DEF Next

(* The five parts together.                                                *)
LEMMA DecisionInvariant == Spec => []DecisionInv
<1>1. DecisionInv /\ [Next]_vars => DecisionInv'
  BY TypeStep, ShapeStep, ChosenStep, ReadsStep, ContextStep DEF DecisionInv
<1> QED
  BY InitInv, <1>1, PTL DEF Spec

----------------------------------------------------------------------------
(* The properties.                                                         *)

(* decision_v2.py:77-115: every variable of a call has its type, whatever  *)
(* the publisher does meanwhile.                                           *)
THEOREM TypeCorrect == Spec => []TypeOK
  BY DecisionInvariant, PTL DEF DecisionInv

(* Timestamps cut to the second: a moment not before another's second is   *)
(* less than a second before it.                                           *)
LEMMA WithinASecond ==
  ASSUME NEW now \in Nat, NEW then \in Nat, Second(now) >= Second(then)
  PROVE  now + TicksPerSecond > then
<1> DEFINE T == TicksPerSecond
           p == now \div T
           q == then \div T
<1>1. T \in Nat /\ T > 0
  BY DecisionAssumption
<1>2. p \in Int /\ q \in Int /\ q <= p
  BY <1>1 DEF Second
<1>3. /\ now = T * p + (now % T) /\ (now % T) >= 0
      /\ then = T * q + (then % T) /\ (then % T) < T
      /\ (now % T) \in Int /\ (then % T) \in Int
  BY <1>1
<1> HIDE DEF p, q, T
<1>4. T * q <= T * p
  <2>1. PICK d \in Nat : p = q + d
    BY <1>2
  <2>2. T * (q + d) = T * q + T * d /\ T * d >= 0 /\ T * q \in Int /\ T * d \in Int
    BY <1>1, <1>2
  <2> QED
    BY <2>1, <2>2
<1>5. T * q \in Int /\ T * p \in Int
  BY <1>1, <1>2
<1>6. now + T > then
  BY <1>1, <1>3, <1>4, <1>5
<1> QED
  BY <1>6 DEF T

(* artifact_selector.py:68-99 over reads made at different moments:        *)
(* a ready bundle holds only artifacts that were eligible in the call.     *)
THEOREM ReadyIsEligible == Spec => []ReadyBundleEligible
<1>1. DecisionInv => ReadyBundleEligible
  <2> SUFFICES ASSUME DecisionInv, NEW a \in Range(picked)
               PROVE  /\ Row[a].tenant = caller.tenant /\ Row[a].ready
                      /\ Row[a].roles = {} \/ Row[a].roles \cap caller.roles # {}
                      /\ WasPublished(a) /\ WasRegistered(Row[a].snapshot)
                      /\ Row[a].from # NoTime => chosenAt + TicksPerSecond > Row[a].from
                      /\ Row[a].to # NoTime => chosenAt < Row[a].to + TicksPerSecond
                      /\ Hits(a) # {}
    BY DEF ReadyBundleEligible
  <2> USE DEF DecisionInv
  <2>1. a \in Artifacts /\ a \in Candidates(chosenAt)
    BY PickedPasses
  <2>2. PICK rec \in found :
           /\ rec.id = a /\ Row[a].tenant = caller.tenant /\ Row[a].ready
           /\ ~NotYetValid(a, chosenAt) /\ ~Expired(a, chosenAt)
           /\ Row[a].snapshot \in known /\ ~RoleDenied(a)
           /\ Hits(a) # {}
    BY <2>1, CandidatePasses DEF TypeOK, ReadTypes
  <2>3. WasPublished(a) /\ WasRegistered(Row[a].snapshot)
    BY <2>2 DEF Reads
  <2>4. Row[a].roles = {} \/ Row[a].roles \cap caller.roles # {}
    BY <2>2 DEF RoleDenied
  <2>5. chosenAt \in Nat
    BY DecisionAssumption DEF TypeOK
  <2>6. Row[a].from \in Nat \cup {NoTime} /\ Row[a].to \in Nat \cup {NoTime}
    BY <2>1, DecisionAssumption
  <2>7. \A t \in Nat : Second(t) \in Int
    BY DecisionAssumption DEF Second
  <2>8. ASSUME Row[a].from # NoTime
        PROVE  chosenAt + TicksPerSecond > Row[a].from
    <3>1. Row[a].from \in Nat /\ Second(chosenAt) >= Second(Row[a].from)
      BY <2>2, <2>5, <2>6, <2>7, <2>8 DEF NotYetValid
    <3> QED
      BY <2>5, <3>1, WithinASecond
  <2>9. ASSUME Row[a].to # NoTime
        PROVE  chosenAt < Row[a].to + TicksPerSecond
    <3>1. Row[a].to \in Nat /\ Second(Row[a].to) >= Second(chosenAt)
      BY <2>2, <2>5, <2>6, <2>7, <2>9 DEF Expired
    <3>2. Row[a].to + TicksPerSecond > chosenAt
      BY <2>5, <3>1, WithinASecond
    <3> QED
      BY <2>5, <3>1, <3>2, DecisionAssumption
  <2> QED
    BY <2>2, <2>3, <2>4, <2>8, <2>9
<1> QED
  BY <1>1, DecisionInvariant, PTL

(* artifact_selector.py:154-163: an eligible artifact left out of a ready  *)
(* bundle loses to each of the top_k that are in it.                       *)
THEOREM NothingBetterOut == Spec => []NothingBetterLeftOut
<1>1. DecisionInv => NothingBetterLeftOut
  <2> SUFFICES ASSUME DecisionInv, picked # <<>>
               PROVE  /\ \A i, j \in DOMAIN picked : i < j => Before(picked[i], picked[j])
                      /\ \A a \in Candidates(chosenAt) \ Range(picked) :
                           Len(picked) = TopK /\ Before(Last(picked), a)
    BY DEF NothingBetterLeftOut, Ready
  <2>1. picked = Selection(chosenAt)
    BY DEF DecisionInv, Chosen
  <2>2. DOMAIN picked = 1..Len(picked)
    BY LenProperties DEF DecisionInv, TypeOK
  <2>3. /\ \A i, j \in 1..Len(picked) : i < j => Before(picked[i], picked[j])
        /\ \A a \in Candidates(chosenAt) :
             \/ \E i \in 1..Len(picked) : picked[i] = a
             \/ Len(picked) = TopK /\ Before(picked[Len(picked)], a)
    BY <2>1, SelectionRanks DEF DecisionInv, TypeOK, ReadTypes
  <2> QED
    BY <2>2, <2>3 DEF Range, Last
<1> QED
  BY <1>1, DecisionInvariant, PTL

(* artifact_selector.py:77-99: the reason of a record that fails is the    *)
(* code of the first test it fails.                                        *)
LEMMA ReasonIsFirst ==
  ASSUME NEW rec, NEW now, Failed(rec, now) # {}
  PROVE  \E test \in Failed(rec, now) :
           /\ Reason(rec, now) = test[2]
           /\ \A other \in Failed(rec, now) : test[1] <= other[1]
<1> DEFINE S == Failed(rec, now)
           First(test) == \A other \in S : test[1] <= other[1]
           places == {test[1] : test \in S}
<1>1. places \subseteq 1..7
  BY DEF Failed, Tests
<1>2. places \in SUBSET Nat /\ places # {}
  BY <1>1
<1>3. IsFiniteSet(places)
  <2> HIDE DEF places
  <2>1. 7 \in Nat /\ \A n \in places : n <= 7
    BY <1>1
  <2> QED
    BY ONLY <1>2, <2>1, FS_BoundedSetOfNaturals
<1>4. \E m \in places : \A n \in places : m <= n
  <2> HIDE DEF places
  <2> QED
    BY <1>2, <1>3, Greatest
<1>5. PICK test \in S : First(test)
  BY <1>4
<1>6. (CHOOSE x \in S : First(x)) \in S /\ First(CHOOSE x \in S : First(x))
  <2> HIDE DEF S, First
  <2> QED
    BY <1>5
<1>7. Reason(rec, now) = (CHOOSE x \in S : First(x))[2]
  BY DEF Reason
<1> QED
  BY <1>6, <1>7

(* artifact_selector.py:119-127: one blocker for each artifact listed.     *)
LEMMA BlockersCount ==
  ASSUME ReadTypes, NEW now, found # {}
  PROVE  Cardinality(Blockers(now)) = Cardinality(found)
<1> DEFINE blocker == [rec \in found |->
                         Blocker(IF rec \in Eligible(now) THEN "NO_LEXICAL_SIGNAL"
                                 ELSE Reason(rec, now), rec.id)]
           listed == [rec \in found |-> rec.id]
<1>1. IsFiniteSet(found)
  <2> DEFINE ids == {rec.id : rec \in found}
             row == [a \in ids |-> [id |-> a, status |-> "PUBLISHED"]]
  <2>1. ids \in SUBSET Artifacts
    BY DEF ReadTypes
  <2>2. IsFiniteSet(ids)
    BY <2>1, DecisionAssumption, FS_Subset
  <2>3. \A rec \in found : rec = [id |-> rec.id, status |-> "PUBLISHED"]
    BY DEF ReadTypes
  <2>4. row \in [ids -> found] /\ \A rec \in found : rec.id \in ids /\ row[rec.id] = rec
    BY <2>3
  <2>5. row \in Surjection(ids, found)
    BY <2>4 DEF Surjection
  <2> QED
    BY <2>2, <2>5, FS_Surjection
<1>2. Blockers(now) = {blocker[rec] : rec \in found}
  BY DEF Blockers
<1>3. \A rec \in found : blocker[rec].reference = rec.id
  BY DEF Blocker
<1>4. \A r1, r2 \in found : r1.id = r2.id => r1 = r2
  BY DEF ReadTypes
<1> HIDE DEF blocker
<1>5. \A r1, r2 \in found : blocker[r1] = blocker[r2] => r1 = r2
  BY <1>3, <1>4
<1>6. blocker \in [found -> Blockers(now)]
  BY <1>2 DEF blocker
<1>7. blocker \in Bijection(found, Blockers(now))
  BY <1>2, <1>5, <1>6 DEF Bijection, Injection, Surjection, IsInjective
<1>8. Cardinality(Blockers(now)) = Cardinality(found)
  BY <1>1, <1>7, FS_Bijection DEF ExistsBijection
<1> QED
  BY <1>8

(* artifact_selector.py:77-99, 119-169 and bundle_assembler.py:119-134: a  *)
(* blocked bundle names every artifact listed exactly once, with the first *)
(* test it failed or the lack of a word in the question, and carries no    *)
(* schema.                                                                 *)
THEOREM BlockedSaysWhy == Spec => []BlockedExplained
<1>1. DecisionInv => BlockedExplained
  <2> SUFFICES ASSUME DecisionInv, Blocked
               PROVE  /\ tables = {}
                      /\ found = {} => {b.code : b \in rejected} = {"NO_ARTIFACT"}
                      /\ found # {} =>
                           /\ Cardinality(rejected) = Cardinality(found)
                           /\ \A rec \in found : \E b \in rejected :
                                b.reference = rec.id /\ Explains(b.code, rec)
    BY DEF BlockedExplained
  <2>1. /\ tables = {} /\ rejected = Blockers(chosenAt)
        /\ Candidates(chosenAt) = {}
    BY DEF DecisionInv, Chosen
  <2>2. found = {} => {b.code : b \in rejected} = {"NO_ARTIFACT"}
    BY <2>1 DEF Blockers, Blocker
  <2>3. ReadTypes
    BY DEF DecisionInv, TypeOK, ReadTypes
  <2>4. found # {} => Cardinality(rejected) = Cardinality(found)
    BY <2>1, <2>3, BlockersCount
  <2>5. ASSUME NEW rec \in found
        PROVE  \E b \in rejected : b.reference = rec.id /\ Explains(b.code, rec)
    <3>1. CASE rec \in Eligible(chosenAt)
      <4>1. Failed(rec, chosenAt) = {} /\ Hits(rec.id) = {}
        BY <2>1, <3>1 DEF Eligible, Candidates
      <4>2. Blocker("NO_LEXICAL_SIGNAL", rec.id) \in rejected
        BY <2>1, <3>1 DEF Blockers
      <4> QED
        BY <4>1, <4>2 DEF Explains, Blocker
    <3>2. CASE rec \notin Eligible(chosenAt)
      <4>1. Failed(rec, chosenAt) # {}
        BY <3>2 DEF Eligible
      <4>2. Explains(Reason(rec, chosenAt), rec)
        BY <4>1, ReasonIsFirst DEF Explains
      <4>3. Blocker(Reason(rec, chosenAt), rec.id) \in rejected
        BY <2>1, <3>2 DEF Blockers
      <4> QED
        BY <4>2, <4>3 DEF Blocker
    <3> QED
      BY <3>1, <3>2
  <2> QED
    BY <2>1, <2>2, <2>4, <2>5
<1> QED
  BY <1>1, DecisionInvariant, PTL

(* v2_store.py:96-103: an artifact retired after it was listed is still    *)
(* scored with its vectors.                                                *)
THEOREM ScoresAreOwn == Spec => []ScoredOnOwnVectors
<1>1. DecisionInv => ScoredOnOwnVectors
  BY DEF DecisionInv, Reads, ScoredOnOwnVectors, Similarity
<1> QED
  BY <1>1, DecisionInvariant, PTL

(* bundle_assembler.py:149-157: the schema context is complete when nobody *)
(* touched a snapshot during the call.                                     *)
THEOREM ContextIsComplete == Spec => []ContextCompleteIfUntouched
  BY DecisionInvariant, PTL DEF DecisionInv

(* v2_store.py:153-155: the two halves of the glossary disagree only about *)
(* terms without stable_id and terms edited during the call.               *)
THEOREM GlossaryHolds == Spec => []GlossaryTornOnlyByEdit
<1>1. DecisionInv => GlossaryTornOnlyByEdit
  BY DEF DecisionInv, Reads, GlossaryTornOnlyByEdit
<1> QED
  BY <1>1, DecisionInvariant, PTL

============================================================================
