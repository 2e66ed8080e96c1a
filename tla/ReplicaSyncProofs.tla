------------------------- MODULE ReplicaSyncProofs -------------------------
(* Theorems about ReplicaSync for every set of nodes and rows, every alarm *)
(* threshold and every bound on publications.                              *)
EXTENDS ReplicaSync, FiniteSetTheorems, TLAPS

-----------------------------------------------------------------------------
(* What the operators of MemoryStore and of the import return.             *)

(* A new database is a store.                                              *)
LEMMA EmptyStoreIsStore == EmptyStore \in Store
  BY DEF EmptyStore, Store

(* DELETE takes rows away, keeps the references of the rest and adds none. *)
LEMMA WithoutIsStore ==
    ASSUME NEW s \in Store, NEW rows
    PROVE  /\ Without(s, rows) \in Store
           /\ Without(s, rows).rows \subseteq s.rows
           /\ \A r \in Without(s, rows).rows :
                /\ r \notin rows
                /\ s.ends[r] \cap rows = {}
                /\ Without(s, rows).ends[r] = s.ends[r]
  BY DEF Without, Kept, Store

(* INSERT leaves the rows already there and adds the one named.            *)
LEMMA WithIsStore ==
    ASSUME NEW s \in Store, NEW row \in Row, NEW ends \in SUBSET Entity
    PROVE  /\ With(s, row, ends) \in Store
           /\ With(s, row, ends).rows = s.rows \cup {row}
  BY DEF With, Store

(* apply_tombstones never adds a row.                                      *)
LEMMA AfterTombstonesIsStore ==
    ASSUME NEW s \in Store, NEW b, NEW deletes
    PROVE  /\ AfterTombstones(s, b, deletes) \in Store
           /\ AfterTombstones(s, b, deletes).rows \subseteq s.rows
  <1>1. /\ NamedRowsGone(s, b) \in Store
        /\ NamedRowsGone(s, b).rows \subseteq s.rows
    BY WithoutIsStore DEF NamedRowsGone
  <1>2. ASSUME NEW rows
        PROVE  /\ Without(NamedRowsGone(s, b), rows) \in Store
               /\ Without(NamedRowsGone(s, b), rows).rows \subseteq s.rows
    BY <1>1, WithoutIsStore
  <1> QED BY <1>2 DEF AfterTombstones

(* The lookup by name returns an entity that is here and has the name.     *)
LEMMA ByNameFinds ==
    ASSUME NEW s, NEW by \in ByName(s), NEW name \in DOMAIN by
    PROVE  /\ by[name] \in Entities(s)
           /\ NameOf[by[name]] = name
  BY DEF ByName

(* The identity an incoming entity is merged into is that of an entity.    *)
LEMMA ResolveIsEntity ==
    ASSUME NEW s, NEW by \in ByName(s), NEW b, NEW deletes, NEW e \in Entity
    PROVE  Resolve(by, b, deletes, e) \in Entity
  BY ByNameFinds DEF Resolve, Entities

(* Of the relations of one triple the batch holds one, and it is one of    *)
(* the bundle's.                                                           *)
LEMMA BatchIsOfBundle ==
    ASSUME NEW by, NEW b, NEW deletes
    PROVE  /\ Batch(by, b, deletes) \subseteq b.rows \cap Relation
           /\ \A q, r \in Batch(by, b, deletes) : OneTriple(by, b, deletes, q, r) => q = r
  <1> DEFINE First(r) == FirstOfTriple(by, b, deletes, r)
             Same(q, r) == OneTriple(by, b, deletes, q, r)
  <1>1. ASSUME NEW r \in b.rows \cap Relation
        PROVE  First(r) \in b.rows \cap Relation /\ Same(First(r), r)
    <2>1. Same(r, r)
      BY DEF OneTriple
    <2> QED BY <2>1 DEF FirstOfTriple
  <1>2. ASSUME NEW q, NEW r, Same(q, r) PROVE First(q) = First(r)
    <2>1. \A x : Same(x, q) <=> Same(x, r)
      BY <1>2 DEF OneTriple
    <2> QED BY <2>1 DEF FirstOfTriple
  <1>3. ASSUME NEW q \in Batch(by, b, deletes), NEW r \in Batch(by, b, deletes), Same(q, r)
        PROVE  q = r
    <2>1. PICK x \in b.rows \cap Relation : q = First(x)
      BY DEF Batch
    <2>2. PICK y \in b.rows \cap Relation : r = First(y)
      BY DEF Batch
    <2>3. Same(x, y)
      BY <1>1, <1>3, <2>1, <2>2 DEF OneTriple
    <2> QED BY <1>2, <2>1, <2>2, <2>3
  <1> QED BY <1>1, <1>3 DEF Batch

(* Merging a bundle takes nothing away.                                    *)
LEMMA MergedIsStore ==
    ASSUME NEW s \in Store, NEW by \in ByName(s), NEW b \in Bundle, NEW deletes
    PROVE  /\ Merged(s, by, b, deletes) \in Store
           /\ s.rows \subseteq Merged(s, by, b, deletes).rows
  <1>1. \A r \in Row : ResolvedEnds(by, b, deletes, r) \subseteq Entity
    BY ResolveIsEntity DEF ResolvedEnds, Bundle
  <1>2. Landing(s, by, b, deletes) \subseteq Row
    <2>1. LandingEntities(by, b, deletes) \subseteq Entity
      BY ResolveIsEntity DEF LandingEntities, Files
    <2>2. LandingRelations(s, by, b, deletes) \subseteq Relation
      BY BatchIsOfBundle DEF LandingRelations
    <2> QED BY <2>1, <2>2 DEF Landing, LandingObservations, LandingFacts,
              LandingUnfiltered, Row
  <1>3. \A r \in Row : LandedEnds(s, by, b, deletes, r) \subseteq Entity
    BY <1>1 DEF LandedEnds, Store
  <1> QED BY <1>2, <1>3 DEF Merged, Store

(* A row already here keeps its references.                                *)
LEMMA MergedKeepsEnds ==
    ASSUME NEW s \in Store, NEW by, NEW b \in Bundle, NEW deletes, NEW r \in s.rows
    PROVE  Merged(s, by, b, deletes).ends[r] = s.ends[r]
  <1>1. r \in Row
    BY DEF Store
  <1>2. LandedEnds(s, by, b, deletes, r) = s.ends[r]
    BY DEF LandedEnds
  <1> QED BY <1>1, <1>2 DEF Merged

(* What an import leaves is a store that holds all the deletions left.     *)
LEMMA ResultIsStore ==
    ASSUME NEW s \in Store, NEW b \in Bundle, NEW deletes,
           NEW by \in ByName(AfterTombstones(s, b, deletes))
    PROVE  /\ Result(s, by, b, deletes) \in Store
           /\ AfterTombstones(s, b, deletes).rows \subseteq Result(s, by, b, deletes).rows
  BY AfterTombstonesIsStore, MergedIsStore DEF Result

(* What a committed import did: it wrote one of the results the lookup by  *)
(* name allows.                                                            *)
LEMMA ImportWrites ==
    ASSUME NEW n, NEW m, NEW confirm, NEW deletes, ImportCommitted(n, m, confirm, deletes)
    PROVE  \E by \in ByName(AfterTombstones(db[n], bundle[m], deletes)) :
                /\ DatabaseAccepts(db[n], by, bundle[m], deletes)
                /\ db' = [db EXCEPT ![n] = Result(db[n], by, bundle[m], deletes)]
                /\ seen' = [seen EXCEPT ![n] = @ \cup Result(db[n], by, bundle[m], deletes).rows]
  BY DEF ImportCommitted

-----------------------------------------------------------------------------
(* The type invariant.                                                     *)

(* New databases are well typed.                                           *)
LEMMA TypeOKInit == Init => TypeOK
  BY EmptyStoreIsStore DEF Init, TypeOK

(* A row of any kind may be inserted.                                      *)
LEMMA InsertTyped ==
    ASSUME TypeOK, NEW n \in Node, NEW row \in Row, NEW ends, Insert(n, row, ends)
    PROVE  TypeOK'
  <1>1. ends \in SUBSET Entity
    BY DEF Insert, Entities
  <1>2. With(db[n], row, ends) \in Store
    BY <1>1, WithIsStore DEF TypeOK
  <1> QED BY <1>2 DEF Insert, TypeOK

(* So may any be deleted.                                                  *)
LEMMA EraseTyped ==
    ASSUME TypeOK, NEW n \in Node, NEW rows, Erase(n, rows)
    PROVE  TypeOK'
  <1>1. /\ Without(db[n], rows) \in Store
        /\ db[n].rows \subseteq Row
    BY WithoutIsStore DEF TypeOK, Store
  <1> QED BY <1>1 DEF Erase, Bury, TypeOK

(* The writers keep the types.                                             *)
LEMMA LocalTyped ==
    ASSUME TypeOK, NEW n \in Node, Local(n)
    PROVE  TypeOK'
  <1>1. ASSUME NEW e \in Entity, AddEntity(n, e) PROVE TypeOK'
    BY <1>1, InsertTyped DEF AddEntity, Row
  <1>2. ASSUME NEW r \in Memory, NEW e \in Entity, AddMemory(n, r, e) PROVE TypeOK'
    BY <1>2, InsertTyped DEF AddMemory, Memory, Row
  <1>3. ASSUME NEW f \in Fact, NEW e \in Entity, AddFact(n, f, e) PROVE TypeOK'
    BY <1>3, InsertTyped DEF AddFact, Row
  <1>4. ASSUME NEW r \in Relation, NEW e \in Entity, NEW f \in Entity,
               AddRelation(n, r, e, f)
        PROVE  TypeOK'
    BY <1>4, InsertTyped DEF AddRelation, Row
  <1>5. ASSUME NEW r \in Error \cup Procedure, AddStandalone(n, r) PROVE TypeOK'
    BY <1>5, InsertTyped DEF AddStandalone, Row
  <1>6. ASSUME NEW r \in Row, DeleteRow(n, r) PROVE TypeOK'
    BY <1>6, EraseTyped DEF DeleteRow
  <1>7. ASSUME NEW name, NEW errors, DeleteEntities(n, name) \/ Forget(n, name, errors)
        PROVE  TypeOK'
    BY <1>7, EraseTyped DEF DeleteEntities, Forget
  <1>8. ASSUME NEW p \in Project, AddProject(n, p) PROVE TypeOK'
    BY <1>8, InsertTyped DEF AddProject, Row
  <1> QED BY <1>1, <1>2, <1>3, <1>4, <1>5, <1>6, <1>7, <1>8 DEF Local

(* A publication is a bundle.                                              *)
LEMMA ExportTyped ==
    ASSUME TypeOK, NEW n \in Node, Export(n)
    PROVE  TypeOK'
  <1>1. Published(n) \in Nat
    BY DEF Published, TypeOK, Bundle, Digest
  <1>2. [digest |-> <<n, Published(n) + 1>>, rows |-> db[n].rows,
         ends |-> db[n].ends, tombs |-> tombs[n]] \in Bundle
    BY <1>1 DEF TypeOK, Store, Bundle, Digest
  <1> QED BY <1>2 DEF Export, TypeOK

(* The bundle an import reads, and the store it writes to.                 *)
LEMMA OfferedTyped ==
    ASSUME TypeOK, NEW n \in Node, NEW m \in Node, Offered(n, m)
    PROVE  bundle[m] \in Bundle /\ db[n] \in Store
  BY DEF TypeOK, Offered

(* Imports that do not commit change nothing.                              *)
LEMMA ImportLeaves ==
    ASSUME TypeOK, NEW n \in Node, NEW m \in Node, NEW confirm, NEW deletes,
           ImportCommitted(n, m, confirm, deletes)
    PROVE  \E by \in ByName(AfterTombstones(db[n], bundle[m], deletes)) :
                /\ db'[n] = Result(db[n], by, bundle[m], deletes)
                /\ AfterTombstones(db[n], bundle[m], deletes).rows \subseteq db'[n].rows
  <1>1. bundle[m] \in Bundle /\ db[n] \in Store
    BY OfferedTyped DEF ImportCommitted
  <1>2. PICK by \in ByName(AfterTombstones(db[n], bundle[m], deletes)) :
            db' = [db EXCEPT ![n] = Result(db[n], by, bundle[m], deletes)]
    BY ImportWrites
  <1>3. db'[n] = Result(db[n], by, bundle[m], deletes)
    BY <1>2 DEF TypeOK
  <1> QED BY <1>1, <1>3, ResultIsStore

(* An import that commits keeps the types.                                 *)
LEMMA ImportCommittedTyped ==
    ASSUME TypeOK, NEW n \in Node, NEW m \in Node, NEW confirm, NEW deletes,
           ImportCommitted(n, m, confirm, deletes)
    PROVE  TypeOK'
  <1>1. bundle[m] \in Bundle /\ db[n] \in Store
    BY OfferedTyped DEF ImportCommitted
  <1>2. PICK by \in ByName(AfterTombstones(db[n], bundle[m], deletes)) :
            /\ db' = [db EXCEPT ![n] = Result(db[n], by, bundle[m], deletes)]
            /\ seen' = [seen EXCEPT ![n] = @ \cup Result(db[n], by, bundle[m], deletes).rows]
    BY ImportWrites
  <1>3. db' \in [Node -> Store] /\ seen' \in [Node -> SUBSET Row]
    <2>1. Result(db[n], by, bundle[m], deletes) \in Store
      BY <1>1, ResultIsStore
    <2> QED BY <1>2, <2>1 DEF TypeOK, Store
  <1>4. tombs' \in [Node -> SUBSET Row]
    BY <1>1 DEF ImportCommitted, Bury, TypeOK, Store
  <1>5. imported' \in [Node -> SUBSET Digest]
    BY <1>1 DEF ImportCommitted, Record, TypeOK, Bundle
  <1> QED BY <1>3, <1>4, <1>5 DEF ImportCommitted, TypeOK

(* Every step keeps the types.                                             *)
LEMMA NextTyped == TypeOK /\ [Next]_vars => TypeOK'
  <1> SUFFICES ASSUME TypeOK, [Next]_vars PROVE TypeOK'
    OBVIOUS
  <1>1. CASE UNCHANGED vars
    BY <1>1 DEF vars, TypeOK
  <1>2. ASSUME NEW n \in Node, Local(n) PROVE TypeOK'
    BY <1>2, LocalTyped
  <1>3. ASSUME NEW n \in Node, Export(n) PROVE TypeOK'
    BY <1>3, ExportTyped
  <1>4. ASSUME NEW n \in Node, NEW m \in Sources[n],
               NEW confirm \in BOOLEAN, NEW deletes \in BOOLEAN,
               Import(n, m, confirm, deletes)
        PROVE  TypeOK'
    <2>1. m \in Node
      BY SyncAssumption
    <2>2. CASE ImportCommitted(n, m, confirm, deletes)
      BY <2>1, <2>2, ImportCommittedTyped
    <2>3. CASE UNCHANGED vars
      BY <2>3 DEF vars, TypeOK
    <2> QED BY <1>4, <2>2, <2>3 DEF Import, ImportAlarmed, ImportSkipped, ImportRejected
  <1> QED BY <1>1, <1>2, <1>3, <1>4 DEF Next

(* Whatever is imported from whom and in which order, every node holds a   *)
(* well-formed store and only digests of publications are recorded.        *)
THEOREM TypeCorrect == Spec => []TypeOK
  BY TypeOKInit, NextTyped, PTL DEF Spec

-----------------------------------------------------------------------------
(* Losses and tombstones.                                                  *)

(* An insert loses nothing.                                                *)
LEMMA InsertBuries ==
    ASSUME TypeOK, EveryLossIsBuried,
           NEW n \in Node, NEW row \in Row, NEW ends, Insert(n, row, ends)
    PROVE  EveryLossIsBuried'
  <1>1. With(db[n], row, ends).rows = db[n].rows \cup {row}
    BY DEF With
  <1> QED BY <1>1 DEF Insert, EveryLossIsBuried, TypeOK

(* What a delete takes, cascades included, the trigger records.            *)
LEMMA EraseBuries ==
    ASSUME TypeOK, EveryLossIsBuried, NEW n \in Node, NEW rows, Erase(n, rows)
    PROVE  EveryLossIsBuried'
  BY DEF Erase, Bury, EveryLossIsBuried, TypeOK

(* The writers bury what they take.                                        *)
LEMMA LocalBuries ==
    ASSUME TypeOK, EveryLossIsBuried, NEW n \in Node, Local(n)
    PROVE  EveryLossIsBuried'
  <1>1. ASSUME NEW e \in Entity, AddEntity(n, e) PROVE EveryLossIsBuried'
    BY <1>1, InsertBuries DEF AddEntity, Row
  <1>2. ASSUME NEW r \in Memory, NEW e \in Entity, AddMemory(n, r, e)
        PROVE  EveryLossIsBuried'
    BY <1>2, InsertBuries DEF AddMemory, Memory, Row
  <1>3. ASSUME NEW f \in Fact, NEW e \in Entity, AddFact(n, f, e)
        PROVE  EveryLossIsBuried'
    BY <1>3, InsertBuries DEF AddFact, Row
  <1>4. ASSUME NEW r \in Relation, NEW e \in Entity, NEW f \in Entity,
               AddRelation(n, r, e, f)
        PROVE  EveryLossIsBuried'
    BY <1>4, InsertBuries DEF AddRelation, Row
  <1>5. ASSUME NEW r \in Error \cup Procedure, AddStandalone(n, r)
        PROVE  EveryLossIsBuried'
    BY <1>5, InsertBuries DEF AddStandalone, Row
  <1>6. ASSUME NEW r \in Row, DeleteRow(n, r) PROVE EveryLossIsBuried'
    BY <1>6, EraseBuries DEF DeleteRow
  <1>7. ASSUME NEW name, NEW errors, DeleteEntities(n, name) \/ Forget(n, name, errors)
        PROVE  EveryLossIsBuried'
    BY <1>7, EraseBuries DEF DeleteEntities, Forget
  <1>8. ASSUME NEW p \in Project, AddProject(n, p) PROVE EveryLossIsBuried'
    BY <1>8, InsertBuries DEF AddProject, Row
  <1> QED BY <1>1, <1>2, <1>3, <1>4, <1>5, <1>6, <1>7, <1>8 DEF Local

(* The rows an import takes went before it merged anything, and merging    *)
(* brought none of those back without holding them.                        *)
LEMMA ImportCommittedBuries ==
    ASSUME TypeOK, EveryLossIsBuried, NEW n \in Node, NEW m \in Node,
           NEW confirm, NEW deletes, ImportCommitted(n, m, confirm, deletes)
    PROVE  EveryLossIsBuried'
  <1> DEFINE left == AfterTombstones(db[n], bundle[m], deletes)
  <1> PICK by \in ByName(left) :
            /\ db' = [db EXCEPT ![n] = Result(db[n], by, bundle[m], deletes)]
            /\ seen' = [seen EXCEPT ![n] = @ \cup Result(db[n], by, bundle[m], deletes).rows]
    BY ImportWrites
  <1> DEFINE result == Result(db[n], by, bundle[m], deletes)
  <1>1. left.rows \subseteq result.rows
    BY OfferedTyped, ResultIsStore DEF ImportCommitted
  <1>2. /\ db' = [db EXCEPT ![n] = result]
        /\ seen' = [seen EXCEPT ![n] = @ \cup result.rows]
        /\ tombs' = [tombs EXCEPT ![n] = @ \cup (db[n].rows \ left.rows)]
    BY DEF ImportCommitted, Bury
  <1>3. seen'[n] \ db'[n].rows \subseteq tombs'[n]
    BY <1>1, <1>2 DEF TypeOK, EveryLossIsBuried
  <1> QED BY <1>2, <1>3 DEF TypeOK, EveryLossIsBuried

(* A row that went, by a handler, by a cascade or by an import, has a      *)
(* tombstone where it went: brain_record_tombstone misses no way out.      *)
THEOREM LossesAreBuried == Spec => []EveryLossIsBuried
  <1>1. Init => EveryLossIsBuried
    BY DEF Init, EveryLossIsBuried
  <1>2. TypeOK /\ EveryLossIsBuried /\ [Next]_vars => EveryLossIsBuried'
    <2> SUFFICES ASSUME TypeOK, EveryLossIsBuried, [Next]_vars
                 PROVE  EveryLossIsBuried'
      OBVIOUS
    <2>1. CASE UNCHANGED vars
      BY <2>1 DEF vars, EveryLossIsBuried
    <2>2. ASSUME NEW n \in Node, Local(n) PROVE EveryLossIsBuried'
      BY <2>2, LocalBuries
    <2>3. ASSUME NEW n \in Node, Export(n) PROVE EveryLossIsBuried'
      BY <2>3 DEF Export, EveryLossIsBuried
    <2>4. ASSUME NEW n \in Node, NEW m \in Sources[n],
                 NEW confirm \in BOOLEAN, NEW deletes \in BOOLEAN,
                 Import(n, m, confirm, deletes)
          PROVE  EveryLossIsBuried'
      <3>1. m \in Node
        BY SyncAssumption
      <3>2. CASE ImportCommitted(n, m, confirm, deletes)
        BY <3>1, <3>2, ImportCommittedBuries
      <3>3. CASE UNCHANGED vars
        BY <3>3 DEF vars, EveryLossIsBuried
      <3> QED BY <2>4, <3>2, <3>3
            DEF Import, ImportAlarmed, ImportSkipped, ImportRejected
    <2> QED BY <2>1, <2>2, <2>3, <2>4 DEF Next
  <1> QED BY <1>1, <1>2, TypeCorrect, PTL DEF Spec

-----------------------------------------------------------------------------
(* What an import may take.                                                *)

(* apply_tombstones: of the memories the bundle does not name, none goes.  *)
(* One that hung off a named entity would have made the entity withheld.   *)
LEMMA UnnamedMemoryStays ==
    ASSUME NEW s \in Store, NEW b \in Bundle, NEW deletes,
           NEW r \in s.rows \cap Memory, r \notin b.tombs
    PROVE  r \in AfterTombstones(s, b, deletes).rows
  <1> DEFINE gone == NamedRowsGone(s, b)
             doomed == (b.tombs \cap Entity) \ WithheldEntities(s, b)
  <1>1. r \notin Entity
    BY StoreAssumption DEF Memory
  <1>2. s.ends[r] \subseteq Entity
    BY DEF Store
  <1>3. r \in gone.rows /\ gone.ends[r] = s.ends[r]
    BY <1>2 DEF NamedRowsGone, Without, Kept, Store
  <1>4. gone.ends[r] \cap doomed = {}
    BY <1>3 DEF WithheldEntities, HasMemories
  <1>5. r \in Without(gone, doomed).rows
    BY <1>1, <1>3, <1>4 DEF Without, Kept
  <1> QED BY <1>5 DEF AfterTombstones

(* What an import takes of what people wrote, its bundle names.            *)
LEMMA ImportTakesNamed ==
    ASSUME TypeOK, NEW n \in Node, NEW m \in Node, NEW confirm, NEW deletes,
           ImportCommitted(n, m, confirm, deletes)
    PROVE  MemoriesLost(n) \subseteq bundle[m].tombs
  <1>1. bundle[m] \in Bundle /\ db[n] \in Store
    BY OfferedTyped DEF ImportCommitted
  <1>2. AfterTombstones(db[n], bundle[m], deletes).rows \subseteq db'[n].rows
    BY ImportLeaves
  <1> SUFFICES ASSUME NEW r \in MemoriesLost(n), r \notin bundle[m].tombs
               PROVE  FALSE
    OBVIOUS
  <1>3. r \in db[n].rows \cap Memory /\ r \notin db'[n].rows
    BY DEF MemoriesLost, RowsLost
  <1> QED BY <1>1, <1>2, <1>3, UnnamedMemoryStays

(* An import takes away no observation and no episode its bundle does not  *)
(* name, however many entities it deletes: a peer cannot reach what a      *)
(* person wrote here through a cascade.                                    *)
THEOREM UnnamedMemoriesAreSafe == Spec => UnnamedMemoriesSurvive
  <1> DEFINE Step ==
        \A n, m \in Node :
            bundle[m] # NoBundle /\ ~(MemoriesLost(n) \subseteq bundle[m].tombs) =>
                \A confirm, deletes \in BOOLEAN :
                    ~ImportCommitted(n, m, confirm, deletes)
  <1>1. TypeOK => [Step]_vars
    BY ImportTakesNamed
  <1> QED BY <1>1, TypeCorrect, PTL DEF Spec, UnnamedMemoriesSurvive

(* An import that applies no tombstone takes nothing and moves nothing.    *)
LEMMA WithheldImportAdds ==
    ASSUME TypeOK, NEW n \in Node, NEW m \in Node, NEW confirm,
           NEW deletes \in BOOLEAN, ~deletes,
           ImportCommitted(n, m, confirm, deletes)
    PROVE  /\ RowsLost(n) = {}
           /\ \A r \in db[n].rows : db'[n].ends[r] = db[n].ends[r]
  <1>1. bundle[m] \in Bundle /\ db[n] \in Store
    BY OfferedTyped DEF ImportCommitted
  <1>2. AfterTombstones(db[n], bundle[m], deletes) = db[n]
    BY DEF AfterTombstones
  <1>3. PICK by \in ByName(db[n]) : db'[n] = Merged(db[n], by, bundle[m], deletes)
    BY <1>2, ImportLeaves DEF Result
  <1>4. db[n].rows \subseteq db'[n].rows
    BY <1>2, ImportLeaves
  <1>5. \A r \in db[n].rows : db'[n].ends[r] = db[n].ends[r]
    BY <1>1, <1>3, MergedKeepsEnds
  <1> QED BY <1>4, <1>5 DEF RowsLost

(* With deletes withheld nothing goes and no reference moves: the panel's  *)
(* button is safe to press whatever the peer sends.                        *)
THEOREM WithholdingIsSafe == Spec => WithholdingOnlyAdds
  <1> DEFINE Step ==
        \A n \in Node :
            RowsLost(n) # {} \/ (\E r \in db[n].rows : db'[n].ends[r] # db[n].ends[r]) =>
                \A m \in Node, confirm \in BOOLEAN :
                    ~ImportCommitted(n, m, confirm, FALSE)
  <1>1. TypeOK => [Step]_vars
    <2> SUFFICES ASSUME TypeOK, NEW n \in Node, NEW m \in Node, NEW confirm,
                        NEW deletes \in BOOLEAN, ~deletes,
                        ImportCommitted(n, m, confirm, deletes)
                 PROVE  /\ RowsLost(n) = {}
                        /\ \A r \in db[n].rows : db'[n].ends[r] = db[n].ends[r]
      OBVIOUS
    <2> QED BY WithheldImportAdds
  <1> QED BY <1>1, TypeCorrect, PTL DEF Spec, WithholdingOnlyAdds

-----------------------------------------------------------------------------
(* Foreign keys, names and triples.                                        *)

RootsHangOffNothing(s) == \A r \in s.rows \cap (Entity \cup Project) : s.ends[r] = {}

Sound(s) ==
    /\ ForeignKeysHold(s)
    /\ NamesUnique(s)
    /\ ProjectsUnique(s)
    /\ TriplesUnique(s)
    /\ RootsHangOffNothing(s)

NoProjectIn(rows) == rows \cap Project = {}

(* The inductive invariant behind StoresConsistent: an import is only as   *)
(* sound as the bundle it reads, a cascade leaves no reference behind      *)
(* because entities refer to nothing themselves, and no deletion reaches   *)
(* the project of an entity.                                               *)
AllSound ==
    \A n \in Node :
        /\ Sound(db[n])
        /\ NoProjectIn(tombs[n])
        /\ bundle[n] # NoBundle => Sound(bundle[n]) /\ NoProjectIn(bundle[n].tombs)

(* A new database is sound.                                                *)
LEMMA EmptyStoreIsSound == Sound(EmptyStore)
  BY DEF EmptyStore, Sound, ForeignKeysHold, NamesUnique, ProjectsUnique,
         TriplesUnique, RootsHangOffNothing, Entities

(* DELETE of anything but projects reaches no project.                     *)
LEMMA WithoutKeepsProjects ==
    ASSUME NEW s \in Store, RootsHangOffNothing(s), NEW rows, NoProjectIn(rows)
    PROVE  s.rows \cap Project \subseteq Without(s, rows).rows
  BY DEF RootsHangOffNothing, NoProjectIn, Without, Kept

(* DELETE with its cascades keeps a store sound.                           *)
LEMMA WithoutIsSound ==
    ASSUME NEW s \in Store, Sound(s), NEW rows, NoProjectIn(rows)
    PROVE  Sound(Without(s, rows))
  <1> DEFINE t == Without(s, rows)
  <1>1. /\ t.rows \subseteq s.rows
        /\ \A r \in t.rows : s.ends[r] \cap rows = {} /\ t.ends[r] = s.ends[r]
    BY WithoutIsStore
  <1>2. ForeignKeysHold(t)
    <2>1. ASSUME NEW r \in t.rows, NEW e \in t.ends[r] PROVE e \in t.rows
      <3>1. e \in s.rows /\ e \notin rows
        BY <1>1 DEF Sound, ForeignKeysHold
      <3>2. e \in Entity
        BY <1>1 DEF Store
      <3>3. s.ends[e] = {}
        BY <3>1, <3>2 DEF Sound, RootsHangOffNothing
      <3> QED BY <3>1, <3>3 DEF Without, Kept
    <2>2. ASSUME NEW e \in Entities(t) PROVE HomeOf[e] \subseteq t.rows
      <3>1. HomeOf[e] \subseteq s.rows \cap Project
        BY <1>1, StoreAssumption DEF Sound, ForeignKeysHold, Entities
      <3> QED BY <3>1, WithoutKeepsProjects DEF Sound
    <2> QED BY <2>1, <2>2 DEF ForeignKeysHold
  <1>3. NamesUnique(t)
    BY <1>1 DEF Sound, NamesUnique, Entities
  <1>4. TriplesUnique(t)
    BY <1>1 DEF Sound, TriplesUnique
  <1>5. RootsHangOffNothing(t)
    BY <1>1 DEF Sound, RootsHangOffNothing
  <1>6. ProjectsUnique(t)
    BY <1>1 DEF Sound, ProjectsUnique
  <1> QED BY <1>2, <1>3, <1>4, <1>5, <1>6 DEF Sound

(* Applying tombstones that name no project leaves a sound store.          *)
LEMMA AfterTombstonesIsSound ==
    ASSUME NEW s \in Store, Sound(s), NEW b, NoProjectIn(b.tombs), NEW deletes
    PROVE  /\ Sound(AfterTombstones(s, b, deletes))
           /\ s.rows \cap Project \subseteq AfterTombstones(s, b, deletes).rows
  <1> DEFINE gone == NamedRowsGone(s, b)
  <1>1. NoProjectIn(b.tombs \ Entity)
    BY DEF NoProjectIn
  <1>2. /\ gone \in Store
        /\ Sound(gone)
        /\ s.rows \cap Project \subseteq gone.rows
    <2> DEFINE t == Without(s, b.tombs \ Entity)
    <2>1. t \in Store
      BY WithoutIsStore
    <2>2. Sound(t)
      BY <1>1, WithoutIsSound
    <2>3. s.rows \cap Project \subseteq t.rows
      BY <1>1, WithoutKeepsProjects DEF Sound
    <2> QED BY <2>1, <2>2, <2>3 DEF NamedRowsGone
  <1>3. ASSUME NEW rows, NoProjectIn(rows)
        PROVE  /\ Sound(Without(gone, rows))
               /\ s.rows \cap Project \subseteq Without(gone, rows).rows
    BY <1>2, <1>3, WithoutIsSound, WithoutKeepsProjects DEF Sound
  <1>4. NoProjectIn((b.tombs \cap Entity) \ WithheldEntities(s, b))
    BY DEF NoProjectIn
  <1> QED BY <1>3, <1>4 DEF AfterTombstones

(* Rewriting identities by name keeps the name.                            *)
LEMMA ResolveKeepsName ==
    ASSUME NEW s, NEW by \in ByName(s), NEW b, NEW deletes, NEW e \in Entity
    PROVE  NameOf[Resolve(by, b, deletes, e)] = NameOf[e]
  BY ByNameFinds DEF Resolve

(* An entity file lands under its own identity only where its name is not  *)
(* taken, in whichever project.                                            *)
LEMMA ResolveFindsLocal ==
    ASSUME NEW s, NEW by \in ByName(s), NEW b, NEW deletes, NEW e \in Files(b, deletes),
           Resolve(by, b, deletes, e) \notin s.rows
    PROVE  /\ Resolve(by, b, deletes, e) = e
           /\ \A f \in Entities(s) : NameOf[f] # NameOf[e]
  <1>1. NameOf[e] \notin DOMAIN by
    BY ByNameFinds DEF Resolve, Entities
  <1> QED BY <1>1 DEF Resolve, ByName

(* Two entities of a merged store that share name and project are one.     *)
LEMMA MergedKeepsNamesUnique ==
    ASSUME NEW s \in Store, NamesUnique(s), NEW by \in ByName(s),
           NEW b \in Bundle, NamesUnique(b), NEW deletes
    PROVE  NamesUnique(Merged(s, by, b, deletes))
  <1> DEFINE t == Merged(s, by, b, deletes)
             Present(e) == e \in Entities(s)
             Arrived(e) == /\ e \in Files(b, deletes)
                           /\ \A f \in Entities(s) : NameOf[f] # NameOf[e]
  <1>1. ASSUME NEW e \in Entities(t) PROVE Present(e) \/ Arrived(e)
    <2>1. e \in s.rows \/ e \in LandingEntities(by, b, deletes)
      <3>1. LandingRelations(s, by, b, deletes) \subseteq Relation
        BY BatchIsOfBundle DEF LandingRelations
      <3> QED BY <3>1, StoreAssumption DEF Merged, Landing, LandingObservations,
              LandingFacts, LandingUnfiltered, Entities
    <2>2. ASSUME e \in LandingEntities(by, b, deletes), e \notin s.rows
          PROVE  Arrived(e)
      BY <2>2, ResolveFindsLocal DEF LandingEntities
    <2> QED BY <2>1, <2>2 DEF Entities
  <1> SUFFICES ASSUME NEW e \in Entities(t), NEW f \in Entities(t),
                      NameOf[e] = NameOf[f], HomeOf[e] = HomeOf[f]
               PROVE  e = f
    BY DEF NamesUnique
  <1>2. CASE Present(e) /\ Present(f)
    BY <1>2 DEF NamesUnique
  <1>3. CASE Arrived(e) /\ Arrived(f)
    BY <1>3 DEF NamesUnique, Files, Entities
  <1>4. ~(Present(e) /\ Arrived(f)) /\ ~(Present(f) /\ Arrived(e))
    OBVIOUS
  <1> QED BY <1>1, <1>2, <1>3, <1>4

(* The batch holds one relation of a triple, and none that is here already.*)
LEMMA MergedKeepsTriplesUnique ==
    ASSUME NEW s \in Store, TriplesUnique(s), NEW by \in ByName(s),
           NEW b \in Bundle, NEW deletes
    PROVE  TriplesUnique(Merged(s, by, b, deletes))
  <1> DEFINE t == Merged(s, by, b, deletes)
             Arrived(r) == r \in LandingRelations(s, by, b, deletes) /\ r \notin s.rows
  <1>1. ASSUME NEW r \in t.rows \cap Relation PROVE r \in s.rows \/ Arrived(r)
    <2>1. LandingEntities(by, b, deletes) \subseteq Entity
      BY ResolveIsEntity DEF LandingEntities, Files
    <2> QED BY <2>1, StoreAssumption DEF Merged, Landing, LandingObservations,
            LandingFacts, LandingUnfiltered
  <1>2. ASSUME NEW r \in t.rows \cap Relation, Arrived(r)
        PROVE  t.ends[r] = ResolvedEnds(by, b, deletes, r)
    BY <1>2, StoreAssumption DEF Merged, Landing, LandedEnds, Row
  <1>3. \A r \in s.rows : t.ends[r] = s.ends[r]
    BY MergedKeepsEnds
  <1> SUFFICES ASSUME NEW q \in t.rows \cap Relation, NEW r \in t.rows \cap Relation,
                      LinkOf[q] = LinkOf[r], t.ends[q] = t.ends[r]
               PROVE  q = r
    BY DEF TriplesUnique
  <1>4. CASE q \in s.rows /\ r \in s.rows
    BY <1>3, <1>4 DEF TriplesUnique
  <1>5. CASE Arrived(q) /\ Arrived(r)
    <2>1. OneTriple(by, b, deletes, q, r)
      BY <1>2, <1>5 DEF OneTriple
    <2> QED BY <1>5, <2>1, BatchIsOfBundle DEF LandingRelations
  <1>6. CASE q \in s.rows /\ Arrived(r)
    BY <1>2, <1>3, <1>6 DEF LandingRelations
  <1>7. CASE r \in s.rows /\ Arrived(q)
    BY <1>2, <1>3, <1>7 DEF LandingRelations
  <1> QED BY <1>1, <1>4, <1>5, <1>6, <1>7

(* What PostgreSQL accepts of a sound bundle into a sound store is sound.  *)
LEMMA ResultIsSound ==
    ASSUME NEW s \in Store, Sound(s), NEW b \in Bundle, Sound(b), NoProjectIn(b.tombs),
           NEW deletes, NEW by \in ByName(AfterTombstones(s, b, deletes)),
           DatabaseAccepts(s, by, b, deletes)
    PROVE  Sound(Result(s, by, b, deletes))
  <1> DEFINE left == AfterTombstones(s, b, deletes)
             result == Result(s, by, b, deletes)
             Root == Entity \cup Project
  <1>1. left \in Store /\ Sound(left)
    BY AfterTombstonesIsStore, AfterTombstonesIsSound
  <1>2. ForeignKeysHold(result) /\ ProjectsUnique(result)
    BY DEF DatabaseAccepts
  <1>3. NamesUnique(result) /\ TriplesUnique(result)
    BY <1>1, MergedKeepsNamesUnique, MergedKeepsTriplesUnique DEF Result, Sound
  <1>4. RootsHangOffNothing(result)
    <2>1. ASSUME NEW r \in Root
          PROVE  LandedEnds(left, by, b, deletes, r) = {} \/ r \in left.rows
      BY StoreAssumption DEF LandedEnds
    <2>2. ASSUME NEW r \in Root, r \in left.rows
          PROVE  Merged(left, by, b, deletes).ends[r] = {}
      BY <1>1, <2>2, MergedKeepsEnds DEF Sound, RootsHangOffNothing
    <2>3. ASSUME NEW r \in Root, r \notin left.rows
          PROVE  Merged(left, by, b, deletes).ends[r] = {}
      BY <2>1, <2>3 DEF Merged, Row
    <2> QED BY <2>2, <2>3 DEF Result, RootsHangOffNothing
  <1> QED BY <1>2, <1>3, <1>4 DEF Sound

(* One database changes, nothing of a project is buried and every bundle   *)
(* stays.                                                                  *)
LEMMA StoreReplaced ==
    ASSUME TypeOK, AllSound, NEW n \in Node, NEW s, Sound(s), NEW lost, NoProjectIn(lost),
           db' = [db EXCEPT ![n] = s], bundle' = bundle,
           tombs' = [tombs EXCEPT ![n] = @ \cup lost]
    PROVE  AllSound'
  BY DEF AllSound, TypeOK, NoProjectIn

(* A row nobody had may be inserted where its keys are free.               *)
LEMMA WithIsSound ==
    ASSUME NEW s \in Store, Sound(s), NEW row \in Row, row \notin s.rows,
           NEW ends \in SUBSET Entities(s),
           row \in Entity =>
                /\ HomeOf[row] \subseteq s.rows
                /\ \A f \in Named(s, NameOf[row]) : HomeOf[f] # HomeOf[row],
           row \in Project =>
                \A q \in s.rows \cap Project : NameOf[q] # NameOf[row],
           row \in Entity \cup Project => ends = {},
           row \in Relation => \A q \in s.rows \cap Relation :
                LinkOf[q] = LinkOf[row] => s.ends[q] # ends
    PROVE  Sound(With(s, row, ends))
  <1> DEFINE t == With(s, row, ends)
  <1>1. /\ t.rows = s.rows \cup {row}
        /\ t.ends[row] = ends
        /\ \A r \in s.rows : t.ends[r] = s.ends[r]
    BY DEF With, Store
  <1>2. ForeignKeysHold(t)
    BY <1>1 DEF Sound, ForeignKeysHold, Entities
  <1>3. NamesUnique(t)
    BY <1>1 DEF Sound, NamesUnique, Entities, Named
  <1>4. TriplesUnique(t)
    BY <1>1 DEF Sound, TriplesUnique
  <1>5. RootsHangOffNothing(t)
    BY <1>1 DEF Sound, RootsHangOffNothing
  <1>6. ProjectsUnique(t)
    BY <1>1 DEF Sound, ProjectsUnique
  <1> QED BY <1>2, <1>3, <1>4, <1>5, <1>6 DEF Sound

(* Rows present at a node are rows it has seen, so a fresh row is absent.  *)
Remembered == \A n \in Node : db[n].rows \subseteq seen[n]

(* An insert keeps every node sound.                                       *)
LEMMA InsertSound ==
    ASSUME TypeOK, AllSound, Remembered,
           NEW n \in Node, NEW row \in Row, NEW ends, Insert(n, row, ends),
           row \in Entity =>
                /\ HomeOf[row] \subseteq db[n].rows
                /\ \A f \in Named(db[n], NameOf[row]) : HomeOf[f] # HomeOf[row],
           row \in Project =>
                \A q \in db[n].rows \cap Project : NameOf[q] # NameOf[row],
           row \in Entity \cup Project => ends = {},
           row \in Relation => \A q \in db[n].rows \cap Relation :
                LinkOf[q] = LinkOf[row] => db[n].ends[q] # ends
    PROVE  AllSound'
  <1>1. db[n] \in Store /\ Sound(db[n]) /\ row \notin db[n].rows
    BY DEF TypeOK, AllSound, Remembered, Insert, Fresh
  <1>2. ends \in SUBSET Entities(db[n])
    BY DEF Insert
  <1>3. Sound(With(db[n], row, ends))
    BY <1>1, <1>2, WithIsSound
  <1>4. /\ NoProjectIn({})
        /\ tombs' = [tombs EXCEPT ![n] = @ \cup {}]
    BY DEF NoProjectIn, Insert, TypeOK
  <1> QED BY <1>3, <1>4, StoreReplaced DEF Insert

(* So does a delete.                                                       *)
LEMMA EraseSound ==
    ASSUME TypeOK, AllSound, NEW n \in Node, NEW rows, NoProjectIn(rows), Erase(n, rows)
    PROVE  AllSound'
  <1>1. Sound(Without(db[n], rows))
    BY WithoutIsSound DEF TypeOK, AllSound
  <1>2. NoProjectIn(db[n].rows \ Without(db[n], rows).rows)
    BY WithoutKeepsProjects DEF TypeOK, AllSound, Sound, NoProjectIn
  <1> QED BY <1>1, <1>2, StoreReplaced DEF Erase, Bury

(* So do all the writers.                                                  *)
LEMMA LocalSound ==
    ASSUME TypeOK, AllSound, Remembered, NEW n \in Node, Local(n)
    PROVE  AllSound'
  <1>1. ASSUME NEW e \in Entity, AddEntity(n, e) PROVE AllSound'
    BY <1>1, InsertSound, StoreAssumption DEF AddEntity, Row
  <1>2. ASSUME NEW r \in Memory, NEW e \in Entity, AddMemory(n, r, e) PROVE AllSound'
    BY <1>2, InsertSound, StoreAssumption DEF AddMemory, Memory, Row
  <1>3. ASSUME NEW f \in Fact, NEW e \in Entity, AddFact(n, f, e) PROVE AllSound'
    BY <1>3, InsertSound, StoreAssumption DEF AddFact, Row
  <1>4. ASSUME NEW r \in Relation, NEW e \in Entity, NEW f \in Entity,
               AddRelation(n, r, e, f)
        PROVE  AllSound'
    <2>1. r \in Row /\ r \notin Entity \cup Project
      BY StoreAssumption DEF Row
    <2> QED BY <1>4, <2>1, InsertSound DEF AddRelation
  <1>5. ASSUME NEW r \in Error \cup Procedure, AddStandalone(n, r) PROVE AllSound'
    BY <1>5, InsertSound, StoreAssumption DEF AddStandalone, Row
  <1>6. ASSUME NEW r \in Row, DeleteRow(n, r) PROVE AllSound'
    <2>1. NoProjectIn({r})
      BY <1>6, StoreAssumption DEF DeleteRow, NoProjectIn
    <2> QED BY <1>6, <2>1, EraseSound DEF DeleteRow
  <1>7. ASSUME NEW name, NEW errors \in SUBSET Error,
               DeleteEntities(n, name) \/ Forget(n, name, errors)
        PROVE  AllSound'
    <2>1. \A es \in Called(n, name) : es \subseteq Entity
      BY DEF Called, Named, Entities
    <2>2. \A es \in Called(n, name) : NoProjectIn(es) /\ NoProjectIn(es \cup errors)
      BY <2>1, StoreAssumption DEF NoProjectIn
    <2> QED BY <1>7, <2>2, EraseSound DEF DeleteEntities, Forget
  <1>8. ASSUME NEW p \in Project, AddProject(n, p) PROVE AllSound'
    BY <1>8, InsertSound, StoreAssumption DEF AddProject, Row
  <1> QED BY <1>1, <1>2, <1>3, <1>4, <1>5, <1>6, <1>7, <1>8 DEF Local

(* A sound store is published as a sound bundle.                           *)
LEMMA ExportSound ==
    ASSUME TypeOK, AllSound, NEW n \in Node, Export(n)
    PROVE  AllSound'
  <1> DEFINE new == [digest |-> <<n, Published(n) + 1>>, rows |-> db[n].rows,
                     ends |-> db[n].ends, tombs |-> tombs[n]]
  <1>1. Sound(new) /\ NoProjectIn(new.tombs)
    BY DEF AllSound, Sound, ForeignKeysHold, NamesUnique, ProjectsUnique,
           TriplesUnique, RootsHangOffNothing, Entities
  <1>2. bundle' = [bundle EXCEPT ![n] = new] /\ db' = db /\ tombs' = tombs
    BY DEF Export
  <1> QED BY <1>1, <1>2 DEF AllSound, TypeOK

(* What PostgreSQL accepts of a sound bundle leaves a sound store.         *)
LEMMA ImportCommittedSound ==
    ASSUME TypeOK, AllSound, NEW n \in Node, NEW m \in Node,
           NEW confirm, NEW deletes, ImportCommitted(n, m, confirm, deletes)
    PROVE  AllSound'
  <1> DEFINE left == AfterTombstones(db[n], bundle[m], deletes)
  <1>1. bundle[m] \in Bundle /\ db[n] \in Store
    BY OfferedTyped DEF ImportCommitted
  <1>2. Sound(bundle[m]) /\ Sound(db[n]) /\ NoProjectIn(bundle[m].tombs)
    BY DEF AllSound, ImportCommitted, Offered
  <1>3. PICK by \in ByName(left) :
            /\ DatabaseAccepts(db[n], by, bundle[m], deletes)
            /\ db' = [db EXCEPT ![n] = Result(db[n], by, bundle[m], deletes)]
    BY ImportWrites
  <1>4. Sound(Result(db[n], by, bundle[m], deletes))
    BY <1>1, <1>2, <1>3, ResultIsSound
  <1>5. NoProjectIn(db[n].rows \ left.rows)
    BY <1>1, <1>2, AfterTombstonesIsSound DEF NoProjectIn
  <1> QED BY <1>3, <1>4, <1>5, StoreReplaced DEF ImportCommitted, Bury

(* What a node holds it has seen.                                          *)
LEMMA NextRemembers == TypeOK /\ Remembered /\ [Next]_vars => Remembered'
  <1> SUFFICES ASSUME TypeOK, Remembered, [Next]_vars PROVE Remembered'
    OBVIOUS
  <1>1. CASE UNCHANGED vars
    BY <1>1 DEF vars, Remembered
  <1>2. ASSUME NEW n \in Node, NEW row, NEW ends, Insert(n, row, ends) PROVE Remembered'
    <2>1. With(db[n], row, ends).rows = db[n].rows \cup {row}
      BY DEF With
    <2> QED BY <1>2, <2>1 DEF Insert, Remembered, TypeOK
  <1>3. ASSUME NEW n \in Node, NEW rows, Erase(n, rows) PROVE Remembered'
    <2>1. Without(db[n], rows).rows \subseteq db[n].rows
      BY WithoutIsStore DEF TypeOK
    <2> QED BY <1>3, <2>1 DEF Erase, Remembered, TypeOK
  <1>4. ASSUME NEW n \in Node, Local(n) PROVE Remembered'
    BY <1>2, <1>3, <1>4 DEF Local, AddProject, AddEntity, AddMemory, AddFact,
          AddRelation, AddStandalone, DeleteRow, DeleteEntities, Forget
  <1>5. ASSUME NEW n \in Node, Export(n) PROVE Remembered'
    BY <1>5 DEF Export, Remembered
  <1>6. ASSUME NEW n \in Node, NEW m, NEW confirm, NEW deletes,
               ImportCommitted(n, m, confirm, deletes)
        PROVE  Remembered'
    BY <1>6, ImportWrites DEF Remembered, TypeOK
  <1> QED BY <1>1, <1>4, <1>5, <1>6
        DEF Next, Import, ImportAlarmed, ImportSkipped, ImportRejected

(* Every step keeps every node sound.                                      *)
LEMMA NextSound == TypeOK /\ Remembered /\ AllSound /\ [Next]_vars => AllSound'
  <1> SUFFICES ASSUME TypeOK, Remembered, AllSound, [Next]_vars PROVE AllSound'
    OBVIOUS
  <1>1. CASE UNCHANGED vars
    BY <1>1 DEF vars, AllSound
  <1>2. ASSUME NEW n \in Node, Local(n) PROVE AllSound'
    BY <1>2, LocalSound
  <1>3. ASSUME NEW n \in Node, Export(n) PROVE AllSound'
    BY <1>3, ExportSound
  <1>4. ASSUME NEW n \in Node, NEW m \in Sources[n],
               NEW confirm \in BOOLEAN, NEW deletes \in BOOLEAN,
               Import(n, m, confirm, deletes)
        PROVE  AllSound'
    <2>1. m \in Node
      BY SyncAssumption
    <2>2. CASE ImportCommitted(n, m, confirm, deletes)
      BY <2>1, <2>2, ImportCommittedSound
    <2>3. CASE UNCHANGED vars
      BY <2>3 DEF vars, AllSound
    <2> QED BY <1>4, <2>2, <2>3 DEF Import, ImportAlarmed, ImportSkipped, ImportRejected
  <1> QED BY <1>1, <1>2, <1>3, <1>4 DEF Next

(* Every database and every bundle stays sound: an import that the foreign *)
(* keys let through never trips over a name or over a triple, although it  *)
(* rewrites identities by name.                                            *)
THEOREM StoresAreConsistent == Spec => []StoresConsistent
  <1>1. Init => Remembered
    BY DEF Init, Remembered, EmptyStore
  <1>2. Init => AllSound
    BY EmptyStoreIsSound DEF Init, AllSound, NoProjectIn
  <1>3. AllSound => StoresConsistent
    BY DEF AllSound, Sound, StoresConsistent
  <1> QED BY <1>1, <1>2, <1>3, NextRemembers, NextSound, TypeCorrect, PTL DEF Spec

-----------------------------------------------------------------------------
(* What a recorded digest stands for.                                      *)

(* A digest names the node that published the bytes.                       *)
DigestsNamePublisher ==
    \A m \in Node : bundle[m] # NoBundle => bundle[m].digest[1] = m

(* Handlers publish nothing and record nothing.                            *)
LEMMA LocalIsLocal ==
    ASSUME NEW n \in Node, Local(n)
    PROVE  bundle' = bundle /\ imported' = imported
  <1>1. ASSUME NEW row, NEW ends, Insert(n, row, ends)
        PROVE  bundle' = bundle /\ imported' = imported
    BY <1>1 DEF Insert
  <1>2. ASSUME NEW rows, Erase(n, rows)
        PROVE  bundle' = bundle /\ imported' = imported
    BY <1>2 DEF Erase
  <1> QED BY <1>1, <1>2 DEF Local, AddProject, AddEntity, AddMemory, AddFact,
          AddRelation, AddStandalone, DeleteRow, DeleteEntities, Forget

(* A step that is neither a publication nor a committed import moves       *)
(* neither bundles nor records of imports.                                 *)
LEMMA WhatMoves ==
    ASSUME [Next]_vars
    PROVE  \/ bundle' = bundle /\ imported' = imported
           \/ \E n \in Node : Export(n)
           \/ \E n, m \in Node, confirm, deletes \in BOOLEAN :
                    ImportCommitted(n, m, confirm, deletes)
  <1>1. CASE UNCHANGED vars
    BY <1>1 DEF vars
  <1>2. ASSUME NEW n \in Node, NEW m \in Sources[n],
               NEW confirm \in BOOLEAN, NEW deletes \in BOOLEAN,
               Import(n, m, confirm, deletes)
        PROVE  UNCHANGED vars \/ (m \in Node /\ ImportCommitted(n, m, confirm, deletes))
    BY <1>2, SyncAssumption DEF Import, ImportAlarmed, ImportSkipped, ImportRejected
  <1> QED BY <1>1, <1>2, LocalIsLocal DEF Next

(* Every step keeps the publisher in the digest.                           *)
LEMMA NextNamesPublisher ==
    TypeOK /\ DigestsNamePublisher /\ [Next]_vars => DigestsNamePublisher'
  <1> SUFFICES ASSUME TypeOK, DigestsNamePublisher, [Next]_vars
               PROVE  DigestsNamePublisher'
    OBVIOUS
  <1>1. CASE bundle' = bundle
    BY <1>1 DEF DigestsNamePublisher
  <1>2. ASSUME NEW n \in Node, Export(n) PROVE DigestsNamePublisher'
    BY <1>2 DEF Export, DigestsNamePublisher, TypeOK
  <1>3. ASSUME NEW n, NEW m, NEW confirm, NEW deletes,
               ImportCommitted(n, m, confirm, deletes)
        PROVE  bundle' = bundle
    BY <1>3 DEF ImportCommitted
  <1> QED BY <1>1, <1>2, <1>3, WhatMoves

(* Once nothing was withheld, no row the bundle buries and the import      *)
(* filters is left, and every entity file has an entity of its name here.  *)
LEMMA AppliedOnceNothingWithheld ==
    ASSUME NEW s \in Store, NEW b \in Bundle, NEW deletes \in BOOLEAN,
           NEW by \in ByName(AfterTombstones(s, b, deletes)),
           NothingWithheld(s, b, deletes)
    PROVE  /\ Result(s, by, b, deletes).rows \cap b.tombs
                \cap (Entity \cup Observation \cup Fact \cup Procedure) = {}
           /\ \A e \in (b.rows \cap Entity) \ b.tombs :
                Named(Result(s, by, b, deletes), NameOf[e]) # {}
  <1> DEFINE left == AfterTombstones(s, b, deletes)
             Filtered == Entity \cup Observation \cup Fact \cup Procedure
  <1>1. left \in Store
    BY AfterTombstonesIsStore
  <1>2. Buried(b, deletes) = b.tombs
    BY DEF Buried, NothingWithheld
  <1>3. left.rows \cap b.tombs = {}
    <2>1. CASE deletes
      <3>1. WithheldEntities(s, b) = {}
        BY <2>1 DEF NothingWithheld
      <3>2. left = Without(NamedRowsGone(s, b), b.tombs \cap Entity)
        BY <2>1, <3>1 DEF AfterTombstones
      <3> QED BY <3>2 DEF NamedRowsGone, Without, Kept
    <2>2. CASE ~deletes
      BY <2>2 DEF NothingWithheld
    <2> QED BY <2>1, <2>2
  <1>4. Landing(left, by, b, deletes) \cap b.tombs \cap Filtered = {}
    <2>1. LandingEntities(by, b, deletes) \cap b.tombs = {}
      BY <1>2, <1>3, ByNameFinds DEF LandingEntities, Resolve, Files, Entities
    <2>2. (LandingObservations(b, deletes) \cup LandingFacts(b, deletes)) \cap b.tombs = {}
      BY <1>2 DEF LandingObservations, LandingFacts
    <2>3. (LandingUnfiltered(b) \cup LandingRelations(left, by, b, deletes)) \cap Filtered = {}
      BY BatchIsOfBundle, StoreAssumption DEF LandingUnfiltered, LandingRelations
    <2> QED BY <2>1, <2>2, <2>3 DEF Landing
  <1>5. ASSUME NEW e \in (b.rows \cap Entity) \ b.tombs
        PROVE  Named(Result(s, by, b, deletes), NameOf[e]) # {}
    <2>1. e \in Files(b, deletes)
      BY <1>2 DEF Files
    <2>2. Resolve(by, b, deletes, e) \in Result(s, by, b, deletes).rows
      BY <2>1 DEF Result, Merged, Landing, LandingEntities
    <2>3. /\ Resolve(by, b, deletes, e) \in Entity
          /\ NameOf[Resolve(by, b, deletes, e)] = NameOf[e]
      BY <1>1, ResolveIsEntity, ResolveKeepsName
    <2> QED BY <2>2, <2>3 DEF Named, Entities
  <1> QED BY <1>3, <1>4, <1>5 DEF Result, Merged

(* A digest an import records is one of a bundle that has been applied, as *)
(* long as the digest tells that bundle from any other.                    *)
LEMMA ImportRecordsApplied ==
    ASSUME TypeOK, NEW n \in Node, NEW m \in Node, NEW k \in Node, NEW l \in Node,
           NEW confirm, NEW deletes \in BOOLEAN, ImportCommitted(k, l, confirm, deletes),
           bundle[m] # NoBundle, bundle[m].digest \in imported'[n] \ imported[n],
           bundle[m].digest = bundle[l].digest => bundle[m] = bundle[l]
    PROVE  /\ db'[n].rows \cap bundle[m].tombs
                \cap (Entity \cup Observation \cup Fact \cup Procedure) = {}
           /\ \A e \in (bundle[m].rows \cap Entity) \ bundle[m].tombs :
                   Named(db'[n], NameOf[e]) # {}
  <1>1. /\ k = n
        /\ bundle[m] = bundle[l]
        /\ NothingWithheld(db[n], bundle[l], deletes)
    BY DEF ImportCommitted, Record, TypeOK
  <1>2. bundle[m] \in Bundle /\ db[n] \in Store
    BY DEF TypeOK
  <1>3. PICK by \in ByName(AfterTombstones(db[n], bundle[m], deletes)) :
              db'[n] = Result(db[n], by, bundle[m], deletes)
    BY <1>1, ImportWrites DEF TypeOK
  <1> QED BY <1>1, <1>2, <1>3, AppliedOnceNothingWithheld

(* brain_sync_state forgets nothing it should still apply: the same bytes  *)
(* are skipped for ever only after all their filtered deletions and all    *)
(* their entities have taken effect here.                                  *)
THEOREM RecordedIsApplied == Spec => RecordedMeansApplied
  <1> DEFINE Step ==
        \A n, m \in Node :
            /\ bundle[m] # NoBundle
            /\ bundle[m].digest \in imported'[n] \ imported[n]
            =>  /\ db'[n].rows \cap bundle[m].tombs
                     \cap (Entity \cup Observation \cup Fact \cup Procedure) = {}
                /\ \A e \in (bundle[m].rows \cap Entity) \ bundle[m].tombs :
                        Named(db'[n], NameOf[e]) # {}
  <1>1. Init => DigestsNamePublisher
    BY DEF Init, DigestsNamePublisher
  <1>2. TypeOK /\ DigestsNamePublisher /\ [Next]_vars => [Step]_vars
    <2> SUFFICES ASSUME TypeOK, DigestsNamePublisher, [Next]_vars,
                        NEW n \in Node, NEW m \in Node, bundle[m] # NoBundle,
                        bundle[m].digest \in imported'[n] \ imported[n]
                 PROVE  /\ db'[n].rows \cap bundle[m].tombs
                             \cap (Entity \cup Observation \cup Fact \cup Procedure) = {}
                        /\ \A e \in (bundle[m].rows \cap Entity) \ bundle[m].tombs :
                                Named(db'[n], NameOf[e]) # {}
      OBVIOUS
    <2>1. ~(imported' = imported) /\ ~(\E k \in Node : Export(k))
      BY DEF Export
    <2>2. PICK k \in Node, l \in Node, confirm \in BOOLEAN, deletes \in BOOLEAN :
                ImportCommitted(k, l, confirm, deletes)
      BY <2>1, WhatMoves
    <2>3. bundle[m].digest = bundle[l].digest => bundle[m] = bundle[l]
      BY <2>2 DEF DigestsNamePublisher, ImportCommitted, Offered
    <2> QED BY <2>2, <2>3, ImportRecordsApplied
  <1> QED BY <1>1, <1>2, NextNamesPublisher, TypeCorrect, PTL DEF Spec, RecordedMeansApplied

-----------------------------------------------------------------------------
(* The alarm.                                                              *)

(* Databases are finite, and so is what they publish.                      *)
FiniteStores ==
    \A n \in Node :
        /\ IsFiniteSet(db[n].rows)
        /\ bundle[n] # NoBundle => IsFiniteSet(bundle[n].rows)

(* An import lands nothing that neither side held.                         *)
LEMMA ResultFromBoth ==
    ASSUME NEW s \in Store, NEW b \in Bundle, NEW deletes,
           NEW by \in ByName(AfterTombstones(s, b, deletes))
    PROVE  Result(s, by, b, deletes).rows \subseteq s.rows \cup b.rows
  <1> DEFINE left == AfterTombstones(s, b, deletes)
  <1>1. left \in Store /\ left.rows \subseteq s.rows
    BY AfterTombstonesIsStore
  <1>2. LandingEntities(by, b, deletes) \subseteq left.rows \cup b.rows
    BY ByNameFinds DEF LandingEntities, Resolve, Entities, Files
  <1>3. Landing(left, by, b, deletes) \subseteq left.rows \cup b.rows
    BY <1>2, BatchIsOfBundle DEF Landing, LandingObservations, LandingFacts,
          LandingUnfiltered, LandingRelations
  <1> QED BY <1>1, <1>3 DEF Result, Merged

(* Writers keep the stores finite.                                         *)
LEMMA LocalFinite ==
    ASSUME TypeOK, FiniteStores, NEW n \in Node, Local(n)
    PROVE  FiniteStores'
  <1>1. ASSUME NEW row, NEW ends, Insert(n, row, ends)
        PROVE  FiniteStores'
    <2>1. /\ With(db[n], row, ends).rows = db[n].rows \cup {row}
          /\ IsFiniteSet(db[n].rows \cup {row})
      BY FS_AddElement DEF With, FiniteStores
    <2>2. IsFiniteSet(With(db[n], row, ends).rows)
      BY <2>1
    <2> QED BY <1>1, <2>2 DEF Insert, FiniteStores, TypeOK
  <1>2. ASSUME NEW rows, Erase(n, rows) PROVE FiniteStores'
    <2>1. Without(db[n], rows).rows \in SUBSET db[n].rows
      BY WithoutIsStore DEF TypeOK
    <2>2. IsFiniteSet(Without(db[n], rows).rows)
      BY <2>1, FS_Subset DEF FiniteStores
    <2> QED BY <1>2, <2>2 DEF Erase, FiniteStores, TypeOK
  <1> QED BY <1>1, <1>2 DEF Local, AddProject, AddEntity, AddMemory, AddFact,
          AddRelation, AddStandalone, DeleteRow, DeleteEntities, Forget

(* So do imports.                                                          *)
LEMMA ImportFinite ==
    ASSUME TypeOK, FiniteStores, NEW n \in Node, NEW m \in Node,
           NEW confirm, NEW deletes, ImportCommitted(n, m, confirm, deletes)
    PROVE  FiniteStores'
  <1> PICK by \in ByName(AfterTombstones(db[n], bundle[m], deletes)) :
          db' = [db EXCEPT ![n] = Result(db[n], by, bundle[m], deletes)]
    BY ImportWrites
  <1> DEFINE result == Result(db[n], by, bundle[m], deletes)
  <1>1. bundle[m] # NoBundle
    BY DEF ImportCommitted, Offered
  <1>2. IsFiniteSet(db[n].rows \cup bundle[m].rows)
    BY <1>1, FS_Union DEF FiniteStores
  <1>3. result.rows \in SUBSET (db[n].rows \cup bundle[m].rows)
    BY OfferedTyped, ResultFromBoth DEF ImportCommitted
  <1>4. IsFiniteSet(result.rows)
    BY <1>2, <1>3, FS_Subset
  <1>5. db' = [db EXCEPT ![n] = result] /\ bundle' = bundle
    BY DEF ImportCommitted
  <1> QED BY <1>4, <1>5 DEF FiniteStores, TypeOK

(* Every step keeps the stores finite.                                     *)
LEMMA NextFinite == TypeOK /\ FiniteStores /\ [Next]_vars => FiniteStores'
  <1> SUFFICES ASSUME TypeOK, FiniteStores, [Next]_vars PROVE FiniteStores'
    OBVIOUS
  <1>1. CASE UNCHANGED vars
    BY <1>1 DEF vars, FiniteStores
  <1>2. ASSUME NEW n \in Node, Export(n) PROVE FiniteStores'
    BY <1>2 DEF Export, FiniteStores, TypeOK
  <1>3. ASSUME NEW n \in Node, NEW m \in Sources[n], NEW confirm, NEW deletes,
               ImportCommitted(n, m, confirm, deletes)
        PROVE  FiniteStores'
    BY <1>3, ImportFinite, SyncAssumption
  <1> QED BY <1>1, <1>2, <1>3, LocalFinite
        DEF Next, Import, ImportAlarmed, ImportSkipped, ImportRejected

(* Half of the alarm's condition is monotonic in what would be deleted.    *)
LEMMA AlarmMonotonic ==
    ASSUME NEW lost \in Nat, NEW would \in Nat, lost <= would,
           NEW inverse \in Nat, NEW total, total \in Nat, lost * inverse > total
    PROVE  would * inverse > total
  <1>1. PICK d \in Nat : would = lost + d
    <2>1. would - lost \in Nat /\ would = lost + (would - lost)
      OBVIOUS
    <2> QED BY <2>1
  <1>2. would * inverse = lost * inverse + d * inverse
    BY <1>1
  <1>3. d * inverse \in Nat /\ lost * inverse \in Nat /\ would * inverse \in Nat
    OBVIOUS
  <1> QED BY <1>2, <1>3

(* The observations and episodes an unconfirmed import takes are rows the  *)
(* bundle names and the alarm counted, because no cascade reaches others.  *)
LEMMA UnconfirmedImportIsBounded ==
    ASSUME TypeOK, FiniteStores, NEW n \in Node, NEW m \in Node,
           NEW deletes \in BOOLEAN, ImportCommitted(n, m, FALSE, deletes),
           Cardinality(MemoriesLost(n)) >= AlarmFloor,
           Cardinality(MemoriesLost(n)) * AlarmInverse > AlarmTotal(db[n])
    PROVE  FALSE
  <1> DEFINE lost == Cardinality(MemoriesLost(n))
             would == WouldDelete(db[n], bundle[m])
  <1>1. bundle[m] \in Bundle /\ db[n] \in Store /\ IsFiniteSet(db[n].rows)
    BY OfferedTyped DEF ImportCommitted, FiniteStores
  <1>2. AfterTombstones(db[n], bundle[m], deletes).rows \subseteq db'[n].rows
    BY ImportLeaves
  <1>3. MemoriesLost(n) \in SUBSET (db[n].rows \cap bundle[m].tombs)
    BY ImportTakesNamed DEF MemoriesLost, RowsLost
  <1>4. IsFiniteSet(db[n].rows \cap bundle[m].tombs)
    BY <1>1, FS_Subset
  <1>5. lost \in Nat /\ would \in Nat /\ lost <= would
    BY <1>3, <1>4, FS_Subset, FS_CardinalityType DEF WouldDelete
  <1>6. CASE deletes
    <2>1. AlarmTotal(db[n]) \in Nat
      BY <1>1, FS_Subset, FS_CardinalityType DEF AlarmTotal
    <2>2. would * AlarmInverse > AlarmTotal(db[n])
      BY <1>5, <2>1, AlarmMonotonic, SyncAssumption
    <2>3. would >= AlarmFloor
      BY <1>5, SyncAssumption
    <2> QED BY <1>6, <2>2, <2>3 DEF Alarmed, ImportCommitted
  <1>7. CASE ~deletes
    <2>1. MemoriesLost(n) = {}
      BY <1>7, WithheldImportAdds DEF MemoriesLost
    <2>2. lost = 0
      BY <2>1, FS_EmptySet
    <2> QED BY <2>2, SyncAssumption
  <1> QED BY <1>6, <1>7

(* Empty databases are finite.                                             *)
LEMMA InitFinite == Init => FiniteStores
  <1>1. IsFiniteSet(EmptyStore.rows)
    BY FS_EmptySet DEF EmptyStore
  <1> QED BY <1>1 DEF Init, FiniteStores

(* An import nobody confirmed cannot take a tenth of what people wrote.    *)
THEOREM UnconfirmedLossIsSmall == Spec => UnconfirmedLossIsBounded
  <1> DEFINE Step ==
        \A n \in Node :
            LET lost == Cardinality(MemoriesLost(n))
            IN  lost >= AlarmFloor /\ lost * AlarmInverse > AlarmTotal(db[n]) =>
                    \A m \in Node, deletes \in BOOLEAN :
                        ~ImportCommitted(n, m, FALSE, deletes)
  <1>1. TypeOK /\ FiniteStores => [Step]_vars
    BY UnconfirmedImportIsBounded
  <1> QED BY <1>1, InitFinite, NextFinite, TypeCorrect, PTL DEF Spec, UnconfirmedLossIsBounded
=============================================================================
