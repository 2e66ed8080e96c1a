--------------------------- MODULE BranchesProofs ---------------------------
(* Theorems about Branches for every set of rows, every alarm threshold and *)
(* every number of commits.                                                *)
EXTENDS MCReplicaSync, ReplicaSyncProofs

-----------------------------------------------------------------------------
(* The invariant.                                                          *)

Tree == [rows : SUBSET Row, ends : [Row -> SUBSET Entity], tombs : SUBSET Row]

BranchesTypeOK ==
    /\ base \in Tree
    /\ commits \in [Node -> Nat]
    /\ hooked \in [Node -> BOOLEAN]
    /\ merged \in [Node -> [rows : SUBSET Row, ends : [Relation -> SUBSET Entity],
                            landed : BOOLEAN]]
    /\ excused \in [Node -> SUBSET Row]
    /\ refused \in [Node -> SUBSET Row]

(* An observation hangs off one entity, and is never without it.           *)
Filed(t) == \A r \in t.rows \cap Observation : \E e \in Entities(t) : t.ends[r] = {e}

(* What a commit, a tip and a database say of one relation is the same but *)
(* for the identities of its ends: whoever has a row had it from whoever   *)
(* created it, and an import rewrites the ends to entities of their names. *)
Holders == {base} \cup {db[n] : n \in Node} \cup {merged[n] : n \in Node}
             \cup {Tip(n) : n \in Node}

AlikeIn(holders) ==
    \A s, t \in holders : \A r \in s.rows \cap t.rows \cap Relation :
        EndNames(s.ends[r]) = EndNames(t.ends[r])

Alike == AlikeIn(Holders)

Known == \A t \in Holders : \A r \in t.rows : ~Fresh(r)

AllFiled ==
    /\ Filed(base)
    /\ \A n \in Node : Filed(db[n]) /\ Filed(Tip(n))

(* A digest is given to one tree, and counts the commits of who gave it.   *)
Dated ==
    /\ \A n, p \in Node :
            bundle[n] # NoBundle /\ bundle[p] # NoBundle
              /\ bundle[n].digest = bundle[p].digest => bundle[n] = bundle[p]
    /\ \A n \in Node :
            bundle[n] # NoBundle => bundle[n].digest[2] <= commits[bundle[n].digest[1]]
    /\ \A n \in Node : \A d \in imported[n] : d[2] <= commits[d[1]]

Stored(n, r, ends) == Accounted(db[n], tombs[n], r, ends)

(* What an import of tree t brings: a row t holds and does not bury, or a  *)
(* relation, under that identity or another of its triple.                 *)
Stands(t, r, ends) ==
    IF r \in Relation
    THEN \E q \in t.rows \cap Relation :
            LinkOf[q] = LinkOf[r] /\ EndNames(t.ends[q]) = EndNames(ends)
    ELSE /\ r \in t.rows \ t.tombs
         /\ r \in Observation => t.ends[r] \cap t.tombs = {}

(* A digest taken in brought everything its tree stands for.               *)
Taken ==
    \A n, p \in Node :
        bundle[p] # NoBundle /\ bundle[p].digest \in imported[n] =>
            \A r \in Tip(p).rows :
                Stands(Tip(p), r, Tip(p).ends[r]) => Stored(n, r, Tip(p).ends[r])

(* What a branch holds its node has, or has yet to import.                 *)
Owed(n, r) == hooked[n] /\ r \in merged[n].rows

Branched ==
    \A n \in Node : \A t \in {base, Tip(n)} : \A r \in t.rows :
        r \in excused[n] \cup refused[n] \/ Stored(n, r, t.ends[r]) \/ Owed(n, r)

(* Until the hook runs, what it owes is here or stands in the merged tree. *)
Pending ==
    \A n \in Node : hooked[n] => \A r \in merged[n].rows :
        \/ r \in refused[n]
        \/ Stored(n, r, merged[n].ends[r])
        \/ Stands(Tip(n), r, merged[n].ends[r])

(* A merge the hook has run for has landed, or its rows are on record as   *)
(* those of a refused import.                                              *)
HookRan ==
    \A n \in Node :
        ~hooked[n] => merged[n].landed \/ merged[n].rows \subseteq refused[n]

BranchesInv ==
    /\ TypeOK
    /\ BranchesTypeOK
    /\ Alike
    /\ Known
    /\ AllFiled
    /\ Dated
    /\ Taken
    /\ Branched
    /\ Pending
    /\ HookRan
    /\ \A n \in Node : Sound(db[n])
    /\ LandedMergesKeepBothSides

-----------------------------------------------------------------------------
(* What a merge makes of two trees.                                        *)

(* git takes one side of a file or both, and both sides' new rows.         *)
LEMMA Merge3Keeps ==
    ASSUME NEW old, NEW ours, NEW theirs
    PROVE  /\ Merge3(old, ours, theirs) \in {ours, theirs, ours \cup theirs}
           /\ theirs \ old \subseteq Merge3(old, ours, theirs)
  BY DEF Merge3, Driven

(* What is held of an entity's file was in one of the two, whole.          *)
LEMMA HeldIsOfFiles ==
    ASSUME NEW old, NEW ours, NEW theirs, NEW dropped, NEW e,
           NEW r \in Held(old, ours, theirs, dropped, e)
    PROVE  /\ e \notin dropped
           /\ Held(old, ours, theirs, dropped, e)
                \in {File(ours, e), File(theirs, e), File(ours, e) \cup File(theirs, e)}
           /\ r \in File(ours, e) \cup File(theirs, e)
  BY Merge3Keeps DEF Held

(* The kept relations are of either side, and one of them stands for each. *)
LEMMA RelationsOfTriples ==
    ASSUME NEW old, NEW ours, NEW theirs, NEW kept \in Relations(old, ours, theirs)
    PROVE  /\ \A p \in kept : p \in Lines(ours) \cup Lines(theirs)
           /\ {p[1] : p \in kept} \subseteq (ours.rows \cup theirs.rows) \cap Relation
           /\ \A p, q \in kept : p[1] = q[1] => p = q
           /\ \A r \in (theirs.rows \ old.rows) \cap Relation :
                \E q \in kept : Twins(<<r, theirs.ends[r]>>, q)
  <1> DEFINE all == Merge3(Lines(old), Lines(ours), Lines(theirs))
  <1>1. /\ kept \subseteq all
        /\ \A p, q \in kept : Twins(p, q) => p = q
        /\ \A p \in all : \E q \in kept : Twins(p, q)
    BY DEF Relations
  <1>2. /\ all \in {Lines(ours), Lines(theirs), Lines(ours) \cup Lines(theirs)}
        /\ Lines(theirs) \ Lines(old) \subseteq all
    BY Merge3Keeps
  <1> HIDE DEF all
  <1>3. \A p \in kept : p \in Lines(ours) \cup Lines(theirs)
    BY <1>1, <1>2
  <1>4. \A p \in Lines(ours) \cup Lines(theirs) :
            p[1] \in (ours.rows \cup theirs.rows) \cap Relation
    BY DEF Lines, OfTable
  <1>5. ASSUME NEW r \in (theirs.rows \ old.rows) \cap Relation
        PROVE  <<r, theirs.ends[r]>> \in all
    <2>1. <<r, theirs.ends[r]>> \in Lines(theirs)
      BY <1>5 DEF Lines, OfTable
    <2>2. <<r, theirs.ends[r]>> \notin Lines(old)
      BY <1>5 DEF Lines, OfTable
    <2> QED BY <1>2, <2>1, <2>2
  <1> QED BY <1>1, <1>3, <1>4, <1>5 DEF Twins

(* A merged tree is the merged files and the kept relations.               *)
LEMMA RowsOfFiles ==
    ASSUME NEW old, NEW ours, NEW theirs, NEW dropped, NEW relations, NEW r
    PROVE  r \in MergedRows(old, ours, theirs, dropped, relations) <=>
                \/ \E t \in Tables :
                        r \in Merge3(OfTable(old, t), OfTable(ours, t), OfTable(theirs, t))
                \/ \E e \in Entity : r \in Held(old, ours, theirs, dropped, e)
                \/ \E p \in relations : p[1] = r
  <1> DEFINE Of(t) == Merge3(OfTable(old, t), OfTable(ours, t), OfTable(theirs, t))
             Under(e) == Held(old, ours, theirs, dropped, e)
  <1>1. r \in MergedTables(old, ours, theirs) <=> \E t \in Tables : r \in Of(t)
    <2>1. MergedTables(old, ours, theirs) = UNION {Of(t) : t \in Tables}
      BY DEF MergedTables
    <2> HIDE DEF Of
    <2> QED BY <2>1
  <1>2. r \in MergedFiles(old, ours, theirs, dropped) <=> \E e \in Entity : r \in Under(e)
    <2>1. MergedFiles(old, ours, theirs, dropped) = UNION {Under(e) : e \in Entity}
      BY DEF MergedFiles
    <2> HIDE DEF Under
    <2> QED BY <2>1
  <1> QED BY <1>1, <1>2 DEF MergedRows

(* A merged tree has no row that neither side has.                         *)
LEMMA MergedRowsOfBoth ==
    ASSUME NEW old, NEW ours, NEW theirs, NEW dropped,
           NEW relations \in Relations(old, ours, theirs)
    PROVE  MergedRows(old, ours, theirs, dropped, relations)
                \subseteq ours.rows \cup theirs.rows
  <1>1. \A p \in relations : p[1] \in ours.rows \cup theirs.rows
    BY RelationsOfTriples
  <1>2. ASSUME NEW t
        PROVE  Merge3(OfTable(old, t), OfTable(ours, t), OfTable(theirs, t))
                    \subseteq ours.rows \cup theirs.rows
    BY Merge3Keeps DEF OfTable
  <1>3. ASSUME NEW e
        PROVE  Held(old, ours, theirs, dropped, e) \subseteq ours.rows \cup theirs.rows
    BY HeldIsOfFiles DEF File
  <1> QED BY <1>1, <1>2, <1>3, RowsOfFiles

(* A row of one tree is a row of another, and refers to the same there.    *)
RelatesAs(tree, side, r) == r \in side.rows /\ tree.ends[r] = side.ends[r]

(* A relation in a merged tree is a kept one, and relates what that does.  *)
LEMMA MergedTreeEnds ==
    ASSUME NEW old, NEW ours, NEW theirs, NEW dropped,
           NEW relations \in Relations(old, ours, theirs),
           NEW tree, tree = MergedTree(old, ours, theirs, dropped, relations),
           NEW r \in tree.rows \cap Relation
    PROVE  /\ <<r, tree.ends[r]>> \in relations
           /\ RelatesAs(tree, ours, r) \/ RelatesAs(tree, theirs, r)
  <1>6. r \in MergedRows(old, ours, theirs, dropped, relations)
    BY DEF MergedTree
  <1>1. PICK p \in relations : p[1] = r
    <2>1. ASSUME NEW t \in Tables
          PROVE  r \notin Merge3(OfTable(old, t), OfTable(ours, t), OfTable(theirs, t))
      <3>1. r \notin t
        BY StoreAssumption DEF Tables
      <3> QED BY <3>1, Merge3Keeps DEF OfTable
    <2>2. ASSUME NEW e \in Entity PROVE r \notin Held(old, ours, theirs, dropped, e)
      BY HeldIsOfFiles, StoreAssumption DEF File
    <2> QED BY <1>6, <2>1, <2>2, RowsOfFiles
  <1> DEFINE q == CHOOSE o \in relations : o[1] = r
  <1>2. q \in relations /\ q[1] = r
    BY <1>1
  <1>3. r \in Row
    BY DEF Row
  <1>4. tree.ends[r] = q[2]
    BY <1>3, <1>6 DEF MergedTree
  <1> HIDE DEF q
  <1>5. \/ q = <<r, ours.ends[r]>> /\ r \in ours.rows
        \/ q = <<r, theirs.ends[r]>> /\ r \in theirs.rows
    <2>1. q \in Lines(ours) \cup Lines(theirs)
      BY <1>2, RelationsOfTriples
    <2> QED BY <1>2, <2>1 DEF Lines, OfTable
  <1> QED BY <1>2, <1>4, <1>5 DEF RelatesAs

(* A merged tree is a tree of the two: its rows, the references each has   *)
(* and its tombstones are one side's or the other's.                       *)
LEMMA MergedTreeOfBoth ==
    ASSUME NEW old, NEW ours \in Tree, NEW theirs \in Tree,
           NEW tree \in Merges(old, ours, theirs)
    PROVE  /\ tree \in Tree
           /\ tree.rows \subseteq ours.rows \cup theirs.rows
           /\ tree.tombs \subseteq ours.tombs \cup theirs.tombs
           /\ \A r \in tree.rows : tree.ends[r] \in {ours.ends[r], theirs.ends[r]}
           /\ \A r \in tree.rows \cap Relation :
                RelatesAs(tree, ours, r) \/ RelatesAs(tree, theirs, r)
  <1>1. PICK dropped \in SUBSET Stopped(old, ours, theirs),
             relations \in Relations(old, ours, theirs) :
                tree = MergedTree(old, ours, theirs, dropped, relations)
    BY DEF Merges
  <1> DEFINE rows == MergedRows(old, ours, theirs, dropped, relations)
             ends(r) == IF r \notin rows THEN {}
                        ELSE IF r \in Relation THEN (CHOOSE p \in relations : p[1] = r)[2]
                        ELSE IF FromOurs(old, ours, theirs, dropped, r) THEN ours.ends[r]
                        ELSE theirs.ends[r]
  <1>2. tree = [rows |-> rows, ends |-> [r \in Row |-> ends(r)],
                tombs |-> Merge3(old.tombs, ours.tombs, theirs.tombs)]
    BY <1>1 DEF MergedTree
  <1>3. rows \subseteq ours.rows \cup theirs.rows
    BY MergedRowsOfBoth
  <1>4. rows \subseteq Row
    BY <1>3 DEF Tree
  <1>8. \A r \in rows \cap Relation :
            RelatesAs(tree, ours, r) \/ RelatesAs(tree, theirs, r)
    <2>1. tree.rows = rows
      BY <1>2
    <2> HIDE DEF rows, ends
    <2>2. ASSUME NEW r \in tree.rows \cap Relation
          PROVE  RelatesAs(tree, ours, r) \/ RelatesAs(tree, theirs, r)
      BY <1>1, MergedTreeEnds
    <2> QED BY <2>1, <2>2
  <1>6. tree.tombs \in {ours.tombs, theirs.tombs, ours.tombs \cup theirs.tombs}
    BY <1>2, Merge3Keeps
  <1>7. \A r \in rows : tree.ends[r] = ends(r) /\ ends(r) \in {ours.ends[r], theirs.ends[r]}
    <2>1. \A r \in rows : tree.ends[r] = ends(r)
      BY <1>2, <1>4
    <2>2. \A r \in rows \ Relation : ends(r) \in {ours.ends[r], theirs.ends[r]}
      OBVIOUS
    <2> HIDE DEF ends, rows
    <2> QED BY <1>8, <2>1, <2>2 DEF RelatesAs
  <1>5. \A r \in Row : ends(r) \in SUBSET Entity
    <2>1. \A r \in Row : ours.ends[r] \in SUBSET Entity /\ theirs.ends[r] \in SUBSET Entity
      BY DEF Tree
    <2>2. \A r \in Row : r \notin rows => ends(r) = {}
      OBVIOUS
    <2> HIDE DEF ends, rows
    <2> QED BY <1>4, <1>7, <2>1, <2>2
  <1>9. tree \in Tree
    <2> HIDE DEF ends, rows
    <2> QED BY <1>2, <1>4, <1>5, <1>6 DEF Tree
  <1>10. tree.rows = rows
    BY <1>2
  <1> HIDE DEF ends, rows
  <1> QED BY <1>3, <1>6, <1>7, <1>8, <1>9, <1>10

(* In a filed tree an entity's file that holds anything holds the entity.  *)
LEMMA FilesHaveHeads ==
    ASSUME NEW t, Filed(t), NEW e \in Entity, NEW r \in File(t, e)
    PROVE  e \in File(t, e) /\ e \in t.rows
  BY DEF Filed, File, Entities

(* Merging two filed trees files every observation: with the entity whose  *)
(* file it is in, and ours first if it is in two.                          *)
LEMMA MergedTreeIsFiled ==
    ASSUME NEW old, NEW ours \in Tree, NEW theirs \in Tree, Filed(ours), Filed(theirs),
           NEW tree \in Merges(old, ours, theirs)
    PROVE  Filed(tree)
  <1>1. PICK dropped \in SUBSET Stopped(old, ours, theirs),
             relations \in Relations(old, ours, theirs) :
                tree = MergedTree(old, ours, theirs, dropped, relations)
    BY DEF Merges
  <1> DEFINE Of(e) == Held(old, ours, theirs, dropped, e)
  <1>2. tree.rows = MergedRows(old, ours, theirs, dropped, relations)
    BY <1>1 DEF MergedTree
  <1>3. \A e \in Entity : Of(e) \subseteq tree.rows
    BY <1>2, RowsOfFiles
  <1> SUFFICES ASSUME NEW r \in tree.rows \cap Observation
               PROVE  \E e \in Entities(tree) : tree.ends[r] = {e}
    BY DEF Filed
  <1>4. r \in Row
    BY DEF Row
  <1>5. PICK f \in Entity : r \in Of(f)
    <2>1. ~\E p \in relations : p[1] = r
      BY RelationsOfTriples, StoreAssumption
    <2>2. ASSUME NEW t \in Tables
          PROVE  r \notin Merge3(OfTable(old, t), OfTable(ours, t), OfTable(theirs, t))
      <3>1. r \notin t
        BY StoreAssumption DEF Tables
      <3> QED BY <3>1, Merge3Keeps DEF OfTable
    <2> QED BY <1>2, <2>1, <2>2, RowsOfFiles
  <1>6. ASSUME NEW e \in Entity, r \in Of(e), r \in File(theirs, e) \/ Of(e) # File(theirs, e)
        PROVE  e \in tree.rows
    <2>1. /\ Of(e) \in {File(ours, e), File(theirs, e), File(ours, e) \cup File(theirs, e)}
          /\ r \in File(ours, e) \cup File(theirs, e)
      BY <1>6, HeldIsOfFiles
    <2>2. e \in Of(e)
      BY <1>6, <2>1, FilesHaveHeads
    <2> QED BY <1>3, <2>2
  <1>7. CASE FromOurs(old, ours, theirs, dropped, r)
    <2>1. tree.ends[r] = ours.ends[r] /\ r \in ours.rows
      BY <1>1, <1>2, <1>4, <1>7, StoreAssumption DEF MergedTree, FromOurs
    <2>2. PICK e \in Entities(ours) : ours.ends[r] = {e}
      BY <2>1 DEF Filed
    <2>3. r \in Of(e)
      BY <1>7, <2>2 DEF FromOurs
    <2>4. e \in tree.rows
      BY <1>6, <2>2, <2>3 DEF Entities
    <2> QED BY <2>1, <2>2, <2>4 DEF Entities
  <1>8. CASE ~FromOurs(old, ours, theirs, dropped, r)
    <2>1. tree.ends[r] = theirs.ends[r]
      BY <1>1, <1>2, <1>4, <1>8, StoreAssumption DEF MergedTree
    <2>2. r \notin File(ours, f)
      BY <1>5, <1>8, StoreAssumption DEF FromOurs, File
    <2>3. r \in File(theirs, f)
      BY <1>5, <2>2, HeldIsOfFiles
    <2>4. theirs.ends[r] = {f}
      BY <2>3, StoreAssumption DEF File
    <2>5. f \in tree.rows
      BY <1>5, <1>6, <2>3
    <2> QED BY <2>1, <2>4, <2>5 DEF Entities
  <1> QED BY <1>7, <1>8

(* What only their branch added stands in the merged tree, unless a merge  *)
(* may leave it out.                                                       *)
LEMMA AddedStands ==
    ASSUME NEW old, NEW ours \in Tree, NEW theirs \in Tree, Filed(theirs),
           NEW tree \in Merges(old, ours, theirs),
           NEW r \in theirs.rows \ old.rows, r \notin Excused(old, ours, theirs),
           \A q \in ours.rows \cap theirs.rows \cap Relation :
                EndNames(ours.ends[q]) = EndNames(theirs.ends[q])
    PROVE  Stands(tree, r, Ends(ours, theirs, r))
  <1>3. /\ tree.tombs \subseteq ours.tombs \cup theirs.tombs
        /\ \A q \in tree.rows : tree.ends[q] \in {ours.ends[q], theirs.ends[q]}
        /\ \A q \in tree.rows \cap Relation :
                EndNames(tree.ends[q]) = EndNames(Ends(ours, theirs, q))
    <2>1. /\ tree.tombs \subseteq ours.tombs \cup theirs.tombs
          /\ \A q \in tree.rows : tree.ends[q] \in {ours.ends[q], theirs.ends[q]}
      BY MergedTreeOfBoth
    <2>2. ASSUME NEW q \in tree.rows \cap Relation
          PROVE  EndNames(tree.ends[q]) = EndNames(Ends(ours, theirs, q))
      <3>1. RelatesAs(tree, ours, q) \/ RelatesAs(tree, theirs, q)
        BY <2>2, MergedTreeOfBoth
      <3> QED BY <2>2, <3>1 DEF Ends, RelatesAs
    <2> QED BY <2>1, <2>2
  <1>1. PICK dropped \in SUBSET Stopped(old, ours, theirs),
             relations \in Relations(old, ours, theirs) :
                tree = MergedTree(old, ours, theirs, dropped, relations)
    BY DEF Merges
  <1>2. tree.rows = MergedRows(old, ours, theirs, dropped, relations)
    BY <1>1 DEF MergedTree
  <1>4. r \in Row
    BY DEF Tree
  <1>5. CASE r \in Relation
    <2>1. PICK p \in relations : Twins(<<r, theirs.ends[r]>>, p)
      BY <1>5, RelationsOfTriples
    <2> DEFINE q == p[1]
    <2>2. q \in tree.rows \cap Relation
      <3>1. q \in Relation /\ \E o \in relations : o[1] = q
        BY RelationsOfTriples
      <3> QED BY <1>2, <3>1, RowsOfFiles
    <2>3. p = <<q, tree.ends[q]>>
      <3>1. <<q, tree.ends[q]>> \in relations
        BY <1>1, <1>2, <2>2, MergedTreeEnds
      <3> QED BY <3>1, RelationsOfTriples
    <2>4. EndNames(theirs.ends[r]) = EndNames(Ends(ours, theirs, r))
      BY <1>5 DEF Ends
    <2> HIDE DEF q
    <2>5. CASE q = r
      BY <1>3, <1>5, <2>2, <2>5 DEF Stands
    <2>6. CASE LinkOf[r] = LinkOf[q] /\ theirs.ends[r] = tree.ends[q]
      BY <1>5, <2>2, <2>4, <2>6 DEF Stands
    <2>7. q = r \/ (LinkOf[r] = LinkOf[q] /\ theirs.ends[r] = tree.ends[q])
      BY <2>1, <2>3 DEF Twins
    <2> QED BY <2>5, <2>6, <2>7
  <1>6. CASE r \notin Relation
    <2>1. ({r} \cup ours.ends[r] \cup theirs.ends[r]) \cap (ours.tombs \cup theirs.tombs) = {}
      BY DEF Excused
    <2>2. r \in tree.rows
      <3>1. ASSUME NEW e \in Entity, r \in File(theirs, e) PROVE r \in tree.rows
        <4>1. e \notin dropped
          BY <3>1 DEF Excused
        <4>2. r \notin File(old, e)
          BY DEF File
        <4>3. r \in Held(old, ours, theirs, dropped, e)
          BY <3>1, <4>1, <4>2, Merge3Keeps DEF Held
        <4> QED BY <1>2, <4>3, RowsOfFiles
      <3>2. ASSUME NEW t \in Tables, r \in t PROVE r \in tree.rows
        <4>1. r \in OfTable(theirs, t) /\ r \notin OfTable(old, t)
          BY <3>2 DEF OfTable
        <4>2. r \in Merge3(OfTable(old, t), OfTable(ours, t), OfTable(theirs, t))
          BY <4>1, Merge3Keeps
        <4> QED BY <1>2, <4>2, RowsOfFiles
      <3>3. CASE r \in Entity
        BY <3>1, <3>3 DEF File
      <3>4. CASE r \in Observation
        BY <3>1, <3>4 DEF File, Filed, Entities
      <3>5. CASE r \in Project \cup Fact \cup Procedure \cup Episode \cup Error
        <4>1. \E t \in Tables : r \in t
          BY <3>5 DEF Tables
        <4> QED BY <3>2, <4>1
      <3> QED BY <1>4, <1>6, <3>3, <3>4, <3>5 DEF Row
    <2> QED BY <1>3, <1>6, <2>1, <2>2 DEF Stands
  <1> QED BY <1>5, <1>6

-----------------------------------------------------------------------------
(* What accounts for a row goes on doing so.                               *)

(* While rows only go to where they are buried and keep their ends.        *)
LEMMA AccountedLasts ==
    ASSUME NEW s, NEW buried, NEW t, NEW after, buried \subseteq after,
           \A q \in s.rows : q \in after \/ (q \in t.rows /\ t.ends[q] = s.ends[q]),
           NEW r, NEW ends, Accounted(s, buried, r, ends)
    PROVE  Accounted(t, after, r, ends)
  <1>1. s.rows \cup buried \subseteq t.rows \cup after
    OBVIOUS
  <1>2. CASE r \in s.rows \cup buried
    BY <1>1, <1>2 DEF Accounted
  <1>3. ASSUME r \in Entity,
               NEW f \in (s.rows \cup buried) \cap Entity, NameOf[f] = NameOf[r]
        PROVE  Accounted(t, after, r, ends)
    BY <1>1, <1>3 DEF Accounted
  <1>4. ASSUME r \in Relation, NEW q \in Relation, LinkOf[q] = LinkOf[r],
               q \in buried \/ (q \in s.rows /\ EndNames(s.ends[q]) = EndNames(ends))
        PROVE  Accounted(t, after, r, ends)
    <2>1. q \in after \/ (q \in t.rows /\ EndNames(t.ends[q]) = EndNames(ends))
      BY <1>4
    <2> QED BY <1>4, <2>1 DEF Accounted
  <1> QED BY <1>2, <1>3, <1>4 DEF Accounted

(* A row is accounted for by the names of its ends.                        *)
LEMMA AccountedByNames ==
    ASSUME NEW s, NEW buried, NEW r, NEW ends, NEW others,
           r \in Relation => EndNames(ends) = EndNames(others),
           Accounted(s, buried, r, ends)
    PROVE  Accounted(s, buried, r, others)
  BY DEF Accounted

-----------------------------------------------------------------------------
(* What an import brings.                                                  *)

(* apply_tombstones leaves the references of what stays.                   *)
LEMMA AfterTombstonesKeepsEnds ==
    ASSUME NEW s \in Store, NEW pack, NEW deletes,
           NEW r \in AfterTombstones(s, pack, deletes).rows
    PROVE  r \in s.rows /\ AfterTombstones(s, pack, deletes).ends[r] = s.ends[r]
  <1>1. /\ NamedRowsGone(s, pack) \in Store
        /\ \A q \in NamedRowsGone(s, pack).rows :
                q \in s.rows /\ NamedRowsGone(s, pack).ends[q] = s.ends[q]
    BY WithoutIsStore DEF NamedRowsGone
  <1>2. ASSUME NEW rows, NEW q \in Without(NamedRowsGone(s, pack), rows).rows
        PROVE  q \in s.rows /\ Without(NamedRowsGone(s, pack), rows).ends[q] = s.ends[q]
    <2>1. /\ q \in NamedRowsGone(s, pack).rows
          /\ Without(NamedRowsGone(s, pack), rows).ends[q] = NamedRowsGone(s, pack).ends[q]
      BY <1>1, <1>2, WithoutIsStore
    <2> QED BY <1>1, <2>1
  <1> QED BY <1>2 DEF AfterTombstones

(* So does the whole import of what it leaves.                             *)
LEMMA ResultKeepsEnds ==
    ASSUME NEW s \in Store, NEW pack \in Bundle, NEW deletes,
           NEW by \in ByName(AfterTombstones(s, pack, deletes)),
           NEW r \in AfterTombstones(s, pack, deletes).rows
    PROVE  /\ r \in s.rows
           /\ r \in Result(s, by, pack, deletes).rows
           /\ Result(s, by, pack, deletes).ends[r] = s.ends[r]
  <1> DEFINE left == AfterTombstones(s, pack, deletes)
  <1>1. left \in Store /\ r \in s.rows /\ left.ends[r] = s.ends[r]
    BY AfterTombstonesIsStore, AfterTombstonesKeepsEnds
  <1>2. Merged(left, by, pack, deletes).ends[r] = left.ends[r]
    BY <1>1, MergedKeepsEnds
  <1>3. r \in Merged(left, by, pack, deletes).rows
    BY <1>1, MergedIsStore
  <1> QED BY <1>1, <1>2, <1>3 DEF Result

(* Identities are rewritten, names are not.                                *)
LEMMA ResolvedNames ==
    ASSUME NEW s, NEW by \in ByName(s), NEW pack \in Bundle, NEW deletes, NEW r \in Row
    PROVE  EndNames(ResolvedEnds(by, pack, deletes, r)) = EndNames(pack.ends[r])
  <1>1. \A e \in pack.ends[r] : e \in Entity
    BY DEF Bundle
  <1>2. \A e \in pack.ends[r] : NameOf[Resolve(by, pack, deletes, e)] = NameOf[e]
    BY <1>1, ResolveKeepsName
  <1> QED BY <1>2 DEF EndNames, ResolvedEnds

(* What lands is in the result, a relation between the resolved ends.      *)
LEMMA LandingLands ==
    ASSUME NEW s \in Store, NEW pack \in Bundle, NEW deletes,
           NEW by \in ByName(AfterTombstones(s, pack, deletes)),
           NEW r \in Landing(AfterTombstones(s, pack, deletes), by, pack, deletes)
    PROVE  /\ r \in Result(s, by, pack, deletes).rows
           /\ r \in Row /\ r \notin Fact \cup Entity \cup Project
                /\ r \notin AfterTombstones(s, pack, deletes).rows =>
                Result(s, by, pack, deletes).ends[r] = ResolvedEnds(by, pack, deletes, r)
  BY DEF Result, Merged, LandedEnds

(* Once an import is accepted a relation of its triple is here.            *)
LEMMA RelationsLand ==
    ASSUME NEW s \in Store, NEW pack \in Bundle, NEW deletes,
           NEW by \in ByName(AfterTombstones(s, pack, deletes)),
           DatabaseAccepts(s, by, pack, deletes), NEW q \in pack.rows \cap Relation
    PROVE  \E x \in Result(s, by, pack, deletes).rows \cap Relation :
                /\ LinkOf[x] = LinkOf[q]
                /\ Result(s, by, pack, deletes).ends[x] = ResolvedEnds(by, pack, deletes, q)
  <1> DEFINE left == AfterTombstones(s, pack, deletes)
             first == FirstOfTriple(by, pack, deletes, q)
             result == Result(s, by, pack, deletes)
             ends == ResolvedEnds(by, pack, deletes, q)
  <1>1. /\ first \in pack.rows \cap Relation
        /\ LinkOf[first] = LinkOf[q]
        /\ ResolvedEnds(by, pack, deletes, first) = ends
    BY DEF FirstOfTriple, OneTriple
  <1>2. first \in Batch(by, pack, deletes)
    BY DEF Batch
  <1>3. \A r \in left.rows : r \in result.rows /\ result.ends[r] = left.ends[r]
    BY ResultKeepsEnds, AfterTombstonesKeepsEnds
  <1>4. CASE first \in LandingRelations(left, by, pack, deletes)
    <2>1. first \in result.rows
      BY <1>4, LandingLands DEF Landing
    <2>2. result.ends[first] = ends
      <3>1. CASE first \in left.rows
        BY <1>1, <1>3, <1>4, <3>1 DEF DatabaseAccepts, RelationClash
      <3>2. CASE first \notin left.rows
        <4>1. first \in Row /\ first \notin Fact \cup Entity \cup Project
          BY <1>1, StoreAssumption DEF Row
        <4> QED BY <1>1, <1>4, <3>2, <4>1, LandingLands DEF Landing
      <3> QED BY <3>1, <3>2
    <2> QED BY <1>1, <2>1, <2>2
  <1>5. CASE first \notin LandingRelations(left, by, pack, deletes)
    <2>1. PICK x \in left.rows \cap Relation :
                LinkOf[x] = LinkOf[first] /\ left.ends[x] = ResolvedEnds(by, pack, deletes, first)
      BY <1>2, <1>5 DEF LandingRelations
    <2> QED BY <1>1, <1>3, <2>1
  <1> QED BY <1>4, <1>5

(* Once an import is accepted what stands in its bundle is here.           *)
LEMMA ImportBringsStanding ==
    ASSUME NEW s \in Store, NEW pack \in Bundle, Filed(pack),
           NEW deletes, Buried(pack, deletes) = pack.tombs,
           NEW by \in ByName(AfterTombstones(s, pack, deletes)),
           DatabaseAccepts(s, by, pack, deletes),
           NEW r \in Row, NEW ends, Stands(pack, r, ends), NEW buried
    PROVE  Accounted(Result(s, by, pack, deletes), buried, r, ends)
  <1> DEFINE left == AfterTombstones(s, pack, deletes)
             result == Result(s, by, pack, deletes)
  <1>2. CASE r \in Relation
    <2>1. PICK q \in pack.rows \cap Relation :
                LinkOf[q] = LinkOf[r] /\ EndNames(pack.ends[q]) = EndNames(ends)
      BY <1>2 DEF Stands
    <2>2. PICK x \in result.rows \cap Relation :
                LinkOf[x] = LinkOf[q] /\ result.ends[x] = ResolvedEnds(by, pack, deletes, q)
      BY <2>1, RelationsLand
    <2>3. EndNames(ResolvedEnds(by, pack, deletes, q)) = EndNames(pack.ends[q])
      BY ResolvedNames DEF Row
    <2> QED BY <1>2, <2>1, <2>2, <2>3 DEF Accounted
  <1>3. CASE r \in Entity
    <2>1. r \in Files(pack, deletes)
      BY <1>3, StoreAssumption DEF Stands, Files
    <2>2. Resolve(by, pack, deletes, r) \in Landing(left, by, pack, deletes)
      BY <2>1 DEF Landing, LandingEntities
    <2>3. /\ Resolve(by, pack, deletes, r) \in result.rows \cap Entity
          /\ NameOf[Resolve(by, pack, deletes, r)] = NameOf[r]
      BY <1>3, <2>2, LandingLands, ResolveIsEntity, ResolveKeepsName
    <2> QED BY <1>3, <2>3 DEF Accounted
  <1>4. CASE r \notin Relation \cup Entity
    <2>1. r \in pack.rows /\ r \notin pack.tombs
      BY <1>4 DEF Stands
    <2>2. r \in Landing(left, by, pack, deletes)
      <3>1. CASE r \in Observation
        <4>1. pack.ends[r] \subseteq Files(pack, deletes)
          BY <1>4, <3>1 DEF Stands, Filed, Files, Entities
        <4> QED BY <2>1, <3>1, <4>1 DEF Landing, LandingObservations
      <3>2. CASE r \in Fact \cup Procedure
        BY <2>1, <3>2 DEF Landing, LandingFacts
      <3>3. CASE r \in Project \cup Episode \cup Error
        BY <2>1, <3>3 DEF Landing, LandingUnfiltered
      <3> QED BY <1>4, <3>1, <3>2, <3>3 DEF Row
    <2> QED BY <2>2, LandingLands DEF Accounted
  <1> QED BY <1>2, <1>3, <1>4

-----------------------------------------------------------------------------
(* What a handler or an import does to the database it runs on.            *)

(* What the handlers check before they insert.                             *)
Keyed(s, row, ends) ==
    /\ row \in Entity =>
            /\ HomeOf[row] \subseteq s.rows
            /\ \A f \in Named(s, NameOf[row]) : HomeOf[f] # HomeOf[row]
    /\ row \in Project => \A q \in s.rows \cap Project : NameOf[q] # NameOf[row]
    /\ row \in Entity \cup Project => ends = {}
    /\ row \in Relation => \A q \in s.rows \cap Relation :
            LinkOf[q] = LinkOf[row] => s.ends[q] # ends
    /\ row \in Observation => \E e \in Entity : ends = {e}

(* A handler inserts one row or deletes rows that are no projects.         *)
LEMMA LocalWrites ==
    ASSUME NEW n \in Node, Local(n)
    PROVE  \/ \E row \in Row, ends \in SUBSET Entity :
                    Insert(n, row, ends) /\ Keyed(db[n], row, ends)
           \/ \E rows : NoProjectIn(rows) /\ Erase(n, rows)
  <1> DEFINE Inserts == \E row \in Row, ends \in SUBSET Entity :
                            Insert(n, row, ends) /\ Keyed(db[n], row, ends)
             Erases == \E rows : NoProjectIn(rows) /\ Erase(n, rows)
  <1>1. ASSUME NEW p \in Project, AddProject(n, p) PROVE Inserts
    <2>1. Keyed(db[n], p, {}) /\ p \in Row
      BY <1>1, StoreAssumption DEF AddProject, Keyed, Row
    <2> QED BY <1>1, <2>1 DEF AddProject
  <1>2. ASSUME NEW e \in Entity, AddEntity(n, e) PROVE Inserts
    <2>1. Keyed(db[n], e, {}) /\ e \in Row
      BY <1>2, StoreAssumption DEF AddEntity, Keyed, Row
    <2> QED BY <1>2, <2>1 DEF AddEntity
  <1>3. ASSUME NEW r \in Memory, NEW e \in Entity, AddMemory(n, r, e) PROVE Inserts
    <2>1. Keyed(db[n], r, {e}) /\ r \in Row
      BY StoreAssumption DEF Keyed, Row, Memory
    <2> QED BY <1>3, <2>1 DEF AddMemory
  <1>4. ASSUME NEW f \in Fact, NEW e \in Entity, AddFact(n, f, e) PROVE Inserts
    <2>1. Keyed(db[n], f, {e}) /\ f \in Row
      BY StoreAssumption DEF Keyed, Row
    <2> QED BY <1>4, <2>1 DEF AddFact
  <1>5. ASSUME NEW r \in Relation, NEW e \in Entity, NEW f \in Entity,
               AddRelation(n, r, e, f)
        PROVE  Inserts
    <2>1. Keyed(db[n], r, {e, f}) /\ r \in Row
      BY <1>5, StoreAssumption DEF AddRelation, Keyed, Row
    <2>2. Insert(n, r, {e, f}) /\ {e, f} \in SUBSET Entity
      BY <1>5 DEF AddRelation
    <2> QED BY <2>1, <2>2
  <1>6. ASSUME NEW r \in Error \cup Procedure, AddStandalone(n, r) PROVE Inserts
    <2>1. Keyed(db[n], r, {}) /\ r \in Row
      BY StoreAssumption DEF Keyed, Row
    <2> QED BY <1>6, <2>1 DEF AddStandalone
  <1>7. ASSUME NEW r \in Row, DeleteRow(n, r) PROVE Erases
    <2>1. NoProjectIn({r})
      BY <1>7, StoreAssumption DEF DeleteRow, NoProjectIn
    <2> QED BY <1>7, <2>1 DEF DeleteRow
  <1>8. ASSUME NEW name, NEW errors \in SUBSET Error,
               DeleteEntities(n, name) \/ Forget(n, name, errors)
        PROVE  Erases
    <2>1. \A es \in Called(n, name) : es \subseteq Entity
      BY DEF Called, Named, Entities
    <2>2. \A es \in Called(n, name) : NoProjectIn(es) /\ NoProjectIn(es \cup errors)
      BY <2>1, StoreAssumption DEF NoProjectIn
    <2> QED BY <1>8, <2>2 DEF DeleteEntities, Forget
  <1> QED BY <1>1, <1>2, <1>3, <1>4, <1>5, <1>6, <1>7, <1>8 DEF Local

(* Rows go to their tombstones, the ends of the others stay, and what      *)
(* comes is a row nobody had or one its ends are known of.                 *)
Writes(n) ==
    /\ \E s, ts : db' = [db EXCEPT ![n] = s] /\ tombs' = [tombs EXCEPT ![n] = ts]
    /\ tombs[n] \subseteq tombs'[n]
    /\ \A q \in db[n].rows :
            q \in tombs'[n] \/ (q \in db'[n].rows /\ db'[n].ends[q] = db[n].ends[q])
    /\ Sound(db'[n])
    /\ Filed(db'[n])
    /\ \A k \in Node : seen[k] \subseteq seen'[k]
    /\ db'[n].rows \subseteq db[n].rows \cup seen'[n]
    /\ \A r \in db'[n].rows \cap Relation :
            \/ Fresh(r)
            \/ \E t \in {db[n], Tip(n)} :
                    r \in t.rows /\ EndNames(t.ends[r]) = EndNames(db'[n].ends[r])

(* INSERT of a row with its keys free.                                     *)
LEMMA InsertWrites ==
    ASSUME TypeOK, NEW n \in Node, Sound(db[n]), Filed(db[n]), Known,
           NEW row \in Row, NEW ends \in SUBSET Entity,
           Insert(n, row, ends), Keyed(db[n], row, ends)
    PROVE  Writes(n)
  <1> DEFINE s == db[n]
             t == With(s, row, ends)
  <1>1. s \in Store /\ ends \in SUBSET Entities(s) /\ row \notin s.rows
    BY DEF TypeOK, Insert, Known, Holders
  <1>2. /\ t.rows = s.rows \cup {row}
        /\ t.ends[row] = ends
        /\ \A r \in s.rows : t.ends[r] = s.ends[r]
    BY <1>1 DEF With, Store
  <1>3. Sound(t)
    BY <1>1, WithIsSound DEF Keyed
  <1>4. Filed(t)
    BY <1>1, <1>2 DEF Filed, Keyed, Entities
  <1>5. /\ db' = [db EXCEPT ![n] = t]
        /\ db'[n] = t
        /\ tombs' = tombs
        /\ seen' = [seen EXCEPT ![n] = @ \cup {row}]
        /\ Fresh(row)
    BY DEF Insert, TypeOK
  <1>6. \E x, ts : db' = [db EXCEPT ![n] = x] /\ tombs' = [tombs EXCEPT ![n] = ts]
    <2>1. tombs' = [tombs EXCEPT ![n] = tombs[n]]
      BY <1>5 DEF TypeOK
    <2> QED BY <1>5, <2>1
  <1>7. \A k \in Node : seen[k] \subseteq seen'[k]
    BY <1>5 DEF TypeOK
  <1>8. row \in seen'[n]
    BY <1>5 DEF TypeOK
  <1> HIDE DEF t
  <1> QED BY <1>2, <1>3, <1>4, <1>5, <1>6, <1>7, <1>8 DEF Writes

(* DELETE of rows that are no projects.                                    *)
LEMMA EraseWrites ==
    ASSUME TypeOK, NEW n \in Node, Sound(db[n]), Filed(db[n]),
           NEW rows, NoProjectIn(rows), Erase(n, rows)
    PROVE  Writes(n)
  <1> DEFINE s == db[n]
             t == Without(s, rows)
  <1>1. s \in Store
    BY DEF TypeOK
  <1>2. /\ t.rows \subseteq s.rows
        /\ \A r \in t.rows : t.ends[r] = s.ends[r]
    BY <1>1, WithoutIsStore
  <1>3. Sound(t)
    BY <1>1, WithoutIsSound
  <1>4. Filed(t)
    <2> SUFFICES ASSUME NEW r \in t.rows \cap Observation
                 PROVE  \E e \in Entities(t) : t.ends[r] = {e}
      BY DEF Filed
    <2>1. PICK e \in Entities(s) : s.ends[r] = {e}
      BY <1>2 DEF Filed
    <2>2. t.ends[r] = {e}
      BY <1>2, <2>1
    <2>3. e \in t.rows
      BY <1>3, <2>2 DEF Sound, ForeignKeysHold
    <2> HIDE DEF t
    <2> QED BY <2>1, <2>2, <2>3 DEF Entities
  <1>5. /\ db' = [db EXCEPT ![n] = t]
        /\ db'[n] = t
        /\ tombs' = [tombs EXCEPT ![n] = tombs[n] \cup (s.rows \ t.rows)]
        /\ tombs'[n] = tombs[n] \cup (s.rows \ t.rows)
        /\ seen' = seen
    BY DEF Erase, Bury, TypeOK
  <1>6. \E x, ts : db' = [db EXCEPT ![n] = x] /\ tombs' = [tombs EXCEPT ![n] = ts]
    BY <1>5
  <1> HIDE DEF t
  <1> QED BY <1>2, <1>3, <1>4, <1>5, <1>6 DEF Writes

(* The writers.                                                            *)
LEMMA LocalIsWrite ==
    ASSUME TypeOK, NEW n \in Node, Sound(db[n]), Filed(db[n]), Known, Local(n)
    PROVE  Writes(n)
  BY LocalWrites, InsertWrites, EraseWrites

(* A row that was not here came from the bundle, and what hangs off others *)
(* came between the entities its ends resolve to.                          *)
LEMMA WhatLanded ==
    ASSUME NEW s \in Store, NEW pack \in Bundle, NEW deletes,
           NEW by \in ByName(AfterTombstones(s, pack, deletes)),
           NEW r \in Result(s, by, pack, deletes).rows,
           r \notin AfterTombstones(s, pack, deletes).rows,
           r \in Relation \cup Observation
    PROVE  /\ r \in pack.rows
           /\ Result(s, by, pack, deletes).ends[r] = ResolvedEnds(by, pack, deletes, r)
  <1> DEFINE left == AfterTombstones(s, pack, deletes)
  <1>1. r \in Landing(left, by, pack, deletes)
    BY DEF Result, Merged
  <1>2. r \notin LandingEntities(by, pack, deletes)
    BY ResolveIsEntity, StoreAssumption DEF LandingEntities, Files
  <1>3. r \in pack.rows
    BY <1>1, <1>2, BatchIsOfBundle DEF Landing, LandingObservations, LandingFacts,
          LandingUnfiltered, LandingRelations
  <1>4. r \in Row /\ r \notin Fact \cup Entity \cup Project
    BY StoreAssumption DEF Row
  <1> QED BY <1>1, <1>3, <1>4, LandingLands

(* What the database accepts of a merged bundle is sound, provided it has  *)
(* no name twice, and files its observations.                              *)
LEMMA AcceptedIsSound ==
    ASSUME NEW s \in Store, Sound(s), Filed(s), NEW pack \in Bundle, Filed(pack), NEW deletes,
           NEW by \in ByName(AfterTombstones(s, pack, deletes)),
           DatabaseAccepts(s, by, pack, deletes),
           NamesUnique(Result(s, by, pack, deletes))
    PROVE  /\ Sound(Result(s, by, pack, deletes))
           /\ Filed(Result(s, by, pack, deletes))
  <1> DEFINE left == AfterTombstones(s, pack, deletes)
             result == Result(s, by, pack, deletes)
             Root == Entity \cup Project
  <1>1. left \in Store
    BY AfterTombstonesIsStore
  <1>2. \A r \in left.rows : r \in s.rows /\ left.ends[r] = s.ends[r]
    BY AfterTombstonesKeepsEnds
  <1>3. ForeignKeysHold(result) /\ ProjectsUnique(result)
    BY DEF DatabaseAccepts
  <1>4. TriplesUnique(result)
    <2>1. TriplesUnique(left)
      BY <1>2 DEF Sound, TriplesUnique
    <2> QED BY <1>1, <2>1, MergedKeepsTriplesUnique DEF Result
  <1>5. \A r \in left.rows : result.ends[r] = s.ends[r]
    BY ResultKeepsEnds
  <1>6. RootsHangOffNothing(result)
    <2> SUFFICES ASSUME NEW r \in result.rows \cap Root PROVE result.ends[r] = {}
      BY DEF RootsHangOffNothing
    <2>1. CASE r \in left.rows
      BY <1>2, <1>5, <2>1 DEF Sound, RootsHangOffNothing
    <2>2. CASE r \notin left.rows
      <3>1. LandedEnds(left, by, pack, deletes, r) = {}
        BY <2>2, StoreAssumption DEF LandedEnds
      <3> QED BY <3>1 DEF Result, Merged, Row
    <2> QED BY <2>1, <2>2
  <1>7. Filed(result)
    <2> SUFFICES ASSUME NEW r \in result.rows \cap Observation
                 PROVE  \E e \in Entity : result.ends[r] = {e}
      BY <1>3 DEF Filed, ForeignKeysHold, Entities
    <2>1. CASE r \in left.rows
      BY <1>2, <1>5, <2>1 DEF Filed, Entities
    <2>2. CASE r \notin left.rows
      <3>1. r \in pack.rows /\ result.ends[r] = ResolvedEnds(by, pack, deletes, r)
        BY <2>2, WhatLanded
      <3>2. PICK e \in Entity : pack.ends[r] = {e}
        BY <3>1 DEF Filed, Entities
      <3>3. result.ends[r] = {Resolve(by, pack, deletes, e)}
        BY <3>1, <3>2 DEF ResolvedEnds
      <3> QED BY <3>3, ResolveIsEntity
    <2> QED BY <2>1, <2>2
  <1> QED BY <1>3, <1>4, <1>6, <1>7 DEF Sound

(* The import of a hook.                                                   *)
LEMMA ImportIsWrite ==
    ASSUME TypeOK, NEW n \in Node, Sound(db[n]), Filed(db[n]), Filed(Tip(n)),
           NEW confirm, NEW deletes, ImportCommitted(n, n, confirm, deletes),
           NamesUnique(db'[n])
    PROVE  Writes(n)
  <1> DEFINE s == db[n]
             pack == bundle[n]
             left == AfterTombstones(s, pack, deletes)
  <1>1. pack \in Bundle /\ s \in Store /\ pack # NoBundle
    BY OfferedTyped DEF ImportCommitted, Offered
  <1>2. Tip(n).rows = pack.rows /\ Tip(n).ends = pack.ends /\ Filed(pack)
    BY <1>1 DEF Tip, Filed, Entities
  <1> PICK by \in ByName(left) :
            /\ DatabaseAccepts(s, by, pack, deletes)
            /\ db' = [db EXCEPT ![n] = Result(s, by, pack, deletes)]
            /\ seen' = [seen EXCEPT ![n] = @ \cup Result(s, by, pack, deletes).rows]
    BY ImportWrites
  <1> DEFINE result == Result(s, by, pack, deletes)
  <1>3. /\ db'[n] = result
        /\ seen'[n] = seen[n] \cup result.rows
        /\ \A k \in Node : seen[k] \subseteq seen'[k]
        /\ tombs' = [tombs EXCEPT ![n] = tombs[n] \cup (s.rows \ left.rows)]
        /\ tombs'[n] = tombs[n] \cup (s.rows \ left.rows)
    BY DEF TypeOK, ImportCommitted, Bury
  <1>4. Sound(result) /\ Filed(result)
    BY <1>1, <1>2, <1>3, AcceptedIsSound
  <1>5. \A r \in left.rows : r \in s.rows /\ r \in result.rows /\ result.ends[r] = s.ends[r]
    BY <1>1, ResultKeepsEnds
  <1>6. ASSUME NEW r \in result.rows \cap Relation
        PROVE  \E t \in {db[n], Tip(n)} :
                    r \in t.rows /\ EndNames(t.ends[r]) = EndNames(result.ends[r])
    <2>1. CASE r \in left.rows
      BY <1>5, <2>1
    <2>2. CASE r \notin left.rows
      <3>1. r \in pack.rows /\ result.ends[r] = ResolvedEnds(by, pack, deletes, r)
        BY <1>1, <2>2, WhatLanded
      <3>2. EndNames(result.ends[r]) = EndNames(pack.ends[r])
        BY <1>1, <3>1, ResolvedNames DEF Row
      <3> QED BY <1>2, <3>1, <3>2
    <2> QED BY <2>1, <2>2
  <1>7. \E x, ts : db' = [db EXCEPT ![n] = x] /\ tombs' = [tombs EXCEPT ![n] = ts]
    BY <1>3
  <1> HIDE DEF result
  <1> QED BY <1>3, <1>4, <1>5, <1>6, <1>7 DEF Writes

-----------------------------------------------------------------------------
(* What a write leaves of the invariant.                                   *)

(* Whatever was accounted for is.                                          *)
Lasting ==
    \A k \in Node : \A r, ends :
        Stored(k, r, ends) => Accounted(db'[k], tombs'[k], r, ends)

(* A write leaves accounted for what was.                                  *)
LEMMA WritesLast ==
    ASSUME TypeOK, NEW n \in Node, Writes(n)
    PROVE  Lasting
  <1> SUFFICES ASSUME NEW k \in Node, NEW r, NEW ends, Stored(k, r, ends)
               PROVE  Accounted(db'[k], tombs'[k], r, ends)
    BY DEF Lasting
  <1>1. CASE k = n
    BY <1>1, AccountedLasts DEF Writes, Stored
  <1>2. CASE k # n
    <2>1. db'[k] = db[k] /\ tombs'[k] = tombs[k]
      BY <1>2 DEF Writes, TypeOK
    <2> QED BY <2>1 DEF Stored
  <1> QED BY <1>1, <1>2

(* So does a step that writes nothing.                                     *)
LEMMA QuietLasts ==
    ASSUME db' = db, tombs' = tombs
    PROVE  Lasting
  BY DEF Lasting, Stored

(* Holders agree if each holds what a former one did, and one holds besides*)
(* what none did.                                                          *)
LEMMA AlikeLasts ==
    ASSUME NEW old, NEW new, AlikeIn(old), NEW x,
           \A s \in new : \A r \in s.rows \cap Relation :
                \/ s = x /\ \A t \in old : r \notin t.rows
                \/ \E t \in old : r \in t.rows /\ EndNames(t.ends[r]) = EndNames(s.ends[r])
    PROVE  AlikeIn(new)
  <1> SUFFICES ASSUME NEW s \in new, NEW t \in new,
                      NEW r \in s.rows \cap t.rows \cap Relation
               PROVE  EndNames(s.ends[r]) = EndNames(t.ends[r])
    BY DEF AlikeIn
  <1>1. CASE \A h \in old : r \notin h.rows
    BY <1>1
  <1>2. ASSUME NEW h \in old, r \in h.rows
        PROVE  EndNames(s.ends[r]) = EndNames(t.ends[r])
    <2>1. PICK g \in old : r \in g.rows /\ EndNames(g.ends[r]) = EndNames(s.ends[r])
      BY <1>2
    <2>2. PICK f \in old : r \in f.rows /\ EndNames(f.ends[r]) = EndNames(t.ends[r])
      BY <1>2
    <2>3. EndNames(f.ends[r]) = EndNames(g.ends[r])
      BY <2>1, <2>2 DEF AlikeIn
    <2> QED BY <2>1, <2>2, <2>3
  <1> QED BY <1>1, <1>2

(* A tip is what its node's bundle says.                                   *)
LEMMA TipLasts ==
    ASSUME NEW n \in Node, bundle'[n] = bundle[n]
    PROVE  Tip(n)' = Tip(n)
  BY DEF Tip

(* The holders after a write.                                              *)
LEMMA WritesHold ==
    ASSUME TypeOK, NEW n \in Node, Writes(n), Alike, Known,
           bundle' = bundle, base' = base,
           \A k \in Node : merged'[k].rows = merged[k].rows /\ merged'[k].ends = merged[k].ends
    PROVE  Alike' /\ Known'
  <1>1. \A k \in Node : Tip(k)' = Tip(k)
    BY TipLasts
  <1>2. \A k \in Node \ {n} : db'[k] = db[k]
    BY DEF Writes, TypeOK
  <1>3. \A t \in Holders' :
            t = db'[n] \/ \E s \in Holders : t.rows = s.rows /\ t.ends = s.ends
    BY <1>1, <1>2 DEF Holders
  <1>4. db[n] \in Holders /\ Tip(n) \in Holders
    BY DEF Holders
  <1>5. ASSUME NEW t \in Holders', NEW r \in t.rows \cap Relation
        PROVE  \/ t = db'[n] /\ \A s \in Holders : r \notin s.rows
               \/ \E s \in Holders : r \in s.rows /\ EndNames(s.ends[r]) = EndNames(t.ends[r])
    <2>1. CASE \E s \in Holders : t.rows = s.rows /\ t.ends = s.ends
      BY <2>1
    <2>2. CASE t = db'[n] /\ Fresh(r)
      BY <2>2 DEF Known
    <2>3. CASE t = db'[n] /\ ~Fresh(r)
      BY <1>4, <2>3 DEF Writes
    <2> QED BY <1>3, <2>1, <2>2, <2>3
  <1>6. AlikeIn(Holders')
    <2>1. AlikeIn(Holders)
      BY DEF Alike
    <2> DEFINE old == Holders
               new == Holders'
    <2>2. \A t \in new : \A r \in t.rows \cap Relation :
            \/ t = db'[n] /\ \A s \in old : r \notin s.rows
            \/ \E s \in old : r \in s.rows /\ EndNames(s.ends[r]) = EndNames(t.ends[r])
      BY <1>5
    <2> HIDE DEF old, new
    <2>3. AlikeIn(new)
      BY <2>1, <2>2, AlikeLasts DEF old
    <2> QED BY <2>3 DEF new
  <1>7. ASSUME NEW t \in Holders', NEW r \in t.rows PROVE ~Fresh(r)'
    <2>1. Fresh(r)' => Fresh(r)
      BY DEF Fresh, Writes
    <2>2. CASE \E s \in Holders : t.rows = s.rows
      BY <2>1, <2>2 DEF Known
    <2>3. CASE t = db'[n]
      <3>1. r \in db[n].rows \/ r \in seen'[n]
        BY <2>3 DEF Writes
      <3>2. r \in db[n].rows => ~Fresh(r)
        BY <1>4 DEF Known
      <3> QED BY <2>1, <3>1, <3>2 DEF Fresh
    <2> QED BY <1>3, <2>2, <2>3
  <1>8. Alike'
    BY <1>6 DEF Alike, AlikeIn
  <1>9. Known'
    BY <1>7 DEF Known
  <1> QED BY <1>8, <1>9

-----------------------------------------------------------------------------
(* The invariant, step by step.  What holds of a node that a step passes   *)
(* over goes on holding.                                                   *)

LandedAt(n) ==
    merged[n].landed => \A r \in merged[n].rows \ refused[n] :
        Stored(n, r, merged[n].ends[r])

BranchedAt(n) ==
    \A t \in {base, Tip(n)} : \A r \in t.rows :
        r \in excused[n] \cup refused[n] \/ Stored(n, r, t.ends[r]) \/ Owed(n, r)

PendingAt(n) ==
    hooked[n] => \A r \in merged[n].rows :
        \/ r \in refused[n]
        \/ Stored(n, r, merged[n].ends[r])
        \/ Stands(Tip(n), r, merged[n].ends[r])

TakenAt(n, p) ==
    bundle[p] # NoBundle /\ bundle[p].digest \in imported[n] =>
        \A r \in Tip(p).rows :
            Stands(Tip(p), r, Tip(p).ends[r]) => Stored(n, r, Tip(p).ends[r])

(* The parts, node by node.                                                *)
LEMMA ByNode ==
    /\ LandedMergesKeepBothSides <=> \A n \in Node : LandedAt(n)
    /\ Branched <=> \A n \in Node : BranchedAt(n)
    /\ Pending <=> \A n \in Node : PendingAt(n)
    /\ Taken <=> \A n, p \in Node : TakenAt(n, p)
  BY DEF LandedMergesKeepBothSides, KeepsBothSides, LandedAt, Stored,
         Branched, BranchedAt, Pending, PendingAt, Taken, TakenAt

(* The same of the next state.                                             *)
LEMMA ByNodeNext ==
    /\ LandedMergesKeepBothSides' <=> \A n \in Node : LandedAt(n)'
    /\ Branched' <=> \A n \in Node : BranchedAt(n)'
    /\ Pending' <=> \A n \in Node : PendingAt(n)'
    /\ Taken' <=> \A n, p \in Node : TakenAt(n, p)'
  BY DEF LandedMergesKeepBothSides, KeepsBothSides, LandedAt, Stored,
         Branched, BranchedAt, Pending, PendingAt, Taken, TakenAt

(* A node whose branch and merge stay.                                     *)
LEMMA NodeLasts ==
    ASSUME NEW n \in Node, Lasting,
           merged'[n] = merged[n], refused'[n] = refused[n], hooked'[n] = hooked[n],
           excused'[n] = excused[n], Tip(n)' = Tip(n)
    PROVE  /\ LandedAt(n) => LandedAt(n)'
           /\ PendingAt(n) => PendingAt(n)'
           /\ base' = base /\ BranchedAt(n) => BranchedAt(n)'
  <1>1. ASSUME NEW r, NEW ends, Stored(n, r, ends) PROVE Accounted(db'[n], tombs'[n], r, ends)
    BY <1>1 DEF Lasting
  <1>2. LandedAt(n) => LandedAt(n)'
    BY <1>1 DEF LandedAt, Stored
  <1>3. PendingAt(n) => PendingAt(n)'
    BY <1>1 DEF PendingAt, Stored
  <1>4. base' = base /\ BranchedAt(n) => BranchedAt(n)'
    BY <1>1 DEF BranchedAt, Stored, Owed
  <1> QED BY <1>2, <1>3, <1>4

(* A digest that was taken in or is not.                                   *)
LEMMA TakenLasts ==
    ASSUME NEW n \in Node, NEW p \in Node, Lasting, TakenAt(n, p),
           bundle'[p] = bundle[p], imported'[n] = imported[n]
    PROVE  TakenAt(n, p)'
  <1>1. ASSUME NEW r, NEW ends, Stored(n, r, ends) PROVE Accounted(db'[n], tombs'[n], r, ends)
    BY <1>1 DEF Lasting
  <1>2. Tip(p)' = Tip(p)
    BY TipLasts
  <1> QED BY <1>1, <1>2 DEF TakenAt, Stored

(* Types after a step that writes no tree.                                 *)
LEMMA TipIsTree ==
    ASSUME TypeOK, NEW n \in Node
    PROVE  Tip(n) \in Tree
  BY DEF Tip, Tree, TypeOK, EmptyTree, Bundle

(* The handlers.                                                           *)
LEMMA LocalKeeps ==
    ASSUME BranchesInv, NEW n \in Node, Local(n), UNCHANGED branchVars
    PROVE  BranchesInv'
  <1> USE DEF branchVars
  <1>1. bundle' = bundle /\ imported' = imported
    BY LocalIsLocal
  <1>2. Writes(n)
    BY LocalIsWrite DEF BranchesInv, AllFiled
  <1>3. Lasting
    BY <1>2, WritesLast DEF BranchesInv
  <1>4. \A k \in Node : Tip(k)' = Tip(k)
    BY <1>1, TipLasts
  <1>5. \A k \in Node \ {n} : db'[k] = db[k]
    BY <1>2 DEF Writes, BranchesInv, TypeOK
  <1>6. TypeOK'
    BY LocalTyped DEF BranchesInv
  <1>7. BranchesTypeOK'
    BY DEF BranchesInv, BranchesTypeOK
  <1>8. Alike' /\ Known'
    BY <1>1, <1>2, WritesHold DEF BranchesInv
  <1>9. AllFiled'
    <2>1. Filed(base)' <=> Filed(base)
      BY DEF Filed, Entities
    <2>2. ASSUME NEW k \in Node PROVE Filed(Tip(k))'
      BY <1>4 DEF BranchesInv, AllFiled, Filed, Entities
    <2>3. ASSUME NEW k \in Node PROVE Filed(db[k])'
      <3>1. Filed(db'[k])
        BY <1>2, <1>5 DEF Writes, BranchesInv, AllFiled
      <3> QED BY <3>1 DEF Filed, Entities
    <2> QED BY <2>1, <2>2, <2>3 DEF BranchesInv, AllFiled
  <1>10. Dated'
    BY <1>1 DEF BranchesInv, Dated
  <1>11. Taken'
    BY <1>1, <1>3, TakenLasts, ByNode, ByNodeNext DEF BranchesInv
  <1>12. Branched' /\ Pending' /\ LandedMergesKeepBothSides'
    BY <1>3, <1>4, NodeLasts, ByNode, ByNodeNext DEF BranchesInv
  <1>13. HookRan'
    BY DEF BranchesInv, HookRan
  <1>14. ASSUME NEW k \in Node PROVE Sound(db[k])'
    <2>1. Sound(db'[k])
      BY <1>2, <1>5 DEF Writes, BranchesInv
    <2> QED BY <2>1 DEF Sound, ForeignKeysHold, NamesUnique, ProjectsUnique,
                        TriplesUnique, RootsHangOffNothing, Entities
  <1> QED BY <1>6, <1>7, <1>8, <1>9, <1>10, <1>11, <1>12, <1>13, <1>14 DEF BranchesInv

(* What the post-commit hook publishes is a bundle like no other.          *)
LEMMA CommitPublishes ==
    ASSUME TypeOK, BranchesTypeOK, NEW n \in Node, Commit(n)
    PROVE  /\ bundle' = [bundle EXCEPT ![n] = bundle'[n]]
           /\ bundle'[n] \in Bundle /\ bundle'[n] # NoBundle
           /\ bundle'[n].digest = <<n, commits[n] + 1>>
           /\ Tip(n)' = [rows |-> db[n].rows, ends |-> db[n].ends, tombs |-> tombs[n]]
           /\ commits' = [commits EXCEPT ![n] = commits[n] + 1]
           /\ merged'[n] = Unmerged
           /\ merged' = [merged EXCEPT ![n] = Unmerged]
  <1> DEFINE new == [digest |-> <<n, commits[n] + 1>>, rows |-> db[n].rows,
                     ends |-> db[n].ends, tombs |-> tombs[n]]
  <1>1. commits[n] \in Nat /\ commits'[n] = commits[n] + 1
    BY DEF BranchesTypeOK, Commit
  <1>2. bundle' = [bundle EXCEPT ![n] = new] /\ bundle'[n] = new
    BY <1>1 DEF Commit, TypeOK
  <1>3. new \in Bundle
    BY <1>1 DEF Bundle, Digest, TypeOK, Store
  <1>4. new # NoBundle
    BY DEF NoBundle
  <1>5. Tip(n)' = [rows |-> db[n].rows, ends |-> db[n].ends, tombs |-> tombs[n]]
    BY <1>2, <1>4 DEF Tip
  <1>6. merged' = [merged EXCEPT ![n] = Unmerged] /\ merged'[n] = Unmerged
    BY DEF Commit, BranchesTypeOK
  <1>7. commits' = [commits EXCEPT ![n] = commits[n] + 1]
    BY DEF Commit, BranchesTypeOK
  <1>8. new.digest = <<n, commits[n] + 1>>
    OBVIOUS
  <1> HIDE DEF new
  <1> QED BY <1>2, <1>3, <1>4, <1>5, <1>6, <1>7, <1>8

(* A digest with a count nobody has reached is a new one.                  *)
LEMMA NewDigestIsNew ==
    ASSUME TypeOK, BranchesTypeOK, Dated, NEW n \in Node
    PROVE  /\ \A k \in Node : <<n, commits[n] + 1>> \notin imported[k]
           /\ \A p \in Node : bundle[p] # NoBundle => bundle[p].digest # <<n, commits[n] + 1>>
  <1>1. commits[n] \in Nat /\ ~(commits[n] + 1 <= commits[n])
    BY DEF BranchesTypeOK
  <1> QED BY <1>1 DEF Dated

(* The counts after a bundle was published under a digest of its own.      *)
LEMMA NewDigestDated ==
    ASSUME TypeOK, BranchesTypeOK, Dated, NEW n \in Node,
           bundle' = [bundle EXCEPT ![n] = bundle'[n]],
           bundle'[n].digest = <<n, commits[n] + 1>>,
           commits' = [commits EXCEPT ![n] = commits[n] + 1],
           imported' = imported
    PROVE  Dated'
  <1>1. \A p \in Node : p # n => bundle'[p] = bundle[p]
    BY DEF TypeOK
  <1>2. \A p \in Node : bundle[p] # NoBundle => bundle[p].digest # <<n, commits[n] + 1>>
    BY NewDigestIsNew
  <1>3. \A p, q \in Node :
            bundle'[p] # NoBundle /\ bundle'[q] # NoBundle
              /\ bundle'[p].digest = bundle'[q].digest => bundle'[p] = bundle'[q]
    BY <1>1, <1>2 DEF Dated
  <1>4. \A k \in Node : commits[k] \in Nat /\ commits'[k] \in Nat /\ commits[k] <= commits'[k]
    BY DEF BranchesTypeOK
  <1>5. ASSUME NEW p \in Node, bundle'[p] # NoBundle
        PROVE  bundle'[p].digest[2] <= commits'[bundle'[p].digest[1]]
    <2>1. CASE p = n
      BY <2>1 DEF BranchesTypeOK
    <2>2. CASE p # n
      <3>1. bundle[p].digest \in Digest /\ bundle'[p] = bundle[p]
        BY <1>1, <1>5, <2>2 DEF TypeOK, Bundle
      <3>2. bundle[p].digest[1] \in Node /\ bundle[p].digest[2] \in Nat
        BY <3>1 DEF Digest
      <3>3. bundle[p].digest[2] <= commits[bundle[p].digest[1]]
        BY <1>1, <1>5, <2>2 DEF Dated
      <3> QED BY <1>4, <3>1, <3>2, <3>3
    <2> QED BY <2>1, <2>2
  <1>6. ASSUME NEW k \in Node, NEW d \in imported[k] PROVE d[2] <= commits'[d[1]]
    <2>1. d[1] \in Node /\ d[2] \in Nat /\ d[2] <= commits[d[1]]
      BY DEF TypeOK, Digest, Dated
    <2> QED BY <1>4, <2>1
  <1> QED BY <1>3, <1>5, <1>6 DEF Dated

(* A tree with a new digest was taken in by nobody.                        *)
LEMMA NewDigestTaken ==
    ASSUME TypeOK, BranchesTypeOK, Dated, Taken, Lasting, NEW n \in Node,
           bundle' = [bundle EXCEPT ![n] = bundle'[n]],
           bundle'[n].digest = <<n, commits[n] + 1>>,
           imported' = imported
    PROVE  Taken'
  <1> SUFFICES ASSUME NEW k \in Node, NEW p \in Node PROVE TakenAt(k, p)'
    BY ByNodeNext
  <1>1. CASE p = n
    BY <1>1, NewDigestIsNew DEF TakenAt
  <1>2. CASE p # n
    <2>1. bundle'[p] = bundle[p]
      BY <1>2 DEF TypeOK
    <2> QED BY <2>1, TakenLasts, ByNode
  <1> QED BY <1>1, <1>2

(* A step after which every holder but one has what a former one had.      *)
LEMMA HoldersLast ==
    ASSUME Alike, Known, seen' = seen,
           \A s \in Holders' : \A r \in s.rows :
                \E t \in Holders : r \in t.rows
                    /\ (r \in Relation => EndNames(t.ends[r]) = EndNames(s.ends[r]))
    PROVE  Alike' /\ Known'
  <1> DEFINE old == Holders
             new == Holders'
  <1>1. AlikeIn(old)
    BY DEF Alike
  <1>2. \A s \in new : \A r \in s.rows \cap Relation :
            \E t \in old : r \in t.rows /\ EndNames(t.ends[r]) = EndNames(s.ends[r])
    OBVIOUS
  <1>3. AlikeIn(new)
    <2> HIDE DEF old, new
    <2>1. \A s \in new : \A r \in s.rows \cap Relation :
            \/ s = 0 /\ \A t \in old : r \notin t.rows
            \/ \E t \in old : r \in t.rows /\ EndNames(t.ends[r]) = EndNames(s.ends[r])
      BY <1>2
    <2> QED BY <1>1, <2>1, AlikeLasts
  <1>4. Alike'
    BY <1>3 DEF Alike, AlikeIn
  <1>5. Known'
    BY DEF Known, Fresh
  <1> QED BY <1>4, <1>5

(* A commit publishes what its node has.                                   *)
LEMMA CommitKeeps ==
    ASSUME BranchesInv, NEW n \in Node, Commit(n)
    PROVE  BranchesInv'
  <1> DEFINE tree == [rows |-> db[n].rows, ends |-> db[n].ends, tombs |-> tombs[n]]
  <1>1. /\ bundle' = [bundle EXCEPT ![n] = bundle'[n]]
        /\ bundle'[n] \in Bundle /\ bundle'[n] # NoBundle
        /\ bundle'[n].digest = <<n, commits[n] + 1>>
        /\ Tip(n)' = tree
        /\ commits' = [commits EXCEPT ![n] = commits[n] + 1]
        /\ merged'[n] = Unmerged
        /\ merged' = [merged EXCEPT ![n] = Unmerged]
    BY CommitPublishes DEF BranchesInv
  <1>2. UNCHANGED <<db, tombs, imported, seen, base, hooked, excused, refused>> /\ ~hooked[n]
    BY DEF Commit
  <1>3. Lasting
    BY <1>2, QuietLasts
  <1>4. ASSUME NEW k \in Node, k # n
        PROVE  bundle'[k] = bundle[k] /\ Tip(k)' = Tip(k) /\ merged'[k] = merged[k]
    <2>1. bundle'[k] = bundle[k] /\ merged'[k] = merged[k]
      BY <1>1, <1>4 DEF BranchesInv, TypeOK, BranchesTypeOK
    <2> QED BY <2>1, TipLasts
  <1>5. TypeOK'
    BY <1>1, <1>2 DEF BranchesInv, TypeOK
  <1>6. BranchesTypeOK'
    <2>1. Unmerged \in [rows : SUBSET Row, ends : [Relation -> SUBSET Entity], landed : BOOLEAN]
      BY DEF Unmerged
    <2>2. commits' \in [Node -> Nat]
      BY <1>1 DEF BranchesInv, BranchesTypeOK
    <2> QED BY <1>1, <1>2, <2>1, <2>2 DEF BranchesInv, BranchesTypeOK
  <1>7. Alike' /\ Known'
    <2>1. db[n] \in Holders /\ tree.rows = db[n].rows /\ tree.ends = db[n].ends
      BY DEF Holders
    <2>2. Unmerged.rows = {}
      BY DEF Unmerged
    <2>3. \A s \in Holders' : s \in Holders \/ s = tree \/ s = Unmerged
      BY <1>1, <1>2, <1>4 DEF Holders
    <2>4. \A s \in Holders' : \A r \in s.rows :
                \E t \in Holders : r \in t.rows
                    /\ (r \in Relation => EndNames(t.ends[r]) = EndNames(s.ends[r]))
      BY <2>1, <2>2, <2>3
    <2> QED BY <1>2, <2>4, HoldersLast DEF BranchesInv
  <1>8. AllFiled'
    <2>1. Filed(tree)
      BY DEF BranchesInv, AllFiled, Filed, Entities
    <2>2. ASSUME NEW k \in Node PROVE Filed(Tip(k))'
      <3>1. Tip(k)' = tree \/ Tip(k)' = Tip(k)
        BY <1>1, <1>4
      <3>2. Filed(Tip(k))
        BY DEF BranchesInv, AllFiled
      <3> HIDE DEF tree
      <3> QED BY <2>1, <3>1, <3>2 DEF Filed, Entities
    <2> QED BY <1>2, <2>2 DEF BranchesInv, AllFiled, Filed, Entities
  <1>9. Dated'
    BY <1>1, <1>2, NewDigestDated DEF BranchesInv
  <1>10. Taken'
    BY <1>1, <1>2, <1>3, NewDigestTaken DEF BranchesInv
  <1>11. ASSUME NEW k \in Node PROVE LandedAt(k)' /\ BranchedAt(k)' /\ PendingAt(k)'
    <2>1. CASE k # n
      BY <1>2, <1>3, <1>4, <1>11, <2>1, NodeLasts, ByNode DEF BranchesInv
    <2>2. CASE k = n
      <3>1. LandedAt(n)'
        BY <1>1 DEF LandedAt, Unmerged
      <3>2. PendingAt(n)'
        BY <1>2 DEF PendingAt
      <3>3. BranchedAt(n)'
        <4>1. \A r \in base.rows :
                r \in excused[n] \cup refused[n] \/ Stored(n, r, base.ends[r])
          BY <1>2, ByNode DEF BranchesInv, BranchedAt, Owed
        <4>2. \A r \in tree.rows : Stored(n, r, tree.ends[r])
          BY DEF Stored, Accounted
        <4> HIDE DEF tree
        <4> QED BY <1>1, <1>2, <4>1, <4>2 DEF BranchedAt, Stored
      <3> QED BY <2>2, <3>1, <3>2, <3>3
    <2> QED BY <2>1, <2>2
  <1>12. HookRan'
    <2>1. ASSUME NEW k \in Node, ~hooked'[k]
          PROVE  merged'[k].landed \/ merged'[k].rows \subseteq refused'[k]
      BY <1>1, <1>2, <1>4, <2>1 DEF BranchesInv, HookRan, Unmerged
    <2> QED BY <2>1 DEF HookRan
  <1>13. \A k \in Node : Sound(db[k])'
    BY <1>2 DEF BranchesInv, Sound, ForeignKeysHold, NamesUnique, ProjectsUnique,
          TriplesUnique, RootsHangOffNothing, Entities
  <1> QED BY <1>5, <1>6, <1>7, <1>8, <1>9, <1>10, <1>11, <1>12, <1>13, ByNodeNext
        DEF BranchesInv

(* What a merge leaves at the tip: a tree of the two, under a digest one of*)
(* the branches gave to those very bytes, or under one of its own.         *)
LEMMA MergePublishes ==
    ASSUME TypeOK, BranchesTypeOK, NEW n \in Node, NEW m \in Node, GitMerge(n, m)
    PROVE  /\ bundle' = [bundle EXCEPT ![n] = bundle'[n]]
           /\ bundle'[n] \in Bundle /\ bundle'[n] # NoBundle
           /\ Tip(n)' \in Merges(base, Tip(n), Tip(m))
           /\ \/ /\ bundle'[n].digest = <<n, commits[n] + 1>>
                 /\ commits' = [commits EXCEPT ![n] = commits[n] + 1]
              \/ /\ \E p \in Node : bundle[p] # NoBundle /\ bundle'[n] = bundle[p]
                 /\ commits' = commits
  <1>1. PICK tree \in Merges(base, Tip(n), Tip(m)) :
          /\ bundle' = [bundle EXCEPT ![n] =
                [digest |-> Stamped(n, m, tree), rows |-> tree.rows,
                 ends |-> tree.ends, tombs |-> tree.tombs]]
          /\ commits' = [commits EXCEPT ![n] = Counted(n, m, tree)]
    BY DEF GitMerge
  <1> DEFINE new == [digest |-> Stamped(n, m, tree), rows |-> tree.rows,
                     ends |-> tree.ends, tombs |-> tree.tombs]
  <1>2. tree \in Tree
    BY <1>1, MergedTreeOfBoth, TipIsTree
  <1>3. bundle' = [bundle EXCEPT ![n] = new] /\ bundle'[n] = new
    BY <1>1 DEF TypeOK
  <1>4. Stamped(n, m, tree) \in Digest
    <2>1. commits[n] + 1 \in Nat
      BY DEF BranchesTypeOK
    <2>2. \A p \in Node : bundle[p] # NoBundle => bundle[p].digest \in Digest
      BY DEF TypeOK, Bundle
    <2> QED BY <2>1, <2>2 DEF Stamped, Again, Digest
  <1>5. new \in Bundle
    BY <1>2, <1>4 DEF Bundle, Tree
  <1>6. new # NoBundle
    BY DEF NoBundle
  <1>7. Tip(n)' = tree
    <2>1. Tip(n)' = [rows |-> tree.rows, ends |-> tree.ends, tombs |-> tree.tombs]
      BY <1>3, <1>6 DEF Tip
    <2> QED BY <1>2, <2>1 DEF Tree
  <1>8. ASSUME NEW p \in Node, Again(p, tree), Stamped(n, m, tree) = bundle[p].digest
        PROVE  bundle[p] # NoBundle /\ new = bundle[p]
    <2>1. bundle[p] # NoBundle /\ bundle[p] \in Bundle
      BY <1>8 DEF Again, TypeOK
    <2>2. tree = [rows |-> bundle[p].rows, ends |-> bundle[p].ends, tombs |-> bundle[p].tombs]
      BY <1>8, <2>1 DEF Again, Tip
    <2> QED BY <1>8, <2>1, <2>2 DEF Bundle
  <1>9. CASE Again(m, tree) \/ Again(n, tree)
    <2>1. \E p \in {n, m} : Again(p, tree) /\ Stamped(n, m, tree) = bundle[p].digest
      BY <1>9 DEF Stamped
    <2>2. commits' = commits
      BY <1>1, <1>9 DEF Counted, BranchesTypeOK
    <2> HIDE DEF new
    <2> QED BY <1>1, <1>3, <1>5, <1>6, <1>7, <1>8, <2>1, <2>2
  <1>10. CASE ~(Again(m, tree) \/ Again(n, tree))
    <2>1. new.digest = <<n, commits[n] + 1>>
      BY <1>10 DEF Stamped
    <2>2. commits' = [commits EXCEPT ![n] = commits[n] + 1]
      BY <1>1, <1>10 DEF Counted
    <2> HIDE DEF new
    <2> QED BY <1>1, <1>3, <1>5, <1>6, <1>7, <2>1, <2>2
  <1> QED BY <1>9, <1>10

(* Publishing again what a branch has under the digest it has.             *)
LEMMA OldDigestDated ==
    ASSUME TypeOK, BranchesTypeOK, Dated, Taken, Lasting, NEW n \in Node, NEW q \in Node,
           bundle[q] # NoBundle,
           bundle' = [bundle EXCEPT ![n] = bundle[q]],
           commits' = commits, imported' = imported
    PROVE  Dated' /\ Taken'
  <1>1. \A p \in Node : \E k \in Node : bundle'[p] = bundle[k]
    BY DEF TypeOK
  <1>2. Dated'
    BY <1>1 DEF Dated
  <1>3. ASSUME NEW k \in Node, NEW p \in Node PROVE TakenAt(k, p)'
    <2>1. PICK o \in Node : bundle'[p] = bundle[o]
      BY <1>1
    <2>2. Tip(p)' = Tip(o)
      BY <2>1 DEF Tip
    <2>3. TakenAt(k, o)
      BY ByNode
    <2>4. ASSUME NEW r, NEW ends, Stored(k, r, ends)
          PROVE  Accounted(db'[k], tombs'[k], r, ends)
      BY <2>4 DEF Lasting
    <2> QED BY <2>1, <2>2, <2>3, <2>4 DEF TakenAt, Stored
  <1> QED BY <1>2, <1>3, ByNodeNext

(* What a merge owes: what either branch has and no merge may leave out.   *)
LEMMA MergeOwes ==
    ASSUME TypeOK, BranchesTypeOK, NEW n \in Node, NEW m \in Node, GitMerge(n, m)
    PROVE  /\ excused'[n] = excused[n] \cup Excused(base, Tip(n), Tip(m))
           /\ merged'[n].rows = (Tip(n).rows \cup Tip(m).rows) \ excused'[n]
           /\ \A r \in Relation : merged'[n].ends[r] = Ends(Tip(n), Tip(m), r)
           /\ ~merged'[n].landed
           /\ hooked'[n]
           /\ \A k \in Node \ {n} :
                /\ merged'[k] = merged[k]
                /\ excused'[k] = excused[k]
                /\ hooked'[k] = hooked[k]
           /\ BranchesTypeOK'
  <1> DEFINE ours == Tip(n)
             theirs == Tip(m)
             owed == [rows |-> (ours.rows \cup theirs.rows) \ excused'[n],
                      ends |-> [r \in Relation |-> Ends(ours, theirs, r)],
                      landed |-> FALSE]
  <1>1. ours \in Tree /\ theirs \in Tree /\ base \in Tree
    BY TipIsTree DEF BranchesTypeOK
  <1>2. /\ excused' = [excused EXCEPT ![n] = excused[n] \cup Excused(base, ours, theirs)]
        /\ excused'[n] = excused[n] \cup Excused(base, ours, theirs)
        /\ merged' = [merged EXCEPT ![n] = owed]
        /\ merged'[n] = owed
        /\ hooked' = [hooked EXCEPT ![n] = TRUE]
        /\ hooked'[n]
    BY DEF GitMerge, BranchesTypeOK
  <1>3. Excused(base, ours, theirs) \subseteq Row
    BY <1>1 DEF Excused, File, Tree
  <1>4. owed \in [rows : SUBSET Row, ends : [Relation -> SUBSET Entity], landed : BOOLEAN]
    <2>1. (ours.rows \cup theirs.rows) \ excused'[n] \in SUBSET Row
      BY <1>1 DEF Tree
    <2>2. [r \in Relation |-> Ends(ours, theirs, r)] \in [Relation -> SUBSET Entity]
      BY <1>1 DEF Ends, Tree, Row
    <2> QED BY <2>1, <2>2
  <1>5. commits' \in [Node -> Nat]
    BY MergePublishes DEF BranchesTypeOK
  <1>6. BranchesTypeOK'
    <2> HIDE DEF owed
    <2> QED BY <1>1, <1>2, <1>3, <1>4, <1>5 DEF GitMerge, BranchesTypeOK
  <1>7. \A k \in Node \ {n} :
            merged'[k] = merged[k] /\ excused'[k] = excused[k] /\ hooked'[k] = hooked[k]
    BY <1>2 DEF BranchesTypeOK
  <1> QED BY <1>2, <1>6, <1>7

(* What a merge owes is here, stands in the merged tree, or was refused.   *)
LEMMA MergePending ==
    ASSUME BranchesInv, NEW n \in Node, NEW m \in Node, GitMerge(n, m)
    PROVE  PendingAt(n)'
  <1> DEFINE ours == Tip(n)
             theirs == Tip(m)
             tree == Tip(n)'
             ends(r) == merged'[n].ends[r]
  <1>1. /\ TypeOK /\ BranchesTypeOK
        /\ ours \in Tree /\ theirs \in Tree
        /\ Filed(theirs)
        /\ tree \in Merges(base, ours, theirs)
        /\ ours \in Holders /\ theirs \in Holders /\ base \in Holders
    BY TipIsTree, MergePublishes DEF BranchesInv, AllFiled, Holders
  <1>2. /\ excused'[n] = excused[n] \cup Excused(base, ours, theirs)
        /\ merged'[n].rows = (ours.rows \cup theirs.rows) \ excused'[n]
        /\ \A r \in Relation : ends(r) = Ends(ours, theirs, r)
    BY <1>1, MergeOwes
  <1>3. /\ ~hooked[n] /\ db' = db /\ tombs' = tombs /\ refused' = refused
    BY DEF GitMerge
  <1>4. \A t \in {base, ours} : \A r \in t.rows :
            r \in excused[n] \cup refused[n] \/ Stored(n, r, t.ends[r])
    BY <1>3, ByNode DEF BranchesInv, BranchedAt, Owed
  <1> SUFFICES ASSUME NEW r \in merged'[n].rows, r \notin refused[n]
               PROVE  Stored(n, r, ends(r)) \/ Stands(tree, r, ends(r))
    BY <1>3 DEF PendingAt, Stored
  <1>5. CASE r \in ours.rows
    <2>1. Stored(n, r, ours.ends[r])
      BY <1>2, <1>4, <1>5
    <2>2. r \in Relation => EndNames(ours.ends[r]) = EndNames(ends(r))
      BY <1>2, <1>5 DEF Ends
    <2> HIDE DEF ours, ends
    <2> QED BY <2>1, <2>2, AccountedByNames DEF Stored
  <1>6. CASE r \notin ours.rows /\ r \in base.rows
    <2>1. Stored(n, r, base.ends[r])
      BY <1>2, <1>4, <1>6
    <2>2. ASSUME r \in Relation PROVE EndNames(base.ends[r]) = EndNames(ends(r))
      <3>1. ends(r) = theirs.ends[r] /\ r \in theirs.rows
        BY <1>2, <1>6, <2>2 DEF Ends
      <3> QED BY <1>1, <1>6, <2>2, <3>1 DEF BranchesInv, Alike, AlikeIn
    <2> HIDE DEF ends
    <2> QED BY <2>1, <2>2, AccountedByNames DEF Stored
  <1>7. CASE r \notin ours.rows /\ r \notin base.rows
    <2>1. r \in theirs.rows \ base.rows /\ r \notin Excused(base, ours, theirs)
      BY <1>2, <1>7
    <2>2. Stands(tree, r, Ends(ours, theirs, r))
      <3>1. \A q \in ours.rows \cap theirs.rows \cap Relation :
                EndNames(ours.ends[q]) = EndNames(theirs.ends[q])
        BY <1>1 DEF BranchesInv, Alike, AlikeIn
      <3> HIDE DEF ours, theirs, tree
      <3> QED BY <1>1, <2>1, <3>1, AddedStands
    <2> HIDE DEF ours, theirs, tree, ends
    <2> QED BY <1>2, <2>2 DEF Stands
  <1> QED BY <1>5, <1>6, <1>7

(* git merges the other branch.                                            *)
LEMMA MergeKeeps ==
    ASSUME BranchesInv, NEW n \in Node, NEW m \in Node, GitMerge(n, m)
    PROVE  BranchesInv'
  <1> DEFINE ours == Tip(n)
             theirs == Tip(m)
             tree == Tip(n)'
  <1>1. /\ TypeOK /\ BranchesTypeOK
        /\ ours \in Tree /\ theirs \in Tree
        /\ Filed(ours) /\ Filed(theirs)
        /\ ours \in Holders /\ theirs \in Holders
    BY TipIsTree DEF BranchesInv, AllFiled, Holders
  <1>2. /\ bundle' = [bundle EXCEPT ![n] = bundle'[n]]
        /\ bundle'[n] \in Bundle /\ bundle'[n] # NoBundle
        /\ tree \in Merges(base, ours, theirs)
        /\ \/ /\ bundle'[n].digest = <<n, commits[n] + 1>>
              /\ commits' = [commits EXCEPT ![n] = commits[n] + 1]
           \/ /\ \E p \in Node : bundle[p] # NoBundle /\ bundle'[n] = bundle[p]
              /\ commits' = commits
    BY <1>1, MergePublishes
  <1>3. /\ excused'[n] = excused[n] \cup Excused(base, ours, theirs)
        /\ merged'[n].rows = (ours.rows \cup theirs.rows) \ excused'[n]
        /\ \A r \in Relation : merged'[n].ends[r] = Ends(ours, theirs, r)
        /\ ~merged'[n].landed
        /\ hooked'[n]
        /\ \A k \in Node \ {n} :
                merged'[k] = merged[k] /\ excused'[k] = excused[k] /\ hooked'[k] = hooked[k]
    BY <1>1, MergeOwes
  <1>4. /\ UNCHANGED <<db, tombs, imported, seen, refused>>
        /\ base' = theirs /\ n # m
    BY DEF GitMerge
  <1>5. Lasting
    BY <1>4, QuietLasts
  <1>6. ASSUME NEW k \in Node, k # n PROVE Tip(k)' = Tip(k)
    BY <1>1, <1>2, <1>6, TipLasts DEF TypeOK
  <1>7. TypeOK'
    BY <1>1, <1>2, <1>4 DEF TypeOK
  <1>8. BranchesTypeOK'
    BY <1>1, MergeOwes
  <1>9. /\ tree.rows \subseteq ours.rows \cup theirs.rows
        /\ \A r \in tree.rows \cap Relation :
              RelatesAs(tree, ours, r) \/ RelatesAs(tree, theirs, r)
    <2>1. ours \in Tree /\ theirs \in Tree /\ tree \in Merges(base, ours, theirs)
      BY <1>1, <1>2
    <2> HIDE DEF ours, theirs, tree
    <2> QED BY <2>1, MergedTreeOfBoth
  <1>10. Alike' /\ Known'
    <2>1. \A s \in Holders' : s \in Holders \/ s = tree \/ s = merged'[n]
      BY <1>3, <1>4, <1>6 DEF Holders
    <2>2. ASSUME NEW s, s = tree \/ s = merged'[n], NEW r \in s.rows
          PROVE  \E t \in {ours, theirs} : r \in t.rows
                    /\ (r \in Relation => EndNames(t.ends[r]) = EndNames(s.ends[r]))
      <3>1. r \in ours.rows \cup theirs.rows
        BY <1>3, <1>9, <2>2
      <3>2. CASE r \in Relation /\ s = tree
        BY <1>9, <2>2, <3>2 DEF RelatesAs
      <3>3. CASE r \in Relation /\ s = merged'[n]
        <4>1. s.ends[r] = Ends(ours, theirs, r)
          BY <1>3, <3>3
        <4> QED BY <3>1, <4>1 DEF Ends
      <3>4. CASE r \notin Relation
        BY <3>1, <3>4
      <3> HIDE DEF ours, theirs, tree
      <3>5. CASE r \in Relation
        BY <2>2, <3>2, <3>3, <3>5
      <3> QED BY <3>4, <3>5
    <2>3. \A s \in Holders' : \A r \in s.rows :
                \E t \in Holders : r \in t.rows
                    /\ (r \in Relation => EndNames(t.ends[r]) = EndNames(s.ends[r]))
      BY <1>1, <2>1, <2>2
    <2> QED BY <1>4, <2>3, HoldersLast DEF BranchesInv
  <1>11. AllFiled'
    <2>1. Filed(tree)
      <3> HIDE DEF ours, theirs, tree
      <3> QED BY <1>1, <1>2, MergedTreeIsFiled
    <2>2. ASSUME NEW k \in Node PROVE Filed(Tip(k))'
      <3>1. Filed(Tip(k)')
        BY <1>6, <2>1 DEF BranchesInv, AllFiled
      <3> QED BY <3>1 DEF Filed, Entities
    <2>3. Filed(base)'
      BY <1>1, <1>4 DEF Filed, Entities
    <2> QED BY <1>4, <2>2, <2>3 DEF BranchesInv, AllFiled, Filed, Entities
  <1>12. Dated' /\ Taken'
    <2>1. CASE /\ bundle'[n].digest = <<n, commits[n] + 1>>
               /\ commits' = [commits EXCEPT ![n] = commits[n] + 1]
      BY <1>1, <1>2, <1>4, <1>5, <2>1, NewDigestDated, NewDigestTaken DEF BranchesInv
    <2>2. CASE /\ \E p \in Node : bundle[p] # NoBundle /\ bundle'[n] = bundle[p]
               /\ commits' = commits
      BY <1>1, <1>2, <1>4, <1>5, <2>2, OldDigestDated DEF BranchesInv
    <2> QED BY <1>2, <2>1, <2>2
  <1>13. ASSUME NEW k \in Node PROVE LandedAt(k)' /\ PendingAt(k)'
    <2>1. CASE k = n
      BY <1>3, <2>1, MergePending DEF LandedAt
    <2>2. CASE k # n
      BY <1>3, <1>4, <1>5, <1>6, <2>2, NodeLasts, ByNode DEF BranchesInv
    <2> QED BY <2>1, <2>2
  <1>14. ASSUME NEW k \in Node PROVE BranchedAt(k)'
    <2>1. CASE k = n
      <3>1. \A r \in ours.rows \cup theirs.rows :
                r \in excused'[n] \/ (hooked'[n] /\ r \in merged'[n].rows)
        BY <1>3
      <3> HIDE DEF ours, theirs, tree
      <3>2. \A t \in {base', tree} : \A r \in t.rows :
                r \in excused'[n] \/ (hooked'[n] /\ r \in merged'[n].rows)
        BY <1>4, <1>9, <3>1
      <3> QED BY <2>1, <3>2 DEF BranchedAt, Owed, tree
    <2>2. CASE k # n
      <3>1. k = m
        BY <1>4, <2>2, BranchesAssumption
      <3>2. \A r \in theirs.rows :
                r \in excused[m] \cup refused[m] \/ Stored(m, r, theirs.ends[r]) \/ Owed(m, r)
        BY ByNode DEF BranchesInv, BranchedAt
      <3>3. base' = theirs /\ Tip(m)' = theirs
        BY <1>4, <1>6, <2>2, <3>1
      <3> HIDE DEF theirs
      <3> QED BY <1>3, <1>4, <2>2, <3>1, <3>2, <3>3 DEF BranchedAt, Stored, Owed
    <2> QED BY <2>1, <2>2
  <1>15. HookRan'
    BY <1>3, <1>4 DEF BranchesInv, HookRan
  <1>16. \A k \in Node : Sound(db[k])'
    BY <1>4 DEF BranchesInv, Sound, ForeignKeysHold, NamesUnique, ProjectsUnique,
          TriplesUnique, RootsHangOffNothing, Entities
  <1> QED BY <1>7, <1>8, <1>10, <1>11, <1>12, <1>13, <1>14, <1>15, <1>16, ByNodeNext
        DEF BranchesInv

(* Whatever stands in the merged tree is here once the hook has run.       *)
Brings(n) ==
    \A r \in Row : \A ends :
        Stands(Tip(n), r, ends) => Accounted(db'[n], tombs'[n], r, ends)

(* An import that commits brings it.                                       *)
LEMMA CommittedBrings ==
    ASSUME BranchesInv, NEW n \in Node, NEW confirm, NEW deletes,
           Buried(bundle[n], deletes) = bundle[n].tombs,
           ImportCommitted(n, n, confirm, deletes)
    PROVE  Brings(n)
  <1> DEFINE s == db[n]
             pack == bundle[n]
  <1>1. pack \in Bundle /\ s \in Store /\ pack # NoBundle
    BY OfferedTyped DEF ImportCommitted, Offered, BranchesInv
  <1>2. Tip(n) = [rows |-> pack.rows, ends |-> pack.ends, tombs |-> pack.tombs]
    BY <1>1 DEF Tip
  <1>3. Filed(pack)
    BY <1>2 DEF BranchesInv, AllFiled, Filed, Entities
  <1>4. PICK by \in ByName(AfterTombstones(s, pack, deletes)) :
            /\ DatabaseAccepts(s, by, pack, deletes)
            /\ db' = [db EXCEPT ![n] = Result(s, by, pack, deletes)]
    BY ImportWrites
  <1>5. db'[n] = Result(s, by, pack, deletes)
    BY <1>4 DEF BranchesInv, TypeOK
  <1> SUFFICES ASSUME NEW r \in Row, NEW ends, Stands(Tip(n), r, ends)
               PROVE  Accounted(db'[n], tombs'[n], r, ends)
    BY DEF Brings
  <1>6. Stands(pack, r, ends)
    BY <1>2 DEF Stands
  <1> HIDE DEF s, pack
  <1>7. Accounted(Result(s, by, pack, deletes), tombs'[n], r, ends)
    BY <1>1, <1>3, <1>4, <1>6, ImportBringsStanding DEF pack
  <1> QED BY <1>5, <1>7

(* One that finds the digest recorded has nothing left to bring.           *)
LEMMA SkippedBrings ==
    ASSUME BranchesInv, NEW n \in Node, bundle[n] # NoBundle,
           bundle[n].digest \in imported[n], db' = db, tombs' = tombs
    PROVE  Brings(n)
  <1> DEFINE tree == Tip(n)
  <1>1. \A q \in tree.rows : Stands(tree, q, tree.ends[q]) => Stored(n, q, tree.ends[q])
    BY DEF BranchesInv, Taken
  <1>2. db[n] \in Holders /\ tree \in Holders
    BY DEF Holders
  <1> SUFFICES ASSUME NEW r \in Row, NEW ends, Stands(tree, r, ends)
               PROVE  Stored(n, r, ends)
    BY DEF Brings, Stored
  <1> HIDE DEF tree
  <1>3. CASE r \notin Relation
    <2>1. Stored(n, r, tree.ends[r])
      BY <1>1, <1>3 DEF Stands
    <2> QED BY <1>3, <2>1, AccountedByNames DEF Stored
  <1>4. CASE r \in Relation
    <2>1. PICK q \in tree.rows \cap Relation :
                LinkOf[q] = LinkOf[r] /\ EndNames(tree.ends[q]) = EndNames(ends)
      BY <1>4 DEF Stands
    <2>2. Stored(n, q, tree.ends[q])
      BY <1>1, <2>1 DEF Stands
    <2>3. q \notin Entity
      BY StoreAssumption
    <2>4. q \in db[n].rows => EndNames(db[n].ends[q]) = EndNames(tree.ends[q])
      BY <1>2 DEF BranchesInv, Alike, AlikeIn
    <2>5. CASE q \in db[n].rows \cup tombs[n]
      BY <1>4, <2>1, <2>4, <2>5 DEF Stored, Accounted
    <2>6. CASE q \notin db[n].rows \cup tombs[n]
      <3>1. PICK x \in Relation :
                /\ LinkOf[x] = LinkOf[q]
                /\ \/ x \in tombs[n]
                   \/ x \in db[n].rows /\ EndNames(db[n].ends[x]) = EndNames(tree.ends[q])
        BY <2>2, <2>3, <2>6 DEF Stored, Accounted
      <3> QED BY <1>4, <2>1, <3>1 DEF Stored, Accounted
    <2> QED BY <2>5, <2>6
  <1> QED BY <1>3, <1>4

(* Once the merged tree is brought, what the merge owed is here.           *)
LEMMA BroughtLands ==
    ASSUME BranchesInv, NEW n \in Node, Brings(n), Lasting, hooked[n],
           NEW r \in merged[n].rows
    PROVE  \/ r \in refused[n]
           \/ Accounted(db'[n], tombs'[n], r, merged[n].ends[r])
  <1>1. r \in Row
    BY DEF BranchesInv, BranchesTypeOK
  <1>2. \/ r \in refused[n]
        \/ Stored(n, r, merged[n].ends[r])
        \/ Stands(Tip(n), r, merged[n].ends[r])
    BY DEF BranchesInv, Pending
  <1> QED BY <1>1, <1>2 DEF Brings, Lasting

(* The hook has run and the merge landed.                                  *)
LEMMA BroughtKeeps ==
    ASSUME BranchesInv, NEW n \in Node, Brings(n), Lasting, hooked[n],
           merged' = [merged EXCEPT ![n].landed = TRUE],
           hooked' = [hooked EXCEPT ![n] = FALSE],
           UNCHANGED <<bundle, base, commits, excused, refused>>
    PROVE  /\ \A k \in Node :
                merged'[k].rows = merged[k].rows /\ merged'[k].ends = merged[k].ends
           /\ BranchesTypeOK'
           /\ LandedMergesKeepBothSides'
           /\ Branched'
           /\ Pending'
           /\ HookRan'
  <1>1. /\ merged'[n].rows = merged[n].rows
        /\ merged'[n].ends = merged[n].ends
        /\ merged'[n].landed = TRUE
        /\ hooked'[n] = FALSE
        /\ \A k \in Node \ {n} : merged'[k] = merged[k] /\ hooked'[k] = hooked[k]
    BY DEF BranchesInv, BranchesTypeOK
  <1>2. BranchesTypeOK'
    BY DEF BranchesInv, BranchesTypeOK
  <1>3. \A k \in Node : Tip(k)' = Tip(k)
    BY TipLasts
  <1>4. ASSUME NEW k \in Node PROVE LandedAt(k)' /\ BranchedAt(k)' /\ PendingAt(k)'
    <2>1. CASE k # n
      BY <1>1, <1>3, <2>1, NodeLasts, ByNode DEF BranchesInv
    <2>2. CASE k = n
      <3>1. LandedAt(n)'
        BY <1>1, BroughtLands DEF LandedAt, Stored
      <3>2. PendingAt(n)'
        BY <1>1 DEF PendingAt
      <3>3. ASSUME NEW t \in {base, Tip(n)}, NEW r \in t.rows,
                   r \notin excused[n] \cup refused[n]
            PROVE  Accounted(db'[n], tombs'[n], r, t.ends[r])
        <4>1. CASE Stored(n, r, t.ends[r])
          BY <4>1 DEF Lasting
        <4>2. CASE r \in merged[n].rows
          <5>1. Accounted(db'[n], tombs'[n], r, merged[n].ends[r])
            BY <3>3, <4>2, BroughtLands
          <5>2. r \in Relation => EndNames(merged[n].ends[r]) = EndNames(t.ends[r])
            <6>1. merged[n] \in Holders /\ t \in Holders
              BY DEF Holders
            <6> QED BY <4>2, <6>1 DEF BranchesInv, Alike, AlikeIn
          <5> QED BY <5>1, <5>2, AccountedByNames
        <4> QED BY <3>3, <4>1, <4>2, ByNode DEF BranchesInv, BranchedAt, Owed
      <3>4. BranchedAt(n)'
        BY <1>3, <3>3 DEF BranchedAt, Stored
      <3> QED BY <2>2, <3>1, <3>2, <3>4
    <2> QED BY <2>1, <2>2
  <1>5. HookRan'
    BY <1>1 DEF BranchesInv, HookRan
  <1>6. \A k \in Node : merged'[k].rows = merged[k].rows /\ merged'[k].ends = merged[k].ends
    BY <1>1
  <1> QED BY <1>2, <1>4, <1>5, <1>6, ByNodeNext

(* The hook's import commits.                                              *)
LEMMA HookCommitKeeps ==
    ASSUME BranchesInv, NEW n \in Node, hooked[n], NEW confirm, NEW deletes,
           Buried(bundle[n], deletes) = bundle[n].tombs,
           ImportCommitted(n, n, confirm, deletes), NamesUnique(db'[n]),
           merged' = [merged EXCEPT ![n].landed = TRUE],
           hooked' = [hooked EXCEPT ![n] = FALSE],
           UNCHANGED <<base, commits, excused, refused>>
    PROVE  BranchesInv'
  <1>1. Writes(n)
    BY ImportIsWrite DEF BranchesInv, AllFiled
  <1>2. Lasting /\ Brings(n)
    BY <1>1, WritesLast, CommittedBrings DEF BranchesInv
  <1>3. bundle' = bundle /\ bundle[n] # NoBundle
    BY DEF ImportCommitted, Offered
  <1>4. /\ \A k \in Node :
                merged'[k].rows = merged[k].rows /\ merged'[k].ends = merged[k].ends
        /\ BranchesTypeOK'
        /\ LandedMergesKeepBothSides'
        /\ Branched'
        /\ Pending'
        /\ HookRan'
    BY <1>2, <1>3, BroughtKeeps
  <1>5. Alike' /\ Known'
    BY <1>1, <1>3, <1>4, WritesHold DEF BranchesInv
  <1>6. TypeOK'
    BY ImportCommittedTyped DEF BranchesInv
  <1>7. \A k \in Node : Tip(k)' = Tip(k)
    BY <1>3, TipLasts
  <1>8. \A k \in Node \ {n} : db'[k] = db[k]
    BY <1>1 DEF Writes, BranchesInv, TypeOK
  <1>9. AllFiled'
    <2>1. ASSUME NEW k \in Node PROVE Filed(Tip(k))' /\ Filed(db[k])'
      <3>1. Filed(db'[k]) /\ Filed(Tip(k)')
        BY <1>1, <1>7, <1>8 DEF Writes, BranchesInv, AllFiled
      <3> QED BY <3>1 DEF Filed, Entities
    <2> QED BY <2>1 DEF BranchesInv, AllFiled, Filed, Entities
  <1>10. ASSUME NEW k \in Node PROVE Sound(db[k])'
    <2>1. Sound(db'[k])
      BY <1>1, <1>8 DEF Writes, BranchesInv
    <2> QED BY <2>1 DEF Sound, ForeignKeysHold, NamesUnique, ProjectsUnique,
                        TriplesUnique, RootsHangOffNothing, Entities
  <1>11. /\ \A k \in Node \ {n} : imported'[k] = imported[k]
         /\ imported'[n] \subseteq imported[n] \cup {bundle[n].digest}
    BY DEF ImportCommitted, Record, BranchesInv, TypeOK
  <1>12. Dated'
    <2>1. \A p \in Node : bundle[p] # NoBundle =>
                bundle[p].digest[2] <= commits[bundle[p].digest[1]]
      BY DEF BranchesInv, Dated
    <2>2. ASSUME NEW k \in Node, NEW d \in imported'[k] PROVE d[2] <= commits[d[1]]
      BY <1>3, <1>11, <2>1 DEF BranchesInv, Dated
    <2> QED BY <1>3, <2>1, <2>2 DEF BranchesInv, Dated
  <1>13. ASSUME NEW k \in Node, NEW p \in Node PROVE TakenAt(k, p)'
    <2>1. CASE imported'[k] = imported[k]
      BY <1>2, <1>3, <2>1, TakenLasts, ByNode DEF BranchesInv
    <2>2. CASE k = n
      <3> SUFFICES ASSUME bundle[p] # NoBundle, bundle[p].digest \in imported'[n],
                          NEW r \in Tip(p).rows, Stands(Tip(p), r, Tip(p).ends[r])
                   PROVE  Accounted(db'[n], tombs'[n], r, Tip(p).ends[r])
        BY <1>3, <1>7, <2>2 DEF TakenAt, Stored
      <3>1. CASE bundle[p].digest \in imported[n]
        <4>1. Stored(n, r, Tip(p).ends[r])
          BY <3>1 DEF BranchesInv, Taken
        <4> QED BY <1>2, <4>1 DEF Lasting
      <3>2. CASE bundle[p].digest = bundle[n].digest
        <4>1. Tip(p) = Tip(n)
          BY <1>3, <3>2 DEF BranchesInv, Dated, Tip
        <4>2. r \in Row
          BY TipIsTree DEF BranchesInv, Tree
        <4> QED BY <1>2, <4>1, <4>2 DEF Brings
      <3> QED BY <1>11, <3>1, <3>2
    <2> QED BY <1>11, <2>1, <2>2
  <1> QED BY <1>4, <1>5, <1>6, <1>9, <1>10, <1>12, <1>13, ByNodeNext DEF BranchesInv

(* What a step that touches nothing but the merge on record leaves.        *)
LEMMA RestLasts ==
    ASSUME BranchesInv, UNCHANGED vars, UNCHANGED <<base, commits>>,
           \A k \in Node :
                merged'[k].rows = merged[k].rows /\ merged'[k].ends = merged[k].ends
    PROVE  /\ TypeOK'
           /\ Alike'
           /\ Known'
           /\ AllFiled'
           /\ Dated'
           /\ Taken'
           /\ \A k \in Node : Sound(db[k])'
           /\ Lasting
           /\ \A k \in Node : Tip(k)' = Tip(k)
  <1> USE DEF vars
  <1>1. \A k \in Node : Tip(k)' = Tip(k)
    BY TipLasts
  <1>2. \A s \in Holders' : \E t \in Holders : s.rows = t.rows /\ s.ends = t.ends
    BY <1>1 DEF Holders
  <1>3. Alike' /\ Known'
    BY <1>2, HoldersLast DEF BranchesInv
  <1>4. Lasting
    BY QuietLasts
  <1>5. Taken'
    BY <1>4, TakenLasts, ByNode, ByNodeNext DEF BranchesInv
  <1>6. AllFiled'
    BY <1>1 DEF BranchesInv, AllFiled, Filed, Entities
  <1>7. TypeOK' /\ Dated'
    BY DEF BranchesInv, TypeOK, Dated
  <1>8. \A k \in Node : Sound(db[k])'
    BY DEF BranchesInv, Sound, ForeignKeysHold, NamesUnique, ProjectsUnique,
           TriplesUnique, RootsHangOffNothing, Entities
  <1> QED BY <1>1, <1>3, <1>4, <1>5, <1>6, <1>7, <1>8

(* The hook's import finds the digest recorded.                            *)
LEMMA HookSkipKeeps ==
    ASSUME BranchesInv, NEW n \in Node, hooked[n], NEW confirm, NEW deletes,
           ImportSkipped(n, n, confirm, deletes),
           merged' = [merged EXCEPT ![n].landed = TRUE],
           hooked' = [hooked EXCEPT ![n] = FALSE],
           UNCHANGED <<base, commits, excused, refused>>
    PROVE  BranchesInv'
  <1>1. UNCHANGED vars /\ bundle[n] # NoBundle /\ bundle[n].digest \in imported[n]
    BY DEF ImportSkipped, Offered
  <1>2. Brings(n)
    BY <1>1, SkippedBrings DEF vars
  <1>3. Lasting
    BY <1>1, QuietLasts DEF vars
  <1>4. /\ \A k \in Node :
                merged'[k].rows = merged[k].rows /\ merged'[k].ends = merged[k].ends
        /\ BranchesTypeOK'
        /\ LandedMergesKeepBothSides'
        /\ Branched'
        /\ Pending'
        /\ HookRan'
    BY <1>1, <1>2, <1>3, BroughtKeeps DEF vars
  <1> QED BY <1>1, <1>4, RestLasts DEF BranchesInv

(* The hook's import comes to nothing.                                     *)
LEMMA HookFailKeeps ==
    ASSUME BranchesInv, NEW n \in Node, HookFails(n),
           hooked' = [hooked EXCEPT ![n] = FALSE],
           UNCHANGED <<base, commits, excused>>
    PROVE  BranchesInv'
  <1>1. /\ UNCHANGED vars
        /\ merged' = merged
        /\ refused' = [refused EXCEPT ![n] = refused[n] \cup merged[n].rows]
    BY DEF HookFails, ImportAlarmed, ImportRejected, NamesClash
  <1>2. /\ TypeOK' /\ Alike' /\ Known' /\ AllFiled' /\ Dated' /\ Taken'
        /\ \A k \in Node : Sound(db[k])'
        /\ Lasting
        /\ \A k \in Node : Tip(k)' = Tip(k)
    BY <1>1, RestLasts
  <1>3. /\ refused'[n] = refused[n] \cup merged[n].rows
        /\ hooked'[n] = FALSE
        /\ \A k \in Node \ {n} : refused'[k] = refused[k] /\ hooked'[k] = hooked[k]
    BY <1>1 DEF BranchesInv, BranchesTypeOK
  <1>4. BranchesTypeOK'
    BY <1>1 DEF BranchesInv, BranchesTypeOK
  <1>5. ASSUME NEW k \in Node PROVE LandedAt(k)' /\ BranchedAt(k)' /\ PendingAt(k)'
    <2>1. CASE k # n
      BY <1>1, <1>2, <1>3, <2>1, NodeLasts, ByNode DEF BranchesInv
    <2>2. CASE k = n
      <3>1. LandedAt(n)' /\ PendingAt(n)'
        BY <1>1, <1>3 DEF LandedAt, PendingAt
      <3>2. \A t \in {base, Tip(n)} : \A r \in t.rows :
                r \in excused[n] \cup refused'[n] \/ Stored(n, r, t.ends[r])
        BY <1>3, ByNode DEF BranchesInv, BranchedAt, Owed
      <3>3. BranchedAt(n)'
        BY <1>1, <1>2, <3>2 DEF BranchedAt, Stored, vars
      <3> QED BY <2>2, <3>1, <3>3
    <2> QED BY <2>1, <2>2
  <1>6. HookRan'
    BY <1>1, <1>3 DEF BranchesInv, HookRan
  <1> QED BY <1>2, <1>4, <1>5, <1>6, ByNodeNext DEF BranchesInv

(* post-merge.                                                             *)
LEMMA HookKeeps ==
    ASSUME BranchesInv, NEW n \in Node, HookImports(n)
    PROVE  BranchesInv'
  <1>1. /\ hooked[n]
        /\ hooked' = [hooked EXCEPT ![n] = FALSE]
        /\ UNCHANGED <<base, commits, excused>>
        /\ HookLands(n) \/ HookFails(n)
    BY DEF HookImports
  <1>2. CASE HookFails(n)
    BY <1>1, <1>2, HookFailKeeps
  <1>3. CASE HookLands(n)
    <2>1. \E deletes \in BOOLEAN :
            /\ Buried(bundle[n], deletes) = bundle[n].tombs
            /\ \/ ImportCommitted(n, n, FALSE, deletes) /\ NamesUnique(db'[n])
               \/ ImportSkipped(n, n, FALSE, deletes)
      <3> WITNESS TRUE \in BOOLEAN
      <3> QED BY <1>3 DEF HookLands, Buried
    <2>2. PICK deletes \in BOOLEAN :
            /\ Buried(bundle[n], deletes) = bundle[n].tombs
            /\ \/ ImportCommitted(n, n, FALSE, deletes) /\ NamesUnique(db'[n])
               \/ ImportSkipped(n, n, FALSE, deletes)
      BY <2>1
    <2>3. \E confirm \in BOOLEAN :
               \/ ImportCommitted(n, n, confirm, deletes) /\ NamesUnique(db'[n])
               \/ ImportSkipped(n, n, confirm, deletes)
      <3> WITNESS FALSE \in BOOLEAN
      <3> QED BY <2>2
    <2>4. merged' = [merged EXCEPT ![n].landed = TRUE] /\ refused' = refused
      BY <1>3 DEF HookLands
    <2> QED BY <1>1, <2>2, <2>3, <2>4, HookCommitKeeps, HookSkipKeeps
  <1> QED BY <1>1, <1>2, <1>3

(* Every step of git, of the hooks and of the handlers.                    *)
LEMMA BranchesNextKeeps ==
    BranchesInv /\ [BranchesNext]_<<vars, branchVars>> => BranchesInv'
  <1> SUFFICES ASSUME BranchesInv, [BranchesNext]_<<vars, branchVars>>
               PROVE  BranchesInv'
    OBVIOUS
  <1>1. CASE UNCHANGED <<vars, branchVars>>
    <2>1. UNCHANGED vars /\ UNCHANGED branchVars
      BY <1>1
    <2>2. /\ TypeOK' /\ Alike' /\ Known' /\ AllFiled' /\ Dated' /\ Taken'
          /\ \A k \in Node : Sound(db[k])'
          /\ Lasting
          /\ \A k \in Node : Tip(k)' = Tip(k)
      BY <2>1, RestLasts DEF branchVars
    <2>3. LandedMergesKeepBothSides' /\ Branched' /\ Pending'
      BY <2>1, <2>2, NodeLasts, ByNode, ByNodeNext DEF BranchesInv, branchVars
    <2> QED BY <2>1, <2>2, <2>3 DEF BranchesInv, BranchesTypeOK, HookRan, branchVars
  <1>2. ASSUME NEW n \in Node, Local(n), UNCHANGED branchVars PROVE BranchesInv'
    BY <1>2, LocalKeeps
  <1>3. ASSUME NEW n \in Node, Commit(n) PROVE BranchesInv'
    BY <1>3, CommitKeeps
  <1>4. ASSUME NEW n \in Node, NEW m \in Node, GitMerge(n, m) PROVE BranchesInv'
    BY <1>4, MergeKeeps
  <1>5. ASSUME NEW n \in Node, HookImports(n) PROVE BranchesInv'
    BY <1>5, HookKeeps
  <1> QED BY <1>1, <1>2, <1>3, <1>4, <1>5 DEF BranchesNext

(* A repository nobody has committed to.                                   *)
LEMMA BranchesInvInit == Init /\ BranchesInit => BranchesInv
  <1> SUFFICES ASSUME Init, BranchesInit PROVE BranchesInv
    OBVIOUS
  <1>1. TypeOK
    BY TypeOKInit
  <1>2. \A n \in Node :
            /\ db[n] = EmptyStore /\ tombs[n] = {} /\ bundle[n] = NoBundle
            /\ imported[n] = {} /\ Tip(n) = EmptyTree
            /\ hooked[n] = FALSE /\ merged[n] = Unmerged
    BY DEF Init, BranchesInit, Tip
  <1>3. base = EmptyTree /\ EmptyTree.rows = {} /\ Unmerged.rows = {} /\ EmptyStore.rows = {}
    BY DEF BranchesInit, EmptyTree, Unmerged, EmptyStore
  <1>4. EmptyTree \in Tree
    BY DEF EmptyTree, Tree
  <1>5. Unmerged \in [rows : SUBSET Row, ends : [Relation -> SUBSET Entity], landed : BOOLEAN]
    BY DEF Unmerged
  <1>6. BranchesTypeOK
    BY <1>3, <1>4, <1>5 DEF BranchesInit, BranchesTypeOK
  <1>7. \A t \in Holders : t.rows = {}
    BY <1>2, <1>3 DEF Holders
  <1>8. Alike /\ Known
    BY <1>7 DEF Alike, AlikeIn, Known
  <1>9. AllFiled
    BY <1>2, <1>3 DEF AllFiled, Filed
  <1>10. Dated /\ Taken
    BY <1>2 DEF Dated, Taken
  <1>11. Branched /\ Pending /\ HookRan
    BY <1>2, <1>3 DEF Branched, Pending, HookRan
  <1>12. \A n \in Node : Sound(db[n])
    BY <1>2, EmptyStoreIsSound
  <1>13. LandedMergesKeepBothSides
    BY <1>2, <1>3 DEF LandedMergesKeepBothSides, KeepsBothSides
  <1> QED BY <1>1, <1>6, <1>8, <1>9, <1>10, <1>11, <1>12, <1>13 DEF BranchesInv

(* The invariant holds throughout.                                         *)
THEOREM BranchesInvariant == BranchesSpec => []BranchesInv
  BY BranchesInvInit, BranchesNextKeeps, PTL DEF BranchesSpec

(* Every reachable state of two branches is well typed.                    *)
THEOREM BranchesTypes == BranchesSpec => [](TypeOK /\ BranchesTypeOK)
  <1>1. BranchesInv => TypeOK /\ BranchesTypeOK
    BY DEF BranchesInv
  <1> QED BY <1>1, BranchesInvariant, PTL

(* What a merge owes is here once the hook has imported it, for any rows,  *)
(* any number of commits and whatever the handlers do in between: nothing  *)
(* of either side is lost but what was buried, what git stopped on and what*)
(* an import refused before.                                               *)
THEOREM LandedMergesAreKept == BranchesSpec => []LandedMergesKeepBothSides
  <1>1. BranchesInv => LandedMergesKeepBothSides
    BY DEF BranchesInv
  <1> QED BY <1>1, BranchesInvariant, PTL

(* A merged bundle may hold what no database does, two entities of a name; *)
(* what the post-merge import leaves is consistent all the same.           *)
THEOREM BranchesAreConsistent == BranchesSpec => []StoresConsistent
  <1>1. BranchesInv => StoresConsistent
    BY DEF BranchesInv, Sound, StoresConsistent
  <1> QED BY <1>1, BranchesInvariant, PTL

(* Only a refused import loses a merge: where every import of the hook was *)
(* let through, no commit drops a row of either side.                      *)
THEOREM OnlyRefusalsDropMerges ==
    BranchesSpec /\ [](\A n \in Node : refused[n] = {}) => MergesReachTheDatabase
  <1> DEFINE Honoured == \A n \in Node : refused[n] = {}
             Step == \A n \in Node : Commit(n) => KeepsBothSides(n, merged[n].rows)
  <1>1. BranchesInv /\ Honoured => Step
    <2> SUFFICES ASSUME BranchesInv, Honoured, NEW n \in Node, Commit(n)
                 PROVE  KeepsBothSides(n, merged[n].rows)
      OBVIOUS
    <2>1. ~hooked[n] /\ refused[n] = {}
      BY DEF Commit
    <2>2. CASE merged[n].landed
      BY <2>1, <2>2 DEF BranchesInv, LandedMergesKeepBothSides, KeepsBothSides
    <2>3. CASE merged[n].rows = {}
      BY <2>3 DEF KeepsBothSides
    <2> QED BY <2>1, <2>2, <2>3 DEF BranchesInv, HookRan
  <1>2. BranchesInv /\ Honoured => [Step]_<<vars, branchVars>>
    BY <1>1
  <1>3. [](BranchesInv /\ Honoured) => MergesReachTheDatabase
    BY <1>2, PTL DEF MergesReachTheDatabase
  <1> QED BY <1>3, BranchesInvariant, PTL


-----------------------------------------------------------------------------
(* What ReplicaSync promises of an import, git's included: its bundle is one*)
(* no node exported.                                                       *)

(* Only handlers and committed imports write a database.                   *)
LEMMA BranchesMove ==
    ASSUME [BranchesNext]_<<vars, branchVars>>
    PROVE  \/ UNCHANGED <<db, tombs, imported, seen>>
           \/ \E n \in Node : Local(n)
           \/ \E n \in Node, confirm, deletes \in BOOLEAN :
                    ImportCommitted(n, n, confirm, deletes)
  <1>1. CASE UNCHANGED <<vars, branchVars>>
    BY <1>1 DEF vars
  <1>2. ASSUME NEW n \in Node, NEW m \in Node, Commit(n) \/ GitMerge(n, m)
        PROVE  UNCHANGED <<db, tombs, imported, seen>>
    BY <1>2 DEF Commit, GitMerge
  <1>3. ASSUME NEW n \in Node, HookImports(n)
        PROVE  \/ UNCHANGED <<db, tombs, imported, seen>>
               \/ \E confirm, deletes \in BOOLEAN : ImportCommitted(n, n, confirm, deletes)
    <2>1. UNCHANGED vars \/ ImportCommitted(n, n, FALSE, TRUE)
      BY <1>3 DEF HookImports, HookLands, HookFails, ImportSkipped, ImportAlarmed,
                  ImportRejected, NamesClash
    <2>2. CASE ImportCommitted(n, n, FALSE, TRUE)
      <3>1. \E confirm, deletes \in BOOLEAN : ImportCommitted(n, n, confirm, deletes)
        <4> WITNESS FALSE \in BOOLEAN, TRUE \in BOOLEAN
        <4> QED BY <2>2
      <3> QED BY <3>1
    <2> QED BY <2>1, <2>2 DEF vars
  <1> QED BY <1>1, <1>2, <1>3 DEF BranchesNext

(* A row that went through a merge has its tombstone where it went.        *)
LEMMA BranchesBury ==
    TypeOK /\ EveryLossIsBuried /\ [BranchesNext]_<<vars, branchVars>> => EveryLossIsBuried'
  <1> SUFFICES ASSUME TypeOK, EveryLossIsBuried, [BranchesNext]_<<vars, branchVars>>
               PROVE  EveryLossIsBuried'
    OBVIOUS
  <1>1. CASE UNCHANGED <<db, tombs, imported, seen>>
    BY <1>1 DEF EveryLossIsBuried
  <1> QED BY <1>1, BranchesMove, LocalBuries, ImportCommittedBuries

(* Trees are finite, merged ones included.                                 *)
LEMMA BranchesFinite ==
    BranchesInv /\ FiniteStores /\ [BranchesNext]_<<vars, branchVars>> => FiniteStores'
  <1> SUFFICES ASSUME BranchesInv, FiniteStores, [BranchesNext]_<<vars, branchVars>>
               PROVE  FiniteStores'
    OBVIOUS
  <1>0. TypeOK /\ BranchesTypeOK
    BY DEF BranchesInv
  <1>1. ASSUME db' = db, bundle' = bundle PROVE FiniteStores'
    BY <1>1 DEF FiniteStores
  <1>2. ASSUME NEW n \in Node, Commit(n) PROVE FiniteStores'
    <2>1. bundle'[n].rows = db[n].rows /\ bundle' = [bundle EXCEPT ![n] = bundle'[n]]
      BY <1>0, <1>2, CommitPublishes DEF Commit, TypeOK
    <2>2. db' = db
      BY <1>2 DEF Commit
    <2> QED BY <1>0, <2>1, <2>2 DEF FiniteStores, TypeOK
  <1>3. ASSUME NEW n \in Node, NEW m \in Node, GitMerge(n, m) PROVE FiniteStores'
    <2>1. \A k \in Node : IsFiniteSet(Tip(k).rows)
      BY FS_EmptySet DEF FiniteStores, Tip, EmptyTree
    <2>2. /\ bundle' = [bundle EXCEPT ![n] = bundle'[n]]
          /\ bundle'[n] # NoBundle
          /\ Tip(n)' \in Merges(base, Tip(n), Tip(m))
      BY <1>0, <1>3, MergePublishes
    <2>3. Tip(n)'.rows \in SUBSET (Tip(n).rows \cup Tip(m).rows)
      BY <1>0, <2>2, MergedTreeOfBoth, TipIsTree
    <2>4. IsFiniteSet(Tip(n)'.rows)
      BY <2>1, <2>3, FS_Union, FS_Subset
    <2>5. Tip(n)'.rows = bundle'[n].rows
      BY <2>2 DEF Tip
    <2>6. db' = db
      BY <1>3 DEF GitMerge
    <2> QED BY <1>0, <2>2, <2>4, <2>5, <2>6 DEF FiniteStores, TypeOK
  <1>4. ASSUME NEW n \in Node, HookImports(n) PROVE FiniteStores'
    <2>1. UNCHANGED vars \/ ImportCommitted(n, n, FALSE, TRUE)
      BY <1>4 DEF HookImports, HookLands, HookFails, ImportSkipped, ImportAlarmed,
                  ImportRejected, NamesClash
    <2>2. CASE ImportCommitted(n, n, FALSE, TRUE)
      BY <1>0, <2>2, ImportFinite
    <2> QED BY <1>1, <2>1, <2>2 DEF vars
  <1>5. CASE UNCHANGED <<vars, branchVars>>
    BY <1>1, <1>5 DEF vars
  <1> QED BY <1>0, <1>2, <1>3, <1>4, <1>5, LocalFinite DEF BranchesNext

(* Between two branches as between two exported bundles: no row goes       *)
(* unburied.                                                               *)
THEOREM BranchesBuryLosses == BranchesSpec => []EveryLossIsBuried
  <1>1. Init => EveryLossIsBuried
    BY DEF Init, EveryLossIsBuried
  <1>2. BranchesInv => TypeOK
    BY DEF BranchesInv
  <1> QED BY <1>1, <1>2, BranchesBury, BranchesInvariant, PTL DEF BranchesSpec

(* An import after a merge takes no memory the merged tree does not name,  *)
(* none at all where deletions are withheld, and unconfirmed no more than  *)
(* the alarm allows; and it records no digest it has not applied.          *)
THEOREM BranchesImportAsPromised ==
    BranchesSpec => /\ UnnamedMemoriesSurvive
                    /\ WithholdingOnlyAdds
                    /\ UnconfirmedLossIsBounded
                    /\ RecordedMeansApplied
  <1> DEFINE Unnamed ==
        \A n, m \in Node :
            bundle[m] # NoBundle /\ ~(MemoriesLost(n) \subseteq bundle[m].tombs) =>
                \A confirm, deletes \in BOOLEAN :
                    ~ImportCommitted(n, m, confirm, deletes)
             Adds ==
        \A n \in Node :
            RowsLost(n) # {} \/ (\E r \in db[n].rows : db'[n].ends[r] # db[n].ends[r]) =>
                \A m \in Node, confirm \in BOOLEAN :
                    ~ImportCommitted(n, m, confirm, FALSE)
             Bounded ==
        \A n \in Node :
            LET lost == Cardinality(MemoriesLost(n))
            IN  lost >= AlarmFloor /\ lost * AlarmInverse > AlarmTotal(db[n]) =>
                    \A m \in Node, deletes \in BOOLEAN :
                        ~ImportCommitted(n, m, FALSE, deletes)
             Applied ==
        \A n, m \in Node :
            /\ bundle[m] # NoBundle
            /\ bundle[m].digest \in imported'[n] \ imported[n]
            =>  /\ db'[n].rows \cap bundle[m].tombs
                     \cap (Entity \cup Observation \cup Fact \cup Procedure) = {}
                /\ \A e \in (bundle[m].rows \cap Entity) \ bundle[m].tombs :
                        Named(db'[n], NameOf[e]) # {}
  <1>1. BranchesInv => TypeOK /\ Dated
    BY DEF BranchesInv
  <1>2. TypeOK => [Unnamed]_vars
    BY ImportTakesNamed
  <1>3. TypeOK => [Adds]_vars
    <2> SUFFICES ASSUME TypeOK, NEW n \in Node, NEW m \in Node, NEW confirm,
                        NEW deletes \in BOOLEAN, ~deletes,
                        ImportCommitted(n, m, confirm, deletes)
                 PROVE  /\ RowsLost(n) = {}
                        /\ \A r \in db[n].rows : db'[n].ends[r] = db[n].ends[r]
      OBVIOUS
    <2> QED BY WithheldImportAdds
  <1>4. TypeOK /\ FiniteStores => [Bounded]_vars
    BY UnconfirmedImportIsBounded
  <1>5. TypeOK /\ Dated /\ [BranchesNext]_<<vars, branchVars>> => [Applied]_vars
    <2> SUFFICES ASSUME TypeOK, Dated, [BranchesNext]_<<vars, branchVars>>,
                        NEW n \in Node, NEW m \in Node, bundle[m] # NoBundle,
                        bundle[m].digest \in imported'[n] \ imported[n]
                 PROVE  /\ db'[n].rows \cap bundle[m].tombs
                             \cap (Entity \cup Observation \cup Fact \cup Procedure) = {}
                        /\ \A e \in (bundle[m].rows \cap Entity) \ bundle[m].tombs :
                                Named(db'[n], NameOf[e]) # {}
      OBVIOUS
    <2>1. imported' # imported
      OBVIOUS
    <2>2. PICK k \in Node, confirm \in BOOLEAN, deletes \in BOOLEAN :
                ImportCommitted(k, k, confirm, deletes)
      BY <2>1, BranchesMove, LocalIsLocal
    <2>3. bundle[m].digest = bundle[k].digest => bundle[m] = bundle[k]
      BY <2>2 DEF Dated, ImportCommitted, Offered
    <2> QED BY <2>2, <2>3, ImportRecordsApplied
  <1> HIDE DEF Unnamed, Adds, Bounded, Applied
  <1>6. BranchesSpec => [][Unnamed]_vars /\ [][Adds]_vars /\ [][Bounded]_vars /\ [][Applied]_vars
    BY <1>1, <1>2, <1>3, <1>4, <1>5, InitFinite, BranchesFinite, BranchesInvariant, PTL
       DEF BranchesSpec
  <1> QED BY <1>6 DEF Unnamed, Adds, Bounded, Applied, UnnamedMemoriesSurvive,
                     WithholdingOnlyAdds, UnconfirmedLossIsBounded, RecordedMeansApplied


-----------------------------------------------------------------------------
(* The scenes TLC plays are behaviours of the two specifications, so what is*)
(* proved of these holds of every run of MCReplicaSync.                    *)

(* Bundles that people exchange, and nodes that keep exchanging.           *)
LEMMA ExchangesAreSteps ==
    ASSUME [RunNext]_allVars, scene \in BundleScenes \cup ExchangeScenes,
           scene.of # "branches"
    PROVE  [Next]_vars
  <1>1. CASE UNCHANGED allVars
    BY <1>1 DEF allVars, vars
  <1>2. ASSUME NEW n \in Node, NEW m \in Node, NEW confirm \in BOOLEAN,
               NEW deletes \in BOOLEAN, Import(n, m, confirm, deletes)
        PROVE  Next
    BY <1>2, SceneAssumption DEF Next, Everyone
  <1>3. ASSUME Bundles, scene.of = "bundles" PROVE Next
    <2>1. scene \in BundleScenes
      BY <1>3 DEF ExchangeScenes
    <2>2. \A n \in Node : scene.play.sources[n] \subseteq Node
      BY <2>1, SceneAssumption DEF BundleScenes, Everyone, EachOther, OnlyB
    <2> QED BY <1>2, <1>3, <2>2 DEF Bundles, Next
  <1>4. ASSUME Exchange PROVE Next
    <2>1. ASSUME NEW n \in Node, Curate(n) PROVE Local(n)
      <3>1. \A o \in Observation : o \in Row
        BY DEF Row
      <3> QED BY <2>1, <3>1 DEF Curate, Local
    <2>2. ASSUME NEW n \in Node, Receive(n) PROVE Next
      <3>1. PICK m \in Node : ImportCommitted(n, m, FALSE, TRUE)
        BY <2>2 DEF Receive, EachOther
      <3>2. \E confirm, deletes \in BOOLEAN : Import(n, m, confirm, deletes)
        <4> WITNESS FALSE \in BOOLEAN, TRUE \in BOOLEAN
        <4> QED BY <3>1 DEF Import
      <3> QED BY <1>2, <3>2
    <2> QED BY <1>4, <2>1, <2>2 DEF Exchange, Publish, Next
  <1> QED BY <1>1, <1>3, <1>4 DEF RunNext

(* Branches that are committed and merged.                                 *)
LEMMA BranchingIsSteps ==
    ASSUME [RunNext]_allVars, scene.of = "branches"
    PROVE  [BranchesNext]_<<vars, branchVars>>
  BY DEF RunNext, allVars, Branching, Bundles, Exchange

(* A scene is of bundles or exchanges from beginning to end, and then a    *)
(* behaviour of ReplicaSync, or of branches, and then one of Branches.     *)
THEOREM ScenesPlayTheirParts == RunSpec => Spec \/ BranchesSpec
  <1> DEFINE Exchanging == /\ scene \in BundleScenes \cup ExchangeScenes
                           /\ scene.of # "branches"
             OnBranches == scene.of = "branches"
  <1>1. RunInit => Init /\ BranchesInit /\ (Exchanging \/ OnBranches)
    BY DEF RunInit, BundleScenes, ExchangeScenes, BranchScenes
  <1>2. [RunNext]_allVars => scene' = scene
    BY DEF RunNext, allVars
  <1>3. Exchanging /\ [RunNext]_allVars => Exchanging' /\ [Next]_vars
    BY <1>2, ExchangesAreSteps DEF BundleScenes, ExchangeScenes, EachOther, OnlyB, Everyone
  <1>4. OnBranches /\ [RunNext]_allVars => OnBranches' /\ [BranchesNext]_<<vars, branchVars>>
    BY <1>2, BranchingIsSteps
  <1> HIDE DEF Exchanging, OnBranches
  <1>5. RunSpec /\ Exchanging => Spec
    BY <1>1, <1>3, PTL DEF RunSpec, Spec
  <1>6. RunSpec /\ OnBranches => BranchesSpec
    BY <1>1, <1>4, PTL DEF RunSpec, BranchesSpec
  <1> QED BY <1>1, <1>5, <1>6, PTL DEF RunSpec


(* Whatever rows the scenes are played with, every safety property of the  *)
(* run holds in all of them.                                               *)
THEOREM ScenesAreSafe ==
    RunSpec => /\ [](/\ TypeOK
                     /\ EveryLossIsBuried
                     /\ StoresConsistent
                     /\ LandedMergesKeepBothSides)
               /\ UnnamedMemoriesSurvive
               /\ WithholdingOnlyAdds
               /\ UnconfirmedLossIsBounded
               /\ RecordedMeansApplied
  <1> DEFINE Unmerging == scene.of # "branches" /\ \A n \in Node : merged[n] = Unmerged
             OnBranches == scene.of = "branches"
  <1>1. RunInit => Unmerging \/ OnBranches
    BY DEF RunInit, BranchesInit
  <1>2. Unmerging /\ [RunNext]_allVars => Unmerging'
    BY DEF RunNext, branchVars, allVars
  <1>3. Unmerging => LandedMergesKeepBothSides
    BY DEF Unmerged, LandedMergesKeepBothSides
  <1>4. OnBranches /\ [RunNext]_allVars => OnBranches' /\ [BranchesNext]_<<vars, branchVars>>
    BY BranchingIsSteps DEF RunNext, allVars
  <1>5. RunInit => Init /\ BranchesInit
    BY DEF RunInit
  <1> HIDE DEF Unmerging, OnBranches
  <1>6. RunSpec => []LandedMergesKeepBothSides
    BY <1>1, <1>2, <1>3, <1>4, <1>5, LandedMergesAreKept, PTL DEF RunSpec, BranchesSpec
  <1>7. BranchesSpec => []TypeOK
    BY BranchesTypes, PTL
  <1>8. Spec \/ BranchesSpec => [](TypeOK /\ EveryLossIsBuried /\ StoresConsistent)
    BY <1>7, TypeCorrect, LossesAreBuried, StoresAreConsistent, BranchesBuryLosses,
       BranchesAreConsistent, PTL
  <1>9. Spec \/ BranchesSpec => /\ UnnamedMemoriesSurvive
                                /\ WithholdingOnlyAdds
                                /\ UnconfirmedLossIsBounded
                                /\ RecordedMeansApplied
    BY UnnamedMemoriesAreSafe, WithholdingIsSafe, UnconfirmedLossIsSmall,
       RecordedIsApplied, BranchesImportAsPromised
  <1>10. RunSpec => [](/\ TypeOK
                      /\ EveryLossIsBuried
                      /\ StoresConsistent
                      /\ LandedMergesKeepBothSides)
    BY <1>6, <1>8, ScenesPlayTheirParts, PTL
  <1> QED BY <1>9, <1>10, ScenesPlayTheirParts, PTL


-----------------------------------------------------------------------------
(* Rows that are missing arrive, where names tell projects apart and no     *)
(* name is an entity's in two projects: these are the only rows by which an*)
(* import that deletes nothing can fail.                                   *)

OneNameEach ==
    /\ \A p, q \in Project : NameOf[p] = NameOf[q] => p = q
    /\ \A e, f \in Entity : NameOf[e] = NameOf[f] => HomeOf[e] = HomeOf[f]

(* Where a name is one entity's, the names of the ends tell the ends.      *)
LEMMA NamesTellEnds ==
    ASSUME OneNameEach, NEW s, NamesUnique(s),
           NEW x \in SUBSET Entities(s), NEW y \in SUBSET Entities(s),
           EndNames(x) = EndNames(y)
    PROVE  x = y
  <1>1. \A e, f \in Entities(s) : NameOf[e] = NameOf[f] => e = f
    BY DEF OneNameEach, NamesUnique, Entities
  <1> QED BY <1>1 DEF EndNames

(* Without tombstones everything a store holds is left.                    *)
LEMMA NothingBuried ==
    ASSUME NEW s \in Store, NEW pack, pack.tombs = {}, NEW deletes
    PROVE  /\ AfterTombstones(s, pack, deletes) \in Store
           /\ AfterTombstones(s, pack, deletes).rows = s.rows
           /\ \A r \in s.rows : AfterTombstones(s, pack, deletes).ends[r] = s.ends[r]
           /\ Files(pack, deletes) = pack.rows \cap Entity
  <1>1. \A t \in Store : Without(t, {}).rows = t.rows
    BY DEF Without, Kept
  <1>2. AfterTombstones(s, pack, deletes).rows = s.rows
    BY <1>1, WithoutIsStore DEF AfterTombstones, NamedRowsGone
  <1>3. \A r \in s.rows : AfterTombstones(s, pack, deletes).ends[r] = s.ends[r]
    BY <1>2, AfterTombstonesKeepsEnds
  <1> QED BY <1>2, <1>3, AfterTombstonesIsStore DEF Files, Buried

(* A sound bundle that buries nothing goes into a sound store, if the two  *)
(* agree on the ends of the relations they share.                          *)
LEMMA AgreedBundleIsAccepted ==
    ASSUME OneNameEach, NEW s \in Store, Sound(s), NEW pack \in Bundle, Sound(pack),
           pack.tombs = {}, NEW deletes, NEW by \in ByName(AfterTombstones(s, pack, deletes)),
           \A r \in s.rows \cap pack.rows \cap Relation :
                EndNames(s.ends[r]) = EndNames(pack.ends[r])
    PROVE  DatabaseAccepts(s, by, pack, deletes)
  <1> DEFINE left == AfterTombstones(s, pack, deletes)
             result == Result(s, by, pack, deletes)
             landing == Landing(left, by, pack, deletes)
  <1>1. /\ left \in Store
        /\ left.rows = s.rows
        /\ \A r \in s.rows : left.ends[r] = s.ends[r]
        /\ Files(pack, deletes) = pack.rows \cap Entity
    BY NothingBuried
  <1>2. /\ result.rows = left.rows \cup landing
        /\ \A r \in left.rows : result.ends[r] = s.ends[r]
    BY ResultKeepsEnds DEF Result, Merged
  <1>3. result \in Store
    BY ResultIsStore
  <1>4. ProjectsUnique(result)
    BY DEF OneNameEach, ProjectsUnique
  <1>5. LandingEntities(by, pack, deletes) \subseteq landing
    BY DEF Landing
  <1>6. ASSUME NEW r \in pack.rows
        PROVE  ResolvedEnds(by, pack, deletes, r) \subseteq LandingEntities(by, pack, deletes)
    <2>1. pack.ends[r] \subseteq Files(pack, deletes)
      BY <1>1 DEF Sound, ForeignKeysHold, Bundle
    <2> QED BY <2>1 DEF ResolvedEnds, LandingEntities
  <1>7. ASSUME NEW r \in landing, r \notin left.rows
        PROVE  result.ends[r] \subseteq result.rows
    <2>1. r \in Row
      BY <1>2, <1>3 DEF Store
    <2>2. result.ends[r] = LandedEnds(left, by, pack, deletes, r)
      BY <1>7, <2>1 DEF Result, Merged
    <2>3. CASE r \in Entity \cup Project
      <3>1. r \notin Fact
        BY <2>3, StoreAssumption
      <3> QED BY <1>7, <2>2, <2>3, <3>1 DEF LandedEnds
    <2>4. CASE r \notin Entity \cup Project
      <3>1. r \notin LandingEntities(by, pack, deletes)
        BY <2>4, ResolveIsEntity DEF LandingEntities, Files
      <3>2. r \in pack.rows
        BY <1>7, <3>1, BatchIsOfBundle DEF Landing, LandingObservations, LandingFacts,
              LandingUnfiltered, LandingRelations
      <3>3. LandedEnds(left, by, pack, deletes, r) \subseteq ResolvedEnds(by, pack, deletes, r)
        BY <1>7, <2>4 DEF LandedEnds
      <3> QED BY <1>2, <1>5, <1>6, <2>2, <3>2, <3>3
    <2> QED BY <2>3, <2>4
  <1>8. ASSUME NEW e \in Entities(result) PROVE HomeOf[e] \subseteq result.rows
    <2>1. CASE e \in s.rows
      BY <1>1, <1>2, <2>1 DEF Sound, ForeignKeysHold, Entities
    <2>2. CASE e \notin s.rows
      <3>1. e \in LandingEntities(by, pack, deletes)
        <4>1. e \in landing
          BY <1>1, <1>2, <2>2 DEF Entities
        <4>2. LandingRelations(left, by, pack, deletes) \subseteq Relation
          BY BatchIsOfBundle DEF LandingRelations
        <4> QED BY <4>1, <4>2, StoreAssumption DEF Landing, LandingObservations,
                LandingFacts, LandingUnfiltered, Entities
      <3>2. e \in Entities(pack)
        BY <1>1, <2>2, <3>1, ResolveFindsLocal DEF LandingEntities, Entities
      <3>3. HomeOf[e] \subseteq pack.rows \cap Project
        BY <3>2, StoreAssumption DEF Sound, ForeignKeysHold, Entities
      <3>4. pack.rows \cap Project \subseteq landing
        BY DEF Landing, LandingUnfiltered
      <3> QED BY <1>2, <3>3, <3>4
    <2> QED BY <2>1, <2>2
  <1>9. ForeignKeysHold(result)
    <2>1. \A r \in s.rows : s.ends[r] \subseteq s.rows
      BY DEF Sound, ForeignKeysHold
    <2> QED BY <1>1, <1>2, <1>7, <1>8, <2>1 DEF ForeignKeysHold
  <1>10. ~RelationClash(left, by, pack, deletes)
    <2> SUFFICES ASSUME NEW r \in LandingRelations(left, by, pack, deletes) \cap left.rows
                 PROVE  left.ends[r] = ResolvedEnds(by, pack, deletes, r)
      BY DEF RelationClash
    <2> DEFINE ends == ResolvedEnds(by, pack, deletes, r)
    <2>1. r \in pack.rows /\ r \in Relation /\ r \in s.rows /\ left.ends[r] = s.ends[r]
      BY <1>1, BatchIsOfBundle DEF LandingRelations
    <2>2. s.ends[r] \in SUBSET Entities(left)
      BY <1>1, <2>1 DEF Sound, ForeignKeysHold, Entities, Store
    <2>3. EndNames(ends) = EndNames(s.ends[r])
      BY <2>1, ResolvedNames DEF Row
    <2>4. ends \in SUBSET Entities(left)
      <3> SUFFICES ASSUME NEW e \in pack.ends[r]
                   PROVE  Resolve(by, pack, deletes, e) \in Entities(left)
        BY DEF ResolvedEnds
      <3>1. e \in Files(pack, deletes)
        BY <1>1, <2>1 DEF Sound, ForeignKeysHold, Bundle
      <3>2. NameOf[e] \in EndNames(s.ends[r])
        BY <2>1 DEF EndNames
      <3>3. PICK f \in Entities(left) : NameOf[f] = NameOf[e]
        BY <2>2, <3>2 DEF EndNames
      <3>4. NameOf[e] \in DOMAIN by
        BY <3>3 DEF ByName
      <3> QED BY <3>1, <3>4, ByNameFinds DEF Resolve
    <2>5. NamesUnique(left)
      BY <1>1 DEF Sound, NamesUnique, Entities
    <2> HIDE DEF ends
    <2>6. s.ends[r] = ends
      BY <2>2, <2>3, <2>4, <2>5, NamesTellEnds
    <2> QED BY <2>1, <2>6 DEF ends
  <1> QED BY <1>4, <1>9, <1>10 DEF DatabaseAccepts


(* Databases and bundles that were exported agree on the ends of relations,*)
(* by name, and a bundle buries what its node has buried.                  *)
Exchanged == {db[n] : n \in Node} \cup {Tip(n) : n \in Node}

ExchangeInv ==
    /\ TypeOK
    /\ AllSound
    /\ Remembered
    /\ AlikeIn(Exchanged)
    /\ \A t \in Exchanged : \A r \in t.rows : ~Fresh(r)
    /\ \A n \in Node : Tip(n).tombs \subseteq tombs[n]

(* A store that holds what others held, or rows nobody had.                *)
LEMMA ExchangedLast ==
    ASSUME ExchangeInv, NEW n \in Node, NEW s, db' = [db EXCEPT ![n] = s],
           bundle' = bundle, \A k \in Node : seen[k] \subseteq seen'[k],
           s.rows \subseteq seen'[n],
           \A r \in s.rows \cap Relation :
                \/ Fresh(r)
                \/ \E t \in Exchanged : r \in t.rows /\ EndNames(t.ends[r]) = EndNames(s.ends[r])
    PROVE  /\ AlikeIn(Exchanged)'
           /\ (\A t \in Exchanged : \A r \in t.rows : ~Fresh(r))'
  <1> DEFINE old == Exchanged
             new == Exchanged'
  <1>1. \A k \in Node : Tip(k)' = Tip(k)
    BY TipLasts
  <1>2. \A k \in Node : db'[k] = IF k = n THEN s ELSE db[k]
    BY DEF ExchangeInv, TypeOK
  <1>3. \A t \in new : t = s \/ t \in old
    BY <1>1, <1>2 DEF Exchanged
  <1>4. \A t \in new : \A r \in t.rows \cap Relation :
            \/ t = s /\ \A h \in old : r \notin h.rows
            \/ \E h \in old : r \in h.rows /\ EndNames(h.ends[r]) = EndNames(t.ends[r])
    BY <1>3 DEF ExchangeInv
  <1>5. AlikeIn(old)
    BY DEF ExchangeInv
  <1>6. \A r : Fresh(r)' => Fresh(r)
    BY DEF Fresh
  <1>7. ASSUME NEW t \in new, NEW r \in t.rows PROVE ~Fresh(r)'
    <2>1. CASE t = s
      BY <1>7, <2>1 DEF Fresh
    <2>2. CASE t \in old
      BY <1>6, <1>7, <2>2 DEF ExchangeInv
    <2> QED BY <1>3, <2>1, <2>2
  <1>8. AlikeIn(new)
    <2> HIDE DEF old, new
    <2> QED BY <1>4, <1>5, AlikeLasts
  <1> QED BY <1>7, <1>8 DEF AlikeIn

(* The handlers.                                                           *)
LEMMA LocalExchanges ==
    ASSUME ExchangeInv, NEW n \in Node, Local(n)
    PROVE  ExchangeInv'
  <1>1. TypeOK' /\ AllSound' /\ Remembered'
    <2>1. [Next]_vars
      BY DEF Next
    <2> QED BY <2>1, NextTyped, NextSound, NextRemembers DEF ExchangeInv
  <1>2. bundle' = bundle
    BY LocalIsLocal
  <1>3. /\ db[n] \in Exchanged
        /\ db[n].rows \subseteq seen[n]
        /\ db[n] \in Store
    BY DEF Exchanged, ExchangeInv, Remembered, TypeOK
  <1>4. ASSUME NEW row \in Row, NEW ends \in SUBSET Entity, Insert(n, row, ends)
        PROVE  ExchangeInv'
    <2> DEFINE s == With(db[n], row, ends)
    <2>1. /\ s.rows = db[n].rows \cup {row}
          /\ Fresh(row)
          /\ \A r \in db[n].rows : r # row /\ s.ends[r] = db[n].ends[r]
      BY <1>3, <1>4 DEF With, Store, Insert, ExchangeInv
    <2>2. /\ db' = [db EXCEPT ![n] = s]
          /\ seen' = [seen EXCEPT ![n] = @ \cup {row}]
          /\ tombs' = tombs
      BY <1>4 DEF Insert
    <2>3. /\ \A k \in Node : seen[k] \subseteq seen'[k]
          /\ s.rows \subseteq seen'[n]
      BY <1>3, <2>1, <2>2 DEF ExchangeInv, TypeOK
    <2>4. \A r \in s.rows \cap Relation :
            \/ Fresh(r)
            \/ \E t \in Exchanged : r \in t.rows /\ EndNames(t.ends[r]) = EndNames(s.ends[r])
      BY <1>3, <2>1
    <2> HIDE DEF s
    <2>5. /\ AlikeIn(Exchanged)'
          /\ (\A t \in Exchanged : \A r \in t.rows : ~Fresh(r))'
      BY <1>2, <2>2, <2>3, <2>4, ExchangedLast
    <2>6. \A k \in Node : Tip(k)'.tombs \subseteq tombs'[k]
      BY <1>2, <2>2, TipLasts DEF ExchangeInv
    <2> QED BY <1>1, <2>5, <2>6 DEF ExchangeInv
  <1>5. ASSUME NEW rows, Erase(n, rows) PROVE ExchangeInv'
    <2> DEFINE s == Without(db[n], rows)
    <2>1. /\ s.rows \subseteq db[n].rows
          /\ \A r \in s.rows : s.ends[r] = db[n].ends[r]
      BY <1>3, WithoutIsStore
    <2>2. /\ db' = [db EXCEPT ![n] = s]
          /\ seen' = seen
          /\ \A k \in Node : tombs[k] \subseteq tombs'[k]
      BY <1>5 DEF Erase, Bury, ExchangeInv, TypeOK
    <2>3. s.rows \subseteq seen'[n]
      BY <1>3, <2>1, <2>2
    <2>4. \A r \in s.rows \cap Relation :
            \E t \in Exchanged : r \in t.rows /\ EndNames(t.ends[r]) = EndNames(s.ends[r])
      BY <1>3, <2>1
    <2> HIDE DEF s
    <2>5. /\ AlikeIn(Exchanged)'
          /\ (\A t \in Exchanged : \A r \in t.rows : ~Fresh(r))'
      BY <1>2, <2>2, <2>3, <2>4, ExchangedLast
    <2>6. \A k \in Node : Tip(k)'.tombs \subseteq tombs'[k]
      BY <1>2, <2>2, TipLasts DEF ExchangeInv
    <2> QED BY <1>1, <2>5, <2>6 DEF ExchangeInv
  <1> QED BY <1>4, <1>5, LocalWrites

(* Publishing what is here.                                                *)
LEMMA ExportExchanges ==
    ASSUME ExchangeInv, NEW n \in Node, Export(n)
    PROVE  ExchangeInv'
  <1>1. TypeOK' /\ AllSound' /\ Remembered'
    <2>1. [Next]_vars
      BY DEF Next
    <2> QED BY <2>1, NextTyped, NextSound, NextRemembers DEF ExchangeInv
  <1>2. UNCHANGED <<db, tombs, seen>>
    BY DEF Export
  <1>3. Tip(n)' = [rows |-> db[n].rows, ends |-> db[n].ends, tombs |-> tombs[n]]
    BY DEF Export, Tip, NoBundle, ExchangeInv, TypeOK
  <1>4. \A k \in Node \ {n} : Tip(k)' = Tip(k)
    BY TipLasts DEF Export, ExchangeInv, TypeOK
  <1>5. \A t \in Exchanged' : \E s \in Exchanged : t.rows = s.rows /\ t.ends = s.ends
    BY <1>2, <1>3, <1>4 DEF Exchanged
  <1>6. AlikeIn(Exchanged')
    BY <1>5 DEF ExchangeInv, AlikeIn
  <1>7. \A t \in Exchanged' : \A r \in t.rows : ~Fresh(r)'
    BY <1>2, <1>5 DEF ExchangeInv, Fresh
  <1>8. \A k \in Node : Tip(k)'.tombs \subseteq tombs'[k]
    BY <1>2, <1>3, <1>4 DEF ExchangeInv
  <1> QED BY <1>1, <1>6, <1>7, <1>8 DEF ExchangeInv, AlikeIn

(* Taking a bundle in.                                                     *)
LEMMA ImportExchanges ==
    ASSUME ExchangeInv, [Next]_vars, NEW n \in Node, NEW m \in Node, NEW confirm,
           NEW deletes, ImportCommitted(n, m, confirm, deletes)
    PROVE  ExchangeInv'
  <1>1. TypeOK' /\ AllSound' /\ Remembered'
    BY NextTyped, NextSound, NextRemembers DEF ExchangeInv
  <1> DEFINE s == db[n]
             pack == bundle[m]
             left == AfterTombstones(s, pack, deletes)
  <1>2. pack \in Bundle /\ s \in Store /\ pack # NoBundle /\ bundle' = bundle
    BY OfferedTyped DEF ImportCommitted, Offered, ExchangeInv
  <1>3. Tip(m).rows = pack.rows /\ Tip(m).ends = pack.ends
    BY <1>2 DEF Tip
  <1> PICK by \in ByName(left) :
            /\ db' = [db EXCEPT ![n] = Result(s, by, pack, deletes)]
            /\ seen' = [seen EXCEPT ![n] = @ \cup Result(s, by, pack, deletes).rows]
    BY ImportWrites
  <1> DEFINE result == Result(s, by, pack, deletes)
  <1>4. \A r \in left.rows : r \in s.rows /\ result.ends[r] = s.ends[r]
    BY <1>2, ResultKeepsEnds
  <1>5. s \in Exchanged /\ Tip(m) \in Exchanged
    BY DEF Exchanged
  <1>6. ASSUME NEW r \in result.rows \cap Relation
        PROVE  \E t \in Exchanged : r \in t.rows /\ EndNames(t.ends[r]) = EndNames(result.ends[r])
    <2>1. CASE r \in left.rows
      BY <1>4, <1>5, <2>1
    <2>2. CASE r \notin left.rows
      <3>1. r \in pack.rows /\ result.ends[r] = ResolvedEnds(by, pack, deletes, r)
        BY <1>2, <2>2, WhatLanded
      <3>2. EndNames(result.ends[r]) = EndNames(pack.ends[r])
        BY <1>2, <3>1, ResolvedNames DEF Row
      <3> QED BY <1>3, <1>5, <3>1, <3>2
    <2> QED BY <2>1, <2>2
  <1>7. /\ \A k \in Node : seen[k] \subseteq seen'[k]
        /\ result.rows \subseteq seen'[n]
    BY DEF ExchangeInv, TypeOK
  <1>8. \A k \in Node : tombs[k] \subseteq tombs'[k]
    BY DEF ImportCommitted, Bury, ExchangeInv, TypeOK
  <1>9. /\ AlikeIn(Exchanged)'
        /\ (\A t \in Exchanged : \A r \in t.rows : ~Fresh(r))'
    <2>1. db' = [db EXCEPT ![n] = result]
      OBVIOUS
    <2> HIDE DEF result
    <2> QED BY <1>2, <1>6, <1>7, <2>1, ExchangedLast
  <1>10. \A k \in Node : Tip(k)'.tombs \subseteq tombs'[k]
    BY <1>2, <1>8, TipLasts DEF ExchangeInv
  <1> QED BY <1>1, <1>9, <1>10 DEF ExchangeInv

(* The invariant of exported bundles.                                      *)
LEMMA ExchangeInvariant == Spec => []ExchangeInv
  <1>1. Init => ExchangeInv
    <2> SUFFICES ASSUME Init PROVE ExchangeInv
      OBVIOUS
    <2>1. \A n \in Node : /\ db[n] = EmptyStore /\ tombs[n] = {} /\ bundle[n] = NoBundle
                          /\ Tip(n) = EmptyTree
      BY DEF Init, Tip
    <2>2. \A t \in Exchanged : t.rows = {}
      BY <2>1 DEF Exchanged, EmptyTree, EmptyStore
    <2>3. AllSound /\ Remembered
      BY <2>1, EmptyStoreIsSound DEF AllSound, NoProjectIn, Remembered, EmptyStore
    <2> QED BY <2>1, <2>2, <2>3, TypeOKInit DEF ExchangeInv, AlikeIn, EmptyTree
  <1>2. ExchangeInv /\ [Next]_vars => ExchangeInv'
    <2> SUFFICES ASSUME ExchangeInv, [Next]_vars PROVE ExchangeInv'
      OBVIOUS
    <2>1. CASE UNCHANGED vars
      BY <2>1 DEF vars, ExchangeInv, TypeOK, AllSound, Sound, ForeignKeysHold, NamesUnique,
            ProjectsUnique, TriplesUnique, RootsHangOffNothing, Entities, Remembered,
            AlikeIn, Exchanged, Tip, Fresh
    <2>2. ASSUME NEW n \in Node, NEW m \in Sources[n], NEW confirm \in BOOLEAN,
                 NEW deletes \in BOOLEAN, Import(n, m, confirm, deletes)
          PROVE  UNCHANGED vars \/ (m \in Node /\ ImportCommitted(n, m, confirm, deletes))
      BY <2>2, SyncAssumption DEF Import, ImportAlarmed, ImportSkipped, ImportRejected
    <2> QED BY <2>1, <2>2, LocalExchanges, ExportExchanges, ImportExchanges DEF Next
  <1> QED BY <1>1, <1>2, PTL DEF Spec

(* README.md's promise holds of every node that nobody has deleted from,   *)
(* for as long as names do not repeat across identities of projects or     *)
(* across projects of entities.                                            *)
THEOREM MissingRowsDoArrive ==
    ASSUME OneNameEach
    PROVE  Spec => []MissingRowsArrive
  <1>1. ExchangeInv => MissingRowsArrive
    <2> SUFFICES ASSUME ExchangeInv, NEW n \in Node, NEW m \in Sources[n],
                        Offered(n, m), \A k \in Node : tombs[k] = {},
                        NEW by \in ByName(AfterTombstones(db[n], bundle[m], TRUE))
                 PROVE  DatabaseAccepts(db[n], by, bundle[m], TRUE)
      BY DEF MissingRowsArrive, Accepted
    <2>1. m \in Node
      BY SyncAssumption
    <2>2. bundle[m] \in Bundle /\ db[n] \in Store /\ bundle[m] # NoBundle
      BY <2>1, OfferedTyped DEF ExchangeInv, Offered
    <2>3. Tip(m).rows = bundle[m].rows /\ Tip(m).ends = bundle[m].ends /\ bundle[m].tombs = {}
      BY <2>1, <2>2 DEF Tip, ExchangeInv
    <2>4. Sound(db[n]) /\ Sound(bundle[m])
      BY <2>1, <2>2 DEF ExchangeInv, AllSound
    <2>5. \A r \in db[n].rows \cap bundle[m].rows \cap Relation :
                EndNames(db[n].ends[r]) = EndNames(bundle[m].ends[r])
      BY <2>1, <2>3 DEF ExchangeInv, AlikeIn, Exchanged
    <2>6. PICK deletes \in BOOLEAN : deletes = TRUE
      OBVIOUS
    <2>7. by \in ByName(AfterTombstones(db[n], bundle[m], deletes))
      BY <2>6
    <2>8. DatabaseAccepts(db[n], by, bundle[m], deletes)
      BY <2>2, <2>3, <2>4, <2>5, <2>7, AgreedBundleIsAccepted
    <2> QED BY <2>6, <2>8
  <1> QED BY <1>1, ExchangeInvariant, PTL
=============================================================================
