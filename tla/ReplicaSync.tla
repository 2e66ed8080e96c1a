---------------------------- MODULE ReplicaSync ----------------------------
(***************************************************************************)
(* Replication of a memory between nodes by bundles: cuba_sync action =    *)
(* export and action = import (handlers/sync.rs), the tombstone trigger of *)
(* migrations 0045 and 0049, and the local handlers that create and delete *)
(* the rows that travel.                                                   *)
(*                                                                         *)
(* A bundle is a directory a node publishes; any node may import it, at any*)
(* later time, any number of times.  An import is one transaction, taken   *)
(* here as one step with the five ends it can have; an export is taken as a*)
(* snapshot.  Bundles are those of scope = "all", what the git hooks write.*)
(* Conflict policy is "merge" or "skip", which treat identities alike;     *)
(* "overwrite" rewrites contents, which this module abstracts.             *)
(***************************************************************************)
EXTENDS MemoryStore, Naturals

CONSTANTS
    Node,
    Sources,        \* Sources[n]: the nodes whose bundles n imports
    AlarmFloor,     \* TOMBSTONE_ALARM_FLOOR, 25 in the code
    AlarmInverse,   \* 1 / TOMBSTONE_ALARM_RATIO, 10 in the code
    MaxExports,     \* MaxExports[n]: bound on the different bundles n publishes
    Reinforced      \* whether use alone (importance, access counts) moves exports

ASSUME SyncAssumption ==
    /\ Sources \in [Node -> SUBSET Node]
    /\ AlarmFloor \in Nat \ {0}
    /\ AlarmInverse \in Nat \ {0}
    /\ MaxExports \in [Node -> Nat]
    /\ Reinforced \in BOOLEAN

VARIABLES
    db,         \* db[n]: the rows node n holds
    tombs,      \* tombs[n]: brain_tombstones of n, never shrunk
    bundle,     \* bundle[n]: what n last published, or NoBundle
    imported,   \* imported[n]: brain_sync_state of n, the digests taken in
    seen        \* seen[n]: every row n has ever held (history)

vars == <<db, tombs, bundle, imported, seen>>

(* manifest_hash, a digest of every file: a publication whose bytes did not*)
(* change keeps the digest it had, any other gets one of its own.          *)
Digest == Node \X Nat

Bundle ==
    [digest : Digest, rows : SUBSET Row, ends : [Row -> SUBSET Entity],
     tombs : SUBSET Row]

NoBundle == [digest |-> <<>>]

TypeOK ==
    /\ db \in [Node -> Store]
    /\ tombs \in [Node -> SUBSET Row]
    /\ bundle \in [Node -> Bundle \cup {NoBundle}]
    /\ imported \in [Node -> SUBSET Digest]
    /\ seen \in [Node -> SUBSET Row]

Init ==
    /\ db = [n \in Node |-> EmptyStore]
    /\ tombs = [n \in Node |-> {}]
    /\ bundle = [n \in Node |-> NoBundle]
    /\ imported = [n \in Node |-> {}]
    /\ seen = [n \in Node |-> {}]

-----------------------------------------------------------------------------
(* Local handlers.                                                         *)

Fresh(r) == \A n \in Node : r \notin seen[n]

Insert(n, row, ends) ==
    /\ Fresh(row)
    /\ ends \subseteq Entities(db[n])
    /\ db' = [db EXCEPT ![n] = With(@, row, ends)]
    /\ seen' = [seen EXCEPT ![n] = @ \cup {row}]
    /\ UNCHANGED <<tombs, bundle, imported>>

AddProject(n, p) ==
    /\ \A q \in db[n].rows \cap Project : NameOf[q] # NameOf[p]
    /\ Insert(n, p, {})

(* ensure_entity looks for the name within the project it writes for.      *)
AddEntity(n, e) ==
    /\ HomeOf[e] \subseteq db[n].rows
    /\ \A f \in Named(db[n], NameOf[e]) : HomeOf[f] # HomeOf[e]
    /\ Insert(n, e, {})

AddMemory(n, r, e) == Insert(n, r, {e})

AddFact(n, f, e) == Insert(n, f, {e})

AddRelation(n, r, e, f) ==
    /\ \A q \in db[n].rows \cap Relation :
            LinkOf[q] = LinkOf[r] => db[n].ends[q] # {e, f}
    /\ Insert(n, r, {e, f})

AddStandalone(n, r) == Insert(n, r, {})

(* brain_record_tombstone fires once per row that goes, cascades included. *)
Bury_CascadesUnseen(n, kept) ==      \* seeded fault: the trigger misses cascades
    tombs' = [tombs EXCEPT ![n] =
        @ \cup {r \in db[n].rows \ kept.rows :
                  db[n].ends[r] \cap (db[n].rows \ kept.rows) = {}}]

Bury(n, kept) ==
    tombs' = [tombs EXCEPT ![n] = @ \cup (db[n].rows \ kept.rows)]

Erase(n, rows) ==
    /\ rows \cap db[n].rows # {}
    /\ Bury(n, Without(db[n], rows))
    /\ db' = [db EXCEPT ![n] = Without(@, rows)]
    /\ UNCHANGED <<bundle, imported, seen>>

(* Episodes and facts have no delete of their own: they go with an entity. *)
DeleteRow(n, r) ==
    /\ r \in Observation \cup Relation \cup Procedure
    /\ Erase(n, {r})

(* An entity is deleted by name: the one of the active project, or with no *)
(* project active those of every project.                                  *)
Called(n, name) ==
    {{e} : e \in Named(db[n], name)} \cup {Named(db[n], name)}

DeleteEntities(n, name) == \E es \in Called(n, name) : Erase(n, es)

(* cuba_forget: the errors that mention the name, and the entity, together.*)
Forget(n, name, errors) == \E es \in Called(n, name) : Erase(n, es \cup errors)

-----------------------------------------------------------------------------
(* Export.  A bundle whose bytes are those on disk is not written again;   *)
(* reinforcement, decay and access counts move bytes while rows stay.  All *)
(* tables are taken at one moment here; export_into reads them one by one, *)
(* with no snapshot, so that a write may come in between: PeerFetch.       *)

Published(n) == IF bundle[n] = NoBundle THEN 0 ELSE bundle[n].digest[2]

OnDisk(n) ==
    /\ bundle[n] # NoBundle
    /\ [rows |-> bundle[n].rows, ends |-> bundle[n].ends] = db[n]
    /\ bundle[n].tombs = tombs[n]

Export(n) ==
    /\ OnDisk(n) => Reinforced
    /\ Published(n) < MaxExports[n]
    /\ bundle' = [bundle EXCEPT ![n] =
            [digest |-> <<n, Published(n) + 1>>, rows |-> db[n].rows,
             ends |-> db[n].ends, tombs |-> tombs[n]]]
    /\ UNCHANGED <<db, tombs, imported, seen>>

-----------------------------------------------------------------------------
(* Import of bundle b into store s.                                        *)

(* apply_tombstones.                                                       *)
Buried(b, deletes) == IF deletes THEN b.tombs ELSE {}

WouldDelete(s, b) == Cardinality(s.rows \cap b.tombs)

AlarmTotal(s) ==
    LET observations == Cardinality(s.rows \cap Observation)
    IN  IF observations = 0 THEN 1 ELSE observations

Alarmed_AboveFloor(s, b, confirm, deletes) ==   \* seeded fault: > for >=
    /\ deletes
    /\ ~confirm
    /\ WouldDelete(s, b) > AlarmFloor
    /\ WouldDelete(s, b) * AlarmInverse > AlarmTotal(s)

Alarmed(s, b, confirm, deletes) ==
    /\ deletes
    /\ ~confirm
    /\ WouldDelete(s, b) >= AlarmFloor
    /\ WouldDelete(s, b) * AlarmInverse > AlarmTotal(s)

HasMemories_ObservationsOnly(s, e) ==   \* seeded fault: episodes not counted
    \E r \in s.rows \cap Observation : e \in s.ends[r]

HasMemories(s, e) == \E r \in s.rows \cap Memory : e \in s.ends[r]

NamedRowsGone(s, b) == Without(s, b.tombs \ Entity)

WithheldEntities(s, b) ==
    {e \in b.tombs \cap Entity : HasMemories(NamedRowsGone(s, b), e)}

AfterTombstones_Always(s, b, deletes) ==    \* seeded fault: the flag is not read
    Without(NamedRowsGone(s, b), (b.tombs \cap Entity) \ WithheldEntities(s, b))

AfterTombstones_Never(s, b, deletes) == s   \* seeded fault: deletions do not travel

AfterTombstones(s, b, deletes) ==
    IF deletes
    THEN Without(NamedRowsGone(s, b), (b.tombs \cap Entity) \ WithheldEntities(s, b))
    ELSE s

NothingWithheld(s, b, deletes) ==
    IF deletes THEN WithheldEntities(s, b) = {} ELSE b.tombs = {}

(* The entity files the import reads, and the local identity each one is   *)
(* merged into when its name is taken here.                                *)
Files(b, deletes) == (b.rows \cap Entity) \ Buried(b, deletes)

(* ByName(s): the maps the lookup by name can return, one entity for each  *)
(* name; of two projects' entities, the row the query returned last.       *)
ByName(s) ==
    {by \in [{NameOf[e] : e \in Entities(s)} -> Entities(s)] :
        \A name \in DOMAIN by : NameOf[by[name]] = name}

Resolve(by, b, deletes, e) ==
    IF e \in Files(b, deletes) /\ NameOf[e] \in DOMAIN by THEN by[NameOf[e]] ELSE e

ResolvedEnds(by, b, deletes, r) == {Resolve(by, b, deletes, e) : e \in b.ends[r]}

LandingEntities(by, b, deletes) == {Resolve(by, b, deletes, e) : e \in Files(b, deletes)}

LandingObservations(b, deletes) ==
    {o \in (b.rows \cap Observation) \ Buried(b, deletes) :
        b.ends[o] \subseteq Files(b, deletes)}

LandingFacts(b, deletes) ==
    (b.rows \cap (Fact \cup Procedure)) \ Buried(b, deletes)

(* These are not compared with the tombstones, and neither are relations.  *)
LandingUnfiltered(b) == b.rows \cap (Project \cup Episode \cup Error)

(* Of the relations that name one triple once their ends are resolved, the *)
(* first in the file, which is sorted by creation.                         *)
OneTriple(by, b, deletes, q, r) ==
    LinkOf[q] = LinkOf[r] /\ ResolvedEnds(by, b, deletes, q) = ResolvedEnds(by, b, deletes, r)

FirstOfTriple_Each(by, b, deletes, r) == r    \* seeded fault: no deduplication

FirstOfTriple(by, b, deletes, r) ==
    CHOOSE q \in b.rows \cap Relation : OneTriple(by, b, deletes, q, r)

Batch(by, b, deletes) ==
    {FirstOfTriple(by, b, deletes, r) : r \in b.rows \cap Relation}

(* ON CONFLICT (from_entity, to_entity, relation_type): a triple already   *)
(* here under another identity absorbs the incoming one.                   *)
LandingRelations(s, by, b, deletes) ==
    {r \in Batch(by, b, deletes) :
        \A q \in s.rows \cap Relation :
            q # r /\ LinkOf[q] = LinkOf[r] =>
                s.ends[q] # ResolvedEnds(by, b, deletes, r)}

Landing(s, by, b, deletes) ==
    LandingEntities(by, b, deletes) \cup LandingObservations(b, deletes)
      \cup LandingFacts(b, deletes) \cup LandingUnfiltered(b)
      \cup LandingRelations(s, by, b, deletes)

(* A row already here keeps its references; a fact whose subject is not    *)
(* here lands without one.                                                 *)
LandedEnds(s, by, b, deletes, r) ==
    IF r \in s.rows THEN s.ends[r]
    ELSE IF r \in Fact
    THEN ResolvedEnds(by, b, deletes, r)
           \cap (Entities(s) \cup LandingEntities(by, b, deletes))
    ELSE IF r \in Entity \cup Project THEN {}
    ELSE ResolvedEnds(by, b, deletes, r)

Merged(s, by, b, deletes) ==
    LET present == s.rows \cup Landing(s, by, b, deletes)
    IN  [rows |-> present,
         ends |-> [r \in Row |->
             IF r \in present THEN LandedEnds(s, by, b, deletes, r) ELSE {}]]

Result(s, by, b, deletes) == Merged(AfterTombstones(s, b, deletes), by, b, deletes)

(* A relation here under the same identity but between other entities is   *)
(* a primary key the ON CONFLICT clause does not name.                     *)
RelationClash(s, by, b, deletes) ==
    \E r \in LandingRelations(s, by, b, deletes) \cap s.rows :
        s.ends[r] # ResolvedEnds(by, b, deletes, r)

(* What PostgreSQL checks as the rows go in: one refusal aborts them all.  *)
(* Projects meet ON CONFLICT (id) alone, so a name taken here is one.      *)
DatabaseAccepts(s, by, b, deletes) ==
    /\ ForeignKeysHold(Result(s, by, b, deletes))
    /\ ProjectsUnique(Result(s, by, b, deletes))
    /\ ~RelationClash(AfterTombstones(s, b, deletes), by, b, deletes)

(* validate_bundle, run before the transaction: every relation and episode *)
(* hangs off an entity of the bundle or of this database.  A bundle that   *)
(* does not is refused with nothing written, which is no step here.        *)
Valid(s, b) ==
    \A r \in b.rows \cap (Relation \cup Episode) :
        b.ends[r] \subseteq b.rows \cup s.rows

Offered(n, m) ==
    /\ bundle[m] # NoBundle
    /\ Valid(db[n], bundle[m])

(* The transaction's four ends.  The digest is compared after the          *)
(* tombstones ran, and a duplicate returns without committing them.        *)
ImportAlarmed(n, m, confirm, deletes) ==
    /\ Offered(n, m)
    /\ Alarmed(db[n], bundle[m], confirm, deletes)
    /\ UNCHANGED vars

ImportSkipped(n, m, confirm, deletes) ==
    /\ Offered(n, m)
    /\ ~Alarmed(db[n], bundle[m], confirm, deletes)
    /\ bundle[m].digest \in imported[n]
    /\ UNCHANGED vars

ImportRejected(n, m, confirm, deletes) ==
    /\ Offered(n, m)
    /\ ~Alarmed(db[n], bundle[m], confirm, deletes)
    /\ bundle[m].digest \notin imported[n]
    /\ \E by \in ByName(AfterTombstones(db[n], bundle[m], deletes)) :
            ~DatabaseAccepts(db[n], by, bundle[m], deletes)
    /\ UNCHANGED vars

Record_Always(n, m, deletes) ==         \* seeded fault: withheld is forgotten
    imported' = [imported EXCEPT ![n] = @ \cup {bundle[m].digest}]

Record_ByPeer(n, m, deletes) ==         \* seeded fault: the peer for its bytes
    IF NothingWithheld(db[n], bundle[m], deletes)
    THEN imported' = [imported EXCEPT ![n] = @ \cup {<<n, m>>}]
    ELSE UNCHANGED imported

Record(n, m, deletes) ==
    IF NothingWithheld(db[n], bundle[m], deletes)
    THEN imported' = [imported EXCEPT ![n] = @ \cup {bundle[m].digest}]
    ELSE UNCHANGED imported

ImportCommitted(n, m, confirm, deletes) ==
    /\ Offered(n, m)
    /\ ~Alarmed(db[n], bundle[m], confirm, deletes)
    /\ bundle[m].digest \notin imported[n]
    /\ \E by \in ByName(AfterTombstones(db[n], bundle[m], deletes)) :
        LET result == Result(db[n], by, bundle[m], deletes)
        IN  /\ DatabaseAccepts(db[n], by, bundle[m], deletes)
            /\ db' = [db EXCEPT ![n] = result]
            /\ seen' = [seen EXCEPT ![n] = @ \cup result.rows]
    /\ Bury(n, AfterTombstones(db[n], bundle[m], deletes))
    /\ Record(n, m, deletes)
    /\ UNCHANGED bundle

Import(n, m, confirm, deletes) ==
    \/ ImportAlarmed(n, m, confirm, deletes)
    \/ ImportSkipped(n, m, confirm, deletes)
    \/ ImportRejected(n, m, confirm, deletes)
    \/ ImportCommitted(n, m, confirm, deletes)

-----------------------------------------------------------------------------
Local(n) ==
    \/ \E p \in Project : AddProject(n, p)
    \/ \E e \in Entity : AddEntity(n, e)
    \/ \E r \in Memory, e \in Entity : AddMemory(n, r, e)
    \/ \E f \in Fact, e \in Entity : AddFact(n, f, e)
    \/ \E r \in Relation, e, f \in Entity : AddRelation(n, r, e, f)
    \/ \E r \in Error \cup Procedure : AddStandalone(n, r)
    \/ \E r \in Row : DeleteRow(n, r)
    \/ \E name \in Name : DeleteEntities(n, name)
    \/ \E name \in Name, errors \in SUBSET Error : Forget(n, name, errors)

Next ==
    \E n \in Node :
        \/ Local(n)
        \/ Export(n)
        \/ \E m \in Sources[n], confirm, deletes \in BOOLEAN :
                Import(n, m, confirm, deletes)

Spec == Init /\ [][Next]_vars

-----------------------------------------------------------------------------
(* Properties.                                                             *)

(* No import leaves a database PostgreSQL would not hold: every reference  *)
(* resolves, no two entities of a project share a name and no two relations*)
(* a triple, although identities are rewritten by name on the way in and   *)
(* entities go with their dependants.                                      *)
StoresConsistent ==
    \A n \in Node :
        /\ ForeignKeysHold(db[n])
        /\ NamesUnique(db[n])
        /\ ProjectsUnique(db[n])
        /\ TriplesUnique(db[n])

(* Whatever way a row went - a handler, a cascade, somebody else's         *)
(* tombstone - this node holds a tombstone for it and will pass it on.     *)
EveryLossIsBuried ==
    \A n \in Node : seen[n] \ db[n].rows \subseteq tombs[n]

RowsLost(n) == db[n].rows \ db'[n].rows

MemoriesLost(n) == RowsLost(n) \cap Memory

(* apply_tombstones: an import takes away no observation and no episode the*)
(* bundle does not name, however many entities it deletes.                 *)
UnnamedMemoriesSurvive ==
    [][\A n, m \in Node :
        bundle[m] # NoBundle /\ ~(MemoriesLost(n) \subseteq bundle[m].tombs) =>
            \A confirm, deletes \in BOOLEAN :
                ~ImportCommitted(n, m, confirm, deletes)]_vars

(* With deletes = "withhold", the panel's button, an import only adds.     *)
WithholdingOnlyAdds ==
    [][\A n \in Node :
        RowsLost(n) # {} \/ (\E r \in db[n].rows : db'[n].ends[r] # db[n].ends[r]) =>
            \A m \in Node, confirm \in BOOLEAN :
                ~ImportCommitted(n, m, confirm, FALSE)]_vars

(* An import nobody confirmed takes fewer observations and episodes than   *)
(* the alarm's floor, or no larger a part than its ratio.                  *)
UnconfirmedLossIsBounded ==
    [][\A n \in Node :
        LET lost == Cardinality(MemoriesLost(n))
        IN  lost >= AlarmFloor /\ lost * AlarmInverse > AlarmTotal(db[n]) =>
                \A m \in Node, deletes \in BOOLEAN :
                    ~ImportCommitted(n, m, FALSE, deletes)]_vars

(* brain_sync_state: once a digest is recorded the same bytes are never    *)
(* read again, so by then no entity, observation, fact or procedure its    *)
(* tombstones name is left, and every entity file it offers is here under  *)
(* its own identity or the local one of that name.                         *)
RecordedMeansApplied ==
    [][\A n, m \in Node :
        /\ bundle[m] # NoBundle
        /\ bundle[m].digest \in imported'[n] \ imported[n]
        =>  /\ db'[n].rows \cap bundle[m].tombs
                 \cap (Entity \cup Observation \cup Fact \cup Procedure) = {}
            /\ \A e \in (bundle[m].rows \cap Entity) \ bundle[m].tombs :
                    Named(db'[n], NameOf[e]) # {}]_vars

-----------------------------------------------------------------------------
(* What the documentation says of an import and the code does not do.      *)

Accepted(n, m) ==
    \A by \in ByName(AfterTombstones(db[n], bundle[m], TRUE)) :
        DatabaseAccepts(db[n], by, bundle[m], TRUE)

(* README.md, "A deletion travels now": a delete is not undone by the peer *)
(* that still has the row; an import brings back no row this node deleted. *)
DeletedRowsStayDeleted ==
    [][\A n, m \in Node :
        ~(db'[n].rows \cap tombs[n] \subseteq db[n].rows) =>
            \A confirm, deletes \in BOOLEAN :
                ~ImportCommitted(n, m, confirm, deletes)]_vars

(* README.md, "merge and skip are one policy": "rows that are missing here *)
(* arrive".  While nobody has deleted anything nothing stands in their way.*)
MissingRowsArrive ==
    \A n \in Node : \A m \in Sources[n] :
        Offered(n, m) /\ (\A k \in Node : tombs[k] = {}) => Accepted(n, m)
=============================================================================
