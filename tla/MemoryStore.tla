---------------------------- MODULE MemoryStore ----------------------------
(***************************************************************************)
(* The rows of one node's PostgreSQL database that travel in a sync bundle,*)
(* seen through their identities and foreign keys only.  A store is a      *)
(* record: the identities present, and for each of them the entities it    *)
(* hangs off (none for a project, an entity, an error or a procedure, one  *)
(* for an observation, an episode or a fact, two for a relation).          *)
(*                                                                         *)
(* A relation is one triple (from, to, relation_type): its ends are a set, *)
(* and LinkOf stands for its type and for which of the two comes first.    *)
(* Contents and everything a column holds besides identity and references  *)
(* are left out.  Names and the project an entity belongs to are those it  *)
(* was created with: renaming, merging and backfilling projects is not     *)
(* modelled, and only the project of entities is.                          *)
(***************************************************************************)
EXTENDS FiniteSets

CONSTANTS
    Project, Entity, Observation, Episode, Relation, Fact, Error, Procedure,
    Name,
    NameOf,         \* the name each entity and project was created under
    HomeOf,         \* the project of each entity, at most one, or none
    Link,           \* relation_type, together with the direction
    LinkOf          \* the link each relation identity was created as

Row == Project \cup Entity \cup Observation \cup Episode \cup Relation
         \cup Fact \cup Error \cup Procedure

(* The tables share no identity: every id is a gen_random_uuid().          *)
ASSUME StoreAssumption ==
    /\ NameOf \in [Entity \cup Project -> Name]
    /\ HomeOf \in [Entity -> SUBSET Project]
    /\ \A e \in Entity : \A p, q \in HomeOf[e] : p = q
    /\ LinkOf \in [Relation -> Link]
    /\ Project \cap (Entity \cup Observation \cup Episode \cup Relation \cup Fact
                       \cup Error \cup Procedure) = {}
    /\ Entity \cap (Observation \cup Episode \cup Relation \cup Fact
                      \cup Error \cup Procedure) = {}
    /\ Observation \cap (Episode \cup Relation \cup Fact \cup Error \cup Procedure) = {}
    /\ Episode \cap (Relation \cup Fact \cup Error \cup Procedure) = {}
    /\ Relation \cap (Fact \cup Error \cup Procedure) = {}
    /\ Fact \cap (Error \cup Procedure) = {}
    /\ Error \cap Procedure = {}

(* The rows a person wrote: the ones the receiving side counts before it   *)
(* lets an entity go.                                                      *)
Memory == Observation \cup Episode

Store == [rows : SUBSET Row, ends : [Row -> SUBSET Entity]]

EmptyStore == [rows |-> {}, ends |-> [r \in Row |-> {}]]

Entities(s) == s.rows \cap Entity

Kept(s, rows) ==
    [rows |-> s.rows \cap rows,
     ends |-> [r \in Row |-> IF r \in rows THEN s.ends[r] ELSE {}]]

(* What DELETE leaves behind: the rows named, and through ON DELETE CASCADE*)
(* every row that hangs off an entity among them, are gone.                *)
Without(s, rows) ==
    Kept(s, {r \in s.rows : r \notin rows /\ s.ends[r] \cap rows = {}})

With(s, row, ends) ==
    [rows |-> s.rows \cup {row}, ends |-> [s.ends EXCEPT ![row] = ends]]

(* What the database itself enforces: foreign keys and UNIQUE constraints. *)
ForeignKeysHold(s) ==
    /\ \A r \in s.rows : s.ends[r] \subseteq s.rows
    /\ \A e \in Entities(s) : HomeOf[e] \subseteq s.rows

(* UNIQUE NULLS NOT DISTINCT (name, project_id).                           *)
NamesUnique(s) ==
    \A e, f \in Entities(s) : NameOf[e] = NameOf[f] /\ HomeOf[e] = HomeOf[f] => e = f

ProjectsUnique(s) ==
    \A p, q \in s.rows \cap Project : NameOf[p] = NameOf[q] => p = q

(* UNIQUE (from_entity, to_entity, relation_type).                         *)
TriplesUnique(s) ==
    \A q, r \in s.rows \cap Relation :
        LinkOf[q] = LinkOf[r] /\ s.ends[q] = s.ends[r] => q = r

Named(s, name) == {e \in Entities(s) : NameOf[e] = name}
=============================================================================
