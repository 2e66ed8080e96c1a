--------------------------- MODULE MCReplicaSync ---------------------------
(* Small instances of ReplicaSync and Branches for TLC: two nodes, a and b, *)
(* and the few rows of one scene to a behaviour.                            *)
EXTENDS Branches, TLC

CONSTANTS a, b, p1, p2, e1, e2, e3, e4, N1, N2, L1, o1, o2, o3, s1, r1, r2, f1, x1

(* Every name but the last entity's is the same.                            *)
Names == [x \in Entity \cup Project |-> IF x = e4 THEN N2 ELSE N1]

OneHome == [e \in Entity |-> IF e = e1 THEN {p1} ELSE {}]

OneLink == [r \in Relation |-> L1]

OneEach == [n \in Node |-> 1]
TwoAndOne == [n \in Node |-> IF n = a THEN 2 ELSE 1]
TwoFromA == [n \in Node |-> IF n = a THEN 2 ELSE 0]
FourEach == [n \in Node |-> 4]

EachOther == [n \in Node |-> Node \ {n}]
Everyone == [n \in Node |-> Node]
OnlyB == [n \in Node |-> IF n = b THEN {a} ELSE {}]

(* The scenes narrow whose bundles a node imports; the module lets it be    *)
(* anybody's.                                                               *)
ASSUME SceneAssumption == a \in Node /\ Sources = Everyone

VARIABLE scene

allVars == <<vars, branchVars, scene>>
-----------------------------------------------------------------------------
(* Bundles that people export and import as they like: an entity, its       *)
(* episode and a relation or a fact on them, exchanged in all directions;   *)
(* relations of one link between two entities of one name, in two bundles   *)
(* from a to b, where nobody writes; deletions of observations, past the    *)
(* alarm and below it, from a to b; a stale bundle of an observation; an    *)
(* error and what forgetting by name takes of it; projects of one name.     *)
BundleScenes == [of : {"bundles"}, play : {
    [rows |-> {e2, s1, r1},         exports |-> OneEach,   sources |-> Everyone, people |-> Node],
    [rows |-> {e2, s1, f1},         exports |-> OneEach,   sources |-> Everyone, people |-> Node],
    [rows |-> {p1, e1, e2, r1, r2}, exports |-> TwoFromA,  sources |-> OnlyB,    people |-> {a}],
    [rows |-> {e2, o1, o2, o3},     exports |-> TwoFromA,  sources |-> OnlyB,    people |-> Node],
    [rows |-> {e2, o1},             exports |-> TwoAndOne, sources |-> EachOther, people |-> Node],
    [rows |-> {e2, x1},             exports |-> OneEach,   sources |-> Everyone, people |-> Node],
    [rows |-> {p1, p2},             exports |-> OneEach,   sources |-> EachOther, people |-> Node]}]

Bundles ==
    \E n \in Node :
        \/ n \in scene.play.people /\ Local(n)
        \/ Published(n) < scene.play.exports[n] /\ Export(n)
        \/ \E m \in scene.play.sources[n], confirm, deletes \in BOOLEAN :
                Import(n, m, confirm, deletes)

-----------------------------------------------------------------------------
(* An exchange between people who add what they like and delete nothing but *)
(* observations, where each created one entity under an identity of its own.*)
(* git hooks export after every commit and import after every checkout,     *)
(* merge and rebase, and a node that fetches does so again and again: both  *)
(* ends of the exchange keep happening, with the default arguments.         *)
ExchangeScenes == [of : {"exchange"}, play : {
    [rows |-> {e2, e3, o1}, exports |-> FourEach, sources |-> EachOther, people |-> Node]}]

Curate(n) ==
    \/ \E e \in Entity : AddEntity(n, e)
    \/ \E r \in Memory, e \in Entity : AddMemory(n, r, e)
    \/ \E o \in Observation : DeleteRow(n, o)

Publish(n) == ~OnDisk(n) /\ Export(n)

Receive(n) == \E m \in EachOther[n] : ImportCommitted(n, m, FALSE, TRUE)

Exchange == \E n \in Node : Curate(n) \/ Publish(n) \/ Receive(n)

-----------------------------------------------------------------------------
(* Branches that are committed and merged: an entity with two observations, *)
(* with an observation and a relation, with two relations of one triple, and*)
(* with an episode beside another entity; an entity each node has under an  *)
(* identity of its own, with an observation.                                *)
BranchScenes == [of : {"branches"}, play : {
    [rows |-> {e2, o1, o2}, exports |-> TwoAndOne, sources |-> EachOther, people |-> Node],
    [rows |-> {e2, o1, r1}, exports |-> TwoAndOne, sources |-> EachOther, people |-> Node],
    [rows |-> {e2, r1, r2}, exports |-> TwoAndOne, sources |-> EachOther, people |-> Node],
    [rows |-> {e2, e4, s1}, exports |-> TwoAndOne, sources |-> EachOther, people |-> Node],
    [rows |-> {e2, e3, o1}, exports |-> TwoAndOne, sources |-> EachOther, people |-> Node]}]

Branching ==
    /\ BranchesNext
    /\ \A n \in Node : commits'[n] <= scene.play.exports[n]

-----------------------------------------------------------------------------
RunInit ==
    /\ Init
    /\ BranchesInit
    /\ scene \in BundleScenes \cup ExchangeScenes \cup BranchScenes

RunNext ==
    /\ \/ scene.of = "bundles" /\ Bundles /\ UNCHANGED branchVars
       \/ scene.of = "exchange" /\ Exchange /\ UNCHANGED branchVars
       \/ scene.of = "branches" /\ Branching
    /\ \A n \in Node : seen'[n] \subseteq scene.play.rows
    /\ UNCHANGED scene

(* Weak fairness of Receive(n), its enabling condition written out: where  *)
(* only observations are deleted nothing is withheld, and whatever is      *)
(* committed is recorded.                                                  *)
Receivable(n) ==
    \E m \in EachOther[n] :
        /\ Offered(n, m)
        /\ ~Alarmed(db[n], bundle[m], FALSE, TRUE)
        /\ bundle[m].digest \notin imported[n]
        /\ \E by \in ByName(AfterTombstones(db[n], bundle[m], TRUE)) :
                DatabaseAccepts(db[n], by, bundle[m], TRUE)

ExchangeFairness ==
    \A n \in Node :
        /\ WF_vars(scene.of = "exchange" /\ Publish(n))
        /\ \/ []<>~(scene.of = "exchange" /\ Receivable(n))
           \/ []<><<scene.of = "exchange" /\ Receive(n)>>_vars

RunSpec == RunInit /\ [][RunNext]_allVars /\ ExchangeFairness

-----------------------------------------------------------------------------
Agree(n, m) ==
    /\ db[n].rows \cap Observation = db[m].rows \cap Observation
    /\ {NameOf[e] : e \in Entities(db[n])} = {NameOf[e] : e \in Entities(db[m])}

(* Two nodes that keep exchanging agree in the end, for good, on the names *)
(* of their entities and on their observations, although each created the  *)
(* same entity under an identity of its own and deletions cross stale      *)
(* bundles that still hold the row.                                        *)
ExchangeConverges ==
    <>[](scene.of = "exchange" => \A n, m \in Node : Agree(n, m))

=============================================================================
