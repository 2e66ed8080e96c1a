------------------------------ MODULE Artifacts ------------------------------
(***************************************************************************)
(* One artifact, a path of one project, on several nodes: put, patch, get, *)
(* lock and unlock (handlers/artefacto.rs), the clock that orders versions *)
(* of different nodes (crdt.rs), and its way by bundles (export and import *)
(* in handlers/sync.rs).                                                   *)
(*                                                                         *)
(* A put and a lock take the row FOR UPDATE: each is one step.  A patch is *)
(* a read and a put of what it read.  An import also lands other rows; it  *)
(* is here for the artifact's part of it.                                  *)
(***************************************************************************)
EXTENDS FiniteSets, Integers

CONSTANTS
    Peer,           \* nodes
    Client,         \* clients, each of one node
    DeskOf,         \* DeskOf[c]: the node of client c
    Actor,          \* ActorOf[c]: the name a client writes under, as the number
    ActorOf,        \*   of its place in byte order
    Body,
    MaxCounter,     \* bound on the version
    Blank           \* no row, no bundle, nothing read, no lock

ASSUME ArtifactsAssumption ==
    /\ DeskOf \in [Client -> Peer]
    /\ Actor \subseteq Nat
    /\ ActorOf \in [Client -> Actor]
    /\ MaxCounter \in Nat \ {0}

(* Clients of different nodes write under different names: what the clock  *)
(* relies on, and nothing in the code sees to.                             *)
NamesTellNodes ==
    \A c, d \in Client : DeskOf[c] # DeskOf[d] => ActorOf[c] # ActorOf[d]

Stamp == [counter : 1..MaxCounter, actor : Actor]
Version == [stamp : Stamp, body : Body]

ASSUME BlankAssumption == Blank \notin Version \cup Client \cup Nat

(* version and crdt_counter count together from 1, in every statement that *)
(* sets them; one number stands for both.                                  *)
VARIABLES
    artifact,   \* brain_artifacts: the row of each node, or Blank
    brought,    \* the row's present version came in a bundle (history)
    lease,      \* locked_by, while lock_until is in the future
    promised,   \* whom the lease was given, until it ends or they end it (history)
    bundled,    \* the artifact in the bundle each node published
    read,       \* what each client last read
    issued,     \* every version put (history)
    scoped      \* the artifact belongs to a project, which it does for good

artifactsVars == <<artifact, brought, lease, promised, bundled, read, issued, scoped>>

ArtifactsTypeOK ==
    /\ artifact \in [Peer -> Version \cup {Blank}]
    /\ brought \in [Peer -> BOOLEAN]
    /\ lease \in [Peer -> Client \cup {Blank}]
    /\ promised \in [Peer -> Client \cup {Blank}]
    /\ bundled \in [Peer -> Version \cup {Blank}]
    /\ read \in [Client -> Version \cup {Blank}]
    /\ issued \subseteq Version
    /\ scoped \in BOOLEAN

ArtifactsInit ==
    /\ artifact = [n \in Peer |-> Blank]
    /\ brought = [n \in Peer |-> FALSE]
    /\ lease = [n \in Peer |-> Blank]
    /\ promised = [n \in Peer |-> Blank]
    /\ bundled = [n \in Peer |-> Blank]
    /\ read = [c \in Client |-> Blank]
    /\ issued = {}
    /\ scoped \in BOOLEAN

-----------------------------------------------------------------------------
(* The clients of one node.                                                *)

Here(c) == artifact[DeskOf[c]]

(* A lease is its holder's name; a client of the same name holds it too.   *)
LeasedToOther(c) ==
    /\ lease[DeskOf[c]] # Blank
    /\ ActorOf[lease[DeskOf[c]]] # ActorOf[c]

Get(c) ==
    /\ Here(c) # Blank
    /\ read' = [read EXCEPT ![c] = Here(c)]
    /\ UNCHANGED <<artifact, brought, lease, promised, bundled, issued, scoped>>

Store(c, version) ==
    /\ artifact' = [artifact EXCEPT ![DeskOf[c]] = version]
    /\ brought' = [brought EXCEPT ![DeskOf[c]] = FALSE]
    /\ issued' = issued \cup {version}
    /\ UNCHANGED <<lease, promised, bundled, read, scoped>>

Create(c, body) ==
    /\ Here(c) = Blank
    /\ Store(c, [stamp |-> [counter |-> 1, actor |-> ActorOf[c]], body |-> body])

(* put with the base_version of what the client read.                      *)
BaseHolds_Any(c) == TRUE            \* seeded fault: base_version not compared

BaseHolds(c) == read[c].stamp.counter = Here(c).stamp.counter

Bumped_Kept(stamp, c) ==            \* seeded fault: the counter does not count
    [counter |-> stamp.counter, actor |-> ActorOf[c]]

Bumped(stamp, c) == [counter |-> stamp.counter + 1, actor |-> ActorOf[c]]

Put(c, body) ==
    /\ Here(c) # Blank /\ read[c] # Blank
    /\ ~LeasedToOther(c)
    /\ BaseHolds(c)
    /\ Here(c).stamp.counter < MaxCounter
    /\ Store(c, [stamp |-> Bumped(Here(c).stamp, c), body |-> body])

Lock(c) ==
    /\ Here(c) # Blank
    /\ ~LeasedToOther(c)
    /\ lease' = [lease EXCEPT ![DeskOf[c]] = c]
    /\ promised' = [promised EXCEPT ![DeskOf[c]] = c]
    /\ UNCHANGED <<artifact, brought, bundled, read, issued, scoped>>

LetGo(c) ==
    /\ Here(c) # Blank
    /\ lease' = [lease EXCEPT ![DeskOf[c]] = Blank]
    /\ promised' = [promised EXCEPT ![DeskOf[c]] =
            IF @ # Blank /\ ActorOf[@] = ActorOf[c] THEN Blank ELSE @]
    /\ UNCHANGED <<artifact, brought, bundled, read, issued, scoped>>

Unlock_Any(c) == LetGo(c)           \* seeded fault: anybody unlocks

Unlock(c) == ~LeasedToOther(c) /\ LetGo(c)

(* The lease's time is over.                                               *)
Expire(n) ==
    /\ lease[n] # Blank
    /\ lease' = [lease EXCEPT ![n] = Blank]
    /\ promised' = [promised EXCEPT ![n] = Blank]
    /\ UNCHANGED <<artifact, brought, bundled, read, issued, scoped>>

-----------------------------------------------------------------------------
(* Bundles.                                                                *)

Bundle(n) ==
    /\ artifact[n] # Blank
    /\ bundled' = [bundled EXCEPT ![n] = artifact[n]]
    /\ UNCHANGED <<artifact, brought, lease, promised, read, issued, scoped>>

(* pick_lww: the higher counter, and of equal ones the higher name.        *)
Before(s, t) ==
    \/ s.counter < t.counter
    \/ s.counter = t.counter /\ s.actor < t.actor

TakesIncoming_ByCounter(n, w) ==    \* seeded fault: ties keep the local one
    artifact[n] # Blank => artifact[n].stamp.counter < w.stamp.counter

TakesIncoming(n, w) == artifact[n] # Blank => Before(artifact[n].stamp, w.stamp)

(* ON CONFLICT (project_id, path) does not see a row without a project:    *)
(* the insert meets the other unique index, and the import is rolled back. *)
Upserts(n) == artifact[n] = Blank \/ scoped

Land(n, m) ==
    /\ bundled[m] # Blank
    /\ TakesIncoming(n, bundled[m])
    /\ Upserts(n)
    /\ artifact' = [artifact EXCEPT ![n] = bundled[m]]
    /\ brought' = [brought EXCEPT ![n] = TRUE]
    /\ UNCHANGED <<lease, promised, bundled, read, issued, scoped>>

-----------------------------------------------------------------------------
Use(c) ==
    \/ Get(c)
    \/ \E body \in Body : Create(c, body) \/ Put(c, body)
    \/ Lock(c)
    \/ Unlock(c)

ArtifactsNext ==
    \/ \E c \in Client : Use(c)
    \/ \E n \in Peer : Expire(n) \/ Bundle(n)
    \/ \E n, m \in Peer : Land(n, m)

ArtifactsSpec == ArtifactsInit /\ [][ArtifactsNext]_artifactsVars

(* The git hooks export after every commit and import after every merge.   *)
ArtifactsFairness ==
    \A n, m \in Peer : WF_artifactsVars(Bundle(n)) /\ WF_artifactsVars(Land(n, m))

-----------------------------------------------------------------------------
(* Properties.                                                             *)

Register == INSTANCE LwwRegister WITH Replica <- Peer, shown <- artifact

(* The nodes together are a register on which the last writer wins: no     *)
(* stamp is given twice, and no node goes back to an earlier version,      *)
(* whatever bundles arrive in whatever order.                              *)
LastWriterWins == Register!Spec

(* Nodes that keep exchanging bundles agree on a project's artifact in the *)
(* end.                                                                    *)
ArtifactsAgree == <>[](scoped => \A n, m \in Peer : artifact[n] = artifact[m])

(* "two clients cannot silently overwrite an artifact"                     *)
(* (tests/v039_artifacts_concurrency.rs): what a put replaces is what its  *)
(* client had read, unless a bundle had replaced that in the meantime.     *)
PutsReplaceWhatWasRead ==
    [][\A c \in Client :
        (\E body \in Body : Put(c, body)) => read[c] = Here(c) \/ brought[DeskOf[c]]]_artifactsVars

(* Whom a lease was given, they alone put until it runs out or they let it *)
(* go, whatever others try to put, lock and unlock.                        *)
LeasesHold ==
    [][\A n \in Peer :
        promised[n] # Blank /\ artifact'[n] # artifact[n] /\ ~brought'[n]
        => artifact'[n].stamp.actor = ActorOf[promised[n]]]_artifactsVars

-----------------------------------------------------------------------------
=============================================================================
