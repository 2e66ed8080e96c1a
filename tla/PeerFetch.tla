------------------------------ MODULE PeerFetch ------------------------------
(***************************************************************************)
(* cuba_sync action = fetch: one node taking the bundle of one peer over   *)
(* HTTP (fetch, drain_peer, pull and notify in handlers/sync.rs), with the *)
(* bell the peer rings (announce_to_peers, and sync_listener in            *)
(* protocol.rs), while git may bring such bundles to this node's hook      *)
(* (hooks_cli.rs).  The peer re-exports its whole bundle for every page,   *)
(* reading one table after another with no snapshot while others write;    *)
(* the node lands the pages in one directory, records the peer's manifest  *)
(* hash as its cursor, imports the directory, and closes the notices.      *)
(*                                                                         *)
(* The peer's memory is a version number, a file's bytes are the version   *)
(* its rows were read at, and a manifest hash is the files it is computed  *)
(* over.  A page carries as many of them, in their order, as its bytes     *)
(* allow.  What an import does with the rows is ReplicaSync's subject;     *)
(* here it lands the files it finds, is refused, or is cut off.            *)
(***************************************************************************)
EXTENDS FiniteSets, Integers

CONSTANTS
    Fetcher,        \* handlers that may be fetching this peer at one time
    Path,           \* the files of a bundle, in the order pages carry them
    MaxVersion,     \* bound on the states the peer goes through
    FilesOf,        \* FilesOf[v]: the files of the peer's bundle at v
    Committed,      \* bundles the peer's hook may export for git to carry
    Alarming,       \* versions whose tombstones trip the alarm on this node
    MaxMishaps      \* bound on failed requests, timeouts and lost locks

Version == 1..MaxVersion
Content == [Path -> {0} \cup Version]
Nothing == [p \in Path |-> 0]

ASSUME FetchAssumption ==
    /\ Path \subseteq Nat
    /\ IsFiniteSet(Path)
    /\ MaxVersion \in Nat \ {0}
    /\ FilesOf \in [Version -> SUBSET Path]
    /\ Committed \subseteq Content
    /\ Alarming \subseteq Version
    /\ MaxMishaps \in Nat

(* manifest.json and tombstones.json sort after the entity files: they are *)
(* one file here, the last.                                                *)
Tail == CHOOSE p \in Path : \A q \in Path : q <= p

ASSUME TailAssumption == \A v \in Version : Tail \in FilesOf[v]

VARIABLES
    version,    \* the peer's state; its manifest hash tells versions apart
    unsaid,     \* a write the peer's listener has yet to announce
    notices,    \* open rows of brain_peer_notices, from this peer
    cursor,     \* brain_sync_peers.last_manifest_hash, Nothing for NULL
    inbox,      \* .peer-inbox: the version each file is of, 0 where there is none
    taken,      \* brain_sync_state: the digests imported
    landed,     \* the contents whose rows were committed (history)
    dropped,    \* bundles whose import was refused or cut off (history)
    mishaps,    \* the mishaps so far
    pc, known, hash, rest, confirm, digest,     \* the locals of each fetch
    export,     \* export[f]: the bundle the peer is reading for f's page
    heard       \* heard[f]: notices open when fetch f began (history)

peer == <<version, unsaid>>
locals == <<known, hash, rest, confirm, digest, export, heard>>
vars == <<peer, notices, cursor, inbox, taken, landed, dropped, mishaps, pc, locals>>

Unread == -1
Whole(v) == [p \in Path |-> IF p \in FilesOf[v] THEN v ELSE 0]

(* A bundle an export may come to that lists the entities at state v: their*)
(* files are in it, whatever is deleted meanwhile, no file is older than   *)
(* the list, and none is newer than the tombstones, which are read last.   *)
ReadFrom(v, c) ==
    \A p \in Path : IF p \in FilesOf[v] THEN c[p] \in v..c[Tail] ELSE c[p] = 0

(* A notice may name the manifest hash it is about; the announcer's do not.*)
Notice == [about : Version, names : Content]

PC == {"idle", "asking", "unchanged", "drained", "failed", "importing",
       "writing", "committed", "answering"}

TypeOK ==
    /\ version \in Version
    /\ unsaid \in BOOLEAN
    /\ notices \subseteq Notice
    /\ cursor \in Content
    /\ inbox \in Content
    /\ taken \subseteq Content
    /\ landed \subseteq Content
    /\ dropped \subseteq Content
    /\ mishaps \in 0..MaxMishaps
    /\ pc \in [Fetcher -> PC]
    /\ known \in [Fetcher -> Content]
    /\ hash \in [Fetcher -> Content]
    /\ rest \in [Fetcher -> SUBSET Path]
    /\ confirm \in [Fetcher -> BOOLEAN]
    /\ digest \in [Fetcher -> Content]
    /\ export \in [Fetcher -> [Path -> {Unread, 0} \cup Version]]
    /\ heard \in [Fetcher -> SUBSET Notice]

Init ==
    /\ version = 1
    /\ unsaid = FALSE
    /\ notices = {}
    /\ cursor = Nothing
    /\ inbox = Nothing
    /\ taken = {}
    /\ landed = {}
    /\ dropped = {}
    /\ mishaps = 0
    /\ pc = [f \in Fetcher |-> "idle"]
    /\ known = [f \in Fetcher |-> Nothing]
    /\ hash = [f \in Fetcher |-> Nothing]
    /\ rest = [f \in Fetcher |-> {}]
    /\ confirm = [f \in Fetcher |-> FALSE]
    /\ digest = [f \in Fetcher |-> Nothing]
    /\ export = [f \in Fetcher |-> Nothing]
    /\ heard = [f \in Fetcher |-> {}]

-----------------------------------------------------------------------------
(* The peer.  Only an update of a row wakes the listener, by NOTIFY.       *)

PeerWrites(notified) ==
    /\ version < MaxVersion
    /\ version' = version + 1
    /\ unsaid' = (unsaid \/ notified)
    /\ UNCHANGED <<notices, cursor, inbox, taken, landed, dropped, mishaps, pc, locals>>

(* After ANNOUNCE_DEBOUNCE one announcement stands for the whole burst.    *)
Announce ==
    /\ unsaid
    /\ unsaid' = FALSE
    /\ notices' = notices \cup {[about |-> version, names |-> Nothing]}
    /\ UNCHANGED <<version, cursor, inbox, taken, landed, dropped, mishaps, pc, locals>>

(* The listener was deaf, or the other side unreachable: it is not retried.*)
AnnouncementLost ==
    /\ unsaid
    /\ unsaid' = FALSE
    /\ UNCHANGED <<version, notices, cursor, inbox, taken, landed, dropped, mishaps, pc, locals>>

(* The bundles an export can have come to by now.                          *)
Exported(c) == c[Tail] <= version /\ \E v \in 1..version : ReadFrom(v, c)

(* notify called by the peer's model, with the hash of what it exported.   *)
Notify(c) ==
    /\ Exported(c)
    /\ notices' = notices \cup {[about |-> version, names |-> c]}
    /\ UNCHANGED <<peer, cursor, inbox, taken, landed, dropped, mishaps, pc, locals>>

-----------------------------------------------------------------------------
(* One fetch.                                                              *)

Goto(f, label) == pc' = [pc EXCEPT ![f] = label]

(* confirm stands for anything that keeps the alarm still: confirm = true, *)
(* or deletes = "withhold".                                                *)
Start(f, confirmed) ==
    /\ pc[f] = "idle"
    /\ Goto(f, "asking")
    /\ known' = [known EXCEPT ![f] = cursor]
    /\ hash' = [hash EXCEPT ![f] = Nothing]
    /\ rest' = [rest EXCEPT ![f] = {}]
    /\ confirm' = [confirm EXCEPT ![f] = confirmed]
    /\ digest' = [digest EXCEPT ![f] = Nothing]
    /\ heard' = [heard EXCEPT ![f] = notices]
    /\ UNCHANGED <<peer, notices, cursor, inbox, taken, landed, dropped, mishaps, export>>

(* The peer's export for one page: under the sync lock, which keeps out    *)
(* other exports and imports but no writer, it lists the entities and then *)
(* reads the rows of one file after another, those of tombstones.json last.*)
ToRead(f) == {p \in Path : export[f][p] = Unread}

PeerLists(f) ==
    /\ pc[f] = "asking" /\ export[f] = Nothing
    /\ \A g \in Fetcher : ToRead(g) = {}
    /\ export' = [export EXCEPT ![f] =
                      [p \in Path |-> IF p \in FilesOf[version] THEN Unread ELSE 0]]
    /\ UNCHANGED <<peer, notices, cursor, inbox, taken, landed, dropped, mishaps, pc,
                   known, hash, rest, confirm, digest, heard>>

PeerReads(f, p) ==
    /\ p \in ToRead(f)
    /\ p = Tail => ToRead(f) = {Tail}
    /\ export' = [export EXCEPT ![f][p] = version]
    /\ UNCHANGED <<peer, notices, cursor, inbox, taken, landed, dropped, mishaps, pc,
                   known, hash, rest, confirm, digest, heard>>

(* The page is there: the node reads it and the peer drops its staging.    *)
Answered(f) ==
    /\ pc[f] = "asking"
    /\ export[f] # Nothing
    /\ ToRead(f) = {}

Consumed(f) == export' = [export EXCEPT ![f] = Nothing]

Unchanged(f) ==
    /\ Answered(f) /\ hash[f] = Nothing
    /\ known[f] = export[f]
    /\ hash' = [hash EXCEPT ![f] = export[f]]
    /\ Consumed(f)
    /\ Goto(f, "unchanged")
    /\ UNCHANGED <<peer, notices, cursor, inbox, taken, landed, dropped, mishaps,
                   known, rest, confirm, digest, heard>>

(* A page that carries these files of the bundle the peer exported for it; *)
(* files are what had landed before, coming the files not landed yet.      *)
Pages(coming) ==
    {page \in SUBSET coming \ {{}} : \A p \in page, q \in coming \ page : p < q}

Land(f, page, files, coming) ==
    /\ inbox' = [p \in Path |-> IF p \in page THEN export[f][p] ELSE files[p]]
    /\ hash' = [hash EXCEPT ![f] = export[f]]
    /\ rest' = [rest EXCEPT ![f] = coming \ page]
    /\ Consumed(f)
    /\ Goto(f, IF page = coming THEN "drained" ELSE "asking")
    /\ UNCHANGED <<peer, notices, cursor, taken, landed, dropped, mishaps,
                   known, confirm, digest, heard>>

FilesIn(c) == {p \in Path : c[p] # 0}

Cleared_Kept(files) == files        \* seeded fault: the inbox is not emptied

Cleared(files) == Nothing

FirstPage(f) ==
    /\ Answered(f) /\ hash[f] = Nothing
    /\ known[f] # export[f]
    /\ \E page \in Pages(FilesIn(export[f])) :
          Land(f, page, Cleared(inbox), FilesIn(export[f]))

SameState_Assumed(f) == TRUE        \* seeded fault: page hashes not compared

SameState(f) == hash[f] = export[f]

NextPage(f) ==
    /\ Answered(f) /\ hash[f] # Nothing
    /\ SameState(f)
    /\ \E page \in Pages(rest[f]) : Land(f, page, inbox, rest[f])

(* The peer was written to in between: the pages are of two exports.       *)
PeerChanged(f) ==
    /\ Answered(f) /\ hash[f] # Nothing
    /\ ~SameState(f)
    /\ inbox' = Cleared(inbox)
    /\ Consumed(f)
    /\ Goto(f, "failed")
    /\ UNCHANGED <<peer, notices, cursor, taken, landed, dropped, mishaps,
                   known, hash, rest, confirm, digest, heard>>

(* What the peer handed over is recorded before it is imported.  A failed  *)
(* drain leaves the cursor it found.                                       *)
Handed_Failed(f) ==                 \* seeded fault: a failed drain is recorded
    IF hash[f] # Nothing THEN hash[f] ELSE cursor

Handed(f) == IF pc[f] = "failed" THEN cursor ELSE hash[f]

Record_Answers(f) ==                \* seeded fault: "unchanged" answers the bell
    /\ pc[f] \in {"unchanged", "drained", "failed"}
    /\ cursor' = Handed(f)
    /\ notices' = IF pc[f] = "unchanged" THEN {} ELSE notices
    /\ Goto(f, IF pc[f] = "drained" THEN "importing" ELSE "idle")
    /\ UNCHANGED <<peer, inbox, taken, landed, dropped, mishaps, locals>>

Record(f) ==
    /\ pc[f] \in {"unchanged", "drained", "failed"}
    /\ cursor' = Handed(f)
    /\ Goto(f, IF pc[f] = "drained" THEN "importing" ELSE "idle")
    /\ UNCHANGED <<peer, notices, inbox, taken, landed, dropped, mishaps, locals>>

Alarmed(f) == ~confirm[f] /\ inbox[Tail] \in Alarming

(* take_sync_lock: one import writes at a time.                            *)
LockFree == \A g \in Fetcher : pc[g] # "writing"

(* No manifest, or the alarm: the import fails and the inbox goes.         *)
ImportRefused(f) ==
    /\ pc[f] = "importing"
    /\ inbox[Tail] = 0 \/ (LockFree /\ Alarmed(f))
    /\ inbox' = Nothing
    /\ dropped' = dropped \cup {hash[f]}
    /\ Goto(f, "idle")
    /\ UNCHANGED <<peer, notices, cursor, taken, landed, mishaps, locals>>

(* The digest is of the files on disk, whatever the manifest claims; one   *)
(* already taken is not imported again.                                    *)
Importable(f) ==
    /\ pc[f] = "importing"
    /\ LockFree
    /\ inbox[Tail] # 0
    /\ ~Alarmed(f)

ImportSkipped(f) ==
    /\ Importable(f)
    /\ inbox \in taken
    /\ inbox' = Nothing
    /\ Goto(f, "answering")
    /\ UNCHANGED <<peer, notices, cursor, taken, landed, dropped, mishaps, locals>>

ImportBegins_Recorded(f) ==         \* seeded fault: recorded before the commit
    /\ Importable(f)
    /\ inbox \notin taken
    /\ digest' = [digest EXCEPT ![f] = inbox]
    /\ taken' = taken \cup {inbox}
    /\ Goto(f, "writing")
    /\ UNCHANGED <<peer, notices, cursor, inbox, landed, dropped, mishaps,
                   known, hash, rest, confirm, export, heard>>

ImportBegins(f) ==
    /\ Importable(f)
    /\ inbox \notin taken
    /\ digest' = [digest EXCEPT ![f] = inbox]
    /\ Goto(f, "writing")
    /\ UNCHANGED <<peer, notices, cursor, inbox, taken, landed, dropped, mishaps,
                   known, hash, rest, confirm, export, heard>>

(* The rows are read from the files after the digest was.  A bundle some of*)
(* whose deletions were withheld is committed and not recorded.            *)
ImportCommits(f, withheld) ==
    /\ pc[f] = "writing"
    /\ landed' = landed \cup {inbox}
    /\ taken' = IF withheld THEN taken ELSE taken \cup {digest[f]}
    /\ Goto(f, "committed")
    /\ UNCHANGED <<peer, notices, cursor, inbox, dropped, mishaps, locals>>

(* Notices that name the digest close, and the inbox goes.                 *)
Tidy(f) ==
    /\ pc[f] = "committed"
    /\ notices' = {x \in notices : x.names # digest[f]}
    /\ inbox' = Nothing
    /\ Goto(f, "answering")
    /\ UNCHANGED <<peer, cursor, taken, landed, dropped, mishaps, locals>>

(* Every notice of this peer is answered.                                  *)
Close(f) ==
    /\ pc[f] = "answering"
    /\ notices' = {}
    /\ Goto(f, "idle")
    /\ UNCHANGED <<peer, cursor, inbox, taken, landed, dropped, mishaps, locals>>

(* Bundles come by git too: the peer's hook exports one, and this node's   *)
(* hook imports it, with confirm unset.                                    *)
GitBrings(c, withheld) ==
    /\ Exported(c)
    /\ LockFree
    /\ c[Tail] \notin Alarming
    /\ c \notin taken
    /\ landed' = landed \cup {c}
    /\ taken' = IF withheld THEN taken ELSE taken \cup {c}
    /\ notices' = {x \in notices : x.names # c}
    /\ UNCHANGED <<peer, cursor, inbox, dropped, mishaps, pc, locals>>

-----------------------------------------------------------------------------
(* Mishaps.                                                                *)

Mishap == mishaps < MaxMishaps /\ mishaps' = mishaps + 1

(* A page the peer did not answer, or answered with something else.        *)
RequestFails(f) ==
    /\ pc[f] = "asking"
    /\ Mishap
    /\ Consumed(f)
    /\ Goto(f, "failed")
    /\ UNCHANGED <<peer, notices, cursor, inbox, taken, landed, dropped,
                   known, hash, rest, confirm, digest, heard>>

(* Another sync held the lock for too long, or the database said no.       *)
ImportFails(f) ==
    /\ pc[f] \in {"importing", "writing"}
    /\ Mishap
    /\ inbox' = Nothing
    /\ dropped' = dropped \cup {hash[f]}
    /\ Goto(f, "idle")
    /\ UNCHANGED <<peer, notices, cursor, taken, landed, locals>>

(* The handler's 30 seconds ran out, its client cancelled it or the process*)
(* died: it stops where it was, and an open transaction rolls back.        *)
Cut(f) ==
    /\ pc[f] # "idle"
    /\ Mishap
    /\ dropped' = IF pc[f] \in {"importing", "writing"}
                  THEN dropped \cup {hash[f]} ELSE dropped
    /\ Consumed(f)
    /\ Goto(f, "idle")
    /\ UNCHANGED <<peer, notices, cursor, inbox, taken, landed,
                   known, hash, rest, confirm, digest, heard>>

-----------------------------------------------------------------------------
Advance(f) ==
    \/ PeerLists(f)
    \/ \E p \in Path : PeerReads(f, p)
    \/ Unchanged(f)
    \/ FirstPage(f)
    \/ NextPage(f)
    \/ PeerChanged(f)
    \/ Record(f)
    \/ ImportRefused(f)
    \/ ImportSkipped(f)
    \/ ImportBegins(f)
    \/ \E withheld \in BOOLEAN : ImportCommits(f, withheld)
    \/ Tidy(f)
    \/ Close(f)

Next ==
    \/ \E notified \in BOOLEAN : PeerWrites(notified)
    \/ Announce
    \/ AnnouncementLost
    \/ \E c \in Committed :
        \/ Notify(c)
        \/ \E withheld \in BOOLEAN : GitBrings(c, withheld)
    \/ \E f \in Fetcher :
        \/ \E confirmed \in BOOLEAN : Start(f, confirmed)
        \/ Advance(f)
        \/ RequestFails(f)
        \/ ImportFails(f)
        \/ Cut(f)

Spec == Init /\ [][Next]_vars

(* "The periodic fetch stays" (migration 0054): a node keeps fetching, and *)
(* a handler that is not cut off runs on.                                  *)
Fetches(f) == (\E confirmed \in BOOLEAN : Start(f, confirmed)) \/ Advance(f)

FairSpec == Spec /\ \A f \in Fetcher : WF_vars(Fetches(f))

-----------------------------------------------------------------------------
(* Properties.                                                             *)

(* drain_peer: what a committed import read is one export of the peer, all *)
(* its files and none left over from an earlier fetch: never pages of two  *)
(* exports, and no file of it newer than the deletions it carries.  It need*)
(* not be one state of the peer, which is written to while it exports.     *)
NothingTornLands ==
    /\ \A f \in Fetcher : pc[f] = "writing" => inbox = hash[f]
    /\ \A c \in landed : \E v \in Version : ReadFrom(v, c)

(* A digest is recorded for the files the rows were read from.             *)
TakenHasLanded == taken \subseteq landed

(* The bell: when a fetch answers notices, what each notice it found open  *)
(* was about has arrived, in files none of which is older.                 *)
HeardBellsAreAnswered ==
    [][\A x \in notices \ notices' :
        (\E f \in Fetcher : x \in heard[f] /\ pc'[f] # pc[f]) =>
            \E c \in landed, v \in x.about..MaxVersion : ReadFrom(v, c)]_vars

(* A peer that has gone quiet is taken in its last state, whole, through   *)
(* whatever mixed exports, failed requests and timeouts came before -      *)
(* unless the import of that very state was refused or cut off.            *)
QuietPeerIsTaken == <>[](Whole(version) \in landed \cup dropped)

-----------------------------------------------------------------------------
(* What the code says of itself and does not do.                           *)

(* fetch: "the peer is offering the same bundle this node already took".   *)
UnchangedMeansTaken ==
    \A f \in Fetcher : pc[f] = "unchanged" => hash[f] \in landed
=============================================================================
