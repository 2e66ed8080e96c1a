# A specification of Memorys

Memorys (`src/rust`, crate `memory-industry`) is a memory for language models kept in PostgreSQL. A
model calls its tools over stdio or HTTP; nodes exchange their memories as bundles of files; a host
admits the devices of other people by accounts and pairing codes. This directory models the parts of it
in which several actors, several nodes or several requests meet, checks them with TLC on small
instances, and proves with TLAPS what matters most for every size.

    tlc -config Sync.cfg MCReplicaSync.tla           one run
    tlapm PairingProofs.tla                          the proofs of one component

All paths below are relative to `src/rust/src` unless they begin with `src/`.

## 1. Inventory

**Replica sync** (`handlers/sync.rs`, migrations 0045-0054). State: the rows of PostgreSQL that travel
(projects, entities, observations, episodes, relations, facts, errors, procedures), `brain_tombstones`
filled by a trigger, `brain_sync_state` (digests imported), `brain_sync_peers` (a cursor for each peer),
`brain_peer_notices`, `brain_sync_conflicts`, and two directories: the bundle a node publishes and
`.peer-inbox`. Operations: `export`, `import`, `fetch`, `pull`, `notify`, `resolve`, `conflicts`; the git
hooks (`hooks_cli.rs`) export after a commit and import after a checkout, a merge or a rebase. Nodes
interact by bundles, which may be old, repeated or from a third node, and by HTTP pages. Hard: identities
are rewritten by name on the way in; deletions must travel and cascades must not; an import that is
refused half-way must lose nothing and remember nothing; pages, timeouts and retries. Correct when the
database stays consistent, no row goes that nobody named, every row that goes leaves a tombstone, a
digest is recorded only for what was applied, and nodes that keep exchanging agree.

**Accounts and pairing** (`accounts_db.rs`, `accounts_cli.rs`, `http.rs`, `bridge/pair.rs`, migration
0065). State: accounts, credentials, pairing codes, the count of failures of each address, the state file
of a device. Operations: `add`, `pair` (issue a code), `revoke`, `revoke-device`, `POST /pair`, admission
by a bearer; the client's `offer`. Operator, host and clients interact through rows and their locks. Hard:
two statements that race for one row, a claim and a revocation that deadlock, answers that are lost.
Correct when a code makes one credential, a revoked account admits nobody whatever was under way, a device
never stores a credential whose secret the host does not know, and the brake bounds guessing.

**Writers of memories** (`handlers/alma.rs`, `cronica.rs`, `puente.rs`, `receta.rs`, `forget.rs`,
`decreto.rs`, `ingesta.rs`, ...). One transaction each; they create and delete the rows above. Correct
when they keep references, unique names and the trigger's record.

**Conflicts and versions** (`handlers/eco.rs`, `resolve` in `sync.rs`, migrations 0047, 0048, 0052). State:
an observation's text, version and up to twenty previous texts; at most one open conflict of an
observation. Hard: a correction, an import and a resolution of one row in any order. Correct when no text
disappears that the history has room for.

**Artifacts** (`handlers/artefacto.rs`, `crdt.rs`, migrations 0061, 0062). State: body, version, Lamport
counter and actor, lock. Correct when the nodes pick the same winner in whatever order versions arrive.

**Git hooks and merge driver** (`hooks_cli.rs`). State: the commits of each branch, the bundle in the work
tree. The post-commit hook exports over the bundle; git merges file by file, with `hook merge-driver` for
files both sides changed; the post-merge hook imports what the merge left and ignores how that ended. Hard:
a file one side removed and the other changed, an import that is refused after the merge is made, an export
that follows. Correct when no row of either side is dropped.

**Projects** (`handlers/proyecto.rs`, `project.rs`, migrations 0010, 0017, 0063, 0064). State: the projects
and the project of every row; policies of row-level security hide rows of other projects. Operations:
switch, rename, merge, backfill. Hard: a merge beside a session or a write in the project that
goes; rows the merging connection does not see. Correct when no memory ends outside the scope it had.

**Audit chain** (`handlers/archivo.rs`, migrations 0016, 0040). State: the rows, each hashed with the one
before, by a key or without one. Operations: `append` (an advisory lock inside a SERIALIZABLE transaction,
so the snapshot may be older than the lock; retried), `verify`. Correct when the chain has no fork, a
caller is answered only for a row that is there, and one that gives up wrote nothing.

**Sessions and clients** (`session.rs`, `handlers/jornada.rs`, `whoami.rs`, `http.rs`). State: the active
session and the remembered root of each client key, sessions in the database, when each client was last
seen. Operations: start, end, switch, binding of a call to its client, the reaper of idle clients. Hard:
calls of one client in parallel, a call dropped at its deadline between a commit and what follows it, a
client forgotten while it works. Correct when no client works in another's session.

**stdio protocol and background cycles** (`protocol.rs`, `tasks.rs`, `main.rs`). Requests, cancellation,
a timeout that drops a handler where it stands, the sync listener, the REM cycle under a session lock.

**HTTP daemon and panel** (`http.rs`, `dashboard.rs`, `events.rs`). State: the listener on loopback and the
one on the LAN address, what is announced, requests in flight. Operations: follow the address of the
machine, serve calls and event streams, stop on a signal or when idle; also warm-up, tickets and the panel.
Hard: an address that is gone before it is bound, a shutdown during the change, streams that never end.
Correct when it serves the address the machine keeps, and a stop comes to an end.

**Bridge** (`bridge/`, `beacon.rs`). State: the state file of the pairing, the verified address, the failure
that cools, one search under the core's mutex, the requests that wait, what the person was told. Operations:
route a request, search stored and found addresses, retry once, doubt an address, `reconnect`, the
supervisor's look and its notices. Hard: many requests that meet a dead host at once, a search that ends
with an older credential than the file's, a client that leaves while its search holds the mutex. Correct
when nothing is delivered twice, a burst costs one search, a refused credential rests, every request ends
and the person reads the truth.

**Service and installation** (`service.rs`, `service_apply.rs`, `setup*.rs`, `tunnel_cli.rs`,
`secure_cli.rs`, `bridge/install.rs`, `doctor.rs`). Effects on the operating system, in an order that a
failure may cut.

**Search, graph, cognition, embeddings, evaluation, redaction** (`search/`, `graph/`, `cognitive/`,
`embeddings/`, `eval/`, `redact.rs`, `codegraph/`). Read-only ranking, numeric updates in one transaction,
inference, text. Left out: their correctness is numeric or textual, not a matter of order.

`PROJECT.json` has the same list by file, with what is modelled of each, and the hazards line by line.

## 2. Modules

| module | models | state and actions |
|---|---|---|
| `MemoryStore` | migrations 0001, 0010, 0064 | what a database of rows and references is: cascades (`Without`), foreign keys and unique keys |
| `ReplicaSync` | `export`, `import`, `apply_tombstones`, `validate_bundle`, the tombstone trigger, the writers that create and delete rows | `db`, `tombs`, `bundle`, `imported`, and `seen`, a history |
| `Branches` | `hooks_cli.rs`: the hooks and the merge driver | extends `ReplicaSync` by `base`, `commits`, `hooked`; `merged`, `excused`, `refused`, histories; `Commit`, `GitMerge`, `HookImports` |
| `PeerFetch` | `fetch`, `drain_peer`, `pull`, `notify`, `announce_to_peers`, the listener, the handler's timeout, the git hook's import | the peer's version and the bundle it is reading, notices, cursor, inbox, `brain_sync_state`, a program counter and the locals of each fetch |
| `Texts` | `correct`, `promote`, `quarantine` in `eco.rs`, `resolve`, the import's treatment of a text | a row, an open conflict, an offered bundle for each node; `written` and `lost`, histories |
| `LwwRegister` | (abstract) a register on which the last writer wins | `Issue`, `TakeOver` |
| `Artifacts` | `artefacto.rs`, `crdt.rs`, artifacts in bundles | the row and its lease on each node, what each client read; `issued`, `promised`, `brought`, histories |
| `AuditLog` | (abstract) a log that only grows | `Enter` |
| `AuditChain` | `append` and `verify` in `archivo.rs` | the chain, the key in the process of each call, the stage, snapshot and attempts of each call; `parted`, a history |
| `Bridge` | `bridge/mod.rs`, `proxy.rs`, `discovery.rs`, `supervisor.rs`, `state.rs` | the host, the state file, the core, a search, the requests, the supervisor; `warned`, `burst`, histories |
| `Daemon` | `follow`, `Served`, `Closing`, `shutdown_signal`, `shutdown_when_idle` in `http.rs` | the address of the machine, the loop, what listens and is announced, requests in flight |
| `Pairing` | `accounts_db.rs`, `POST /pair`, `settle_brake`, `admit`, `offer` | accounts, codes, credentials, the devices, the brake, a program counter for each request, the stage of each revocation |
| `Workspaces` | `session.rs`, `jornada.rs`, `proyecto.rs`, `project.rs`, the reaper | projects, sessions, the binding of each client key, roots, the projects of memories, the pending call of each caller |

`MCReplicaSync`, `MCPeerFetch`, `MCDesk`, `MCLan` and `MCClients` are the instances. `MCDesk` holds the
modules of what a node keeps (`Texts`, `Artifacts`, `AuditChain`), `MCLan` those of how a client reaches its
host (`Bridge`, `Daemon`), `MCClients` those of what the host knows of its clients (`Pairing`, `Workspaces`).
The proofs are in `ReplicaSyncProofs`, `BranchesProofs` (with `MCReplicaSync`), `PeerFetchProofs`,
`PairingProofs`, `WorkspacesProofs`, `ClientsProofs` (`MCClients`), `DeskProofs` (`Texts`, `Artifacts`,
`AuditChain`, `MCDesk`) and `LanProofs` (`Bridge`, `Daemon`, `MCLan`).

How they correspond to the code, and what each leaves out:

* **ReplicaSync.** A row is an identity with the entities it hangs off; its text is left out. One writer's
  transaction is one step. An import is one transaction under the sync lock and is one step with the ends
  it can have: alarmed, skipped, rejected by a constraint, committed. `deletes` and `confirm` are its
  arguments. The order inside is the code's: tombstones of other tables, then the entities nobody's rows
  are left on, then the digest, then rows by table with ends resolved by name. `ByName` is a choice,
  because the query returns one row of several with no ORDER BY. A bundle is a value: an export replaces
  it, and one whose bytes are those on disk is not written again (`OnDisk`). `Reinforced` says whether use
  alone, which moves importance and access counts and nothing the model has, makes an export differ.
  Only bundles of scope = all, `conflict=merge` and `skip`.
* **Branches.** One file holds what the code puts into one file: an entity with its observations, an episode,
  an error, or a whole table of the others. git's three-way merge (`Merge3`) is by file against `base`, the
  driver's inside a file both sides changed; a file that one side removed and the other changed stops the
  merge (`Stopped`), and a person keeps or drops it. The relations' file is of pairs, a relation and what it
  relates (`Lines`): `merge_relations` takes both sides' rows and keeps one of a triple, the stronger, which
  the model, having no strengths, leaves open (`Relations`). An observation hangs off the entity whose file
  holds it. The hook that exports after a commit is part of `Commit`; the import after a merge is a step of
  its own, with the import's ends (`HookLands`, `HookFails`), and the next commit may only follow it. A merged
  tree may hold what no export does, two entities of one name and project: the import inserts both and the
  unique key takes it down (`NamesClash`). `merged` is what the last merge owes, `excused` what merges may
  leave out (a tombstone is about it, or git stopped on its file), `refused` what an import of a hook that
  failed was about.
* **PeerFetch.** The peer is a version number; a page carries the next files, at least one (`Pages`); a file's
  bytes are the version its rows were read at, and a manifest hash is the files it is computed over. The peer
  exports its whole bundle for every page, and `export_into` has no snapshot: it lists the entities
  (`PeerLists`) and then reads one file's rows after another (`PeerReads`), tombstones last, while writers go
  on, whom the sync lock does not keep out. So one hash may be of files of several versions (`ReadFrom`), and
  the bundles git carries may be such too (`Committed`). The inbox is a map from files to versions, so a torn
  bundle is visible. `await` points are steps. What an import does with the rows is ReplicaSync's; here it
  lands, is refused, fails, is cut, or is skipped because git brought the same bundle first (`GitBrings`,
  under the same `take_sync_lock`).
* **Texts.** A text is a value, used once. A row is its text, version and history of at most `Cap` texts.
  `Merge` notes or refreshes the one open conflict, `Overwrite` replaces, and the three resolutions do what
  the code does with the local text the conflict was noted with, which may no longer be the row's.
* **Artifacts.** `version` and `crdt_counter` are one number, because every statement sets both. Row locks
  make a put and a lock a step; a patch is a read and a later put. `scoped` says whether the artifact has a
  project: the import's ON CONFLICT (project_id, path) does not see one that has none.
* **AuditChain.** The snapshot of a SERIALIZABLE transaction is taken at its first statement, the advisory
  lock comes after it, so a call that waited holds a stale snapshot and is refused. `Cut` drops a call at
  any await. A hash is the call that made it, with the key of that moment (`made`): `audit_key` reads the
  environment and then a file of its process for every hash, so each call has the key of its process, and
  `Seal` sets, changes or takes away any of them at any time. `parted` is whether keys were ever different or
  replaced since one was there.
* **Bridge.** The core's mutex is held over a search and otherwise between two awaits only, so everything
  else is a step. A search asks one address at a time, stored ones before found ones. Clocks are what has
  run out: `Age` (the verified address), `Cool` (the failure), `BecomesOverdue` (ninety seconds).
* **Daemon.** One turn of `follow` is its steps: look, bind, swap, publish, close. A bind may fail. A shutdown
  is heard by the nap at the end of a turn.
* **Pairing.** A step is a statement up to the row lock it waits for. READ COMMITTED is modelled as the
  code relies on it: `Begin` judges the snapshot, `TakeRow` judges the code's row again once it is free.
  The account's row is locked FOR UPDATE by a revocation and FOR KEY SHARE by the foreign key of a new
  credential; a cycle is broken by aborting either side. An offer's number stands for its secret and for
  the credential made for it. `Resends` lets a client send the very same offer again, which the host's
  replay branch is for. One device is one address. `told` are the codes an operator saw and passed on.
* **Workspaces.** A call is its statements up to the next await: `cuba_jornada start` asks, reads the session
  it replaces inside its transaction (`StartReads`), commits and sets; `Cut` may fall between any two of them,
  after a commit too. The reaper looks, removes what it saw from `seen` (`ReapRemoves`), and forgets each
  key's sessions (`ReapForgets`) and root (`ReapUproots`), every one of these under a lock of its own. `Key`
  is the key a call is bound under (without the machine), `SeenKey` the one the reaper goes by (with it).
  `walled` says whether row-level security applies to the role; `Carried` are the rows of the tables a project
  merge moves, `Filled` those a backfill does.

## 3. Runs

A passing run checks its properties over every reachable state; each property has a seeded fault of the
code (the operators named `..._Something` beside the ones they replace, listed in `PROJECT.json`) that
makes it fail.

| run | distinct states | what happens in it |
|---|---|---|
| `Sync` | 226,472 | two nodes that write, export, import, commit, merge and exchange |
| `Desk` | 440,241 | the texts of an observation, an artifact, the audit chain |
| `Fetch` | 795,273 | one fetch at a time from a peer that is written to while it exports, with two mishaps, beside git |
| `Lan` | 106,933 | a bridge whose host moves; a daemon whose machine moves |
| `Clients` | 438,848 | two devices with one code and a revocation; callers, sessions and projects |
| `SyncUndone` | violated | `DeletedRowsStayDeleted` |
| `SyncArrive` | violated | `MissingRowsArrive` |
| `MergeDropped` | violated | `MergesReachTheDatabase` |
| `Resolved` | violated | `ResolvingDiscardsNothing` |
| `FetchAgain` | violated | `UnchangedMeansTaken` |
| `MachinesApart` | violated | `MachinesAreApart` |
| `MergedScope` | violated | `MergesKeepScope` |

What the properties say (`TypeOK`, `DeskTypeOK`, `LanTypeOK` and `ClientsTypeOK` are the type invariants):

* `Sync`. `EveryLossIsBuried`: whatever way a row went, a handler, a cascade or somebody else's tombstone,
  this node holds a tombstone for it; a peer follows only what has one. `UnnamedMemoriesSurvive`: an import
  takes no observation and no episode its bundle does not name, although it deletes entities and entities
  cascade. `WithholdingOnlyAdds`: with `deletes=withhold` an import only adds. `StoresConsistent`,
  `RecordedMeansApplied`: rewriting identities by name never breaks a key, and a digest that is remembered
  stands for a bundle whose deletions were applied and whose entities are here. `UnconfirmedLossIsBounded`:
  what an unconfirmed import can take is below the alarm's floor or its ratio. `LandedMergesKeepBothSides`:
  once the hook has imported a merge, this node has, or has since deleted, every row either branch had,
  except for rows a tombstone is about, those git stopped on, and those of an earlier merge whose import was
  refused. `ExchangeConverges` (liveness): two nodes that go on exchanging agree, for good.
* `Desk`. `OwnTextsSurvive`: what the users of a node wrote is its text or in its history, except for what the
  cap let go and a stale `keep=theirs` displaced. `FollowerCatchesUp` (liveness): a follower that keeps the
  other's text shows it in the end. `LastWriterWins`: the nodes implement `LwwRegister`. `ArtifactsAgree`
  (liveness): nodes that exchange bundles agree on a project's artifact. `PutsReplaceWhatWasRead`: a put
  replaces what its client read, unless a bundle had replaced that. `LeasesHold`: whom a lease was given, they
  alone put until it ends. `ChainIsALog`: the chain implements `AuditLog`. `ChainVerifies`: `verify` finds
  every prefix linked; and, unless processes ever had different keys, in every process it finds rows of that
  key and plain ones before them only. `AnswersTellTheTruth`: a call answered has its row, one that gave up
  has none. `RefusalsArePaidFor`: each refusal of a call is matched by somebody else's row, so fewer than
  `MAX_RETRIES` at a time never fail one another. `AppendsEnd` (liveness): no append waits for ever.
* `Fetch`. `NothingTornLands`: an import reads one export of the peer, all its files and no page of another,
  none of them older than its list of entities or newer than its tombstones. It need not be one state of the
  peer: the comment in `drain_peer` (`handlers/sync.rs:1260`) takes pages with one hash to "belong to one
  state", and an export that a write came into the middle of has one hash too; `StatesLandWhole` (section 5)
  says when it is right. `TakenHasLanded`: a recorded digest has its rows. `HeardBellsAreAnswered`: a notice
  closed by the fetch that found it has been answered by files none of which is older. `QuietPeerIsTaken`
  (liveness): a peer that goes quiet is taken in its last state, whole, whatever mixed exports came before,
  unless the import of that very state was refused or cut.
* `Lan`. `DeliveredOnce`: no request reaches the host twice, wherever the host moves and whoever retries.
  `BurstCostsOneSearch`: until the cooldown is over one failed search is all that requests cost.
  `RefusedCredentialsRest`: once a 401 is taken in nothing is sent anew with that credential. `RequestsEnd`,
  `NoticesTellTheTruth` (liveness): every request ends; once host, file and credential rest, the bridge
  has the host, or the person was told last that it has not. `FollowsTheAddress`, `StopsOnceFree`
  (liveness): an address the machine keeps is served and announced; a daemon asked to stop does, once its
  subscribers have left.
* `Clients`. `CodesWorkOnce`: one code makes one credential. `RevokedAccountsAreClosed`: a revoked account
  has no live credential, whatever claim was under way. `SavedSecretsAreKnown`: a device stores a
  credential only with the secret whose hash the host has. `BrakeHolds`: an address fails as often as the
  limit says and once more for each request being served. `RevocationPrevails` (liveness): a revocation that
  was asked for ends in a revoked account. `SessionsStayApart`: two clients, or two chats of one client,
  never work in each other's session, however calls overlap, are cut and are forgotten.

**Scenes.** The modules of one run share no state, or only meet in a few rows; a behaviour therefore plays one
scene (`scene`, `subject`), chosen at the beginning, and the rest of the state stays as it was. A scene names
the rows, callers and devices that take part, so that every kind of row and call is met without the
product of all of them:

* `Sync`: an entity with an episode and a relation, then with an episode and a fact; two relations of one
  link between entities of one name in two bundles; three observations against the alarm; a stale bundle; an
  error; two projects of one name; the exchange; five scenes on branches, {entity, two observations},
  {entity, observation, relation}, {entity, two relations of one link}, {two entities, an episode}, {two
  entities of one name, an observation}.
* `Desk`: texts of two nodes that both write; a follower; an artifact shared by two nodes and a
  project; an artifact of one node's clients, which gets further; three appends.
* `Lan`: a burst of two requests beside the watcher; a host that wanders to where another installation
  answers; a device that is paired again, with `bridge reconnect`; reconnect beside the supervisor; the
  daemon.
* `Clients`: two devices that race for a code; one that offers it again and calls; two chats with two calls
  at a time and the reaper; projects, roots and two machines; two calls at a time on one project.

**Bounds.** Two nodes are the least in which a bundle is foreign, two entities the least in which one name
has two identities, and one entity with two kinds of children the least a cascade can surprise; identities
are never used twice (`gen_random_uuid`), so finite sets of rows and `MaxExports` end every behaviour but
those of the exchange. Bundles are one or two for each node and four in the exchange, so that one is older
than a deletion and a later one carries it. `AlarmFloor = 2` and `AlarmInverse = 2` stand for 25 and 10 and
make both sides of both tests happen with three observations. On branches one node commits twice and one
once: enough for a merge, the export over it and a merge back. `Desk`: a history of `Cap = 2` against three
texts makes it overflow, `MaxImports = 2` and `MaxVersion = 3` let a bundle be stale; `MaxCounter = 3` (2
where two nodes share) is one put beyond a tie; `MaxRetries = 1` against three calls lets one give up.
`Fetch`: two versions, of which the second lacks a file of the first, let an old file, a new one and a
missing one meet in the inbox; of three files one, two or all make a page, and an export can be written to
after any of them; git carries one mixed bundle that a fetch can come to as well, and two mishaps fall at any
points of any fetches. `Lan`: two requests
make a burst, one move and one mishap fall anywhere, two credentials are an old and a new one; `Daemon`
has two addresses and two visitors and no bound. `Clients`: two requests are the least that race, a limit
of one failure the least the brake counts, and one account suffices since a lock is on one account;
`MaxOffers`, `MaxActive`, `MaxSessions` and `MaxProjects` are 2. What is proved (section 5) holds without
any of these bounds.

**Deadlock.** `Fetch` and `FetchAgain` check it. The other configurations say `CHECK_DEADLOCK FALSE`: once the
rows, exports, texts, codes or calls of a scene are used up nothing is left to do, and a daemon that is down
stays so. That nobody waits for ever on somebody else is what `AppendsEnd`, `RequestsEnd`, `StopsOnceFree`
and `RevocationPrevails` check.

**Fairness.**

* `ExchangeFairness`: weak fairness of exporting and of an import, with default arguments, that can be
  committed, since the hooks run after every commit and every checkout, merge or rebase and a node that
  fetches does so again. The import's is written out (`Receivable`), as []<> of not enabled or of taken.
* `PeerFetch!FairSpec`: weak fairness of starting and advancing a fetch, "the periodic fetch stays" of
  migration 0054; none of announcements, which may be lost, and none of the failures.
* `Following`: a follower's bundles keep being made and taken, and its operator goes on closing conflicts.
  `ArtifactsFairness`: bundles keep being made and landed. `AuditFairness`: a call that has begun runs on
  unless it is cut, and PostgreSQL hands its lock to those that wait.
* `BridgeFairness`: tasks run on and time passes; a request's steps and the watcher's are strongly fair,
  because tokio's mutex is first come, first served, and whoever waits for it gets it. `DaemonFairness`: the
  loop runs, a bind that is tried again and again succeeds, a nap hears of a shutdown, a call is answered by
  its deadline; nobody promises that a subscriber leaves.
* `PairingFairness`: a request is served and a revocation goes through its own steps; PostgreSQL breaks a
  deadlock it finds (at either side), and an operator who reads that a revocation failed runs it again
  (`RevokeAborts` goes back to "asked"). Neither client nor operator is obliged to begin anything.

## 4. Where the code and its documents differ

Seven runs expect a violation; each finds what the code does against what it says (quoted in
`PROJECT.json`, "findings"):

* `SyncUndone`: a bundle older than a deletion brings the row back, because an import knows the bundle's
  tombstones and never its own. `ExchangeConverges` holds all the same: the next exchange of new bundles
  buries the row again.
* `SyncArrive`: two nodes that named a project alike before they met reject each other's bundles whole.
* `MergeDropped`: an import that the alarm (or a constraint) refuses after a clean merge is ignored by the
  hook, and the next commit exports the database over the merged bundle: the other side's rows are dropped.
  From then on git takes them for rows this branch removed, so the next merge does not bring them back: that
  is why `LandedMergesKeepBothSides` sets the rows in `refused` apart.
* `Resolved`: `keep=theirs` puts the local text of when the conflict was noted into the history and
  overwrites the present one, so a correction made in between is nowhere.
* `FetchAgain`: the cursor is recorded before the import, so after a refused import the next fetch says
  "unchanged" and the confirmed retry the alarm asks for does nothing.
* `MachinesApart`: the key a call is bound under leaves the machine out, so two machines that send one
  client id share a session.
* `MergedScope`: a project merge moves six tables and deletes the project; rows of other tables, and rows
  that row-level security hides from the caller, lose their project. So does everything in a project that is
  merged into itself.

## 5. Proofs

Every theorem is for all values of the constants, under the named `ASSUME`s of the modules (tables share no
identity, an entity has at most one project, thresholds and caps are positive, markers such as `None` and
`Blank` are not values), which TLC evaluates in each run. Every safety property a passing run checks, invariant
or action property, is a theorem of its component's own specification, without the scenes and bounds of the
instances.

**The instances.** `ScenesPlayTheirParts` (in `BranchesProofs`, `LanProofs` and `ClientsProofs`) and
`DeskPlaysItsParts` say that a behaviour TLC explores is a behaviour of the components' specifications, so
that a proof and a run are about the same system; `ScenesAreSafe`, `DeskTypes`, `LanTypes` and `ClientsTypes`
draw the conclusion.

* **ReplicaSyncProofs.** `TypeOK` and then `EveryLossIsBuried` are inductive with the lemmas on
  `apply_tombstones` and on the merge, which takes nothing away. `StoresConsistent` is not: the invariant is
  `AllSound` (every store and every published bundle satisfies the keys, entities and projects refer to
  nothing, and no tombstone names a project, which nothing modelled deletes) with `Remembered` (what a node
  holds it has seen, so a new identity is new). The step rests on lemmas about `Resolve`, `ByName` and
  `FirstOfTriple`: names and triples stay unique although identities are rewritten. The action properties
  are lemmas about one import (`ImportTakesNamed`, `WithheldImportAdds`, `ImportRecordsApplied`,
  `UnconfirmedImportIsBounded`), used for the exchange and for branches alike; `RecordedMeansApplied` needs
  that a digest names its publisher (`DigestsNamePublisher`), and the alarm's bound that every store is
  finite (`FiniteStores`).
* **BranchesProofs.** `LandedMergesKeepBothSides` is far from inductive. A merge is of three trees written at
  different times, an import goes by names, and one that finds its digest does nothing, so `BranchesInv` has
  to say: whoever holds a relation names the same ends (`Alike`: ends are rewritten, their names never); a
  digest is of one tree (`Dated`); a digest taken in brought what its tree stands for, and that is still here
  or buried (`Taken`); what a branch holds, its node has, or it is excused, refused or yet to be imported
  (`Branched`); until the hook runs, what the merge owes is on the node or in the merged tree (`Pending`); and
  a hook that ran has landed or is on record as refused (`HookRan`). The step for `GitMerge` goes file by
  file: what `Merge3` leaves out was in `base`, so the node has it by `Branched`, or was buried on one side
  (`Excused`). The step for `HookLands` is where an import's remapping by name meets a tree that may repeat
  names. `StoresConsistent` of branches is proved anew, because a merged tree need not be `Sound`; the other
  promises of an import hold of these too (`BranchesImportAsPromised`, `BranchesBuryLosses`).
* **PeerFetchProofs.** Under `Alone`, fetches of this peer come one at a time; without it the theorems are
  false, since fetches share `.peer-inbox` and no lock until the import. The invariant: an export under way
  lists a version since the fetch began and what it has read so far lies between that and now (`Exporting`);
  between two pages the inbox holds exactly the files that came (`Paging`); from the last page to the commit
  it is the export the first page was of (`Holding`); the version that one lists is no older than any notice
  open when the fetch began (`Hearing`). `TypeOK` is inductive and needs neither `Alone` nor
  these. `StatesLandWhole`: if the peer is written to only between its exports, and
  git brings such bundles too, every bundle imported is one state of it, whole.
* **DeskProofs.** `OwnTextsSurvive` is inductive with the types and `Rooted`, a conflict is of a row that is
  here; the work is in `HistoriesKeep`: what appending to a full history lets go is its oldest text and no
  other. The refinement of `LwwRegister` is proved under `NamesTellNodes`, clients of different nodes have
  different names, which `crdt.rs` relies on and nothing sees to. Its invariant: what is shown or bundled
  was put (`Made`), a lease given and not ended is there under its holder's name (`Leased`), nobody has read
  past what is shown (`Reading`). That a stamp is used once needs `Below` too: what was put under a name is
  not beyond what that name's node shows. For the audit chain: a snapshot is no longer than the chain
  (`Snapshots`), every refusal is covered by rows between where the call began and its snapshot (`Paid`), the
  chain is linked (`Linking`), answers are true, and unless keys have parted (`Sealed`) all processes have one
  key, every row has it or was made before there was one, and so will those that holders make. From it
  come `ChainVerifies`, `RefusalsArePaidFor` and the refinement of `AuditLog`: a commit's snapshot is the
  whole chain, so it appends, and only a call without a row commits.
* **LanProofs.** The bridge's invariant: what is not past its sending is not delivered (`Undelivered`);
  credentials only get newer, from what requests carry to the core to the file (`Behind`); a refused one has
  not been verified since (`Sure`); after a search failed the failure cools until something clears it
  (`Sheltered`). The daemon's says what is announced, served and bound at each turn of the loop (`Following`)
  and which sockets accept (`Sockets`); from it, loopback is served until the stop, and at every nap the
  address announced is the one that is served, and no other.
* **PairingProofs.** `PairingInv`: a handler at work serves an offer somebody made (`Served`) of a code
  that was stored (`Known`); the row a claim holds is unused and nobody else's, and its account is active
  (`Claiming`); a revocation about to commit has marked every live credential (`Marking`), which is where
  the locks come in: between marking and committing no claim may commit; an answer is the request's own
  credential (`Replies`). `CodesWorkOnce`, `RevokedAccountsAreClosed` and `SavedSecretsAreKnown` are parts
  of it. The brake needs `Room`: failures and requests at work together never pass the limit and the
  number of requests, with the cardinality lemmas of `FiniteSetTheorems`.
* **WorkspacesProofs.** `SessionsStayApart` needs `Holds`, which says it of every binding and not only of the
  callers that use one, and `Carries`, which says it of what a call carries from its first statement to its
  last: between two of them the client may be forgotten, the session ended or the process restarted. The
  types (`WorkspacesTypes`) need `ScopeInv`: a row's project is live or none (`Rows`), while a call under way
  and a binding may name one that was merged away since (`Within`, `Bindings`).

**What the violations need.** A counterexample shows that a claim is false; these theorems, each of the claim
under one more condition, show that the run's finding has no other cause. Each condition holds of some
behaviours and fails in others.

| claim | holds where | theorem |
|---|---|---|
| `MergesReachTheDatabase` | no import of a hook was refused | `OnlyRefusalsDropMerges` |
| `MissingRowsArrive` | no project's name has two identities, no entity's name two projects (`OneNameEach`) | `MissingRowsDoArrive` |
| `UnchangedMeansTaken` | fetches come one at a time and no import failed or was cut | `UnchangedIsTaken` |
| `ResolvingDiscardsNothing` | no third text was written while the conflict was open (`Undisturbed`) | `UndisturbedConflictsKeepTexts` |
| `MachinesAreApart` | no two machines send one id in one chat | `MachinesApartByIds` |
| `MergesKeepScope` | merges of two projects carry every table and see every row (`Unwalled`) | `MergesOfAllKeepScope` |

`MissingRowsDoArrive` rests on `ExchangeInv`: stores and bundles agree on the ends of relations by name, and a
bundle buries nothing its node has not. `UnchangedIsTaken` follows from `UnchangedIsTakenOrDropped`, whose
invariant `CursorInv` follows the cursor, recorded before the import, to a bundle that landed, was dropped or
is being imported. `DeletedRowsStayDeleted` has no such theorem: any bundle older than a deletion undoes it.

**Only model-checked.** All liveness (`ExchangeConverges`, `FollowerCatchesUp`, `ArtifactsAgree`, `AppendsEnd`,
`QuietPeerIsTaken`, `RequestsEnd`, `NoticesTellTheTruth`, `FollowsTheAddress`, `StopsOnceFree`,
`RevocationPrevails`): the prover has neither liveness under fairness nor ENABLED. The violations are
counterexamples. No module declares a RECURSIVE operator; what a fold or a recursive function computes for
every input is beyond the prover.

## 6. Not modelled

* **The statements inside an export.** `export_into` reads table by table with no snapshot
  (`handlers/sync.rs:285-714`), so a write may land between two tables and the bundle be of no one state.
  `ReplicaSync!Export` takes all tables at one moment; what a fetch makes of mixed bundles is `PeerFetch`'s.
  The proofs of `StoresConsistent`, of the branches and of `MissingRowsDoArrive` use that a published bundle is
  sound, which a mixed one need not be; the other promises of an import are proved of any bundle.
* **The statements inside an import.** An import is one step, so an observation written between the count of
  an entity's children and the entity's deletion (READ COMMITTED) is not met; splitting it needs writers
  between any two statements, which takes the store beyond what TLC can enumerate. The hazard is listed.
* **Bundles** of one project, judgments, `source_trust` and embeddings; several peers at a time; the cap on
  notices; checkout and rebase, which import a bundle as `ReplicaSync` has it; files that do not parse.
* **Accounts:** the MACs of the messages (an offer is known by its number), the retention window, the limit
  of 200 candidates, `last_seen_at`. **Bridge:** impostors, parallel probes of a sweep. **Daemon:** warm-up,
  tickets, passwords, the panel, the UDP announcement. **Clients:** the stdio process, which has one.
* **stdio protocol and background cycles**, beyond the listener and the timeout in `PeerFetch`: what the REM
  cycle does under its lock is numeric.
* **Search, graph algorithms, cognition, embeddings, evaluation, redaction, the code graph**: scores, floating
  point, inference and text, in one read or one transaction each; nothing there depends on an order of steps
  that TLC would enumerate.
* **Installation, service, doctor, tunnels**: files and calls of an operating system whose behaviour the
  repository does not define.

By lines these last two groups are most of the repository, which is why the modelled share of it is small.
What is left that would be worth adding: the ledger of calls of `protocol.rs` (cancellation against a late
answer), the REM cycle's session lock on a pooled connection, and the order of effects in `service_apply.rs`.
