----------------------------- MODULE Workspaces -----------------------------
(***************************************************************************)
(* Which session and which project a call to the HTTP daemon works in: the *)
(* session a client has open (session.rs, handlers/jornada.rs), the root a  *)
(* client brought, the projects (handlers/proyecto.rs, project.rs), and the *)
(* reaper that forgets idle clients (http.rs).                              *)
(*                                                                         *)
(* A caller makes one call at a time.  Two callers may be one client to the *)
(* daemon, which is a client that calls in parallel.                        *)
(***************************************************************************)
EXTENDS Integers, Sequences

CONSTANTS
    Caller,
    LabelOf,        \* the client id a caller declares
    MachineOf,      \* where it calls from
    ChatOf,         \* its protocol session, or NoChat
    Declares,       \* the callers that declare an id of their own
    Here,           \* the machine of the daemon
    NoChat,
    Title,          \* names of projects
    Memory,         \* rows that carry a project
    Carried,        \* those of the six tables a merge moves
    Filled,         \* those of the five tables a backfill assigns
    NameOf,         \* two rows of one name exclude each other in a project
    MaxProjects,    \* bound on the projects ever made
    MaxSessions     \* bound on the sessions ever started

ASSUME WorkspacesAssumption == MaxProjects \in Nat /\ MaxSessions \in Nat

Unscoped == 0       \* project_id NULL, no session, no project of the title

Project == 1..MaxProjects
Label == {LabelOf[c] : c \in Caller}
Chat == {ChatOf[c] : c \in Caller} \cup {NoChat}

Binding == [session : 0..MaxSessions, project : 0..MaxProjects]
Nobody == [session |-> 0, project |-> Unscoped]

VARIABLES
    titles,     \* brain_projects: the project of each title, or Unscoped
    minted,     \* how many projects were ever made
    sessions,   \* brain_sessions, in the order they were started
    memory,     \* the project of each row, or -1 where there is no row
    active,     \* PER_CLIENT: what each client works in
    roots,      \* CLIENT_ROOTS: the project of each client id
    seen,       \* when each client last called: "never", "fresh" or "stale"
    reaping,    \* the keys the reaper found stale, those it took out and has still to
                \* forget, and the one it has forgotten but for its roots
    call,       \* the call each caller has under way
    walled      \* is the database connection subject to row-level security?

workspacesVars == <<titles, minted, sessions, memory, active, roots, seen, reaping, call, walled>>

-----------------------------------------------------------------------------
(* bind_key and should_bind_identity.  The key under which dispatch_one     *)
(* binds a call leaves the machine out; the one the reaper goes by has it.  *)

Key_LabelOnly(c) == <<LabelOf[c], NoChat>>     \* seeded fault

Key(c) == <<LabelOf[c], ChatOf[c]>>

SeenKey(c) == <<LabelOf[c], MachineOf[c], ChatOf[c]>>
SeenKeys == {SeenKey(c) : c \in Caller}

Bound(c) == c \in Declares \/ ChatOf[c] # NoChat

Works(c) == IF Bound(c) THEN active[Key(c)] ELSE Nobody

(* forget_client: the key itself and all of its chats.                     *)
Covers(k, key) ==
    /\ k[2] = Here
    /\ k[1] = key[1]
    /\ k[3] \in {NoChat, key[2]}

-----------------------------------------------------------------------------
Live == {titles[t] : t \in Title} \ {Unscoped}

Scope(c) == Works(c).project        \* rls_scope

(* The policies of migrations 0017 and 0063, for reading: a row of another  *)
(* project does not exist for a connection that is behind the wall.         *)
Sees(project, scope) ==
    ~walled \/ scope = Unscoped \/ project \in {Unscoped, scope}

(* upsert_project *)
Upserted(t) ==
    IF titles[t] # Unscoped THEN titles ELSE [titles EXCEPT ![t] = minted + 1]

Upserts(t) ==
    /\ titles[t] = Unscoped => minted < MaxProjects
    /\ titles' = Upserted(t)
    /\ minted' = IF titles[t] # Unscoped THEN minted ELSE minted + 1

Idle == [op |-> "idle"]
Resting == [found |-> {}, doomed |-> {}, uprooting |-> {}]

WorkspacesTypeOK ==
    /\ titles \in [Title -> 0..MaxProjects]
    /\ minted \in 0..MaxProjects
    /\ sessions \in Seq([project : 0..MaxProjects, open : BOOLEAN, by : Caller])
    /\ Len(sessions) <= MaxSessions
    /\ memory \in [Memory -> 0..MaxProjects \cup {-1}]
    /\ active \in [Label \X Chat -> Binding]
    /\ roots \in [Label -> 0..MaxProjects]
    /\ \A c \in Caller : seen[SeenKey(c)] \in {"never", "fresh", "stale"}
    /\ reaping \in [found : SUBSET SeenKeys, doomed : SUBSET SeenKeys, uprooting : SUBSET SeenKeys]
    /\ walled \in BOOLEAN
    /\ Live \subseteq 1..minted
    /\ \A i \in DOMAIN sessions : sessions[i].project \in Live \cup {Unscoped}
    /\ \A m \in Memory : memory[m] \in Live \cup {Unscoped, -1}
    /\ \A k \in Label \X Chat : active[k].session <= Len(sessions)

WorkspacesInit ==
    /\ titles = [t \in Title |-> Unscoped]
    /\ minted = 0
    /\ sessions = <<>>
    /\ memory = [m \in Memory |-> -1]
    /\ active = [k \in Label \X Chat |-> Nobody]
    /\ roots = [l \in Label |-> Unscoped]
    /\ seen = [k \in SeenKeys |-> "never"]
    /\ reaping = Resting
    /\ call = [c \in Caller |-> Idle]
    /\ walled \in BOOLEAN

-----------------------------------------------------------------------------
(* mcp_endpoint: a call begins by being noted for the reaper.               *)
Calls(c, what) ==
    /\ call[c] = Idle
    /\ call' = [call EXCEPT ![c] = what]
    /\ seen' = [seen EXCEPT ![SeenKey(c)] = "fresh"]

Returns(c) == call' = [call EXCEPT ![c] = Idle]

(* cuba_jornada start, up to the transaction: the project is there.         *)
StartAsks(c, t) ==
    /\ Len(sessions) < MaxSessions
    /\ \/ Upserts(t) /\ Calls(c, [op |-> "start", project |-> titles'[t]])
       \/ UNCHANGED <<titles, minted>> /\ Calls(c, [op |-> "start", project |-> Unscoped])
    /\ UNCHANGED <<sessions, memory, active, roots, reaping, walled>>

(* In the transaction: the session to be replaced is read.                  *)
StartReads(c) ==
    /\ call[c].op = "start"
    /\ call' = [call EXCEPT ![c] =
          [op |-> "replace", project |-> call[c].project, replaces |-> Works(c).session]]
    /\ UNCHANGED <<titles, minted, sessions, memory, active, roots, seen, reaping, walled>>

Ended(i) ==
    IF i = 0 THEN sessions ELSE [sessions EXCEPT ![i].open = FALSE]

(* The transaction: its write scope sees every session.  A project merged   *)
(* away meanwhile is a foreign key without a row, and nothing is committed. *)
StartCommits(c) ==
    /\ call[c].op = "replace"
    /\ Len(sessions) < MaxSessions
    /\ IF call[c].project \in Live \cup {Unscoped}
       THEN /\ sessions' = Append(Ended(call[c].replaces),
                                  [project |-> call[c].project, open |-> TRUE, by |-> c])
            /\ call' = [call EXCEPT ![c] =
                  [op |-> "set", active |->
                      [session |-> Len(sessions) + 1, project |-> call[c].project]]]
       ELSE UNCHANGED sessions /\ Returns(c)
    /\ UNCHANGED <<titles, minted, memory, active, roots, seen, reaping, walled>>

(* session::set, after the commit.  A call that bound no identity sets      *)
(* ACTIVE, which a daemon never reads.                                      *)
Sets(c) ==
    /\ call[c].op = "set"
    /\ active' = IF Bound(c) THEN [active EXCEPT ![Key(c)] = call[c].active] ELSE active
    /\ Returns(c)
    /\ UNCHANGED <<titles, minted, sessions, memory, roots, seen, reaping, walled>>

(* cuba_jornada end: the update runs in the caller's scope and closes what  *)
(* it sees; the client's session is forgotten either way.                   *)
EndUpdates(c) ==
    /\ Works(c) # Nobody
    /\ Calls(c, [op |-> "clear"])
    /\ sessions' = IF Sees(sessions[Works(c).session].project, Scope(c))
                   THEN Ended(Works(c).session) ELSE sessions
    /\ UNCHANGED <<titles, minted, memory, active, roots, reaping, walled>>

EndClears(c) ==
    /\ call[c].op = "clear"
    /\ active' = [active EXCEPT ![Key(c)] = Nobody]
    /\ Returns(c)
    /\ UNCHANGED <<titles, minted, sessions, memory, roots, seen, reaping, walled>>

(* cuba_proyecto switch *)
SwitchAsks(c, t) ==
    /\ Upserts(t)
    /\ \/ /\ Works(c) # Nobody
          /\ Calls(c, [op |-> "switch", project |-> titles'[t], session |-> Works(c).session])
       \/ Works(c) = Nobody /\ Calls(c, Idle)
    /\ UNCHANGED <<sessions, memory, active, roots, reaping, walled>>

SwitchCommits(c) ==
    /\ call[c].op = "switch"
    /\ LET i == call[c].session IN
       IF sessions[i].open /\ call[c].project \in Live
       THEN /\ sessions' = [sessions EXCEPT ![i].project = call[c].project]
            /\ call' = [call EXCEPT ![c] =
                  [op |-> "set", active |-> [session |-> i, project |-> call[c].project]]]
       ELSE UNCHANGED sessions /\ Returns(c)
    /\ UNCHANGED <<titles, minted, memory, active, roots, seen, reaping, walled>>

(* cuba_proyecto rename: a title that is taken is refused by its key.       *)
Rename(c, from, to) ==
    /\ titles[from] # Unscoped
    /\ titles[to] = Unscoped
    /\ Calls(c, Idle)
    /\ titles' = [titles EXCEPT ![to] = titles[from], ![from] = Unscoped]
    /\ UNCHANGED <<minted, sessions, memory, active, roots, reaping, walled>>

-----------------------------------------------------------------------------
(* cuba_proyecto merge *)
MergeAsks(c, from, to) ==
    /\ titles[from] # Unscoped
    /\ Upserts(to)
    /\ Calls(c, [op |-> "merge", from |-> titles[from], to |-> titles'[to]])
    /\ UNCHANGED <<sessions, memory, active, roots, reaping, walled>>

(* The rows the updates of a merge find, and those they may write: behind   *)
(* the wall a scoped connection neither sees nor leaves its own project.    *)
Finds(c, project) == project = call[c].from /\ Sees(project, Scope(c))

MayMove(c) ==
    \/ /\ \A m \in Carried : ~Finds(c, memory[m])
       /\ \A i \in DOMAIN sessions : ~Finds(c, sessions[i].project)
    \/ call[c].to \in Live /\ Sees(call[c].to, Scope(c))

(* Rows that were not moved lose their project when it is deleted.          *)
Moved(c, project, carried) ==
    IF project # call[c].from THEN project
    ELSE IF carried /\ Finds(c, project) /\ call[c].to # call[c].from THEN call[c].to
    ELSE Unscoped

Unique(rows) ==
    \A m, o \in Memory :
        m # o /\ NameOf[m] = NameOf[o] => rows[m] = -1 \/ rows[m] # rows[o]

MergeCommits(c) ==
    /\ call[c].op = "merge"
    /\ LET rows == [m \in Memory |-> Moved(c, memory[m], m \in Carried)] IN
       \/ /\ MayMove(c) /\ Unique(rows)
          /\ memory' = rows
          /\ sessions' = [i \in DOMAIN sessions |->
                [sessions[i] EXCEPT !.project = Moved(c, sessions[i].project, TRUE)]]
          /\ titles' = [t \in Title |->
                IF titles[t] = call[c].from THEN Unscoped ELSE titles[t]]
       \/ /\ MayMove(c) => ~Unique(rows)
          /\ UNCHANGED <<memory, sessions, titles>>
    /\ Returns(c)
    /\ UNCHANGED <<minted, active, roots, seen, reaping, walled>>

-----------------------------------------------------------------------------
(* cuba_proyecto backfill with confirm: what has no project gets one, all   *)
(* of it in a write scope or nothing.                                       *)
BackfillAsks(c, t) ==
    /\ Upserts(t)
    /\ Calls(c, [op |-> "backfill", project |-> titles'[t]])
    /\ UNCHANGED <<sessions, memory, active, roots, reaping, walled>>

Filling(c, project) == IF project = Unscoped THEN call[c].project ELSE project

BackfillCommits(c) ==
    /\ call[c].op = "backfill"
    /\ LET rows == [m \in Memory |-> IF m \in Filled THEN Filling(c, memory[m]) ELSE memory[m]] IN
       IF call[c].project \in Live /\ Unique(rows)
       THEN /\ memory' = rows
            /\ sessions' = [i \in DOMAIN sessions |->
                  [sessions[i] EXCEPT !.project = Filling(c, @)]]
       ELSE UNCHANGED <<memory, sessions>>
    /\ Returns(c)
    /\ UNCHANGED <<titles, minted, active, roots, seen, reaping, walled>>

-----------------------------------------------------------------------------
(* A memory is written into the client's project, or into the one of the    *)
(* client's root; one that is gone is a foreign key without a row.          *)
Current(c) == IF Scope(c) # Unscoped THEN Scope(c) ELSE roots[LabelOf[c]]

Remember(c, m) ==
    /\ memory[m] = -1
    /\ Current(c) \in Live \cup {Unscoped}
    /\ Unique([memory EXCEPT ![m] = Current(c)])
    /\ Calls(c, Idle)
    /\ memory' = [memory EXCEPT ![m] = Current(c)]
    /\ UNCHANGED <<titles, minted, sessions, active, roots, reaping, walled>>

(* adopt_client_root *)
AdoptRoot(c, t) ==
    /\ Upserts(t)
    /\ Calls(c, Idle)
    /\ roots' = [roots EXCEPT ![LabelOf[c]] = titles'[t]]
    /\ UNCHANGED <<sessions, memory, active, reaping, walled>>

(* The deadline of a request, or a client that hangs up: the call is        *)
(* dropped at an await, a commit that arrived included.                     *)
Cut(c) ==
    /\ call[c] # Idle
    /\ Returns(c)
    /\ UNCHANGED <<titles, minted, sessions, memory, active, roots, seen, reaping, walled>>

(* CLIENT_TTL passes without a call of this client.                        *)
GoesStale(k) ==
    /\ seen[k] = "fresh"
    /\ seen' = [seen EXCEPT ![k] = "stale"]
    /\ UNCHANGED <<titles, minted, sessions, memory, active, roots, reaping, call, walled>>

(* reap_idle_clients: what is stale is collected under one lock and taken   *)
(* out under another, stale or not by then; then each key is forgotten, its *)
(* sessions under one lock and its root under another.                      *)
ReapLooks ==
    /\ reaping = Resting
    /\ \E k \in DOMAIN seen : seen[k] = "stale"
    /\ reaping' = [Resting EXCEPT !.found = {k \in DOMAIN seen : seen[k] = "stale"}]
    /\ UNCHANGED <<titles, minted, sessions, memory, active, roots, seen, call, walled>>

ReapRemoves ==
    /\ reaping.found # {}
    /\ seen' = [k \in DOMAIN seen |-> IF k \in reaping.found THEN "never" ELSE seen[k]]
    /\ reaping' = [Resting EXCEPT !.doomed = reaping.found]
    /\ UNCHANGED <<titles, minted, sessions, memory, active, roots, call, walled>>

ReapForgets(k) ==
    /\ k \in reaping.doomed /\ reaping.uprooting = {}
    /\ active' = [key \in DOMAIN active |-> IF Covers(k, key) THEN Nobody ELSE active[key]]
    /\ reaping' = [reaping EXCEPT !.doomed = @ \ {k}, !.uprooting = {k}]
    /\ UNCHANGED <<titles, minted, sessions, memory, roots, seen, call, walled>>

ReapUproots ==
    /\ reaping.uprooting # {}
    /\ roots' = [l \in Label |->
          IF <<l, Here, NoChat>> \in reaping.uprooting THEN Unscoped ELSE roots[l]]
    /\ reaping' = [reaping EXCEPT !.uprooting = {}]
    /\ UNCHANGED <<titles, minted, sessions, memory, active, seen, call, walled>>

(* The daemon starts anew: only the database is left.                       *)
Restart ==
    /\ active' = [k \in DOMAIN active |-> Nobody]
    /\ roots' = [l \in Label |-> Unscoped]
    /\ seen' = [k \in DOMAIN seen |-> "never"]
    /\ reaping' = Resting
    /\ call' = [c \in Caller |-> Idle]
    /\ UNCHANGED <<titles, minted, sessions, memory, walled>>

WorkspacesNext ==
    \/ \E c \in Caller, t \in Title :
          StartAsks(c, t) \/ SwitchAsks(c, t) \/ BackfillAsks(c, t) \/ AdoptRoot(c, t)
    \/ \E c \in Caller :
          \/ StartReads(c) \/ StartCommits(c) \/ Sets(c) \/ EndUpdates(c) \/ EndClears(c)
          \/ SwitchCommits(c) \/ MergeCommits(c) \/ BackfillCommits(c)
          \/ Cut(c)
    \/ \E c \in Caller, from, to \in Title : Rename(c, from, to) \/ MergeAsks(c, from, to)
    \/ \E c \in Caller, m \in Memory : Remember(c, m)
    \/ \E k \in DOMAIN seen : GoesStale(k) \/ ReapForgets(k)
    \/ ReapLooks
    \/ ReapRemoves
    \/ ReapUproots
    \/ Restart

WorkspacesSpec == WorkspacesInit /\ [][WorkspacesNext]_workspacesVars

-----------------------------------------------------------------------------
(* Two clients of one program, or two chats of one client, never work in a  *)
(* session the other started, however their calls overlap, are cut, and are *)
(* forgotten by the reaper (bind_key, session::set).                        *)
SessionsStayApart ==
    \A c \in Caller :
        Works(c) # Nobody =>
            LET by == sessions[Works(c).session].by IN
            LabelOf[by] = LabelOf[c] /\ ChatOf[by] = ChatOf[c]

(* Clients of two machines never work in one session, although they send    *)
(* the same client id (docs/despliegue-lan.md).                             *)
MachinesAreApart ==
    \A c \in Caller :
        Works(c) # Nobody =>
            MachineOf[sessions[Works(c).session].by] = MachineOf[c]

(* No call takes a memory out of a project without putting it into another: *)
(* a merge carries all of a project over (handlers/proyecto.rs, merge).     *)
MergesKeepScope ==
    [][\A m \in Memory : memory[m] \in Project => memory'[m] \in Project]_workspacesVars
=============================================================================
