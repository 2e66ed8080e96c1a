----------------------------- MODULE MCClients ------------------------------
(* Small instances for TLC of what the daemon knows of its clients: who may *)
(* call (Pairing: one account and one code, two devices that are both given *)
(* it, two requests served at one time), and which session and project a    *)
(* call works in (Workspaces).  They share no state, so a behaviour plays   *)
(* one scene of one of them.                                                *)
EXTENDS Pairing, Workspaces, TLC

CONSTANTS a1, k1, d1, d2, h1, h2, ann, bob, eve, cursor, here, there, chat, p, q, m1, m2

(* ann and bob use one client at the daemon's machine, in two chats; eve    *)
(* uses the same client id from another machine.                            *)
OneLabel == [c \in Caller |-> cursor]
EveApart == [c \in Caller |-> IF c = eve THEN there ELSE here]
BobChats == [c \in Caller |-> IF c = bob THEN chat ELSE NoChat]
NamesDiffer == [m \in Memory |-> m]

(* Two devices that race for the code; one that offers it again and calls. *)
PairingScenes == {
    [of |-> "pairing", devices |-> {d1, d2}, again |-> FALSE],
    [of |-> "pairing", devices |-> {d1},     again |-> TRUE]}

(* Sessions that start, end and are reaped; one call at a time on projects  *)
(* and roots, from two machines; two calls at a time on one project.        *)
WorkScenes == {
    [of |-> "work", callers |-> {ann, bob}, atwork |-> 2, titles |-> {}, rows |-> {},
        sessions |-> 2, reaps |-> TRUE, roots |-> FALSE],
    [of |-> "work", callers |-> {ann, eve}, atwork |-> 1, titles |-> {p, q}, rows |-> {m1},
        sessions |-> 1, reaps |-> FALSE, roots |-> TRUE],
    [of |-> "work", callers |-> {ann, bob}, atwork |-> 2, titles |-> {p}, rows |-> {m1},
        sessions |-> 1, reaps |-> FALSE, roots |-> FALSE]}

VARIABLE scene

ClientsInit ==
    /\ scene \in PairingScenes \cup WorkScenes
    /\ Init
    /\ WorkspacesInit
    /\ scene.of = "pairing" => walled

-----------------------------------------------------------------------------
PairingStep ==
    /\ Next
    /\ \A o \in Offer : made'[o] # None => made'[o].by \in scene.devices
    /\ failures' # failures => scene.again \/ pc' # pc
    /\ (\E d \in Device : asking[d] < asking'[d]) => scene.again \/ offers' # offers
    /\ UNCHANGED workspacesVars

AtWork == {c \in Caller : call[c] # Idle}

WorkspacesStep ==
    /\ WorkspacesNext
    /\ AtWork' \subseteq scene.callers /\ Cardinality(AtWork') <= scene.atwork
    /\ \A c \in Caller \ scene.callers : seen'[SeenKey(c)] = "never"
    /\ \A t \in Title \ scene.titles : titles'[t] = Unscoped
    /\ \A m \in Memory \ scene.rows : memory'[m] = -1
    /\ Len(sessions') <= scene.sessions
    /\ ~scene.reaps => \A k \in DOMAIN seen : seen'[k] # "stale"
    /\ ~scene.roots => \A l \in Label : roots'[l] = Unscoped
    /\ UNCHANGED vars

ClientsNext ==
    /\ UNCHANGED scene
    /\ \/ scene.of = "pairing" /\ PairingStep
       \/ scene.of = "work" /\ WorkspacesStep

(* The fairness of Pairing, where a behaviour is about it.                  *)
PairingFairness ==
    /\ \A h \in Handler : WF_vars(scene.of = "pairing" /\ Serve(h))
    /\ \A a \in Account : WF_vars(scene.of = "pairing" /\ Revoke(a))

ClientsSpec ==
    ClientsInit /\ [][ClientsNext]_<<scene, vars, workspacesVars>> /\ PairingFairness

-----------------------------------------------------------------------------
(* The projects alone, for what the code is refuted by; a project that is   *)
(* merged into itself is left out, so that the merge people mean is shown.  *)
WorkNext ==
    /\ UNCHANGED <<scene, vars>>
    /\ WorkspacesNext
    /\ \A c \in Caller : call'[c].op = "merge" => call'[c].from # call'[c].to

WorkSpec ==
    /\ ClientsInit /\ scene.of = "work" /\ scene.roots
    /\ [][WorkNext]_<<scene, vars, workspacesVars>>

-----------------------------------------------------------------------------
(* The states of both modules are well formed.                             *)
ClientsTypeOK == TypeOK /\ WorkspacesTypeOK
=============================================================================
