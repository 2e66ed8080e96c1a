------------------------------- MODULE MCLan --------------------------------
(* Small instances for TLC of how a client reaches its host: the bridge that*)
(* looks for the host, and the daemon that follows the addresses of its     *)
(* machine.  They share no state, so a behaviour plays one scene of one of  *)
(* them.                                                                    *)
EXTENDS Bridge, Daemon, TLC

CONSTANTS r1, r2, home, away, i1, i2, v1, v2

(* A burst of two requests at a host that is at home or gone; one request   *)
(* of a device whose host wanders to where another installation answers;    *)
(* one of a device that is paired again, with reconnect; reconnect beside   *)
(* the supervisor.                                                          *)
BridgeScenes == {
    [of |-> "bridge", seekers |-> {r1, r2, Watcher}, places |-> {home},
        pairings |-> 1, mishaps |-> 0],
    [of |-> "bridge", seekers |-> {r1, Watcher}, places |-> {home, away},
        pairings |-> 1, mishaps |-> 1],
    [of |-> "bridge", seekers |-> {r1, Console}, places |-> {home},
        pairings |-> 2, mishaps |-> 0],
    [of |-> "bridge", seekers |-> {Watcher, Console}, places |-> {home},
        pairings |-> 2, mishaps |-> 0]}

DaemonScene == [of |-> "daemon"]

VARIABLE scene

Init ==
    /\ scene \in BridgeScenes \cup {DaemonScene}
    /\ BridgeInit /\ at = home
    /\ DaemonInit
    /\ scene.of = "bridge" => ip = NoLan

-----------------------------------------------------------------------------
BridgeStep ==
    /\ BridgeNext
    /\ at' \in scene.places \cup {None}
    /\ seeker' \in scene.seekers \cup {None}
    /\ typed' \in scene.places \cup {None}
    /\ \A r \in Request : pc'[r] # "new" => r \in scene.seekers
    /\ file'.credential <= scene.pairings
    /\ mishaps' <= scene.mishaps
    /\ UNCHANGED daemonVars

DaemonStep == DaemonNext /\ UNCHANGED bridgeVars

Next ==
    /\ UNCHANGED scene
    /\ \/ scene.of = "bridge" /\ BridgeStep
       \/ scene.of = "daemon" /\ DaemonStep

(* Tasks of the bridge run on and time passes.  tokio's mutex is first come,*)
(* first served: whoever waits for it gets it, however often others do.     *)
BridgeFairness ==
    /\ \A s \in Seeker : WF_bridgeVars(scene.of = "bridge" /\ Searches(s))
    /\ \A r \in Request : SF_bridgeVars(scene.of = "bridge" /\ Advance(r))
    /\ SF_bridgeVars(scene.of = "bridge" /\ (WatcherSeesRoute \/ WatcherSearches))
    /\ WF_bridgeVars(scene.of = "bridge" /\ BecomesOverdue)
    /\ WF_bridgeVars(scene.of = "bridge" /\ Age)

(* The daemon's loop runs, a bind that is tried again and again succeeds, a *)
(* nap ends and hears of a shutdown, and every call is answered.  Nobody    *)
(* promises that subscribers leave.                                         *)
DaemonFairness ==
    /\ WF_daemonVars(scene.of = "daemon" /\ Tick)
    /\ SF_daemonVars(scene.of = "daemon" /\ Bind)
    /\ WF_daemonVars(scene.of = "daemon" /\ Nap)
    /\ SF_daemonVars(scene.of = "daemon" /\ Nap /\ loop' = "close")
    /\ \A v \in Visitor : WF_daemonVars(scene.of = "daemon" /\ Answer(v))

Spec ==
    Init /\ [][Next]_<<scene, bridgeVars, daemonVars>> /\ BridgeFairness /\ DaemonFairness

-----------------------------------------------------------------------------
(* When host, file and credential no longer change, the bridge has the host *)
(* or has said that it has not (bridge/supervisor.rs, told).                *)
NoticesTellTheTruth == <>[](scene.of = "bridge" => TellsTheTruth)

(* The states of the two modules are well formed.                           *)
LanTypeOK == BridgeTypeOK /\ DaemonTypeOK
=============================================================================
