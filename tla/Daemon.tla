------------------------------- MODULE Daemon -------------------------------
(***************************************************************************)
(* The listeners of the HTTP daemon in its automatic mode and how it stops *)
(* (http.rs: follow, Served, Closing, shutdown_signal, shutdown_when_idle): *)
(* loopback is served for the whole run, the LAN address as long as the     *)
(* machine has it, and a stop waits for what is in flight.                  *)
(***************************************************************************)
CONSTANTS
    LanAddress,     \* addresses the machine may have on the LAN
    Visitor,        \* what clients may have under way at one time
    Loopback,
    NoLan           \* no address, nothing bound

ASSUME DaemonAssumption ==
    /\ NoLan \notin LanAddress
    /\ Loopback \notin LanAddress \cup {NoLan}

Place == {"loopback", "lan", "earlier"}

VARIABLES
    ip,         \* own_ip: the address the machine has, or NoLan
    loop,       \* where the loop of follow is
    wanted,     \* the address the last look asked for
    had,        \* the address served at the last look
    lan,        \* the address that is served
    opened,     \* one that is bound and not put in the place of lan yet
    listening,  \* the sockets that accept
    announced,  \* LanStatus.address, what /health and the beacon say
    flights,    \* where each request under way was accepted and what it is
    asked       \* a signal or the idle timer has asked for the shutdown

daemonVars == <<ip, loop, wanted, had, lan, opened, listening, announced, flights, asked>>

Landed == [at |-> "none", kind |-> "none"]      \* no request under way

DaemonTypeOK ==
    /\ {ip, wanted, had, lan, opened, announced} \subseteq LanAddress \cup {NoLan}
    /\ loop \in {"look", "bind", "swap", "publish", "nap", "close", "closeLan", "wait", "down"}
    /\ listening \subseteq LanAddress \cup {Loopback}
    /\ flights \in [Visitor -> [at : Place, kind : {"call", "stream"}] \cup {Landed}]
    /\ asked \in BOOLEAN
    /\ loop \notin {"closeLan", "wait", "down"} => Loopback \in listening
    /\ loop \in {"publish", "nap"} => listening = {Loopback, lan} \ {NoLan}
    /\ loop = "nap" => announced = lan

DaemonInit ==
    /\ ip \in LanAddress \cup {NoLan}
    /\ loop = "look"
    /\ wanted = NoLan
    /\ had = NoLan
    /\ lan = NoLan
    /\ opened = NoLan
    /\ listening = {Loopback}
    /\ announced = NoLan
    /\ flights = [v \in Visitor |-> Landed]
    /\ asked = FALSE

-----------------------------------------------------------------------------
(* The machine moves between networks.                                     *)
Moves(i) ==
    /\ i # ip
    /\ ip' = i
    /\ UNCHANGED <<loop, wanted, had, lan, opened, listening, announced, flights, asked>>

(* One look: is the address of the machine the one that is served?         *)
Changed_SinceLook == ip # wanted        \* seeded fault: a bind that failed is forgotten

Changed == ip # lan

Look ==
    /\ loop = "look"
    /\ wanted' = ip
    /\ had' = lan
    /\ loop' = IF ~Changed THEN "publish" ELSE IF ip # NoLan THEN "bind" ELSE "swap"
    /\ UNCHANGED <<ip, lan, opened, listening, announced, flights, asked>>

(* The new address is bound before the old one is given up; when it cannot  *)
(* be (it is gone again, the port is taken), what serves goes on.           *)
Bind ==
    /\ loop = "bind"
    /\ ip = wanted
    /\ opened' = wanted
    /\ listening' = listening \cup {wanted}
    /\ loop' = "swap"
    /\ UNCHANGED <<ip, wanted, had, lan, announced, flights, asked>>

BindFails ==
    /\ loop = "bind"
    /\ loop' = "publish"
    /\ UNCHANGED <<ip, wanted, had, lan, opened, listening, announced, flights, asked>>

(* Served::close of the old one: its socket is closed, its requests are let *)
(* go on without anybody who waits for them.                                *)
Swap ==
    /\ loop = "swap"
    /\ listening' = listening \ {lan}
    /\ flights' = [v \in Visitor |->
          IF flights[v].at = "lan" THEN [flights[v] EXCEPT !.at = "earlier"] ELSE flights[v]]
    /\ lan' = opened
    /\ opened' = NoLan
    /\ loop' = "publish"
    /\ UNCHANGED <<ip, wanted, had, announced, asked>>

Publish ==
    /\ loop = "publish"
    /\ announced' = IF lan # had THEN lan ELSE announced
    /\ loop' = "nap"
    /\ UNCHANGED <<ip, wanted, had, lan, opened, listening, flights, asked>>

(* select!: the nap ends, or the shutdown is asked for.                    *)
Nap ==
    /\ loop = "nap"
    /\ \/ loop' = "look"
       \/ asked /\ loop' = "close"
    /\ UNCHANGED <<ip, wanted, had, lan, opened, listening, announced, flights, asked>>

(* The loop is left: loopback is closed, then the LAN address.             *)
Close ==
    /\ loop = "close"
    /\ listening' = listening \ {Loopback}
    /\ loop' = "closeLan"
    /\ UNCHANGED <<ip, wanted, had, lan, opened, announced, flights, asked>>

Left_Open == listening      \* seeded fault: only loopback is told to stop

Left == listening \ {lan}

CloseLan ==
    /\ loop = "closeLan"
    /\ listening' = Left
    /\ loop' = "wait"
    /\ UNCHANGED <<ip, wanted, had, lan, opened, announced, flights, asked>>

(* The two tasks that are waited for end with their requests; the process   *)
(* ends, and with it what an earlier address still had in flight.           *)
Down ==
    /\ loop = "wait"
    /\ \A v \in Visitor : flights[v].at \notin {"loopback", "lan"}
    /\ listening' = {}
    /\ loop' = "down"
    /\ flights' = [v \in Visitor |-> Landed]
    /\ UNCHANGED <<ip, wanted, had, lan, opened, announced, asked>>

-----------------------------------------------------------------------------
(* A request is accepted: a call, or a subscriber of /events.              *)
Accept(v, place, kind) ==
    /\ flights[v] = Landed
    /\ \/ place = "loopback" /\ Loopback \in listening
       \/ place = "lan" /\ lan \in listening
    /\ flights' = [flights EXCEPT ![v] = [at |-> place, kind |-> kind]]
    /\ UNCHANGED <<ip, loop, wanted, had, lan, opened, listening, announced, asked>>

(* A call is answered, at its deadline at the latest; a subscriber leaves.  *)
Land(v) ==
    /\ flights[v] # Landed
    /\ flights' = [flights EXCEPT ![v] = Landed]
    /\ UNCHANGED <<ip, loop, wanted, had, lan, opened, listening, announced, asked>>

Answer(v) == flights[v].kind = "call" /\ Land(v)

Unsubscribe(v) == flights[v].kind = "stream" /\ Land(v)

(* SIGTERM, or the idle timer.  Both are heard by the next nap.            *)
Signal ==
    /\ loop # "down"
    /\ ~asked
    /\ asked' = TRUE
    /\ UNCHANGED <<ip, loop, wanted, had, lan, opened, listening, announced, flights>>

Tick == Look \/ Bind \/ BindFails \/ Swap \/ Publish \/ Close \/ CloseLan \/ Down

DaemonNext ==
    \/ \E i \in LanAddress \cup {NoLan} : loop # "down" /\ Moves(i)
    \/ Tick
    \/ Nap
    \/ \E v \in Visitor :
          \/ \E place \in {"loopback", "lan"}, kind \in {"call", "stream"} :
                Accept(v, place, kind)
          \/ Answer(v)
          \/ Unsubscribe(v)
    \/ Signal

DaemonSpec == DaemonInit /\ [][DaemonNext]_daemonVars

-----------------------------------------------------------------------------
(* A machine that keeps an address is served and announced on it in the end,*)
(* however it moved before and however often a bind failed (follow).        *)
FollowsTheAddress ==
    \A i \in LanAddress : []<>(ip = i /\ ~asked => announced = i /\ i \in listening)

(* A daemon that is asked to stop does, once its subscribers have left: it  *)
(* accepts nothing more and waits for the calls it has (shutdown_signal).   *)
StopsOnceFree ==
    []<>(asked => loop = "down" \/ \E v \in Visitor : flights[v].kind = "stream")
=============================================================================
