-------------------------------- MODULE Bridge -------------------------------
(***************************************************************************)
(* The bridge of a paired device (bridge/mod.rs, proxy.rs, discovery.rs,   *)
(* supervisor.rs, state.rs): requests of local clients are forwarded to a  *)
(* host that is looked for when it is not where it was, once for everybody *)
(* who waits; a watcher checks on its own and tells the person at the desk;*)
(* `bridge reconnect` searches at once; `bridge pair`, another process,    *)
(* replaces the state file.                                                *)
(*                                                                         *)
(* The core's mutex is held across a whole search and is otherwise taken   *)
(* and released with no await in between: a step.  Clocks are modelled by  *)
(* what has run out.                                                       *)
(***************************************************************************)
EXTENDS FiniteSets, Integers

CONSTANTS
    Request,
    Address,
    Elsewhere,      \* addresses where another installation answers
    MaxPairings,    \* bound on the credentials this device is given
    MaxMoves,       \* bound on the changes of the host's address
    MaxMishaps,     \* bound on budgets run out, lost answers and failed saves
    Watcher,        \* the supervisor, as a holder of the core's mutex
    Console,        \* bridge reconnect, likewise
    None

Credential == 1..MaxPairings

ASSUME BridgeAssumption ==
    /\ Elsewhere \subseteq Address
    /\ IsFiniteSet(Address)
    /\ MaxPairings \in Nat \ {0}
    /\ MaxMoves \in Nat
    /\ MaxMishaps \in Nat

Seeker == Request \cup {Watcher, Console}
Finding == {"NotFound", "WrongHost", "Revoked"}

ASSUME SeekerAssumption ==
    /\ Watcher # Console
    /\ Watcher \notin Request
    /\ Console \notin Request
    /\ None \notin Seeker \cup Address \cup Finding

VARIABLES
    at, live, moves, mishaps,           \* the host: address, valid credentials
    file,                               \* the state file
    state, verified, doubted, failure, cooling,         \* Core
    seeker, tried, heard, finding,      \* who holds the mutex, its search
    typed,                              \* the address typed at the console, or None
    pc, retried, route, delivered,      \* each request
    lostTold, needsPairTold, overdue,   \* the supervisor
    warned, burst                       \* (history)

host == <<at, live, moves>>
core == <<state, verified, doubted, failure, cooling>>
search == <<seeker, tried, heard, finding, typed>>
requests == <<pc, retried, route, delivered>>
supervisor == <<lostTold, needsPairTold, overdue>>
history == <<warned, burst>>
bridgeVars == <<host, mishaps, file, core, search, requests, supervisor, history>>

State == [credential : Credential, known : SUBSET Address]
Route == [address : Address, credential : Credential]
Heard == [address : Address, verdict : {"Verified", "Revoked", "WrongHost", "NoAnswer"}]

BridgeTypeOK ==
    /\ at \in Address \cup {None} /\ live \subseteq Credential
    /\ moves \in 0..MaxMoves /\ mishaps \in 0..MaxMishaps
    /\ file \in State /\ state \in State
    /\ verified \in Address \cup {None} /\ doubted \in BOOLEAN
    /\ failure \in Finding \cup {None} /\ cooling \in BOOLEAN
    /\ seeker \in Seeker \cup {None} /\ tried \subseteq Address
    /\ heard \in Heard \cup {None} /\ finding \in Finding
    /\ typed \in Address \cup {None} /\ (typed # None => seeker = Console)
    /\ pc \in [Request -> {"new", "routing", "sending", "doubting", "learning", "done"}]
    /\ retried \in [Request -> BOOLEAN]
    /\ route \in [Request -> Route \cup {None}]
    /\ delivered \in [Request -> 0..2]
    /\ lostTold \in BOOLEAN /\ needsPairTold \in BOOLEAN /\ overdue \in BOOLEAN
    /\ warned \subseteq Credential /\ burst \in Nat

(* Paired with the host where it was first; the bridge has just started.   *)
BridgeInit ==
    /\ at \in Address /\ live = {1} /\ moves = 0 /\ mishaps = 0
    /\ file = [credential |-> 1, known |-> {at}]
    /\ state = file /\ verified = None /\ doubted = FALSE
    /\ failure = None /\ cooling = FALSE
    /\ seeker = None /\ tried = {} /\ heard = None /\ finding = "NotFound" /\ typed = None
    /\ pc = [r \in Request |-> "new"]
    /\ retried = [r \in Request |-> FALSE]
    /\ route = [r \in Request |-> None]
    /\ delivered = [r \in Request |-> 0]
    /\ lostTold = FALSE /\ needsPairTold = FALSE /\ overdue = FALSE
    /\ warned = {} /\ burst = 0

Mishap == mishaps < MaxMishaps /\ mishaps' = mishaps + 1

-----------------------------------------------------------------------------
(* Core.                                                                   *)

MutexFree == seeker = None

(* Core::ready: a failure that is cooling, or an address verified within   *)
(* its window and not doubted since.                                       *)
ReadyRefusal_Forgotten == FALSE     \* seeded fault: failures are not kept

ReadyRefusal == failure # None /\ cooling

ReadyRoute == failure = None /\ verified # None /\ ~doubted

(* A search reads the file first, and owns the mutex until it ends.        *)
BeginSearch(s) ==
    /\ seeker' = s
    /\ state' = file
    /\ tried' = {} /\ heard' = None
    /\ finding' = "NotFound" /\ typed' = None
    /\ UNCHANGED <<verified, doubted, failure, cooling>>

(* The stored addresses are asked before those that turn up.               *)
Candidate(x) == x \notin tried /\ (x \in state.known \/ state.known \subseteq tried)

(* judge: what the one who answers at x says of this credential.           *)
Verdict(x) ==
    IF x = at
    THEN IF state.credential \in live THEN "Verified" ELSE "Revoked"
    ELSE IF x \in Elsewhere THEN "WrongHost" ELSE "NoAnswer"

(* Another installation means something only where this host is pinned.    *)
Louder_Pinned(h) ==                 \* seeded fault: silence overrides as well
    IF h.address \in state.known THEN h.verdict ELSE finding

Louder(h) ==
    IF h.verdict = "WrongHost" /\ h.address \in state.known THEN "WrongHost" ELSE finding

(* adopt: the address that worked is saved with the state this search began*)
(* from.  What cannot be saved is not kept either.                         *)
Healed(x) == [state EXCEPT !.known = @ \cup {x}]

Adopt(x, saved) ==
    /\ verified' = x
    /\ failure' = None /\ cooling' = FALSE
    /\ doubted' = FALSE
    /\ file' = IF saved /\ Healed(x) # state THEN Healed(x) ELSE file
    /\ state' = IF saved THEN Healed(x) ELSE state
    /\ burst' = 0

Fail(why) ==
    /\ verified' = None
    /\ failure' = why /\ cooling' = TRUE
    /\ UNCHANGED <<file, state, doubted>>

-----------------------------------------------------------------------------
(* The supervisor's notices.                                               *)

ToldFound_Again ==                  \* seeded fault: a notice is for ever
    /\ needsPairTold' = FALSE
    /\ overdue' = FALSE
    /\ UNCHANGED lostTold

ToldFound ==
    /\ lostTold' = FALSE
    /\ needsPairTold' = FALSE
    /\ overdue' = FALSE

NeedsPair(why) == why \in {"Revoked", "WrongHost"}

ToldMissing(why) ==
    /\ needsPairTold' = (needsPairTold \/ NeedsPair(why))
    /\ lostTold' = (lostTold \/ (overdue /\ ~NeedsPair(why)))
    /\ UNCHANGED overdue

(* 90 seconds have gone by without a success.                              *)
BecomesOverdue ==
    /\ ~overdue
    /\ verified = None
    /\ overdue' = TRUE
    /\ UNCHANGED <<host, mishaps, file, core, search, requests, lostTold, needsPairTold,
                   history>>

-----------------------------------------------------------------------------
(* Searching, for whoever holds the mutex.                                 *)

Goto(r, l) == pc' = [pc EXCEPT ![r] = l]

(* The search of s has found the host at x.                                *)
Found(s, x) ==
    /\ IF s \in Request
       THEN /\ Goto(s, "sending")
            /\ route' = [route EXCEPT ![s] = [address |-> x, credential |-> state.credential]]
            /\ UNCHANGED <<retried, delivered>>
       ELSE UNCHANGED requests
    /\ IF s = Watcher THEN ToldFound ELSE UNCHANGED supervisor

NotFound(s, why) ==
    /\ IF s \in Request
       THEN Goto(s, "done") /\ UNCHANGED <<retried, route, delivered>>
       ELSE UNCHANGED requests
    /\ IF s = Watcher THEN ToldMissing(why) ELSE UNCHANGED supervisor
    /\ burst' = IF s \in Request THEN burst + 1 ELSE burst

Searching(s) == seeker = s /\ (s \in Request => pc[s] = "routing")

(* What was typed at the console is asked before the search proper.        *)
Sweeping(s) == Searching(s) /\ typed = None

(* The answer is on its way: host and credentials may change meanwhile.    *)
Ask(s, x) ==
    /\ Sweeping(s) /\ heard = None
    /\ Candidate(x)
    /\ tried' = tried \cup {x}
    /\ heard' = [address |-> x, verdict |-> Verdict(x)]
    /\ UNCHANGED <<host, mishaps, file, core, seeker, finding, typed, requests, supervisor,
                   history>>

HearVerified(s) ==
    /\ Searching(s) /\ heard # None
    /\ heard.verdict = "Verified"
    /\ seeker' = None /\ heard' = None /\ typed' = None
    /\ \/ Adopt(heard.address, TRUE) /\ UNCHANGED mishaps
       \/ Adopt(heard.address, FALSE) /\ Mishap
    /\ Found(s, heard.address)
    /\ UNCHANGED <<host, tried, finding, warned>>

HearRefused(s) ==
    /\ Sweeping(s) /\ heard # None
    /\ heard.verdict = "Revoked"
    /\ seeker' = None /\ heard' = None
    /\ Fail("Revoked")
    /\ NotFound(s, "Revoked")
    /\ UNCHANGED <<host, mishaps, tried, finding, typed, warned>>

HearOther(s) ==
    /\ Sweeping(s) /\ heard # None
    /\ heard.verdict \in {"WrongHost", "NoAnswer"}
    /\ heard' = None
    /\ finding' = Louder(heard)
    /\ UNCHANGED <<host, mishaps, file, core, seeker, tried, typed, requests, supervisor,
                   history>>

(* Every candidate was asked, or the budget is spent.                      *)
EndSearch(s) ==
    /\ Sweeping(s)
    /\ \/ heard = None /\ tried = Address /\ UNCHANGED mishaps
       \/ Mishap
    /\ seeker' = None /\ heard' = None
    /\ Fail(finding)
    /\ NotFound(s, finding)
    /\ UNCHANGED <<host, tried, finding, typed, warned>>

(* What was typed is kept only if it proves to be the host; otherwise the  *)
(* search begins.                                                          *)
AskTyped ==
    /\ typed # None /\ heard = None
    /\ heard' = [address |-> typed, verdict |-> Verdict(typed)]
    /\ UNCHANGED <<host, mishaps, file, core, seeker, tried, finding, typed, requests,
                   supervisor, history>>

HearTyped ==
    /\ typed # None /\ heard # None
    /\ heard.verdict # "Verified"
    /\ BeginSearch(Console)
    /\ UNCHANGED <<host, mishaps, file, requests, supervisor, history>>

Searches(s) ==
    \/ \E x \in Address : Ask(s, x)
    \/ HearVerified(s)
    \/ HearRefused(s)
    \/ HearOther(s)
    \/ EndSearch(s)
    \/ s = Console /\ (AskTyped \/ HearTyped)

-----------------------------------------------------------------------------
(* The watcher and the console.                                            *)

(* check: a remembered failure is not an answer.                           *)
WatcherSeesRoute ==
    /\ MutexFree /\ ReadyRoute
    /\ ToldFound
    /\ UNCHANGED <<host, mishaps, file, core, search, requests, history>>

WatcherSearches ==
    /\ MutexFree /\ ~ReadyRoute
    /\ BeginSearch(Watcher)
    /\ UNCHANGED <<host, mishaps, file, requests, supervisor, history>>

(* reconnect, with an address or without.                                  *)
Reconnect(x) ==
    /\ MutexFree
    /\ seeker' = Console /\ typed' = x
    /\ state' = file
    /\ tried' = {} /\ heard' = None /\ finding' = "NotFound"
    /\ UNCHANGED <<host, mishaps, file, verified, doubted, failure, cooling, requests,
                   supervisor, history>>

-----------------------------------------------------------------------------
(* A request.                                                              *)

Arrive(r) ==
    /\ pc[r] = "new"
    /\ Goto(r, "routing")
    /\ UNCHANGED <<host, mishaps, file, core, search, retried, route, delivered, supervisor,
                   history>>

TakeRoute(r) ==
    /\ pc[r] = "routing" /\ MutexFree
    /\ ReadyRoute
    /\ Goto(r, "sending")
    /\ route' = [route EXCEPT ![r] =
            [address |-> verified, credential |-> state.credential]]
    /\ UNCHANGED <<host, mishaps, file, core, search, retried, delivered, supervisor, history>>

TakeRefusal(r) ==
    /\ pc[r] = "routing" /\ MutexFree
    /\ ReadyRefusal
    /\ Goto(r, "done")
    /\ UNCHANGED <<host, mishaps, file, core, search, retried, route, delivered, supervisor,
                   history>>

StartSearch(r) ==
    /\ pc[r] = "routing" /\ MutexFree
    /\ ~ReadyRefusal /\ ~ReadyRoute
    /\ BeginSearch(r)
    /\ UNCHANGED <<host, mishaps, file, requests, supervisor, history>>

(* request_waits ran out before somebody else's search ended.              *)
Busy(r) ==
    /\ pc[r] = "routing" /\ seeker \notin {None, r}
    /\ Goto(r, "done")
    /\ UNCHANGED <<host, mishaps, file, core, search, retried, route, delivered, supervisor,
                   history>>

Arrives(r) == delivered' = [delivered EXCEPT ![r] = @ + 1]

SendAnswered(r) ==
    /\ pc[r] = "sending"
    /\ route[r].address = at
    /\ Arrives(r)
    /\ Goto(r, IF route[r].credential \in live THEN "done" ELSE "learning")
    /\ UNCHANGED <<host, mishaps, file, core, search, retried, route, supervisor, history>>

(* Nobody listens there: it cannot have arrived, and is tried once more    *)
(* after looking again.  (Another installation answers as it sees fit.)    *)
SendUnconnected(r) ==
    /\ pc[r] = "sending"
    /\ route[r].address # at
    /\ Goto(r, IF retried[r] \/ route[r].address \in Elsewhere THEN "done" ELSE "doubting")
    /\ UNCHANGED <<host, mishaps, file, core, search, retried, route, delivered, supervisor,
                   history>>

(* A connection that was cut, or no answer in time: it may have arrived.   *)
AfterCut_Retry(r) ==                \* seeded fault: every failure is retried
    IF retried[r] THEN "done" ELSE "doubting"

AfterCut(r) == "done"

SendCut(r) ==
    /\ pc[r] = "sending"
    /\ route[r].address = at
    /\ Mishap
    /\ Arrives(r) \/ UNCHANGED delivered
    /\ Goto(r, AfterCut(r))
    /\ UNCHANGED <<host, file, core, search, retried, route, supervisor, history>>

(* doubt, after a failure to connect and after a 401: it waits for the     *)
(* mutex, however long a search has it.                                    *)
Doubt_IfFree(r) ==                  \* seeded fault: try_lock
    /\ pc[r] \in {"doubting", "learning"}
    /\ doubted' = (doubted \/ MutexFree)
    /\ retried' = [retried EXCEPT ![r] = TRUE]
    /\ warned' = IF pc[r] = "learning" THEN warned \cup {route[r].credential} ELSE warned
    /\ Goto(r, IF pc[r] = "learning" THEN "done" ELSE "routing")
    /\ UNCHANGED <<host, mishaps, file, state, verified, failure, cooling, search, route,
                   delivered, supervisor, burst>>

Doubt(r) ==
    /\ pc[r] \in {"doubting", "learning"}
    /\ MutexFree
    /\ doubted' = TRUE
    /\ retried' = [retried EXCEPT ![r] = TRUE]
    /\ warned' = IF pc[r] = "learning" THEN warned \cup {route[r].credential} ELSE warned
    /\ Goto(r, IF pc[r] = "learning" THEN "done" ELSE "routing")
    /\ UNCHANGED <<host, mishaps, file, state, verified, failure, cooling, search, route,
                   delivered, supervisor, burst>>

(* The client left: its handler is dropped, and a search it held with it.  *)
Leave_Holding(r) ==                 \* seeded fault: the mutex stays taken
    /\ pc[r] \notin {"new", "done"}
    /\ Goto(r, "done")
    /\ UNCHANGED <<host, mishaps, file, core, search, retried, route, delivered, supervisor,
                   history>>

Leave(r) ==
    /\ pc[r] \notin {"new", "done"}
    /\ Goto(r, "done")
    /\ seeker' = IF seeker = r THEN None ELSE seeker
    /\ UNCHANGED <<host, mishaps, file, core, tried, heard, finding, typed, retried, route,
                   delivered, supervisor, history>>

-----------------------------------------------------------------------------
(* Time, the host and the operator.                                        *)

(* reverify_after is over.                                                 *)
Age ==
    /\ verified # None /\ ~doubted
    /\ doubted' = TRUE
    /\ UNCHANGED <<host, mishaps, file, state, verified, failure, cooling, search, requests,
                   supervisor, history>>

(* rescan_cooldown or revoked_recheck is over.                             *)
Cool ==
    /\ cooling
    /\ cooling' = FALSE
    /\ burst' = 0
    /\ UNCHANGED <<host, mishaps, file, state, verified, doubted, failure, search, requests,
                   supervisor, warned>>

Move(x) ==
    /\ moves < MaxMoves
    /\ moves' = moves + 1
    /\ at' = x
    /\ UNCHANGED <<live, mishaps, file, core, search, requests, supervisor, history>>

Revoke(c) ==
    /\ c \in live
    /\ live' = live \ {c}
    /\ UNCHANGED <<at, moves, mishaps, file, core, search, requests, supervisor, history>>

(* bridge pair, with the host reachable: it writes the file.               *)
Pair ==
    /\ at # None
    /\ file.credential < MaxPairings
    /\ file' = [credential |-> file.credential + 1, known |-> {at}]
    /\ live' = live \cup {file.credential + 1}
    /\ UNCHANGED <<at, moves, mishaps, core, search, requests, supervisor, history>>

-----------------------------------------------------------------------------
Advance(r) ==
    \/ TakeRoute(r)
    \/ TakeRefusal(r)
    \/ StartSearch(r)
    \/ SendAnswered(r)
    \/ SendUnconnected(r)
    \/ Doubt(r)

BridgeNext ==
    \/ \E r \in Request :
        Arrive(r) \/ Advance(r) \/ Busy(r) \/ SendCut(r) \/ Leave(r)
    \/ \E s \in Seeker : Searches(s)
    \/ WatcherSeesRoute
    \/ WatcherSearches
    \/ \E x \in Address \cup {None} : Reconnect(x)
    \/ BecomesOverdue
    \/ Age
    \/ Cool
    \/ \E x \in Address \cup {None} : Move(x)
    \/ \E c \in Credential : Revoke(c)
    \/ Pair

BridgeSpec == BridgeInit /\ [][BridgeNext]_bridgeVars

-----------------------------------------------------------------------------
(* Properties.                                                             *)

(* SendFailure: "the request cannot have reached the host" is the only     *)
(* failure that is retried: no request is delivered twice, wherever the    *)
(* host moves meanwhile.                                                   *)
DeliveredOnce == \A r \in Request : delivered[r] <= 1

(* rescan_cooldown "shields the host from a burst of requests": until it is*)
(* over, one search that fails is all that requests cost.                  *)
BurstCostsOneSearch == burst <= 1

(* learn_from: once a 401 has been taken in, nothing is sent with that     *)
(* credential that was not on its way already, searches that were running  *)
(* notwithstanding.                                                        *)
RefusedCredentialsRest ==
    [][\A r \in Request :
        pc[r] # "sending" /\ pc'[r] = "sending" => route'[r].credential \notin warned]_bridgeVars

(* Every request ends, whoever leaves in the middle of a search.           *)
RequestsEnd == \A r \in Request : []<>(pc[r] \in {"new", "done"})

(* The bridge has the host, or has said that it has not, and what the       *)
(* person was told last is so.                                              *)
TellsTheTruth ==
    IF at # None /\ file.credential \in live
    THEN verified = at /\ ~lostTold /\ ~needsPairTold
    ELSE lostTold \/ needsPairTold
=============================================================================
