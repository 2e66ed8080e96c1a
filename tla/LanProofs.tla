------------------------------ MODULE LanProofs ------------------------------
(* Theorems about how a client reaches its host: Bridge, for every number  *)
(* of requests, addresses, pairings, moves of the host and mishaps; Daemon,*)
(* for every number of addresses and visitors; and what MCLan makes of the *)
(* two.                                                                    *)
EXTENDS MCLan, TLAPS

-----------------------------------------------------------------------------
(* Bridge.                                                                 *)

(* The inductive invariant.                                                *)

(* What is not past its sending has not been delivered.                    *)
Undelivered ==
    \A r \in Request :
        /\ pc[r] \in {"new", "routing", "sending", "doubting"} => delivered[r] = 0
        /\ delivered[r] <= 1

(* Credentials only get newer: the file's is no older than the core's, and *)
(* that no older than the ones that requests carry or were warned of.      *)
Behind ==
    /\ state.credential <= file.credential
    /\ \A r \in Request : pc[r] \in {"sending", "doubting", "learning"} =>
           route[r] \in Route /\ route[r].credential <= state.credential
    /\ \A r \in Request : pc[r] = "learning" => route[r].credential \notin live
    /\ \A c \in warned : c <= state.credential /\ c \notin live

(* A credential that was refused has not been verified since.              *)
Sure ==
    /\ seeker # None /\ heard # None /\ heard.verdict = "Verified"
       => state.credential \notin warned
    /\ verified # None /\ ~doubted => state.credential \notin warned

(* After a search failed, the failure cools until something clears burst.  *)
Sheltered ==
    /\ burst <= 1
    /\ burst # 0 => ReadyRefusal
    /\ seeker \in Request => burst = 0

BridgeInv == BridgeTypeOK /\ Undelivered /\ Behind /\ Sure /\ Sheltered

LEMMA BridgeStarts == BridgeInit => BridgeInv
<1> SUFFICES ASSUME BridgeInit PROVE BridgeInv
  OBVIOUS
<1>1. 1 \in Credential
  BY BridgeAssumption DEF Credential
<1>2. file \in State
  BY <1>1 DEF BridgeInit, State
<1>3. BridgeTypeOK
  <2>1. live \subseteq Credential /\ moves \in 0..MaxMoves /\ mishaps \in 0..MaxMishaps
    BY <1>1, BridgeAssumption DEF BridgeInit
  <2>2. /\ pc \in [Request -> {"new", "routing", "sending", "doubting", "learning", "done"}]
        /\ retried \in [Request -> BOOLEAN]
        /\ route \in [Request -> Route \cup {None}]
        /\ delivered \in [Request -> 0..2]
    BY DEF BridgeInit
  <2>3. finding \in Finding /\ state \in State
    BY <1>2 DEF BridgeInit, Finding
  <2>4. burst \in Nat /\ warned \subseteq Credential
    BY DEF BridgeInit
  <2> QED
    BY <1>2, <2>1, <2>2, <2>3, <2>4 DEF BridgeInit, BridgeTypeOK
<1>4. state.credential = 1 /\ file.credential = 1
  BY DEF BridgeInit
<1> QED
  BY <1>3, <1>4, SeekerAssumption
     DEF BridgeInit, BridgeInv, Undelivered, Behind, Sure, Sheltered, ReadyRefusal, Seeker

(* The types of what steps work with.                                      *)
LEMMA Types ==
    ASSUME BridgeInv
    PROVE  /\ file \in State /\ state \in State
           /\ file.credential \in Credential /\ state.credential \in Credential
           /\ file.credential \in Nat /\ state.credential \in Nat
           /\ Credential \subseteq Nat
           /\ pc \in [Request -> {"new", "routing", "sending", "doubting", "learning", "done"}]
           /\ retried \in [Request -> BOOLEAN]
           /\ route \in [Request -> Route \cup {None}]
           /\ delivered \in [Request -> 0..2]
           /\ burst \in Nat
           /\ \A s \in Seeker : s # None
           /\ mishaps \in 0..MaxMishaps
           /\ heard # None => heard \in Heard
  BY BridgeAssumption, SeekerAssumption DEF BridgeInv, BridgeTypeOK, State, Credential

-----------------------------------------------------------------------------
(* Searching.                                                              *)

(* A search that begins reads the file, whose credential is the core's or  *)
(* one nobody has been warned of.                                          *)
LEMMA BeginKeeps ==
    ASSUME BridgeInv, NEW s \in Seeker, BeginSearch(s),
           s \in Request => burst = 0,
           UNCHANGED <<host, mishaps, file, requests, supervisor, history>>
    PROVE  BridgeInv'
<1>0. /\ state' = file /\ seeker' = s /\ tried' = {} /\ heard' = None
      /\ finding' = "NotFound" /\ typed' = None
      /\ UNCHANGED <<verified, doubted, failure, cooling>>
      /\ UNCHANGED <<at, live, moves, mishaps, file, pc, retried, route, delivered,
                     lostTold, needsPairTold, overdue, warned, burst>>
  BY DEF BeginSearch, host, requests, supervisor, history
<1>1. BridgeTypeOK'
  BY <1>0 DEF BridgeInv, BridgeTypeOK, Finding
<1>2. Undelivered'
  BY <1>0 DEF BridgeInv, Undelivered
<1>3. Behind'
  <2>1. \A r \in Request : route[r] \in Route => route[r].credential \in Nat
    BY Types DEF Route
  <2>2. \A c \in warned : c \in Nat
    BY Types DEF BridgeInv, BridgeTypeOK
  <2> QED
    BY <1>0, <2>1, <2>2, Types DEF BridgeInv, Behind
<1>4. Sure'
  <2>1. file.credential \in warned => file.credential = state.credential
    BY Types DEF BridgeInv, Behind
  <2> QED
    BY <1>0, <2>1 DEF BridgeInv, Sure
<1>5. Sheltered'
  BY <1>0 DEF BridgeInv, Sheltered, ReadyRefusal
<1> QED
  BY <1>1, <1>2, <1>3, <1>4, <1>5 DEF BridgeInv

LEMMA ReconnectKeeps ==
    ASSUME BridgeInv, NEW x \in Address \cup {None}, Reconnect(x)
    PROVE  BridgeInv'
<1>0. /\ state' = file /\ seeker' = Console /\ tried' = {} /\ heard' = None
      /\ finding' = "NotFound" /\ typed' = x
      /\ UNCHANGED <<verified, doubted, failure, cooling>>
      /\ UNCHANGED <<at, live, moves, mishaps, file, pc, retried, route, delivered,
                     lostTold, needsPairTold, overdue, warned, burst>>
  BY DEF Reconnect, host, requests, supervisor, history
<1>1. BridgeTypeOK'
  BY <1>0 DEF BridgeInv, BridgeTypeOK, Finding, Seeker
<1>2. Undelivered'
  BY <1>0 DEF BridgeInv, Undelivered
<1>3. Behind'
  <2>1. \A r \in Request : route[r] \in Route => route[r].credential \in Nat
    BY Types DEF Route
  <2>2. \A c \in warned : c \in Nat
    BY Types DEF BridgeInv, BridgeTypeOK
  <2> QED
    BY <1>0, <2>1, <2>2, Types DEF BridgeInv, Behind
<1>4. Sure'
  <2>1. file.credential \in warned => file.credential = state.credential
    BY Types DEF BridgeInv, Behind
  <2> QED
    BY <1>0, <2>1 DEF BridgeInv, Sure
<1>5. Sheltered'
  BY <1>0, SeekerAssumption DEF BridgeInv, Sheltered, ReadyRefusal
<1> QED
  BY <1>1, <1>2, <1>3, <1>4, <1>5 DEF BridgeInv

(* Questions and answers that end nothing.                                 *)
LEMMA AsksKeep ==
    ASSUME BridgeInv, NEW s \in Seeker,
           \/ \E x \in Address : Ask(s, x)
           \/ s = Console /\ AskTyped
           \/ HearOther(s)
    PROVE  BridgeInv'
<1>0. /\ UNCHANGED <<at, live, moves, mishaps, file, state, verified, doubted, failure, cooling,
                     seeker, typed, pc, retried, route, delivered, lostTold, needsPairTold,
                     overdue, warned, burst>>
  BY DEF Ask, AskTyped, HearOther, host, core, requests, supervisor, history
<1>1. tried' \subseteq Address /\ heard' \in Heard \cup {None} /\ finding' \in Finding
  <2>1. ASSUME NEW x \in Address, Ask(s, x)
        PROVE  tried' \subseteq Address /\ heard' \in Heard \cup {None} /\ finding' \in Finding
    BY <2>1 DEF Ask, BridgeInv, BridgeTypeOK, Heard, Verdict
  <2>2. CASE AskTyped
    BY <2>2 DEF AskTyped, BridgeInv, BridgeTypeOK, Heard, Verdict
  <2>3. CASE HearOther(s)
    BY <2>3 DEF HearOther, BridgeInv, BridgeTypeOK, Louder, Finding
  <2> QED
    BY <2>1, <2>2, <2>3
<1>2. BridgeTypeOK'
  BY <1>0, <1>1 DEF BridgeInv, BridgeTypeOK
<1>3. Undelivered' /\ Behind' /\ Sheltered'
  BY <1>0 DEF BridgeInv, Undelivered, Behind, Sheltered, ReadyRefusal
<1>4. Sure'
  <2>1. heard' # None /\ heard'.verdict = "Verified" => state.credential \in live
    BY DEF Ask, AskTyped, HearOther, Verdict
  <2> QED
    BY <1>0, <2>1 DEF BridgeInv, Behind, Sure
<1> QED
  BY <1>2, <1>3, <1>4 DEF BridgeInv

(* The host was found: the credential it was found with has not been       *)
(* refused, for doubts wait for the search to end.                         *)
LEMMA FoundKeeps ==
    ASSUME BridgeInv, NEW s \in Seeker, HearVerified(s)
    PROVE  BridgeInv'
<1> DEFINE x == heard.address
<1>0. /\ seeker = s /\ heard # None /\ heard.verdict = "Verified"
      /\ s \in Request => pc[s] = "routing"
      /\ seeker' = None /\ heard' = None /\ typed' = None
      /\ verified' = x /\ failure' = None /\ cooling' = FALSE /\ doubted' = FALSE
      /\ burst' = 0
      /\ file' \in {file, Healed(x)} /\ state' \in {state, Healed(x)}
      /\ file' = Healed(x) \/ file' = file
      /\ UNCHANGED <<at, live, moves, tried, finding, warned>>
      /\ mishaps' = mishaps \/ Mishap
      /\ Found(s, x)
  BY DEF HearVerified, Searching, Adopt, host
<1>1. x \in Address
  BY <1>0, Types DEF Heard
<1>2. Healed(x) \in State /\ Healed(x).credential = state.credential
  BY <1>1, Types DEF Healed, State
<1>3. /\ file' \in State /\ state' \in State
      /\ state'.credential = state.credential
      /\ state.credential <= file'.credential
      /\ mishaps' \in 0..MaxMishaps
  BY <1>0, <1>2, Types, BridgeAssumption DEF BridgeInv, Behind, Mishap
<1>4. lostTold' \in BOOLEAN /\ needsPairTold' \in BOOLEAN /\ overdue' \in BOOLEAN
  BY <1>0 DEF Found, ToldFound, supervisor, BridgeInv, BridgeTypeOK
<1>5. state.credential \notin warned
  BY <1>0, Types DEF BridgeInv, Sure
<1>6. /\ retried' = retried /\ delivered' = delivered
      /\ \/ UNCHANGED <<pc, route>>
         \/ /\ s \in Request /\ pc[s] = "routing"
            /\ pc' = [pc EXCEPT ![s] = "sending"]
            /\ route' = [route EXCEPT ![s] =
                    [address |-> x, credential |-> state.credential]]
  BY <1>0 DEF Found, Goto, requests
<1>7. [address |-> x, credential |-> state.credential] \in Route
  BY <1>1, Types DEF Route
<1> HIDE DEF x
<1>8. /\ pc' \in [Request -> {"new", "routing", "sending", "doubting", "learning", "done"}]
      /\ route' \in [Request -> Route \cup {None}]
  BY <1>6, <1>7, Types
<1>9. BridgeTypeOK'
  BY <1>0, <1>1, <1>3, <1>4, <1>6, <1>8 DEF BridgeInv, BridgeTypeOK
<1>10. Undelivered'
  BY <1>6, Types DEF BridgeInv, Undelivered
<1>11. Behind'
  <2>1. \A r \in Request : pc'[r] \in {"sending", "doubting", "learning"} =>
            route'[r] \in Route /\ route'[r].credential <= state.credential
    BY <1>6, <1>7, Types DEF BridgeInv, Behind
  <2>2. \A r \in Request : pc'[r] = "learning" => route'[r].credential \notin live
    BY <1>6, Types DEF BridgeInv, Behind
  <2> QED
    BY <1>0, <1>3, <2>1, <2>2 DEF BridgeInv, Behind
<1>12. Sure'
  BY <1>0, <1>3, <1>5 DEF Sure
<1>13. Sheltered'
  BY <1>0, SeekerAssumption DEF Sheltered, Seeker
<1> QED
  BY <1>9, <1>10, <1>11, <1>12, <1>13 DEF BridgeInv

(* The search failed: whoever it was for, the failure is kept.             *)
LEMMA LostKeeps ==
    ASSUME BridgeInv, NEW s \in Seeker, HearRefused(s) \/ EndSearch(s)
    PROVE  BridgeInv'
<1>0. PICK why \in Finding :
      /\ seeker = s /\ typed = None
      /\ s \in Request => pc[s] = "routing"
      /\ seeker' = None /\ heard' = None
      /\ verified' = None /\ failure' = why /\ cooling' = TRUE
      /\ UNCHANGED <<file, state, doubted, at, live, moves, tried, finding, typed, warned>>
      /\ mishaps' = mishaps \/ Mishap
      /\ NotFound(s, why)
  BY DEF HearRefused, EndSearch, Sweeping, Searching, Fail, host, Finding, BridgeInv,
     BridgeTypeOK
<1>1. /\ retried' = retried /\ delivered' = delivered /\ route' = route
      /\ \/ pc' = pc
         \/ s \in Request /\ pc' = [pc EXCEPT ![s] = "done"]
      /\ burst' = IF s \in Request THEN burst + 1 ELSE burst
      /\ lostTold' \in BOOLEAN /\ needsPairTold' \in BOOLEAN /\ overdue' \in BOOLEAN
  BY <1>0 DEF NotFound, Goto, requests, ToldMissing, NeedsPair, supervisor, BridgeInv,
     BridgeTypeOK
<1>2. mishaps' \in 0..MaxMishaps
  BY <1>0, Types, BridgeAssumption DEF Mishap
<1>3. BridgeTypeOK'
  <2>1. /\ pc' \in [Request -> {"new", "routing", "sending", "doubting", "learning", "done"}]
        /\ burst' \in Nat
    BY <1>1, Types
  <2> QED
    BY <1>0, <1>1, <1>2, <2>1 DEF BridgeInv, BridgeTypeOK
<1>4. Undelivered'
  BY <1>1, Types DEF BridgeInv, Undelivered
<1>5. Behind'
  BY <1>0, <1>1, Types DEF BridgeInv, Behind
<1>6. Sure'
  BY <1>0 DEF Sure
<1>7. Sheltered'
  BY <1>0, <1>1, SeekerAssumption, Types DEF BridgeInv, Sheltered, ReadyRefusal, Seeker
<1> QED
  BY <1>3, <1>4, <1>5, <1>6, <1>7 DEF BridgeInv

LEMMA SearchesKeep ==
    ASSUME BridgeInv, NEW s \in Seeker, Searches(s)
    PROVE  BridgeInv'
<1>1. CASE HearTyped /\ s = Console
  <2>1. Console \in Seeker /\ Console \notin Request
    BY SeekerAssumption DEF Seeker
  <2> QED
    BY <1>1, <2>1, BeginKeeps DEF HearTyped
<1> QED
  BY <1>1, AsksKeep, FoundKeeps, LostKeeps DEF Searches

-----------------------------------------------------------------------------
(* Requests.                                                               *)

(* A request that goes on or ends, with what else is known of it.          *)
LEMMA MovingOn ==
    ASSUME BridgeInv, NEW r \in Request,
           NEW l \in {"routing", "sending", "doubting", "learning", "done"},
           NEW d \in {0, 1}, NEW f \in Route \cup {None}, NEW was \in BOOLEAN,
           pc' = [pc EXCEPT ![r] = l],
           delivered' = [delivered EXCEPT ![r] = d],
           route' = [route EXCEPT ![r] = f],
           retried' = [retried EXCEPT ![r] = was],
           UNCHANGED <<at, live, moves, file, state, verified, failure, cooling,
                       lostTold, needsPairTold, overdue, burst>>,
           mishaps' \in 0..MaxMishaps,
           \/ UNCHANGED <<doubted, warned>>
           \/ /\ doubted' = TRUE
              /\ warned' \subseteq warned \cup {f.credential}
              /\ f.credential \in Credential /\ f.credential \notin live
              /\ f.credential <= state.credential
              /\ seeker = None
           \/ doubted' = TRUE /\ warned' = warned,
           UNCHANGED <<tried, heard, finding, typed>>,
           seeker' = seeker \/ (seeker = r /\ seeker' = None),
           l # "done" /\ l # "learning" => d = 0,
           l \in {"sending", "doubting", "learning"} =>
               f \in Route /\ f.credential <= state.credential,
           l = "learning" => f.credential \notin live
    PROVE  BridgeInv'
<1>0. r # None /\ r # Console /\ r \in Seeker
  BY SeekerAssumption DEF Seeker
<1>1. /\ pc' \in [Request -> {"new", "routing", "sending", "doubting", "learning", "done"}]
      /\ delivered' \in [Request -> 0..2]
      /\ route' \in [Request -> Route \cup {None}]
      /\ retried' \in [Request -> BOOLEAN]
      /\ warned' \subseteq Credential
      /\ doubted' \in BOOLEAN
  <2>1. 0 \in 0..2 /\ 1 \in 0..2
    OBVIOUS
  <2> QED
    BY <2>1, Types DEF BridgeInv, BridgeTypeOK
<1>2. BridgeTypeOK'
  BY <1>0, <1>1 DEF BridgeInv, BridgeTypeOK
<1>3. Undelivered'
  BY Types DEF BridgeInv, Undelivered
<1>4. Behind'
  <2>1. \A q \in Request : pc'[q] \in {"sending", "doubting", "learning"} =>
            route'[q] \in Route /\ route'[q].credential <= state.credential
    BY Types DEF BridgeInv, Behind
  <2>2. \A q \in Request : pc'[q] = "learning" => route'[q].credential \notin live
    BY Types DEF BridgeInv, Behind
  <2>3. \A c \in warned' : c <= state.credential /\ c \notin live
    BY DEF BridgeInv, Behind
  <2> QED
    BY <2>1, <2>2, <2>3 DEF BridgeInv, Behind
<1>5. Sure'
  BY <1>0 DEF BridgeInv, Sure
<1>6. Sheltered'
  BY <1>0, SeekerAssumption DEF BridgeInv, Sheltered, ReadyRefusal, Seeker
<1> QED
  BY <1>2, <1>3, <1>4, <1>5, <1>6 DEF BridgeInv

(* What a step that only moves a request leaves alone.                     *)
Resting ==
    UNCHANGED <<at, live, moves, file, state, verified, doubted, failure, cooling, tried, heard,
                finding, typed, lostTold, needsPairTold, overdue, warned, burst>>

LEMMA RequestsKeep ==
    ASSUME BridgeInv, NEW r \in Request,
           \/ Arrive(r) \/ TakeRoute(r) \/ TakeRefusal(r) \/ Busy(r) \/ SendAnswered(r)
           \/ SendUnconnected(r) \/ SendCut(r) \/ Doubt(r) \/ Leave(r)
    PROVE  BridgeInv'
<1>0. /\ delivered = [delivered EXCEPT ![r] = delivered[r]]
      /\ route = [route EXCEPT ![r] = route[r]]
      /\ retried = [retried EXCEPT ![r] = retried[r]]
      /\ delivered[r] \in {0, 1} /\ route[r] \in Route \cup {None} /\ retried[r] \in BOOLEAN
      /\ mishaps \in 0..MaxMishaps
  BY Types DEF BridgeInv, Undelivered
<1>1. CASE Arrive(r)
  <2>1. pc[r] = "new" /\ delivered[r] = 0 /\ pc' = [pc EXCEPT ![r] = "routing"]
    BY <1>1 DEF Arrive, Goto, BridgeInv, Undelivered
  <2>2. Resting /\ UNCHANGED <<seeker, mishaps, retried, route, delivered>>
    BY <1>1 DEF Arrive, Resting, host, core, search, supervisor, history
  <2> QED
    BY <1>0, <2>1, <2>2, MovingOn DEF Resting
<1>2. CASE TakeRoute(r)
  <2> DEFINE f == [address |-> verified, credential |-> state.credential]
  <2>1. /\ pc[r] = "routing" /\ delivered[r] = 0
        /\ pc' = [pc EXCEPT ![r] = "sending"]
        /\ route' = [route EXCEPT ![r] = f]
        /\ verified # None
    BY <1>2 DEF TakeRoute, Goto, ReadyRoute, BridgeInv, Undelivered
  <2>2. f \in Route /\ f.credential <= state.credential
    BY <2>1, Types DEF BridgeInv, BridgeTypeOK, Route
  <2>3. Resting /\ UNCHANGED <<seeker, mishaps, retried, delivered>>
    BY <1>2 DEF TakeRoute, Resting, host, core, search, supervisor, history
  <2> HIDE DEF f
  <2> QED
    BY <1>0, <2>1, <2>2, <2>3, MovingOn DEF Resting
<1>3. CASE TakeRefusal(r) \/ Busy(r)
  <2>1. pc' = [pc EXCEPT ![r] = "done"]
    BY <1>3 DEF TakeRefusal, Busy, Goto
  <2>2. Resting /\ UNCHANGED <<seeker, mishaps, retried, route, delivered>>
    BY <1>3 DEF TakeRefusal, Busy, Resting, host, core, search, supervisor, history
  <2> QED
    BY <1>0, <2>1, <2>2, MovingOn DEF Resting
<1>4. CASE SendAnswered(r)
  <2> DEFINE l == IF route[r].credential \in live THEN "done" ELSE "learning"
  <2>1. /\ pc[r] = "sending" /\ delivered[r] = 0
        /\ pc' = [pc EXCEPT ![r] = l]
        /\ delivered' = [delivered EXCEPT ![r] = delivered[r] + 1]
        /\ route[r] \in Route /\ route[r].credential <= state.credential
    BY <1>4 DEF SendAnswered, Goto, Arrives, BridgeInv, Undelivered, Behind
  <2>2. Resting /\ UNCHANGED <<seeker, mishaps, retried, route>>
    BY <1>4 DEF SendAnswered, Resting, host, core, search, supervisor, history
  <2>3. delivered' = [delivered EXCEPT ![r] = 1]
    BY <2>1
  <2>4. l \in {"done", "learning"} /\ (l = "learning" => route[r].credential \notin live)
    OBVIOUS
  <2> HIDE DEF l
  <2> QED
    BY <1>0, <2>1, <2>2, <2>3, <2>4, MovingOn DEF Resting
<1>5. CASE SendUnconnected(r)
  <2> DEFINE l == IF retried[r] \/ route[r].address \in Elsewhere THEN "done" ELSE "doubting"
  <2>1. /\ pc[r] = "sending" /\ delivered[r] = 0
        /\ pc' = [pc EXCEPT ![r] = l]
        /\ route[r] \in Route /\ route[r].credential <= state.credential
    BY <1>5 DEF SendUnconnected, Goto, BridgeInv, Undelivered, Behind
  <2>2. Resting /\ UNCHANGED <<seeker, mishaps, retried, route, delivered>>
    BY <1>5 DEF SendUnconnected, Resting, host, core, search, supervisor, history
  <2>3. l \in {"done", "doubting"}
    OBVIOUS
  <2> HIDE DEF l
  <2> QED
    BY <1>0, <2>1, <2>2, <2>3, MovingOn DEF Resting
<1>6. CASE SendCut(r)
  <2>1. /\ pc[r] = "sending" /\ delivered[r] = 0
        /\ pc' = [pc EXCEPT ![r] = "done"]
        /\ mishaps' \in 0..MaxMishaps
    BY <1>6, Types, BridgeAssumption DEF SendCut, Goto, AfterCut, Mishap, BridgeInv, Undelivered
  <2>2. Resting /\ UNCHANGED <<seeker, retried, route>>
    BY <1>6 DEF SendCut, Resting, host, core, search, supervisor, history
  <2>3. \/ delivered' = [delivered EXCEPT ![r] = 0]
        \/ delivered' = [delivered EXCEPT ![r] = 1]
    BY <1>0, <1>6, <2>1 DEF SendCut, Arrives
  <2>4. 0 \in {0, 1} /\ 1 \in {0, 1}
    OBVIOUS
  <2> QED
    BY <1>0, <2>1, <2>2, <2>3, <2>4, MovingOn DEF Resting
<1>7. CASE Doubt(r)
  <2>0. /\ pc[r] \in {"doubting", "learning"}
        /\ seeker = None
        /\ doubted' = TRUE
        /\ retried' = [retried EXCEPT ![r] = TRUE]
        /\ UNCHANGED <<at, live, moves, file, state, verified, failure, cooling, seeker, tried,
                       heard, finding, typed, mishaps, route, delivered, lostTold,
                       needsPairTold, overdue, burst>>
    BY <1>7 DEF Doubt, MutexFree, host, search, supervisor
  <2>1. CASE pc[r] = "learning"
    <3>1. /\ pc' = [pc EXCEPT ![r] = "done"]
          /\ warned' = warned \cup {route[r].credential}
          /\ route[r] \in Route /\ route[r].credential <= state.credential
          /\ route[r].credential \in Credential /\ route[r].credential \notin live
      BY <1>7, <2>1 DEF Doubt, Goto, BridgeInv, Behind, Route
    <3> QED
      BY <1>0, <2>0, <3>1, MovingOn
  <2>2. CASE pc[r] = "doubting"
    <3>1. /\ pc' = [pc EXCEPT ![r] = "routing"]
          /\ warned' = warned
          /\ delivered[r] = 0
      BY <1>7, <2>2 DEF Doubt, Goto, BridgeInv, Undelivered
    <3> QED
      BY <1>0, <2>0, <3>1, MovingOn
  <2> QED
    BY <2>0, <2>1, <2>2
<1>8. CASE Leave(r)
  <2>1. /\ pc' = [pc EXCEPT ![r] = "done"]
        /\ seeker' = seeker \/ (seeker = r /\ seeker' = None)
    BY <1>8 DEF Leave, Goto
  <2>2. Resting /\ UNCHANGED <<mishaps, retried, route, delivered>>
    BY <1>8 DEF Leave, Resting, host, core, supervisor, history
  <2> QED
    BY <1>0, <2>1, <2>2, MovingOn DEF Resting
<1> QED
  BY <1>1, <1>2, <1>3, <1>4, <1>5, <1>6, <1>7, <1>8

LEMMA StartKeeps ==
    ASSUME BridgeInv, NEW r \in Request, StartSearch(r)
    PROVE  BridgeInv'
<1>1. r \in Seeker /\ burst = 0
  BY DEF StartSearch, Seeker, BridgeInv, Sheltered
<1> QED
  BY <1>1, BeginKeeps DEF StartSearch

-----------------------------------------------------------------------------
(* The watcher, time, the host and the operator.                           *)

LEMMA WatcherKeeps ==
    ASSUME BridgeInv, WatcherSeesRoute \/ WatcherSearches \/ BecomesOverdue
    PROVE  BridgeInv'
<1>1. CASE WatcherSearches
  <2>1. Watcher \in Seeker /\ Watcher \notin Request
    BY SeekerAssumption DEF Seeker
  <2> QED
    BY <1>1, <2>1, BeginKeeps DEF WatcherSearches
<1>2. CASE WatcherSeesRoute \/ BecomesOverdue
  <2>1. /\ UNCHANGED <<at, live, moves, mishaps, file, state, verified, doubted, failure, cooling,
                       seeker, tried, heard, finding, typed, pc, retried, route, delivered,
                       warned, burst>>
        /\ lostTold' \in BOOLEAN /\ needsPairTold' \in BOOLEAN /\ overdue' \in BOOLEAN
    BY <1>2 DEF WatcherSeesRoute, BecomesOverdue, ToldFound, host, core, search,
       requests, history,
       BridgeInv, BridgeTypeOK
  <2> QED
    BY <2>1 DEF BridgeInv, BridgeTypeOK, Undelivered, Behind, Sure, Sheltered, ReadyRefusal
<1> QED
  BY <1>1, <1>2

LEMMA TimeKeeps ==
    ASSUME BridgeInv, Age \/ Cool
    PROVE  BridgeInv'
<1>1. /\ UNCHANGED <<at, live, moves, mishaps, file, state, verified, failure, seeker, tried,
                     heard, finding, typed, pc, retried, route, delivered, lostTold,
                     needsPairTold, overdue, warned>>
      /\ \/ doubted' = TRUE /\ UNCHANGED <<cooling, burst>>
         \/ cooling' = FALSE /\ burst' = 0 /\ doubted' = doubted
  BY DEF Age, Cool, host, search, requests, supervisor, history
<1>2. BridgeTypeOK'
  <2>1. doubted \in BOOLEAN /\ cooling \in BOOLEAN /\ burst \in Nat
    BY DEF BridgeInv, BridgeTypeOK
  <2>2. doubted' \in BOOLEAN
    BY <1>1, <2>1, Zenon
  <2>3. cooling' \in BOOLEAN
    BY <1>1, <2>1, Zenon
  <2>4. burst' \in Nat
    BY <1>1, <2>1
  <2> QED
    BY <1>1, <2>2, <2>3, <2>4 DEF BridgeInv, BridgeTypeOK
<1>3. Undelivered' /\ Behind'
  BY <1>1 DEF BridgeInv, Undelivered, Behind
<1>4. Sure' /\ Sheltered'
  BY <1>1 DEF BridgeInv, Sure, Sheltered, ReadyRefusal
<1> QED
  BY <1>2, <1>3, <1>4 DEF BridgeInv

LEMMA HostKeeps ==
    ASSUME BridgeInv,
           \/ \E x \in Address \cup {None} : Move(x)
           \/ \E c \in Credential : Revoke(c)
    PROVE  BridgeInv'
<1>1. /\ UNCHANGED <<mishaps, file, state, verified, doubted, failure, cooling, seeker, tried,
                     heard, finding, typed, pc, retried, route, delivered, lostTold,
                     needsPairTold, overdue, warned, burst>>
      /\ at' \in Address \cup {None} /\ moves' \in 0..MaxMoves
      /\ live' \subseteq live
  BY BridgeAssumption DEF Move, Revoke, core, search, requests, supervisor, history, BridgeInv,
     BridgeTypeOK
<1>2. BridgeTypeOK'
  BY <1>1 DEF BridgeInv, BridgeTypeOK
<1>3. Undelivered' /\ Behind' /\ Sure' /\ Sheltered'
  BY <1>1 DEF BridgeInv, Undelivered, Behind, Sure, Sheltered, ReadyRefusal
<1> QED
  BY <1>2, <1>3 DEF BridgeInv

(* A device that is paired again gets a credential it never had.           *)
LEMMA PairKeeps ==
    ASSUME BridgeInv, Pair
    PROVE  BridgeInv'
<1> DEFINE new == file.credential + 1
<1>1. /\ UNCHANGED <<at, moves, mishaps, state, verified, doubted, failure, cooling, seeker,
                     tried, heard, finding, typed, pc, retried, route, delivered, lostTold,
                     needsPairTold, overdue, warned, burst>>
      /\ file' = [credential |-> new, known |-> {at}]
      /\ live' = live \cup {new}
      /\ at # None
      /\ file.credential < MaxPairings
  BY DEF Pair, core, search, requests, supervisor, history
<1>2. new \in Credential /\ state.credential < new /\ new \in Nat
  BY <1>1, Types, BridgeAssumption DEF BridgeInv, Behind, Credential
<1> HIDE DEF new
<1>3. BridgeTypeOK'
  <2>1. file' \in State
    BY <1>1, <1>2 DEF State, BridgeInv, BridgeTypeOK
  <2> QED
    BY <1>1, <1>2, <2>1 DEF BridgeInv, BridgeTypeOK
<1>4. Behind'
  <2>1. \A r \in Request : pc[r] = "learning" => route[r].credential \in Nat /\ route[r].credential # new
    <3> SUFFICES ASSUME NEW r \in Request, pc[r] = "learning"
                 PROVE  route[r].credential \in Nat /\ route[r].credential # new
      OBVIOUS
    <3>1. route[r] \in Route /\ route[r].credential <= state.credential
      BY DEF BridgeInv, Behind
    <3>2. route[r].credential \in Credential
      BY <3>1 DEF Route
    <3>3. route[r].credential \in Nat /\ state.credential \in Nat
      BY <3>2, Types
    <3> QED
      BY <1>2, <3>1, <3>3
  <2>2. \A c \in warned : c # new
    BY <1>2, Types DEF BridgeInv, BridgeTypeOK, Behind
  <2>3. file'.credential = new
    BY <1>1
  <2> QED
    BY <1>1, <1>2, <2>1, <2>2, <2>3, Types DEF BridgeInv, Behind
<1>5. Undelivered' /\ Sure' /\ Sheltered'
  BY <1>1 DEF BridgeInv, Undelivered, Sure, Sheltered, ReadyRefusal
<1> QED
  BY <1>3, <1>4, <1>5 DEF BridgeInv

LEMMA BridgeKeeps == BridgeInv /\ [BridgeNext]_bridgeVars => BridgeInv'
<1> SUFFICES ASSUME BridgeInv, [BridgeNext]_bridgeVars PROVE BridgeInv'
  OBVIOUS
<1>1. ASSUME NEW r \in Request,
             Arrive(r) \/ Advance(r) \/ Busy(r) \/ SendCut(r) \/ Leave(r)
      PROVE  BridgeInv'
  BY <1>1, RequestsKeep, StartKeeps DEF Advance
<1>2. ASSUME NEW s \in Seeker, Searches(s) PROVE BridgeInv'
  BY <1>2, SearchesKeep
<1>3. ASSUME NEW x \in Address \cup {None}, Reconnect(x) PROVE BridgeInv'
  BY <1>3, ReconnectKeeps
<1>4. CASE UNCHANGED bridgeVars
  <2>1. UNCHANGED <<at, live, moves, mishaps, file, state, verified, doubted, failure, cooling,
                    seeker, tried, heard, finding, typed, pc, retried, route, delivered,
                    lostTold, needsPairTold, overdue, warned, burst>>
    BY <1>4 DEF bridgeVars, host, core, search, requests, supervisor, history
  <2> QED
    BY <2>1 DEF BridgeInv, BridgeTypeOK, Undelivered, Behind, Sure, Sheltered, ReadyRefusal
<1> QED
  BY <1>1, <1>2, <1>3, <1>4, WatcherKeeps, TimeKeeps, HostKeeps, PairKeeps DEF BridgeNext

LEMMA BridgeHolds == BridgeSpec => []BridgeInv
  BY BridgeStarts, BridgeKeeps, PTL DEF BridgeSpec

-----------------------------------------------------------------------------
(* Every reachable state of any number of requests and addresses is well   *)
(* typed.                                                                  *)
THEOREM BridgeTypes == BridgeSpec => []BridgeTypeOK
<1>1. BridgeInv => BridgeTypeOK
  BY DEF BridgeInv
<1> QED
  BY <1>1, BridgeHolds, PTL

(* No request reaches the host twice, wherever the host moves and whoever  *)
(* retries.                                                                *)
THEOREM NothingIsSentTwice == BridgeSpec => []DeliveredOnce
<1>1. BridgeInv => DeliveredOnce
  BY DEF BridgeInv, Undelivered, DeliveredOnce
<1> QED
  BY <1>1, BridgeHolds, PTL

(* However many requests fail at once, they cost the network one search    *)
(* until the cooldown is over.                                             *)
THEOREM BurstsAreSheltered == BridgeSpec => []BurstCostsOneSearch
<1>1. BridgeInv => BurstCostsOneSearch
  BY DEF BridgeInv, Sheltered, BurstCostsOneSearch
<1> QED
  BY <1>1, BridgeHolds, PTL

(* Nothing is sent anew with a credential whose 401 was taken in, searches *)
(* under way, new pairings and old files notwithstanding.                  *)
THEOREM RefusedIsNotSent == BridgeSpec => RefusedCredentialsRest
<1> DEFINE Rests ==
        \A r \in Request :
            pc[r] # "sending" /\ pc'[r] = "sending" => route'[r].credential \notin warned
<1>1. BridgeInv /\ [BridgeNext]_bridgeVars => Rests
  <2> SUFFICES ASSUME BridgeInv, [BridgeNext]_bridgeVars, NEW r \in Request,
                      pc[r] # "sending", pc'[r] = "sending"
               PROVE  route'[r].credential \notin warned
    OBVIOUS
  <2>0. pc \in [Request -> {"new", "routing", "sending", "doubting", "learning", "done"}]
        /\ route \in [Request -> Route \cup {None}]
    BY Types
  <2>1. ASSUME NEW q \in Request, TakeRoute(q)
        PROVE  route'[r].credential \notin warned
    BY <2>0, <2>1 DEF TakeRoute, ReadyRoute, Goto, BridgeInv, Sure
  <2>2. ASSUME NEW s \in Seeker, HearVerified(s)
        PROVE  route'[r].credential \notin warned
    <3>1. seeker = s /\ heard # None /\ heard.verdict = "Verified" /\ s # None
      BY <2>2, Types DEF HearVerified, Searching
    <3>2. state.credential \notin warned
      BY <3>1 DEF BridgeInv, Sure
    <3>3. s = r /\ route'[r].credential = state.credential
      BY <2>0, <2>2 DEF HearVerified, Found, Goto, requests
    <3> QED
      BY <3>2, <3>3
  <2>3. ASSUME NEW q \in Request,
               \/ Arrive(q) \/ TakeRefusal(q) \/ StartSearch(q) \/ SendAnswered(q)
               \/ SendUnconnected(q) \/ Doubt(q) \/ Busy(q) \/ SendCut(q) \/ Leave(q)
        PROVE  FALSE
    BY <2>0, <2>3 DEF Arrive, TakeRefusal, StartSearch, SendAnswered, SendUnconnected, Doubt,
       Busy, SendCut, AfterCut, Leave, Goto, requests
  <2>4. ASSUME NEW s \in Seeker,
               \/ \E x \in Address : Ask(s, x)
               \/ HearRefused(s) \/ HearOther(s) \/ EndSearch(s) \/ AskTyped \/ HearTyped
        PROVE  FALSE
    BY <2>0, <2>4 DEF Ask, HearRefused, HearOther, EndSearch, AskTyped, HearTyped,
       NotFound, Goto,
       requests
  <2>5. UNCHANGED pc => FALSE
    OBVIOUS
  <2>6. CASE WatcherSeesRoute \/ WatcherSearches \/ BecomesOverdue \/ Age \/ Cool \/ Pair
    BY <2>5, <2>6 DEF WatcherSeesRoute, WatcherSearches, BecomesOverdue, Age, Cool,
       Pair, requests
  <2>7. ASSUME NEW x \in Address \cup {None}, Reconnect(x) \/ Move(x)
        PROVE  FALSE
    BY <2>5, <2>7 DEF Reconnect, Move, requests
  <2>8. ASSUME NEW c \in Credential, Revoke(c)
        PROVE  FALSE
    BY <2>5, <2>8 DEF Revoke, requests
  <2>9. CASE UNCHANGED bridgeVars
    BY <2>5, <2>9 DEF bridgeVars, requests
  <2> QED
    BY <2>1, <2>2, <2>3, <2>4, <2>6, <2>7, <2>8, <2>9 DEF BridgeNext, Advance, Searches
<1>2. BridgeSpec => [][Rests]_bridgeVars
  BY <1>1, BridgeHolds, PTL DEF BridgeSpec
<1> QED
  BY <1>2 DEF RefusedCredentialsRest

-----------------------------------------------------------------------------
(* Daemon.                                                                 *)

(* Between two looks what is announced is what is served; while the address*)
(* changes the old one is, and the new one is bound beside it.             *)
Following ==
    /\ loop = "look" => opened = NoLan /\ announced = lan
    /\ loop = "bind" => opened = NoLan /\ wanted \notin {lan, NoLan}
    /\ loop = "swap" => opened # lan
    /\ loop \in {"bind", "swap"} => announced = lan /\ had = lan
    /\ loop = "publish" => opened = NoLan /\ (lan = had => announced = lan)
    /\ loop = "nap" => opened = NoLan

Sockets ==
    loop \in {"look", "bind", "swap", "publish", "nap"} =>
        listening = {Loopback, lan, opened} \ {NoLan}

DaemonInv == DaemonTypeOK /\ Following /\ Sockets

LEMMA DaemonStarts == DaemonInit => DaemonInv
<1> SUFFICES ASSUME DaemonInit PROVE DaemonInv
  OBVIOUS
<1>1. flights \in [Visitor -> [at : Place, kind : {"call", "stream"}] \cup {Landed}]
  BY DEF DaemonInit
<1>2. DaemonTypeOK
  BY <1>1, DaemonAssumption DEF DaemonInit, DaemonTypeOK
<1>3. Following /\ Sockets
  BY DaemonAssumption DEF DaemonInit, Following, Sockets
<1> QED
  BY <1>2, <1>3 DEF DaemonInv

(* The loop of follow.                                                     *)
LEMMA LoopKeeps ==
    ASSUME DaemonInv, Look \/ Bind \/ BindFails \/ Publish \/ Close \/ CloseLan \/ Nap
    PROVE  DaemonInv'
<1> USE DaemonAssumption DEF DaemonInv, DaemonTypeOK, Following, Sockets
<1>1. CASE Look
  BY <1>1 DEF Look, Changed
<1>2. CASE Bind
  BY <1>2 DEF Bind
<1>3. CASE BindFails
  BY <1>3 DEF BindFails
<1>4. CASE Publish
  BY <1>4 DEF Publish
<1>5. CASE Close
  BY <1>5 DEF Close
<1>6. CASE CloseLan
  BY <1>6 DEF CloseLan, Left
<1>7. CASE Nap
  BY <1>7 DEF Nap
<1> QED
  BY <1>1, <1>2, <1>3, <1>4, <1>5, <1>6, <1>7

(* What is in flight outlives the socket it came in by.                    *)
LEMMA FlightsMove ==
    ASSUME DaemonTypeOK, NEW v \in Visitor
    PROVE  (IF flights[v].at = "lan" THEN [flights[v] EXCEPT !.at = "earlier"] ELSE flights[v])
             \in [at : Place, kind : {"call", "stream"}] \cup {Landed}
<1>1. flights[v] \in [at : Place, kind : {"call", "stream"}] \cup {Landed}
  BY DEF DaemonTypeOK
<1>2. "earlier" \in Place
  BY DEF Place
<1>3. CASE flights[v] = Landed
  BY <1>3 DEF Landed
<1>4. CASE flights[v] \in [at : Place, kind : {"call", "stream"}]
  <2>1. [flights[v] EXCEPT !.at = "earlier"] \in [at : Place, kind : {"call", "stream"}]
    BY <1>2, <1>4
  <2> QED
    BY <1>4, <2>1
<1> QED
  BY <1>1, <1>3, <1>4

LEMMA SwapKeeps ==
    ASSUME DaemonInv, Swap
    PROVE  DaemonInv'
<1>1. flights' \in [Visitor -> [at : Place, kind : {"call", "stream"}] \cup {Landed}]
  <2> DEFINE Flight == [at : Place, kind : {"call", "stream"}] \cup {Landed}
             moved(v) == IF flights[v].at = "lan" THEN [flights[v] EXCEPT !.at = "earlier"]
                         ELSE flights[v]
  <2>1. \A v \in Visitor : moved(v) \in Flight
    BY FlightsMove DEF DaemonInv
  <2>2. flights' = [v \in Visitor |-> moved(v)]
    BY DEF Swap
  <2> HIDE DEF Flight, moved
  <2>3. flights' \in [Visitor -> Flight]
    BY <2>1, <2>2
  <2> QED
    BY <2>3 DEF Flight
<1>2. listening' = {Loopback, lan', opened'} \ {NoLan}
  BY DaemonAssumption DEF DaemonInv, DaemonTypeOK, Following, Sockets, Swap
<1>3. Following' /\ Sockets'
  BY <1>2 DEF DaemonInv, Following, Sockets, Swap
<1>4. DaemonTypeOK'
  BY <1>1, <1>2, DaemonAssumption DEF DaemonInv, DaemonTypeOK, Swap
<1> QED
  BY <1>3, <1>4 DEF DaemonInv

LEMMA DownKeeps ==
    ASSUME DaemonInv, Down
    PROVE  DaemonInv'
  BY DaemonAssumption DEF DaemonInv, DaemonTypeOK, Following, Sockets, Down

(* Calls, subscribers, signals and the machine leave the sockets alone.    *)
LEMMA VisitsKeep ==
    ASSUME DaemonInv,
           \/ \E i \in LanAddress \cup {NoLan} : Moves(i)
           \/ \E v \in Visitor, place \in {"loopback", "lan"}, kind \in {"call", "stream"} :
                  Accept(v, place, kind)
           \/ \E v \in Visitor : Land(v)
           \/ Signal
    PROVE  DaemonInv'
<1> USE DEF DaemonInv, DaemonTypeOK, Following, Sockets
<1>1. ASSUME NEW i \in LanAddress \cup {NoLan}, Moves(i)
      PROVE  DaemonInv'
  BY <1>1 DEF Moves
<1>2. ASSUME NEW v \in Visitor, NEW place \in {"loopback", "lan"},
             NEW kind \in {"call", "stream"}, Accept(v, place, kind)
      PROVE  DaemonInv'
  <2>1. [at |-> place, kind |-> kind] \in [at : Place, kind : {"call", "stream"}]
    BY DEF Place
  <2> QED
    BY <1>2, <2>1 DEF Accept
<1>3. ASSUME NEW v \in Visitor, Land(v)
      PROVE  DaemonInv'
  BY <1>3 DEF Land
<1>4. CASE Signal
  BY <1>4 DEF Signal
<1> QED
  BY <1>1, <1>2, <1>3, <1>4

LEMMA DaemonKeeps == DaemonInv /\ [DaemonNext]_daemonVars => DaemonInv'
<1> SUFFICES ASSUME DaemonInv, [DaemonNext]_daemonVars PROVE DaemonInv'
  OBVIOUS
<1>1. CASE Tick
  BY <1>1, LoopKeeps, SwapKeeps, DownKeeps DEF Tick
<1>2. CASE Nap
  BY <1>2, LoopKeeps
<1>3. CASE UNCHANGED daemonVars
  BY <1>3 DEF daemonVars, DaemonInv, DaemonTypeOK, Following, Sockets
<1>4. CASE \/ \E i \in LanAddress \cup {NoLan} : loop # "down" /\ Moves(i)
           \/ \E v \in Visitor :
                 \/ \E place \in {"loopback", "lan"}, kind \in {"call", "stream"} :
                       Accept(v, place, kind)
                 \/ Answer(v)
                 \/ Unsubscribe(v)
           \/ Signal
  BY <1>4, VisitsKeep DEF Answer, Unsubscribe
<1> QED
  BY <1>1, <1>2, <1>3, <1>4 DEF DaemonNext

(* At every moment the daemon listens where DaemonTypeOK says: on loopback *)
(* until it is told to stop, and between two looks on the LAN address it   *)
(* announces and on no other.                                              *)
THEOREM DaemonTypes == DaemonSpec => []DaemonTypeOK
<1>1. DaemonInv => DaemonTypeOK
  BY DEF DaemonInv
<1> QED
  BY <1>1, DaemonStarts, DaemonKeeps, PTL DEF DaemonSpec

-----------------------------------------------------------------------------
(* MCLan.                                                                  *)

(* A behaviour of the scenes is one of the bridge and one of the daemon:   *)
(* whatever is proved of them holds of what TLC explores.                  *)
THEOREM ScenesPlayTheirParts == Spec => BridgeSpec /\ DaemonSpec
<1>1. Init => BridgeInit /\ DaemonInit
  BY DEF Init
<1>2. ASSUME [Next]_<<scene, bridgeVars, daemonVars>>
      PROVE  [BridgeNext]_bridgeVars /\ [DaemonNext]_daemonVars
  BY <1>2 DEF Next, BridgeStep, DaemonStep
<1> QED
  BY <1>1, <1>2, PTL DEF Spec, BridgeSpec, DaemonSpec

(* The states of bridge and daemon are well formed in every scene.         *)
THEOREM LanTypes == Spec => []LanTypeOK
<1>1. BridgeTypeOK /\ DaemonTypeOK => LanTypeOK
  BY DEF LanTypeOK
<1> QED
  BY <1>1, ScenesPlayTheirParts, BridgeTypes, DaemonTypes, PTL
=============================================================================
