--------------------------- MODULE WorkspacesProofs ----------------------------
(* Theorems about Workspaces for every number of callers, machines, chats, *)
(* projects and sessions.                                                  *)
EXTENDS Workspaces, SequenceTheorems, TLAPS

-----------------------------------------------------------------------------
(* The inductive invariant.                                                *)

Session == [project : Nat, open : BOOLEAN, by : Caller]
Working == [session : Nat, project : Nat]

Pending ==
    [op : {"idle", "clear"}]
    \cup [op : {"start"}, project : Nat]
    \cup [op : {"replace"}, project : Nat, replaces : Nat]
    \cup [op : {"set"}, active : Working]
    \cup [op : {"switch"}, project : Nat, session : Nat]
    \cup [op : {"merge"}, from : Nat, to : Nat]
    \cup [op : {"backfill"}, project : Nat]

Typed ==
    /\ titles \in [Title -> Nat]
    /\ minted \in Nat
    /\ sessions \in Seq(Session)
    /\ active \in [Label \X Chat -> Working]
    /\ call \in [Caller -> Pending]

(* A session c may work in: one that c, or its client in the same chat,    *)
(* started.                                                                *)
Own(c, i) ==
    /\ i \in 1..Len(sessions)
    /\ LabelOf[sessions[i].by] = LabelOf[c]
    /\ ChatOf[sessions[i].by] = ChatOf[c]

Holds == \A c \in Caller : active[Key(c)] # Nobody => Own(c, active[Key(c)].session)

(* What a call carries from its first statement to its last.               *)
Carries(c) ==
    /\ call[c].op = "replace" => call[c].replaces = 0 \/ Own(c, call[c].replaces)
    /\ call[c].op = "set" => Own(c, call[c].active.session)
    /\ call[c].op = "switch" => Own(c, call[c].session)

WorkInv == Typed /\ Holds /\ \A c \in Caller : Carries(c)

LEMMA WorkStarts == WorkspacesInit => WorkInv
<1> SUFFICES ASSUME WorkspacesInit PROVE WorkInv
  OBVIOUS
<1>1. Typed
  BY DEF WorkspacesInit, Typed, Pending, Working, Nobody, Unscoped, Idle
<1>2. \A c \in Caller : Key(c) \in Label \X Chat
  BY DEF Key, Label, Chat
<1>3. Holds
  BY <1>2 DEF WorkspacesInit, Holds
<1>4. \A c \in Caller : Carries(c)
  BY DEF WorkspacesInit, Carries, Idle
<1> QED
  BY <1>1, <1>3, <1>4 DEF WorkInv

(* What callers work in.                                                   *)
LEMMA Callers ==
    ASSUME WorkInv, NEW c \in Caller
    PROVE  /\ Key(c) \in Label \X Chat
           /\ active[Key(c)] \in Working
           /\ Works(c) # Nobody => Bound(c) /\ Works(c) = active[Key(c)]
           /\ Works(c).session = 0 \/ Own(c, Works(c).session)
           /\ Works(c) # Nobody => Own(c, Works(c).session)
           /\ Works(c).session \in Nat
           /\ call[c] \in Pending
<1>1. Key(c) \in Label \X Chat
  BY DEF Key, Label, Chat
<1>2. active[Key(c)] \in Working /\ call[c] \in Pending
  BY <1>1 DEF WorkInv, Typed
<1>3. active[Key(c)] # Nobody => Own(c, active[Key(c)].session)
  BY DEF WorkInv, Holds
<1>4. Works(c) # Nobody => Bound(c) /\ Works(c) = active[Key(c)]
  BY DEF Works
<1>5. Nobody.session = 0
  BY DEF Nobody
<1>6. Works(c).session \in Nat
  BY <1>2, <1>4, <1>5 DEF Working
<1> QED
  BY <1>1, <1>2, <1>3, <1>4, <1>5, <1>6

-----------------------------------------------------------------------------
(* Sessions change, but whose they are does not.                           *)

Grown(s) ==
    /\ s \in Seq(Session)
    /\ Len(s) >= Len(sessions)
    /\ \A i \in 1..Len(sessions) : s[i].by = sessions[i].by

LEMMA OwnersStay ==
    ASSUME WorkInv, Grown(sessions'), NEW c \in Caller, NEW i, Own(c, i)
    PROVE  Own(c, i)'
<1>1. Len(sessions) \in Nat /\ Len(sessions') \in Nat
  BY DEF WorkInv, Typed, Grown
<1> QED
  BY <1>1 DEF Grown, Own

LEMMA SameGrown == ASSUME WorkInv PROVE Grown(sessions)
<1>1. sessions \in Seq(Session) /\ Len(sessions) \in Nat
  BY DEF WorkInv, Typed
<1> QED
  BY <1>1 DEF Grown

LEMMA Rewritten ==
    ASSUME WorkInv, NEW f \in [1..Len(sessions) -> Session],
           \A i \in 1..Len(sessions) : f[i].by = sessions[i].by
    PROVE  Grown(f) /\ Len(f) = Len(sessions)
<1>1. Len(sessions) \in Nat
  BY DEF WorkInv, Typed
<1>2. f \in Seq(Session)
  BY <1>1, SeqDef
<1>3. Len(f) = Len(sessions)
  BY <1>1, <1>2, LenProperties
<1> QED
  BY <1>1, <1>2, <1>3 DEF Grown

LEMMA EndedGrown ==
    ASSUME WorkInv, NEW i \in Nat, i = 0 \/ i \in 1..Len(sessions)
    PROVE  Grown(Ended(i)) /\ Len(Ended(i)) = Len(sessions)
<1>1. CASE i = 0
  BY <1>1, SameGrown DEF Ended
<1>2. CASE i # 0
  <2>1. /\ sessions \in Seq(Session) /\ sessions \in [1..Len(sessions) -> Session]
    BY LenProperties DEF WorkInv, Typed
  <2>2. Ended(i) \in [1..Len(sessions) -> Session]
    BY <1>2, <2>1 DEF Ended, Session
  <2>3. \A j \in 1..Len(sessions) : Ended(i)[j].by = sessions[j].by
    BY <1>2, <2>1 DEF Ended, Session
  <2> QED
    BY <2>2, <2>3, Rewritten
<1> QED
  BY <1>1, <1>2

(* A step that leaves what clients hold, and adds at most one call that    *)
(* carries what its caller may.                                            *)
LEMMA StepKeeps ==
    ASSUME WorkInv, NEW c \in Caller, NEW p \in Pending,
           titles' \in [Title -> Nat], minted' \in Nat,
           Grown(sessions'), active' = active,
           call' = [call EXCEPT ![c] = p],
           p.op = "replace" => p.replaces = 0 \/ Own(c, p.replaces)',
           p.op = "set" => Own(c, p.active.session)',
           p.op = "switch" => Own(c, p.session)'
    PROVE  WorkInv'
<1>1. Typed'
  BY DEF WorkInv, Typed, Grown
<1>2. Holds'
  BY OwnersStay DEF WorkInv, Holds, Key
<1>3. ASSUME NEW d \in Caller PROVE Carries(d)'
  <2>1. CASE d = c
    <3>1. call'[d] = p
      BY <2>1 DEF WorkInv, Typed
    <3> QED
      BY <2>1, <3>1 DEF Carries
  <2>2. CASE d # c
    <3>1. call'[d] = call[d]
      BY <2>2 DEF WorkInv, Typed
    <3>2. Carries(d)
      BY DEF WorkInv
    <3> QED
      BY <3>1, <3>2, OwnersStay DEF Carries
  <2> QED
    BY <2>1, <2>2
<1> QED
  BY <1>1, <1>2, <1>3 DEF WorkInv

(* A step that leaves calls and sessions, or lets them go.                 *)
LEMMA ForgettingKeeps ==
    ASSUME WorkInv, UNCHANGED <<titles, minted, sessions>>,
           active' \in [Label \X Chat -> Working],
           \A k \in Label \X Chat : active'[k] \in {active[k], Nobody},
           call' = call \/ call' = [c \in Caller |-> Idle]
    PROVE  WorkInv'
<1>1. Typed'
  BY DEF WorkInv, Typed, Pending, Idle
<1>2. Holds'
  <2> SUFFICES ASSUME NEW c \in Caller, active'[Key(c)] # Nobody
               PROVE  Own(c, active[Key(c)].session)'
    BY DEF Holds, Key
  <2>1. active'[Key(c)] = active[Key(c)]
    BY Callers
  <2>2. Own(c, active[Key(c)].session)
    BY <2>1 DEF WorkInv, Holds
  <2> QED
    BY <2>1, <2>2 DEF Own, Key
<1>3. ASSUME NEW c \in Caller PROVE Carries(c)'
  <2>1. Carries(c)
    BY DEF WorkInv
  <2>2. call'[c] = call[c] \/ call'[c].op = "idle"
    BY DEF Idle
  <2> QED
    BY <2>1, <2>2 DEF Carries, Own
<1> QED
  BY <1>1, <1>2, <1>3 DEF WorkInv

-----------------------------------------------------------------------------
(* Calls that begin.                                                       *)

LEMMA UpsertsTypes ==
    ASSUME WorkInv, NEW t \in Title, Upserts(t)
    PROVE  titles' \in [Title -> Nat] /\ minted' \in Nat /\ titles'[t] \in Nat
<1>1. titles \in [Title -> Nat] /\ minted \in Nat
  BY DEF WorkInv, Typed
<1>2. titles' \in [Title -> Nat] /\ minted' \in Nat
  BY <1>1 DEF Upserts, Upserted
<1> QED
  BY <1>2

LEMMA StartAsksKeeps ==
    ASSUME WorkInv, NEW c \in Caller, NEW t \in Title, StartAsks(c, t)
    PROVE  WorkInv'
<1>0. Grown(sessions') /\ active' = active
  BY SameGrown DEF StartAsks
<1>1. /\ titles' \in [Title -> Nat] /\ minted' \in Nat
      /\ \E x \in Nat : call' = [call EXCEPT ![c] = [op |-> "start", project |-> x]]
  BY UpsertsTypes DEF StartAsks, Calls, Unscoped, WorkInv, Typed
<1>2. PICK x \in Nat : call' = [call EXCEPT ![c] = [op |-> "start", project |-> x]]
  BY <1>1
<1> DEFINE p == [op |-> "start", project |-> x]
<1>3. p \in Pending
  BY DEF Pending
<1>4. p.op = "start"
  OBVIOUS
<1>5. call' = [call EXCEPT ![c] = p]
  BY <1>2
<1> HIDE DEF p
<1> QED
  BY <1>0, <1>1, <1>3, <1>4, <1>5, StepKeeps

LEMMA StartReadsKeeps ==
    ASSUME WorkInv, NEW c \in Caller, StartReads(c)
    PROVE  WorkInv'
<1>0. /\ titles' \in [Title -> Nat] /\ minted' \in Nat
      /\ Grown(sessions') /\ active' = active
  BY SameGrown DEF StartReads, WorkInv, Typed
<1>1. call[c] \in [op : {"start"}, project : Nat]
  BY Callers DEF StartReads, Pending
<1>2. PICK x \in Nat, i \in Nat : x = call[c].project /\ i = Works(c).session
  BY <1>1, Callers
<1> DEFINE p == [op |-> "replace", project |-> x, replaces |-> i]
<1>3. p \in Pending
  BY DEF Pending
<1>4. p.op = "replace" /\ p.replaces = i
  OBVIOUS
<1>5. i = 0 \/ Own(c, i)'
  BY <1>0, <1>2, Callers, OwnersStay
<1>6. call' = [call EXCEPT ![c] = p]
  BY <1>2 DEF StartReads
<1> HIDE DEF p
<1> QED
  BY <1>0, <1>3, <1>4, <1>5, <1>6, StepKeeps

(* A call of one statement leaves its caller idle.                         *)
LEMMA OneStatementKeeps ==
    ASSUME WorkInv, NEW c \in Caller, titles' \in [Title -> Nat], minted' \in Nat,
           Grown(sessions'), active' = active, call' = [call EXCEPT ![c] = Idle]
    PROVE  WorkInv'
<1>1. Idle \in Pending /\ Idle.op = "idle"
  BY DEF Idle, Pending
<1> HIDE DEF Idle
<1> QED
  BY <1>1, StepKeeps

LEMMA EndUpdatesKeeps ==
    ASSUME WorkInv, NEW c \in Caller, EndUpdates(c)
    PROVE  WorkInv'
<1> DEFINE p == [op |-> "clear"]
<1>1. Own(c, Works(c).session) /\ Works(c).session \in Nat
  BY Callers DEF EndUpdates
<1>2. Grown(Ended(Works(c).session)) /\ Grown(sessions)
  BY <1>1, EndedGrown, SameGrown DEF Own
<1>3. Grown(sessions')
  BY <1>2 DEF EndUpdates
<1>4. /\ titles' \in [Title -> Nat] /\ minted' \in Nat /\ active' = active
      /\ call' = [call EXCEPT ![c] = p]
  BY DEF EndUpdates, Calls, WorkInv, Typed
<1>5. p \in Pending /\ p.op = "clear"
  BY DEF Pending
<1> HIDE DEF p
<1> QED
  BY <1>3, <1>4, <1>5, StepKeeps

LEMMA SwitchAsksKeeps ==
    ASSUME WorkInv, NEW c \in Caller, NEW t \in Title, SwitchAsks(c, t)
    PROVE  WorkInv'
<1>0. /\ Grown(sessions') /\ active' = active /\ titles' \in [Title -> Nat]
      /\ minted' \in Nat /\ titles'[t] \in Nat
  BY SameGrown, UpsertsTypes DEF SwitchAsks
<1>1. CASE call' = [call EXCEPT ![c] = Idle]
  BY <1>0, <1>1, OneStatementKeeps
<1>2. CASE /\ Works(c) # Nobody
           /\ call' = [call EXCEPT ![c] =
                [op |-> "switch", project |-> titles'[t], session |-> Works(c).session]]
  <2>1. PICK x \in Nat, i \in Nat :
            /\ i = Works(c).session
            /\ call' = [call EXCEPT ![c] = [op |-> "switch", project |-> x, session |-> i]]
    BY <1>0, <1>2, Callers
  <2> DEFINE p == [op |-> "switch", project |-> x, session |-> i]
  <2>2. p \in Pending
    BY DEF Pending
  <2>3. p.op = "switch" /\ p.session = i
    OBVIOUS
  <2>4. Own(c, i)'
    BY <1>0, <1>2, <2>1, Callers, OwnersStay
  <2>5. call' = [call EXCEPT ![c] = p]
    BY <2>1
  <2> HIDE DEF p
  <2> QED
    BY <1>0, <2>2, <2>3, <2>4, <2>5, StepKeeps
<1> QED
  BY <1>1, <1>2 DEF SwitchAsks, Calls

(* Merges and backfills carry no session.                                  *)
LEMMA AsksKeep ==
    ASSUME WorkInv, NEW c \in Caller,
           \/ \E from, to \in Title : MergeAsks(c, from, to)
           \/ \E t \in Title : BackfillAsks(c, t)
    PROVE  WorkInv'
<1>1. PICK p \in Pending :
          p.op \notin {"replace", "set", "switch"} /\ call' = [call EXCEPT ![c] = p]
  <2>1. ASSUME NEW from \in Title, NEW to \in Title, MergeAsks(c, from, to)
        PROVE  \E p \in Pending :
                   p.op \notin {"replace", "set", "switch"} /\ call' = [call EXCEPT ![c] = p]
    <3>1. titles[from] \in Nat /\ titles'[to] \in Nat
      BY <2>1, UpsertsTypes DEF MergeAsks, WorkInv, Typed
    <3>2. [op |-> "merge", from |-> titles[from], to |-> titles'[to]] \in Pending
      BY <3>1 DEF Pending
    <3> QED
      BY <2>1, <3>2 DEF MergeAsks, Calls
  <2>2. ASSUME NEW t \in Title, BackfillAsks(c, t)
        PROVE  \E p \in Pending :
                   p.op \notin {"replace", "set", "switch"} /\ call' = [call EXCEPT ![c] = p]
    <3>1. titles'[t] \in Nat
      BY <2>2, UpsertsTypes DEF BackfillAsks
    <3>2. [op |-> "backfill", project |-> titles'[t]] \in Pending
      BY <3>1 DEF Pending
    <3> QED
      BY <2>2, <3>2 DEF BackfillAsks, Calls
  <2> QED
    BY <2>1, <2>2
<1>2. /\ titles' \in [Title -> Nat] /\ minted' \in Nat
      /\ Grown(sessions') /\ active' = active
  BY SameGrown, UpsertsTypes DEF MergeAsks, BackfillAsks
<1> QED
  BY <1>1, <1>2, StepKeeps

-----------------------------------------------------------------------------
(* Calls that go on.                                                       *)

LEMMA StartCommitsKeeps ==
    ASSUME WorkInv, NEW c \in Caller, StartCommits(c)
    PROVE  WorkInv'
<1>0. /\ titles' \in [Title -> Nat] /\ minted' \in Nat /\ active' = active
  BY DEF StartCommits, WorkInv, Typed
<1>1. /\ call[c].project \in Nat /\ call[c].replaces \in Nat
      /\ call[c].replaces = 0 \/ call[c].replaces \in 1..Len(sessions)
  <2>1. call[c] \in [op : {"replace"}, project : Nat, replaces : Nat]
    BY Callers DEF StartCommits, Pending
  <2>2. call[c].replaces = 0 \/ Own(c, call[c].replaces)
    BY DEF StartCommits, WorkInv, Carries
  <2> QED
    BY <2>1, <2>2 DEF Own
<1>2. CASE UNCHANGED sessions /\ Returns(c)
  BY <1>0, <1>2, SameGrown, OneStatementKeeps DEF Returns
<1>3. CASE /\ sessions' = Append(Ended(call[c].replaces),
                                 [project |-> call[c].project, open |-> TRUE, by |-> c])
           /\ call' = [call EXCEPT ![c] = [op |-> "set", active |->
                      [session |-> Len(sessions) + 1, project |-> call[c].project]]]
  <2>1. PICK x \in Nat, n \in Nat, s \in Seq(Session) :
            /\ x = call[c].project /\ n = Len(sessions)
            /\ s = Ended(call[c].replaces) /\ Len(s) = n
            /\ \A i \in 1..n : s[i].by = sessions[i].by
    <3>1. Grown(Ended(call[c].replaces)) /\ Len(Ended(call[c].replaces)) = Len(sessions)
      BY <1>1, EndedGrown
    <3>2. Len(sessions) \in Nat
      BY DEF WorkInv, Typed
    <3> QED
      BY <1>1, <3>1, <3>2 DEF Grown
  <2> DEFINE e == [project |-> x, open |-> TRUE, by |-> c]
             p == [op |-> "set", active |-> [session |-> n + 1, project |-> x]]
  <2>2. e \in Session /\ e.by = c
    BY DEF Session
  <2>3. sessions' = Append(s, e) /\ call' = [call EXCEPT ![c] = p]
    BY <1>3, <2>1
  <2>4. p \in Pending /\ p.op = "set" /\ p.active.session = n + 1
    BY DEF Pending, Working
  <2> HIDE DEF e, p
  <2>5. /\ sessions' \in Seq(Session) /\ Len(sessions') = n + 1
        /\ \A i \in 1..n : sessions'[i] = s[i]
        /\ sessions'[n + 1] = e
    BY <2>1, <2>2, <2>3, AppendProperties
  <2>6. Grown(sessions')
    BY <2>1, <2>5 DEF Grown
  <2>7. Own(c, n + 1)'
    BY <2>2, <2>5 DEF Own
  <2> QED
    BY <1>0, <2>3, <2>4, <2>6, <2>7, StepKeeps
<1> QED
  BY <1>2, <1>3 DEF StartCommits

LEMMA SwitchCommitsKeeps ==
    ASSUME WorkInv, NEW c \in Caller, SwitchCommits(c)
    PROVE  WorkInv'
<1>0. /\ titles' \in [Title -> Nat] /\ minted' \in Nat /\ active' = active
  BY DEF SwitchCommits, WorkInv, Typed
<1>1. PICK x \in Nat, i \in Nat : x = call[c].project /\ i = call[c].session
  <2>1. call[c] \in [op : {"switch"}, project : Nat, session : Nat]
    BY Callers DEF SwitchCommits, Pending
  <2> QED
    BY <2>1
<1>2. Own(c, i)
  BY <1>1 DEF SwitchCommits, WorkInv, Carries
<1>3. CASE UNCHANGED sessions /\ Returns(c)
  BY <1>0, <1>3, SameGrown, OneStatementKeeps DEF Returns
<1>4. CASE /\ sessions' = [sessions EXCEPT ![i].project = x]
           /\ call' = [call EXCEPT ![c] =
                  [op |-> "set", active |-> [session |-> i, project |-> x]]]
  <2> DEFINE p == [op |-> "set", active |-> [session |-> i, project |-> x]]
  <2>1. p \in Pending /\ p.op = "set" /\ p.active.session = i /\ call' = [call EXCEPT ![c] = p]
    BY <1>4 DEF Pending, Working
  <2>2. i \in 1..Len(sessions) /\ sessions \in [1..Len(sessions) -> Session]
    BY <1>2, LenProperties DEF Own, WorkInv, Typed
  <2>3. /\ sessions' \in [1..Len(sessions) -> Session]
        /\ \A j \in 1..Len(sessions) : sessions'[j].by = sessions[j].by
    BY <1>4, <2>2 DEF Session
  <2>4. Grown(sessions')
    BY <2>3, Rewritten
  <2>5. Own(c, i)'
    BY <1>2, <2>4, OwnersStay
  <2> HIDE DEF p
  <2> QED
    BY <1>0, <2>1, <2>4, <2>5, StepKeeps
<1> QED
  BY <1>1, <1>3, <1>4 DEF SwitchCommits

LEMMA MergeCommitsKeeps ==
    ASSUME WorkInv, NEW c \in Caller, MergeCommits(c)
    PROVE  WorkInv'
<1>0. /\ minted' \in Nat /\ active' = active /\ call' = [call EXCEPT ![c] = Idle]
  BY DEF MergeCommits, Returns, WorkInv, Typed
<1>1. titles' \in [Title -> Nat]
  <2>1. titles \in [Title -> Nat]
    BY DEF WorkInv, Typed
  <2>2. CASE titles' = [t \in Title |-> IF titles[t] = call[c].from THEN Unscoped ELSE titles[t]]
    BY <2>1, <2>2 DEF Unscoped
  <2>3. CASE UNCHANGED titles
    BY <2>1, <2>3
  <2> QED
    BY <2>2, <2>3 DEF MergeCommits
<1>2. call[c].from \in Nat /\ call[c].to \in Nat
  <2>1. call[c] \in [op : {"merge"}, from : Nat, to : Nat]
    BY Callers DEF MergeCommits, Pending
  <2> QED
    BY <2>1
<1>3. sessions \in [1..Len(sessions) -> Session] /\ DOMAIN sessions = 1..Len(sessions)
  BY LenProperties DEF WorkInv, Typed
<1>4. Grown(sessions')
  <2>1. CASE sessions' = [i \in DOMAIN sessions |->
                [sessions[i] EXCEPT !.project = Moved(c, sessions[i].project, TRUE)]]
    <3>1. \A i \in 1..Len(sessions) : Moved(c, sessions[i].project, TRUE) \in Nat
      BY <1>2, <1>3 DEF Moved, Session, Unscoped
    <3>2. /\ sessions' \in [1..Len(sessions) -> Session]
          /\ \A i \in 1..Len(sessions) : sessions'[i].by = sessions[i].by
      BY <1>3, <2>1, <3>1 DEF Session
    <3> QED
      BY <3>2, Rewritten
  <2>2. CASE UNCHANGED sessions
    BY <2>2, SameGrown
  <2> QED
    BY <2>1, <2>2 DEF MergeCommits
<1> QED
  BY <1>0, <1>1, <1>4, OneStatementKeeps

LEMMA BackfillCommitsKeeps ==
    ASSUME WorkInv, NEW c \in Caller, BackfillCommits(c)
    PROVE  WorkInv'
<1>0. /\ titles' \in [Title -> Nat] /\ minted' \in Nat /\ active' = active
      /\ call' = [call EXCEPT ![c] = Idle]
  BY DEF BackfillCommits, Returns, WorkInv, Typed
<1>1. call[c].project \in Nat
  <2>1. call[c] \in [op : {"backfill"}, project : Nat]
    BY Callers DEF BackfillCommits, Pending
  <2> QED
    BY <2>1
<1>2. sessions \in [1..Len(sessions) -> Session] /\ DOMAIN sessions = 1..Len(sessions)
  BY LenProperties DEF WorkInv, Typed
<1>3. Grown(sessions')
  <2>1. CASE sessions' = [i \in DOMAIN sessions |->
                [sessions[i] EXCEPT !.project = Filling(c, sessions[i].project)]]
    <3>1. \A i \in 1..Len(sessions) : Filling(c, sessions[i].project) \in Nat
      BY <1>1, <1>2 DEF Filling, Session
    <3>2. /\ sessions' \in [1..Len(sessions) -> Session]
          /\ \A i \in 1..Len(sessions) : sessions'[i].by = sessions[i].by
      BY <1>2, <2>1, <3>1 DEF Session
    <3> QED
      BY <3>2, Rewritten
  <2>2. CASE UNCHANGED sessions
    BY <2>2, SameGrown
  <2> QED
    BY <2>1, <2>2 DEF BackfillCommits
<1> QED
  BY <1>0, <1>3, OneStatementKeeps

(* session::set: callers of one client and one chat share what it sets.    *)
LEMMA SetsKeeps ==
    ASSUME WorkInv, NEW c \in Caller, Sets(c) \/ EndClears(c)
    PROVE  WorkInv'
<1>0. /\ UNCHANGED <<titles, minted, sessions>>
      /\ call' = [call EXCEPT ![c] = Idle]
      /\ call' \in [Caller -> Pending]
      /\ \A d \in Caller : call'[d] = call[d] \/ call'[d] = Idle
  <2>1. UNCHANGED <<titles, minted, sessions>> /\ call' = [call EXCEPT ![c] = Idle]
    BY DEF Sets, EndClears, Returns
  <2>2. call \in [Caller -> Pending] /\ Idle \in Pending
    BY DEF WorkInv, Typed, Pending, Idle
  <2> QED
    BY <2>1, <2>2
<1>1. PICK b \in Working :
          /\ b = Nobody \/ Own(c, b.session)
          /\ active' = active \/ active' = [active EXCEPT ![Key(c)] = b]
  <2>1. CASE Sets(c)
    <3>1. call[c] \in [op : {"set"}, active : Working]
      BY <2>1, Callers DEF Sets, Pending
    <3>2. Own(c, call[c].active.session)
      BY <2>1 DEF Sets, WorkInv, Carries
    <3> QED
      BY <2>1, <3>1, <3>2 DEF Sets
  <2>2. CASE EndClears(c)
    <3>1. Nobody \in Working
      BY DEF Nobody, Working, Unscoped
    <3> QED
      BY <2>2, <3>1 DEF EndClears
  <2> QED
    BY <2>1, <2>2
<1>2. active \in [Label \X Chat -> Working]
  BY DEF WorkInv, Typed
<1>3. Typed'
  BY <1>0, <1>1, <1>2 DEF WorkInv, Typed
<1>4. Holds'
  <2> SUFFICES ASSUME NEW d \in Caller, active'[Key(d)] # Nobody
               PROVE  Own(d, active[Key(d)].session)'
    BY DEF Holds, Key
  <2>1. CASE active'[Key(d)] = active[Key(d)]
    <3>1. Own(d, active[Key(d)].session)
      BY <2>1 DEF WorkInv, Holds
    <3> QED
      BY <1>0, <2>1, <3>1 DEF Own, Key
  <2>2. CASE active'[Key(d)] # active[Key(d)]
    <3>1. Key(d) = Key(c) /\ active'[Key(d)] = b
      BY <1>1, <1>2, <2>2, Callers
    <3>2. LabelOf[d] = LabelOf[c] /\ ChatOf[d] = ChatOf[c]
      BY <3>1 DEF Key
    <3> QED
      BY <1>0, <1>1, <3>1, <3>2 DEF Own, Key
  <2> QED
    BY <2>1, <2>2
<1>5. ASSUME NEW d \in Caller PROVE Carries(d)'
  <2>1. Carries(d)
    BY DEF WorkInv
  <2>2. call'[d] = call[d] \/ call'[d].op = "idle"
    BY <1>0 DEF Idle
  <2> QED
    BY <1>0, <2>1, <2>2 DEF Carries, Own
<1> QED
  BY <1>3, <1>4, <1>5 DEF WorkInv

-----------------------------------------------------------------------------
LEMMA WorkKeeps == WorkInv /\ [WorkspacesNext]_workspacesVars => WorkInv'
<1> SUFFICES ASSUME WorkInv, [WorkspacesNext]_workspacesVars PROVE WorkInv'
  OBVIOUS
<1>1. ASSUME NEW c \in Caller, NEW t \in Title, AdoptRoot(c, t)
      PROVE  WorkInv'
  BY <1>1, SameGrown, UpsertsTypes, OneStatementKeeps DEF AdoptRoot, Calls
<1>2. ASSUME NEW c \in Caller, NEW from \in Title, NEW to \in Title, Rename(c, from, to)
      PROVE  WorkInv'
  <2>1. titles' \in [Title -> Nat] /\ minted' \in Nat
    BY <1>2 DEF Rename, WorkInv, Typed, Unscoped
  <2> QED
    BY <1>2, <2>1, SameGrown, OneStatementKeeps DEF Rename, Calls
<1>3. ASSUME NEW c \in Caller,
             (\E m \in Memory : Remember(c, m)) \/ Cut(c)
      PROVE  WorkInv'
  <2>1. /\ titles' \in [Title -> Nat] /\ minted' \in Nat /\ sessions' = sessions
        /\ active' = active /\ call' = [call EXCEPT ![c] = Idle]
    BY <1>3 DEF Remember, Cut, Calls, Returns, WorkInv, Typed
  <2> QED
    BY <2>1, SameGrown, OneStatementKeeps
<1>4. CASE \/ \E k \in DOMAIN seen : GoesStale(k)
           \/ ReapLooks \/ ReapRemoves \/ ReapUproots
           \/ UNCHANGED workspacesVars
  <2>1. UNCHANGED <<titles, minted, sessions, active, call>>
    BY <1>4 DEF GoesStale, ReapLooks, ReapRemoves, ReapUproots, workspacesVars
  <2>2. active \in [Label \X Chat -> Working]
    BY DEF WorkInv, Typed
  <2> QED
    BY <2>1, <2>2, ForgettingKeeps
<1>5. CASE (\E k \in DOMAIN seen : ReapForgets(k)) \/ Restart
  <2>1. active \in [Label \X Chat -> Working] /\ Nobody \in Working
    BY DEF WorkInv, Typed, Nobody, Working, Unscoped
  <2>2. /\ active' \in [Label \X Chat -> Working]
        /\ \A k \in Label \X Chat : active'[k] \in {active[k], Nobody}
    BY <1>5, <2>1 DEF ReapForgets, Restart
  <2>3. /\ UNCHANGED <<titles, minted, sessions>>
        /\ call' = call \/ call' = [c \in Caller |-> Idle]
    BY <1>5 DEF ReapForgets, Restart
  <2> QED
    BY <2>2, <2>3, ForgettingKeeps
<1> QED
  BY <1>1, <1>2, <1>3, <1>4, <1>5, StartAsksKeeps, SwitchAsksKeeps, AsksKeep,
     StartReadsKeeps, StartCommitsKeeps,
     SetsKeeps, EndUpdatesKeeps, SwitchCommitsKeeps, MergeCommitsKeeps, BackfillCommitsKeeps
     DEF WorkspacesNext

LEMMA WorkHolds == WorkspacesSpec => []WorkInv
  BY WorkStarts, WorkKeeps, PTL DEF WorkspacesSpec

(* Two clients, or two chats of one, never work in a session of the other, *)
(* however many there are, and however their calls overlap, are cut, and   *)
(* are forgotten.                                                          *)
THEOREM SessionsAreApart == WorkspacesSpec => []SessionsStayApart
<1>1. WorkInv => SessionsStayApart
  BY Callers DEF SessionsStayApart, Own
<1> QED
  BY <1>1, WorkHolds, PTL

-----------------------------------------------------------------------------
(* Types: what names a project names one that is there, or was while the   *)
(* call that carries it was under way.                                     *)

Projects ==
    /\ titles \in [Title -> 0..MaxProjects]
    /\ minted \in 0..MaxProjects
    /\ \A t \in Title : titles[t] <= minted

Stands(project) == project \in Live \cup {Unscoped}

Rows ==
    /\ Len(sessions) <= MaxSessions
    /\ \A i \in 1..Len(sessions) : Stands(sessions[i].project)
    /\ memory \in [Memory -> Live \cup {Unscoped, -1}]

Within(p) ==
    /\ p.op \in {"start", "replace", "switch", "backfill"} => p.project <= MaxProjects
    /\ p.op = "merge" => p.to <= MaxProjects
    /\ p.op = "set" => p.active.project <= MaxProjects

Bindings ==
    /\ active \in [Label \X Chat -> [session : 0..Len(sessions), project : 0..MaxProjects]]
    /\ roots \in [Label -> 0..MaxProjects]
    /\ \A c \in Caller : Within(call[c])

Reaping == [found : SUBSET SeenKeys, doomed : SUBSET SeenKeys, uprooting : SUBSET SeenKeys]

Sightings ==
    /\ seen \in [SeenKeys -> {"never", "fresh", "stale"}]
    /\ reaping \in Reaping
    /\ walled \in BOOLEAN

ScopeInv == WorkInv /\ Projects /\ Rows /\ Bindings /\ Sightings

LEMMA ScopeTypes == ScopeInv => WorkspacesTypeOK
<1> SUFFICES ASSUME ScopeInv PROVE WorkspacesTypeOK
  OBVIOUS
<1>1. Live \subseteq 1..minted /\ minted \in 0..MaxProjects
  BY WorkspacesAssumption DEF ScopeInv, Projects, Live, Unscoped
<1>0. Live \cup {Unscoped} \subseteq 0..MaxProjects
  BY <1>1, WorkspacesAssumption DEF Unscoped
<1>2. /\ sessions \in Seq(Session) /\ Len(sessions) \in Nat
      /\ DOMAIN sessions = 1..Len(sessions)
      /\ sessions \in [1..Len(sessions) -> Session]
  BY LenProperties DEF ScopeInv, WorkInv, Typed
<1>3. sessions \in Seq([project : 0..MaxProjects, open : BOOLEAN, by : Caller])
  <2> DEFINE S == [project : 0..MaxProjects, open : BOOLEAN, by : Caller]
  <2>1. \A i \in 1..Len(sessions) : sessions[i] \in S
    <3>1. \A i \in 1..Len(sessions) : sessions[i].project \in Live \cup {Unscoped}
      BY DEF ScopeInv, Rows, Stands
    <3> QED
      BY <1>0, <1>2, <3>1 DEF Session
  <2> HIDE DEF S
  <2>2. sessions \in [1..Len(sessions) -> S]
    BY <1>2, <2>1
  <2>3. sessions \in Seq(S)
    BY <1>2, <2>2, SeqDef
  <2> QED
    BY <2>3 DEF S
<1>4. /\ \A i \in DOMAIN sessions : sessions[i].project \in Live \cup {Unscoped}
      /\ \A m \in Memory : memory[m] \in Live \cup {Unscoped, -1}
      /\ memory \in [Memory -> 0..MaxProjects \cup {-1}]
  <2>1. memory \in [Memory -> Live \cup {Unscoped, -1}]
    BY DEF ScopeInv, Rows
  <2>2. \A i \in 1..Len(sessions) : sessions[i].project \in Live \cup {Unscoped}
    BY DEF ScopeInv, Rows, Stands
  <2>3. Live \cup {Unscoped, -1} \subseteq 0..MaxProjects \cup {-1}
    BY <1>0
  <2> QED
    BY <1>2, <2>1, <2>2, <2>3
<1>5. /\ active \in [Label \X Chat -> Binding]
      /\ \A k \in Label \X Chat : active[k].session <= Len(sessions)
  BY <1>2, WorkspacesAssumption DEF ScopeInv, Bindings, Rows, Binding
<1> QED
  BY <1>1, <1>3, <1>4, <1>5
     DEF WorkspacesTypeOK, ScopeInv, Projects, Rows, Bindings, Sightings, Reaping, SeenKeys

LEMMA LiveIsNat == ASSUME ScopeInv PROVE Live \subseteq Nat /\ 0 \notin Live
  BY DEF ScopeInv, Projects, Live, Unscoped

LEMMA ScopeStarts == WorkspacesInit => ScopeInv
<1> SUFFICES ASSUME WorkspacesInit PROVE ScopeInv
  OBVIOUS
<1> USE WorkspacesAssumption DEF WorkspacesInit, Unscoped
<1>1. Projects
  BY DEF Projects
<1>2. Len(sessions) = 0
  OBVIOUS
<1>3. Rows
  BY <1>2 DEF Rows
<1>4. Bindings
  BY <1>2 DEF Bindings, Nobody, Idle, Within
<1>5. Sightings
  BY DEF Sightings, Resting, Reaping
<1> QED
  BY <1>1, <1>3, <1>4, <1>5, WorkStarts DEF ScopeInv

-----------------------------------------------------------------------------
(* Projects come, change their names, and are merged away.                 *)

LEMMA UpsertsAdd ==
    ASSUME ScopeInv, NEW t \in Title, Upserts(t)
    PROVE  /\ Projects'
           /\ Live \subseteq Live'
           /\ titles'[t] \in 0..MaxProjects
<1>1. titles \in [Title -> 0..MaxProjects] /\ minted \in 0..MaxProjects
  BY DEF ScopeInv, Projects
<1>2. \A u \in Title : titles[u] <= minted
  BY DEF ScopeInv, Projects
<1>3. CASE titles[t] # Unscoped
  BY <1>1, <1>2, <1>3 DEF Upserts, Upserted, Projects, Live
<1>4. CASE titles[t] = Unscoped
  <2>1. titles' = [titles EXCEPT ![t] = minted + 1] /\ minted' = minted + 1
        /\ minted < MaxProjects
    BY <1>4 DEF Upserts, Upserted
  <2>2. Projects'
    BY <1>1, <1>2, <2>1, WorkspacesAssumption DEF Projects
  <2>3. \A u \in Title : titles[u] # Unscoped => titles'[u] = titles[u]
    BY <1>1, <1>4, <2>1
  <2>4. Live \subseteq Live'
    BY <2>3 DEF Live
  <2> QED
    BY <2>2, <2>4 DEF Projects
<1> QED
  BY <1>3, <1>4

Upserting(c, t) == StartAsks(c, t) \/ SwitchAsks(c, t) \/ BackfillAsks(c, t) \/ AdoptRoot(c, t)

LEMMA ProjectsKeep ==
    ASSUME ScopeInv, [WorkspacesNext]_workspacesVars
    PROVE  Projects'
<1>1. ASSUME NEW c \in Caller, NEW t \in Title, Upserting(c, t)
      PROVE  Projects'
  <2>1. Upserts(t) \/ UNCHANGED <<titles, minted>>
    BY <1>1 DEF Upserting, StartAsks, SwitchAsks, BackfillAsks, AdoptRoot
  <2> QED
    BY <2>1, UpsertsAdd DEF ScopeInv, Projects
<1>2. ASSUME NEW c \in Caller, NEW from \in Title, NEW to \in Title, MergeAsks(c, from, to)
      PROVE  Projects'
  BY <1>2, UpsertsAdd DEF MergeAsks
<1>3. ASSUME NEW c \in Caller, NEW from \in Title, NEW to \in Title, Rename(c, from, to)
      PROVE  Projects'
  BY <1>3, WorkspacesAssumption DEF Rename, ScopeInv, Projects, Unscoped
<1>4. ASSUME NEW c \in Caller, MergeCommits(c)
      PROVE  Projects'
  <2>1. \/ titles' = [t \in Title |-> IF titles[t] = call[c].from THEN Unscoped ELSE titles[t]]
        \/ UNCHANGED titles
    BY <1>4 DEF MergeCommits
  <2>2. UNCHANGED minted
    BY <1>4 DEF MergeCommits
  <2> QED
    BY <2>1, <2>2, WorkspacesAssumption DEF ScopeInv, Projects, Unscoped
<1>5. CASE UNCHANGED <<titles, minted>>
  BY <1>5 DEF ScopeInv, Projects
<1> QED
  BY <1>1, <1>2, <1>3, <1>4, <1>5
     DEF WorkspacesNext, workspacesVars, Upserting, StartReads, StartCommits, Sets,
         EndUpdates, EndClears,
         SwitchCommits, BackfillCommits, Cut, Remember, GoesStale, ReapLooks,
         ReapRemoves, ReapForgets, ReapUproots, Restart

-----------------------------------------------------------------------------
(* Rows of a project stay with one that is there.                          *)

(* While no project goes, rows that stay where they are stand.             *)
LEMMA RowsStand ==
    ASSUME ScopeInv, Live \subseteq Live', memory' = memory, Len(sessions') = Len(sessions),
           \A i \in 1..Len(sessions) : sessions'[i].project = sessions[i].project
    PROVE  Rows' /\ Len(sessions) <= Len(sessions')
<1>1. Len(sessions) \in Nat
  BY DEF ScopeInv, WorkInv, Typed
<1> QED
  BY <1>1 DEF ScopeInv, Rows, Stands

LEMMA EndedStands ==
    ASSUME ScopeInv, NEW i \in Nat, i = 0 \/ i \in 1..Len(sessions)
    PROVE  /\ Len(Ended(i)) = Len(sessions)
           /\ \A j \in 1..Len(sessions) : Ended(i)[j].project = sessions[j].project
<1>1. Len(Ended(i)) = Len(sessions)
  BY EndedGrown DEF ScopeInv
<1>2. sessions \in [1..Len(sessions) -> Session]
  BY LenProperties DEF ScopeInv, WorkInv, Typed
<1>3. \A j \in 1..Len(sessions) : Ended(i)[j].project = sessions[j].project
  BY <1>2 DEF Ended, Session
<1> QED
  BY <1>1, <1>3

LEMMA StartsStand ==
    ASSUME ScopeInv, NEW c \in Caller, StartCommits(c)
    PROVE  Rows' /\ Len(sessions) <= Len(sessions')
<1>1. /\ call[c].project \in Nat /\ call[c].replaces \in Nat
      /\ call[c].replaces = 0 \/ call[c].replaces \in 1..Len(sessions)
  <2>1. call[c] \in [op : {"replace"}, project : Nat, replaces : Nat]
    BY Callers DEF ScopeInv, StartCommits, Pending
  <2>2. call[c].replaces = 0 \/ Own(c, call[c].replaces)
    BY DEF StartCommits, ScopeInv, WorkInv, Carries
  <2> QED
    BY <2>1, <2>2 DEF Own
<1>2. UNCHANGED <<titles, memory>> /\ Live' = Live
  BY DEF StartCommits, Live
<1>3. CASE UNCHANGED sessions
  BY <1>2, <1>3, RowsStand
<1>4. CASE /\ call[c].project \in Live \cup {Unscoped}
           /\ sessions' = Append(Ended(call[c].replaces),
                                 [project |-> call[c].project, open |-> TRUE, by |-> c])
  <2>1. PICK x, n \in Nat, s \in Seq(Session) :
            /\ x = call[c].project /\ n = Len(sessions) /\ s = Ended(call[c].replaces)
    <3>1. Ended(call[c].replaces) \in Seq(Session)
      BY <1>1, EndedGrown DEF ScopeInv, Grown
    <3>2. Len(sessions) \in Nat
      BY DEF ScopeInv, WorkInv, Typed
    <3> QED
      BY <1>1, <3>1, <3>2
  <2> DEFINE e == [project |-> x, open |-> TRUE, by |-> c]
  <2>2. e.project = x
    OBVIOUS
  <2>3. sessions' = Append(s, e)
    BY <1>4, <2>1
  <2>4. e \in Session
    BY <1>4, <2>1, LiveIsNat DEF Session, Unscoped, ScopeInv
  <2> HIDE DEF e
  <2>5. Len(s) = n /\ \A i \in 1..n : s[i].project = sessions[i].project
    BY <1>1, <2>1, EndedStands
  <2>6. Len(sessions') = n + 1 /\ (\A i \in 1..n : sessions'[i] = s[i]) /\ sessions'[n + 1] = e
    BY <2>3, <2>4, <2>5, AppendProperties
  <2>7. n + 1 <= MaxSessions
    BY <2>1, WorkspacesAssumption DEF StartCommits
  <2>8. \A i \in 1..n : sessions[i].project \in Live \cup {Unscoped}
    BY <2>1 DEF ScopeInv, Rows, Stands
  <2>9. ASSUME NEW i \in 1..(n + 1) PROVE sessions'[i].project \in Live \cup {Unscoped}
    BY <1>4, <2>1, <2>2, <2>5, <2>6, <2>8
  <2> QED
    BY <1>2, <2>1, <2>6, <2>7, <2>9 DEF ScopeInv, Rows, Stands
<1> QED
  BY <1>3, <1>4 DEF StartCommits

LEMMA SwitchesStand ==
    ASSUME ScopeInv, NEW c \in Caller, SwitchCommits(c)
    PROVE  Rows' /\ Len(sessions) <= Len(sessions')
<1>1. UNCHANGED <<titles, memory>> /\ Live' = Live
  BY DEF SwitchCommits, Live
<1>2. CASE UNCHANGED sessions
  BY <1>1, <1>2, RowsStand
<1>3. CASE /\ call[c].project \in Live
           /\ sessions' = [sessions EXCEPT ![call[c].session].project = call[c].project]
  <2>1. sessions \in [1..Len(sessions) -> Session] /\ Len(sessions) \in Nat
    BY LenProperties DEF ScopeInv, WorkInv, Typed
  <2>2. /\ DOMAIN sessions' = 1..Len(sessions)
        /\ \A i \in 1..Len(sessions) :
              sessions'[i].project \in {sessions[i].project, call[c].project}
    BY <1>3, <2>1 DEF Session
  <2>3. Grown(sessions') /\ Len(sessions') = Len(sessions)
    <3>1. sessions' \in [1..Len(sessions) -> Session]
      BY <1>3, <2>1, LiveIsNat DEF Session, ScopeInv
    <3>2. \A i \in 1..Len(sessions) : sessions'[i].by = sessions[i].by
      BY <1>3, <2>1 DEF Session
    <3> QED
      BY <3>1, <3>2, Rewritten DEF ScopeInv
  <2> QED
    BY <1>1, <1>3, <2>2, <2>3 DEF ScopeInv, Rows, Stands
<1> QED
  BY <1>2, <1>3 DEF SwitchCommits

LEMMA MergesStand ==
    ASSUME ScopeInv, NEW c \in Caller, MergeCommits(c)
    PROVE  Rows' /\ Len(sessions) <= Len(sessions')
<1>1. CASE UNCHANGED <<memory, sessions, titles>>
  BY <1>1, RowsStand DEF Live
<1> DEFINE from == call[c].from
           to == call[c].to
<1>2. CASE /\ MayMove(c)
           /\ memory' = [m \in Memory |-> Moved(c, memory[m], m \in Carried)]
           /\ sessions' = [i \in DOMAIN sessions |->
                 [sessions[i] EXCEPT !.project = Moved(c, sessions[i].project, TRUE)]]
           /\ titles' = [t \in Title |-> IF titles[t] = from THEN Unscoped ELSE titles[t]]
  <2>1. titles \in [Title -> 0..MaxProjects]
    BY DEF ScopeInv, Projects
  <2>2. Live' = Live \ {from}
    <3>1. \A t \in Title : titles'[t] = IF titles[t] = from THEN Unscoped ELSE titles[t]
      BY <1>2
    <3> QED
      BY <3>1 DEF Live
  <2>3. /\ sessions \in [1..Len(sessions) -> Session] /\ Len(sessions) \in Nat
        /\ DOMAIN sessions = 1..Len(sessions)
    BY LenProperties DEF ScopeInv, WorkInv, Typed
  <2>4. from \in Nat /\ to \in Nat
    <3>1. call[c] \in [op : {"merge"}, from : Nat, to : Nat]
      BY Callers DEF MergeCommits, Pending, ScopeInv
    <3> QED
      BY <3>1
  <2>6. ASSUME NEW m \in Memory
        PROVE  memory'[m] \in Live' \cup {Unscoped, -1}
    <3>1. memory[m] \in Live \cup {Unscoped, -1}
      BY DEF ScopeInv, Rows
    <3>2. m \in Carried /\ Finds(c, memory[m]) => to \in Live
      BY <1>2 DEF MayMove
    <3>3. memory'[m] = Moved(c, memory[m], m \in Carried)
      BY <1>2
    <3> QED
      BY <2>2, <2>4, <3>1, <3>2, <3>3 DEF Moved, Unscoped
  <2>7. ASSUME NEW i \in 1..Len(sessions)
        PROVE  /\ sessions'[i].project \in Live' \cup {Unscoped}
               /\ sessions'[i] \in Session
               /\ sessions'[i].by = sessions[i].by
    <3>1. /\ sessions[i] \in Session
          /\ sessions[i].project \in Live \cup {Unscoped}
          /\ sessions[i].project # -1
      BY <2>3, LiveIsNat DEF ScopeInv, Rows, Stands, Session, Unscoped
    <3>2. Finds(c, sessions[i].project) => to \in Live
      BY <1>2, <2>3 DEF MayMove
    <3>3. PICK z : z = Moved(c, sessions[i].project, TRUE)
      OBVIOUS
    <3>4. z \in Live' \cup {Unscoped}
      BY <2>2, <2>4, <3>1, <3>2, <3>3 DEF Moved, Unscoped
    <3>5. z \in Nat
      BY <2>2, <3>4, LiveIsNat DEF Unscoped
    <3>6. sessions'[i] = [sessions[i] EXCEPT !.project = z]
      BY <1>2, <2>3, <3>3
    <3> QED
      BY <3>1, <3>4, <3>5, <3>6 DEF Session
  <2>8. Len(sessions') = Len(sessions)
    <3>1. sessions' \in [1..Len(sessions) -> Session]
      BY <1>2, <2>3, <2>7
    <3> QED
      BY <2>7, <3>1, Rewritten DEF ScopeInv
  <2>9. memory' \in [Memory -> Live' \cup {Unscoped, -1}]
    BY <1>2, <2>6
  <2> QED
    BY <2>7, <2>8, <2>9 DEF ScopeInv, Rows, Stands
<1> QED
  BY <1>1, <1>2 DEF MergeCommits

LEMMA BackfillsStand ==
    ASSUME ScopeInv, NEW c \in Caller, BackfillCommits(c)
    PROVE  Rows' /\ Len(sessions) <= Len(sessions')
<1>1. UNCHANGED titles /\ Live' = Live
  BY DEF BackfillCommits, Live
<1>2. CASE UNCHANGED <<memory, sessions>>
  BY <1>1, <1>2, RowsStand
<1>3. CASE /\ call[c].project \in Live
           /\ memory' = [m \in Memory |-> IF m \in Filled THEN Filling(c, memory[m]) ELSE memory[m]]
           /\ sessions' = [i \in DOMAIN sessions |->
                 [sessions[i] EXCEPT !.project = Filling(c, @)]]
  <2>1. /\ sessions \in [1..Len(sessions) -> Session] /\ Len(sessions) \in Nat
        /\ DOMAIN sessions = 1..Len(sessions)
    BY LenProperties DEF ScopeInv, WorkInv, Typed
  <2>2. ASSUME NEW i \in 1..Len(sessions)
        PROVE  /\ sessions'[i].project \in Live \cup {Unscoped}
               /\ sessions'[i] \in Session
               /\ sessions'[i].by = sessions[i].by
    <3>1. sessions[i] \in Session /\ sessions[i].project \in Live \cup {Unscoped}
      BY <2>1 DEF ScopeInv, Rows, Stands
    <3>2. /\ Filling(c, sessions[i].project) \in Live \cup {Unscoped}
          /\ Filling(c, sessions[i].project) \in Nat
      BY <1>3, <3>1, LiveIsNat DEF Filling, Unscoped, ScopeInv
    <3>3. sessions'[i] = [sessions[i] EXCEPT !.project = Filling(c, sessions[i].project)]
      BY <1>3, <2>1
    <3> QED
      BY <3>1, <3>2, <3>3 DEF Session
  <2>3. Len(sessions') = Len(sessions)
    <3>1. sessions' \in [1..Len(sessions) -> Session]
      BY <1>3, <2>1, <2>2
    <3> QED
      BY <2>2, <3>1, Rewritten DEF ScopeInv
  <2>4. memory' \in [Memory -> Live \cup {Unscoped, -1}]
    BY <1>3 DEF ScopeInv, Rows, Filling
  <2> QED
    BY <1>1, <2>2, <2>3, <2>4 DEF ScopeInv, Rows, Stands
<1> QED
  BY <1>2, <1>3 DEF BackfillCommits

LEMMA RowsKeep ==
    ASSUME ScopeInv, [WorkspacesNext]_workspacesVars
    PROVE  Rows'
<1>1. ASSUME NEW c \in Caller, NEW t \in Title, Upserting(c, t)
      PROVE  Rows'
  <2>1. Upserts(t) \/ UNCHANGED titles
    BY <1>1 DEF Upserting, StartAsks, SwitchAsks, BackfillAsks, AdoptRoot
  <2>2. Live \subseteq Live'
    BY <2>1, UpsertsAdd DEF Live
  <2> QED
    BY <1>1, <2>2, RowsStand DEF Upserting, StartAsks, SwitchAsks, BackfillAsks, AdoptRoot
<1>2. ASSUME NEW c \in Caller, NEW from \in Title, NEW to \in Title, MergeAsks(c, from, to)
      PROVE  Rows'
  BY <1>2, UpsertsAdd, RowsStand DEF MergeAsks
<1>3. ASSUME NEW c \in Caller, NEW from \in Title, NEW to \in Title, Rename(c, from, to)
      PROVE  Rows'
  <2>1. titles \in [Title -> 0..MaxProjects]
    BY DEF ScopeInv, Projects
  <2>2. Live \subseteq Live'
    <3>1. titles'[to] = titles[from] /\ \A t \in Title \ {from, to} : titles'[t] = titles[t]
      BY <1>3, <2>1 DEF Rename
    <3> QED
      BY <1>3, <3>1 DEF Rename, Live
  <2> QED
    BY <1>3, <2>2, RowsStand DEF Rename
<1>4. ASSUME NEW c \in Caller, EndUpdates(c)
      PROVE  Rows'
  <2>1. Works(c).session \in Nat /\ Works(c).session \in 1..Len(sessions)
    BY <1>4, Callers DEF EndUpdates, Own, ScopeInv
  <2>2. sessions' = sessions \/ sessions' = Ended(Works(c).session)
    BY <1>4 DEF EndUpdates
  <2> QED
    BY <1>4, <2>1, <2>2, EndedStands, RowsStand DEF EndUpdates, Live
<1>5. ASSUME NEW c \in Caller, NEW m \in Memory, Remember(c, m)
      PROVE  Rows'
  BY <1>5 DEF Remember, ScopeInv, Rows, Stands, Live
<1>6. CASE UNCHANGED <<titles, sessions, memory>>
  BY <1>6, RowsStand DEF Live
<1> QED
  BY <1>1, <1>2, <1>3, <1>4, <1>5, <1>6, StartsStand, SwitchesStand, MergesStand, BackfillsStand
     DEF WorkspacesNext, workspacesVars, Upserting, StartReads, Sets, EndClears, Cut,
         GoesStale, ReapLooks,
         ReapRemoves, ReapForgets, ReapUproots, Restart

-----------------------------------------------------------------------------
(* What clients hold and calls carry.                                      *)

LEMMA MorePending ==
    ASSUME ScopeInv, Len(sessions') \in Nat, Len(sessions) <= Len(sessions'),
           active' = active, roots' \in [Label -> 0..MaxProjects],
           NEW c \in Caller, NEW p, Within(p), call' = [call EXCEPT ![c] = p]
    PROVE  Bindings'
<1>1. Len(sessions) \in Nat
  BY DEF ScopeInv, WorkInv, Typed
<1>2. active' \in [Label \X Chat -> [session : 0..Len(sessions'), project : 0..MaxProjects]]
  <2>1. 0..Len(sessions) \subseteq 0..Len(sessions')
    BY <1>1
  <2>2. [session : 0..Len(sessions), project : 0..MaxProjects]
          \subseteq [session : 0..Len(sessions'), project : 0..MaxProjects]
    BY <2>1
  <2> QED
    BY <2>2 DEF ScopeInv, Bindings
<1>3. ASSUME NEW d \in Caller PROVE Within(call'[d])
  <2>1. call'[d] = p \/ call'[d] = call[d]
    BY DEF ScopeInv, WorkInv, Typed
  <2> QED
    BY <2>1 DEF ScopeInv, Bindings
<1> QED
  BY <1>2, <1>3 DEF Bindings

LEMMA SessionsStay ==
    ASSUME ScopeInv, [WorkspacesNext]_workspacesVars
    PROVE  Len(sessions') \in Nat /\ Len(sessions) <= Len(sessions')
<1>1. Len(sessions) \in Nat /\ Len(sessions') \in Nat
  BY WorkKeeps DEF ScopeInv, WorkInv, Typed
<1>2. ASSUME NEW c \in Caller, EndUpdates(c)
      PROVE  Len(sessions) <= Len(sessions')
  <2>1. Works(c).session \in Nat /\ Works(c).session \in 1..Len(sessions)
    BY <1>2, Callers DEF EndUpdates, Own, ScopeInv
  <2>2. sessions' = sessions \/ sessions' = Ended(Works(c).session)
    BY <1>2 DEF EndUpdates
  <2> QED
    BY <1>1, <2>1, <2>2, EndedStands
<1>3. CASE UNCHANGED sessions
  BY <1>1, <1>3
<1> QED
  BY <1>1, <1>2, <1>3, StartsStand, SwitchesStand, MergesStand, BackfillsStand
     DEF WorkspacesNext, workspacesVars, StartAsks, SwitchAsks, BackfillAsks, AdoptRoot,
         StartReads, Sets, EndClears, Cut, Rename, MergeAsks, Remember, GoesStale,
         ReapLooks, ReapRemoves, ReapForgets, ReapUproots, Restart

LEMMA IdleIsWithin == Within(Idle)
  BY DEF Within, Idle

LEMMA AsksBind ==
    ASSUME ScopeInv, Len(sessions') \in Nat, Len(sessions) <= Len(sessions'),
           NEW c \in Caller, NEW t \in Title, Upserting(c, t)
    PROVE  Bindings'
<1>1. active' = active
  BY DEF Upserting, StartAsks, SwitchAsks, BackfillAsks, AdoptRoot
<1>2. roots \in [Label -> 0..MaxProjects] /\ LabelOf[c] \in Label
  BY DEF ScopeInv, Bindings, Label
<1>3. CASE StartAsks(c, t)
  <2>1. PICK x \in 0..MaxProjects : call' = [call EXCEPT ![c] = [op |-> "start", project |-> x]]
    BY <1>3, UpsertsAdd, WorkspacesAssumption DEF StartAsks, Calls, Unscoped
  <2>2. Within([op |-> "start", project |-> x])
    BY WorkspacesAssumption DEF Within
  <2> QED
    BY <1>1, <1>2, <1>3, <2>1, <2>2, MorePending DEF StartAsks
<1>4. CASE SwitchAsks(c, t)
  <2>1. titles'[t] \in 0..MaxProjects
    BY <1>4, UpsertsAdd DEF SwitchAsks
  <2>2. Within([op |-> "switch", project |-> titles'[t], session |-> Works(c).session])
    BY <2>1, WorkspacesAssumption DEF Within
  <2>3. PICK p : Within(p) /\ call' = [call EXCEPT ![c] = p]
    BY <1>4, <2>2, IdleIsWithin DEF SwitchAsks, Calls
  <2> QED
    BY <1>1, <1>2, <1>4, <2>3, MorePending DEF SwitchAsks
<1>5. CASE BackfillAsks(c, t)
  <2>1. titles'[t] \in 0..MaxProjects
    BY <1>5, UpsertsAdd DEF BackfillAsks
  <2>2. Within([op |-> "backfill", project |-> titles'[t]])
    BY <2>1, WorkspacesAssumption DEF Within
  <2>3. call' = [call EXCEPT ![c] = [op |-> "backfill", project |-> titles'[t]]]
    BY <1>5 DEF BackfillAsks, Calls
  <2> QED
    BY <1>1, <1>2, <1>5, <2>2, <2>3, MorePending DEF BackfillAsks
<1>6. CASE AdoptRoot(c, t)
  <2>1. titles'[t] \in 0..MaxProjects
    BY <1>6, UpsertsAdd DEF AdoptRoot
  <2>2. roots' \in [Label -> 0..MaxProjects] /\ call' = [call EXCEPT ![c] = Idle]
    BY <1>2, <1>6, <2>1 DEF AdoptRoot, Calls
  <2> QED
    BY <1>1, <2>2, IdleIsWithin, MorePending
<1> QED
  BY <1>3, <1>4, <1>5, <1>6 DEF Upserting

LEMMA CommitsBind ==
    ASSUME ScopeInv, Len(sessions') \in Nat, Len(sessions) <= Len(sessions'),
           NEW c \in Caller, StartReads(c) \/ StartCommits(c) \/ SwitchCommits(c)
    PROVE  Bindings'
<1>1. roots' \in [Label -> 0..MaxProjects] /\ active' = active
  BY DEF StartReads, StartCommits, SwitchCommits, ScopeInv, Bindings
<1>3. call[c].project <= MaxProjects
  <2>1. Within(call[c])
    BY DEF ScopeInv, Bindings
  <2> QED
    BY <2>1 DEF Within, StartReads, StartCommits, SwitchCommits
<1>4. \E p : Within(p) /\ call' = [call EXCEPT ![c] = p]
  <2>2. ASSUME NEW i
        PROVE  Within([op |-> "replace", project |-> call[c].project, replaces |-> i])
    BY <1>3 DEF Within
  <2>1. ASSUME NEW i
        PROVE  Within([op |-> "set", active |-> [session |-> i, project |-> call[c].project]])
    BY <1>3 DEF Within
  <2> QED
    BY <2>1, <2>2, IdleIsWithin DEF StartReads, StartCommits, SwitchCommits, Returns
<1> QED
  BY <1>1, <1>4, MorePending

LEMMA SetsBind ==
    ASSUME ScopeInv, NEW c \in Caller, Sets(c) \/ EndClears(c)
    PROVE  Bindings'
<1>1. UNCHANGED <<roots, sessions>> /\ call' = [call EXCEPT ![c] = Idle]
  BY DEF Sets, EndClears, Returns
<1>2. PICK held \in [session : 0..Len(sessions), project : 0..MaxProjects] :
          active' = active \/ active' = [active EXCEPT ![Key(c)] = held]
  <2>1. CASE Sets(c)
    <3>1. call[c] \in [op : {"set"}, active : Working]
      BY <2>1, Callers DEF Sets, Pending, ScopeInv
    <3>2. Own(c, call[c].active.session) /\ call[c].active.project <= MaxProjects
      BY <2>1 DEF Sets, ScopeInv, WorkInv, Carries, Bindings, Within
    <3>3. call[c].active \in [session : 0..Len(sessions), project : 0..MaxProjects]
      BY <3>1, <3>2, WorkspacesAssumption DEF Working, Own
    <3> QED
      BY <2>1, <3>3 DEF Sets
  <2>2. CASE EndClears(c)
    <3>1. Nobody \in [session : 0..Len(sessions), project : 0..MaxProjects]
      BY WorkspacesAssumption DEF Nobody, Unscoped, ScopeInv, WorkInv, Typed
    <3> QED
      BY <2>2, <3>1 DEF EndClears
  <2> QED
    BY <2>1, <2>2
<1>3. \A d \in Caller : Within(call'[d])
  <2>1. \A d \in Caller : call'[d] = call[d] \/ call'[d] = Idle
    BY <1>1 DEF ScopeInv, WorkInv, Typed
  <2> QED
    BY <2>1, IdleIsWithin DEF ScopeInv, Bindings
<1> QED
  BY <1>1, <1>2, <1>3 DEF ScopeInv, Bindings

LEMMA ForgettingBinds ==
    ASSUME ScopeInv, (\E k \in DOMAIN seen : ReapForgets(k)) \/ ReapUproots \/ Restart
    PROVE  Bindings'
<1>1. Nobody \in [session : 0..Len(sessions), project : 0..MaxProjects]
  BY WorkspacesAssumption DEF Nobody, Unscoped, ScopeInv, WorkInv, Typed
<1>2. active' \in [Label \X Chat -> [session : 0..Len(sessions), project : 0..MaxProjects]]
  BY <1>1 DEF ReapForgets, ReapUproots, Restart, ScopeInv, Bindings
<1>3. roots' \in [Label -> 0..MaxProjects]
  <2>1. roots \in [Label -> 0..MaxProjects] /\ Unscoped \in 0..MaxProjects
    BY WorkspacesAssumption DEF ScopeInv, Bindings, Unscoped
  <2>2. CASE ReapUproots
    BY <2>1, <2>2 DEF ReapUproots
  <2>3. CASE Restart
    BY <2>1, <2>3 DEF Restart
  <2>4. CASE \E k \in DOMAIN seen : ReapForgets(k)
    BY <2>1, <2>4 DEF ReapForgets
  <2> QED
    BY <2>2, <2>3, <2>4
<1>4. \A d \in Caller : Within(call'[d])
  BY IdleIsWithin DEF ReapForgets, ReapUproots, Restart, ScopeInv, Bindings
<1> QED
  BY <1>2, <1>3, <1>4 DEF ReapForgets, ReapUproots, Restart, Bindings

LEMMA BindingsKeep ==
    ASSUME ScopeInv, [WorkspacesNext]_workspacesVars
    PROVE  Bindings'
<1>0. Len(sessions') \in Nat /\ Len(sessions) <= Len(sessions')
  BY SessionsStay
<1>1. roots \in [Label -> 0..MaxProjects]
  BY DEF ScopeInv, Bindings
<1>2. ASSUME NEW c \in Caller, NEW from \in Title, NEW to \in Title, MergeAsks(c, from, to)
      PROVE  Bindings'
  <2>1. titles'[to] \in 0..MaxProjects
    BY <1>2, UpsertsAdd DEF MergeAsks
  <2>2. Within([op |-> "merge", from |-> titles[from], to |-> titles'[to]])
    BY <2>1, WorkspacesAssumption DEF Within
  <2>3. call' = [call EXCEPT ![c] = [op |-> "merge", from |-> titles[from], to |-> titles'[to]]]
    BY <1>2 DEF MergeAsks, Calls
  <2> QED
    BY <1>0, <1>1, <1>2, <2>2, <2>3, MorePending DEF MergeAsks
<1>3. ASSUME NEW c \in Caller, EndUpdates(c)
      PROVE  Bindings'
  <2>1. Within([op |-> "clear"])
    BY DEF Within
  <2> QED
    BY <1>0, <1>1, <1>3, <2>1, MorePending DEF EndUpdates, Calls
<1>4. ASSUME NEW c \in Caller, MergeCommits(c) \/ BackfillCommits(c)
      PROVE  Bindings'
  BY <1>0, <1>1, <1>4, IdleIsWithin, MorePending DEF MergeCommits, BackfillCommits, Returns
<1>5. ASSUME NEW c \in Caller,
             \/ \E from, to \in Title : Rename(c, from, to)
             \/ \E m \in Memory : Remember(c, m)
             \/ Cut(c)
      PROVE  Bindings'
  <2>1. UNCHANGED <<sessions, active, roots>> /\ call' = [call EXCEPT ![c] = Idle]
    BY <1>5 DEF Rename, Remember, Cut, Calls, Returns
  <2> QED
    BY <1>0, <1>1, <2>1, IdleIsWithin, MorePending
<1>6. CASE UNCHANGED <<sessions, active, roots, call>>
  BY <1>6 DEF ScopeInv, Bindings
<1> QED
  BY <1>0, <1>2, <1>3, <1>4, <1>5, <1>6, AsksBind, CommitsBind, SetsBind, ForgettingBinds
     DEF WorkspacesNext, workspacesVars, Upserting, GoesStale, ReapLooks, ReapRemoves

-----------------------------------------------------------------------------
LEMMA SightingsKeep ==
    ASSUME ScopeInv, [WorkspacesNext]_workspacesVars
    PROVE  Sightings'
<1>1. seen \in [SeenKeys -> {"never", "fresh", "stale"}]
  BY DEF ScopeInv, Sightings
<1>2. UNCHANGED walled
  BY DEF WorkspacesNext, workspacesVars, StartAsks, SwitchAsks, BackfillAsks, AdoptRoot,
         StartReads, StartCommits, Sets, EndUpdates, EndClears, SwitchCommits,
         MergeCommits, BackfillCommits,
         Cut, Rename, MergeAsks, Remember, GoesStale, ReapLooks, ReapRemoves,
         ReapForgets, ReapUproots, Restart
<1>3. CASE UNCHANGED <<seen, reaping>>
  BY <1>2, <1>3 DEF ScopeInv, Sightings
<1>4. ASSUME NEW c \in Caller, NEW what, Calls(c, what), UNCHANGED reaping
      PROVE  Sightings'
  BY <1>1, <1>2, <1>4 DEF Calls, ScopeInv, Sightings
<1>5. CASE \/ \E k \in DOMAIN seen : GoesStale(k) \/ ReapForgets(k)
           \/ ReapLooks \/ ReapRemoves \/ ReapUproots \/ Restart
  <2>0. reaping \in Reaping /\ walled' \in BOOLEAN
    BY <1>2 DEF ScopeInv, Sightings
  <2>1. CASE \E k \in DOMAIN seen : GoesStale(k)
    BY <1>1, <2>0, <2>1 DEF GoesStale, Sightings
  <2>2. CASE ReapLooks
    <3>1. {k \in DOMAIN seen : seen[k] = "stale"} \subseteq SeenKeys
      BY <1>1
    <3> QED
      BY <1>1, <2>0, <2>2, <3>1 DEF ReapLooks, Sightings, Resting, Reaping
  <2>3. CASE ReapRemoves
    <3>1. seen' \in [SeenKeys -> {"never", "fresh", "stale"}]
      <4> DEFINE gone(k) == k \in reaping.found
      <4>1. seen' = [k \in SeenKeys |-> IF gone(k) THEN "never" ELSE seen[k]]
        BY <1>1, <2>3 DEF ReapRemoves
      <4> HIDE DEF gone
      <4> QED
        BY <1>1, <4>1
    <3>2. reaping' \in Reaping
      BY <2>0, <2>3 DEF ReapRemoves, Resting, Reaping
    <3> QED
      BY <2>0, <3>1, <3>2 DEF Sightings
  <2>4. CASE \E k \in DOMAIN seen : ReapForgets(k)
    <3>1. PICK k \in SeenKeys : reaping' = [reaping EXCEPT !.doomed = @ \ {k}, !.uprooting = {k}]
                                 /\ UNCHANGED seen
      BY <1>1, <2>4 DEF ReapForgets
    <3>2. reaping' \in Reaping
      BY <2>0, <3>1 DEF Reaping
    <3> QED
      BY <1>1, <2>0, <3>1, <3>2 DEF Sightings
  <2>5. CASE ReapUproots
    BY <1>1, <2>0, <2>5 DEF ReapUproots, Sightings, Reaping
  <2>6. CASE Restart
    <3>1. seen' \in [SeenKeys -> {"never", "fresh", "stale"}]
      <4>1. seen' = [k \in SeenKeys |-> "never"]
        BY <1>1, <2>6 DEF Restart
      <4> QED
        BY <4>1
    <3> QED
      BY <2>0, <2>6, <3>1 DEF Restart, Resting, Reaping, Sightings
  <2> QED
    BY <1>5, <2>1, <2>2, <2>3, <2>4, <2>5, <2>6
<1> QED
  BY <1>3, <1>4, <1>5
     DEF WorkspacesNext, workspacesVars, StartAsks, SwitchAsks, BackfillAsks, AdoptRoot,
         StartReads, StartCommits, Sets, EndUpdates, EndClears, SwitchCommits,
         MergeCommits, BackfillCommits,
         Cut, Rename, MergeAsks, Remember

LEMMA ScopeKeeps == ScopeInv /\ [WorkspacesNext]_workspacesVars => ScopeInv'
  BY WorkKeeps, ProjectsKeep, RowsKeep, BindingsKeep, SightingsKeep DEF ScopeInv

LEMMA ScopeHolds == WorkspacesSpec => []ScopeInv
  BY ScopeStarts, ScopeKeeps, PTL DEF WorkspacesSpec

(* Every reachable state is well typed: sessions and memories name no      *)
(* project that was merged away, and no client works in a session that is  *)
(* not there.                                                              *)
THEOREM WorkspacesTypes == WorkspacesSpec => []WorkspacesTypeOK
  BY ScopeHolds, ScopeTypes, PTL

-----------------------------------------------------------------------------
(* What the code is refuted by, and what would make it true.               *)

(* A session stays on the machine it was started on where no two machines  *)
(* send one client id in one chat: the key of a binding has no machine, so *)
(* whoever configures the clients has to keep them apart.                  *)
THEOREM MachinesApartByIds ==
    ASSUME \A c, d \in Caller : Key(c) = Key(d) => MachineOf[c] = MachineOf[d]
    PROVE  WorkspacesSpec => []MachinesAreApart
<1>1. WorkInv => MachinesAreApart
  <2> SUFFICES ASSUME WorkInv, NEW c \in Caller, Works(c) # Nobody
               PROVE  MachineOf[sessions[Works(c).session].by] = MachineOf[c]
    BY DEF MachinesAreApart
  <2>1. Own(c, Works(c).session)
    BY Callers
  <2>2. sessions[Works(c).session].by \in Caller
    <3>1. sessions \in [1..Len(sessions) -> Session]
      BY LenProperties DEF WorkInv, Typed
    <3> QED
      BY <2>1, <3>1 DEF Own, Session
  <2> QED
    BY <2>1, <2>2 DEF Own, Key
<1> QED
  BY <1>1, WorkHolds, PTL

(* Nobody sees less than all, and no project is merged into itself.        *)
Unwalled == ~walled /\ \A c \in Caller : call[c].op = "merge" => call[c].from # call[c].to

(* A merge leaves no memory of the project it deletes behind where nobody  *)
(* keeps rows but those of the six tables it moves (no procedures, facts,  *)
(* artifacts or hypotheses) and row-level security hides none of them.     *)
THEOREM MergesOfAllKeepScope ==
    ASSUME Carried = Memory
    PROVE  WorkspacesSpec /\ []Unwalled => MergesKeepScope
<1> DEFINE Kept == \A m \in Memory : memory[m] \in Project => memory'[m] \in Project
<1>1. ScopeInv /\ Unwalled /\ [WorkspacesNext]_workspacesVars => Kept
  <2> SUFFICES ASSUME ScopeInv, Unwalled, [WorkspacesNext]_workspacesVars,
                      NEW m \in Memory, memory[m] \in Project
               PROVE  memory'[m] \in Project
    OBVIOUS
  <2>1. Live \subseteq Project
    BY WorkspacesAssumption DEF ScopeInv, Projects, Live, Unscoped, Project
  <2>2. ASSUME NEW c \in Caller, MergeCommits(c)
        PROVE  memory'[m] \in Project
    <3>1. CASE UNCHANGED memory
      BY <3>1
    <3>2. CASE MayMove(c) /\ memory' = [o \in Memory |-> Moved(c, memory[o], o \in Carried)]
      <4>1. CASE memory[m] # call[c].from
        BY <3>2, <4>1 DEF Moved
      <4>2. CASE memory[m] = call[c].from
        <5>1. Finds(c, memory[m]) /\ call[c].to # call[c].from
          BY <2>2, <4>2 DEF Finds, Sees, Unwalled, MergeCommits
        <5>2. call[c].to \in Live
          BY <3>2, <5>1 DEF MayMove
        <5> QED
          BY <2>1, <3>2, <4>2, <5>1, <5>2 DEF Moved
      <4> QED
        BY <4>1, <4>2
    <3> QED
      BY <2>2, <3>1, <3>2 DEF MergeCommits
  <2>3. ASSUME NEW c \in Caller, BackfillCommits(c)
        PROVE  memory'[m] \in Project
    BY <2>3 DEF BackfillCommits, Filling, Project, Unscoped
  <2>4. ASSUME NEW c \in Caller, NEW o \in Memory, Remember(c, o)
        PROVE  memory'[m] \in Project
    <3>1. memory[o] = -1 /\ -1 \notin Project /\ memory' = [memory EXCEPT ![o] = Current(c)]
      BY <2>4 DEF Remember, Project
    <3> QED
      BY <3>1 DEF ScopeInv, Rows
  <2>5. CASE UNCHANGED memory
    BY <2>5
  <2> QED
    BY <2>2, <2>3, <2>4, <2>5
       DEF WorkspacesNext, workspacesVars, StartAsks, SwitchAsks, BackfillAsks, AdoptRoot,
           StartReads, StartCommits, Sets, EndUpdates, EndClears, SwitchCommits, Cut,
           Rename, MergeAsks,
           GoesStale, ReapLooks, ReapRemoves, ReapForgets, ReapUproots, Restart
<1>2. WorkspacesSpec /\ []Unwalled => [][Kept]_workspacesVars
  BY <1>1, ScopeHolds, PTL DEF WorkspacesSpec
<1> QED
  BY <1>2 DEF MergesKeepScope
=============================================================================
