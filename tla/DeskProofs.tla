------------------------------ MODULE DeskProofs -----------------------------
(* Theorems about what a node keeps besides the graph: Texts, for every    *)
(* number of nodes and texts, every cap of the history and every bound on  *)
(* versions; Artifacts, for every number of nodes, clients, bodies and     *)
(* versions; AuditChain, for every number of calls, retries and processes; *)
(* and what MCDesk makes of the three.                                     *)
EXTENDS MCDesk, SequenceTheorems, TLAPS

-----------------------------------------------------------------------------
(* Texts.                                                                  *)

(* The history.                                                            *)

(* A history gains the text it is given and lets go at most of its oldest. *)
LEMMA HistoriesKeep ==
    ASSUME NEW past \in Seq(Text), NEW t \in Text
    PROVE  /\ Appended(past, t) \in Seq(Text)
           /\ Evicted(past) \subseteq Text
           /\ t \in Range(Appended(past, t))
           /\ Range(past) \cup {t} \subseteq Range(Appended(past, t)) \cup Evicted(past)
<1>0. Cap \in Nat \ {0} /\ Len(past) \in Nat
  BY TextsAssumption
<1>1. CASE Len(past) < Cap
  <2>1. Appended(past, t) = Append(past, t) /\ Evicted(past) = {}
    BY <1>1 DEF Appended, Evicted
  <2>2. /\ Append(past, t) \in Seq(Text)
        /\ Len(Append(past, t)) = Len(past) + 1
        /\ \A i \in 1..Len(past) : Append(past, t)[i] = past[i]
        /\ Append(past, t)[Len(past) + 1] = t
    OBVIOUS
  <2>3. Range(past) \cup {t} \subseteq Range(Append(past, t))
    BY <1>0, <2>2 DEF Range
  <2> QED
    BY <2>1, <2>2, <2>3
<1>2. CASE ~(Len(past) < Cap)
  <2> DEFINE rest == Tail(past)
  <2>1. /\ Appended(past, t) = Append(rest, t)
        /\ Evicted(past) = {Head(past)}
        /\ past # <<>>
    BY <1>0, <1>2 DEF Appended, Evicted
  <2>2. /\ rest \in Seq(Text)
        /\ Len(rest) = Len(past) - 1
        /\ \A i \in 1..Len(rest) : rest[i] = past[i + 1]
        /\ Head(past) = past[1]
        /\ Head(past) \in Text
    BY <2>1
  <2>3. /\ Append(rest, t) \in Seq(Text)
        /\ Len(Append(rest, t)) = Len(past)
        /\ \A i \in 1..Len(rest) : Append(rest, t)[i] = rest[i]
        /\ Append(rest, t)[Len(past)] = t
    BY <1>0, <2>2
  <2> HIDE DEF rest
  <2>4. ASSUME NEW i \in 1..Len(past)
        PROVE  past[i] \in Range(Append(rest, t)) \cup {Head(past)}
    <3>1. CASE i = 1
      BY <2>2, <3>1
    <3>2. CASE i # 1
      <4>1. i - 1 \in 1..Len(rest) /\ (i - 1) + 1 = i
        BY <1>0, <2>2, <3>2
      <4>2. Append(rest, t)[i - 1] = past[i]
        BY <2>2, <2>3, <4>1
      <4>3. i - 1 \in DOMAIN Append(rest, t)
        BY <1>0, <2>2, <2>3, <4>1
      <4> QED
        BY <4>2, <4>3 DEF Range
    <3> QED
      BY <3>1, <3>2
  <2>5. t \in Range(Append(rest, t))
    <3>1. Len(past) \in DOMAIN Append(rest, t)
      BY <1>0, <1>2, <2>3
    <3> QED
      BY <2>3, <3>1 DEF Range
  <2>6. Range(past) \subseteq Range(Append(rest, t)) \cup {Head(past)}
    BY <2>4 DEF Range
  <2> QED
    BY <2>1, <2>2, <2>3, <2>5, <2>6
<1> QED
  BY <1>1, <1>2

-----------------------------------------------------------------------------
(* The inductive invariant: only a row that is here can have a conflict.   *)

Rooted == \A n \in Node : conflict[n] # Nothing => row[n] # Nothing

TextsInv == TextsTypeOK /\ Rooted /\ OwnTextsSurvive

LEMMA TextsStart == TextsInit => TextsInv
  BY DEF TextsInit, TextsInv, TextsTypeOK, Rooted, OwnTextsSurvive, Held

(* What is here is a row, what is open is a conflict.                      *)
LEMMA Rows ==
    ASSUME TextsInv, NEW n \in Node
    PROVE  /\ row[n] # Nothing =>
                  /\ row[n] \in Row /\ row[n].text \in Text
                  /\ row[n].version \in 1..MaxVersion /\ row[n].past \in Seq(Text)
           /\ conflict[n] # Nothing =>
                  /\ row[n] # Nothing /\ conflict[n] \in Conflict
                  /\ conflict[n].ours \in Text /\ conflict[n].theirs \in Text
           /\ offer[n] # Nothing => offer[n] \in Row /\ offer[n].text \in Text
  BY DEF TextsInv, TextsTypeOK, Rooted, Row, Conflict

NoText == {}

LEMMA NoTexts == NoText \in SUBSET Text
  BY DEF NoText

(* A step that puts a row in the place of another, on one node, keeps the  *)
(* invariant if it keeps the texts of the node.                            *)
LEMMA Replacing ==
    ASSUME TextsInv, NEW n \in Node, NEW r \in Row, NEW here \in SUBSET Text,
           NEW gone \in SUBSET Text,
           row' = [row EXCEPT ![n] = r],
           lost' = lost \cup gone,
           written' = [written EXCEPT ![n] = @ \cup here],
           conflict' \in [Node -> Conflict \cup {Nothing}],
           offer' = offer, took' \in [Node -> SUBSET Row],
           \A m \in Node \ {n} : conflict'[m] = conflict[m],
           here \cup (Held(n) \cap written[n]) \subseteq {r.text} \cup Range(r.past) \cup lost \cup gone
    PROVE  TextsInv'
<1>0. /\ row \in [Node -> Row \cup {Nothing}]
      /\ written \in [Node -> SUBSET Text]
      /\ lost \subseteq Text
  BY DEF TextsInv, TextsTypeOK
<1>1. TextsTypeOK'
  BY <1>0 DEF TextsInv, TextsTypeOK
<1>2. /\ r # Nothing
      /\ \A m \in Node : row'[m] = IF m = n THEN r ELSE row[m]
  BY <1>0, NothingAssumption
<1>3. Rooted'
  BY <1>2 DEF TextsInv, Rooted
<1>4. OwnTextsSurvive'
  <2> SUFFICES ASSUME NEW m \in Node PROVE written'[m] \subseteq Held(m)' \cup lost'
    BY DEF OwnTextsSurvive
  <2>1. written[m] \subseteq Held(m) \cup lost
    BY DEF TextsInv, OwnTextsSurvive
  <2>2. CASE m # n
    <3>1. written'[m] = written[m] /\ Held(m)' = Held(m)
      BY <1>0, <1>2, <2>2 DEF Held
    <3> QED
      BY <2>1, <3>1
  <2>3. CASE m = n
    <3>1. written'[m] = written[m] \cup here
      BY <1>0, <2>3
    <3>2. Held(m)' = {r.text} \cup Range(r.past)
      BY <1>2, <2>3 DEF Held
    <3> QED
      BY <2>1, <2>3, <3>1, <3>2
  <2> QED
    BY <2>2, <2>3
<1> QED
  BY <1>1, <1>3, <1>4 DEF TextsInv

(* What leaves rows, texts and losses as they are.                         *)
LEMMA Standing ==
    ASSUME TextsInv, UNCHANGED <<row, written, lost>>,
           conflict' \in [Node -> Conflict \cup {Nothing}],
           \A n \in Node : conflict'[n] # Nothing => row[n] # Nothing,
           offer' \in [Node -> Row \cup {Nothing}], took' \in [Node -> SUBSET Row]
    PROVE  TextsInv'
  BY DEF TextsInv, TextsTypeOK, Rooted, OwnTextsSurvive, Held

(* A correction or an overwrite is a row again, and keeps what was there.  *)
LEMMA Superseding ==
    ASSUME NEW r \in Row, NEW t \in Text, r.version < MaxVersion
    PROVE  /\ Superseded(r, t) \in Row
           /\ Evicted(r.past) \subseteq Text
           /\ {t, r.text} \cup Range(r.past)
              \subseteq {Superseded(r, t).text} \cup Range(Superseded(r, t).past) \cup Evicted(r.past)
<1>1. /\ r.past \in Seq(Text) /\ r.text \in Text
      /\ r.version \in 1..MaxVersion /\ MaxVersion \in Nat
  BY TextsAssumption DEF Row
<1>2. /\ Appended(r.past, r.text) \in Seq(Text)
      /\ Evicted(r.past) \subseteq Text
      /\ Range(r.past) \cup {r.text} \subseteq Range(Appended(r.past, r.text)) \cup Evicted(r.past)
  BY <1>1, HistoriesKeep
<1>3. r.version + 1 \in 1..MaxVersion
  BY <1>1
<1> QED
  BY <1>2, <1>3 DEF Superseded, Row

-----------------------------------------------------------------------------
(* Each step keeps the invariant.                                          *)

LEMMA WriteKeeps ==
    ASSUME TextsInv, NEW n \in Node, NEW t \in Text, Write(n, t)
    PROVE  TextsInv'
<1> DEFINE r == [text |-> t, version |-> 1, past |-> <<>>]
<1>1. r \in Row
  BY TextsAssumption DEF Row
<1>2. written[n] = {}
  BY DEF Write, New, TextsInv, TextsTypeOK
<1>3. t \in {r.text}
  OBVIOUS
<1>4. /\ lost' = lost \cup NoText
      /\ row' = [row EXCEPT ![n] = r]
      /\ written' = [written EXCEPT ![n] = @ \cup {t}]
      /\ conflict' \in [Node -> Conflict \cup {Nothing}]
      /\ took' \in [Node -> SUBSET Row]
      /\ offer' = offer
      /\ \A m \in Node \ {n} : conflict'[m] = conflict[m]
  BY DEF NoText, Write, TextsInv, TextsTypeOK
<1> HIDE DEF r
<1>5. {t} \cup (Held(n) \cap written[n]) \subseteq {r.text} \cup Range(r.past) \cup lost \cup NoText
  BY <1>2, <1>3 DEF NoText
<1> QED
  BY <1>1, <1>4, <1>5, NoTexts, Replacing

LEMMA CorrectKeeps ==
    ASSUME TextsInv, NEW n \in Node, NEW t \in Text, Correct(n, t)
    PROVE  TextsInv'
<1> DEFINE r == Superseded(row[n], t)
<1>1. row[n] # Nothing /\ row[n].version < MaxVersion
  BY DEF Correct
<1>2. row[n] \in Row
  BY <1>1, Rows
<1>3. /\ r \in Row
      /\ Evicted(row[n].past) \subseteq Text
      /\ {t, row[n].text} \cup Range(row[n].past)
         \subseteq {r.text} \cup Range(r.past) \cup Evicted(row[n].past)
  BY <1>1, <1>2, Superseding
<1>4. /\ lost' = lost \cup Evicted(row[n].past)
      /\ row' = [row EXCEPT ![n] = r]
      /\ written' = [written EXCEPT ![n] = @ \cup {t}]
      /\ conflict' \in [Node -> Conflict \cup {Nothing}]
      /\ took' \in [Node -> SUBSET Row]
      /\ offer' = offer
      /\ \A m \in Node \ {n} : conflict'[m] = conflict[m]
  BY DEF Correct, TextsInv, TextsTypeOK
<1> HIDE DEF r
<1>5. {t} \cup (Held(n) \cap written[n])
      \subseteq {r.text} \cup Range(r.past) \cup lost \cup Evicted(row[n].past)
  BY <1>1, <1>3 DEF Held
<1> QED
  BY <1>3, <1>4, <1>5, NoTexts, Replacing

LEMMA SetTrustKeeps ==
    ASSUME TextsInv, NEW n \in Node, SetTrust(n)
    PROVE  TextsInv'
<1> DEFINE r == [row[n] EXCEPT !.version = @ + 1]
<1>1. row[n] # Nothing /\ row[n].version < MaxVersion
  BY DEF SetTrust
<1>2. row[n] \in Row
  BY <1>1, Rows
<1>3. r \in Row /\ r.text = row[n].text /\ r.past = row[n].past
  BY <1>1, <1>2, TextsAssumption DEF Row
<1>4. /\ lost' = lost \cup NoText
      /\ row' = [row EXCEPT ![n] = r]
      /\ written' = [written EXCEPT ![n] = @ \cup NoText]
      /\ conflict' \in [Node -> Conflict \cup {Nothing}]
      /\ took' \in [Node -> SUBSET Row]
      /\ offer' = offer
      /\ \A m \in Node \ {n} : conflict'[m] = conflict[m]
  BY DEF NoText, SetTrust, TextsInv, TextsTypeOK
<1> HIDE DEF r
<1>5. NoText \cup (Held(n) \cap written[n]) \subseteq {r.text} \cup Range(r.past) \cup lost \cup NoText
  BY <1>1, <1>3 DEF NoText, Held
<1> QED
  BY <1>3, <1>4, <1>5, NoTexts, Replacing

LEMMA PublishKeeps ==
    ASSUME TextsInv, NEW n \in Node, Publish(n)
    PROVE  TextsInv'
<1>1. /\ UNCHANGED <<row, written, lost, conflict, took>>
      /\ offer' = [offer EXCEPT ![n] = row[n]]
  BY DEF Publish
<1>2. /\ offer' \in [Node -> Row \cup {Nothing}]
      /\ conflict' \in [Node -> Conflict \cup {Nothing}]
      /\ took' \in [Node -> SUBSET Row]
      /\ \A m \in Node : conflict'[m] # Nothing => row[m] # Nothing
  BY <1>1 DEF TextsInv, TextsTypeOK, Rooted
<1> QED
  BY <1>1, <1>2, Standing

(* What an import records and notes is well typed.                         *)
LEMMA ImportsAreTyped ==
    ASSUME TextsInv, NEW n \in Node, NEW m \in Node, Offering(n, m)
    PROVE  /\ offer[m] \in Row
           /\ Took(n, m) => took' \in [Node -> SUBSET Row]
           /\ Noted(n, m) \in Conflict \cup {Nothing}
           /\ Noted(n, m) # Nothing => conflict[n] # Nothing \/ row[n] # Nothing
<1>1. offer[m] \in Row /\ offer[m].text \in Text
  BY Rows DEF Offering
<1>2. Took(n, m) => took' \in [Node -> SUBSET Row]
  BY <1>1 DEF Took, TextsInv, TextsTypeOK
<1>3. CASE Diverges(n, m)
  <2>1. row[n] # Nothing /\ row[n].text \in Text
    BY <1>3, Rows DEF Diverges
  <2> QED
    BY <1>1, <1>2, <1>3, <2>1 DEF Noted, Conflict
<1>4. CASE ~Diverges(n, m)
  BY <1>1, <1>2, <1>4 DEF Noted, TextsInv, TextsTypeOK
<1> QED
  BY <1>3, <1>4

LEMMA MergeKeeps ==
    ASSUME TextsInv, NEW n \in Node, NEW m \in Node, Merge(n, m)
    PROVE  TextsInv'
<1>1. /\ offer[m] \in Row
      /\ took' \in [Node -> SUBSET Row]
      /\ Noted(n, m) \in Conflict \cup {Nothing}
      /\ Noted(n, m) # Nothing => conflict[n] # Nothing \/ row[n] # Nothing
  BY ImportsAreTyped DEF Merge
<1>2. /\ conflict' = [conflict EXCEPT ![n] = Noted(n, m)]
      /\ UNCHANGED <<offer, written, lost>>
      /\ row' = [row EXCEPT ![n] = IF row[n] = Nothing THEN offer[m] ELSE row[n]]
  BY DEF Merge
<1>3. /\ conflict' \in [Node -> Conflict \cup {Nothing}]
      /\ \A o \in Node \ {n} : conflict'[o] = conflict[o]
      /\ conflict'[n] = Noted(n, m)
  BY <1>1, <1>2 DEF TextsInv, TextsTypeOK
<1>4. CASE row[n] = Nothing
  <2>1. /\ lost' = lost \cup NoText
        /\ row' = [row EXCEPT ![n] = offer[m]]
        /\ written' = [written EXCEPT ![n] = @ \cup NoText]
        /\ offer' = offer
    BY <1>2, <1>4 DEF NoText, TextsInv, TextsTypeOK
  <2>2. NoText \cup (Held(n) \cap written[n])
        \subseteq {offer[m].text} \cup Range(offer[m].past) \cup lost \cup NoText
    BY <1>4 DEF NoText, Held
  <2> QED
    BY <1>1, <1>3, <2>1, <2>2, NoTexts, Replacing
<1>5. CASE row[n] # Nothing
  <2>1. UNCHANGED <<row, written, lost>> /\ offer' \in [Node -> Row \cup {Nothing}]
    BY <1>2, <1>5 DEF TextsInv, TextsTypeOK
  <2>2. \A o \in Node : conflict'[o] # Nothing => row[o] # Nothing
    BY <1>1, <1>3, <1>5 DEF TextsInv, Rooted
  <2> QED
    BY <1>1, <1>3, <2>1, <2>2, Standing
<1> QED
  BY <1>4, <1>5

LEMMA OverwriteKeeps ==
    ASSUME TextsInv, NEW n \in Node, NEW m \in Node, Overwrite(n, m)
    PROVE  TextsInv'
<1>1. offer[m] \in Row /\ took' \in [Node -> SUBSET Row]
  BY ImportsAreTyped DEF Overwrite
<1>0. conflict' = conflict /\ written' = written
  BY DEF Overwrite
<1>2. /\ offer' = offer
      /\ conflict' \in [Node -> Conflict \cup {Nothing}]
      /\ written' = [written EXCEPT ![n] = @ \cup NoText]
      /\ \A o \in Node \ {n} : conflict'[o] = conflict[o]
      /\ lost' = IF Diverges(n, m) THEN lost \cup Evicted(row[n].past) ELSE lost
      /\ row' = [row EXCEPT ![n] =
              IF row[n] = Nothing THEN offer[m]
              ELSE IF Diverges(n, m) THEN Superseded(row[n], offer[m].text) ELSE row[n]]
  BY DEF NoText, Overwrite, TextsInv, TextsTypeOK
<1>3. CASE row[n] = Nothing
  <2>1. lost' = lost \cup NoText /\ row' = [row EXCEPT ![n] = offer[m]]
    BY <1>2, <1>3 DEF NoText, Diverges
  <2>2. NoText \cup (Held(n) \cap written[n])
        \subseteq {offer[m].text} \cup Range(offer[m].past) \cup lost \cup NoText
    BY <1>3 DEF NoText, Held
  <2> QED
    BY <1>1, <1>2, <2>1, <2>2, NoTexts, Replacing
<1>4. CASE Diverges(n, m)
  <2> DEFINE r == Superseded(row[n], offer[m].text)
  <2>1. row[n] # Nothing /\ row[n] \in Row /\ row[n].version < MaxVersion
    BY <1>4, Rows DEF Diverges, Overwrite
  <2>2. /\ r \in Row
        /\ Evicted(row[n].past) \subseteq Text
        /\ {offer[m].text, row[n].text} \cup Range(row[n].past)
           \subseteq {r.text} \cup Range(r.past) \cup Evicted(row[n].past)
    BY <1>1, <2>1, Superseding DEF Row
  <2>3. lost' = lost \cup Evicted(row[n].past) /\ row' = [row EXCEPT ![n] = r]
    BY <1>2, <1>4, <2>1
  <2> HIDE DEF r
  <2>4. NoText \cup (Held(n) \cap written[n])
        \subseteq {r.text} \cup Range(r.past) \cup lost \cup Evicted(row[n].past)
    BY <2>1, <2>2 DEF NoText, Held
  <2> QED
    BY <1>1, <1>2, <2>2, <2>3, <2>4, NoTexts, Replacing
<1>5. CASE row[n] # Nothing /\ ~Diverges(n, m)
  <2>1. UNCHANGED <<row, written, lost>> /\ offer' \in [Node -> Row \cup {Nothing}]
    BY <1>0, <1>2, <1>5 DEF TextsInv, TextsTypeOK
  <2>2. \A o \in Node : conflict'[o] # Nothing => row[o] # Nothing
    BY <1>0 DEF TextsInv, Rooted
  <2> QED
    BY <1>1, <1>2, <2>1, <2>2, Standing
<1> QED
  BY <1>3, <1>4, <1>5

LEMMA KeepOursKeeps ==
    ASSUME TextsInv, NEW n \in Node, KeepOurs(n)
    PROVE  TextsInv'
<1>1. /\ UNCHANGED <<row, written, lost>>
      /\ conflict' \in [Node -> Conflict \cup {Nothing}]
      /\ \A m \in Node : conflict'[m] # Nothing => row[m] # Nothing
      /\ offer' \in [Node -> Row \cup {Nothing}]
      /\ took' \in [Node -> SUBSET Row]
  BY DEF KeepOurs, TextsInv, TextsTypeOK, Rooted
<1> QED
  BY <1>1, Standing

LEMMA KeepBothKeeps ==
    ASSUME TextsInv, NEW n \in Node, KeepBoth(n)
    PROVE  TextsInv'
<1> DEFINE past == row[n].past
           r == [row[n] EXCEPT !.past = Appended(@, conflict[n].theirs)]
<1>1. /\ row[n] # Nothing /\ row[n] \in Row /\ past \in Seq(Text)
      /\ conflict[n].theirs \in Text
  BY Rows DEF KeepBoth
<1>2. /\ Appended(past, conflict[n].theirs) \in Seq(Text)
      /\ Evicted(past) \subseteq Text
      /\ Range(past) \cup {conflict[n].theirs}
         \subseteq Range(Appended(past, conflict[n].theirs)) \cup Evicted(past)
  BY <1>1, HistoriesKeep
<1>3. /\ r \in Row /\ r.text = row[n].text
      /\ r.past = Appended(past, conflict[n].theirs)
  BY <1>1, <1>2 DEF Row
<1>4. /\ lost' = lost \cup Evicted(past)
      /\ row' = [row EXCEPT ![n] = r]
      /\ written' = [written EXCEPT ![n] = @ \cup NoText]
      /\ conflict' \in [Node -> Conflict \cup {Nothing}]
      /\ took' \in [Node -> SUBSET Row]
      /\ offer' = offer
      /\ \A m \in Node \ {n} : conflict'[m] = conflict[m]
  BY DEF NoText, KeepBoth, TextsInv, TextsTypeOK
<1>5. Held(n) = {row[n].text} \cup Range(past)
  BY <1>1 DEF Held
<1> HIDE DEF r, past
<1>6. NoText \cup (Held(n) \cap written[n])
      \subseteq {r.text} \cup Range(r.past) \cup lost \cup Evicted(past)
  BY <1>2, <1>3, <1>5 DEF NoText
<1> QED
  BY <1>2, <1>3, <1>4, <1>6, NoTexts, Replacing

LEMMA KeepTheirsKeeps ==
    ASSUME TextsInv, NEW n \in Node, KeepTheirs(n)
    PROVE  TextsInv'
<1> DEFINE past == row[n].past
           ours == conflict[n].ours
           r == [text |-> conflict[n].theirs, version |-> row[n].version + 1,
                 past |-> Appended(past, ours)]
           gone == Evicted(past) \cup Displaced(n)
<1>1. /\ row[n] # Nothing /\ row[n] \in Row /\ past \in Seq(Text)
      /\ row[n].text \in Text /\ row[n].version \in 1..MaxVersion
      /\ ours \in Text /\ conflict[n].theirs \in Text
  BY Rows DEF KeepTheirs
<1>2. /\ Appended(past, ours) \in Seq(Text)
      /\ Evicted(past) \subseteq Text
      /\ Range(past) \cup {ours} \subseteq Range(Appended(past, ours)) \cup Evicted(past)
  BY <1>1, HistoriesKeep
<1>3. r \in Row /\ r.text = conflict[n].theirs /\ r.past = Appended(past, ours)
  <2>1. row[n].version + 1 \in 1..MaxVersion
    BY <1>1, TextsAssumption DEF KeepTheirs
  <2> QED
    BY <1>1, <1>2, <2>1 DEF Row
<1>4. /\ lost' = lost \cup gone
      /\ row' = [row EXCEPT ![n] = r]
      /\ written' = [written EXCEPT ![n] = @ \cup NoText]
      /\ conflict' \in [Node -> Conflict \cup {Nothing}]
      /\ took' \in [Node -> SUBSET Row]
      /\ offer' = offer
      /\ \A m \in Node \ {n} : conflict'[m] = conflict[m]
  BY DEF NoText, KeepTheirs, TextsInv, TextsTypeOK
<1>5. /\ Held(n) = {row[n].text} \cup Range(past)
      /\ Displaced(n) = {row[n].text} \ ({ours, conflict[n].theirs} \cup Range(past))
  BY <1>1 DEF Held, Displaced
<1>6. gone \subseteq Text
  BY <1>1, <1>2, <1>5
<1> HIDE DEF r, past, ours
<1>7. NoText \cup (Held(n) \cap written[n]) \subseteq {r.text} \cup Range(r.past) \cup lost \cup gone
  BY <1>2, <1>3, <1>5 DEF NoText
<1> HIDE DEF gone
<1> QED
  BY <1>3, <1>4, <1>6, <1>7, NoTexts, Replacing

-----------------------------------------------------------------------------
LEMMA TextsKeep == TextsInv /\ [TextsNext]_textsVars => TextsInv'
<1> SUFFICES ASSUME TextsInv, [TextsNext]_textsVars PROVE TextsInv'
  OBVIOUS
<1>1. CASE TextsNext
  <2>1. ASSUME NEW n \in Node, NEW t \in Text, Write(n, t) \/ Correct(n, t) PROVE TextsInv'
    BY <2>1, WriteKeeps, CorrectKeeps
  <2>2. ASSUME NEW n \in Node,
               SetTrust(n) \/ Publish(n) \/ KeepOurs(n) \/ KeepBoth(n) \/ KeepTheirs(n)
        PROVE  TextsInv'
    BY <2>2, SetTrustKeeps, PublishKeeps, KeepOursKeeps, KeepBothKeeps, KeepTheirsKeeps
  <2>3. ASSUME NEW n \in Node, NEW m \in Node, Merge(n, m) \/ Overwrite(n, m) PROVE TextsInv'
    BY <2>3, MergeKeeps, OverwriteKeeps
  <2> QED
    BY <1>1, <2>1, <2>2, <2>3 DEF TextsNext
<1>2. CASE UNCHANGED textsVars
  BY <1>2 DEF textsVars, TextsInv, TextsTypeOK, Rooted, OwnTextsSurvive, Held
<1> QED
  BY <1>1, <1>2

(* Every reachable state of any number of nodes and texts is well typed.   *)
THEOREM TextsTypes == TextsSpec => []TextsTypeOK
<1>1. TextsInv => TextsTypeOK
  BY DEF TextsInv
<1> QED
  BY <1>1, TextsStart, TextsKeep, PTL DEF TextsSpec

(* What a node's users wrote is on that node, as its text or in its history,*)
(* unless the cap or a stale keep = theirs let it go, whatever was imported,*)
(* corrected and resolved since.                                           *)
THEOREM OwnTextsAreKept == TextsSpec => []OwnTextsSurvive
<1>1. TextsInv => OwnTextsSurvive
  BY DEF TextsInv
<1> QED
  BY <1>1, TextsStart, TextsKeep, PTL DEF TextsSpec

(* Nobody changed the text of an observation whose conflict is open, or     *)
(* changed it into the other's.                                            *)
Undisturbed ==
    \A n \in Node : conflict[n] # Nothing => row[n].text \in {conflict[n].ours, conflict[n].theirs}

(* Migration 0052, "no fourth option that discards anything", is true as    *)
(* long as no text is corrected or overwritten while its conflict is open: *)
(* what keep = theirs displaces is then the text the conflict was noted    *)
(* with, and that goes to the history, however full it is.                 *)
THEOREM UndisturbedConflictsKeepTexts ==
    TextsSpec /\ []Undisturbed => ResolvingDiscardsNothing
<1> DEFINE Keeps == \A n \in Node :
               KeepTheirs(n) => row[n].text \in {row'[n].text} \cup Range(row'[n].past)
<1>1. TextsInv /\ Undisturbed => Keeps
  <2> SUFFICES ASSUME TextsInv, Undisturbed, NEW n \in Node, KeepTheirs(n)
               PROVE  row[n].text \in {row'[n].text} \cup Range(row'[n].past)
    OBVIOUS
  <2>1. /\ row[n].past \in Seq(Text) /\ conflict[n].ours \in Text
        /\ row[n].text \in {conflict[n].ours, conflict[n].theirs}
    BY Rows DEF KeepTheirs, Undisturbed
  <2>2. conflict[n].ours \in Range(Appended(row[n].past, conflict[n].ours))
    BY <2>1, HistoriesKeep
  <2>3. /\ row'[n].text = conflict[n].theirs
        /\ row'[n].past = Appended(row[n].past, conflict[n].ours)
    BY DEF KeepTheirs, TextsInv, TextsTypeOK
  <2> QED
    BY <2>1, <2>2, <2>3
<1>2. TextsSpec => []TextsInv
  BY TextsStart, TextsKeep, PTL DEF TextsSpec
<1>3. TextsSpec /\ []Undisturbed => [][Keeps]_textsVars
  BY <1>1, <1>2, PTL
<1> QED
  BY <1>3 DEF ResolvingDiscardsNothing

-----------------------------------------------------------------------------
(* Artifacts.                                                              *)

(* The inductive invariant.  What is shown or bundled was put; a lease that*)
(* was given and not ended is there, under its holder's name; a client has *)
(* not read past what its node shows, and what it read of the same counter *)
(* is what is shown, unless a bundle brought that.                         *)

Made ==
    \A n \in Peer :
        /\ artifact[n] # Blank => artifact[n] \in issued
        /\ bundled[n] # Blank => bundled[n] \in issued

Leased ==
    \A n \in Peer :
        promised[n] # Blank =>
            /\ artifact[n] # Blank
            /\ lease[n] # Blank
            /\ ActorOf[lease[n]] = ActorOf[promised[n]]

Reading ==
    \A c \in Client :
        read[c] # Blank =>
            /\ Here(c) # Blank
            /\ read[c].stamp.counter <= Here(c).stamp.counter
            /\ read[c].stamp.counter = Here(c).stamp.counter /\ ~brought[DeskOf[c]]
               => read[c] = Here(c)

ArtifactsInv ==
    /\ ArtifactsTypeOK
    /\ Made
    /\ Leased
    /\ Reading

LEMMA ArtifactsStart == ArtifactsInit => ArtifactsInv
  BY DEF ArtifactsInit, ArtifactsInv, ArtifactsTypeOK, Made, Leased, Reading

(* What is shown is a version.                                             *)
LEMMA Versions ==
    ASSUME ArtifactsInv, NEW v \in issued
    PROVE  /\ v \in Version /\ v # Blank
           /\ v.stamp \in Stamp
           /\ v.stamp.counter \in 1..MaxCounter /\ v.stamp.counter \in Nat
           /\ v.stamp.actor \in Nat
<1>1. v \in Version /\ v # Blank
  BY BlankAssumption DEF ArtifactsInv, ArtifactsTypeOK
<1>2. v.stamp \in Stamp
  BY <1>1 DEF Version
<1>3. v.stamp.counter \in 1..MaxCounter /\ v.stamp.actor \in Actor
  BY <1>2 DEF Stamp
<1>4. v.stamp.counter \in Nat
  BY <1>3
<1>5. v.stamp.actor \in Nat
  BY <1>3, ArtifactsAssumption
<1> QED
  BY <1>1, <1>2, <1>3, <1>4, <1>5

LEMMA Desks ==
    ASSUME ArtifactsInv, NEW c \in Client
    PROVE  /\ DeskOf[c] \in Peer /\ ActorOf[c] \in Actor
           /\ Here(c) # Blank => Here(c) \in issued
  BY ArtifactsAssumption DEF ArtifactsInv, Made, Here

-----------------------------------------------------------------------------
(* A version that takes the place of another on one node, by a put or out  *)
(* of a bundle.                                                            *)
LEMMA Replaced ==
    ASSUME ArtifactsInv, NEW n \in Peer, NEW w \in Version, NEW landing \in BOOLEAN,
           artifact' = [artifact EXCEPT ![n] = w],
           brought' = [brought EXCEPT ![n] = landing],
           w \in issued', issued \subseteq issued', issued' \subseteq Version,
           UNCHANGED <<lease, promised, bundled, read, scoped>>,
           artifact[n] # Blank =>
               \/ artifact[n].stamp.counter < w.stamp.counter
               \/ landing /\ artifact[n].stamp.counter <= w.stamp.counter
    PROVE  ArtifactsInv'
<1>0. w # Blank /\ w.stamp.counter \in Nat
  BY BlankAssumption, ArtifactsAssumption DEF Version, Stamp
<1>1. /\ artifact \in [Peer -> Version \cup {Blank}]
      /\ brought \in [Peer -> BOOLEAN]
      /\ read \in [Client -> Version \cup {Blank}]
      /\ DeskOf \in [Client -> Peer]
  BY ArtifactsAssumption DEF ArtifactsInv, ArtifactsTypeOK
<1>2. /\ \A m \in Peer : artifact'[m] = IF m = n THEN w ELSE artifact[m]
      /\ \A m \in Peer : brought'[m] = IF m = n THEN landing ELSE brought[m]
  BY <1>1
<1>3. ArtifactsTypeOK'
  BY <1>1 DEF ArtifactsInv, ArtifactsTypeOK
<1>4. (Made /\ Leased)'
  BY <1>0, <1>2 DEF ArtifactsInv, Made, Leased
<1>5. Reading'
  <2> SUFFICES ASSUME NEW c \in Client, read[c] # Blank
               PROVE  /\ Here(c)' # Blank
                      /\ read[c].stamp.counter <= Here(c)'.stamp.counter
                      /\ read[c].stamp.counter = Here(c)'.stamp.counter
                         /\ ~brought'[DeskOf[c]] => read[c] = Here(c)'
    BY DEF Reading
  <2>1. DeskOf[c] \in Peer /\ Here(c)' = artifact'[DeskOf[c]] /\ Here(c) = artifact[DeskOf[c]]
    BY <1>1 DEF Here
  <2>2. /\ Here(c) # Blank
        /\ read[c].stamp.counter <= Here(c).stamp.counter
        /\ read[c].stamp.counter = Here(c).stamp.counter /\ ~brought[DeskOf[c]]
           => read[c] = Here(c)
    BY DEF ArtifactsInv, Reading
  <2>3. CASE DeskOf[c] # n
    BY <1>2, <2>1, <2>2, <2>3
  <2>4. CASE DeskOf[c] = n
    <3>1. Here(c)' = w /\ Here(c) = artifact[n] /\ brought'[DeskOf[c]] = landing
      BY <1>2, <2>1, <2>4
    <3>2. read[c].stamp.counter \in Nat /\ artifact[n].stamp.counter \in Nat
      <4>1. read[c] \in Version /\ artifact[n] \in Version
        BY <1>1, <2>2, <3>1
      <4> QED
        BY <4>1, ArtifactsAssumption DEF Version, Stamp
    <3> QED
      BY <1>0, <2>2, <3>1, <3>2
  <2> QED
    BY <2>3, <2>4
<1> QED
  BY <1>3, <1>4, <1>5 DEF ArtifactsInv

LEMMA CreateKeeps ==
    ASSUME ArtifactsInv, NEW c \in Client, NEW body \in Body, Create(c, body)
    PROVE  ArtifactsInv'
<1> DEFINE n == DeskOf[c]
           w == [stamp |-> [counter |-> 1, actor |-> ActorOf[c]], body |-> body]
<1>1. n \in Peer /\ w \in Version
  BY Desks, ArtifactsAssumption DEF Version, Stamp
<1>2. /\ artifact[n] = Blank
      /\ artifact' = [artifact EXCEPT ![n] = w]
      /\ brought' = [brought EXCEPT ![n] = FALSE]
      /\ issued' = issued \cup {w}
      /\ UNCHANGED <<lease, promised, bundled, read, scoped>>
  BY DEF Create, Store, Here
<1>3. w \in issued' /\ issued \subseteq issued' /\ issued' \subseteq Version
  BY <1>1, <1>2 DEF ArtifactsInv, ArtifactsTypeOK
<1> HIDE DEF n, w
<1> QED
  BY <1>1, <1>2, <1>3, Replaced

(* What a put stores.                                                      *)
LEMMA PutStores ==
    ASSUME ArtifactsInv, NEW c \in Client, NEW body \in Body, Put(c, body)
    PROVE  LET n == DeskOf[c]
               w == [stamp |-> Bumped(artifact[n].stamp, c), body |-> body]
           IN  /\ n \in Peer /\ w \in Version
               /\ artifact[n] # Blank /\ artifact[n] \in issued
               /\ artifact[n].stamp.counter \in Nat
               /\ w.stamp.counter = artifact[n].stamp.counter + 1
               /\ w.stamp.actor = ActorOf[c]
               /\ artifact' = [artifact EXCEPT ![n] = w]
               /\ brought' = [brought EXCEPT ![n] = FALSE]
               /\ issued' = issued \cup {w}
               /\ UNCHANGED <<lease, promised, bundled, read, scoped>>
<1> DEFINE n == DeskOf[c]
           w == [stamp |-> Bumped(artifact[n].stamp, c), body |-> body]
<1>1. /\ n \in Peer /\ ActorOf[c] \in Actor
      /\ artifact[n] # Blank /\ artifact[n] \in issued
      /\ artifact[n].stamp.counter < MaxCounter
  BY Desks DEF Put, Here
<1>2. artifact[n].stamp.counter \in 1..MaxCounter /\ artifact[n].stamp.counter \in Nat
  BY <1>1, Versions
<1>3. Bumped(artifact[n].stamp, c) \in Stamp
  <2>1. artifact[n].stamp.counter + 1 \in 1..MaxCounter
    BY <1>1, <1>2, ArtifactsAssumption
  <2> QED
    BY <1>1, <2>1 DEF Bumped, Stamp
<1>4. w \in Version
  BY <1>3 DEF Version
<1>5. /\ w.stamp.counter = artifact[n].stamp.counter + 1
      /\ w.stamp.actor = ActorOf[c]
  BY DEF Bumped
<1>6. /\ artifact' = [artifact EXCEPT ![n] = w]
      /\ brought' = [brought EXCEPT ![n] = FALSE]
      /\ issued' = issued \cup {w}
      /\ UNCHANGED <<lease, promised, bundled, read, scoped>>
  BY DEF Put, Store, Here
<1> QED
  BY <1>1, <1>2, <1>4, <1>5, <1>6

LEMMA PutKeeps ==
    ASSUME ArtifactsInv, NEW c \in Client, NEW body \in Body, Put(c, body)
    PROVE  ArtifactsInv'
<1> DEFINE n == DeskOf[c]
           w == [stamp |-> Bumped(artifact[n].stamp, c), body |-> body]
<1>1. /\ n \in Peer /\ w \in Version
      /\ artifact[n].stamp.counter \in Nat
      /\ w.stamp.counter = artifact[n].stamp.counter + 1
      /\ artifact' = [artifact EXCEPT ![n] = w]
      /\ brought' = [brought EXCEPT ![n] = FALSE]
      /\ issued' = issued \cup {w}
      /\ UNCHANGED <<lease, promised, bundled, read, scoped>>
  BY PutStores
<1> HIDE DEF n, w
<1>2. w \in issued' /\ issued \subseteq issued' /\ issued' \subseteq Version
  BY <1>1 DEF ArtifactsInv, ArtifactsTypeOK
<1>3. artifact[n].stamp.counter < w.stamp.counter
  BY <1>1
<1> QED
  BY <1>1, <1>2, <1>3, Replaced

LEMMA LandKeeps ==
    ASSUME ArtifactsInv, NEW n \in Peer, NEW m \in Peer, Land(n, m)
    PROVE  ArtifactsInv'
<1>1. bundled[m] # Blank /\ bundled[m] \in issued
  BY DEF Land, ArtifactsInv, Made
<1>2. bundled[m] \in Version /\ bundled[m].stamp.counter \in Nat
  BY <1>1, Versions
<1>3. artifact[n] # Blank =>
          /\ artifact[n].stamp.counter \in Nat
          /\ artifact[n].stamp.counter <= bundled[m].stamp.counter
  <2> SUFFICES ASSUME artifact[n] # Blank
               PROVE  /\ artifact[n].stamp.counter \in Nat
                      /\ artifact[n].stamp.counter <= bundled[m].stamp.counter
    OBVIOUS
  <2>1. artifact[n] \in issued
    BY DEF ArtifactsInv, Made
  <2> QED
    BY <1>2, <2>1, Versions DEF Land, TakesIncoming, Before
<1>4. /\ artifact' = [artifact EXCEPT ![n] = bundled[m]]
      /\ brought' = [brought EXCEPT ![n] = TRUE]
      /\ issued' = issued
      /\ UNCHANGED <<lease, promised, bundled, read, scoped>>
  BY DEF Land
<1>5. bundled[m] \in issued' /\ issued \subseteq issued' /\ issued' \subseteq Version
  BY <1>1, <1>4 DEF ArtifactsInv, ArtifactsTypeOK
<1> QED
  BY <1>2, <1>3, <1>4, <1>5, Replaced

(* Leases, reads and bundles.                                              *)
LEMMA OthersKeep ==
    ASSUME ArtifactsInv,
           \/ \E c \in Client : Get(c) \/ Lock(c) \/ Unlock(c)
           \/ \E n \in Peer : Expire(n) \/ Bundle(n)
           \/ UNCHANGED artifactsVars
    PROVE  ArtifactsInv'
<1>0. /\ artifact \in [Peer -> Version \cup {Blank}]
      /\ lease \in [Peer -> Client \cup {Blank}]
      /\ promised \in [Peer -> Client \cup {Blank}]
      /\ bundled \in [Peer -> Version \cup {Blank}]
      /\ read \in [Client -> Version \cup {Blank}]
      /\ DeskOf \in [Client -> Peer]
      /\ \A c \in Client : c # Blank
  BY ArtifactsAssumption, BlankAssumption DEF ArtifactsInv, ArtifactsTypeOK
<1>1. ASSUME NEW c \in Client, Get(c) PROVE ArtifactsInv'
  <2>1. UNCHANGED <<artifact, brought, lease, promised, bundled, issued, scoped>>
    BY <1>1 DEF Get
  <2>2. /\ read' = [read EXCEPT ![c] = Here(c)]
        /\ Here(c) # Blank /\ Here(c) \in issued /\ Here(c) \in Version
        /\ Here(c).stamp.counter \in Nat
    BY <1>1, Desks, Versions DEF Get
  <2>3. ArtifactsTypeOK'
    BY <1>0, <2>1, <2>2 DEF ArtifactsInv, ArtifactsTypeOK
  <2>4. (Made /\ Leased)'
    BY <2>1 DEF ArtifactsInv, Made, Leased
  <2>5. Reading'
    BY <1>0, <2>1, <2>2 DEF ArtifactsInv, Reading, Here
  <2> QED
    BY <2>3, <2>4, <2>5 DEF ArtifactsInv
<1>2. ASSUME NEW c \in Client, Lock(c) PROVE ArtifactsInv'
  <2>1. /\ UNCHANGED <<artifact, brought, bundled, read, issued, scoped>>
        /\ lease' = [lease EXCEPT ![DeskOf[c]] = c]
        /\ promised' = [promised EXCEPT ![DeskOf[c]] = c]
        /\ artifact[DeskOf[c]] # Blank
    BY <1>2 DEF Lock, Here
  <2>2. ArtifactsTypeOK'
    BY <1>0, <2>1 DEF ArtifactsInv, ArtifactsTypeOK
  <2>3. (Made /\ Leased /\ Reading)'
    BY <1>0, <2>1 DEF ArtifactsInv, Made, Leased, Reading, Here
  <2> QED
    BY <2>2, <2>3 DEF ArtifactsInv
<1>3. ASSUME NEW c \in Client, Unlock(c) PROVE ArtifactsInv'
  <2> DEFINE n == DeskOf[c]
  <2>0. n \in Peer
    BY <1>0
  <2>1. /\ UNCHANGED <<artifact, brought, bundled, read, issued, scoped>>
        /\ lease' = [lease EXCEPT ![n] = Blank]
        /\ promised' = [promised EXCEPT ![n] =
               IF promised[n] # Blank /\ ActorOf[promised[n]] = ActorOf[c]
               THEN Blank ELSE promised[n]]
        /\ lease[n] # Blank => ActorOf[lease[n]] = ActorOf[c]
    BY <1>3 DEF Unlock, LetGo, LeasedToOther
  <2> HIDE DEF n
  <2>2. ArtifactsTypeOK'
    BY <1>0, <2>0, <2>1 DEF ArtifactsInv, ArtifactsTypeOK
  <2>3. promised'[n] = Blank
    BY <1>0, <2>0, <2>1 DEF ArtifactsInv, Leased
  <2>4. \A m \in Peer \ {n} : lease'[m] = lease[m] /\ promised'[m] = promised[m]
    BY <1>0, <2>1
  <2>5. (Made /\ Leased /\ Reading)'
    BY <2>1, <2>3, <2>4 DEF ArtifactsInv, Made, Leased, Reading, Here
  <2> QED
    BY <2>2, <2>5 DEF ArtifactsInv
<1>4. ASSUME NEW n \in Peer, Expire(n) PROVE ArtifactsInv'
  BY <1>0, <1>4 DEF Expire, ArtifactsInv, ArtifactsTypeOK, Made, Leased, Reading, Here
<1>5. ASSUME NEW n \in Peer, Bundle(n) PROVE ArtifactsInv'
  BY <1>0, <1>5 DEF Bundle, ArtifactsInv, ArtifactsTypeOK, Made, Leased, Reading, Here
<1>6. CASE UNCHANGED artifactsVars
  BY <1>6 DEF artifactsVars, ArtifactsInv, ArtifactsTypeOK, Made, Leased, Reading, Here
<1> QED
  BY <1>1, <1>2, <1>3, <1>4, <1>5, <1>6

LEMMA ArtifactsKeep == ArtifactsInv /\ [ArtifactsNext]_artifactsVars => ArtifactsInv'
<1> SUFFICES ASSUME ArtifactsInv, [ArtifactsNext]_artifactsVars PROVE ArtifactsInv'
  OBVIOUS
<1>1. ASSUME NEW c \in Client, NEW body \in Body, Create(c, body) \/ Put(c, body)
      PROVE  ArtifactsInv'
  BY <1>1, CreateKeeps, PutKeeps
<1>2. ASSUME NEW n \in Peer, NEW m \in Peer, Land(n, m) PROVE ArtifactsInv'
  BY <1>2, LandKeeps
<1> QED
  BY <1>1, <1>2, OthersKeep DEF ArtifactsNext, Use

LEMMA ArtifactsHold == ArtifactsSpec => []ArtifactsInv
  BY ArtifactsStart, ArtifactsKeep, PTL DEF ArtifactsSpec

-----------------------------------------------------------------------------
(* Every reachable state of any number of nodes and clients is well typed. *)
THEOREM ArtifactsTypes == ArtifactsSpec => []ArtifactsTypeOK
<1>1. ArtifactsInv => ArtifactsTypeOK
  BY DEF ArtifactsInv
<1> QED
  BY <1>1, ArtifactsHold, PTL

(* Which steps change what is shown.                                       *)
LEMMA Changes ==
    ASSUME [ArtifactsNext]_artifactsVars, artifact' # artifact
    PROVE  \/ \E c \in Client, body \in Body : Create(c, body) \/ Put(c, body)
           \/ \E n, m \in Peer : Land(n, m)
  BY DEF ArtifactsNext, artifactsVars, Use, Get, Lock, Unlock, LetGo, Expire, Bundle

(* A lease keeps every other name's puts away until it ends, whatever is   *)
(* locked, unlocked, imported and patched meanwhile.                       *)
THEOREM LeasesAreKept == ArtifactsSpec => LeasesHold
<1> DEFINE HeldHere(n) ==
        promised[n] # Blank /\ artifact'[n] # artifact[n] /\ ~brought'[n]
        => artifact'[n].stamp.actor = ActorOf[promised[n]]
<1>1. ArtifactsInv /\ [ArtifactsNext]_artifactsVars => \A n \in Peer : HeldHere(n)
  <2> SUFFICES ASSUME ArtifactsInv, [ArtifactsNext]_artifactsVars, NEW n \in Peer,
                      promised[n] # Blank, artifact'[n] # artifact[n], ~brought'[n]
               PROVE  artifact'[n].stamp.actor = ActorOf[promised[n]]
    OBVIOUS
  <2>1. /\ artifact[n] # Blank /\ lease[n] # Blank
        /\ ActorOf[lease[n]] = ActorOf[promised[n]]
    BY DEF ArtifactsInv, Leased
  <2>2. /\ artifact \in [Peer -> Version \cup {Blank}]
        /\ brought \in [Peer -> BOOLEAN]
    BY DEF ArtifactsInv, ArtifactsTypeOK
  <2>3. ASSUME NEW c \in Client, NEW body \in Body, Create(c, body)
        PROVE  artifact'[n].stamp.actor = ActorOf[promised[n]]
    BY <2>1, <2>2, <2>3, Desks DEF Create, Store, Here
  <2>4. ASSUME NEW c \in Client, NEW body \in Body, Put(c, body)
        PROVE  artifact'[n].stamp.actor = ActorOf[promised[n]]
    <3> DEFINE w == [stamp |-> Bumped(artifact[DeskOf[c]].stamp, c), body |-> body]
    <3>1. /\ artifact' = [artifact EXCEPT ![DeskOf[c]] = w]
          /\ w.stamp.actor = ActorOf[c]
      BY <2>4, PutStores
    <3> HIDE DEF w
    <3>2. DeskOf[c] = n /\ artifact'[n] = w
      BY <2>2, <3>1
    <3>3. ActorOf[lease[n]] = ActorOf[c]
      BY <2>1, <2>4, <3>2 DEF Put, LeasedToOther
    <3> QED
      BY <2>1, <3>1, <3>2, <3>3
  <2>5. ASSUME NEW o \in Peer, NEW m \in Peer, Land(o, m)
        PROVE  artifact'[n].stamp.actor = ActorOf[promised[n]]
    BY <2>2, <2>5 DEF Land
  <2>6. artifact' # artifact
    OBVIOUS
  <2> QED
    BY <2>3, <2>4, <2>5, <2>6, Changes
<1>2. ArtifactsSpec => [][\A n \in Peer : HeldHere(n)]_artifactsVars
  BY <1>1, ArtifactsHold, PTL DEF ArtifactsSpec
<1> QED
  BY <1>2 DEF LeasesHold

(* What a put replaces is what its client read, unless a bundle replaced   *)
(* that in the meantime.                                                   *)
THEOREM PutsReplaceReads == ArtifactsSpec => PutsReplaceWhatWasRead
<1> DEFINE Replaces ==
        \A c \in Client :
            (\E body \in Body : Put(c, body)) => read[c] = Here(c) \/ brought[DeskOf[c]]
<1>1. ArtifactsInv => Replaces
  BY DEF ArtifactsInv, Reading, Put, BaseHolds
<1>2. ArtifactsSpec => [][Replaces]_artifactsVars
  BY <1>1, ArtifactsHold, PTL DEF ArtifactsSpec
<1> QED
  BY <1>2 DEF PutsReplaceWhatWasRead

-----------------------------------------------------------------------------
(* Versions put under a name are below what that name's node shows, so that*)
(* a node never gives a stamp twice; names tell the nodes apart, so that no*)
(* other node gives it.                                                    *)
Below ==
    \A v \in issued, c \in Client :
        v.stamp.actor = ActorOf[c] =>
            Here(c) # Blank /\ v.stamp.counter <= Here(c).stamp.counter

LEMMA BelowStarts == ArtifactsInit => Below
  BY DEF ArtifactsInit, Below

LEMMA StampsAreNew ==
    ASSUME ArtifactsInv, Below, NEW c \in Client, NEW v \in issued, NEW w \in Version,
           w.stamp.actor = ActorOf[c],
           Here(c) # Blank => Here(c).stamp.counter < w.stamp.counter
    PROVE  v.stamp # w.stamp
<1>1. v.stamp.counter \in Nat /\ w.stamp.counter \in Nat
  BY Versions, ArtifactsAssumption DEF Version, Stamp
<1>2. Here(c) # Blank => Here(c).stamp.counter \in Nat
  BY Desks, Versions
<1> QED
  BY <1>1, <1>2 DEF Below

LEMMA BelowKeeps ==
    ASSUME NamesTellNodes, ArtifactsInv, Below, [ArtifactsNext]_artifactsVars
    PROVE  Below'
<1>0. /\ artifact \in [Peer -> Version \cup {Blank}]
      /\ DeskOf \in [Client -> Peer]
  BY ArtifactsAssumption DEF ArtifactsInv, ArtifactsTypeOK
<1>1. ASSUME NEW c \in Client, NEW w \in Version,
             w.stamp.actor = ActorOf[c],
             artifact' = [artifact EXCEPT ![DeskOf[c]] = w],
             issued' = issued \cup {w},
             Here(c) # Blank => Here(c).stamp.counter <= w.stamp.counter
      PROVE  Below'
  <2> SUFFICES ASSUME NEW v \in issued', NEW d \in Client, v.stamp.actor = ActorOf[d]
               PROVE  Here(d)' # Blank /\ v.stamp.counter <= Here(d)'.stamp.counter
    BY DEF Below
  <2>0. w # Blank /\ w.stamp.counter \in Nat
    BY BlankAssumption, ArtifactsAssumption DEF Version, Stamp
  <2>1. Here(d)' = IF DeskOf[d] = DeskOf[c] THEN w ELSE Here(d)
    BY <1>0, <1>1 DEF Here
  <2>2. DeskOf[d] = DeskOf[c] => Here(d) = Here(c)
    BY DEF Here
  <2>3. CASE v = w
    <3>1. DeskOf[d] = DeskOf[c]
      BY <1>1, <2>3 DEF NamesTellNodes
    <3> QED
      BY <2>0, <2>1, <2>3, <3>1
  <2>4. CASE v \in issued
    <3>1. Here(d) # Blank /\ v.stamp.counter <= Here(d).stamp.counter
      BY <2>4 DEF Below
    <3>2. v.stamp.counter \in Nat /\ Here(d).stamp.counter \in Nat
      BY <2>4, <3>1, Desks, Versions
    <3> QED
      BY <1>1, <2>0, <2>1, <2>2, <3>1, <3>2
  <2> QED
    BY <1>1, <2>3, <2>4
<1>2. ASSUME NEW c \in Client, NEW body \in Body, Create(c, body) PROVE Below'
  <2> DEFINE w == [stamp |-> [counter |-> 1, actor |-> ActorOf[c]], body |-> body]
  <2>1. /\ w \in Version /\ w.stamp.actor = ActorOf[c]
        /\ artifact' = [artifact EXCEPT ![DeskOf[c]] = w]
        /\ issued' = issued \cup {w}
        /\ Here(c) = Blank
    BY <1>2, ArtifactsAssumption DEF Create, Store, Version, Stamp
  <2> HIDE DEF w
  <2> QED
    BY <1>1, <2>1
<1>3. ASSUME NEW c \in Client, NEW body \in Body, Put(c, body) PROVE Below'
  <2> DEFINE w == [stamp |-> Bumped(artifact[DeskOf[c]].stamp, c), body |-> body]
  <2>1. /\ w \in Version /\ w.stamp.actor = ActorOf[c]
        /\ artifact' = [artifact EXCEPT ![DeskOf[c]] = w]
        /\ issued' = issued \cup {w}
        /\ artifact[DeskOf[c]].stamp.counter \in Nat
        /\ w.stamp.counter = artifact[DeskOf[c]].stamp.counter + 1
    BY <1>3, PutStores
  <2> HIDE DEF w
  <2>2. Here(c).stamp.counter <= w.stamp.counter
    BY <2>1 DEF Here
  <2> QED
    BY <1>1, <2>1, <2>2
<1>4. ASSUME NEW n \in Peer, NEW m \in Peer, Land(n, m) PROVE Below'
  <2>1. /\ bundled[m] \in issued /\ bundled[m] # Blank
        /\ bundled[m].stamp.counter \in Nat
    BY <1>4, Versions DEF Land, ArtifactsInv, Made
  <2>2. /\ artifact' = [artifact EXCEPT ![n] = bundled[m]]
        /\ issued' = issued
    BY <1>4 DEF Land
  <2> SUFFICES ASSUME NEW v \in issued, NEW d \in Client, v.stamp.actor = ActorOf[d]
               PROVE  Here(d)' # Blank /\ v.stamp.counter <= Here(d)'.stamp.counter
    BY <2>2 DEF Below
  <2>3. /\ Here(d) # Blank /\ v.stamp.counter <= Here(d).stamp.counter
        /\ v.stamp.counter \in Nat /\ Here(d).stamp.counter \in Nat
    BY Desks, Versions DEF Below
  <2>4. CASE DeskOf[d] # n
    BY <1>0, <2>2, <2>3, <2>4 DEF Here
  <2>5. CASE DeskOf[d] = n
    <3>1. Here(d)' = bundled[m] /\ Here(d) = artifact[n]
      BY <1>0, <2>2, <2>5 DEF Here
    <3>2. artifact[n].stamp.counter <= bundled[m].stamp.counter
      BY <1>4, <2>1, <2>3, <3>1 DEF Land, TakesIncoming, Before
    <3> QED
      BY <2>1, <2>3, <3>1, <3>2
  <2> QED
    BY <2>4, <2>5
<1>5. CASE UNCHANGED <<artifact, issued>>
  BY <1>5 DEF Below, Here
<1> QED
  BY <1>2, <1>3, <1>4, <1>5 DEF ArtifactsNext, artifactsVars, Use, Get, Lock, Unlock, LetGo,
     Expire, Bundle

(* The nodes are a register on which the last writer wins, if clients of   *)
(* different nodes go by different names: puts stamp above what is shown   *)
(* and never use a stamp twice, imports only ever take a later version.    *)
THEOREM LastWriterIsLast ==
    ASSUME NamesTellNodes
    PROVE  ArtifactsSpec => LastWriterWins
<1>1. ArtifactsInit => Register!Init
  BY DEF ArtifactsInit, Register!Init
<1>2. ArtifactsInv /\ Below /\ [ArtifactsNext]_artifactsVars
      => [Register!Next]_(Register!registerVars)
  <2> SUFFICES ASSUME ArtifactsInv, Below, [ArtifactsNext]_artifactsVars
               PROVE  [Register!Next]_(Register!registerVars)
    OBVIOUS
  <2>0. Register!Write = Version
    BY DEF Register!Write, Version
  <2>1. ASSUME NEW c \in Client, NEW w \in Version,
               w.stamp.actor = ActorOf[c],
               artifact' = [artifact EXCEPT ![DeskOf[c]] = w],
               issued' = issued \cup {w},
               Here(c) # Blank =>
                   /\ Here(c).stamp.counter < w.stamp.counter
        PROVE  Register!Next
    <3>1. \A v \in issued : v.stamp # w.stamp
      BY <2>1, StampsAreNew
    <3>2. Register!Later(artifact[DeskOf[c]], w)
      BY <2>1 DEF Register!Later, Before, Here
    <3>3. Register!Issue(DeskOf[c], w)
      BY <2>1, <3>1, <3>2 DEF Register!Issue
    <3> QED
      BY <2>0, <3>3, Desks DEF Register!Next
  <2>2. ASSUME NEW c \in Client, NEW body \in Body, Create(c, body) PROVE Register!Next
    <3> DEFINE w == [stamp |-> [counter |-> 1, actor |-> ActorOf[c]], body |-> body]
    <3>1. /\ w \in Version /\ w.stamp.actor = ActorOf[c]
          /\ artifact' = [artifact EXCEPT ![DeskOf[c]] = w]
          /\ issued' = issued \cup {w}
          /\ Here(c) = Blank
      BY <2>2, ArtifactsAssumption DEF Create, Store, Version, Stamp
    <3> HIDE DEF w
    <3> QED
      BY <2>1, <3>1
  <2>3. ASSUME NEW c \in Client, NEW body \in Body, Put(c, body) PROVE Register!Next
    <3> DEFINE w == [stamp |-> Bumped(artifact[DeskOf[c]].stamp, c), body |-> body]
    <3>1. /\ w \in Version /\ w.stamp.actor = ActorOf[c]
          /\ artifact' = [artifact EXCEPT ![DeskOf[c]] = w]
          /\ issued' = issued \cup {w}
          /\ artifact[DeskOf[c]].stamp.counter \in Nat
          /\ w.stamp.counter = artifact[DeskOf[c]].stamp.counter + 1
      BY <2>3, PutStores
    <3> HIDE DEF w
    <3>2. Here(c).stamp.counter < w.stamp.counter
      BY <3>1 DEF Here
    <3> QED
      BY <2>1, <3>1, <3>2
  <2>4. ASSUME NEW n \in Peer, NEW m \in Peer, Land(n, m) PROVE Register!Next
    <3>1. bundled[m] \in issued /\ bundled[m] \in Version
      BY <2>4, Versions DEF Land, ArtifactsInv, Made
    <3>2. Register!TakeOver(n, bundled[m])
      BY <2>4, <3>1 DEF Register!TakeOver, Register!Later, Land, TakesIncoming
    <3> QED
      BY <2>0, <3>1, <3>2 DEF Register!Next
  <2>5. CASE UNCHANGED <<artifact, issued>>
    BY <2>5 DEF Register!registerVars
  <2> QED
    BY <2>2, <2>3, <2>4, <2>5 DEF ArtifactsNext, artifactsVars, Use, Get, Lock, Unlock, LetGo,
       Expire, Bundle
<1>3. ArtifactsInv /\ Below /\ [ArtifactsNext]_artifactsVars => Below'
  BY BelowKeeps
<1>4. ArtifactsSpec => Register!Init /\ [][Register!Next]_(Register!registerVars)
  BY <1>1, <1>2, <1>3, BelowStarts, ArtifactsHold, PTL DEF ArtifactsSpec
<1> QED
  BY <1>4 DEF LastWriterWins, Register!Spec

-----------------------------------------------------------------------------
(* AuditChain.                                                             *)

(* The inductive invariant.  A transaction's snapshot is of a chain that   *)
(* has only grown since; what a call was refused is covered by the rows    *)
(* between where it began and its snapshot; unless the keys have parted, a *)
(* keyed row means that every process has that key, and so does a keyed    *)
(* hash that a holder is about to enter, while a plain one can only be     *)
(* entered after rows that are all plain.                                  *)

Seen(c) == IF stage[c] \in {"waiting", "holding"} THEN snapshot[c] ELSE Len(chain)

Snapshots == \A c \in Call : snapshot[c] <= Len(chain)

PaidFor(c) ==
    /\ begun[c] + attempt[c] <= Seen(c)
    /\ stage[c] = "new" => attempt[c] = 0
    /\ stage[c] = "failed" => begun[c] + attempt[c] + 1 <= Len(chain)

Paid == \A c \in Call : PaidFor(c)

Linking == \A i \in 1..Len(chain) : chain[i].prev = TailHash(i - 1)

OneKey == \A c, d \in Call : key[c] # Plain => key[d] = key[c]

RowsHaveIt ==
    \A i \in 1..Len(chain) :
        chain[i].key # Plain => \A d \in Call : key[d] = chain[i].key

PlainSoFar == \A i \in 1..Len(chain) : chain[i].key = Plain

Entering(c) ==
    \/ made[c] # Plain /\ \A d \in Call : key[d] = made[c]
    \/ made[c] = Plain /\ (~Stale(c) => PlainSoFar)

HoldersHaveIt == \A c \in Call : stage[c] = "holding" => Entering(c)

Ratcheted ==
    \A i, j \in 1..Len(chain) : i < j /\ chain[i].key # Plain => chain[j].key # Plain

Sealed == parted \/ (OneKey /\ RowsHaveIt /\ HoldersHaveIt /\ Ratcheted)

AuditInv ==
    /\ AuditTypeOK
    /\ Snapshots
    /\ Paid
    /\ Linking
    /\ Sealed
    /\ AnswersTellTheTruth

(* What every step leaves alone but a commit.                              *)
LEMMA AppendedChain ==
    ASSUME NEW s \in Seq(Entry), NEW e \in Entry
    PROVE  /\ Append(s, e) \in Seq(Entry)
           /\ Len(Append(s, e)) = Len(s) + 1
           /\ \A i \in 1..Len(s) : Append(s, e)[i] = s[i]
           /\ Append(s, e)[Len(s) + 1] = e
  BY AppendProperties

LEMMA AuditStarts == AuditInit => AuditInv
<1> SUFFICES ASSUME AuditInit PROVE AuditInv
  OBVIOUS
<1>1. AuditTypeOK
  <2>1. parted \in BOOLEAN
    BY DEF AuditInit, Part
  <2>2. chain \in Seq(Entry)
    BY DEF AuditInit
  <2>3. stage \in [Call -> Stage]
    BY DEF AuditInit, Stage
  <2>4. /\ key \in [Call -> Key \cup {Plain}]
        /\ made \in [Call -> Key \cup {Plain}]
    BY DEF AuditInit
  <2>5. /\ snapshot \in [Call -> Nat]
        /\ attempt \in [Call -> 0..MaxRetries]
        /\ begun \in [Call -> Nat]
    BY AuditAssumption DEF AuditInit
  <2> QED BY <2>1, <2>2, <2>3, <2>4, <2>5 DEF AuditTypeOK
<1>2. Len(chain) = 0
  BY DEF AuditInit
<1>3. Sealed
  BY <1>2 DEF AuditInit, Part, Sealed, OneKey, RowsHaveIt, HoldersHaveIt, Ratcheted
<1> QED
  BY <1>1, <1>2, <1>3 DEF AuditInit, AuditInv, Snapshots, Paid, PaidFor, Seen, Linking,
     AnswersTellTheTruth, Entered

(* The row a commit adds.                                                  *)
NewRow(c) == [prev |-> TailHash(snapshot[c]), hash |-> c, key |-> made[c]]

LEMMA RowsAreEntries ==
    ASSUME AuditInv, NEW c \in Call
    PROVE  NewRow(c) \in Entry
<1>1. TailHash(snapshot[c]) \in Call \cup {First}
  <2>1. snapshot[c] \in 0..Len(chain)
    BY DEF AuditInv, AuditTypeOK, Snapshots
  <2>2. CASE snapshot[c] = 0
    BY <2>2 DEF TailHash
  <2>3. CASE snapshot[c] # 0
    <3>1. chain[snapshot[c]] \in Entry
      BY <2>1, <2>3 DEF AuditInv, AuditTypeOK
    <3> QED
      BY <2>3, <3>1 DEF TailHash, Entry
  <2> QED
    BY <2>2, <2>3
<1> QED
  BY <1>1 DEF AuditInv, AuditTypeOK, NewRow, Entry

LEMMA CommitKeeps ==
    ASSUME AuditInv, NEW c \in Call, Commit(c)
    PROVE  AuditInv'
<1> DEFINE n == Len(chain)
<1>0. /\ n \in Nat
      /\ chain \in Seq(Entry)
      /\ stage \in [Call -> Stage]
      /\ snapshot[c] = n
  BY DEF AuditInv, AuditTypeOK, Commit, Stale
<1>1. /\ chain' = Append(chain, NewRow(c))
      /\ NewRow(c) \in Entry
      /\ NewRow(c).hash = c
      /\ NewRow(c).key = made[c]
      /\ NewRow(c).prev = TailHash(n)
  BY <1>0, RowsAreEntries DEF Commit, NewRow
<1>2. /\ chain' \in Seq(Entry)
      /\ Len(chain') = n + 1
      /\ \A i \in 1..n : chain'[i] = chain[i]
      /\ chain'[n + 1] = NewRow(c)
  BY <1>0, <1>1, AppendedChain
<1>3. /\ stage' = [stage EXCEPT ![c] = "written"]
      /\ made' = [made EXCEPT ![c] = Plain]
      /\ UNCHANGED <<key, parted, snapshot, attempt, begun>>
      /\ stage[c] = "holding"
      /\ ~Stale(c)
  BY DEF Commit, Reaches
<1> HIDE DEF n
<1>4. AuditTypeOK'
  BY <1>2, <1>3 DEF AuditInv, AuditTypeOK, Stage
<1>5. Snapshots'
  BY <1>0, <1>2, <1>3 DEF AuditInv, AuditTypeOK, Snapshots, n
<1>6. Paid'
  <2> SUFFICES ASSUME NEW d \in Call PROVE PaidFor(d)'
    BY DEF Paid
  <2>1. /\ begun[d] \in Nat /\ attempt[d] \in Nat /\ snapshot[d] \in Nat
        /\ begun[d] + attempt[d] <= Seen(d)
        /\ snapshot[d] <= n
        /\ stage[d] = "new" => attempt[d] = 0
        /\ stage[d] = "failed" => begun[d] + attempt[d] + 1 <= n
    BY AuditAssumption DEF AuditInv, AuditTypeOK, Paid, PaidFor, Snapshots, n
  <2>2. Seen(d) <= n
    BY <1>0, <2>1 DEF Seen, n
  <2>3. stage'[d] = IF d = c THEN "written" ELSE stage[d]
    BY <1>0, <1>3
  <2>4. Seen(d)' = IF stage'[d] \in {"waiting", "holding"} THEN snapshot[d] ELSE n + 1
    BY <1>2, <1>3 DEF Seen
  <2>5. begun[d] + attempt[d] <= Seen(d)'
    BY <1>0, <1>3, <2>1, <2>2, <2>3, <2>4 DEF Seen, n
  <2> QED
    BY <1>0, <1>2, <1>3, <2>1, <2>3, <2>5 DEF PaidFor
<1>7. Linking'
  <2>1. ASSUME NEW i \in 1..(n + 1)
        PROVE  chain'[i].prev = TailHash(i - 1)'
    <3>1. TailHash(i - 1)' = TailHash(i - 1)
      BY <1>0, <1>2 DEF TailHash
    <3>2. CASE i = n + 1
      <4>1. i - 1 = n
        BY <1>0, <3>2
      <4> QED
        BY <1>1, <1>2, <3>1, <3>2, <4>1
    <3>3. CASE i \in 1..n
      BY <1>2, <3>1, <3>3 DEF AuditInv, Linking, n
    <3> QED
      BY <1>0, <3>2, <3>3
  <2> QED
    BY <1>2, <2>1 DEF Linking
<1>8. Sealed'
  <2> SUFFICES ASSUME ~parted
               PROVE  (OneKey /\ RowsHaveIt /\ HoldersHaveIt /\ Ratcheted)'
    BY <1>3 DEF Sealed
  <2>1. OneKey /\ RowsHaveIt /\ HoldersHaveIt /\ Ratcheted
    BY DEF AuditInv, Sealed
  <2>2. Entering(c)
    BY <1>3, <2>1 DEF HoldersHaveIt
  <2>3. RowsHaveIt'
    <3> SUFFICES ASSUME NEW i \in 1..(n + 1), chain'[i].key # Plain, NEW d \in Call
                 PROVE  key[d] = chain'[i].key
      BY <1>2, <1>3 DEF RowsHaveIt
    <3>1. CASE i \in 1..n
      BY <1>2, <2>1, <3>1 DEF RowsHaveIt, n
    <3>2. CASE i = n + 1
      BY <1>1, <1>2, <2>2, <3>2 DEF Entering
    <3> QED
      BY <1>0, <3>1, <3>2
  <2>4. HoldersHaveIt'
    <3> SUFFICES ASSUME NEW d \in Call, stage'[d] = "holding"
                 PROVE  Entering(d)'
      BY DEF HoldersHaveIt
    <3>1. d # c /\ stage[d] = "holding" /\ made'[d] = made[d] /\ made[d] \in Key \cup {Plain}
      BY <1>0, <1>3 DEF AuditInv, AuditTypeOK
    <3>2. snapshot[d] \in Nat /\ snapshot[d] <= n
      BY DEF AuditInv, AuditTypeOK, Snapshots, n
    <3>3. Stale(d)'
      BY <1>0, <1>2, <1>3, <3>2 DEF Stale
    <3>4. Entering(d)
      BY <2>1, <3>1 DEF HoldersHaveIt
    <3> QED
      BY <1>3, <3>1, <3>3, <3>4 DEF Entering
  <2>5. Ratcheted'
    <3> SUFFICES ASSUME NEW i \in 1..(n + 1), NEW j \in 1..(n + 1), i < j,
                        chain'[i].key # Plain
                 PROVE  chain'[j].key # Plain
      BY <1>2 DEF Ratcheted
    <3>1. i \in 1..n /\ chain[i].key # Plain
      BY <1>0, <1>2
    <3>2. CASE j = n + 1
      BY <1>1, <1>2, <1>3, <2>2, <3>1, <3>2 DEF Entering, PlainSoFar, n
    <3>3. CASE j \in 1..n
      BY <1>2, <2>1, <3>1, <3>3 DEF Ratcheted, n
    <3> QED
      BY <1>0, <3>2, <3>3
  <2> QED
    BY <1>3, <2>1, <2>3, <2>4, <2>5 DEF OneKey
<1>9. AnswersTellTheTruth'
  <2> SUFFICES ASSUME NEW d \in Call
               PROVE  /\ stage'[d] \in {"written", "answered"} => Entered(d)'
                      /\ stage'[d] \in {"new", "waiting", "holding", "backoff", "failed"}
                         => ~Entered(d)'
    BY DEF AnswersTellTheTruth
  <2>1. stage'[d] = IF d = c THEN "written" ELSE stage[d]
    BY <1>0, <1>3
  <2>2. Entered(d)' <=> Entered(d) \/ d = c
    BY <1>0, <1>1, <1>2 DEF Entered, n
  <2> QED
    BY <2>1, <2>2 DEF AuditInv, AnswersTellTheTruth
<1> QED
  BY <1>4, <1>5, <1>6, <1>7, <1>8, <1>9 DEF AuditInv

(* The steps of a call that leave the chain as it is.                      *)
LEMMA CallsKeep ==
    ASSUME AuditInv, NEW c \in Call,
           Begin(c) \/ BeginAgain(c) \/ TakeLock(c) \/ Retry(c) \/ GiveUp(c) \/ Answer(c)
           \/ Cut(c)
    PROVE  AuditInv'
<1>0. /\ chain \in Seq(Entry) /\ Len(chain) \in Nat
      /\ stage \in [Call -> Stage] /\ snapshot \in [Call -> Nat]
      /\ attempt \in [Call -> 0..MaxRetries] /\ begun \in [Call -> Nat]
      /\ MaxRetries \in Nat
  BY AuditAssumption DEF AuditInv, AuditTypeOK
<1>1. UNCHANGED <<chain, key, parted>>
  BY DEF Begin, BeginAgain, TakeLock, Retry, GiveUp, Answer, Cut
<1>2. AuditTypeOK'
  <2>1. chain' \in Seq(Entry) /\ key' \in [Call -> Key \cup {Plain}] /\ parted' \in BOOLEAN
    BY <1>1 DEF AuditInv, AuditTypeOK
  <2>5. made' \in [Call -> Key \cup {Plain}]
    <3>1. made \in [Call -> Key \cup {Plain}] /\ key[c] \in Key \cup {Plain}
      BY DEF AuditInv, AuditTypeOK
    <3> QED
      BY <3>1 DEF Begin, BeginAgain, TakeLock, Retry, GiveUp, Answer, Cut
  <2>2. stage' \in [Call -> Stage]
    BY <1>0 DEF Begin, BeginAgain, TakeLock, Retry, GiveUp, Answer, Cut, Reaches, Stage
  <2>3. snapshot' \in [Call -> Nat] /\ begun' \in [Call -> Nat]
    BY <1>0 DEF Begin, BeginAgain, TakeLock, Retry, GiveUp, Answer, Cut
  <2>4. attempt' \in [Call -> 0..MaxRetries]
    <3>1. CASE Retry(c)
      <4>1. attempt[c] \in Nat /\ attempt[c] + 1 \in 0..MaxRetries
        BY <1>0, <3>1 DEF Retry
      <4> QED
        BY <1>0, <3>1, <4>1 DEF Retry
    <3>2. CASE attempt' = attempt
      BY <1>0, <3>2
    <3> QED
      BY <3>1, <3>2 DEF Begin, BeginAgain, TakeLock, GiveUp, Answer, Cut
  <2> QED
    BY <2>1, <2>2, <2>3, <2>4, <2>5 DEF AuditTypeOK
<1>3. Snapshots'
  <2> SUFFICES ASSUME NEW d \in Call PROVE snapshot'[d] <= Len(chain)'
    BY DEF Snapshots
  <2>1. Len(chain) \in Nat /\ snapshot[d] <= Len(chain) /\ chain' = chain
    BY <1>0 DEF AuditInv, AuditTypeOK, Snapshots, Begin, BeginAgain, TakeLock, Retry, GiveUp,
                Answer, Cut
  <2>2. snapshot'[d] \in {snapshot[d], Len(chain)}
    BY <1>0 DEF Begin, BeginAgain, TakeLock, Retry, GiveUp, Answer, Cut
  <2> QED BY <2>1, <2>2
<1>4. Paid'
  <2> SUFFICES ASSUME NEW d \in Call PROVE PaidFor(d)'
    BY DEF Paid
  <2>1. /\ begun[d] + attempt[d] <= Seen(d)
        /\ snapshot[d] <= Len(chain)
        /\ stage[d] = "new" => attempt[d] = 0
        /\ stage[d] = "failed" => begun[d] + attempt[d] + 1 <= Len(chain)
    BY DEF AuditInv, Paid, PaidFor, Snapshots
  <2>2. CASE Begin(c)
    BY <1>0, <2>1, <2>2 DEF Begin, Reaches, Seen, PaidFor
  <2>3. CASE BeginAgain(c)
    BY <1>0, <2>1, <2>3 DEF BeginAgain, Reaches, Seen, PaidFor
  <2>4. CASE TakeLock(c)
    BY <1>0, <2>1, <2>4 DEF TakeLock, Reaches, Seen, PaidFor
  <2>5. CASE Retry(c)
    BY <1>0, <2>1, <2>5 DEF Retry, Reaches, Seen, Stale, PaidFor
  <2>6. CASE GiveUp(c)
    BY <1>0, <2>1, <2>6 DEF GiveUp, Reaches, Seen, Stale, PaidFor
  <2>7. CASE Answer(c)
    BY <1>0, <2>1, <2>7 DEF Answer, Reaches, Seen, PaidFor
  <2>8. CASE Cut(c)
    BY <1>0, <2>1, <2>8 DEF Cut, Reaches, Seen, UnderWay, PaidFor
  <2> QED
    BY <2>2, <2>3, <2>4, <2>5, <2>6, <2>7, <2>8
<1>5. Linking' /\ Sealed'
  <2>1. Linking' /\ (OneKey <=> OneKey') /\ (RowsHaveIt <=> RowsHaveIt')
        /\ (Ratcheted <=> Ratcheted') /\ (PlainSoFar <=> PlainSoFar')
    BY <1>1 DEF AuditInv, Linking, OneKey, RowsHaveIt, Ratcheted, PlainSoFar, TailHash
  <2>2. ASSUME OneKey, RowsHaveIt, HoldersHaveIt, NEW d \in Call, stage'[d] = "holding"
        PROVE  Entering(d)'
    <3>1. CASE stage[d] = "holding" /\ snapshot'[d] = snapshot[d] /\ made'[d] = made[d]
      BY <1>1, <2>1, <2>2, <3>1 DEF HoldersHaveIt, Entering, Stale
    <3>2. CASE d = c /\ TakeLock(c)
      <4>1. made'[c] = key[c]
        BY <3>2 DEF TakeLock, AuditInv, AuditTypeOK
      <4>2. CASE key[c] # Plain
        BY <1>1, <2>2, <3>2, <4>1, <4>2 DEF OneKey, Entering
      <4>3. CASE key[c] = Plain
        <5>1. PlainSoFar
          BY <2>2, <4>3 DEF RowsHaveIt, PlainSoFar
        <5> QED
          BY <2>1, <3>2, <4>1, <4>3, <5>1 DEF Entering
      <4> QED
        BY <4>2, <4>3
    <3>3. \/ stage[d] = "holding" /\ snapshot'[d] = snapshot[d] /\ made'[d] = made[d]
          \/ d = c /\ TakeLock(c)
      <4>1. made \in [Call -> Key \cup {Plain}]
        BY DEF AuditInv, AuditTypeOK
      <4> QED
        BY <1>0, <2>2, <4>1 DEF Begin, BeginAgain, TakeLock, Retry, GiveUp, Answer, Cut, Reaches
    <3> QED
      BY <3>1, <3>2, <3>3
  <2> QED
    BY <1>1, <2>1, <2>2 DEF AuditInv, Sealed, HoldersHaveIt
<1>6. AnswersTellTheTruth'
  <2>1. \A d \in Call : Entered(d)' <=> Entered(d)
    BY <1>1 DEF Entered
  <2> QED
    BY <1>0, <2>1 DEF AuditInv, AnswersTellTheTruth, Begin, BeginAgain, TakeLock, Retry,
       GiveUp, Answer, Cut, UnderWay, Reaches
<1> QED
  BY <1>2, <1>3, <1>4, <1>5, <1>6 DEF AuditInv

LEMMA SealKeeps ==
    ASSUME AuditInv, NEW now \in [Call -> Key \cup {Plain}], Seal(now)
    PROVE  AuditInv'
<1>1. /\ UNCHANGED <<chain, made, stage, snapshot, attempt, begun>>
      /\ key' = now
      /\ parted' = (parted \/ Part(key, now) \/ Part(now, now))
  BY DEF Seal
<1>2. AuditTypeOK'
  BY <1>1 DEF AuditInv, AuditTypeOK
<1>3. Snapshots' /\ Paid' /\ Linking' /\ AnswersTellTheTruth'
  BY <1>1 DEF AuditInv, Snapshots, Paid, PaidFor, Seen, Linking, TailHash,
     AnswersTellTheTruth, Entered
<1>4. Sealed'
  <2> SUFFICES ASSUME ~parted'
               PROVE  (OneKey /\ RowsHaveIt /\ HoldersHaveIt /\ Ratcheted)'
    BY DEF Sealed
  <2>1. /\ ~parted
        /\ \A c, d \in Call : key[c] # Plain => key'[d] = key[c]
        /\ \A c, d \in Call : key'[c] # Plain => key'[d] = key'[c]
    BY <1>1 DEF Part
  <2>2. RowsHaveIt /\ HoldersHaveIt /\ Ratcheted
    BY <2>1 DEF AuditInv, Sealed
  <2>3. OneKey' /\ Ratcheted'
    BY <1>1, <2>1, <2>2 DEF OneKey, Ratcheted
  <2>4. RowsHaveIt'
    BY <1>1, <2>1, <2>2 DEF RowsHaveIt
  <2>5. HoldersHaveIt'
    <3> SUFFICES ASSUME NEW c \in Call, stage[c] = "holding" PROVE Entering(c)'
      BY <1>1 DEF HoldersHaveIt
    <3>1. Entering(c)
      BY <2>2 DEF HoldersHaveIt
    <3>2. (Stale(c) <=> Stale(c)') /\ (PlainSoFar <=> PlainSoFar')
      BY <1>1 DEF Stale, PlainSoFar
    <3> QED
      BY <1>1, <2>1, <3>1, <3>2 DEF Entering
  <2> QED
    BY <2>3, <2>4, <2>5
<1> QED
  BY <1>2, <1>3, <1>4 DEF AuditInv

LEMMA AuditKeeps == AuditInv /\ [AuditNext]_auditVars => AuditInv'
<1> SUFFICES ASSUME AuditInv, [AuditNext]_auditVars PROVE AuditInv'
  OBVIOUS
<1>1. ASSUME NEW c \in Call, Proceed(c) \/ Cut(c)
      PROVE  AuditInv'
  BY <1>1, CommitKeeps, CallsKeep DEF Proceed
<1>2. ASSUME NEW now \in [Call -> Key \cup {Plain}], Seal(now)
      PROVE  AuditInv'
  BY <1>2, SealKeeps
<1>3. CASE UNCHANGED auditVars
  BY <1>3 DEF auditVars, AuditInv, AuditTypeOK, Snapshots, Paid, PaidFor, Seen,
     Linking, TailHash,
     AnswersTellTheTruth, Entered, Sealed, OneKey, RowsHaveIt, HoldersHaveIt, Entering, Stale,
     PlainSoFar, Ratcheted
<1> QED
  BY <1>1, <1>2, <1>3 DEF AuditNext

LEMMA AuditHolds == AuditSpec => []AuditInv
  BY AuditStarts, AuditKeeps, PTL DEF AuditSpec

-----------------------------------------------------------------------------
(* Every reachable state of any number of calls is well typed.             *)
THEOREM AuditTypes == AuditSpec => []AuditTypeOK
<1>1. AuditInv => AuditTypeOK
  BY DEF AuditInv
<1> QED
  BY <1>1, AuditHolds, PTL

(* verify finds every prefix of the chain linked, however appends wait,    *)
(* are refused, are cut, and keys change meanwhile; and every row of it    *)
(* verified, in every process, unless two of them had keys that differ.    *)
THEOREM ChainsVerify == AuditSpec => []ChainVerifies
<1>1. AuditInv => ChainVerifies
  <2> SUFFICES ASSUME AuditInv, NEW n \in 0..Len(chain)
               PROVE  Linked(n) /\ (~parted => \A c \in Call : Verified(n, key[c]))
    BY DEF ChainVerifies
  <2>1. Len(chain) \in Nat
    BY DEF AuditInv, AuditTypeOK
  <2>2. \A i \in 1..n : i \in 1..Len(chain)
    BY <2>1
  <2>3. Linked(n)
    BY <2>2 DEF AuditInv, Linking, Linked
  <2>4. ASSUME ~parted, NEW c \in Call, NEW i \in 1..n
        PROVE  \/ chain[i].key = key[c]
               \/ chain[i].key = Plain /\ \A h \in 1..(i - 1) : chain[h].key = Plain
    <3>1. RowsHaveIt /\ Ratcheted
      BY <2>4 DEF AuditInv, Sealed
    <3>2. CASE chain[i].key # Plain
      BY <2>2, <3>1, <3>2 DEF RowsHaveIt
    <3>3. CASE chain[i].key = Plain
      <4>1. \A h \in 1..(i - 1) : h \in 1..Len(chain) /\ h < i
        BY <2>1
      <4> QED
        BY <2>2, <3>1, <3>3, <4>1 DEF Ratcheted
    <3> QED
      BY <3>2, <3>3
  <2> QED
    BY <2>3, <2>4 DEF Verified
<1> QED
  BY <1>1, AuditHolds, PTL

(* A caller that is answered has its row, one that was refused has none.   *)
THEOREM AnswersAreTrue == AuditSpec => []AnswersTellTheTruth
<1>1. AuditInv => AnswersTellTheTruth
  BY DEF AuditInv
<1> QED
  BY <1>1, AuditHolds, PTL

(* No call is refused more often than rows of others came between.         *)
THEOREM RefusalsArePaid == AuditSpec => []RefusalsArePaidFor
<1>1. AuditInv => RefusalsArePaidFor
  <2> SUFFICES ASSUME AuditInv, NEW c \in Call
               PROVE  attempt[c] + (IF stage[c] = "failed" THEN 1 ELSE 0)
                      <= Len(chain) - begun[c]
    BY DEF RefusalsArePaidFor
  <2>1. /\ begun[c] + attempt[c] <= Seen(c)
        /\ snapshot[c] <= Len(chain)
        /\ stage[c] = "failed" => begun[c] + attempt[c] + 1 <= Len(chain)
    BY DEF AuditInv, Paid, PaidFor, Snapshots
  <2>2. /\ Len(chain) \in Nat /\ begun[c] \in Nat /\ attempt[c] \in Nat
        /\ snapshot[c] \in Nat
    BY AuditAssumption DEF AuditInv, AuditTypeOK
  <2> QED
    BY <2>1, <2>2 DEF Seen
<1> QED
  BY <1>1, AuditHolds, PTL

-----------------------------------------------------------------------------
(* The hashes of the rows, the log the chain is to its readers.            *)
hashes == [i \in 1..Len(chain) |-> chain[i].hash]

LEMMA CommitEnters ==
    ASSUME AuditInv, NEW c \in Call, Commit(c)
    PROVE  hashes' = Append(hashes, c) /\ \A i \in 1..Len(hashes) : hashes[i] # c
<1>1. /\ chain \in Seq(Entry) /\ Len(chain) \in Nat
  BY DEF AuditInv, AuditTypeOK
<1>2. chain' = Append(chain, NewRow(c)) /\ NewRow(c) \in Entry /\ NewRow(c).hash = c
  BY RowsAreEntries DEF Commit, NewRow
<1>3. /\ Len(chain') = Len(chain) + 1
      /\ \A i \in 1..Len(chain) : chain'[i] = chain[i]
      /\ chain'[Len(chain) + 1] = NewRow(c)
  BY <1>1, <1>2, AppendedChain
<1>4. hashes \in Seq(Call) /\ Len(hashes) = Len(chain)
  <2>1. \A i \in 1..Len(chain) : chain[i].hash \in Call
    <3> SUFFICES ASSUME NEW i \in 1..Len(chain) PROVE chain[i].hash \in Call
      OBVIOUS
    <3>1. chain[i] \in Entry
      BY <1>1, ElementOfSeq
    <3> QED
      BY <3>1 DEF Entry
  <2> QED
    BY <1>1, <2>1 DEF hashes
<1>5. hashes' = Append(hashes, c)
  <2>1. /\ Append(hashes, c) \in Seq(Call)
        /\ Len(Append(hashes, c)) = Len(chain) + 1
        /\ \A i \in 1..Len(chain) : Append(hashes, c)[i] = hashes[i]
        /\ Append(hashes, c)[Len(chain) + 1] = c
    BY <1>4, AppendProperties
  <2>2. Append(hashes, c) = [i \in 1..(Len(chain) + 1) |-> Append(hashes, c)[i]]
    <3>1. DOMAIN Append(hashes, c) = 1..(Len(chain) + 1)
      BY <2>1, LenProperties
    <3>2. Append(hashes, c) = [i \in DOMAIN Append(hashes, c) |-> Append(hashes, c)[i]]
      BY <2>1, LenProperties
    <3> QED
      BY <3>1, <3>2
  <2>3. hashes' = [i \in 1..(Len(chain) + 1) |-> chain'[i].hash]
    BY <1>3 DEF hashes
  <2>4. ASSUME NEW i \in 1..(Len(chain) + 1)
        PROVE  chain'[i].hash = Append(hashes, c)[i]
    <3>1. CASE i \in 1..Len(chain)
      BY <1>3, <2>1, <3>1 DEF hashes
    <3>2. CASE i = Len(chain) + 1
      BY <1>2, <1>3, <2>1, <3>2
    <3>3. i \in 1..Len(chain) \/ i = Len(chain) + 1
      BY <1>1
    <3> QED
      BY <3>1, <3>2, <3>3
  <2> HIDE DEF hashes
  <2> QED
    BY <2>2, <2>3, <2>4
<1>6. ~Entered(c)
  BY DEF AuditInv, AnswersTellTheTruth, Commit
<1> QED
  BY <1>4, <1>5, <1>6 DEF Entered, hashes

(* The table is the append-only log AuditLog describes: nothing is ever    *)
(* taken out or put elsewhere than at the end, and no call is entered twice.*)
THEOREM ChainImplementsLog == AuditSpec => ChainIsALog
<1>1. AuditInit => Log!Init
  <2> SUFFICES ASSUME AuditInit PROVE hashes = <<>>
    BY DEF Log!Init, hashes
  <2>1. Len(chain) = 0
    BY DEF AuditInit
  <2> QED
    BY <2>1 DEF hashes
<1>2. AuditInv /\ [AuditNext]_auditVars => [Log!Next]_hashes
  <2> SUFFICES ASSUME AuditInv, [AuditNext]_auditVars, hashes' # hashes
               PROVE  Log!Next
    OBVIOUS
  <2>1. chain' # chain
    BY DEF hashes
  <2>2. PICK c \in Call : Commit(c)
    BY <2>1 DEF AuditNext, auditVars, Proceed, Begin, BeginAgain, TakeLock, Retry,
       GiveUp, Answer,
       Cut, Seal
  <2> QED
    BY <2>2, CommitEnters DEF Log!Next, Log!Enter, hashes
<1>3. AuditSpec => Log!Init /\ [][Log!Next]_hashes
  BY <1>1, <1>2, AuditHolds, PTL DEF AuditSpec
<1>4. (Log!Init /\ [][Log!Next]_hashes) => ChainIsALog
  BY DEF ChainIsALog, Log!Spec, hashes
<1> QED
  BY <1>3, <1>4

-----------------------------------------------------------------------------
(* MCDesk.                                                                 *)

(* What follows another node's texts does nothing that TextsNext does not. *)
LEMMA FollowersAreNodes == FollowNext => TextsNext
  BY DeskAssumption DEF FollowNext, TextsNext

(* A behaviour of the desk is one of each of its parts: whatever is proved *)
(* of the parts holds of what TLC explores.                                *)
THEOREM DeskPlaysItsParts == Spec => TextsSpec /\ ArtifactsSpec /\ AuditSpec
<1>1. Init => TextsInit /\ ArtifactsInit /\ AuditInit
  BY DEF Init
<1>2. ASSUME [Next]_<<subject, deskVars>>
      PROVE  /\ [TextsNext]_textsVars
             /\ [ArtifactsNext]_artifactsVars
             /\ [AuditNext]_auditVars
  <2>1. CASE TextsStep
    BY <2>1 DEF TextsStep
  <2>2. CASE FollowStep
    BY <2>2, FollowersAreNodes DEF FollowStep
  <2>3. CASE ArtifactsStep
    BY <2>3 DEF ArtifactsStep
  <2>4. CASE OneDeskStep
    BY <2>4 DEF OneDeskStep
  <2>5. CASE AuditStep
    BY <2>5 DEF AuditStep
  <2>6. CASE UNCHANGED <<subject, deskVars>>
    BY <2>6 DEF deskVars
  <2> QED
    BY <1>2, <2>1, <2>2, <2>3, <2>4, <2>5, <2>6 DEF Next
<1> QED
  BY <1>1, <1>2, PTL DEF Spec, TextsSpec, ArtifactsSpec, AuditSpec

(* Every state of the desk is well formed, in all of its parts at one time,*)
(* whatever the subject.                                                   *)
THEOREM DeskTypes == Spec => []DeskTypeOK
<1>1. TextsTypeOK /\ ArtifactsTypeOK /\ AuditTypeOK => DeskTypeOK
  BY DEF DeskTypeOK
<1> QED
  BY <1>1, DeskPlaysItsParts, TextsTypes, ArtifactsTypes, AuditTypes, PTL
=============================================================================
