--------------------------- MODULE PeerFetchProofs ---------------------------
(* Theorems about PeerFetch for every bundle, every number of states of the*)
(* peer and every number of mishaps.                                       *)
EXTENDS PeerFetch, TLAPS

-----------------------------------------------------------------------------
(* What the operators return.                                              *)

(* The empty inbox is a content, and no bundle has an older file than 1.   *)
LEMMA ContentsAreContents ==
    /\ Nothing \in Content
    /\ 0 \notin Version /\ Unread \notin Version /\ Unread # 0
  BY FetchAssumption DEF Nothing, Content, Version, Unread

(* The last file of a bundle is one of its files.                          *)
LEMMA BundlesHaveFiles ==
    ASSUME NEW v \in Version
    PROVE  FilesOf[v] \in SUBSET Path /\ Tail \in FilesOf[v]
  BY FetchAssumption, TailAssumption

(* A read bundle is one of the contents.                                   *)
LEMMA AnswersAreContents ==
    ASSUME TypeOK, NEW f \in Fetcher, Answered(f)
    PROVE  export[f] \in Content /\ FilesIn(export[f]) \in SUBSET Path
  BY DEF TypeOK, Answered, ToRead, Content, FilesIn

-----------------------------------------------------------------------------
(* The inductive invariant.  The bundle the peer is reading was listed     *)
(* after every notice open when the fetch began, and its tombstones are    *)
(* read last; so was the bundle the first page described.  Between two     *)
(* pages the inbox holds the files of that bundle that came and nothing    *)
(* else, and from the last page to the commit it is the bundle.            *)

Loaded == {"drained", "importing", "writing", "committed"}

Since(v, f) == \A x \in heard[f] : x.about <= v

PartRead(v, e) ==
    /\ \A p \in Path : IF p \in FilesOf[v] THEN e[p] = Unread \/ e[p] \in v..version
                                          ELSE e[p] = 0
    /\ e[Tail] # Unread => \A p \in Path : e[p] # Unread /\ e[p] <= e[Tail]

Exporting(f) ==
    /\ pc[f] # "asking" => export[f] = Nothing
    /\ export[f] # Nothing => \E v \in 1..version : Since(v, f) /\ PartRead(v, export[f])

Paging(f) ==
    pc[f] = "asking" /\ hash[f] # Nothing =>
        /\ rest[f] # {}
        /\ rest[f] \subseteq Path
        /\ inbox = [p \in Path |-> IF p \in rest[f] THEN 0 ELSE hash[f][p]]

Holding(f) ==
    /\ pc[f] \in Loaded \cup {"unchanged", "answering"} => hash[f] # Nothing
    /\ pc[f] \in Loaded => inbox = hash[f]
    /\ pc[f] \in {"writing", "committed"} => digest[f] = inbox
    /\ pc[f] \in {"committed", "answering"} => hash[f] \in landed

Hearing(f) ==
    /\ Since(version, f)
    /\ hash[f] # Nothing => \E v \in Version : Since(v, f) /\ ReadFrom(v, hash[f])

LandedAreExports == \A c \in landed : \E v \in Version : ReadFrom(v, c)

FInv ==
    /\ TypeOK
    /\ LandedAreExports
    /\ TakenHasLanded
    /\ \A x \in notices : x.about <= version
    /\ \A f \in Fetcher : Exporting(f) /\ Paging(f) /\ Holding(f) /\ Hearing(f)

(* One handler fetches at a time.                                          *)
Alone == \A f, g \in Fetcher : f = g

-----------------------------------------------------------------------------
(* The invariant holds before anything was fetched.                        *)
LEMMA FetchInit == Init => FInv
  <1> SUFFICES ASSUME Init PROVE FInv
    OBVIOUS
  <1>1. 1 \in Version
    BY FetchAssumption DEF Version
  <1>2. TypeOK
    <2>1. mishaps \in 0..MaxMishaps
      BY FetchAssumption DEF Init
    <2>2. /\ inbox \in Content /\ cursor \in Content
          /\ digest \in [Fetcher -> Content] /\ known \in [Fetcher -> Content]
          /\ hash \in [Fetcher -> Content]
          /\ export \in [Fetcher -> [Path -> {Unread, 0} \cup Version]]
      BY ContentsAreContents DEF Init, Nothing
    <2>3. pc \in [Fetcher -> PC]
      BY DEF Init, PC
    <2> QED BY <1>1, <2>1, <2>2, <2>3 DEF Init, TypeOK
  <1>3. ASSUME NEW f \in Fetcher PROVE Exporting(f) /\ Paging(f) /\ Holding(f) /\ Hearing(f)
    BY DEF Init, Exporting, Paging, Holding, Hearing, Since, Loaded
  <1> QED BY <1>2, <1>3 DEF Init, FInv, LandedAreExports, TakenHasLanded

(* Every step leaves every variable in its set.                            *)
LEMMA FetchTypes == TypeOK /\ [Next]_vars => TypeOK'
  <1> SUFFICES ASSUME TypeOK, [Next]_vars PROVE TypeOK'
    OBVIOUS
  <1> USE DEF TypeOK
  <1>1. CASE UNCHANGED vars
    BY <1>1 DEF vars, peer, locals
  <1>2. ASSUME NEW notified \in BOOLEAN, PeerWrites(notified) PROVE TypeOK'
    BY <1>2, FetchAssumption DEF PeerWrites, locals, Version
  <1>3. CASE Announce
    <2>1. [about |-> version, names |-> Nothing] \in Notice
      BY ContentsAreContents DEF Notice
    <2> QED BY <1>3, <2>1 DEF Announce, locals
  <1>4. CASE AnnouncementLost
    BY <1>4 DEF AnnouncementLost, locals
  <1>5. ASSUME NEW c \in Committed, Notify(c) PROVE TypeOK'
    <2>1. [about |-> version, names |-> c] \in Notice
      BY FetchAssumption DEF Notice
    <2> QED BY <1>5, <2>1 DEF Notify, locals, peer
  <1>13. ASSUME NEW c \in Committed, NEW withheld \in BOOLEAN, GitBrings(c, withheld)
         PROVE  TypeOK'
    BY <1>13, FetchAssumption DEF GitBrings, locals, peer
  <1>6. ASSUME NEW f \in Fetcher, NEW confirmed \in BOOLEAN, Start(f, confirmed)
        PROVE  TypeOK'
    BY <1>6, ContentsAreContents DEF Start, Goto, peer, PC
  <1>23. ASSUME NEW f \in Fetcher, PeerLists(f) PROVE TypeOK'
    <2>1. [p \in Path |-> IF p \in FilesOf[version] THEN Unread ELSE 0]
            \in [Path -> {Unread, 0} \cup Version]
      OBVIOUS
    <2> QED BY <1>23, <2>1 DEF PeerLists, peer
  <1>24. ASSUME NEW f \in Fetcher, NEW p \in Path, PeerReads(f, p) PROVE TypeOK'
    BY <1>24 DEF PeerReads, peer
  <1>25. ASSUME NEW f \in Fetcher, Consumed(f)
         PROVE  export' \in [Fetcher -> [Path -> {Unread, 0} \cup Version]]
    BY <1>25 DEF Consumed, Nothing
  <1>7. ASSUME NEW f \in Fetcher, Unchanged(f) PROVE TypeOK'
    BY <1>7, <1>25, AnswersAreContents DEF Unchanged, Goto, peer, PC
  <1>8. ASSUME NEW f \in Fetcher, NEW page, NEW files \in Content,
               NEW coming \in SUBSET Path, Land(f, page, files, coming), Answered(f)
        PROVE  TypeOK'
    <2>1. export[f] \in Content
      BY <1>8, AnswersAreContents
    <2>2. inbox' \in Content
      BY <1>8, <2>1 DEF Land, Content
    <2> QED BY <1>8, <1>25, <2>1, <2>2 DEF Land, Goto, peer, PC
  <1>9. ASSUME NEW f \in Fetcher, FirstPage(f) PROVE TypeOK'
    BY <1>8, <1>9, ContentsAreContents, AnswersAreContents DEF FirstPage, Cleared
  <1>10. ASSUME NEW f \in Fetcher, NextPage(f) PROVE TypeOK'
    BY <1>8, <1>10 DEF NextPage
  <1>11. ASSUME NEW f \in Fetcher, PeerChanged(f) PROVE TypeOK'
    BY <1>11, <1>25, ContentsAreContents DEF PeerChanged, Goto, peer, PC, Cleared
  <1>12. ASSUME NEW f \in Fetcher, Record(f) PROVE TypeOK'
    BY <1>12 DEF Record, Goto, peer, locals, PC, Handed
  <1>14. ASSUME NEW f \in Fetcher, ImportSkipped(f) PROVE TypeOK'
    BY <1>14, ContentsAreContents DEF ImportSkipped, Goto, peer, locals, PC
  <1>15. ASSUME NEW f \in Fetcher, ImportBegins(f) PROVE TypeOK'
    BY <1>15 DEF ImportBegins, Goto, peer, PC
  <1>16. ASSUME NEW f \in Fetcher, NEW withheld \in BOOLEAN, ImportCommits(f, withheld)
         PROVE  TypeOK'
    <2>1. taken' \subseteq Content
      BY <1>16 DEF ImportCommits
    <2> QED BY <1>16, <2>1 DEF ImportCommits, Goto, peer, locals, PC
  <1>17. ASSUME NEW f \in Fetcher, Tidy(f) PROVE TypeOK'
    BY <1>17, ContentsAreContents DEF Tidy, Goto, peer, locals, PC
  <1>18. ASSUME NEW f \in Fetcher, Close(f) PROVE TypeOK'
    BY <1>18 DEF Close, Goto, peer, locals, PC
  <1>19. ASSUME NEW f \in Fetcher, RequestFails(f) PROVE TypeOK'
    BY <1>19, <1>25, FetchAssumption DEF RequestFails, Mishap, Goto, peer, PC
  <1>20. ASSUME NEW f \in Fetcher, ImportFails(f) PROVE TypeOK'
    BY <1>20, ContentsAreContents, FetchAssumption
       DEF ImportFails, Mishap, Goto, peer, locals, PC
  <1>21. ASSUME NEW f \in Fetcher, Cut(f) PROVE TypeOK'
    <2>1. dropped' \subseteq Content
      BY <1>21 DEF Cut
    <2> QED BY <1>21, <1>25, <2>1, FetchAssumption DEF Cut, Mishap, Goto, peer, PC
  <1>22. ASSUME NEW f \in Fetcher, ImportRefused(f) PROVE TypeOK'
    BY <1>22, ContentsAreContents DEF ImportRefused, Goto, peer, locals, PC
  <1> HIDE DEF TypeOK
  <1> QED BY <1>1, <1>2, <1>3, <1>4, <1>5, <1>6, <1>7, <1>9, <1>10, <1>11, <1>12, <1>13,
             <1>14, <1>15, <1>16, <1>17, <1>18, <1>19, <1>20, <1>21, <1>22, <1>23, <1>24
          DEF Next, Advance

(* Every reachable state is well typed, however many handlers fetch at a   *)
(* time.                                                                   *)
THEOREM FetchesAreTyped == Spec => []TypeOK
  <1>1. Init => TypeOK
    BY FetchInit DEF FInv
  <1> QED BY <1>1, FetchTypes, PTL DEF Spec

-----------------------------------------------------------------------------
(* The peer's export.                                                      *)

(* A bundle read to its end is one its list may come to, and it is one the *)
(* peer has files for.                                                     *)
LEMMA ReadOut ==
    ASSUME TypeOK, NEW f \in Fetcher, Answered(f), NEW v \in 1..version,
           PartRead(v, export[f])
    PROVE  v \in Version /\ ReadFrom(v, export[f]) /\ FilesIn(export[f]) = FilesOf[v]
  <1> DEFINE e == export[f]
  <1>1. v \in Version /\ version \in Nat
    BY FetchAssumption DEF TypeOK, Version
  <1>2. e \in Content /\ \A p \in Path : e[p] # Unread
    BY AnswersAreContents DEF Answered, ToRead
  <1>3. Tail \in FilesOf[v] /\ FilesOf[v] \in SUBSET Path
    BY <1>1, BundlesHaveFiles
  <1> HIDE DEF e
  <1>4. \A p \in Path : IF p \in FilesOf[v] THEN e[p] \in v..version /\ e[p] <= e[Tail]
                                            ELSE e[p] = 0
    BY <1>2, <1>3 DEF PartRead, e
  <1>5. ReadFrom(v, e)
    BY <1>1, <1>3, <1>4 DEF ReadFrom, Version
  <1>6. FilesIn(e) = FilesOf[v]
    BY <1>1, <1>3, <1>4 DEF FilesIn, Version
  <1> QED BY <1>1, <1>5, <1>6 DEF e

(* Listed at the peer's state, nothing is read yet.                        *)
LEMMA ListReads ==
    ASSUME TypeOK
    PROVE  PartRead(version, [p \in Path |-> IF p \in FilesOf[version] THEN Unread ELSE 0])
  BY BundlesHaveFiles DEF TypeOK, PartRead

(* One more file read keeps it so.                                         *)
LEMMA OneMoreRead ==
    ASSUME TypeOK, NEW e \in [Path -> {Unread, 0} \cup Version], NEW v \in 1..version,
           PartRead(v, e), NEW p \in Path, e[p] = Unread,
           p = Tail => {q \in Path : e[q] = Unread} = {Tail}
    PROVE  PartRead(v, [e EXCEPT ![p] = version])
  <1> DEFINE d == [e EXCEPT ![p] = version]
  <1>1. v \in Version /\ version \in Version /\ Version \subseteq Nat
    BY FetchAssumption DEF TypeOK, Version
  <1>2. Tail \in FilesOf[v] /\ FilesOf[v] \in SUBSET Path
    BY <1>1, BundlesHaveFiles
  <1>3. p \in FilesOf[v] /\ Unread # version /\ Unread # 0
    BY <1>1, ContentsAreContents DEF PartRead
  <1>4. d[p] = version /\ \A q \in Path : q # p => d[q] = e[q]
    OBVIOUS
  <1> HIDE DEF d
  <1>5. \A q \in Path : IF q \in FilesOf[v] THEN d[q] = Unread \/ d[q] \in v..version
                                            ELSE d[q] = 0
    BY <1>1, <1>3, <1>4 DEF PartRead, Version
  <1>6. ASSUME d[Tail] # Unread, NEW q \in Path PROVE d[q] # Unread /\ d[q] <= d[Tail]
    <2>1. p = Tail
      BY <1>2, <1>4, <1>6 DEF PartRead
    <2>2. q # p => e[q] # Unread
      BY <2>1
    <2>3. d[q] # Unread
      BY <1>3, <1>4, <2>2
    <2>4. d[q] \in v..version \/ d[q] = 0
      BY <1>5, <2>3
    <2> QED BY <1>1, <1>4, <2>1, <2>3, <2>4
  <1> QED BY <1>5, <1>6 DEF PartRead, d

(* With the pages of one bundle and nothing else the inbox is that bundle. *)
LEMMA LandKeeps ==
    ASSUME FInv, Alone, NEW f \in Fetcher, NEW files, NEW coming \in SUBSET Path,
           Answered(f),
           files = [q \in Path |-> IF q \in coming THEN 0 ELSE export[f][q]],
           NEW page \in Pages(coming), Land(f, page, files, coming),
           TypeOK'
    PROVE  FInv'
  <1> DEFINE e == export[f]
  <1>0. TypeOK
    BY DEF FInv
  <1>1. e \in Content /\ pc[f] = "asking" /\ e # Nothing
    BY <1>0, AnswersAreContents DEF Answered
  <1>2. page \subseteq coming
    BY DEF Pages
  <1>3. inbox' = [q \in Path |-> IF q \in coming \ page THEN 0 ELSE e[q]]
    BY <1>2 DEF Land
  <1>4. /\ hash'[f] = e
        /\ rest'[f] = coming \ page
        /\ export'[f] = Nothing
        /\ pc'[f] = (IF page = coming THEN "drained" ELSE "asking")
        /\ UNCHANGED <<landed, taken, notices, version, heard>>
    BY <1>0 DEF Land, Goto, TypeOK, Consumed, peer
  <1>5. PICK v \in 1..version : Since(v, f) /\ PartRead(v, e)
    BY <1>1 DEF FInv, Exporting
  <1>6. v \in Version /\ ReadFrom(v, e)
    BY <1>0, <1>5, ReadOut
  <1>7. Since(version, f)
    BY DEF FInv, Hearing
  <1> HIDE DEF e
  <1>8. Exporting(f)'
    BY <1>4 DEF Exporting
  <1>9. Paging(f)'
    BY <1>2, <1>3, <1>4 DEF Paging
  <1>10. Holding(f)'
    <2>1. page = coming => inbox' = e
      BY <1>1, <1>3 DEF Content
    <2> QED BY <2>1, <1>1, <1>4 DEF Holding, Loaded
  <1>11. Hearing(f)'
    BY <1>4, <1>5, <1>6, <1>7 DEF Hearing, Since, ReadFrom
  <1> QED BY <1>4, <1>8, <1>9, <1>10, <1>11
          DEF FInv, Alone, LandedAreExports, TakenHasLanded, ReadFrom

-----------------------------------------------------------------------------
(* With one handler fetching at a time, every step keeps the invariant.    *)
LEMMA FetchStep ==
    ASSUME Alone, FInv, [Next]_vars
    PROVE  FInv'
  <1>0. TypeOK /\ TypeOK'
    BY FetchTypes DEF FInv
  <1>1. CASE UNCHANGED vars
    <2>1. UNCHANGED <<version, notices, inbox, taken, landed, pc, hash, rest, digest, export, heard>>
      BY <1>1 DEF vars, peer, locals
    <2>2. \A f \in Fetcher : Exporting(f)' /\ Paging(f)' /\ Holding(f)' /\ Hearing(f)'
      BY <2>1 DEF FInv, Exporting, Paging, Holding, Hearing, Since, PartRead, ReadFrom
    <2> QED BY <1>0, <2>1, <2>2 DEF FInv, LandedAreExports, TakenHasLanded, ReadFrom
  <1>2. ASSUME NEW notified \in BOOLEAN, PeerWrites(notified) PROVE FInv'
    <2>1. version' = version + 1 /\ version \in Nat
      BY <1>0, <1>2 DEF PeerWrites, TypeOK, Version
    <2>2. UNCHANGED <<notices, inbox, taken, landed, pc, hash, rest, digest, export, heard>>
      BY <1>2 DEF PeerWrites, locals
    <2>3. ASSUME NEW x \in Notice, x.about <= version PROVE x.about <= version'
      BY <2>1, <2>3 DEF Notice, Version
    <2>4. ASSUME NEW f \in Fetcher PROVE Paging(f)' /\ Holding(f)'
      BY <2>2 DEF FInv, Paging, Holding
    <2>5. ASSUME NEW f \in Fetcher PROVE Hearing(f)'
      <3>1. heard[f] \subseteq Notice
        BY <1>0 DEF TypeOK
      <3>2. Since(version, f)'
        BY <3>1, <2>2, <2>3 DEF FInv, Hearing, Since
      <3> QED BY <3>2, <2>2 DEF FInv, Hearing, Since, ReadFrom
    <2>6. ASSUME NEW f \in Fetcher PROVE Exporting(f)'
      <3>1. SUFFICES ASSUME export[f] # Nothing
                     PROVE  \E v \in 1..version' : Since(v, f) /\ PartRead(v, export[f])'
        BY <2>2 DEF FInv, Exporting, Since
      <3>2. PICK v \in 1..version : Since(v, f) /\ PartRead(v, export[f])
        BY <3>1 DEF FInv, Exporting
      <3>3. v \in 1..version' /\ \A n \in v..version : n \in v..version'
        BY <2>1
      <3>4. PartRead(v, export[f])'
        BY <3>2, <3>3, <2>2 DEF PartRead
      <3> QED BY <3>2, <3>3, <3>4
    <2>7. \A x \in notices' : x.about <= version'
      BY <1>0, <2>2, <2>3 DEF FInv, TypeOK
    <2> QED BY <1>0, <2>2, <2>4, <2>5, <2>6, <2>7
            DEF FInv, LandedAreExports, TakenHasLanded, ReadFrom
  <1>3. ASSUME Announce \/ AnnouncementLost \/ \E c \in Committed : Notify(c) PROVE FInv'
    <2>1. UNCHANGED <<version, inbox, taken, landed, pc, hash, rest, digest, export, heard>>
      BY <1>3 DEF Announce, AnnouncementLost, Notify, locals, peer
    <2>2. \A x \in notices' : x \in notices \/ x.about = version
      BY <1>3 DEF Announce, AnnouncementLost, Notify
    <2>3. \A x \in notices' : x.about <= version
      BY <2>2, <1>0 DEF FInv, TypeOK, Version
    <2>4. \A f \in Fetcher : Exporting(f)' /\ Paging(f)' /\ Holding(f)' /\ Hearing(f)'
      BY <2>1 DEF FInv, Exporting, Paging, Holding, Hearing, Since, PartRead, ReadFrom
    <2> QED BY <1>0, <2>1, <2>3, <2>4 DEF FInv, LandedAreExports, TakenHasLanded, ReadFrom
  <1>22. ASSUME NEW c \in Committed, NEW withheld \in BOOLEAN, GitBrings(c, withheld)
         PROVE  FInv'
    <2>1. UNCHANGED <<version, inbox, pc, hash, rest, digest, export, heard>>
      BY <1>22 DEF GitBrings, locals, peer
    <2>2. /\ landed' = landed \cup {c}
          /\ taken' \subseteq taken \cup {c}
          /\ notices' \subseteq notices
      BY <1>22 DEF GitBrings
    <2>3. PICK v \in Version : ReadFrom(v, c)
      BY <1>0, <1>22, FetchAssumption DEF GitBrings, Exported, TypeOK, Version
    <2>4. LandedAreExports' /\ TakenHasLanded'
      BY <2>2, <2>3 DEF FInv, LandedAreExports, TakenHasLanded, ReadFrom
    <2>5. \A f \in Fetcher : Exporting(f)' /\ Paging(f)' /\ Holding(f)' /\ Hearing(f)'
      BY <2>1, <2>2 DEF FInv, Exporting, Paging, Holding, Hearing, Since, PartRead, ReadFrom
    <2> QED BY <1>0, <2>1, <2>2, <2>4, <2>5 DEF FInv
  <1> SUFFICES ASSUME NEW f \in Fetcher,
                      \/ \E confirmed \in BOOLEAN : Start(f, confirmed)
                      \/ Advance(f)
                      \/ RequestFails(f)
                      \/ ImportFails(f)
                      \/ Cut(f)
               PROVE  FInv'
    BY <1>1, <1>2, <1>3, <1>22 DEF Next
  <1>4. Exporting(f) /\ Paging(f) /\ Holding(f) /\ Hearing(f)
    BY DEF FInv
  <1>5. version \in Version /\ Nothing \in Content
    BY <1>0, ContentsAreContents DEF TypeOK
  <1>6. ASSUME Exporting(f)', Paging(f)', Holding(f)', Hearing(f)', LandedAreExports',
               TakenHasLanded', version' = version, notices' \subseteq notices
        PROVE  FInv'
    BY <1>0, <1>6 DEF FInv, Alone
  <1>7. ASSUME landed' = landed, taken' = taken
        PROVE  LandedAreExports' /\ TakenHasLanded'
    BY <1>7 DEF FInv, LandedAreExports, TakenHasLanded, ReadFrom
  <1>8. ASSUME UNCHANGED <<version, hash, heard>> PROVE Hearing(f)'
    BY <1>4, <1>8 DEF Hearing, Since, ReadFrom
  <1>30. ASSUME export'[f] = Nothing PROVE Exporting(f)'
    BY <1>30 DEF Exporting
  <1>31. ASSUME UNCHANGED <<version, export, heard>>, pc[f] # "asking" PROVE Exporting(f)'
    BY <1>4, <1>31, <1>30 DEF Exporting
  <1>32. ASSUME Consumed(f) PROVE export'[f] = Nothing
    BY <1>0, <1>32 DEF Consumed, TypeOK
  <1>9. ASSUME NEW confirmed \in BOOLEAN, Start(f, confirmed) PROVE FInv'
    <2>1. /\ pc[f] = "idle" /\ pc'[f] = "asking"
          /\ hash'[f] = Nothing /\ heard'[f] = notices
      BY <1>0, <1>9 DEF Start, Goto, TypeOK
    <2>2. UNCHANGED <<version, notices, landed, taken, export>>
      BY <1>9 DEF Start, peer
    <2>3. Hearing(f)'
      BY <2>1, <2>2 DEF Hearing, Since, FInv
    <2>4. Exporting(f)'
      BY <2>1, <2>2, <1>4, <1>30 DEF Exporting
    <2> QED BY <2>1, <2>2, <2>3, <2>4, <1>6, <1>7 DEF Paging, Holding, Loaded
  <1>33. CASE PeerLists(f)
    <2>1. UNCHANGED <<version, notices, landed, taken, inbox, pc, hash, rest, digest, heard>>
      BY <1>33 DEF PeerLists, peer
    <2>2. /\ pc[f] = "asking"
          /\ export'[f] = [p \in Path |-> IF p \in FilesOf[version] THEN Unread ELSE 0]
      BY <1>0, <1>33 DEF PeerLists, TypeOK
    <2>3. PartRead(version, export'[f])
      BY <1>0, <2>2, ListReads
    <2>4. version \in 1..version /\ Since(version, f)
      BY <1>4, <1>5 DEF Hearing, Version
    <2>5. Exporting(f)'
      BY <2>1, <2>2, <2>3, <2>4 DEF Exporting, Since, PartRead
    <2>6. Paging(f)' /\ Holding(f)' /\ Hearing(f)'
      BY <2>1, <1>4, <1>8 DEF Paging, Holding
    <2> QED BY <2>1, <2>5, <2>6, <1>6, <1>7
  <1>34. ASSUME NEW p \in Path, PeerReads(f, p) PROVE FInv'
    <2>1. UNCHANGED <<version, notices, landed, taken, inbox, pc, hash, rest, digest, heard>>
      BY <1>34 DEF PeerReads, peer
    <2>2. /\ export'[f] = [export[f] EXCEPT ![p] = version]
          /\ export[f] \in [Path -> {Unread, 0} \cup Version]
          /\ export[f][p] = Unread
          /\ p = Tail => {q \in Path : export[f][q] = Unread} = {Tail}
      BY <1>0, <1>34 DEF PeerReads, ToRead, TypeOK
    <2>3. export[f] # Nothing
      BY <2>2, ContentsAreContents DEF Nothing
    <2>4. PICK v \in 1..version : Since(v, f) /\ PartRead(v, export[f])
      BY <2>3, <1>4 DEF Exporting
    <2>5. PartRead(v, export'[f])
      BY <1>0, <2>2, <2>4, OneMoreRead
    <2>6. pc[f] = "asking"
      BY <2>3, <1>4 DEF Exporting
    <2>7. Exporting(f)'
      BY <2>1, <2>4, <2>5, <2>6 DEF Exporting, Since, PartRead
    <2>8. Paging(f)' /\ Holding(f)' /\ Hearing(f)'
      BY <2>1, <1>4, <1>8 DEF Paging, Holding
    <2> QED BY <2>1, <2>7, <2>8, <1>6, <1>7
  <1>10. CASE Unchanged(f)
    <2>1. /\ pc'[f] = "unchanged" /\ hash'[f] = export[f]
          /\ Answered(f) /\ export[f] # Nothing /\ export'[f] = Nothing
      BY <1>0, <1>10, <1>32 DEF Unchanged, Answered, Goto, TypeOK
    <2>2. UNCHANGED <<version, notices, landed, taken, heard>>
      BY <1>10 DEF Unchanged, peer
    <2>3. PICK v \in 1..version : Since(v, f) /\ PartRead(v, export[f])
      BY <2>1, <1>4 DEF Exporting
    <2>4. v \in Version /\ ReadFrom(v, export[f])
      BY <1>0, <2>1, <2>3, ReadOut
    <2>5. Hearing(f)'
      BY <2>1, <2>2, <2>3, <2>4, <1>4 DEF Hearing, Since, ReadFrom
    <2>6. Paging(f)' /\ Holding(f)'
      BY <2>1 DEF Paging, Holding, Loaded
    <2> QED BY <2>1, <2>2, <2>5, <2>6, <1>6, <1>7, <1>30
  <1>11. CASE FirstPage(f)
    <2>1. Answered(f) /\ export[f] # Nothing
      BY <1>11 DEF FirstPage, Answered
    <2>2. export[f] \in Content /\ FilesIn(export[f]) \in SUBSET Path
      BY <1>0, <2>1, AnswersAreContents
    <2>3. PICK page \in Pages(FilesIn(export[f])) :
             Land(f, page, Nothing, FilesIn(export[f]))
      BY <1>11 DEF FirstPage, Cleared
    <2>4. Nothing = [q \in Path |-> IF q \in FilesIn(export[f]) THEN 0 ELSE export[f][q]]
      BY DEF Nothing, FilesIn
    <2> QED BY <1>0, <2>1, <2>2, <2>3, <2>4, LandKeeps
  <1>12. CASE NextPage(f)
    <2>1. /\ Answered(f) /\ pc[f] = "asking" /\ hash[f] # Nothing /\ hash[f] = export[f]
      BY <1>12 DEF NextPage, SameState, Answered
    <2>3. PICK page \in Pages(rest[f]) : Land(f, page, inbox, rest[f])
      BY <1>12 DEF NextPage
    <2>2. /\ rest[f] # {} /\ rest[f] \in SUBSET Path
          /\ inbox = [q \in Path |-> IF q \in rest[f] THEN 0 ELSE export[f][q]]
      BY <2>1, <1>4 DEF Paging
    <2> QED BY <1>0, <2>1, <2>2, <2>3, LandKeeps
  <1>13. CASE PeerChanged(f) \/ RequestFails(f)
    <2>1. pc'[f] = "failed" /\ export'[f] = Nothing
      BY <1>0, <1>13, <1>32 DEF PeerChanged, RequestFails, Goto, TypeOK
    <2>2. UNCHANGED <<version, notices, landed, taken, hash, heard>>
      BY <1>13 DEF PeerChanged, RequestFails, peer
    <2> QED BY <2>1, <2>2, <1>6, <1>7, <1>8, <1>30 DEF Paging, Holding, Loaded
  <1>14. CASE Record(f)
    <2>1. /\ pc'[f] = IF pc[f] = "drained" THEN "importing" ELSE "idle"
          /\ pc[f] # "asking"
      BY <1>0, <1>14 DEF Record, Goto, TypeOK
    <2>2. UNCHANGED <<version, notices, inbox, landed, taken, hash, export, heard>>
      BY <1>14 DEF Record, peer, locals
    <2>3. Paging(f)' /\ Holding(f)'
      BY <2>1, <2>2, <1>4 DEF Paging, Holding, Loaded
    <2> QED BY <2>1, <2>2, <2>3, <1>6, <1>7, <1>8, <1>31
  <1>15. CASE ImportRefused(f) \/ ImportFails(f)
    <2>1. pc'[f] = "idle" /\ pc[f] # "asking"
      BY <1>0, <1>15 DEF ImportRefused, ImportFails, Goto, TypeOK
    <2>2. UNCHANGED <<version, notices, landed, taken, hash, export, heard>>
      BY <1>15 DEF ImportRefused, ImportFails, peer, locals
    <2> QED BY <2>1, <2>2, <1>6, <1>7, <1>8, <1>31 DEF Paging, Holding, Loaded
  <1>16. CASE Cut(f)
    <2>1. pc'[f] = "idle" /\ export'[f] = Nothing
      BY <1>0, <1>16, <1>32 DEF Cut, Goto, TypeOK
    <2>2. UNCHANGED <<version, notices, landed, taken, hash, heard>>
      BY <1>16 DEF Cut, peer
    <2> QED BY <2>1, <2>2, <1>6, <1>7, <1>8, <1>30 DEF Paging, Holding, Loaded
  <1>17. CASE ImportSkipped(f)
    <2>1. pc[f] = "importing" /\ pc'[f] = "answering"
      BY <1>0, <1>17 DEF ImportSkipped, Importable, Goto, TypeOK
    <2>2. UNCHANGED <<version, notices, landed, taken, hash, export, heard>>
      BY <1>17 DEF ImportSkipped, peer, locals
    <2>3. hash[f] # Nothing /\ hash[f] \in landed
      BY <2>1, <1>4, <1>17 DEF Holding, Loaded, ImportSkipped, FInv, TakenHasLanded
    <2>4. Paging(f)' /\ Holding(f)'
      BY <2>1, <2>2, <2>3 DEF Paging, Holding, Loaded
    <2> QED BY <2>1, <2>2, <2>4, <1>6, <1>7, <1>8, <1>31
  <1>18. CASE ImportBegins(f)
    <2>1. pc[f] = "importing" /\ pc'[f] = "writing" /\ digest'[f] = inbox
      BY <1>0, <1>18 DEF ImportBegins, Importable, Goto, TypeOK
    <2>2. UNCHANGED <<version, notices, inbox, landed, taken, hash, export, heard>>
      BY <1>18 DEF ImportBegins, peer
    <2>3. Paging(f)' /\ Holding(f)'
      BY <2>1, <2>2, <1>4 DEF Paging, Holding, Loaded
    <2> QED BY <2>1, <2>2, <2>3, <1>6, <1>7, <1>8, <1>31
  <1>19. ASSUME NEW withheld \in BOOLEAN, ImportCommits(f, withheld) PROVE FInv'
    <2>1. /\ pc[f] = "writing" /\ pc'[f] = "committed"
          /\ landed' = landed \cup {inbox}
          /\ taken' \subseteq taken \cup {digest[f]}
      BY <1>0, <1>19 DEF ImportCommits, Goto, TypeOK
    <2>2. UNCHANGED <<version, notices, inbox, hash, digest, export, heard>>
      BY <1>19 DEF ImportCommits, peer, locals
    <2>3. hash[f] # Nothing /\ inbox = hash[f] /\ digest[f] = inbox
      BY <2>1, <1>4 DEF Holding, Loaded
    <2>4. PICK v \in Version : ReadFrom(v, inbox)
      BY <2>3, <1>4 DEF Hearing
    <2>5. LandedAreExports' /\ TakenHasLanded'
      BY <2>1, <2>3, <2>4 DEF FInv, LandedAreExports, TakenHasLanded, ReadFrom
    <2>6. Paging(f)' /\ Holding(f)'
      BY <2>1, <2>2, <2>3 DEF Paging, Holding, Loaded
    <2> QED BY <2>1, <2>2, <2>5, <2>6, <1>6, <1>8, <1>31
  <1>20. CASE Tidy(f)
    <2>1. pc[f] = "committed" /\ pc'[f] = "answering" /\ notices' \subseteq notices
      BY <1>0, <1>20 DEF Tidy, Goto, TypeOK
    <2>2. UNCHANGED <<version, landed, taken, hash, export, heard>>
      BY <1>20 DEF Tidy, peer, locals
    <2>3. hash[f] # Nothing /\ hash[f] \in landed
      BY <2>1, <1>4 DEF Holding, Loaded
    <2>4. Paging(f)' /\ Holding(f)'
      BY <2>1, <2>2, <2>3 DEF Paging, Holding, Loaded
    <2> QED BY <2>1, <2>2, <2>4, <1>6, <1>7, <1>8, <1>31
  <1>21. CASE Close(f)
    <2>1. pc[f] = "answering" /\ pc'[f] = "idle" /\ notices' \subseteq notices
      BY <1>0, <1>21 DEF Close, Goto, TypeOK
    <2>2. UNCHANGED <<version, landed, taken, hash, export, heard>>
      BY <1>21 DEF Close, peer, locals
    <2> QED BY <2>1, <2>2, <1>6, <1>7, <1>8, <1>31 DEF Paging, Holding, Loaded
  <1> QED BY <1>9, <1>10, <1>11, <1>12, <1>13, <1>14, <1>15, <1>16, <1>17, <1>18,
             <1>19, <1>20, <1>21, <1>33, <1>34 DEF Advance

-----------------------------------------------------------------------------
(* It holds for ever while fetches come one at a time.                     *)
LEMMA FetchInvariant == ASSUME Alone PROVE Spec => []FInv
  <1>1. Init => FInv
    BY FetchInit
  <1>2. FInv /\ [Next]_vars => FInv'
    BY FetchStep
  <1> QED BY <1>1, <1>2, PTL DEF Spec

(* A lone fetch imports one export of the peer, all its files and nothing  *)
(* else, however the peer changes and wherever requests fail and handlers  *)
(* are cut off.                                                            *)
THEOREM NothingTorn == ASSUME Alone PROVE Spec => []NothingTornLands
  <1>1. FInv => NothingTornLands
    BY DEF FInv, LandedAreExports, Holding, Loaded, NothingTornLands
  <1> QED BY <1>1, FetchInvariant, PTL

(* Nor does it record a digest whose bundle did not land.                  *)
THEOREM RecordedHasLanded == ASSUME Alone PROVE Spec => []TakenHasLanded
  <1>1. FInv => TakenHasLanded
    BY DEF FInv
  <1> QED BY <1>1, FetchInvariant, PTL

(* A notice open when a lone fetch began is answered by that fetch only if *)
(* what it was about has landed.                                           *)
THEOREM BellsAnswered == ASSUME Alone PROVE Spec => HeardBellsAreAnswered
  <1>1. FInv /\ [Next]_vars =>
          [\A x \in notices \ notices' :
             (\E f \in Fetcher : x \in heard[f] /\ pc'[f] # pc[f]) =>
                 \E c \in landed, v \in x.about..MaxVersion : ReadFrom(v, c)]_vars
    <2> SUFFICES ASSUME FInv, Next, NEW x \in notices, x \notin notices',
                        NEW f \in Fetcher, x \in heard[f], pc'[f] # pc[f]
                 PROVE  \E c \in landed, v \in x.about..MaxVersion : ReadFrom(v, c)
      BY DEF vars, peer, locals
    <2>1. TypeOK /\ Holding(f) /\ Hearing(f)
      BY DEF FInv
    <2>2. Tidy(f) \/ Close(f)
      <3>1. PICK g \in Fetcher : Tidy(g) \/ Close(g)
        BY DEF Next, PeerWrites, Announce, AnnouncementLost, Notify, GitBrings, Start, Advance,
               PeerLists, PeerReads, Unchanged, FirstPage, NextPage, Land, PeerChanged,
               Record, ImportRefused,
               ImportSkipped, ImportBegins, ImportCommits, RequestFails, ImportFails,
               Cut, peer, locals
      <3> QED BY <3>1 DEF Alone
    <2>3. pc[f] \in {"committed", "answering"}
      BY <2>2 DEF Tidy, Close
    <2>4. hash[f] # Nothing /\ hash[f] \in landed
      BY <2>1, <2>3 DEF Holding, Loaded
    <2>5. PICK v \in Version : x.about <= v /\ ReadFrom(v, hash[f])
      BY <2>1, <2>4 DEF Hearing, Since
    <2>6. v \in x.about..MaxVersion
      BY <2>1, <2>5, FetchAssumption DEF TypeOK, Version, Notice
    <2> QED BY <2>4, <2>5, <2>6
  <1> QED BY <1>1, FetchInvariant, PTL DEF Spec, HeardBellsAreAnswered


-----------------------------------------------------------------------------
(* What "unchanged" is worth.  The cursor is recorded before the import, so*)
(* it names a bundle that has landed, one whose import is under way, or    *)
(* one whose import was refused or cut off.                                *)

Underway(c) == \E f \in Fetcher : pc[f] \in {"importing", "writing"} /\ hash[f] = c

Covered(c) == c \in landed \cup dropped \/ Underway(c)

CursorInv ==
    /\ cursor # Nothing => Covered(cursor)
    /\ \A f \in Fetcher :
        /\ pc[f] = "asking" => known[f] = cursor
        /\ pc[f] = "unchanged" => hash[f] = cursor /\ cursor # Nothing

(* Nothing is covered before the first fetch, and nothing need be.         *)
LEMMA CursorInit == Init => CursorInv
  BY DEF Init, CursorInv

(* A bundle stays covered as long as nobody leaves the import without     *)
(* landing it or giving it up.                                             *)
LEMMA CoveredStays ==
    ASSUME NEW c, Covered(c), landed \subseteq landed', dropped \subseteq dropped',
           \A f \in Fetcher :
               pc[f] \in {"importing", "writing"} /\ hash[f] = c =>
                   \/ pc'[f] \in {"importing", "writing"} /\ hash'[f] = c
                   \/ c \in landed' \cup dropped'
    PROVE  Covered(c)'
  BY DEF Covered, Underway

(* With one handler fetching at a time, every step keeps it.               *)
LEMMA CursorStep ==
    ASSUME Alone, FInv, CursorInv, [Next]_vars
    PROVE  CursorInv'
  <1>0. /\ pc \in [Fetcher -> PC] /\ hash \in [Fetcher -> Content]
        /\ known \in [Fetcher -> Content]
    BY DEF FInv, TypeOK
  <1>1. ASSUME UNCHANGED <<cursor, pc, known, hash, dropped>>, landed \subseteq landed'
        PROVE  CursorInv'
    <2>1. cursor # Nothing => Covered(cursor)'
      BY <1>1, CoveredStays DEF CursorInv
    <2> QED BY <1>1, <2>1 DEF CursorInv
  <1>2. ASSUME \/ \E notified \in BOOLEAN : PeerWrites(notified)
               \/ Announce \/ AnnouncementLost
               \/ \E c \in Committed :
                     Notify(c) \/ \E withheld \in BOOLEAN : GitBrings(c, withheld)
               \/ UNCHANGED vars
        PROVE  CursorInv'
    BY <1>1, <1>2 DEF PeerWrites, Announce, AnnouncementLost, Notify, GitBrings, vars,
                      peer, locals
  <1> SUFFICES ASSUME NEW f \in Fetcher,
                      \/ \E confirmed \in BOOLEAN : Start(f, confirmed)
                      \/ Advance(f)
                      \/ RequestFails(f)
                      \/ ImportFails(f)
                      \/ Cut(f)
               PROVE  CursorInv'
    BY <1>2 DEF Next
  <1>3. Holding(f) /\ TakenHasLanded
    BY DEF FInv
  <1>4. \A g \in Fetcher : g = f
    BY DEF Alone
  <1>5. /\ cursor # Nothing => Covered(cursor)
        /\ pc[f] = "asking" => known[f] = cursor
        /\ pc[f] = "unchanged" => hash[f] = cursor /\ cursor # Nothing
    BY DEF CursorInv
  <1>6. ASSUME cursor' = cursor, landed \subseteq landed', dropped \subseteq dropped',
               pc[f] \in {"importing", "writing"} =>
                   \/ pc'[f] \in {"importing", "writing"} /\ hash'[f] = hash[f]
                   \/ hash[f] \in landed' \cup dropped',
               pc'[f] = "asking" => known'[f] = cursor,
               pc'[f] # "unchanged"
        PROVE  CursorInv'
    <2>1. cursor # Nothing => Covered(cursor)'
      BY <1>4, <1>5, <1>6, CoveredStays
    <2> QED BY <2>1, <1>4, <1>6 DEF CursorInv
  <1>7. ASSUME NEW confirmed \in BOOLEAN, Start(f, confirmed) PROVE CursorInv'
    BY <1>0, <1>6, <1>7 DEF Start, Goto, peer
  <1>20. CASE PeerLists(f) \/ \E p \in Path : PeerReads(f, p)
    BY <1>1, <1>20 DEF PeerLists, PeerReads
  <1>8. CASE Unchanged(f)
    <2>1. /\ pc'[f] = "unchanged" /\ hash'[f] = cursor /\ cursor # Nothing
          /\ pc[f] = "asking"
      BY <1>0, <1>5, <1>8 DEF Unchanged, Answered, Goto
    <2>2. UNCHANGED <<cursor, landed, dropped>>
      BY <1>8 DEF Unchanged
    <2>3. Covered(cursor)'
      BY <2>1, <2>2, <1>4, <1>5, CoveredStays
    <2> QED BY <2>1, <2>2, <2>3, <1>4 DEF CursorInv
  <1>9. CASE FirstPage(f) \/ NextPage(f)
    <2>1. /\ pc[f] = "asking" /\ pc'[f] \in {"asking", "drained"}
          /\ UNCHANGED <<cursor, landed, dropped, known>>
      BY <1>0, <1>9 DEF FirstPage, NextPage, Answered, Land, Goto
    <2> QED BY <2>1, <1>5, <1>6
  <1>10. CASE PeerChanged(f)
    BY <1>0, <1>6, <1>10 DEF PeerChanged, Answered, Goto
  <1>11. CASE Record(f)
    <2>1. /\ pc[f] \in {"unchanged", "drained", "failed"}
          /\ pc'[f] = (IF pc[f] = "drained" THEN "importing" ELSE "idle")
          /\ cursor' = (IF pc[f] = "failed" THEN cursor ELSE hash[f])
          /\ UNCHANGED <<landed, dropped, hash>>
      BY <1>0, <1>11 DEF Record, Goto, Handed, locals
    <2>2. CASE pc[f] = "drained"
      <3>1. pc'[f] = "importing" /\ cursor' = hash'[f]
        BY <2>1, <2>2
      <3>2. Covered(cursor)'
        BY <3>1 DEF Covered, Underway
      <3> QED BY <3>1, <3>2, <1>4 DEF CursorInv
    <2>3. CASE pc[f] # "drained"
      <3>1. pc'[f] = "idle" /\ cursor' = cursor
        BY <2>1, <2>3, <1>5
      <3>2. pc[f] \notin {"importing", "writing"}
        BY <2>1
      <3> QED BY <2>1, <3>1, <3>2, <1>6
    <2> QED BY <2>2, <2>3
  <1>12. CASE ImportRefused(f)
    BY <1>0, <1>6, <1>12 DEF ImportRefused, Goto
  <1>13. CASE ImportSkipped(f)
    <2>1. pc[f] = "importing" /\ pc'[f] = "answering"
          /\ UNCHANGED <<cursor, landed, dropped>>
      BY <1>0, <1>13 DEF ImportSkipped, Importable, Goto
    <2>2. hash[f] \in landed
      BY <2>1, <1>3, <1>13 DEF Holding, Loaded, ImportSkipped, TakenHasLanded
    <2> QED BY <2>1, <2>2, <1>6
  <1>14. CASE ImportBegins(f)
    <2>1. pc'[f] = "writing" /\ UNCHANGED <<cursor, landed, dropped, hash>>
      BY <1>0, <1>14 DEF ImportBegins, Importable, Goto
    <2> QED BY <2>1, <1>6
  <1>15. ASSUME NEW withheld \in BOOLEAN, ImportCommits(f, withheld) PROVE CursorInv'
    <2>1. /\ pc[f] = "writing" /\ pc'[f] = "committed"
          /\ landed' = landed \cup {inbox}
          /\ UNCHANGED <<cursor, dropped>>
      BY <1>0, <1>15 DEF ImportCommits, Goto
    <2>2. hash[f] \in landed'
      BY <2>1, <1>3 DEF Holding, Loaded
    <2> QED BY <2>1, <2>2, <1>6
  <1>16. CASE Tidy(f) \/ Close(f)
    <2>1. /\ pc[f] \notin {"importing", "writing"}
          /\ pc'[f] \in {"answering", "idle"}
          /\ UNCHANGED <<cursor, landed, dropped>>
      BY <1>0, <1>16 DEF Tidy, Close, Goto
    <2> QED BY <2>1, <1>6
  <1>17. CASE RequestFails(f)
    BY <1>0, <1>6, <1>17 DEF RequestFails, Goto
  <1>18. CASE ImportFails(f)
    <2>1. /\ pc'[f] = "idle" /\ dropped' = dropped \cup {hash[f]}
          /\ UNCHANGED <<cursor, landed>>
      BY <1>0, <1>18 DEF ImportFails, Goto
    <2> QED BY <2>1, <1>6
  <1>19. CASE Cut(f)
    <2>1. /\ pc'[f] = "idle" /\ UNCHANGED <<cursor, landed>>
          /\ dropped \subseteq dropped'
          /\ pc[f] \in {"importing", "writing"} => hash[f] \in dropped'
      BY <1>0, <1>19 DEF Cut, Goto
    <2> QED BY <2>1, <1>6
  <1> QED BY <1>7, <1>8, <1>9, <1>10, <1>11, <1>12, <1>13, <1>14, <1>15, <1>16, <1>17,
             <1>18, <1>19, <1>20 DEF Advance

(* What a lone fetch calls unchanged has landed, or is a bundle whose      *)
(* import was refused or cut off after the cursor had been written.        *)
THEOREM UnchangedIsTakenOrDropped ==
    ASSUME Alone
    PROVE  Spec => [](\A f \in Fetcher : pc[f] = "unchanged" =>
                          hash[f] \in landed \cup dropped)
  <1> DEFINE Told == \A f \in Fetcher : pc[f] = "unchanged" =>
                         hash[f] \in landed \cup dropped
  <1>1. Init => CursorInv
    BY CursorInit
  <1>2. FInv /\ CursorInv /\ [Next]_vars => CursorInv'
    BY CursorStep
  <1>3. CursorInv => Told
    <2> SUFFICES ASSUME CursorInv, NEW f \in Fetcher, pc[f] = "unchanged"
                 PROVE  hash[f] \in landed \cup dropped
      OBVIOUS
    <2>1. ~Underway(hash[f])
      BY DEF Underway, Alone
    <2> QED BY <2>1 DEF CursorInv, Covered
  <1> HIDE DEF Told
  <1>4. Spec => []Told
    BY <1>1, <1>2, <1>3, FetchInvariant, PTL DEF Spec
  <1> QED BY <1>4 DEF Told

(* So the comment in fetch is true of a node where no import fails: the run*)
(* that finds it false must drop one.                                      *)
THEOREM UnchangedIsTaken ==
    ASSUME Alone
    PROVE  Spec /\ [](dropped = {}) => []UnchangedMeansTaken
  <1>1. dropped = {} /\ (\A f \in Fetcher : pc[f] = "unchanged" =>
                             hash[f] \in landed \cup dropped)
          => UnchangedMeansTaken
    BY DEF UnchangedMeansTaken
  <1> QED BY <1>1, UnchangedIsTakenOrDropped, PTL

-----------------------------------------------------------------------------
(* What the comment in drain_peer takes for granted.                       *)

Quiet == \A f \in Fetcher : export[f] = Nothing

(* Of a state v the peer is in while it exports, some files may be unread. *)
ReadAt(v, e) ==
    \A p \in Path : IF p \in FilesOf[v] THEN e[p] \in {Unread, v} ELSE e[p] = 0

IsState(c) == \E v \in Version : c = Whole(v)

StateInv ==
    /\ \A f \in Fetcher : export[f] # Nothing => ReadAt(version, export[f])
    /\ \A f \in Fetcher : hash[f] # Nothing => IsState(hash[f])
    /\ \A c \in landed : IsState(c)

(* A bundle read out at one state is that state, whole.                    *)
LEMMA ReadOutAt ==
    ASSUME TypeOK, NEW f \in Fetcher, Answered(f), ReadAt(version, export[f])
    PROVE  IsState(export[f])
  <1>1. version \in Version /\ export[f] \in Content /\ \A p \in Path : export[f][p] # Unread
    BY AnswersAreContents DEF TypeOK, Answered, ToRead
  <1>2. export[f] = Whole(version)
    BY <1>1 DEF ReadAt, Whole, Content
  <1> QED BY <1>1, <1>2 DEF IsState

(* With no write during an export, every step keeps it.                    *)
LEMMA StateStep ==
    ASSUME Alone, FInv, StateInv, [Next]_vars, version' # version => Quiet,
           \A c \in Committed : IsState(c)
    PROVE  StateInv'
  <1>0. /\ TypeOK /\ hash \in [Fetcher -> Content]
        /\ export \in [Fetcher -> [Path -> {Unread, 0} \cup Version]]
    BY DEF FInv, TypeOK
  <1>1. ASSUME UNCHANGED hash, landed' = landed \/ \E c : IsState(c) /\ landed' = landed \cup {c},
               \A f \in Fetcher : export'[f] # Nothing => ReadAt(version', export'[f])
        PROVE  StateInv'
    BY <1>1 DEF StateInv, IsState, Whole, ReadAt
  <1>2. ASSUME NEW notified \in BOOLEAN, PeerWrites(notified) PROVE StateInv'
    <2>1. version' # version /\ UNCHANGED <<hash, export, landed>>
      BY <1>0, <1>2, FetchAssumption DEF PeerWrites, locals, TypeOK, Version
    <2> QED BY <2>1, <1>1 DEF Quiet
  <1>3. ASSUME UNCHANGED <<version, hash, export, landed>> PROVE StateInv'
    BY <1>3, <1>1 DEF StateInv
  <1>4. ASSUME \/ Announce \/ AnnouncementLost \/ \E c \in Committed : Notify(c)
               \/ UNCHANGED vars
        PROVE  StateInv'
    BY <1>3, <1>4 DEF Announce, AnnouncementLost, Notify, vars, peer, locals
  <1>5. ASSUME NEW c \in Committed, NEW withheld \in BOOLEAN, GitBrings(c, withheld)
        PROVE  StateInv'
    <2>1. UNCHANGED <<version, hash, export>> /\ landed' = landed \cup {c}
      BY <1>5 DEF GitBrings, peer, locals
    <2> QED BY <2>1, <1>1 DEF StateInv
  <1> SUFFICES ASSUME NEW f \in Fetcher,
                      \/ \E confirmed \in BOOLEAN : Start(f, confirmed)
                      \/ Advance(f)
                      \/ RequestFails(f)
                      \/ ImportFails(f)
                      \/ Cut(f)
               PROVE  StateInv'
    BY <1>2, <1>4, <1>5 DEF Next
  <1>6. \A g \in Fetcher : g = f
    BY DEF Alone
  <1>7. export[f] # Nothing => ReadAt(version, export[f])
    BY DEF StateInv
  <1>8. ASSUME Consumed(f), UNCHANGED <<version, landed>>,
               hash'[f] # Nothing => hash'[f] = hash[f] \/ IsState(hash'[f])
        PROVE  StateInv'
    <2>1. export'[f] = Nothing
      BY <1>0, <1>8 DEF Consumed
    <2> QED BY <2>1, <1>6, <1>8 DEF StateInv, IsState, Whole
  <1>9. ASSUME NEW confirmed \in BOOLEAN, Start(f, confirmed) PROVE StateInv'
    <2>1. hash'[f] = Nothing /\ UNCHANGED <<version, export, landed>>
      BY <1>0, <1>9 DEF Start, peer
    <2> QED BY <2>1, <1>6 DEF StateInv, IsState, Whole, ReadAt
  <1>10. CASE PeerLists(f)
    <2>1. /\ UNCHANGED <<version, hash, landed>>
          /\ export'[f] = [p \in Path |-> IF p \in FilesOf[version] THEN Unread ELSE 0]
      BY <1>0, <1>10 DEF PeerLists, peer
    <2>2. ReadAt(version, export'[f])
      BY <2>1 DEF ReadAt
    <2> QED BY <2>1, <2>2, <1>1, <1>6
  <1>11. ASSUME NEW p \in Path, PeerReads(f, p) PROVE StateInv'
    <2>1. /\ UNCHANGED <<version, hash, landed>>
          /\ export'[f] = [export[f] EXCEPT ![p] = version]
          /\ export[f][p] = Unread
      BY <1>0, <1>11 DEF PeerReads, ToRead, peer
    <2>2. export[f] # Nothing
      BY <2>1, ContentsAreContents DEF Nothing
    <2>3. ReadAt(version, export'[f])
      BY <2>1, <2>2, <1>0, <1>7, ContentsAreContents DEF ReadAt
    <2> QED BY <2>1, <2>3, <1>1, <1>6
  <1>12. ASSUME Answered(f), Consumed(f), UNCHANGED <<version, landed>>, hash'[f] = export[f]
         PROVE  StateInv'
    BY <1>0, <1>7, <1>8, <1>12, ReadOutAt DEF Answered
  <1>13. CASE Unchanged(f)
    BY <1>0, <1>12, <1>13 DEF Unchanged, peer
  <1>14. CASE FirstPage(f) \/ NextPage(f)
    BY <1>0, <1>12, <1>14 DEF FirstPage, NextPage, Land, peer
  <1>15. CASE PeerChanged(f) \/ RequestFails(f) \/ Cut(f)
    BY <1>8, <1>15 DEF PeerChanged, RequestFails, Cut, peer
  <1>16. CASE Record(f) \/ ImportRefused(f) \/ ImportSkipped(f) \/ ImportBegins(f)
              \/ Tidy(f) \/ Close(f) \/ ImportFails(f)
    BY <1>3, <1>16 DEF Record, ImportRefused, ImportSkipped, ImportBegins, Tidy, Close,
          ImportFails, peer, locals
  <1>17. ASSUME NEW withheld \in BOOLEAN, ImportCommits(f, withheld) PROVE StateInv'
    <2>1. UNCHANGED <<version, hash, export>> /\ landed' = landed \cup {inbox}
      BY <1>17 DEF ImportCommits, peer, locals
    <2>2. hash[f] # Nothing /\ inbox = hash[f]
      BY <1>17 DEF ImportCommits, FInv, Holding, Loaded
    <2> QED BY <2>1, <2>2, <1>1 DEF StateInv
  <1> QED BY <1>9, <1>10, <1>11, <1>13, <1>14, <1>15, <1>16, <1>17 DEF Advance

(* The pages "belong to one state", as the comment in drain_peer has it, of*)
(* a peer nobody writes to while it exports, and git brings such bundles   *)
(* too: then what lands is one state of the peer, whole.                   *)
THEOREM StatesLandWhole ==
    ASSUME Alone, \A c \in Committed : IsState(c)
    PROVE  Spec /\ [][version' # version => Quiet]_vars => [](\A c \in landed : IsState(c))
  <1> DEFINE States == \A c \in landed : IsState(c)
             Calm == version' # version => Quiet
  <1>1. Init => StateInv
    BY DEF Init, StateInv
  <1>2. FInv /\ StateInv /\ [Next]_vars /\ [Calm]_vars => StateInv'
    <2> SUFFICES ASSUME FInv, StateInv, [Next]_vars, [Calm]_vars PROVE StateInv'
      OBVIOUS
    <2>1. version' # version => Quiet
      BY DEF vars, peer
    <2> QED BY <2>1, StateStep
  <1>3. StateInv => States
    BY DEF StateInv
  <1> HIDE DEF States, Calm
  <1>4. Spec /\ [][Calm]_vars => []States
    BY <1>1, <1>2, <1>3, FetchInvariant, PTL DEF Spec
  <1> QED BY <1>4 DEF States, Calm
=============================================================================
