--------------------------- MODULE PairingProofs ---------------------------
(***************************************************************************)
(* What Pairing promises, for any number of accounts, codes, devices,      *)
(* requests and offers.                                                    *)
(***************************************************************************)
EXTENDS Pairing, FiniteSetTheorems, TLAPS

-----------------------------------------------------------------------------
(* The inductive invariant.                                                *)

(* A handler at work serves an offer somebody made.                        *)
Served == \A h \in Handler : pc[h] # "idle" => job[h] \in Offer /\ made[job[h]] # None

(* Offers are made in order, of codes the operator passed on; a code that  *)
(* was passed on has been stored.                                          *)
Known ==
    /\ \A o \in Offer : o > offers => made[o] = None
    /\ \A o \in Offer : made[o] # None => made[o].code \in told
    /\ \A k \in told : code[k].state \in {"unused", "used", "gone"}

(* A claim under way: the row it holds is unused and its own, and whenever *)
(* the row is unused the account of the claim is active.                   *)
Claiming ==
    \A h \in Handler :
        /\ pc[h] \in {"holding", "waiting"} => code[CodeIn(h)].state = "unused"
        /\ pc[h] \in {"claiming", "holding", "waiting"} /\ code[CodeIn(h)].state = "unused"
           => account[AccountIn(h)] = "active"
        /\ pc[h] \in {"holding", "waiting"} => Claims(CodeIn(h)) = {h}

(* A revocation about to commit has marked every live credential.          *)
Marking ==
    \A a \in Account :
        /\ revoking[a] = "marked" => LiveOf(a) \subseteq marked[a]
        /\ \A o \in marked[a] : cred[o] # None

(* What a handler is about to answer: its own credential or none.          *)
Replies ==
    \A h \in Handler :
        /\ pc[h] # "answering" => reply[h] = Refused
        /\ reply[h] \in Offer => reply[h] = job[h] /\ cred[job[h]] # None

(* An address has room for every answer it may yet be refused.             *)
Serving(d) == {h \in Handler : pc[h] # "idle" /\ made[job[h]].by = d}

Room == \A d \in Device :
    failures[d] + Cardinality(Serving(d)) <= MaxFailures + Cardinality(Handler)

PairingInv ==
    /\ TypeOK
    /\ Served
    /\ Known
    /\ Claiming
    /\ Marking
    /\ Replies
    /\ CodesWorkOnce
    /\ RevokedAccountsAreClosed
    /\ SavedSecretsAreKnown

-----------------------------------------------------------------------------
(* Facts the steps rest on.                                                *)

(* A handler at work knows its offer, the code in it and whose it is.      *)
LEMMA AtWorkFacts ==
    ASSUME PairingInv, NEW h \in Handler, pc[h] # "idle"
    PROVE  /\ job[h] \in Offer
           /\ made[job[h]] \in Offered
           /\ CodeIn(h) \in Code
           /\ AccountIn(h) \in Account
           /\ code[CodeIn(h)].state \in {"unused", "used", "gone"}
<1> USE DEF PairingInv, TypeOK, Served, Known, CodeIn, AccountIn, Offered
<1>1. job[h] \in Offer /\ made[job[h]] \in Offered
  OBVIOUS
<1>2. CodeIn(h) \in Code /\ code[CodeIn(h)].state \in {"unused", "used", "gone"}
  BY <1>1
<1>3. AccountIn(h) \in Account
  BY <1>2
<1> QED
  BY <1>1, <1>2, <1>3

(* What a code's row says of itself.                                       *)
LEMMA CodeFields ==
    ASSUME TypeOK, NEW k \in Code
    PROVE  /\ code[k].state = "unissued" <=> code[k].account = None
           /\ code[k].state = "used" <=> code[k].user # 0
  BY DEF TypeOK

(* Closing credentials marks them and leaves all else in them.             *)
LEMMA ClosedRows ==
    ASSUME TypeOK, NEW dead \in SUBSET Offer, \A o \in dead : cred[o] # None
    PROVE  /\ Closed(dead) \in [Offer -> Redeemed \cup {None}]
           /\ \A o \in Offer :
                /\ cred[o] # None <=> Closed(dead)[o] # None
                /\ cred[o] # None =>
                    /\ Closed(dead)[o].code = cred[o].code
                    /\ Closed(dead)[o].account = cred[o].account
                    /\ Closed(dead)[o].revoked <=> cred[o].revoked \/ o \in dead
<1>0. ASSUME NEW o \in dead
      PROVE  cred[o] \in Redeemed
  BY DEF TypeOK
<1>1. ASSUME NEW o \in dead
      PROVE  /\ [cred[o] EXCEPT !.revoked = TRUE] \in Redeemed
             /\ [cred[o] EXCEPT !.revoked = TRUE] # None
             /\ [cred[o] EXCEPT !.revoked = TRUE].code = cred[o].code
             /\ [cred[o] EXCEPT !.revoked = TRUE].account = cred[o].account
             /\ [cred[o] EXCEPT !.revoked = TRUE].revoked
  BY <1>0, PairingAssumption DEF Redeemed
<1>2. ASSUME NEW o \in Offer \ dead
      PROVE  Closed(dead)[o] = cred[o]
  BY DEF Closed
<1>3. ASSUME NEW o \in dead
      PROVE  Closed(dead)[o] = [cred[o] EXCEPT !.revoked = TRUE]
  BY DEF Closed
<1>4. Closed(dead) \in [Offer -> Redeemed \cup {None}]
  BY <1>1 DEF Closed, TypeOK
<1>5. ASSUME NEW o \in dead
      PROVE  /\ cred[o] # None <=> Closed(dead)[o] # None
             /\ Closed(dead)[o].code = cred[o].code
             /\ Closed(dead)[o].account = cred[o].account
             /\ Closed(dead)[o].revoked
  BY <1>1, <1>3
<1> QED
  BY <1>2, <1>4, <1>5

-----------------------------------------------------------------------------
(* The operator's steps.                                                   *)

(* A new account has no codes and no devices.                              *)
LEMMA AddAccountKeeps ==
    ASSUME PairingInv, NEW a \in Account, AddAccount(a)
    PROVE  PairingInv'
<1> USE DEF PairingInv, data, clients, requests, AddAccount
<1>1. TypeOK'
  BY DEF TypeOK
<1>2. Claiming'
  BY DEF Claiming, Claims, CodeIn, AccountIn
<1>3. RevokedAccountsAreClosed'
  BY DEF RevokedAccountsAreClosed, LiveOf
<1>4. /\ Served'
      /\ Known'
      /\ Marking'
      /\ Replies'
      /\ CodesWorkOnce'
      /\ SavedSecretsAreKnown'
  BY DEF Served, Known, Marking, LiveOf, Replies, CodesWorkOnce,
    SavedSecretsAreKnown
<1> QED
  BY <1>1, <1>2, <1>3, <1>4

(* A code about to be stored is not used and told to nobody.               *)
LEMMA IssueChecksKeeps ==
    ASSUME PairingInv, NEW a \in Account, NEW k \in Code, IssueChecks(a, k)
    PROVE  PairingInv'
<1> USE DEF PairingInv, data, clients, requests, IssueChecks
<1>1. TypeOK'
  BY PairingAssumption DEF TypeOK
<1>2. Known'
  BY DEF Known
<1>3. Claiming'
  BY DEF Claiming, Claims, CodeIn, AccountIn
<1>4. CodesWorkOnce'
  BY DEF CodesWorkOnce
<1>5. /\ Served'
      /\ Marking'
      /\ Replies'
      /\ RevokedAccountsAreClosed'
      /\ SavedSecretsAreKnown'
  BY DEF Served, Marking, LiveOf, Replies, RevokedAccountsAreClosed,
    SavedSecretsAreKnown
<1> QED
  BY <1>1, <1>2, <1>3, <1>4, <1>5

(* A code is told only once it is stored.                                  *)
LEMMA IssueStoresKeeps ==
    ASSUME PairingInv, NEW k \in Code, NEW shown \in BOOLEAN, IssueStores(k, shown)
    PROVE  PairingInv'
<1> USE DEF PairingInv, data, clients, requests, IssueStores
<1>1. TypeOK'
  BY DEF TypeOK
<1>2. Known'
  BY DEF Known, TypeOK
<1>3. Claiming'
  BY DEF Claiming, Claims, CodeIn, AccountIn, Served, Known
<1>4. CodesWorkOnce'
  BY DEF CodesWorkOnce
<1>5. /\ Served'
      /\ Marking'
      /\ Replies'
      /\ RevokedAccountsAreClosed'
      /\ SavedSecretsAreKnown'
  BY DEF Served, Marking, LiveOf, Replies, RevokedAccountsAreClosed,
    SavedSecretsAreKnown
<1> QED
  BY <1>1, <1>2, <1>3, <1>4, <1>5

(* The clock changes no row.                                               *)
LEMMA ExpiresKeeps ==
    ASSUME PairingInv, NEW k \in Code, Expires(k)
    PROVE  PairingInv'
<1> USE DEF PairingInv, data, clients, requests, Expires
<1>1. TypeOK'
  BY DEF TypeOK
<1>2. /\ Served'
      /\ Known'
      /\ Claiming'
      /\ Marking'
      /\ Replies'
      /\ CodesWorkOnce'
      /\ RevokedAccountsAreClosed'
      /\ SavedSecretsAreKnown'
  BY DEF Served, Known, Claiming, Claims, CodeIn, AccountIn, Marking, LiveOf,
    Replies, CodesWorkOnce, RevokedAccountsAreClosed, SavedSecretsAreKnown
<1> QED
  BY <1>1, <1>2

(* Asking for a revocation changes no row.                                 *)
LEMMA RevokeAskedKeeps ==
    ASSUME PairingInv, NEW a \in Account, RevokeAsked(a)
    PROVE  PairingInv'
<1> USE DEF PairingInv, data, clients, requests, RevokeAsked
<1>1. TypeOK'
  BY DEF TypeOK
<1>2. Marking'
  BY DEF Marking, LiveOf
<1>3. /\ Served'
      /\ Known'
      /\ Claiming'
      /\ Replies'
      /\ CodesWorkOnce'
      /\ RevokedAccountsAreClosed'
      /\ SavedSecretsAreKnown'
  BY DEF Served, Known, Claiming, Claims, CodeIn, AccountIn, Replies,
    CodesWorkOnce, RevokedAccountsAreClosed, LiveOf, SavedSecretsAreKnown
<1> QED
  BY <1>1, <1>2, <1>3

(* Taking the account changes no row.                                      *)
LEMMA RevokeLocksKeeps ==
    ASSUME PairingInv, NEW a \in Account, RevokeLocks(a)
    PROVE  PairingInv'
<1> USE DEF PairingInv, data, clients, requests, RevokeLocks
<1>1. TypeOK'
  BY DEF TypeOK
<1>2. Marking'
  BY DEF Marking, LiveOf
<1>3. /\ Served'
      /\ Known'
      /\ Claiming'
      /\ Replies'
      /\ CodesWorkOnce'
      /\ RevokedAccountsAreClosed'
      /\ SavedSecretsAreKnown'
  BY DEF Served, Known, Claiming, Claims, CodeIn, AccountIn, Replies,
    CodesWorkOnce, RevokedAccountsAreClosed, LiveOf, SavedSecretsAreKnown
<1> QED
  BY <1>1, <1>2, <1>3

(* All that are live are marked.                                           *)
LEMMA RevokeMarksKeeps ==
    ASSUME PairingInv, NEW a \in Account, RevokeMarks(a)
    PROVE  PairingInv'
<1> USE DEF PairingInv, data, clients, requests, RevokeMarks, LiveOf
<1>1. TypeOK'
  BY DEF TypeOK
<1>2. Marking'
  BY DEF Marking, LiveOf, TypeOK
<1>3. /\ Served'
      /\ Known'
      /\ Claiming'
      /\ Replies'
      /\ CodesWorkOnce'
      /\ RevokedAccountsAreClosed'
      /\ SavedSecretsAreKnown'
  BY DEF Served, Known, Claiming, Claims, CodeIn, AccountIn, Replies,
    CodesWorkOnce, RevokedAccountsAreClosed, LiveOf, SavedSecretsAreKnown
<1> QED
  BY <1>1, <1>2, <1>3

(* No claim holds a code that goes, and no live device was left unmarked.  *)
LEMMA RevokeCommitsKeeps ==
    ASSUME PairingInv, NEW a \in Account, RevokeCommits(a)
    PROVE  PairingInv'
<1> USE DEF PairingInv, data, clients, requests, RevokeCommits, Emptied,
    UnusedOf
<1>1. /\ cred' \in [Offer -> Redeemed \cup {None}]
      /\ \A o \in Offer :
          /\ cred[o] # None <=> cred'[o] # None
          /\ cred[o] # None =>
              /\ cred'[o].code = cred[o].code
              /\ cred'[o].account = cred[o].account
              /\ cred'[o].revoked <=> cred[o].revoked \/ o \in marked[a]
  BY ClosedRows DEF TypeOK, Marking
<1>2. /\ \A q \in Code : code[q].state = "used" => code'[q] = code[q]
      /\ \A b \in Account : LiveOf(b)' = LiveOf(b) \ marked[a]
  BY <1>1 DEF LiveOf, Redeemed
<1>3. TypeOK'
  BY <1>1, <1>2, PairingAssumption DEF TypeOK
<1>4. Known'
  BY <1>1, <1>2 DEF Known, TypeOK
<1>5. Claiming'
  <2>1. ASSUME NEW h \in Handler
        PROVE  CodeIn(h)' = CodeIn(h) /\ Claims(CodeIn(h))' = Claims(CodeIn(h))
    BY DEF Claims, CodeIn
  <2>2. ASSUME NEW h \in Handler, pc[h] \in {"claiming", "holding", "waiting"},
               code'[CodeIn(h)].state = "unused"
        PROVE  /\ code[CodeIn(h)].state = "unused"
               /\ AccountIn(h)' = AccountIn(h)
               /\ AccountIn(h) # a /\ AccountIn(h) \in Account
    <3>1. CodeIn(h) \in Code /\ AccountIn(h) \in Account
      BY <2>2, AtWorkFacts
    <3>2. CodeIn(h) \notin UnusedOf(a)
      BY <2>2, <3>1 DEF TypeOK
    <3> QED
      BY <2>1, <2>2, <3>1, <3>2 DEF AccountIn
  <2>3. ASSUME NEW h \in Handler, pc[h] \in {"holding", "waiting"}
        PROVE  code'[CodeIn(h)].state = "unused"
    <3>1. CodeIn(h) \in Code
      BY <2>3, AtWorkFacts
    <3>2. CodeIn(h) \notin UnusedOf(a)
      BY <2>3, <3>1 DEF Claims
    <3> QED
      BY <2>3, <3>1, <3>2 DEF Claiming
  <2>4. pc' = pc /\ \A b \in Account : b # a => account'[b] = account[b]
    BY DEF TypeOK
  <2> HIDE DEF PairingInv, Emptied, UnusedOf, RevokeCommits
  <2> QED
    BY <2>1, <2>2, <2>3, <2>4 DEF Claiming, PairingInv
<1>6. Marking'
  BY <1>1, <1>2 DEF Marking, LiveOf, TypeOK
<1>7. Replies'
  BY <1>1, <1>2 DEF Replies
<1>8. CodesWorkOnce'
  <2> SUFFICES ASSUME NEW o \in Offer, cred'[o] # None
               PROVE  code'[cred'[o].code].state = "used" /\ code'[cred'[o].code].user = o
    BY DEF CodesWorkOnce
  <2>1. cred[o] \in Redeemed /\ cred'[o].code = cred[o].code
    BY <1>1 DEF TypeOK
  <2>2. cred[o].code \in Code /\ code[cred[o].code].state = "used" /\ code[cred[o].code].user = o
    BY <1>1, <2>1 DEF CodesWorkOnce, Redeemed
  <2> QED
    BY <1>2, <2>1, <2>2
<1>9. RevokedAccountsAreClosed'
  <2>1. LiveOf(a)' = {}
    BY <1>2 DEF Marking
  <2>2. ASSUME NEW b \in Account, b # a, account'[b] = "revoked"
        PROVE  LiveOf(b)' = {}
    BY <1>2, <2>2 DEF RevokedAccountsAreClosed
  <2> QED
    BY <2>1, <2>2 DEF RevokedAccountsAreClosed
<1>10. SavedSecretsAreKnown'
  BY <1>1, <1>2 DEF SavedSecretsAreKnown, TypeOK, Paired
<1>11. /\ Served'
  BY DEF Served
<1> QED
  BY <1>3, <1>4, <1>5, <1>6, <1>7, <1>8, <1>9, <1>10, <1>11

(* A revocation rolled back leaves no mark.                                *)
LEMMA RevokeAbortsKeeps ==
    ASSUME PairingInv, NEW a \in Account, RevokeAborts(a)
    PROVE  PairingInv'
<1> USE DEF PairingInv, data, clients, requests, RevokeAborts
<1>1. TypeOK'
  BY DEF TypeOK
<1>2. Marking'
  BY DEF Marking, LiveOf, TypeOK
<1>3. /\ Served'
      /\ Known'
      /\ Claiming'
      /\ Replies'
      /\ CodesWorkOnce'
      /\ RevokedAccountsAreClosed'
      /\ SavedSecretsAreKnown'
  BY DEF Served, Known, Claiming, Claims, CodeIn, AccountIn, Replies,
    CodesWorkOnce, RevokedAccountsAreClosed, LiveOf, SavedSecretsAreKnown
<1> QED
  BY <1>1, <1>2, <1>3

(* Closing a device leaves the code it used as it was.                     *)
LEMMA RevokeDeviceKeeps ==
    ASSUME PairingInv, NEW a \in Account, NEW d \in Device, RevokeDevice(a, d)
    PROVE  PairingInv'
<1> USE DEF PairingInv, data, clients, requests, RevokeDevice
<1>1. PICK dead \in SUBSET Offer :
        (\A o \in dead : cred[o] # None) /\ cred' = Closed(dead)
  BY DEF LiveOf
<1>2. /\ cred' \in [Offer -> Redeemed \cup {None}]
      /\ \A o \in Offer :
          /\ cred[o] # None <=> cred'[o] # None
          /\ cred[o] # None =>
              /\ cred'[o].code = cred[o].code
              /\ cred'[o].account = cred[o].account
              /\ cred'[o].revoked <=> cred[o].revoked \/ o \in dead
  <2>1. TypeOK
    OBVIOUS
  <2> QED
    BY ONLY <1>1, <2>1, ClosedRows
<1>3. \A b \in Account : LiveOf(b)' = LiveOf(b) \ dead
  BY <1>1, <1>2 DEF LiveOf, Redeemed
<1>4. TypeOK'
  BY <1>1, <1>2, <1>3 DEF TypeOK
<1>5. Marking'
  BY <1>1, <1>2, <1>3 DEF Marking, LiveOf, TypeOK
<1>6. Replies'
  BY <1>1, <1>2, <1>3 DEF Replies
<1>7. CodesWorkOnce'
  BY <1>2 DEF CodesWorkOnce
<1>8. RevokedAccountsAreClosed'
  BY <1>1, <1>2, <1>3 DEF RevokedAccountsAreClosed, LiveOf
<1>9. SavedSecretsAreKnown'
  BY <1>2 DEF SavedSecretsAreKnown, TypeOK, Paired
<1>10. /\ Served'
       /\ Known'
       /\ Claiming'
  BY DEF Served, Known, Claiming, Claims, CodeIn, AccountIn
<1> QED
  BY <1>4, <1>5, <1>6, <1>7, <1>8, <1>9, <1>10

-----------------------------------------------------------------------------
(* The clients' steps.                                                     *)

(* An offer is new, and of a code that was told.                           *)
LEMMA MakeOfferKeeps ==
    ASSUME PairingInv, NEW d \in Device, NEW k \in Code, NEW h \in Handler, MakeOffer(d, k, h)
    PROVE  PairingInv'
<1> USE DEF PairingInv, data, clients, requests, MakeOffer, Arrive
<1>1. /\ offers + 1 \in Offer
      /\ made[offers + 1] = None
      /\ [by |-> d, code |-> k] \in Offered
  BY PairingAssumption DEF TypeOK, Known, Offer, Offered
<1>2. /\ made' \in [Offer -> Offered \cup {None}]
      /\ made'[offers + 1] = [by |-> d, code |-> k]
      /\ \A o \in Offer \ {offers + 1} : made'[o] = made[o]
  BY <1>1 DEF TypeOK
<1>3. TypeOK'
  BY <1>1, <1>2, PairingAssumption DEF TypeOK
<1>4. Served'
  BY <1>1, <1>2, PairingAssumption DEF Served, TypeOK
<1>5. Known'
  <2>1. ASSUME NEW o \in Offer, o > offers'
        PROVE  made'[o] = None
    <3>1. o > offers /\ o # offers + 1
      BY <2>1 DEF TypeOK, Offer
    <3> QED
      BY <1>2, <3>1 DEF Known
  <2>2. ASSUME NEW o \in Offer, made'[o] # None
        PROVE  made'[o].code \in told'
    BY <1>2, <2>2 DEF Known
  <2> QED
    BY <2>1, <2>2 DEF Known
<1>6. Claiming'
  BY <1>1, <1>2 DEF Claiming, Claims, CodeIn, AccountIn, Served
<1>7. Replies'
  BY <1>1, <1>2 DEF Replies, Offer, Refused
<1>8. /\ Marking'
      /\ CodesWorkOnce'
      /\ RevokedAccountsAreClosed'
      /\ SavedSecretsAreKnown'
  BY DEF Marking, LiveOf, CodesWorkOnce, RevokedAccountsAreClosed,
    SavedSecretsAreKnown
<1> QED
  BY <1>3, <1>4, <1>5, <1>6, <1>7, <1>8

(* An offer sent again is one that was made.                               *)
LEMMA ResendKeeps ==
    ASSUME PairingInv, NEW o \in Offer, NEW h \in Handler, Resend(o, h)
    PROVE  PairingInv'
<1> USE DEF PairingInv, data, clients, requests, Resend, Arrive
<1>1. TypeOK'
  BY DEF TypeOK
<1>2. Served'
  BY DEF Served, TypeOK
<1>3. Known'
  BY DEF Known
<1>4. Claiming'
  BY DEF Claiming, Claims, CodeIn, AccountIn
<1>5. Replies'
  BY DEF Replies, Offer, Refused
<1>6. /\ Marking'
      /\ CodesWorkOnce'
      /\ RevokedAccountsAreClosed'
      /\ SavedSecretsAreKnown'
  BY DEF Marking, LiveOf, CodesWorkOnce, RevokedAccountsAreClosed,
    SavedSecretsAreKnown
<1> QED
  BY <1>1, <1>2, <1>3, <1>4, <1>5, <1>6

(* A client that gives up changes nothing on the host.                     *)
LEMMA GiveUpKeeps ==
    ASSUME PairingInv, NEW d \in Device, GiveUp(d)
    PROVE  PairingInv'
<1> USE DEF PairingInv, data, clients, requests, GiveUp
<1>1. TypeOK'
  BY DEF TypeOK
<1>2. /\ Served'
      /\ Known'
      /\ Claiming'
      /\ Marking'
      /\ Replies'
      /\ CodesWorkOnce'
      /\ RevokedAccountsAreClosed'
      /\ SavedSecretsAreKnown'
  BY DEF Served, Known, Claiming, Claims, CodeIn, AccountIn, Marking, LiveOf,
    Replies, CodesWorkOnce, RevokedAccountsAreClosed, SavedSecretsAreKnown
<1> QED
  BY <1>1, <1>2

(* A bearer is only counted.                                               *)
LEMMA CallKeeps ==
    ASSUME PairingInv, NEW d \in Device, Call(d)
    PROVE  PairingInv'
<1> USE DEF PairingInv, data, clients, requests, Call
<1>1. TypeOK'
  BY DEF TypeOK
<1>2. /\ Served'
      /\ Known'
      /\ Claiming'
      /\ Marking'
      /\ Replies'
      /\ CodesWorkOnce'
      /\ RevokedAccountsAreClosed'
      /\ SavedSecretsAreKnown'
  BY DEF Served, Known, Claiming, Claims, CodeIn, AccountIn, Marking, LiveOf,
    Replies, CodesWorkOnce, RevokedAccountsAreClosed, SavedSecretsAreKnown
<1> QED
  BY <1>1, <1>2

(* The end of a window changes no row.                                     *)
LEMMA WindowEndsKeeps ==
    ASSUME PairingInv, NEW d \in Device, WindowEnds(d)
    PROVE  PairingInv'
<1> USE DEF PairingInv, data, clients, requests, WindowEnds
<1>1. TypeOK'
  BY DEF TypeOK
<1>2. /\ Served'
      /\ Known'
      /\ Claiming'
      /\ Marking'
      /\ Replies'
      /\ CodesWorkOnce'
      /\ RevokedAccountsAreClosed'
      /\ SavedSecretsAreKnown'
  BY DEF Served, Known, Claiming, Claims, CodeIn, AccountIn, Marking, LiveOf,
    Replies, CodesWorkOnce, RevokedAccountsAreClosed, SavedSecretsAreKnown
<1> QED
  BY <1>1, <1>2

-----------------------------------------------------------------------------
(* The handler's steps.                                                    *)

(* Reading the candidates changes no row.                                  *)
LEMMA ClassifyKeeps ==
    ASSUME PairingInv, NEW h \in Handler, Classify(h)
    PROVE  PairingInv'
<1> USE DEF PairingInv, data, clients, requests, Classify, Goto, Reply
<1>1. TypeOK'
  BY DEF TypeOK
<1>2. Served'
  BY DEF Served, TypeOK
<1>3. Claiming'
  BY DEF Claiming, Claims, CodeIn, AccountIn, TypeOK
<1>4. Replies'
  BY DEF Replies, TypeOK
<1>5. /\ Known'
      /\ Marking'
      /\ CodesWorkOnce'
      /\ RevokedAccountsAreClosed'
      /\ SavedSecretsAreKnown'
  BY DEF Known, Marking, LiveOf, CodesWorkOnce, RevokedAccountsAreClosed,
    SavedSecretsAreKnown
<1> QED
  BY <1>1, <1>2, <1>3, <1>4, <1>5

(* A replay answers the request's own credential, and a claim begins on an *)
(* active account.                                                         *)
LEMMA BeginKeeps ==
    ASSUME PairingInv, NEW h \in Handler, Begin(h)
    PROVE  PairingInv'
<1> USE DEF PairingInv, data, clients, requests, CodeIn, AccountIn
<1>0. CodeIn(h) \in Code /\ job[h] \in Offer
  BY AtWorkFacts DEF Begin
<1>1. UNCHANGED <<data, clients, failures, job, inTime, revoking, marked>> /\ pc[h] = "matched"
  BY DEF Begin
<1>2. CASE Redeemable(h)
  <2>1. pc' = [pc EXCEPT ![h] = "claiming"] /\ reply' = reply
    BY <1>2 DEF Begin, Goto
  <2>2. account[AccountIn(h)] = "active"
    BY <1>2 DEF Redeemable
  <2> HIDE DEF CodeIn, AccountIn
  <2>3. TypeOK'
    BY <1>1, <2>1 DEF TypeOK
  <2>4. Served' /\ Replies'
    BY <1>1, <2>1 DEF Served, Replies, TypeOK
  <2>5. \A g \in Handler : CodeIn(g)' = CodeIn(g) /\ AccountIn(g)' = AccountIn(g)
    BY <1>1 DEF CodeIn, AccountIn
  <2>6. \A k \in Code : Claims(k)' = Claims(k)
    BY <1>1, <2>1, <2>5 DEF Claims, TypeOK
  <2>7. Claiming'
    <3>1. ASSUME NEW g \in Handler, g # h
          PROVE  pc'[g] = pc[g] /\ (pc[g] \in {"holding", "waiting"} => CodeIn(g) \in Code)
      BY <2>1, <3>1, AtWorkFacts DEF TypeOK
    <3>2. pc'[h] = "claiming"
      BY <2>1 DEF TypeOK
    <3> QED
      BY <1>1, <2>2, <2>5, <2>6, <3>1, <3>2 DEF Claiming
  <2>8. Known' /\ Marking' /\ CodesWorkOnce' /\ RevokedAccountsAreClosed' /\ SavedSecretsAreKnown'
    BY <1>1 DEF Known, Marking, LiveOf, CodesWorkOnce, RevokedAccountsAreClosed,
      SavedSecretsAreKnown
  <2> QED
    BY <2>3, <2>4, <2>7, <2>8
<1>3. CASE ~Redeemable(h)
  <2> DEFINE answer == IF Replayable(h) THEN code[CodeIn(h)].user ELSE Refused
  <2>1. pc' = [pc EXCEPT ![h] = "answering"] /\ reply' = [reply EXCEPT ![h] = answer]
    BY <1>3 DEF Begin, Goto, Reply
  <2> HIDE DEF CodeIn, AccountIn
  <2>2. answer = Refused \/ (answer = job[h] /\ cred[job[h]] # None)
    BY DEF Replayable, Active
  <2> HIDE DEF answer
  <2>a. answer \in {Refused, Unavailable} \cup Offer
    BY <1>0, <2>2
  <2>3. TypeOK'
    BY <1>1, <2>1, <2>a DEF TypeOK
  <2>4. Served' /\ Replies'
    <3>1. Served'
      BY <1>1, <2>1 DEF Served, TypeOK
    <3>2. Refused \notin Offer
      BY DEF Refused, Offer
    <3> QED
      BY <1>1, <2>1, <2>2, <3>1, <3>2 DEF Replies, TypeOK
  <2>5. \A g \in Handler : CodeIn(g)' = CodeIn(g) /\ AccountIn(g)' = AccountIn(g)
    BY <1>1 DEF CodeIn, AccountIn
  <2>6. \A k \in Code : Claims(k)' = Claims(k)
    BY <1>1, <2>1, <2>5 DEF Claims, TypeOK
  <2>7. Claiming'
    <3>1. ASSUME NEW g \in Handler, g # h
          PROVE  pc'[g] = pc[g] /\ (pc[g] \in {"holding", "waiting"} => CodeIn(g) \in Code)
      BY <2>1, <3>1, AtWorkFacts DEF TypeOK
    <3>2. pc'[h] = "answering"
      BY <2>1 DEF TypeOK
    <3> QED
      BY <1>1, <2>5, <2>6, <3>1, <3>2 DEF Claiming
  <2>8. Known' /\ Marking' /\ CodesWorkOnce' /\ RevokedAccountsAreClosed' /\ SavedSecretsAreKnown'
    BY <1>1 DEF Known, Marking, LiveOf, CodesWorkOnce, RevokedAccountsAreClosed,
      SavedSecretsAreKnown
  <2> QED
    BY <2>3, <2>4, <2>7, <2>8
<1> QED
  BY <1>2, <1>3

(* The row is taken unused, by one claim.                                  *)
LEMMA TakeRowKeeps ==
    ASSUME PairingInv, NEW h \in Handler, TakeRow(h)
    PROVE  PairingInv'
<1> USE DEF PairingInv, data, clients, requests, TakeRow, Goto, Reply,
    StillUnused
<1>1. TypeOK'
  BY DEF TypeOK
<1>2. Served'
  BY DEF Served, TypeOK
<1>3. Claiming'
  BY DEF Claiming, Claims, CodeIn, AccountIn, TypeOK
<1>4. Replies'
  BY DEF Replies, TypeOK
<1>5. /\ Known'
      /\ Marking'
      /\ CodesWorkOnce'
      /\ RevokedAccountsAreClosed'
      /\ SavedSecretsAreKnown'
  BY DEF Known, Marking, LiveOf, CodesWorkOnce, RevokedAccountsAreClosed,
    SavedSecretsAreKnown
<1> QED
  BY <1>1, <1>2, <1>3, <1>4, <1>5

(* Waiting for the account keeps the row.                                  *)
LEMMA QueueKeeps ==
    ASSUME PairingInv, NEW h \in Handler, Queue(h)
    PROVE  PairingInv'
<1> USE DEF PairingInv, data, clients, requests, Queue, Goto
<1>1. TypeOK'
  BY DEF TypeOK
<1>2. Served'
  BY DEF Served
<1>3. Claiming'
  BY DEF Claiming, Claims, CodeIn, AccountIn
<1>4. Replies'
  BY DEF Replies
<1>5. /\ Known'
      /\ Marking'
      /\ CodesWorkOnce'
      /\ RevokedAccountsAreClosed'
      /\ SavedSecretsAreKnown'
  BY DEF Known, Marking, LiveOf, CodesWorkOnce, RevokedAccountsAreClosed,
    SavedSecretsAreKnown
<1> QED
  BY <1>1, <1>2, <1>3, <1>4, <1>5

(* The code becomes the credential's, of an account no revocation holds.   *)
LEMMA ClaimCommitsKeeps ==
    ASSUME PairingInv, NEW h \in Handler, ClaimCommits(h)
    PROVE  PairingInv'
<1> USE DEF PairingInv, data, clients, requests, ClaimCommits, Goto, Reply,
    KeyShareFree
<1>1. /\ job[h] \in Offer
      /\ made[job[h]] \in Offered
      /\ CodeIn(h) \in Code
      /\ AccountIn(h) \in Account
  BY AtWorkFacts
<1>2. /\ [code |-> CodeIn(h), account |-> AccountIn(h), revoked |-> FALSE] \in Redeemed
      /\ [code |-> CodeIn(h), account |-> AccountIn(h), revoked |-> FALSE] # None
  <2>1. [code |-> CodeIn(h), account |-> AccountIn(h), revoked |-> FALSE] \in Redeemed
    BY <1>1 DEF Redeemed
  <2> QED
    BY <2>1, PairingAssumption
<1>3. code[CodeIn(h)].state = "unused" /\ account[AccountIn(h)] = "active"
  BY DEF Claiming
<1>4. /\ cred' \in [Offer -> Redeemed \cup {None}]
      /\ cred'[job[h]] = [code |-> CodeIn(h), account |-> AccountIn(h), revoked |-> FALSE]
      /\ cred'[job[h]] # None
      /\ \A o \in Offer : o # job[h] => cred'[o] = cred[o]
  BY <1>1, <1>2 DEF TypeOK
<1>5. /\ code'[CodeIn(h)].state = "used" /\ code'[CodeIn(h)].user = job[h]
      /\ \A k \in Code : code'[k].account = code[k].account
      /\ \A k \in Code \ {CodeIn(h)} : code'[k] = code[k]
  BY <1>1 DEF TypeOK, AccountIn
<1>6. TypeOK'
  <2>1. code' \in [Code -> [state : {"unissued", "checked", "unused", "used", "gone"},
                           account : Account \cup {None}, user : {0} \cup Offer]]
    BY <1>1, <1>5 DEF TypeOK
  <2>2. ASSUME NEW k \in Code
        PROVE  /\ code'[k].state = "unissued" <=> code'[k].account = None
               /\ code'[k].state = "used" <=> code'[k].user # 0
    <3>1. CASE k = CodeIn(h)
      BY <1>1, <1>5, <3>1, PairingAssumption DEF AccountIn, Offer
    <3>2. CASE k # CodeIn(h)
      BY <1>5, <3>2, CodeFields
    <3> QED
      BY <3>1, <3>2
  <2> QED
    BY <1>1, <1>4, <2>1, <2>2 DEF TypeOK
<1>7. Served'
  BY <1>1, <1>2, <1>3, <1>4, <1>5 DEF Served
<1>8. Known'
  BY <1>1, <1>2, <1>3, <1>4, <1>5 DEF Known
<1>9. Claiming'
  <2>1. ASSUME NEW g \in Handler, pc'[g] \in {"claiming", "holding", "waiting"}
        PROVE  /\ g # h /\ pc'[g] = pc[g]
               /\ CodeIn(g)' = CodeIn(g) /\ CodeIn(g) \in Code
               /\ AccountIn(g)' = AccountIn(g)
    BY <1>5, <2>1, AtWorkFacts DEF TypeOK, CodeIn, AccountIn
  <2>2. ASSUME NEW g \in Handler, pc'[g] \in {"holding", "waiting"}
        PROVE  CodeIn(g) # CodeIn(h)
    BY <2>1, <2>2 DEF Claiming, Claims
  <2>3. ASSUME NEW g \in Handler, pc'[g] \in {"holding", "waiting"}
        PROVE  /\ code'[CodeIn(g)].state = "unused"
               /\ Claims(CodeIn(g))' = {g}
    <3>1. Claims(CodeIn(g)) = {g} /\ code[CodeIn(g)].state = "unused"
      BY <2>1, <2>3 DEF Claiming
    <3>2. Claims(CodeIn(g))' \subseteq Claims(CodeIn(g))
      BY <2>1, <2>3 DEF Claims
    <3>3. g \in Claims(CodeIn(g))'
      BY <2>1, <2>3 DEF Claims
    <3> QED
      BY <1>5, <2>1, <2>2, <2>3, <3>1, <3>2, <3>3
  <2>4. ASSUME NEW g \in Handler, pc'[g] \in {"claiming", "holding", "waiting"},
               code'[CodeIn(g)].state = "unused"
        PROVE  account[AccountIn(g)] = "active"
    <3>1. code[CodeIn(g)].state = "unused"
      BY <1>5, <2>1, <2>4
    <3> QED
      BY <2>1, <2>4, <3>1 DEF Claiming
  <2> QED
    BY <2>1, <2>3, <2>4 DEF Claiming
<1>10. Marking'
  BY <1>1, <1>2, <1>3, <1>4, <1>5 DEF Marking, LiveOf
<1>11. Replies'
  BY <1>1, <1>2, <1>3, <1>4, <1>5 DEF Replies, TypeOK
<1>12. CodesWorkOnce'
  BY <1>2, <1>3, <1>4, <1>5 DEF CodesWorkOnce, Redeemed
<1>13. RevokedAccountsAreClosed'
  BY <1>1, <1>2, <1>3, <1>4, <1>5 DEF RevokedAccountsAreClosed, LiveOf
<1>14. SavedSecretsAreKnown'
  BY <1>1, <1>2, <1>3, <1>4, <1>5 DEF SavedSecretsAreKnown
<1> QED
  BY <1>6, <1>7, <1>8, <1>9, <1>10, <1>11, <1>12, <1>13, <1>14

(* A claim rolled back leaves the code unused.                             *)
LEMMA ClaimAbortsKeeps ==
    ASSUME PairingInv, NEW h \in Handler, ClaimAborts(h)
    PROVE  PairingInv'
<1> USE DEF PairingInv, data, clients, requests, ClaimAborts, Goto, Reply,
    Deadlocked
<1>1. TypeOK'
  BY DEF TypeOK
<1>2. Served'
  BY DEF Served
<1>3. Claiming'
  BY DEF Claiming, Claims, CodeIn, AccountIn
<1>4. Replies'
  BY DEF Replies, TypeOK, Offer, Unavailable
<1>5. /\ Known'
      /\ Marking'
      /\ CodesWorkOnce'
      /\ RevokedAccountsAreClosed'
      /\ SavedSecretsAreKnown'
  BY DEF Known, Marking, LiveOf, CodesWorkOnce, RevokedAccountsAreClosed,
    SavedSecretsAreKnown
<1> QED
  BY <1>1, <1>2, <1>3, <1>4, <1>5

(* A query that fails leaves what was committed.                           *)
LEMMA QueryFailsKeeps ==
    ASSUME PairingInv, NEW h \in Handler, QueryFails(h)
    PROVE  PairingInv'
<1> USE DEF PairingInv, data, clients, requests, QueryFails, Goto, Reply
<1>1. TypeOK'
  BY DEF TypeOK
<1>2. Served'
  BY DEF Served
<1>3. Claiming'
  BY DEF Claiming, Claims, CodeIn, AccountIn
<1>4. Replies'
  BY DEF Replies, TypeOK, Offer, Unavailable
<1>5. /\ Known'
      /\ Marking'
      /\ CodesWorkOnce'
      /\ RevokedAccountsAreClosed'
      /\ SavedSecretsAreKnown'
  BY DEF Known, Marking, LiveOf, CodesWorkOnce, RevokedAccountsAreClosed,
    SavedSecretsAreKnown
<1> QED
  BY <1>1, <1>2, <1>3, <1>4, <1>5

(* A device stores the credential made for the secret it sent.             *)
LEMMA AnswerKeeps ==
    ASSUME PairingInv, NEW h \in Handler, Answer(h)
    PROVE  PairingInv'
<1> USE DEF PairingInv, data, clients, requests, Answer, Goto, Settled
<1>1. /\ job[h] \in Offer
      /\ made[job[h]] \in Offered
      /\ CodeIn(h) \in Code
      /\ AccountIn(h) \in Account
  BY AtWorkFacts
<1>2. reply[h] \in Offer =>
        reply[h] = job[h] /\ cred[job[h]] # None
  BY DEF Replies
<1>3. reply[h] \in Offer =>
        [credential |-> reply[h], secret |-> job[h]] \in Paired
  BY <1>1 DEF Paired
<1>4. TypeOK'
  <2>1. failures' \in [Device -> Nat]
    BY <1>1 DEF TypeOK, Offered
  <2>2. saved' \in [Device -> Paired \cup {None}]
    BY <1>1, <1>3 DEF TypeOK
  <2> QED
    BY <2>1, <2>2 DEF TypeOK
<1>5. Served'
  BY <1>1, <1>2, <1>3 DEF Served, TypeOK
<1>6. Claiming'
  BY <1>1, <1>2, <1>3 DEF Claiming, Claims, CodeIn, AccountIn
<1>7. Replies'
  BY <1>1, <1>2, <1>3 DEF Replies, TypeOK, Offer, Refused
<1>8. SavedSecretsAreKnown'
  BY <1>1, <1>2, <1>3 DEF SavedSecretsAreKnown, TypeOK
<1>9. /\ Known'
      /\ Marking'
      /\ CodesWorkOnce'
      /\ RevokedAccountsAreClosed'
  BY DEF Known, Marking, LiveOf, CodesWorkOnce, RevokedAccountsAreClosed
<1> QED
  BY <1>4, <1>5, <1>6, <1>7, <1>8, <1>9

-----------------------------------------------------------------------------
(* The invariant holds, and the properties with it.                        *)

(* The invariant holds of a new database.                                  *)
LEMMA PairingStarts == Init => PairingInv
<1> SUFFICES ASSUME Init PROVE PairingInv
  OBVIOUS
<1>1. TypeOK
  BY PairingAssumption DEF Init, TypeOK
<1>2. Served /\ Known /\ Claiming /\ Marking /\ Replies
  BY <1>1 DEF Init, Served, Known, Claiming, Claims, Marking, LiveOf, Replies, Refused, Offer
<1>3. CodesWorkOnce /\ RevokedAccountsAreClosed /\ SavedSecretsAreKnown
  BY DEF Init, CodesWorkOnce, RevokedAccountsAreClosed, LiveOf, SavedSecretsAreKnown
<1> QED
  BY <1>1, <1>2, <1>3 DEF PairingInv

(* A step that changes nothing keeps it.                                   *)
LEMMA PairingStutters ==
    ASSUME PairingInv, UNCHANGED vars
    PROVE  PairingInv'
  BY DEF vars, data, clients, requests, PairingInv, TypeOK, Served, Known, Claiming,
    Claims, CodeIn, AccountIn, Marking, LiveOf, Replies, CodesWorkOnce,
    RevokedAccountsAreClosed, SavedSecretsAreKnown

(* Every step keeps it.                                                    *)
LEMMA PairingKeeps == PairingInv /\ [Next]_vars => PairingInv'
<1> SUFFICES ASSUME PairingInv, Next PROVE PairingInv'
  BY PairingStutters
<1>1. ASSUME NEW a \in Account, AddAccount(a) PROVE PairingInv'
  BY <1>1, AddAccountKeeps
<1>2. ASSUME NEW a \in Account, NEW k \in Code, IssueChecks(a, k) PROVE PairingInv'
  BY <1>2, IssueChecksKeeps
<1>3. ASSUME NEW k \in Code, NEW shown \in BOOLEAN, IssueStores(k, shown) PROVE PairingInv'
  BY <1>3, IssueStoresKeeps
<1>4. ASSUME NEW k \in Code, Expires(k) PROVE PairingInv'
  BY <1>4, ExpiresKeeps
<1>5. ASSUME NEW a \in Account, RevokeAsked(a) PROVE PairingInv'
  BY <1>5, RevokeAskedKeeps
<1>6. ASSUME NEW a \in Account, RevokeLocks(a) PROVE PairingInv'
  BY <1>6, RevokeLocksKeeps
<1>7. ASSUME NEW a \in Account, RevokeMarks(a) PROVE PairingInv'
  BY <1>7, RevokeMarksKeeps
<1>8. ASSUME NEW a \in Account, RevokeCommits(a) PROVE PairingInv'
  BY <1>8, RevokeCommitsKeeps
<1>9. ASSUME NEW a \in Account, RevokeAborts(a) PROVE PairingInv'
  BY <1>9, RevokeAbortsKeeps
<1>10. ASSUME NEW a \in Account, NEW d \in Device, RevokeDevice(a, d) PROVE PairingInv'
  BY <1>10, RevokeDeviceKeeps
<1>11. ASSUME NEW d \in Device, NEW k \in Code, NEW h \in Handler, MakeOffer(d, k, h)
       PROVE  PairingInv'
  BY <1>11, MakeOfferKeeps
<1>12. ASSUME NEW o \in Offer, NEW h \in Handler, Resend(o, h) PROVE PairingInv'
  BY <1>12, ResendKeeps
<1>13. ASSUME NEW d \in Device, GiveUp(d) PROVE PairingInv'
  BY <1>13, GiveUpKeeps
<1>14. ASSUME NEW d \in Device, Call(d) PROVE PairingInv'
  BY <1>14, CallKeeps
<1>15. ASSUME NEW d \in Device, WindowEnds(d) PROVE PairingInv'
  BY <1>15, WindowEndsKeeps
<1>16. ASSUME NEW h \in Handler, Classify(h) PROVE PairingInv'
  BY <1>16, ClassifyKeeps
<1>17. ASSUME NEW h \in Handler, Begin(h) PROVE PairingInv'
  BY <1>17, BeginKeeps
<1>18. ASSUME NEW h \in Handler, TakeRow(h) PROVE PairingInv'
  BY <1>18, TakeRowKeeps
<1>19. ASSUME NEW h \in Handler, Queue(h) PROVE PairingInv'
  BY <1>19, QueueKeeps
<1>20. ASSUME NEW h \in Handler, ClaimCommits(h) PROVE PairingInv'
  BY <1>20, ClaimCommitsKeeps
<1>21. ASSUME NEW h \in Handler, ClaimAborts(h) PROVE PairingInv'
  BY <1>21, ClaimAbortsKeeps
<1>22. ASSUME NEW h \in Handler, QueryFails(h) PROVE PairingInv'
  BY <1>22, QueryFailsKeeps
<1>23. ASSUME NEW h \in Handler, Answer(h) PROVE PairingInv'
  BY <1>23, AnswerKeeps
<1> QED
  BY <1>1, <1>2, <1>3, <1>4, <1>5, <1>6, <1>7, <1>8, <1>9, <1>10, <1>11, <1>12,
    <1>13, <1>14, <1>15, <1>16, <1>17, <1>18, <1>19, <1>20, <1>21, <1>22, <1>23
    DEF Next, Operate, Revoke, Serve

(* Type correctness.                                                       *)
THEOREM PairingTypes == Spec => []TypeOK
<1>1. PairingInv => TypeOK
  BY DEF PairingInv
<1> QED
  BY <1>1, PairingStarts, PairingKeeps, PTL DEF Spec

(* A code makes one credential, whoever races for it: CLAIM_SQL takes the  *)
(* row, judges it again once it is free, and writes it and the credential  *)
(* together.                                                               *)
THEOREM OneCredentialPerCode == Spec => []CodesWorkOnce
<1>1. PairingInv => CodesWorkOnce
  BY DEF PairingInv
<1> QED
  BY <1>1, PairingStarts, PairingKeeps, PTL DEF Spec

(* revoke_account leaves no credential of the account live, although it    *)
(* lists them before it waits for the codes being claimed.                 *)
THEOREM RevokedIsClosed == Spec => []RevokedAccountsAreClosed
<1>1. PairingInv => RevokedAccountsAreClosed
  BY DEF PairingInv
<1> QED
  BY <1>1, PairingStarts, PairingKeeps, PTL DEF Spec

(* A device keeps a credential only with the secret it was made for, the   *)
(* answer to a repeated request included.                                  *)
THEOREM SecretsMatch == Spec => []SavedSecretsAreKnown
<1>1. PairingInv => SavedSecretsAreKnown
  BY DEF PairingInv
<1> QED
  BY <1>1, PairingStarts, PairingKeeps, PTL DEF Spec

-----------------------------------------------------------------------------
(* The brake.                                                              *)

(* Who is at work for an address changes with the handler that comes and   *)
(* goes, and with nothing else.                                            *)
LEMMA AtWorkIsFinite ==
    ASSUME NEW d \in Device
    PROVE  /\ IsFiniteSet(Serving(d)) /\ Cardinality(Serving(d)) \in Nat
           /\ Cardinality(Serving(d)) <= Cardinality(Handler)
           /\ Cardinality(Handler) \in Nat
<1>1. Serving(d) \subseteq Handler
  BY DEF Serving
<1> QED
  BY <1>1, PairingAssumption, FS_Subset, FS_CardinalityType

(* Nobody has failed and nothing is being served.                          *)
LEMMA RoomStarts == Init => Room
  BY AtWorkIsFinite, PairingAssumption DEF Init, Room

(* The brake lets a request in only while its address has room for one.    *)
LEMMA ArrivalsHaveRoom ==
    ASSUME PairingInv, Room, NEW d \in Device, NEW e \in Device, NEW h \in Handler,
           NEW o \in Offer, Arrive(e, h, o), made'[o].by = e,
           \A p \in Offer : made[p] # None => made'[p] = made[p]
    PROVE  failures'[d] + Cardinality(Serving(d)') <= MaxFailures + Cardinality(Handler)
<1>0. /\ failures[d] + Cardinality(Serving(d)) <= MaxFailures + Cardinality(Handler)
      /\ failures' = failures /\ failures[d] \in Nat /\ MaxFailures \in Nat
  BY PairingAssumption DEF Room, PairingInv, TypeOK, Arrive
<1>1. CASE e = d
  <2>1. failures[d] < MaxFailures
    BY <1>0, <1>1 DEF Arrive, Braked
  <2>2. Serving(d)' \subseteq Handler
    BY DEF Serving
  <2>3. /\ Cardinality(Serving(d)') \in Nat /\ Cardinality(Handler) \in Nat
        /\ Cardinality(Serving(d)') <= Cardinality(Handler)
    BY <2>2, PairingAssumption, FS_Subset, FS_CardinalityType
  <2> QED
    BY <1>0, <2>1, <2>3
<1>2. CASE e # d
  <2>1. ASSUME NEW g \in Handler, g # h
        PROVE  pc'[g] # "idle" /\ made'[job'[g]].by = d <=> pc[g] # "idle" /\ made[job[g]].by = d
    <3>1. pc'[g] = pc[g] /\ job'[g] = job[g]
      BY <2>1 DEF Arrive, PairingInv
    <3>2. pc[g] # "idle" => made'[job[g]] = made[job[g]]
      BY DEF PairingInv, Served
    <3> QED
      BY <3>1, <3>2
  <2>2. h \notin Serving(d) /\ h \notin Serving(d)'
    BY <1>2 DEF Serving, Arrive, PairingInv, TypeOK
  <2>3. Serving(d)' = Serving(d)
    BY <2>1, <2>2 DEF Serving
  <2> QED
    BY <1>0, <2>3
<1> QED
  BY <1>1, <1>2

(* An arrival takes room below the limit, an answer gives it back.         *)
LEMMA RoomKeeps == PairingInv /\ Room /\ [Next]_vars => Room'
<1> SUFFICES ASSUME PairingInv, Room, [Next]_vars, NEW d \in Device
             PROVE  failures'[d] + Cardinality(Serving(d)') <= MaxFailures + Cardinality(Handler)
  BY DEF Room
<1>0. /\ failures[d] + Cardinality(Serving(d)) <= MaxFailures + Cardinality(Handler)
      /\ failures[d] \in Nat /\ MaxFailures \in Nat
  BY PairingAssumption DEF Room, PairingInv, TypeOK
<1>a. /\ Cardinality(Serving(d)') \in Nat /\ Cardinality(Serving(d)) \in Nat
      /\ Cardinality(Serving(d)') <= Cardinality(Handler) /\ Cardinality(Handler) \in Nat
  <2>1. Serving(d)' \subseteq Handler
    BY DEF Serving
  <2> QED
    BY <2>1, AtWorkIsFinite, PairingAssumption, FS_Subset, FS_CardinalityType
<1>b. ASSUME \A h \in Handler : pc'[h] # "idle" <=> pc[h] # "idle", UNCHANGED <<made, job>>
      PROVE  Serving(d)' = Serving(d)
  BY <1>b DEF Serving
<1>c. ASSUME \A h \in Handler : pc'[h] # "idle" <=> pc[h] # "idle", UNCHANGED <<made, job>>,
             failures'[d] <= failures[d], failures'[d] \in Nat
      PROVE  failures'[d] + Cardinality(Serving(d)') <= MaxFailures + Cardinality(Handler)
  BY <1>0, <1>a, <1>b, <1>c
<1>1. CASE Operate \/ (\E k \in Code : Expires(k)) \/ (\E e \in Device : GiveUp(e))
  <2>1. UNCHANGED <<pc, made, job, failures>>
    BY <1>1 DEF Operate, AddAccount, IssueChecks, IssueStores, Expires, RevokeAsked,
      Revoke, RevokeLocks, RevokeMarks, RevokeCommits, RevokeAborts, RevokeDevice, GiveUp,
      clients, requests
  <2> QED
    BY <1>0, <1>c, <2>1
<1>2. ASSUME NEW e \in Device, NEW k \in Code, NEW h \in Handler, MakeOffer(e, k, h)
      PROVE  failures'[d] + Cardinality(Serving(d)') <= MaxFailures + Cardinality(Handler)
  <2>1. offers + 1 \in Offer /\ made[offers + 1] = None
    BY <1>2, PairingAssumption DEF MakeOffer, PairingInv, TypeOK, Known, Offer
  <2>2. made'[offers + 1].by = e /\ \A o \in Offer : made[o] # None => made'[o] = made[o]
    BY <1>2, <2>1 DEF MakeOffer, PairingInv, TypeOK
  <2> QED
    BY <1>2, <2>1, <2>2, ArrivalsHaveRoom DEF MakeOffer
<1>7. ASSUME NEW o \in Offer, NEW h \in Handler, Resend(o, h)
      PROVE  failures'[d] + Cardinality(Serving(d)') <= MaxFailures + Cardinality(Handler)
  <2>1. made[o].by \in Device
    BY <1>7 DEF Resend, PairingInv, TypeOK, Offered
  <2> QED
    BY <1>7, <2>1, ArrivalsHaveRoom DEF Resend
<1>3. ASSUME NEW e \in Device, Call(e) \/ WindowEnds(e)
      PROVE  failures'[d] + Cardinality(Serving(d)') <= MaxFailures + Cardinality(Handler)
  <2>1. CASE failures'[d] <= failures[d] /\ failures'[d] \in Nat
    BY <1>3, <1>c, <2>1 DEF Call, WindowEnds, clients, requests
  <2>2. CASE failures'[d] = failures[d] + 1 /\ failures[d] < MaxFailures
    BY <1>0, <1>a, <2>2
  <2>3. failures \in [Device -> Nat]
    BY DEF PairingInv, TypeOK
  <2>4. ASSUME WindowEnds(e)
        PROVE  failures'[d] <= failures[d] /\ failures'[d] \in Nat
    BY <2>3, <2>4 DEF WindowEnds
  <2>5. ASSUME Call(e), e = d
        PROVE  \/ failures'[d] <= failures[d] /\ failures'[d] \in Nat
               \/ failures'[d] = failures[d] + 1 /\ failures[d] < MaxFailures
    <3>1. failures'[d] \in {0, failures[d] + 1} /\ ~(failures[d] >= MaxFailures)
      BY <2>3, <2>5 DEF Call, Braked
    <3> QED
      BY <1>0, <3>1
  <2>6. ASSUME Call(e), e # d
        PROVE  failures'[d] = failures[d]
    BY <2>3, <2>6 DEF Call
  <2> QED
    BY <1>0, <1>3, <2>1, <2>2, <2>4, <2>5, <2>6
<1>4. ASSUME NEW h \in Handler, Classify(h) \/ Begin(h) \/ TakeRow(h) \/ Queue(h)
                \/ ClaimCommits(h) \/ ClaimAborts(h) \/ QueryFails(h)
      PROVE  failures'[d] + Cardinality(Serving(d)') <= MaxFailures + Cardinality(Handler)
  <2>1. \A g \in Handler : pc'[g] # "idle" <=> pc[g] # "idle"
    BY <1>4 DEF Classify, Begin, TakeRow, Queue, ClaimCommits, ClaimAborts, QueryFails,
      Goto, Reply, Deadlocked, PairingInv, TypeOK
  <2>2. UNCHANGED <<made, job, failures>>
    BY <1>4 DEF Classify, Begin, TakeRow, Queue, ClaimCommits, ClaimAborts, QueryFails, clients
  <2> QED
    BY <1>0, <1>c, <2>1, <2>2
<1>5. ASSUME NEW h \in Handler, Answer(h)
      PROVE  failures'[d] + Cardinality(Serving(d)') <= MaxFailures + Cardinality(Handler)
  <2>1. Serving(d)' = Serving(d) \ {h}
    BY <1>5 DEF Serving, Answer, Goto, PairingInv, TypeOK
  <2>2. job[h] \in Offer /\ made[job[h]].by \in Device /\ pc[h] # "idle"
    BY <1>5, AtWorkFacts DEF Answer, Offered
  <2>3. CASE made[job[h]].by = d
    <3>1. Cardinality(Serving(d)') = Cardinality(Serving(d)) - 1
      BY <2>1, <2>2, <2>3, AtWorkIsFinite, FS_RemoveElement DEF Serving
    <3>2. failures'[d] <= failures[d] + 1 /\ failures'[d] \in Nat
      BY <1>0, <1>5, <2>2, <2>3 DEF Answer, Settled, PairingInv
    <3> QED
      BY <1>0, <1>a, <3>1, <3>2
  <2>4. CASE made[job[h]].by # d
    <3>1. Serving(d)' = Serving(d)
      BY <2>1, <2>4 DEF Serving
    <3>2. failures'[d] = failures[d]
      BY <1>5, <2>2, <2>4 DEF Answer, Settled, PairingInv
    <3> QED
      BY <1>0, <3>1, <3>2
  <2> QED
    BY <2>3, <2>4
<1>6. CASE UNCHANGED vars
  <2>1. UNCHANGED <<pc, made, job, failures>>
    BY <1>6 DEF vars, data, clients, requests
  <2> QED
    BY <1>0, <1>c, <2>1
<1> QED
  BY <1>1, <1>2, <1>3, <1>4, <1>5, <1>6, <1>7 DEF Next, Serve

(* The brake overshoots its limit by at most the requests being served.    *)
THEOREM BrakeIsTight == Spec => []BrakeHolds
<1>1. PairingInv /\ Room => BrakeHolds
  BY AtWorkIsFinite, PairingAssumption DEF Room, BrakeHolds, PairingInv, TypeOK
<1>2. Init => PairingInv /\ Room
  BY PairingStarts, RoomStarts
<1>3. PairingInv /\ Room /\ [Next]_vars => (PairingInv /\ Room)'
  BY PairingKeeps, RoomKeeps
<1> QED
  BY <1>1, <1>2, <1>3, PTL DEF Spec
=============================================================================
