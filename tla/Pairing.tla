------------------------------ MODULE Pairing ------------------------------
(***************************************************************************)
(* Accounts, pairing codes and the credentials they turn into              *)
(* (accounts_db.rs): the operator's commands, the host's POST /pair        *)
(* (pair_core in http.rs) with its brake, the admission of a bearer, and   *)
(* the client that offers a code (bridge/pair.rs).                         *)
(*                                                                         *)
(* Each SQL statement reads the rows committed when it began; what one     *)
(* waits for is a row lock another transaction holds to its end.  Two locks*)
(* matter: the account's, FOR UPDATE by a revocation and FOR KEY SHARE by  *)
(* the foreign key of a row that names the account, and the code's, by the *)
(* statement that redeems it and by the DELETE of a revocation.            *)
(*                                                                         *)
(* A secret is made for one offer and known by its number, and so is the   *)
(* credential made for it.  A device's label is the device.                *)
(***************************************************************************)
EXTENDS FiniteSets, Integers

CONSTANTS
    Account, Code, Device,
    Handler,        \* requests POST /pair serves at one time
    MaxOffers,      \* bound on the offers clients make
    MaxFailures,    \* MAX_AUTH_FAILURES, 10 in the code
    MaxActive,      \* MAX_ACTIVE_PAIRING_CODES, 50 in the code
    Resends,        \* whether a client may send the very same offer again
    None

Offer == 1..MaxOffers

Redeemed == [code : Code, account : Account, revoked : BOOLEAN]
Offered == [by : Device, code : Code]
Paired == [credential : Offer, secret : Offer]

ASSUME PairingAssumption ==
    /\ IsFiniteSet(Code)
    /\ IsFiniteSet(Handler)
    /\ MaxOffers \in Nat
    /\ MaxFailures \in Nat \ {0}
    /\ MaxActive \in Nat
    /\ Resends \in BOOLEAN
    /\ None \notin Account \cup Redeemed \cup Offered \cup Paired

VARIABLES
    account,    \* brain_accounts
    code,       \* brain_pairing_codes, and the commands about to store one
    cred,       \* brain_account_credentials: cred[o] was made for offer o
    late,       \* codes whose expires_at has passed
    told,       \* codes the operator was shown and passed on
    offers,     \* the number of offers made
    made,       \* made[o]: the device that made offer o, and the code in it
    asking,     \* asking[d]: the offer device d waits on, or 0
    saved,      \* saved[d]: the state file of d: the credential and the secret
    failures,   \* auth_failures: wrong answers to each address in its window
    pc, job, inTime, reply,     \* the handlers of POST /pair
    revoking, marked            \* the revocation of each account

data == <<account, code, cred, late, told>>
clients == <<offers, made, asking, saved>>
requests == <<pc, job, inTime, reply>>
vars == <<data, clients, failures, requests, revoking, marked>>

Refused == 0
Unavailable == -1

TypeOK ==
    /\ account \in [Account -> {"absent", "active", "revoked"}]
    /\ code \in [Code -> [state : {"unissued", "checked", "unused", "used", "gone"},
                          account : Account \cup {None}, user : {0} \cup Offer]]
    /\ \A k \in Code :
            /\ code[k].state = "unissued" <=> code[k].account = None
            /\ code[k].state = "used" <=> code[k].user # 0
    /\ cred \in [Offer -> Redeemed \cup {None}]
    /\ late \subseteq Code
    /\ told \subseteq Code
    /\ offers \in 0..MaxOffers
    /\ made \in [Offer -> Offered \cup {None}]
    /\ asking \in [Device -> {0} \cup Offer]
    /\ saved \in [Device -> Paired \cup {None}]
    /\ failures \in [Device -> Nat]
    /\ pc \in [Handler -> {"idle", "arrived", "matched", "claiming", "holding",
                           "waiting", "answering"}]
    /\ job \in [Handler -> {0} \cup Offer]
    /\ inTime \in [Handler -> BOOLEAN]
    /\ reply \in [Handler -> {Refused, Unavailable} \cup Offer]
    /\ revoking \in [Account -> {"idle", "asked", "locked", "marked"}]
    /\ marked \in [Account -> SUBSET Offer]

Init ==
    /\ account = [a \in Account |-> "absent"]
    /\ code = [k \in Code |-> [state |-> "unissued", account |-> None, user |-> 0]]
    /\ cred = [o \in Offer |-> None]
    /\ late = {}
    /\ told = {}
    /\ offers = 0
    /\ made = [o \in Offer |-> None]
    /\ asking = [d \in Device |-> 0]
    /\ saved = [d \in Device |-> None]
    /\ failures = [d \in Device |-> 0]
    /\ pc = [h \in Handler |-> "idle"]
    /\ job = [h \in Handler |-> 0]
    /\ inTime = [h \in Handler |-> FALSE]
    /\ reply = [h \in Handler |-> Refused]
    /\ revoking = [a \in Account |-> "idle"]
    /\ marked = [a \in Account |-> {}]

-----------------------------------------------------------------------------
(* What rows and locks say.                                                *)

CodeIn(h) == made[job[h]].code
AccountIn(h) == code[CodeIn(h)].account

LiveOf(a) == {o \in Offer : cred[o] # None /\ cred[o].account = a /\ ~cred[o].revoked}

(* state_of: what admits a bearer.                                         *)
Active(o) ==
    /\ cred[o] # None
    /\ ~cred[o].revoked
    /\ account[cred[o].account] = "active"

(* lock_account takes the account FOR UPDATE, which no FOR KEY SHARE passes.*)
KeyShareFree_NoKey(a) == TRUE      \* seeded fault: the account is only read

KeyShareFree(a) == revoking[a] \notin {"locked", "marked"}

Claims(k) == {h \in Handler : pc[h] \in {"holding", "waiting"} /\ CodeIn(h) = k}

UnusedOf(a) == {k \in Code : code[k].state = "unused" /\ code[k].account = a}

(* The claim waits for the account and the revocation for the code.        *)
Deadlocked(h) == pc[h] = "waiting" /\ revoking[AccountIn(h)] = "marked"

Braked_After(d) == failures[d] > MaxFailures    \* seeded fault: one more

Braked(d) == failures[d] >= MaxFailures

-----------------------------------------------------------------------------
(* The operator.                                                           *)

(* A name is never used again, be its account revoked or not.              *)
AddAccount(a) ==
    /\ account[a] = "absent"
    /\ account' = [account EXCEPT ![a] = "active"]
    /\ UNCHANGED <<code, cred, late, told, clients, failures, requests, revoking, marked>>

(* prepare_issue reads the account and counts the codes; nothing holds     *)
(* either until the code is stored.                                        *)
IssueChecks(a, k) ==
    /\ code[k].state = "unissued"
    /\ account[a] = "active"
    /\ Cardinality({q \in Code : code[q].state = "unused" /\ q \notin late}) < MaxActive
    /\ code' = [code EXCEPT ![k] = [state |-> "checked", account |-> a, user |-> 0]]
    /\ UNCHANGED <<account, cred, late, told, clients, failures, requests, revoking, marked>>

(* The code is shown unless the audit chain refuses the event.             *)
IssueStores(k, shown) ==
    /\ code[k].state = "checked"
    /\ KeyShareFree(code[k].account)
    /\ code' = [code EXCEPT ![k].state = "unused"]
    /\ told' = IF shown THEN told \cup {k} ELSE told
    /\ UNCHANGED <<account, cred, late, clients, failures, requests, revoking, marked>>

Expires(k) ==
    /\ code[k].state \in {"unused", "used"}
    /\ late' = late \cup {k}
    /\ UNCHANGED <<account, code, cred, told, clients, failures, requests, revoking, marked>>

RevokeAsked(a) ==
    /\ account[a] # "absent"
    /\ revoking[a] = "idle"
    /\ revoking' = [revoking EXCEPT ![a] = "asked"]
    /\ UNCHANGED <<data, clients, failures, requests, marked>>

(* Whoever waits for the account already goes first.                       *)
RevokeLocks(a) ==
    /\ revoking[a] = "asked"
    /\ \A h \in Handler : pc[h] = "waiting" => AccountIn(h) # a
    /\ revoking' = [revoking EXCEPT ![a] = "locked"]
    /\ UNCHANGED <<data, clients, failures, requests, marked>>

(* The devices are marked, and the DELETE queues for the unused codes.     *)
RevokeMarks(a) ==
    /\ revoking[a] = "locked"
    /\ revoking' = [revoking EXCEPT ![a] = "marked"]
    /\ marked' = [marked EXCEPT ![a] = LiveOf(a)]
    /\ UNCHANGED <<data, clients, failures, requests>>

(* The unused codes go; used ones stay as the record of each device.       *)
Emptied_OfAll(a) ==                 \* seeded fault: the used ones go too
    [k \in Code |->
        IF code[k].account = a THEN [code[k] EXCEPT !.state = "gone"] ELSE code[k]]

Emptied(a) ==
    [k \in Code |-> IF k \in UnusedOf(a) THEN [code[k] EXCEPT !.state = "gone"] ELSE code[k]]

Closed(dead) ==
    [o \in Offer |-> IF o \in dead THEN [cred[o] EXCEPT !.revoked = TRUE] ELSE cred[o]]

RevokeCommits_KeepsAccount(a) ==    \* seeded fault: only devices and codes go
    /\ revoking[a] = "marked"
    /\ \A k \in UnusedOf(a) : Claims(k) = {}
    /\ code' = Emptied(a)
    /\ cred' = Closed(marked[a])
    /\ revoking' = [revoking EXCEPT ![a] = "idle"]
    /\ marked' = [marked EXCEPT ![a] = {}]
    /\ UNCHANGED <<account, late, told, clients, failures, requests>>

RevokeCommits(a) ==
    /\ revoking[a] = "marked"
    /\ \A k \in UnusedOf(a) : Claims(k) = {}
    /\ account' = [account EXCEPT ![a] = "revoked"]
    /\ code' = Emptied(a)
    /\ cred' = Closed(marked[a])
    /\ revoking' = [revoking EXCEPT ![a] = "idle"]
    /\ marked' = [marked EXCEPT ![a] = {}]
    /\ UNCHANGED <<late, told, clients, failures, requests>>

(* PostgreSQL breaks the deadlock at the revocation's expense: the operator*)
(* reads an error and runs the command again.                              *)
RevokeAborts(a) ==
    /\ revoking[a] = "marked"
    /\ \E h \in Handler : Deadlocked(h) /\ AccountIn(h) = a
    /\ revoking' = [revoking EXCEPT ![a] = "asked"]
    /\ marked' = [marked EXCEPT ![a] = {}]
    /\ UNCHANGED <<data, clients, failures, requests>>

(* A credential a revocation has updated is waited for.                    *)
RevokeDevice(a, d) ==
    LET devices == {o \in LiveOf(a) : made[o].by = d}
    IN  /\ devices # {}
        /\ devices \cap marked[a] = {}
        /\ cred' = Closed(devices)
        /\ UNCHANGED <<account, code, late, told, clients, failures, requests,
                       revoking, marked>>

-----------------------------------------------------------------------------
(* The client.                                                             *)

Arrive(d, h, o) ==
    /\ asking[d] = 0
    /\ pc[h] = "idle"
    /\ ~Braked(d)
    /\ asking' = [asking EXCEPT ![d] = o]
    /\ pc' = [pc EXCEPT ![h] = "arrived"]
    /\ job' = [job EXCEPT ![h] = o]
    /\ UNCHANGED <<data, saved, failures, reply, revoking, marked>>

(* offer makes a secret of its own each time.  The host's clock is read as *)
(* the request arrives.                                                    *)
MakeOffer(d, k, h) ==
    /\ offers < MaxOffers
    /\ k \in told
    /\ Arrive(d, h, offers + 1)
    /\ offers' = offers + 1
    /\ made' = [made EXCEPT ![offers + 1] = [by |-> d, code |-> k]]
    /\ inTime' = [inTime EXCEPT ![h] = k \notin late]

Resend(o, h) ==
    /\ Resends
    /\ made[o] # None
    /\ Arrive(made[o].by, h, o)
    /\ inTime' = [inTime EXCEPT ![h] = made[o].code \notin late]
    /\ UNCHANGED <<offers, made>>

(* No answer in time, an answer cut short, a state file that could not be  *)
(* written: nothing is kept.                                               *)
GiveUp(d) ==
    /\ asking[d] # 0
    /\ asking' = [asking EXCEPT ![d] = 0]
    /\ UNCHANGED <<data, offers, made, saved, failures, requests, revoking, marked>>

(* admit: a request with the saved bearer.  Looking the bearer up is one   *)
(* step here: requests of one address with a bearer come one at a time.    *)
Call(d) ==
    /\ saved[d] # None
    /\ ~Braked(d)
    /\ failures' = [failures EXCEPT ![d] =
            IF Active(saved[d].credential) /\ saved[d].credential = saved[d].secret
            THEN 0 ELSE @ + 1]
    /\ UNCHANGED <<data, clients, requests, revoking, marked>>

(* AUTH_FAILURE_WINDOW has passed.                                         *)
WindowEnds(d) ==
    /\ failures' = [failures EXCEPT ![d] = 0]
    /\ UNCHANGED <<data, clients, requests, revoking, marked>>

-----------------------------------------------------------------------------
(* POST /pair.                                                             *)

Goto(h, label) == pc' = [pc EXCEPT ![h] = label]

Reply(h, answer) ==
    /\ Goto(h, "answering")
    /\ reply' = [reply EXCEPT ![h] = answer]

Redeemable(h) ==
    /\ code[CodeIn(h)].state = "unused"
    /\ account[AccountIn(h)] = "active"
    /\ inTime[h]

(* pairing_candidates and classify_candidate.                              *)
Classify(h) ==
    /\ pc[h] = "arrived"
    /\ IF code[CodeIn(h)].state = "used" \/ Redeemable(h)
       THEN Goto(h, "matched") /\ UNCHANGED reply
       ELSE Reply(h, Refused)
    /\ UNCHANGED <<data, clients, failures, job, inTime, revoking, marked>>

(* replayed: the code was used with the very secret of this request.       *)
Replayable_AnySecret(h) ==          \* seeded fault: secret_hash not compared
    code[CodeIn(h)].state = "used" /\ Active(code[CodeIn(h)].user)

Replayable(h) ==
    /\ code[CodeIn(h)].state = "used"
    /\ code[CodeIn(h)].user = job[h]
    /\ Active(code[CodeIn(h)].user)

(* The statement begins.  All but the code's own row is judged here.       *)
Begin(h) ==
    /\ pc[h] = "matched"
    /\ IF Redeemable(h) THEN Goto(h, "claiming") /\ UNCHANGED reply
       ELSE Reply(h, IF Replayable(h) THEN code[CodeIn(h)].user ELSE Refused)
    /\ UNCHANGED <<data, clients, failures, job, inTime, revoking, marked>>

(* READ COMMITTED judges the row again once it is free.  The DELETE of a   *)
(* revocation is in the queue for it too.                                  *)
StillUnused_Snapshot(k) == code[k].state # "gone"   \* seeded fault: it does not

StillUnused(k) == code[k].state = "unused"

TakeRow(h) ==
    /\ pc[h] = "claiming"
    /\ Claims(CodeIn(h)) = {}
    /\ revoking[AccountIn(h)] # "marked"
    /\ IF StillUnused(CodeIn(h)) THEN Goto(h, "holding") /\ UNCHANGED reply
       ELSE Reply(h, Refused)
    /\ UNCHANGED <<data, clients, failures, job, inTime, revoking, marked>>

Queue(h) ==
    /\ pc[h] = "holding"
    /\ ~KeyShareFree(AccountIn(h))
    /\ Goto(h, "waiting")
    /\ UNCHANGED <<data, clients, failures, job, inTime, reply, revoking, marked>>

ClaimCommits(h) ==
    /\ pc[h] \in {"holding", "waiting"}
    /\ KeyShareFree(AccountIn(h))
    /\ code' = [code EXCEPT ![CodeIn(h)] =
            [state |-> "used", account |-> AccountIn(h), user |-> job[h]]]
    /\ cred' = [cred EXCEPT ![job[h]] =
            [code |-> CodeIn(h), account |-> AccountIn(h), revoked |-> FALSE]]
    /\ Reply(h, job[h])
    /\ UNCHANGED <<account, late, told, clients, failures, job, inTime, revoking, marked>>

(* PostgreSQL breaks the deadlock at the claim's expense.                  *)
ClaimAborts(h) ==
    /\ Deadlocked(h)
    /\ Reply(h, Unavailable)
    /\ UNCHANGED <<data, clients, failures, job, inTime, revoking, marked>>

(* A query of the handler fails, the one that reads the host's identity    *)
(* for an answer included: what was committed stays.                       *)
QueryFails(h) ==
    /\ pc[h] \in {"arrived", "matched", "claiming", "answering"}
    /\ Reply(h, Unavailable)
    /\ UNCHANGED <<data, clients, failures, job, inTime, revoking, marked>>

(* settle_brake, and the answer, which a client still there stores.        *)
Settled(d, answer) ==
    CASE answer = Refused -> [failures EXCEPT ![d] = @ + 1]
      [] answer = Unavailable -> failures
      [] OTHER -> [failures EXCEPT ![d] = 0]

Answer(h) ==
    LET d == made[job[h]].by
    IN  /\ pc[h] = "answering"
        /\ Goto(h, "idle")
        /\ job' = [job EXCEPT ![h] = 0]
        /\ reply' = [reply EXCEPT ![h] = Refused]
        /\ inTime' = [inTime EXCEPT ![h] = FALSE]
        /\ failures' = Settled(d, reply[h])
        /\ IF asking[d] # job[h] THEN UNCHANGED <<asking, saved>>
           ELSE /\ asking' = [asking EXCEPT ![d] = 0]
                /\ saved' = IF reply[h] \notin Offer THEN saved
                            ELSE [saved EXCEPT ![d] =
                                    [credential |-> reply[h], secret |-> job[h]]]
        /\ UNCHANGED <<data, offers, made, revoking, marked>>

-----------------------------------------------------------------------------
Serve(h) ==
    \/ Classify(h)
    \/ Begin(h)
    \/ TakeRow(h)
    \/ Queue(h)
    \/ ClaimCommits(h)
    \/ ClaimAborts(h)
    \/ Answer(h)

Revoke(a) == RevokeLocks(a) \/ RevokeMarks(a) \/ RevokeCommits(a) \/ RevokeAborts(a)

Operate ==
    \/ \E a \in Account : AddAccount(a) \/ RevokeAsked(a) \/ Revoke(a)
    \/ \E a \in Account, k \in Code : IssueChecks(a, k)
    \/ \E k \in Code, shown \in BOOLEAN : IssueStores(k, shown)
    \/ \E a \in Account, d \in Device : RevokeDevice(a, d)

Next ==
    \/ Operate
    \/ \E k \in Code : Expires(k)
    \/ \E d \in Device, k \in Code, h \in Handler : MakeOffer(d, k, h)
    \/ \E o \in Offer, h \in Handler : Resend(o, h)
    \/ \E d \in Device : GiveUp(d) \/ Call(d) \/ WindowEnds(d)
    \/ \E h \in Handler : Serve(h) \/ QueryFails(h)

Spec == Init /\ [][Next]_vars

-----------------------------------------------------------------------------
(* Properties.                                                             *)

(* A code works once: of the offers that race for it one makes a           *)
(* credential, and the code's row names it.                                *)
CodesWorkOnce ==
    \A o \in Offer : cred[o] # None =>
        /\ code[cred[o].code].state = "used"
        /\ code[cred[o].code].user = o

(* revoke_account: once an account is revoked every credential of it is    *)
(* too, the one a claim was making while it was revoked included.          *)
RevokedAccountsAreClosed ==
    \A a \in Account : account[a] = "revoked" => LiveOf(a) = {}

(* A device stores a credential only with the secret the host keeps the    *)
(* hash of, however many devices were given the code.                      *)
SavedSecretsAreKnown ==
    \A d \in Device : saved[d] # None =>
        /\ cred[saved[d].credential] # None
        /\ saved[d].secret = saved[d].credential

(* The brake counts after the answer and is asked before the question: an  *)
(* address fails at most as often as the limit says, and once more for each*)
(* pairing request that was being served when it got there (and for each   *)
(* bearer being looked up, which here come one at a time).                 *)
BrakeHolds ==
    \A d \in Device : failures[d] <= MaxFailures + Cardinality(Handler)

(* A revocation prevails over the claims it deadlocks with, and from then  *)
(* on no device of the account is admitted, whatever was under way.        *)
RevocationPrevails ==
    \A a \in Account :
        revoking[a] = "asked" ~> [](\A o \in LiveOf(a) : ~Active(o))
=============================================================================
