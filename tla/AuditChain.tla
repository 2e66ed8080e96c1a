----------------------------- MODULE AuditChain ------------------------------
(***************************************************************************)
(* The audit chain (handlers/archivo.rs, migrations 0016 and 0040): each   *)
(* row holds the hash of the row before it.  Any number of appends may be  *)
(* under way, in any number of processes.                                  *)
(*                                                                         *)
(* append opens a SERIALIZABLE transaction and asks for the chain's        *)
(* advisory lock.  The statement that asks is the first, so the snapshot   *)
(* is of before the lock was granted: an append that had to wait reads a   *)
(* tail that is no longer the tail, and PostgreSQL refuses it with 40001.  *)
(* It begins again, after MAX_RETRIES refusals it gives up.                *)
(*                                                                         *)
(* A row's hash is the call that made it: each call makes one, and the     *)
(* hashes of different rows differ.  The key it was made with is what its  *)
(* process read in its environment or its file at that moment: processes   *)
(* on one database need not have the same, nor keep it.                    *)
(***************************************************************************)
EXTENDS Integers, Sequences

CONSTANTS
    Call,           \* the calls of append, one event each
    MaxRetries,     \* MAX_RETRIES
    First,          \* prev_hash of the first row, NULL
    Key,            \* the audit keys an operator may set
    Plain           \* no key: audit_key() is None, the hash plain SHA-256

ASSUME AuditAssumption == MaxRetries \in Nat /\ First \notin Call /\ Plain \notin Key

(* key: the one the hash was made with, which it does not tell to a reader *)
(* who does not have it.                                                   *)
Entry == [prev : Call \cup {First}, hash : Call, key : Key \cup {Plain}]

VARIABLES
    chain,      \* brain_audit_log by id
    key,        \* what audit_key() returns in the process of each call
    parted,     \* two processes had keys that differ, or one changed (history)
    made,       \* the key of the hash a call that holds the lock has computed
    stage,      \* where each call is
    snapshot,   \* the rows the transaction of each call sees
    attempt,    \* the refusals each call has met
    begun       \* the length of the chain when each call began (history)

auditVars == <<chain, key, parted, made, stage, snapshot, attempt, begun>>

Stage == {"new", "waiting", "holding", "backoff", "written", "answered", "failed", "cut"}

AuditTypeOK ==
    /\ chain \in Seq(Entry)
    /\ key \in [Call -> Key \cup {Plain}]
    /\ parted \in BOOLEAN
    /\ made \in [Call -> Key \cup {Plain}]
    /\ stage \in [Call -> Stage]
    /\ snapshot \in [Call -> Nat]
    /\ attempt \in [Call -> 0..MaxRetries]
    /\ begun \in [Call -> Nat]

(* A key that some process has or had, and another has not.                *)
Part(before, now) ==
    \E c, d \in Call : before[c] # Plain /\ now[d] # before[c]

AuditInit ==
    /\ chain = <<>>
    /\ key \in [Call -> Key \cup {Plain}]
    /\ parted = Part(key, key)
    /\ made = [c \in Call |-> Plain]
    /\ stage = [c \in Call |-> "new"]
    /\ snapshot = [c \in Call |-> 0]
    /\ attempt = [c \in Call |-> 0]
    /\ begun = [c \in Call |-> 0]

Reaches(c, s) == stage' = [stage EXCEPT ![c] = s]

-----------------------------------------------------------------------------
Begin(c) ==
    /\ stage[c] = "new"
    /\ Reaches(c, "waiting")
    /\ snapshot' = [snapshot EXCEPT ![c] = Len(chain)]
    /\ begun' = [begun EXCEPT ![c] = Len(chain)]
    /\ UNCHANGED <<chain, key, parted, made, attempt>>

BeginAgain_OldSnapshot(c) ==        \* seeded fault: retried in one transaction
    /\ stage[c] = "backoff"
    /\ Reaches(c, "waiting")
    /\ UNCHANGED <<chain, key, parted, made, snapshot, attempt, begun>>

BeginAgain(c) ==
    /\ stage[c] = "backoff"
    /\ Reaches(c, "waiting")
    /\ snapshot' = [snapshot EXCEPT ![c] = Len(chain)]
    /\ UNCHANGED <<chain, key, parted, made, attempt, begun>>

(* pg_advisory_xact_lock: held until the transaction ends.  The hash is    *)
(* computed once it is granted, with the key of that moment.               *)
Granted_Session(c) ==               \* seeded fault: a lock of the session
    \A d \in Call \ {c} : stage[d] \notin {"holding", "cut"}

Granted(c) == \A d \in Call : stage[d] # "holding"

TakeLock(c) ==
    /\ stage[c] = "waiting"
    /\ Granted(c)
    /\ Reaches(c, "holding")
    /\ made' = [made EXCEPT ![c] = key[c]]
    /\ UNCHANGED <<chain, key, parted, snapshot, attempt, begun>>

(* A row was committed since the snapshot the tail was read from.          *)
Stale_Never(c) == FALSE             \* seeded fault: REPEATABLE READ

Stale(c) == snapshot[c] # Len(chain)

TailHash(n) == IF n = 0 THEN First ELSE chain[n].hash

Commit_Unsure(c) ==                 \* seeded fault: a lost answer is a refusal
    /\ stage[c] = "holding"
    /\ ~Stale(c)
    /\ chain' = Append(chain, [prev |-> TailHash(snapshot[c]), hash |-> c, key |-> made[c]])
    /\ Reaches(c, "written") \/ Reaches(c, "backoff")
    /\ made' = [made EXCEPT ![c] = Plain]
    /\ UNCHANGED <<key, parted, snapshot, attempt, begun>>

Commit(c) ==
    /\ stage[c] = "holding"
    /\ ~Stale(c)
    /\ chain' = Append(chain, [prev |-> TailHash(snapshot[c]), hash |-> c, key |-> made[c]])
    /\ Reaches(c, "written")
    /\ made' = [made EXCEPT ![c] = Plain]
    /\ UNCHANGED <<key, parted, snapshot, attempt, begun>>

(* 40001, from the insert or the commit.                                   *)
Retry(c) ==
    /\ stage[c] = "holding"
    /\ Stale(c)
    /\ attempt[c] < MaxRetries
    /\ attempt' = [attempt EXCEPT ![c] = @ + 1]
    /\ Reaches(c, "backoff")
    /\ made' = [made EXCEPT ![c] = Plain]
    /\ UNCHANGED <<chain, key, parted, snapshot, begun>>

GiveUp_Quietly(c) ==                \* seeded fault: the last refusal is swallowed
    /\ stage[c] = "holding"
    /\ Stale(c)
    /\ attempt[c] = MaxRetries
    /\ Reaches(c, "written")
    /\ made' = [made EXCEPT ![c] = Plain]
    /\ UNCHANGED <<chain, key, parted, snapshot, attempt, begun>>

GiveUp(c) ==
    /\ stage[c] = "holding"
    /\ Stale(c)
    /\ attempt[c] = MaxRetries
    /\ Reaches(c, "failed")
    /\ made' = [made EXCEPT ![c] = Plain]
    /\ UNCHANGED <<chain, key, parted, snapshot, attempt, begun>>

Answer(c) ==
    /\ stage[c] = "written"
    /\ Reaches(c, "answered")
    /\ UNCHANGED <<chain, key, parted, made, snapshot, attempt, begun>>

(* The handler is dropped where it stands, by its timeout, its client or   *)
(* the connection: a transaction that has not committed is rolled back.    *)
UnderWay(c) == stage[c] \in {"waiting", "holding", "backoff", "written"}

Cut(c) ==
    /\ UnderWay(c)
    /\ Reaches(c, "cut")
    /\ made' = [made EXCEPT ![c] = Plain]
    /\ UNCHANGED <<chain, key, parted, snapshot, attempt, begun>>

(* Operators set keys, change them or take them away: in the file, which   *)
(* is read anew for every hash, or with a start of the process, which cuts *)
(* its calls first.                                                        *)
Seal(now) ==
    /\ key' = now
    /\ parted' = (parted \/ Part(key, now) \/ Part(now, now))
    /\ UNCHANGED <<chain, made, stage, snapshot, attempt, begun>>

-----------------------------------------------------------------------------
Proceed(c) ==
    \/ Begin(c)
    \/ BeginAgain(c)
    \/ TakeLock(c)
    \/ Commit(c)
    \/ Retry(c)
    \/ GiveUp(c)
    \/ Answer(c)

AuditNext ==
    \/ \E c \in Call : Proceed(c) \/ Cut(c)
    \/ \E now \in [Call -> Key \cup {Plain}] : Seal(now)

AuditSpec == AuditInit /\ [][AuditNext]_auditVars

(* A call that has begun runs on; PostgreSQL queues those that wait.       *)
AuditFairness == \A c \in Call : WF_auditVars(stage[c] # "new" /\ Proceed(c))

-----------------------------------------------------------------------------
(* Properties.                                                             *)

Log == INSTANCE AuditLog WITH
           Event <- Call, entries <- [i \in 1..Len(chain) |-> chain[i].hash]

(* The table is an append-only log in which no call is entered twice,      *)
(* through all waiting, refusals, retries, cuts and restarts.              *)
ChainIsALog == Log!Spec

(* verify, in any process and for any limit it reads the chain to, finds   *)
(* what it walks over whole: each row is linked to the one before it, and  *)
(* as long as all processes have had one key since any had one, it is made *)
(* with that key, or plain and before all that are.  Where keys have       *)
(* differed the links still hold, and whose rows verify is not promised.   *)
Linked(n) == \A i \in 1..n : chain[i].prev = TailHash(i - 1)

Verified(n, mine) ==
    \A i \in 1..n :
        \/ chain[i].key = mine
        \/ chain[i].key = Plain /\ \A h \in 1..(i - 1) : chain[h].key = Plain

ChainVerifies ==
    \A n \in 0..Len(chain) :
        /\ Linked(n)
        /\ ~parted => \A c \in Call : Verified(n, key[c])

(* A call answered has its row; one that gave up has none.                 *)
Entered(c) == \E i \in 1..Len(chain) : chain[i].hash = c

AnswersTellTheTruth ==
    \A c \in Call :
        /\ stage[c] \in {"written", "answered"} => Entered(c)
        /\ stage[c] \in {"new", "waiting", "holding", "backoff", "failed"} => ~Entered(c)

(* Every refusal is paid for by somebody else's row: a call gives up only  *)
(* if more than MAX_RETRIES others got in while it tried, so that fewer    *)
(* than that many at one time never fail one another.                      *)
RefusalsArePaidFor ==
    \A c \in Call :
        attempt[c] + (IF stage[c] = "failed" THEN 1 ELSE 0) <= Len(chain) - begun[c]

(* No append waits for ever.                                               *)
AppendsEnd == \A c \in Call : stage[c] = "waiting" ~> ~UnderWay(c)
=============================================================================
