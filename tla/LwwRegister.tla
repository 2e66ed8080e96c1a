----------------------------- MODULE LwwRegister -----------------------------
(***************************************************************************)
(* What a replicated artifact promises: a register on which the last writer*)
(* wins.  Writes are stamped in an order that is total; a replica that     *)
(* writes stamps above what it shows, and a replica that takes over another*)
(* write only ever takes a later one.                                      *)
(***************************************************************************)
EXTENDS Integers

CONSTANTS
    Replica,
    Stamp,          \* the stamps of writes
    Before(_, _),   \* their order
    Body,
    Blank           \* a replica that shows nothing yet

Write == [stamp : Stamp, body : Body]

VARIABLES
    shown,      \* the write each replica shows, or Blank
    issued      \* the writes made so far

registerVars == <<shown, issued>>

Later(old, new) == old # Blank => Before(old.stamp, new.stamp)

Init ==
    /\ shown = [r \in Replica |-> Blank]
    /\ issued = {}

(* A stamp is used once.                                                   *)
Issue(r, w) ==
    /\ Later(shown[r], w)
    /\ \A v \in issued : v.stamp # w.stamp
    /\ shown' = [shown EXCEPT ![r] = w]
    /\ issued' = issued \cup {w}

TakeOver(r, w) ==
    /\ w \in issued
    /\ Later(shown[r], w)
    /\ shown' = [shown EXCEPT ![r] = w]
    /\ UNCHANGED issued

Next == \E r \in Replica, w \in Write : Issue(r, w) \/ TakeOver(r, w)

Spec == Init /\ [][Next]_registerVars
=============================================================================
