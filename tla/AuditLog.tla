------------------------------ MODULE AuditLog -------------------------------
(***************************************************************************)
(* What an audit log promises: it only grows, one entry at a time, and an  *)
(* event is entered at most once.                                          *)
(***************************************************************************)
EXTENDS Sequences, Integers

CONSTANT Event

VARIABLE entries

Init == entries = <<>>

Enter(e) ==
    /\ \A i \in 1..Len(entries) : entries[i] # e
    /\ entries' = Append(entries, e)

Next == \E e \in Event : Enter(e)

Spec == Init /\ [][Next]_entries
=============================================================================
