-------------------------------- MODULE Texts --------------------------------
(***************************************************************************)
(* The text of one observation on several nodes: corrections (correct in   *)
(* handlers/eco.rs), bundles that bring another node's text (import and    *)
(* resolve_conflict in handlers/sync.rs), the history of superseded texts  *)
(* (brain_append_version, migration 0048) and the one open conflict an     *)
(* observation may have (migration 0052).                                  *)
(*                                                                         *)
(* How the row comes and goes is ReplicaSync's subject.  A text is a value;*)
(* what else a bundle carries is in it by the row's version alone.         *)
(***************************************************************************)
EXTENDS SequencesExt, Integers

CONSTANTS
    Node,
    Text,
    Cap,            \* brain_append_version keeps this many superseded texts
    MaxVersion,     \* bound on the version of a row
    Nothing         \* no row, no conflict, no bundle

ASSUME TextsAssumption ==
    /\ Cap \in Nat \ {0}
    /\ MaxVersion \in Nat \ {0}

Row == [text : Text, version : 1..MaxVersion, past : Seq(Text)]
Conflict == [ours : Text, theirs : Text]

ASSUME NothingAssumption == Nothing \notin Row \cup Conflict

VARIABLES
    row,        \* brain_observations: the row of each node, or Nothing
    conflict,   \* brain_sync_conflicts: the open one of each node, or Nothing
    offer,      \* the bundle each node has published, or Nothing
    took,       \* brain_sync_state: the bundles each node has imported
    written,    \* the texts each node's users wrote (history)
    lost        \* the texts a full history or a stale resolution let go (history)

textsVars == <<row, conflict, offer, took, written, lost>>

TextsTypeOK ==
    /\ row \in [Node -> Row \cup {Nothing}]
    /\ conflict \in [Node -> Conflict \cup {Nothing}]
    /\ offer \in [Node -> Row \cup {Nothing}]
    /\ took \in [Node -> SUBSET Row]
    /\ written \in [Node -> SUBSET Text]
    /\ lost \subseteq Text

TextsInit ==
    /\ row = [n \in Node |-> Nothing]
    /\ conflict = [n \in Node |-> Nothing]
    /\ offer = [n \in Node |-> Nothing]
    /\ took = [n \in Node |-> {}]
    /\ written = [n \in Node |-> {}]
    /\ lost = {}

-----------------------------------------------------------------------------
(* brain_append_version: the newest Cap texts, oldest first.               *)

Appended(past, t) == Append(IF Len(past) < Cap THEN past ELSE Tail(past), t)

Evicted(past) == IF Len(past) < Cap THEN {} ELSE {Head(past)}

(* The update of the content: the text it displaces goes to the history,   *)
(* and the trigger of migration 0047 counts the version.                   *)
Superseded_Forgotten(r, t) ==       \* seeded fault: as before migration 0048
    [text |-> t, version |-> r.version + 1, past |-> r.past]

Superseded_Twice(r, t) ==           \* seeded fault: statement and trigger count
    [text |-> t, version |-> r.version + 2, past |-> Appended(r.past, r.text)]

Superseded(r, t) ==
    [text |-> t, version |-> r.version + 1, past |-> Appended(r.past, r.text)]

(* Whoever writes writes something new.                                    *)
New == {t \in Text : \A n \in Node : t \notin written[n]}

Fresh(t) == t = CHOOSE u \in New : TRUE

Write(n, t) ==
    /\ New = Text
    /\ Fresh(t)
    /\ row' = [row EXCEPT ![n] = [text |-> t, version |-> 1, past |-> <<>>]]
    /\ written' = [written EXCEPT ![n] = @ \cup {t}]
    /\ UNCHANGED <<conflict, offer, took, lost>>

Correct(n, t) ==
    /\ row[n] # Nothing
    /\ row[n].version < MaxVersion
    /\ New # {} /\ Fresh(t)
    /\ row' = [row EXCEPT ![n] = Superseded(@, t)]
    /\ written' = [written EXCEPT ![n] = @ \cup {t}]
    /\ lost' = lost \cup Evicted(row[n].past)
    /\ UNCHANGED <<conflict, offer, took>>

(* promote, quarantine: the trust changes, the trigger counts, the text    *)
(* stays.                                                                  *)
SetTrust(n) ==
    /\ row[n] # Nothing
    /\ row[n].version < MaxVersion
    /\ row' = [row EXCEPT ![n].version = @ + 1]
    /\ UNCHANGED <<conflict, offer, took, written, lost>>

Publish(n) ==
    /\ row[n] # Nothing
    /\ offer[n] # row[n]
    /\ offer' = [offer EXCEPT ![n] = row[n]]
    /\ UNCHANGED <<row, conflict, took, written, lost>>

-----------------------------------------------------------------------------
(* Import of the bundle m offers.  A bundle taken already is skipped.      *)

Offering(n, m) == offer[m] # Nothing /\ offer[m] \notin took[n]

Diverges(n, m) == row[n] # Nothing /\ row[n].text # offer[m].text

Took(n, m) == took' = [took EXCEPT ![n] = @ \cup {offer[m]}]

(* conflict = merge and skip: a row that is here stays as it is.  A text   *)
(* that differs opens a conflict, or brings the open one up to date.       *)
Noted_Once(n, m) ==                 \* seeded fault: ON CONFLICT DO NOTHING
    IF Diverges(n, m) /\ conflict[n] = Nothing
    THEN [ours |-> row[n].text, theirs |-> offer[m].text] ELSE conflict[n]

Noted(n, m) ==
    IF Diverges(n, m)
    THEN [ours |-> row[n].text, theirs |-> offer[m].text] ELSE conflict[n]

Merge(n, m) ==
    /\ Offering(n, m)
    /\ Took(n, m)
    /\ row' = [row EXCEPT ![n] = IF @ = Nothing THEN offer[m] ELSE @]
    /\ conflict' = [conflict EXCEPT ![n] = Noted(n, m)]
    /\ UNCHANGED <<offer, written, lost>>

(* conflict = overwrite: the incoming text replaces one that differs, and a*)
(* conflict that is open stays open.                                       *)
Overwrite(n, m) ==
    /\ Offering(n, m)
    /\ Diverges(n, m) => row[n].version < MaxVersion
    /\ Took(n, m)
    /\ row' = [row EXCEPT ![n] =
            IF @ = Nothing THEN offer[m]
            ELSE IF Diverges(n, m) THEN Superseded(@, offer[m].text) ELSE @]
    /\ lost' = IF Diverges(n, m) THEN lost \cup Evicted(row[n].past) ELSE lost
    /\ UNCHANGED <<conflict, offer, written>>

-----------------------------------------------------------------------------
(* resolve.                                                                *)

KeepOurs(n) ==
    /\ conflict[n] # Nothing
    /\ conflict' = [conflict EXCEPT ![n] = Nothing]
    /\ UNCHANGED <<row, offer, took, written, lost>>

KeepBoth(n) ==
    /\ conflict[n] # Nothing
    /\ row' = [row EXCEPT ![n].past = Appended(@, conflict[n].theirs)]
    /\ conflict' = [conflict EXCEPT ![n] = Nothing]
    /\ lost' = lost \cup Evicted(row[n].past)
    /\ UNCHANGED <<offer, took, written>>

(* What goes to the history is the local text of when the conflict was     *)
(* noted; a text that took its place since then goes nowhere.  The version *)
(* counts when the text changes, by the statement or by the trigger.       *)
Displaced(n) ==
    {row[n].text} \ ({conflict[n].ours, conflict[n].theirs} \cup Range(row[n].past))

KeepTheirs(n) ==
    /\ conflict[n] # Nothing
    /\ row[n].version < MaxVersion
    /\ row' = [row EXCEPT ![n] =
            [text |-> conflict[n].theirs, version |-> @.version + 1,
             past |-> Appended(@.past, conflict[n].ours)]]
    /\ conflict' = [conflict EXCEPT ![n] = Nothing]
    /\ lost' = lost \cup Evicted(row[n].past) \cup Displaced(n)
    /\ UNCHANGED <<offer, took, written>>

-----------------------------------------------------------------------------
TextsNext ==
    \E n \in Node :
        \/ \E t \in Text : Write(n, t) \/ Correct(n, t)
        \/ SetTrust(n)
        \/ Publish(n)
        \/ \E m \in Node : Merge(n, m) \/ Overwrite(n, m)
        \/ KeepOurs(n)
        \/ KeepBoth(n)
        \/ KeepTheirs(n)

TextsSpec == TextsInit /\ [][TextsNext]_textsVars

-----------------------------------------------------------------------------
(* Properties.                                                             *)

Held(n) == IF row[n] = Nothing THEN {} ELSE {row[n].text} \cup Range(row[n].past)

(* Migration 0048, "keep both versions, never lose one": what the users of *)
(* a node wrote is still that node's text or in its history, whatever was  *)
(* imported, overwritten, corrected and resolved since - except for what   *)
(* the cap let go and a stale keep = theirs displaced.                     *)
OwnTextsSurvive == \A n \in Node : written[n] \subseteq Held(n) \cup lost

(* Migration 0052: "There is no fourth option that discards anything."     *)
ResolvingDiscardsNothing ==
    [][\A n \in Node :
        KeepTheirs(n) => row[n].text \in {row'[n].text} \cup Range(row'[n].past)]_textsVars
=============================================================================
