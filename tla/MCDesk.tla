------------------------------- MODULE MCDesk --------------------------------
(* Small instances for TLC of what a node keeps besides the graph: texts of *)
(* observations, artifacts, the audit chain.  They share no state, so one   *)
(* behaviour is about one of them, its subject, and the others rest.        *)
EXTENDS Texts, Artifacts, AuditChain, TLC

CONSTANTS a, b, t1, t2, t3, anna, ben, cleo, x, k1, k2, k3, seal,
    MaxImports,     \* bound on the bundles a node takes while both write
    MaxShared       \* bound on the version of an artifact of several nodes

ASSUME DeskAssumption == a \in Node /\ b \in Node

CleoApart == [c \in Client |-> IF c = cleo THEN b ELSE a]

(* The name on the other node lies between the two on the first.           *)
CleoBetween == [c \in Client |-> IF c = anna THEN 1 ELSE IF c = cleo THEN 2 ELSE 3]

VARIABLE subject

deskVars == <<textsVars, artifactsVars, auditVars>>

Init ==
    /\ subject \in {"texts", "followed", "artifacts", "desk", "audit"}
    /\ TextsInit
    /\ ArtifactsInit
    /\ AuditInit
    /\ subject = "audit" \/ key = [c \in Call |-> Plain]
    /\ scoped => subject = "artifacts"

-----------------------------------------------------------------------------
(* Texts that only one node's users write, and another follows: it takes    *)
(* bundles as they come and resolves every conflict for the other's text.   *)
FollowNext ==
    \/ \E t \in Text : Write(a, t) \/ Correct(a, t)
    \/ SetTrust(a)
    \/ \E n \in Node : Publish(n)
    \/ Merge(a, b)
    \/ Merge(b, a)
    \/ KeepOurs(a)
    \/ KeepBoth(a)
    \/ KeepTheirs(b)

TextsStep ==
    /\ TextsNext
    /\ \A n \in Node : Cardinality(took'[n]) <= MaxImports
    /\ UNCHANGED <<artifactsVars, auditVars>>

FollowStep == FollowNext /\ UNCHANGED <<artifactsVars, auditVars>>

ArtifactsStep ==
    /\ ArtifactsNext
    /\ \A v \in issued' : v.stamp.counter <= MaxShared
    /\ UNCHANGED <<textsVars, auditVars>>

(* The clients of one node among themselves get further.                   *)
OneDeskStep ==
    /\ ArtifactsNext
    /\ artifact'[b] = Blank /\ bundled'[a] = Blank
    /\ UNCHANGED <<textsVars, auditVars>>

AuditStep == AuditNext /\ UNCHANGED <<textsVars, artifactsVars>>

Next ==
    /\ UNCHANGED subject
    /\ \/ subject = "texts" /\ TextsStep
       \/ subject = "followed" /\ FollowStep
       \/ subject = "artifacts" /\ ArtifactsStep
       \/ subject = "desk" /\ OneDeskStep
       \/ subject = "audit" /\ AuditStep

(* Bundles keep being made and taken, and the follower's operator keeps     *)
(* closing conflicts.                                                       *)
Following ==
    /\ WF_textsVars(subject = "followed" /\ \E n \in Node : Publish(n))
    /\ WF_textsVars(subject = "followed" /\ Merge(b, a))
    /\ WF_textsVars(subject = "followed" /\ KeepTheirs(b))

Spec == Init /\ [][Next]_<<subject, deskVars>> /\ Following /\ ArtifactsFairness
        /\ AuditFairness

-----------------------------------------------------------------------------
(* The state of all three is well formed.                                  *)
DeskTypeOK == TextsTypeOK /\ ArtifactsTypeOK /\ AuditTypeOK

(* A follower that keeps the other's text shows it in the end, although     *)
(* bundles are old or skipped and a conflict is noted anew while it is open.*)
FollowerCatchesUp ==
    <>[](subject = "followed" /\ row[a] # Nothing => row[b] # Nothing /\ row[b].text = row[a].text)
=============================================================================
