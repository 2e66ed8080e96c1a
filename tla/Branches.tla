------------------------------ MODULE Branches -------------------------------
(***************************************************************************)
(* Replication through git (hooks_cli.rs): each node commits its bundle on *)
(* a branch of its own, the post-commit hook writes the bundle anew from   *)
(* the database, git merges the other branch with `hook merge-driver`, and *)
(* the post-merge hook imports what the merge left.                        *)
(*                                                                         *)
(* git merges file by file against the commit both branches have: a file   *)
(* only one side changed is that side's, one that both changed is the      *)
(* driver's, and one that a side removed and the other changed is left to a*)
(* person.  A file is the rows in it.  The branches are two, and the commit*)
(* they share is the tip that was merged last.  The hook exports after the *)
(* commit, so a bundle is committed by the next one: the two are one step. *)
(***************************************************************************)
EXTENDS ReplicaSync

ASSUME BranchesAssumption == \A n, m, k \in Node : n # m => k \in {n, m}

VARIABLES
    base,       \* the tree of the last commit both branches have
    commits,    \* commits[n]: how many bundles n wrote
    hooked,     \* hooked[n]: the post-merge hook has yet to run
    merged,     \* merged[n]: what the last merge owes n, until n exports again (history)
    excused,    \* excused[n]: rows a merge of n may leave out (history)
    refused     \* refused[n]: rows of merges whose import came to nothing (history)

branchVars == <<base, commits, hooked, merged, excused, refused>>

EmptyTree == [rows |-> {}, ends |-> [r \in Row |-> {}], tombs |-> {}]

Tip(n) ==
    IF bundle[n] = NoBundle THEN EmptyTree
    ELSE [rows |-> bundle[n].rows, ends |-> bundle[n].ends, tombs |-> bundle[n].tombs]

Unmerged == [rows |-> {}, ends |-> [r \in Relation |-> {}], landed |-> FALSE]

BranchesInit ==
    /\ base = EmptyTree
    /\ commits = [n \in Node |-> 0]
    /\ hooked = [n \in Node |-> FALSE]
    /\ merged = [n \in Node |-> Unmerged]
    /\ excused = [n \in Node |-> {}]
    /\ refused = [n \in Node |-> {}]

-----------------------------------------------------------------------------
(* git commit, and what its hook exports: the database, over whatever the  *)
(* bundle held.                                                            *)
Commit(n) ==
    /\ ~hooked[n]
    /\ ~OnDisk(n)
    /\ commits[n] < MaxExports[n]
    /\ commits' = [commits EXCEPT ![n] = @ + 1]
    /\ bundle' = [bundle EXCEPT ![n] =
            [digest |-> <<n, commits'[n]>>, rows |-> db[n].rows,
             ends |-> db[n].ends, tombs |-> tombs[n]]]
    /\ merged' = [merged EXCEPT ![n] = Unmerged]
    /\ UNCHANGED <<db, tombs, imported, seen, base, hooked, excused, refused>>

-----------------------------------------------------------------------------
(* What git makes of one file's rows: those it had at the fork, ours and   *)
(* theirs.  The driver keeps what either side has.                         *)
Driven_Ours(ours, theirs) == ours       \* seeded fault: exit 0, nothing written

Driven(ours, theirs) == ours \cup theirs

Merge3(old, ours, theirs) ==
    IF ours = theirs \/ theirs = old THEN ours
    ELSE IF ours = old THEN theirs
    ELSE Driven(ours, theirs)

(* The row files: relations, projects, facts, procedures; and, a row to a  *)
(* file, episodes and errors, which are only ever there or not.            *)
Tables == {Project, Fact, Procedure} \cup {{r} : r \in Episode \cup Error}

OfTable(t, table) == t.rows \cap table

(* An entity's file has its observations.                                  *)
File(t, e) == {r \in t.rows : r = e \/ (r \in Observation /\ t.ends[r] = {e})}

Conflicted(old, ours, theirs, e) ==
    /\ File(old, e) \notin {File(ours, e), File(theirs, e)}
    /\ File(ours, e) # File(theirs, e)
    /\ {} \in {File(ours, e), File(theirs, e)}

(* The relations' file: a relation and what it relates, which two nodes may *)
(* know by different identities.  merge_relations keeps one of a triple, the*)
(* stronger.  One relation in two triples stays twice; the import resolves  *)
(* both to the entities of those names and goes by the one it reads first,  *)
(* so one is kept here, either.                                            *)
Lines(t) == {<<r, t.ends[r]>> : r \in OfTable(t, Relation)}

Twins(p, q) == p[1] = q[1] \/ (LinkOf[p[1]] = LinkOf[q[1]] /\ p[2] = q[2])

Relations(old, ours, theirs) ==
    LET all == Merge3(Lines(old), Lines(ours), Lines(theirs))
    IN  {kept \in SUBSET all :
            /\ \A p, q \in kept : Twins(p, q) => p = q
            /\ \A p \in all : \E q \in kept : Twins(p, q)}

(* An entity git stopped on is kept or dropped, as the person likes.       *)
Stopped(old, ours, theirs) == {e \in Entity : Conflicted(old, ours, theirs, e)}

Held(old, ours, theirs, dropped, e) ==
    IF e \in dropped THEN {} ELSE Merge3(File(old, e), File(ours, e), File(theirs, e))

(* An observation hangs off the entity whose file it is in; of one in two   *)
(* files, because each node knows the entity under an identity of its own,  *)
(* ours is the one that counts.                                            *)
FromOurs(old, ours, theirs, dropped, r) ==
    /\ r \in ours.rows
    /\ r \in Observation =>
          \E e \in ours.ends[r] : r \in Held(old, ours, theirs, dropped, e)

MergedTables(old, ours, theirs) ==
    UNION {Merge3(OfTable(old, t), OfTable(ours, t), OfTable(theirs, t)) : t \in Tables}

MergedFiles(old, ours, theirs, dropped) ==
    UNION {Held(old, ours, theirs, dropped, e) : e \in Entity}

MergedRows(old, ours, theirs, dropped, relations) ==
    MergedTables(old, ours, theirs) \cup MergedFiles(old, ours, theirs, dropped)
      \cup {p[1] : p \in relations}

MergedTree(old, ours, theirs, dropped, relations) ==
    LET rows == MergedRows(old, ours, theirs, dropped, relations)
    IN  [rows |-> rows,
         ends |-> [r \in Row |->
             IF r \notin rows THEN {}
             ELSE IF r \in Relation THEN (CHOOSE p \in relations : p[1] = r)[2]
             ELSE IF FromOurs(old, ours, theirs, dropped, r) THEN ours.ends[r]
             ELSE theirs.ends[r]],
         tombs |-> Merge3(old.tombs, ours.tombs, theirs.tombs)]

Merges(old, ours, theirs) ==
    {MergedTree(old, ours, theirs, dropped, relations) :
        dropped \in SUBSET Stopped(old, ours, theirs),
        relations \in Relations(old, ours, theirs)}

(* recompute_digest goes by the files, whatever the manifest says.         *)
Again(n, tree) == bundle[n] # NoBundle /\ tree = Tip(n)

Stamped(n, m, tree) ==
    IF Again(m, tree) THEN bundle[m].digest
    ELSE IF Again(n, tree) THEN bundle[n].digest
    ELSE <<n, commits[n] + 1>>

Counted(n, m, tree) ==
    IF Again(m, tree) \/ Again(n, tree) THEN commits[n] ELSE commits[n] + 1

(* The rows a merge may leave out: a tombstone of either side is about them *)
(* or about what they hang off, or git stopped on their file.              *)
Excused(old, ours, theirs) ==
    {r \in ours.rows \cup theirs.rows :
        ({r} \cup ours.ends[r] \cup theirs.ends[r]) \cap (ours.tombs \cup theirs.tombs) # {}}
      \cup UNION {File(ours, e) \cup File(theirs, e) : e \in Stopped(old, ours, theirs)}

(* What either branch has a relation relate, ours where both have it.      *)
Ends(ours, theirs, r) == IF r \in ours.rows THEN ours.ends[r] ELSE theirs.ends[r]

GitMerge(n, m) ==
    /\ n # m
    /\ ~hooked[n]
    /\ bundle[m] # NoBundle
    /\ Tip(m) # base
    /\ commits[n] < MaxExports[n]
    /\ \E tree \in Merges(base, Tip(n), Tip(m)) :
          /\ bundle' = [bundle EXCEPT ![n] =
                [digest |-> Stamped(n, m, tree), rows |-> tree.rows,
                 ends |-> tree.ends, tombs |-> tree.tombs]]
          /\ commits' = [commits EXCEPT ![n] = Counted(n, m, tree)]
    /\ base' = Tip(m)
    /\ hooked' = [hooked EXCEPT ![n] = TRUE]
    /\ excused' = [excused EXCEPT ![n] = @ \cup Excused(base, Tip(n), Tip(m))]
    /\ merged' = [merged EXCEPT ![n] =
            [rows |-> (Tip(n).rows \cup Tip(m).rows) \ excused'[n],
             ends |-> [r \in Relation |-> Ends(Tip(n), Tip(m), r)],
             landed |-> FALSE]]
    /\ UNCHANGED <<db, tombs, imported, seen, refused>>

-----------------------------------------------------------------------------
(* post-merge, or post-commit of a commit with a second parent: sync import*)
(* with its defaults, whose failure the hook ignores.                      *)

(* A merged bundle, unlike an exported one, may hold two entities of one    *)
(* name and project.  If neither is here both are inserted, and the second  *)
(* meets UNIQUE NULLS NOT DISTINCT (name, project_id).                     *)
NamesClash(n) ==
    /\ Offered(n, n)
    /\ ~Alarmed(db[n], bundle[n], FALSE, TRUE)
    /\ bundle[n].digest \notin imported[n]
    /\ \E by \in ByName(AfterTombstones(db[n], bundle[n], TRUE)) :
            ~NamesUnique(Result(db[n], by, bundle[n], TRUE))
    /\ UNCHANGED vars

HookLands(n) ==
    /\ \/ ImportCommitted(n, n, FALSE, TRUE) /\ NamesUnique(db'[n])
       \/ ImportSkipped(n, n, FALSE, TRUE)
    /\ merged' = [merged EXCEPT ![n].landed = TRUE]
    /\ UNCHANGED refused

HookFails(n) ==
    /\ \/ ImportAlarmed(n, n, FALSE, TRUE)
       \/ ImportRejected(n, n, FALSE, TRUE)
       \/ NamesClash(n)
       \/ ~Valid(db[n], bundle[n]) /\ UNCHANGED vars
    /\ refused' = [refused EXCEPT ![n] = @ \cup merged[n].rows]
    /\ UNCHANGED merged

HookImports(n) ==
    /\ hooked[n]
    /\ hooked' = [hooked EXCEPT ![n] = FALSE]
    /\ HookLands(n) \/ HookFails(n)
    /\ UNCHANGED <<base, commits, excused>>

BranchesNext ==
    \E n \in Node :
        \/ Local(n) /\ UNCHANGED branchVars
        \/ Commit(n)
        \/ \E m \in Node : GitMerge(n, m)
        \/ HookImports(n)

BranchesSpec == Init /\ BranchesInit /\ [][BranchesNext]_<<vars, branchVars>>

-----------------------------------------------------------------------------
(* Properties.                                                             *)

(* What the next export holds of what the branches held: the row itself or  *)
(* its tombstone, an entity of its name, or the relation that stands for its*)
(* triple, by the names of its ends.                                       *)
EndNames(ends) == {NameOf[e] : e \in ends}

Accounted(s, buried, r, ends) ==
    \/ r \in s.rows \cup buried
    \/ r \in Entity /\ \E f \in (s.rows \cup buried) \cap Entity : NameOf[f] = NameOf[r]
    \/ /\ r \in Relation
       /\ \E q \in Relation :
             /\ LinkOf[q] = LinkOf[r]
             /\ \/ q \in buried
                \/ q \in s.rows /\ EndNames(s.ends[q]) = EndNames(ends)

KeepsBothSides(n, rows) ==
    \A r \in rows : Accounted(db[n], tombs[n], r, merged[n].ends[r])

(* README.md, "The merge driver merges what it knows": neither side's rows *)
(* are dropped.  Once the hook has imported a merge this node has, or has   *)
(* since deleted, every row either branch had, except for rows one of them  *)
(* had buried, those git stopped on, and those of an earlier merge whose    *)
(* import was refused: for git these are rows this branch removed.          *)
LandedMergesKeepBothSides ==
    \A n \in Node : merged[n].landed => KeepsBothSides(n, merged[n].rows \ refused[n])

(* The same of every merge, whatever its import came to: README.md has the  *)
(* hooks import because without that "the next commit exported the database *)
(* over it, dropping the other side's rows".                               *)
MergesReachTheDatabase ==
    [][\A n \in Node : Commit(n) => KeepsBothSides(n, merged[n].rows)]_<<vars, branchVars>>
=============================================================================
