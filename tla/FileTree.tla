------------------------------- MODULE FileTree -------------------------------
(***************************************************************************)
(* The recursive file commands on one target: `gnoic file get`, `file stat *)
(* --recursive` and `file remove` (app/file.go, fileGet.go, fileStat.go,   *)
(* fileRemove.go).  Whether a path is a directory, what it holds and its   *)
(* content are separate RPCs, between which another client of the target   *)
(* changes the tree.                                                       *)
(***************************************************************************)
EXTENDS Sequences, FiniteSets, SequencesExt

CONSTANTS
    Names,        \* names in a directory
    TreeDepth,    \* longest path below the root
    TreeChanges   \* changes by the other client: bounds the model

ASSUME TreeAssumption == IsFiniteSet(Names) /\ TreeDepth \in Nat

Paths == UNION {[1..n -> Names] : n \in 0..TreeDepth}
Root  == <<>>
Dir(p) == Front(p)

\* What can be at a path; the deepest ones are not directories, a bound.
Kinds(p) == {"absent", "file"} \cup IF Len(p) < TreeDepth THEN {"dir"} ELSE {}

VARIABLES
    walker,   \* "get", "remove" or "stat", "none"
    tree,     \* what is at each path: "absent", "file" or "dir"
    before,   \* the files when the command started
    touched,  \* paths the other client changed since
    todo,     \* the calls in progress, the innermost first: what and of which path
    seen,     \* paths downloaded, removed or listed
    skipped,  \* a call of stat failed, and was only logged
    walked    \* what the command returned

treeVars == <<walker, tree, before, touched, todo, seen, skipped, walked>>

Entries(p) == {q \in Paths : q # Root /\ Dir(q) = p /\ tree[q] # "absent"}

Trees == {t \in [Paths -> {"absent", "file", "dir"}] :
             /\ t[Root] # "absent"
             /\ \A p \in Paths \ {Root} :
                    t[p] \in Kinds(p) /\ (t[p] # "absent" => t[Dir(p)] = "dir")}

TreeInit ==
    /\ walker \in {"get", "remove", "stat"}
    /\ tree \in Trees
    /\ before = {p \in Paths : tree[p] = "file"}
    /\ touched = {}
    /\ todo = IF walker = "stat" THEN <<<<"list", Root>>>> ELSE <<<<"isDir", Root>>>>
    /\ seen = {} /\ skipped = FALSE /\ walked = "none"

-----------------------------------------------------------------------------
Walking(op) == /\ walked = "none" /\ todo # <<>> /\ Head(todo)[1] = op
               /\ UNCHANGED <<walker, before, touched>>
Here == Head(todo)[2]
Call(ops, p) == [i \in DOMAIN ops |-> <<ops[i], p>>]

\* The call returns an error: get and remove return it, stat does for the path it
\* was given, and otherwise logs it and goes on.
WalkError ==
    /\ IF walker = "stat" /\ Head(todo) # <<"list", Root>>
       THEN todo' = Tail(todo) /\ skipped' = TRUE /\ UNCHANGED walked
       ELSE todo' = <<>> /\ walked' = "error" /\ UNCHANGED skipped
    /\ UNCHANGED <<tree, seen>>

WalkOn(calls) == todo' = calls \o Tail(todo) /\ UNCHANGED <<tree, skipped, walked>>

\* isDir, of a path that is one or is not.
isDir ==
    /\ Walking("isDir") /\ tree[Here] # "absent"
    /\ IF walker = "stat"
       THEN /\ seen' = seen \cup {Here}
            /\ WalkOn(IF tree[Here] = "dir" THEN Call(<<"list">>, Here) ELSE <<>>)
       ELSE /\ UNCHANGED seen
            /\ WalkOn(Call(IF tree[Here] = "dir" THEN <<"list">> ELSE <<walker>>, Here))

\* Mutant: the entries after the first are left.
WalkListFirst ==
    /\ Walking("list") /\ tree[Here] # "absent"
    /\ tree[Here] = "dir" /\ Entries(Here) # {}
    /\ UNCHANGED seen
    /\ \E q \in Entries(Here) : WalkOn(Call(<<"isDir">>, q))

\* Mutant: the entries include the directory itself.
WalkListSelf ==
    /\ Walking("list") /\ tree[Here] # "absent"
    /\ ~(walker = "remove" /\ tree[Here] = "dir" /\ Entries(Here) = {})
    /\ UNCHANGED seen
    /\ WalkOn(Call(<<"isDir">>, Here))

\* Stat of a directory, whose entries are next; of what is a file by now, itself.
WalkList ==
    /\ Walking("list") /\ tree[Here] # "absent"
    /\ ~(walker = "remove" /\ tree[Here] = "dir" /\ Entries(Here) = {})
    /\ UNCHANGED seen
    /\ \E order \in SetToSeqs(IF tree[Here] = "dir" THEN Entries(Here) ELSE {Here}) :
           WalkOn([i \in DOMAIN order |-> <<"isDir", order[i]>>])

\* remove: the directory is empty.
WalkEmpty ==
    /\ Walking("list") /\ walker = "remove"
    /\ tree[Here] = "dir" /\ Entries(Here) = {}
    /\ WalkError

\* Get of a file: module Download, which says what is saved.  A path counts as downloaded
\* here once its Get succeeds, which fileGet does without a whole local file when the
\* server sends no hash or the local write fails (`unsaved` there).
WalkGet ==
    /\ Walking("get") /\ tree[Here] = "file"
    /\ seen' = seen \cup {Here}
    /\ WalkOn(<<>>)

\* Remove of a file.
WalkRemove ==
    /\ Walking("remove") /\ tree[Here] = "file"
    /\ tree' = [tree EXCEPT ![Here] = "absent"]
    /\ seen' = seen \cup {Here}
    /\ todo' = Tail(todo)
    /\ UNCHANGED <<skipped, walked>>

\* The RPC fails: the path is gone, or is a directory now, or the connection is lost.
WalkFails ==
    /\ \E op \in {"isDir", "list", "get", "remove"} : Walking(op)
    /\ WalkError

WalkReturn ==
    /\ walked = "none" /\ todo = <<>>
    /\ walker # "none"
    /\ walked' = "nil"
    /\ UNCHANGED <<walker, tree, before, touched, todo, seen, skipped>>

\* Another client of the target creates or removes a file or a directory.
OtherClient ==
    /\ walked = "none" /\ walker # "none"
    /\ Cardinality(touched) < TreeChanges
    /\ \E p \in Paths \ (touched \cup {Root}) :
           /\ \/ /\ tree[p] = "absent" /\ tree[Dir(p)] = "dir"
                 /\ \E what \in Kinds(p) \ {"absent"} : tree' = [tree EXCEPT ![p] = what]
              \/ /\ tree[p] = "file" \/ (tree[p] = "dir" /\ Entries(p) = {})
                 /\ tree' = [tree EXCEPT ![p] = "absent"]
           /\ touched' = touched \cup {p}
    /\ UNCHANGED <<walker, before, todo, seen, skipped, walked>>

TreeWalk == \/ isDir \/ WalkList \/ WalkEmpty \/ WalkGet \/ WalkRemove
            \/ WalkFails \/ WalkReturn
TreeNext == TreeWalk \/ OtherClient

TreeFairness == WF_treeVars(TreeWalk)

TreeSpec == TreeInit /\ [][TreeNext]_treeVars /\ TreeFairness

-----------------------------------------------------------------------------
\* A recursive command that succeeds did all it was asked: whatever another client
\* does meanwhile, a file it did not touch was downloaded, or removed, or, if no
\* failure was logged, listed.
WalkNilIsWhole ==
    walked = "nil" /\ ~skipped => before \ touched \subseteq seen

\* A recursive command ends.
WalkEnds == walker # "none" ~> walked # "none"
=============================================================================
