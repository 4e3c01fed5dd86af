------------------------------- MODULE FileStore -------------------------------
(***************************************************************************)
(* The File service as its clients see it: a path is absent or holds a     *)
(* file.  An upload offers a content for one path, the one its client      *)
(* declared, and may later put it there, whole, in one step and once.  An  *)
(* upload that begins leaves its path empty, a removal makes a path        *)
(* absent.  There is nothing in between: no content is ever seen under a   *)
(* path but what was offered for that path and not yet placed.             *)
(***************************************************************************)
CONSTANTS Paths, Uploads, Digests, OldData
VARIABLES file,   \* file[n]: whether path n exists, and its content
          offer   \* the offers made and neither published nor withdrawn

File(c) == [exists |-> TRUE, content |-> c]
Absent  == [exists |-> FALSE, content |-> <<>>]

Init == /\ \E old \in SUBSET Paths :
              file = [n \in Paths |-> IF n \in old THEN File(OldData[n]) ELSE Absent]
        /\ offer = {}

Begin(n)  == file' = [file EXCEPT ![n] = File(<<>>)] /\ UNCHANGED offer
Delete(n) == file' = [file EXCEPT ![n] = Absent] /\ UNCHANGED offer

\* An upload has one offer at a time.
Offer(u, n, h) ==
    /\ \A o \in offer : o.by # u
    /\ offer' = offer \cup {[by |-> u, path |-> n, content |-> h]}
    /\ UNCHANGED file

\* An offer is not taken up: the hash was wrong, the upload or the server died.
Withdraw == offer' \in SUBSET offer /\ UNCHANGED file

Publish(o) ==
    /\ offer' = offer \ {o}
    /\ file' = [file EXCEPT ![o.path] = File(o.content)]

Next == \/ \E n \in Paths : Begin(n) \/ Delete(n)
        \/ \E u \in Uploads, n \in Paths, h \in Digests : Offer(u, n, h)
        \/ Withdraw
        \/ \E o \in offer : Publish(o)

Spec == Init /\ [][Next]_<<file, offer>>
=============================================================================
