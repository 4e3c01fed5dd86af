----------------------------- MODULE MCFileServer -----------------------------
(* FileServer on small sets of RPCs. *)
EXTENDS FileServer, TLC

CONSTANTS c1, c2

\* A hash declared by a client is that of any content up to MaxLen chunks.
MCDigests == BoundedSeq(Chunks, MaxLen)

\* Uploads are alike: nothing in FileServer tells one from another.
MCSymmetry == Permutations(Puts)

\* Files that exist at the start hold two chunks, so that a reader can be
\* overtaken between them.
MCOldData == [n \in Paths |-> <<c1, c2>>]

Idle(rpc) == \A h \in DOMAIN rpc : rpc[h].pc = "idle"

\* Bound on what meets: all the uploads and a Get, in one life of the server; one
\* upload, a removal, a TransferToRemote and kills; a Stat and kills.  The names that
\* idle RPCs were given do not matter.
MCReaders ==
    \/ /\ Idle(xfer) /\ Idle(rm) /\ Idle(stat)
       /\ \A p \in Puts : put[p].pc # "dead"
       /\ \A g \in Gets : get[g].pc # "dead"
       /\ \A x \in Transfers : xfer[x].name \in Paths
       /\ \A r \in Removes : rm[r].name \in Paths
    \/ /\ Idle(get) /\ Idle(stat)
       /\ \A g \in Gets : get[g].name \in Paths
       /\ \E p \in Puts : \A q \in Puts \ {p} : put[q].pc = "idle"
    \/ Idle(put) /\ Idle(get) /\ Idle(xfer) /\ Idle(rm)
=============================================================================
