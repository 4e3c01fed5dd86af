--------------------------- MODULE FileServerProofs ---------------------------
(***************************************************************************)
(* Proofs about FileServer, for any number of RPCs, paths and chunks.      *)
(***************************************************************************)
EXTENDS FileServer, TLAPS

\* Every inode a step names is one of Inodes, and none is NoInode.
LEMMA InodeFacts ==
  /\ \A n \in Paths : OldInode(n) \in Inodes
  /\ \A p \in Puts : NewInode(p) \in Inodes /\ TmpInode(p) \in Inodes
  /\ NoInode \notin Inodes
BY NoInodeAssumption DEF Inodes

\* Inodes of different kinds or owners are different.
LEMMA InodesDiffer ==
  /\ \A n, p : OldInode(n) # NewInode(p) /\ OldInode(n) # TmpInode(p)
               /\ NewInode(n) # TmpInode(p)
  /\ \A p, q : (TmpInode(p) = TmpInode(q) \/ NewInode(p) = NewInode(q)
                \/ OldInode(p) = OldInode(q)) => p = q
BY DEF OldInode, NewInode, TmpInode

\* The server starts with every variable in its type.
LEMMA TypeInit == Init => Typed
<1> SUFFICES ASSUME Init PROVE Typed
  OBVIOUS
<1>0. <<>> \in Seq(Chunks)
  OBVIOUS
<1>1. dir \in [Names -> Inodes \cup {NoInode}]
  <2>1. PICK old \in SUBSET Paths :
           dir = [n \in Names |-> IF n \in old THEN OldInode(n) ELSE NoInode]
    BY DEF Init
  <2> QED
    BY <2>1, InodeFacts
<1>2. data \in [Inodes -> Seq(Chunks)]
  <2>1. \A i \in Inodes : i[1] = "old" => i[2] \in Paths
    BY DEF Inodes, OldInode, NewInode, TmpInode
  <2> QED
    BY <2>1, FileServerAssumption DEF Init
<1>3. mode \in [Inodes -> Modes] /\ umask \in Modes
  BY FileServerAssumption DEF Init, Modes
<1>4. put \in [Puts -> PutRPC]
  <2>1. ASSUME NEW n \in Paths, NEW m \in Modes
        PROVE  [pc |-> "idle", path |-> n, perm |-> m, hash |-> <<>>] \in PutRPC
    BY <1>0 DEF PutRPC
  <2> QED
    BY <2>1 DEF Init
<1>5. get \in [Gets -> GetRPC]
  <2>1. ASSUME NEW n \in Names
        PROVE  [pc |-> "idle", name |-> n, ino |-> NoInode, sent |-> <<>>] \in GetRPC
    BY <1>0 DEF GetRPC
  <2> QED
    BY <2>1 DEF Init
<1>6. xfer \in [Transfers -> TransferRPC]
  <2>1. ASSUME NEW n \in Names
        PROVE  [pc |-> "idle", name |-> n, ino |-> NoInode, sent |-> <<>>,
                hashed |-> <<>>] \in TransferRPC
    BY <1>0 DEF TransferRPC
  <2> QED
    BY <2>1 DEF Init
<1>7. rm \in [Removes -> RemoveRPC]
  BY DEF Init, RemoveRPC
<1>8. stat \in [Stats -> StatRPC]
  BY DEF Init, StatRPC, Modes
<1> QED
  BY <1>1, <1>2, <1>3, <1>4, <1>5, <1>6, <1>7, <1>8 DEF Typed

\* Putting a handler in another state changes no type.
LEMMA PutMoves ==
  ASSUME put \in [Puts -> PutRPC], NEW p \in Puts,
         NEW c \in {"opened", "receiving", "verified", "renamed", "ok", "failed"},
         put' = [put EXCEPT ![p].pc = c]
  PROVE  put' \in [Puts -> PutRPC]
BY DEF PutRPC

\* Put steps keep every variable in its type.
LEMMA PutType ==
  ASSUME Typed, NEW p \in Puts, PutStep(p)
  PROVE  Typed'
<1>0. /\ dir \in [Names -> Inodes \cup {NoInode}] /\ data \in [Inodes -> Seq(Chunks)]
      /\ mode \in [Inodes -> Modes] /\ umask \in Modes /\ put \in [Puts -> PutRPC]
      /\ put[p].path \in Paths /\ put[p].perm \in Modes /\ p \in Names
      /\ Paths \subseteq Names
  BY DEF Typed, PutRPC, Names
<1>1. /\ umask' \in Modes /\ get' \in [Gets -> GetRPC]
      /\ xfer' \in [Transfers -> TransferRPC]
      /\ rm' \in [Removes -> RemoveRPC] /\ stat' \in [Stats -> StatRPC]
  BY DEF Typed, PutStep, PutOpen, PutCreateTemp, PutContents, PutHash, PutVerify,
         PutRename, PutChmod, PutFail
<1>2. CASE PutOpen(p)
  <2>1. put' \in [Puts -> PutRPC]
    BY <1>0, <1>2, PutMoves DEF PutOpen
  <2>2. put[p].perm \ umask \in Modes
    BY <1>0 DEF Modes
  <2>3. /\ dir' \in [Names -> Inodes \cup {NoInode}] /\ data' \in [Inodes -> Seq(Chunks)]
        /\ mode' \in [Inodes -> Modes]
    <3>1. CASE Exists(put[p].path)
      <4>1. dir' = dir /\ mode' = mode /\ data' = [data EXCEPT ![dir[put[p].path]] = <<>>]
        BY <1>2, <3>1 DEF PutOpen
      <4>2. dir[put[p].path] \in Inodes /\ <<>> \in Seq(Chunks)
        BY <1>0, <3>1 DEF Exists
      <4>3. data' \in [Inodes -> Seq(Chunks)]
        BY <1>0, <4>1, <4>2
      <4> QED
        BY <1>0, <4>1, <4>3
    <3>2. CASE ~Exists(put[p].path)
      <4>1. /\ dir' = [dir EXCEPT ![put[p].path] = NewInode(p)]
            /\ data' = [data EXCEPT ![NewInode(p)] = <<>>]
            /\ mode' = [mode EXCEPT ![NewInode(p)] = put[p].perm \ umask]
        BY <1>2, <3>2 DEF PutOpen
      <4> QED
        BY <1>0, <2>2, <4>1, InodeFacts
    <3> QED
      BY <3>1, <3>2
  <2> QED
    BY <1>1, <2>1, <2>3 DEF Typed
<1>3. CASE PutCreateTemp(p)
  <2>1. put' \in [Puts -> PutRPC]
    BY <1>0, <1>3, PutMoves DEF PutCreateTemp
  <2>2. {} \in Modes
    BY DEF Modes
  <2>3. /\ dir' \in [Names -> Inodes \cup {NoInode}] /\ data' \in [Inodes -> Seq(Chunks)]
        /\ mode' \in [Inodes -> Modes]
    BY <1>0, <1>3, <2>2, InodeFacts DEF PutCreateTemp
  <2> QED
    BY <1>1, <2>1, <2>3 DEF Typed
<1>4. CASE PutContents(p)
  BY <1>0, <1>1, <1>4, InodeFacts DEF PutContents, Typed
<1>5. CASE PutHash(p)
  <2>1. put' \in [Puts -> PutRPC]
    <3>1. PICK h \in Digests : put' = [put EXCEPT ![p].pc = "reopened", ![p].hash = h]
      BY <1>5 DEF PutHash
    <3>2. h \in Seq(Chunks)
      BY FileServerAssumption
    <3>3. put[p] \in PutRPC
      BY <1>0
    <3>4. [put[p] EXCEPT !.pc = "reopened", !.hash = h] \in PutRPC
      BY <3>2, <3>3 DEF PutRPC
    <3>5. put' = [put EXCEPT ![p] = [put[p] EXCEPT !.pc = "reopened", !.hash = h]]
      BY <1>0, <3>1
    <3> QED
      BY <1>0, <3>4, <3>5
  <2> QED
    BY <1>0, <1>1, <1>5, <2>1 DEF PutHash, files, Typed
<1>6. CASE PutVerify(p) \/ PutFail(p)
  <2>1. put' \in [Puts -> PutRPC]
    BY <1>0, <1>6, PutMoves DEF PutVerify, PutFail
  <2> QED
    BY <1>0, <1>1, <1>6, <2>1 DEF PutVerify, PutFail, files, Typed
<1>7. CASE PutRename(p)
  <2>1. put' \in [Puts -> PutRPC]
    BY <1>0, <1>7, PutMoves DEF PutRename
  <2>2. dir' \in [Names -> Inodes \cup {NoInode}]
    BY <1>0, <1>7 DEF PutRename
  <2> QED
    BY <1>0, <1>1, <1>7, <2>1, <2>2 DEF PutRename, Typed
<1>8. CASE PutChmod(p)
  <2>1. put' \in [Puts -> PutRPC]
    BY <1>0, <1>8, PutMoves DEF PutChmod
  <2>2. mode' \in [Inodes -> Modes]
    BY <1>0, <1>8 DEF PutChmod, Exists
  <2> QED
    BY <1>0, <1>1, <1>8, <2>1, <2>2 DEF PutChmod, Typed
<1> QED
  BY <1>2, <1>3, <1>4, <1>5, <1>6, <1>7, <1>8 DEF PutStep

\* Get steps change nothing but the state of the Get.
LEMMA GetType ==
  ASSUME Typed, Handles, NEW g \in Gets, GetStep(g)
  PROVE  Typed' /\ Handles'
<1>0. /\ get \in [Gets -> GetRPC] /\ get[g].name \in Names
      /\ dir \in [Names -> Inodes \cup {NoInode}] /\ data \in [Inodes -> Seq(Chunks)]
  BY DEF Typed, GetRPC
<1>1. UNCHANGED <<dir, data, mode, umask, put, xfer, rm, stat>>
  BY DEF GetStep, GetStat, GetOpen, GetRead, GetEnd, GetFail, files
<1>2. get' \in [Gets -> GetRPC] /\ (get'[g].pc = "reading" => get'[g].ino \in Inodes)
      /\ \A h \in Gets \ {g} : get'[h] = get[h]
  <2>1. CASE GetStat(g) \/ GetEnd(g) \/ GetFail(g)
    <3>1. PICK c \in {"checked", "ok", "failed"} : get' = [get EXCEPT ![g].pc = c]
      BY <2>1 DEF GetStat, GetEnd, GetFail
    <3> QED
      BY <1>0, <3>1 DEF GetRPC
  <2>2. CASE GetOpen(g)
    <3>1. get' = [get EXCEPT ![g].pc = "reading", ![g].ino = dir[get[g].name]]
      BY <2>2 DEF GetOpen
    <3>2. dir[get[g].name] \in Inodes
      BY <1>0, <2>2 DEF GetOpen, Exists
    <3> QED
      BY <1>0, <3>1, <3>2, ZenonT(60) DEF GetRPC
  <2>3. CASE GetRead(g)
    <3>1. /\ get[g].sent \in Seq(Chunks) /\ get[g].ino \in Inodes
          /\ data[get[g].ino] \in Seq(Chunks)
          /\ Len(get[g].sent) < Len(data[get[g].ino])
      BY <1>0, <2>3 DEF GetRead, Handles, GetRPC
    <3>2. data[get[g].ino][Len(get[g].sent) + 1] \in Chunks
      BY <3>1
    <3>3. Append(get[g].sent, data[get[g].ino][Len(get[g].sent) + 1]) \in Seq(Chunks)
      BY <3>1, <3>2
    <3> QED
      BY <1>0, <2>3, <3>1, <3>3 DEF GetRead, GetRPC
  <2> QED
    BY <2>1, <2>2, <2>3 DEF GetStep
<1>3. Typed'
  BY <1>1, <1>2 DEF Typed
<1>4. Handles'
  BY <1>1, <1>2 DEF Handles
<1> QED
  BY <1>3, <1>4

\* TransferToRemote steps, the panic aside, change nothing but the transfer's state.
LEMMA TransferType ==
  ASSUME Typed, Handles, NEW x \in Transfers,
         TransferStep(x), ~TransferPanic(x)
  PROVE  Typed' /\ Handles'
<1>0. /\ xfer \in [Transfers -> TransferRPC] /\ xfer[x].name \in Names
      /\ dir \in [Names -> Inodes \cup {NoInode}] /\ data \in [Inodes -> Seq(Chunks)]
  BY DEF Typed, TransferRPC
<1>1. UNCHANGED <<dir, data, mode, umask, put, get, rm, stat>>
  BY DEF TransferStep, TransferStat, TransferOpen, TransferCopy, TransferRewind,
         TransferHash, TransferEnd, TransferFail, files
<1>2. /\ xfer' \in [Transfers -> TransferRPC]
      /\ xfer'[x].pc \in {"copying", "hashing"} => xfer'[x].ino \in Inodes
      /\ \A y \in Transfers \ {x} : xfer'[y] = xfer[y]
  <2>1. CASE TransferStat(x) \/ TransferEnd(x) \/ TransferFail(x)
    <3>1. PICK c \in {"checked", "ok", "failed"} : xfer' = [xfer EXCEPT ![x].pc = c]
      BY <2>1 DEF TransferStat, TransferEnd, TransferFail
    <3> QED
      BY <1>0, <3>1, ZenonT(60) DEF TransferRPC
  <2>2. CASE TransferOpen(x)
    <3>1. xfer' = [xfer EXCEPT ![x].pc = "copying", ![x].ino = dir[xfer[x].name]]
      BY <2>2 DEF TransferOpen
    <3>2. dir[xfer[x].name] \in Inodes
      BY <1>0, <2>2 DEF TransferOpen, Exists
    <3> QED
      BY <1>0, <3>1, <3>2, ZenonT(60) DEF TransferRPC
  <2>3. CASE TransferCopy(x)
    <3>1. /\ xfer[x].sent \in Seq(Chunks) /\ xfer[x].ino \in Inodes
          /\ data[xfer[x].ino] \in Seq(Chunks)
          /\ Len(xfer[x].sent) < Len(data[xfer[x].ino])
      BY <1>0, <2>3 DEF TransferCopy, Handles, TransferRPC
    <3>2. data[xfer[x].ino][Len(xfer[x].sent) + 1] \in Chunks
      BY <3>1
    <3>3. Append(xfer[x].sent, data[xfer[x].ino][Len(xfer[x].sent) + 1]) \in Seq(Chunks)
      BY <3>1, <3>2
    <3> QED
      BY <1>0, <2>3, <3>1, <3>3, ZenonT(60) DEF TransferCopy, TransferRPC
  <2>4. CASE TransferHash(x)
    <3>1. /\ xfer[x].hashed \in Seq(Chunks) /\ xfer[x].ino \in Inodes
          /\ data[xfer[x].ino] \in Seq(Chunks)
          /\ Len(xfer[x].hashed) < Len(data[xfer[x].ino])
      BY <1>0, <2>4 DEF TransferHash, Handles, TransferRPC
    <3>2. data[xfer[x].ino][Len(xfer[x].hashed) + 1] \in Chunks
      BY <3>1
    <3>3. Append(xfer[x].hashed, data[xfer[x].ino][Len(xfer[x].hashed) + 1]) \in Seq(Chunks)
      BY <3>1, <3>2
    <3> QED
      BY <1>0, <2>4, <3>1, <3>3, ZenonT(60) DEF TransferHash, TransferRPC
  <2>5. CASE TransferRewind(x)
    <3>1. xfer' = [xfer EXCEPT ![x].pc = "hashing", ![x].hashed = <<>>]
      BY <2>5 DEF TransferRewind
    <3>2. xfer[x].ino \in Inodes
      BY <2>5 DEF TransferRewind, Handles
    <3>3. xfer[x] \in TransferRPC /\ <<>> \in Seq(Chunks)
      BY <1>0
    <3>4. [xfer[x] EXCEPT !.pc = "hashing", !.hashed = <<>>] \in TransferRPC
      BY <3>3 DEF TransferRPC
    <3>5. xfer' = [xfer EXCEPT ![x] = [xfer[x] EXCEPT !.pc = "hashing", !.hashed = <<>>]]
      BY <1>0, <3>1
    <3>6. [xfer[x] EXCEPT !.pc = "hashing", !.hashed = <<>>].ino \in Inodes
      BY <3>2, <3>3 DEF TransferRPC
    <3> QED
      BY <1>0, <3>4, <3>5, <3>6
  <2> QED
    BY <2>1, <2>2, <2>3, <2>4, <2>5 DEF TransferStep
<1>3. Typed'
  BY <1>1, <1>2 DEF Typed
<1>4. Handles'
  BY <1>1, <1>2 DEF Handles
<1> QED
  BY <1>3, <1>4

\* Remove steps re-bind at most one name.
LEMMA RemoveType ==
  ASSUME Typed, NEW r \in Removes, RemoveStep(r)
  PROVE  Typed'
<1>1. rm' \in [Removes -> RemoveRPC]
  <2>1. \/ rm' = rm
        \/ \E c \in {"checked", "ok", "failed"} : rm' = [rm EXCEPT ![r].pc = c]
    BY DEF RemoveStep, RemoveStat, RemoveUnlink, RemoveFail
  <2>2. rm \in [Removes -> RemoveRPC]
    BY DEF Typed
  <2> QED
    BY <2>1, <2>2 DEF RemoveRPC
<1>2. dir' \in [Names -> Inodes \cup {NoInode}]
  BY DEF Typed, RemoveStep, RemoveStat, RemoveUnlink, RemoveFail, files
<1>3. UNCHANGED <<data, mode, umask, put, get, xfer, stat>>
  BY DEF RemoveStep, RemoveStat, RemoveUnlink, RemoveFail, files
<1> QED
  BY <1>1, <1>2, <1>3 DEF Typed

\* Stat steps only swap the umask.
LEMMA StatType ==
  ASSUME Typed, NEW s \in Stats, StatStep(s)
  PROVE  Typed'
<1>0. stat \in [Stats -> StatRPC] /\ umask \in Modes /\ {} \in Modes
  BY DEF Typed, Modes
<1>1. stat' \in [Stats -> StatRPC] /\ umask' \in Modes
  BY <1>0, SMTT(60) DEF StatRPC, StatStep, StatMask, StatRestore, StatFail
<1>2. UNCHANGED <<dir, data, mode, put, get, xfer, rm>>
  BY DEF StatStep, StatMask, StatRestore, StatFail, files
<1> QED
  BY <1>1, <1>2 DEF Typed

\* The death of the server marks handlers dead and resets the umask.
LEMMA DieType ==
  ASSUME Typed, Handles, Die
  PROVE  Typed' /\ Handles'
<1>1. put' \in [Puts -> PutRPC]
  BY ZenonT(60) DEF Typed, Die, Kill, PutRPC
<1>2. get' \in [Gets -> GetRPC]
  BY ZenonT(60) DEF Typed, Die, Kill, GetRPC
<1>3. xfer' \in [Transfers -> TransferRPC]
  BY ZenonT(60) DEF Typed, Die, Kill, TransferRPC
<1>4. rm' \in [Removes -> RemoveRPC]
  BY DEF Typed, Die, Kill, RemoveRPC
<1>5. stat' \in [Stats -> StatRPC]
  BY DEF Typed, Die, Kill, StatRPC
<1>6. umask' \in Modes /\ UNCHANGED <<dir, data, mode>>
  BY FileServerAssumption DEF Die, Modes, files
<1>7. /\ \A g \in Gets : get'[g].pc # "reading"
      /\ \A x \in Transfers : xfer'[x].pc \notin {"copying", "hashing"}
  BY DEF Typed, Die, Kill, Ended, GetRPC, TransferRPC
<1> QED
  BY <1>1, <1>2, <1>3, <1>4, <1>5, <1>6, <1>7 DEF Typed, Handles

\* Every step keeps the types and the handles.
LEMMA TypeNext == Typed /\ Handles /\ [Next]_vars => Typed' /\ Handles'
<1> SUFFICES ASSUME Typed, Handles, [Next]_vars
             PROVE  Typed' /\ Handles'
  OBVIOUS
<1>1. ASSUME NEW p \in Puts, PutStep(p)
      PROVE  Typed' /\ Handles'
  BY <1>1, PutType DEF Handles, PutStep, PutOpen, PutCreateTemp, PutContents, PutHash,
     PutVerify, PutRename, PutChmod, PutFail
<1>2. ASSUME NEW r \in Removes, RemoveStep(r)
      PROVE  Typed' /\ Handles'
  BY <1>2, RemoveType DEF Handles, RemoveStep, RemoveStat, RemoveUnlink, RemoveFail
<1>3. ASSUME NEW s \in Stats, StatStep(s)
      PROVE  Typed' /\ Handles'
  BY <1>3, StatType DEF Handles, StatStep, StatMask, StatRestore, StatFail
<1>4. CASE UNCHANGED vars
  BY <1>4 DEF vars, files, Typed, Handles
<1> QED
  BY <1>1, <1>2, <1>3, <1>4, GetType, TransferType, DieType
  DEF Next, Crash, TransferPanic

\* Before anything is opened there is nothing to hold.
LEMMA HandlesInit == Init => Handles
<1> SUFFICES ASSUME Init PROVE Handles
  OBVIOUS
<1>1. \A g \in Gets : get[g].pc = "idle"
  BY DEF Init
<1>2. \A x \in Transfers : xfer[x].pc = "idle"
  BY DEF Init
<1> QED
  BY <1>1, <1>2 DEF Handles

\* The handlers keep every variable in its type; in particular a read never
\* goes past the content it reads, nor through a file that was not opened.
THEOREM TypeCorrect == Spec => []TypeOK
<1>1. Typed /\ Handles => TypeOK
  BY DEF TypeOK
<1> QED
  BY <1>1, HandlesInit, TypeInit, TypeNext, PTL DEF Spec

\* The part of it the other proofs use.
LEMMA AlwaysTyped == Spec => []Typed
BY HandlesInit, TypeInit, TypeNext, PTL DEF Spec

-----------------------------------------------------------------------------
\* A Put in one of these states changes its temporary file no more.
Finished == {"renamed", "ok", "failed", "dead"}

\* Inode i holds its whole content, or was emptied, and its Put is past writing it.
Settled(i) ==
  /\ data[i] \in {<<>>, Whole(i)}
  /\ \A p \in Puts : i = TmpInode(p) => put[p].pc \in Finished

\* Only settled inodes are bound to paths: only a verified Put binds one, and
\* only the Put that created a temporary file is ever bound to its name.
StoreInv ==
  /\ \A p \in Puts : dir[p] \in {NoInode, TmpInode(p)}
  /\ \A n \in Paths : Settled(OldInode(n))
  /\ \A p \in Puts : Settled(NewInode(p))
  /\ \A n \in Paths : Exists(n) => Settled(dir[n])
  /\ \A p \in Puts : put[p].pc = "verified" => data[TmpInode(p)] = put[p].hash

\* What Whole is for each kind of inode, before and after a step.
LEMMA WholeFacts ==
  /\ \A n : Whole(OldInode(n)) = OldData[n] /\ Whole(OldInode(n))' = OldData[n]
  /\ \A p : Whole(NewInode(p)) = <<>> /\ Whole(NewInode(p))' = <<>>
  /\ \A p : Whole(TmpInode(p)) = put[p].hash /\ Whole(TmpInode(p))' = put'[p].hash
BY DEF Whole, OldInode, NewInode, TmpInode

\* Handlers other than Put's unbind names at most; at worst they kill a Put.
LEMMA OthersKeep ==
  ASSUME Typed, [Next]_vars, ~ \E p \in Puts : PutStep(p)
  PROVE  /\ data' = data
         /\ \A n \in Names : dir'[n] \in {dir[n], NoInode}
         /\ put' = put \/ put' = Kill(put)
<1>1. ASSUME NEW g \in Gets, GetStep(g)
      PROVE  UNCHANGED <<data, dir, put>>
  BY <1>1 DEF GetStep, GetStat, GetOpen, GetRead, GetEnd, GetFail, files
<1>2. ASSUME NEW x \in Transfers, TransferStep(x), ~TransferPanic(x)
      PROVE  UNCHANGED <<data, dir, put>>
  BY <1>2 DEF TransferStep, TransferStat, TransferOpen, TransferCopy, TransferRewind,
     TransferHash, TransferEnd, TransferFail, files
<1>3. ASSUME NEW s \in Stats, StatStep(s)
      PROVE  UNCHANGED <<data, dir, put>>
  BY <1>3 DEF StatStep, StatMask, StatRestore, StatFail, files
<1>4. ASSUME NEW r \in Removes, RemoveStep(r)
      PROVE  /\ UNCHANGED <<data, put>>
             /\ \A n \in Names : dir'[n] \in {dir[n], NoInode}
  BY <1>4 DEF Typed, RemoveStep, RemoveStat, RemoveUnlink, RemoveFail, files
<1>5. ASSUME Die
      PROVE  UNCHANGED <<data, dir>> /\ put' = Kill(put)
  BY <1>5 DEF Die, files
<1>6. CASE UNCHANGED vars
  BY <1>6 DEF vars, files
<1> QED
  BY <1>1, <1>2, <1>3, <1>4, <1>5, <1>6 DEF Next, Crash, TransferPanic

\* A Put goes forward: its path is fixed, its hash set once, and a finished Put
\* stays finished.
LEMMA PutKeeps ==
  ASSUME Typed, [Next]_vars, NEW p \in Puts
  PROVE  /\ put'[p].path = put[p].path
         /\ put[p].pc # "receiving" => put'[p].hash = put[p].hash
         /\ put[p].pc \in Finished => put'[p].pc \in Finished
<1>0. put \in [Puts -> PutRPC]
  BY DEF Typed
<1>1. ASSUME NEW q \in Puts, PutStep(q)
      PROVE  /\ put'[p].path = put[p].path
             /\ put[p].pc # "receiving" => put'[p].hash = put[p].hash
             /\ put[p].pc \in Finished => put'[p].pc \in Finished
  <2>1. CASE PutHash(q)
    BY <1>0, <2>1 DEF PutHash, PutRPC, Finished
  <2>2. CASE put[q].pc \notin Finished /\ \E c : put' = [put EXCEPT ![q].pc = c]
    BY <1>0, <2>2 DEF PutRPC
  <2>3. CASE put[q].pc = "renamed"
             /\ \E c \in {"ok", "failed"} : put' = [put EXCEPT ![q].pc = c]
    BY <1>0, <2>3 DEF PutRPC, Finished
  <2>4. CASE put' = put
    BY <2>4
  <2> QED
    BY <1>1, <2>1, <2>2, <2>3, <2>4 DEF PutStep, PutOpen, PutCreateTemp, PutContents,
       PutVerify, PutRename, PutChmod, PutFail, Finished
<1>2. CASE put' = Kill(put)
  BY <1>0, <1>2 DEF Kill, PutRPC, Finished, Ended
<1> QED
  BY <1>1, <1>2, OthersKeep

\* The content of an inode is only ever emptied, but for a temporary file in
\* reception.
LEMMA DataKeeps ==
  ASSUME Typed, [Next]_vars, NEW i \in Inodes
  PROVE  \/ data'[i] \in {data[i], <<>>}
         \/ \E p \in Puts : i = TmpInode(p) /\ put[p].pc = "receiving"
<1>0. data \in [Inodes -> Seq(Chunks)]
  BY DEF Typed
<1>1. ASSUME NEW p \in Puts, PutStep(p)
      PROVE  \/ data'[i] \in {data[i], <<>>}
             \/ i = TmpInode(p) /\ put[p].pc = "receiving"
  BY <1>0, <1>1 DEF PutStep, PutOpen, PutCreateTemp, PutContents, PutHash, PutVerify,
     PutRename, PutChmod, PutFail, files
<1> QED
  BY <1>1, OthersKeep

\* An inode is settled once and for all.
LEMMA SettledForGood ==
  ASSUME Typed, [Next]_vars, NEW i \in Inodes, Settled(i)
  PROVE  Settled(i)' /\ Whole(i)' = Whole(i) /\ data'[i] \in {data[i], <<>>}
<1>1. data'[i] \in {data[i], <<>>}
  BY DataKeeps DEF Settled, Finished
<1>2. Whole(i)' = Whole(i)
  <2>1. ASSUME NEW p \in Puts, i = TmpInode(p)
        PROVE  Whole(i)' = Whole(i)
    BY <2>1, PutKeeps, WholeFacts DEF Settled, Finished
  <2> QED
    BY <2>1, WholeFacts DEF Inodes
<1>3. \A p \in Puts : i = TmpInode(p) => put'[p].pc \in Finished
  BY PutKeeps DEF Settled
<1> QED
  BY <1>1, <1>2, <1>3 DEF Settled

\* At the start the paths name the old files, which are settled.
LEMMA StoreInvInit == Init => StoreInv
<1> SUFFICES ASSUME Init PROVE StoreInv
  OBVIOUS
<1>1. \A n \in Paths : Settled(OldInode(n))
  <2> SUFFICES ASSUME NEW n \in Paths PROVE Settled(OldInode(n))
    OBVIOUS
  <2>1. OldInode(n)[1] = "old" /\ OldInode(n)[2] = n
    BY DEF OldInode
  <2>2. data[OldInode(n)] = OldData[n]
    BY <2>1, InodeFacts DEF Init
  <2> QED
    BY <2>2, WholeFacts, InodesDiffer DEF Settled
<1>2. \A p \in Puts : Settled(NewInode(p))
  <2> SUFFICES ASSUME NEW p \in Puts PROVE Settled(NewInode(p))
    OBVIOUS
  <2>1. NewInode(p)[1] = "new"
    BY DEF NewInode
  <2>2. data[NewInode(p)] = <<>>
    BY <2>1, InodeFacts DEF Init
  <2> QED
    BY <2>2, InodesDiffer DEF Settled
<1>3. PICK old \in SUBSET Paths :
         dir = [n \in Names |-> IF n \in old THEN OldInode(n) ELSE NoInode]
  BY DEF Init
<1>4. \A p \in Puts : dir[p] = NoInode
  BY <1>3, FileServerAssumption DEF Names
<1>5. \A n \in Paths : Exists(n) => dir[n] = OldInode(n)
  BY <1>3 DEF Names, Exists
<1>6. \A p \in Puts : put[p].pc = "idle"
  BY DEF Init
<1> QED
  BY <1>1, <1>2, <1>4, <1>5, <1>6 DEF StoreInv

\* Every step keeps only settled inodes bound to paths.
LEMMA StoreInvNext == Typed /\ StoreInv /\ [Next]_vars => StoreInv'
<1> SUFFICES ASSUME Typed, StoreInv, [Next]_vars
             PROVE  StoreInv'
  OBVIOUS
<1>0. /\ dir \in [Names -> Inodes \cup {NoInode}] /\ data \in [Inodes -> Seq(Chunks)]
      /\ put \in [Puts -> PutRPC] /\ \A p \in Puts : put[p].path \in Paths
      /\ Paths \cap Puts = {} /\ \A n \in Paths : n \in Names
      /\ \A p \in Puts : p \in Names
  BY FileServerAssumption DEF Typed, PutRPC, Names
<1>1. \A n \in Paths : Settled(OldInode(n))'
  BY SettledForGood, InodeFacts DEF StoreInv
<1>2. \A p \in Puts : Settled(NewInode(p))'
  BY SettledForGood, InodeFacts DEF StoreInv
<1>3. \A p \in Puts : dir'[p] \in {NoInode, TmpInode(p)}
  <2>1. ASSUME NEW q \in Puts, PutStep(q)
        PROVE  \A p \in Puts : dir'[p] \in {NoInode, TmpInode(p)}
    BY <1>0, <2>1 DEF StoreInv, PutStep, PutOpen, PutCreateTemp, PutContents, PutHash,
       PutVerify, PutRename, PutChmod, PutFail, files
  <2> QED
    BY <1>0, <2>1, OthersKeep DEF StoreInv
<1>4. \A n \in Paths : (Exists(n) => Settled(dir[n]))'
  <2>1. ASSUME NEW n \in Paths, dir'[n] # NoInode
        PROVE  dir'[n] \in Inodes /\ \A i \in Inodes : i = dir'[n] => Settled(i)'
    <3>1. CASE dir'[n] = dir[n]
      BY <1>0, <2>1, <3>1, SettledForGood DEF StoreInv, Exists
    <3>2. ASSUME NEW p \in Puts, PutOpen(p), dir'[n] # dir[n]
          PROVE  dir'[n] = NewInode(p)
      BY <1>0, <3>2 DEF PutOpen
    <3>3. ASSUME NEW p \in Puts, PutRename(p), dir'[n] # dir[n]
          PROVE  dir'[n] = TmpInode(p) /\ Settled(TmpInode(p))'
      <4>1. dir'[n] = dir[p] /\ dir[p] = TmpInode(p)
        BY <1>0, <3>3 DEF PutRename, StoreInv, Exists
      <4>2. /\ put[p].pc = "verified" /\ data' = data
            /\ put' = [put EXCEPT ![p].pc = "renamed"]
        BY <3>3 DEF PutRename
      <4>3. data'[TmpInode(p)] = put'[p].hash /\ put'[p].pc \in Finished
        BY <1>0, <4>2 DEF StoreInv, PutRPC, Finished
      <4> QED
        BY <4>1, <4>3, WholeFacts, InodesDiffer DEF Settled
    <3>4. ASSUME NEW p \in Puts, PutStep(p), ~PutOpen(p), ~PutRename(p)
          PROVE  dir'[n] = dir[n]
      BY <1>0, <3>4 DEF PutStep, PutCreateTemp, PutContents, PutHash, PutVerify,
         PutChmod, PutFail, files
    <3> QED
      BY <1>0, <1>2, <2>1, <3>1, <3>2, <3>3, <3>4, OthersKeep, InodeFacts
  <2> QED
    BY <2>1 DEF Exists, Settled, Whole
<1>5. \A p \in Puts : put'[p].pc = "verified" => data'[TmpInode(p)] = put'[p].hash
  <2> SUFFICES ASSUME NEW p \in Puts, put'[p].pc = "verified"
               PROVE  data'[TmpInode(p)] = put'[p].hash
    OBVIOUS
  <2>1. ASSUME NEW q \in Puts, PutOpen(q)
        PROVE  data'[TmpInode(p)] = put'[p].hash
    <3>1. put[p].pc = "verified" /\ put'[p].hash = put[p].hash
      BY <1>0, <2>1 DEF PutOpen, PutRPC
    <3>2. TmpInode(p) # NewInode(q) /\ TmpInode(p) \in Inodes
      BY InodesDiffer, InodeFacts
    <3>3. dir[put[q].path] # TmpInode(p)
      BY <1>0, <3>1, NoInodeAssumption, InodeFacts, ZenonT(60) DEF StoreInv, Settled, Finished, Exists
    <3> QED
      BY <1>0, <2>1, <3>1, <3>2, <3>3 DEF PutOpen, StoreInv
  <2>2. ASSUME NEW q \in Puts, PutCreateTemp(q) \/ PutContents(q)
        PROVE  data'[TmpInode(p)] = put'[p].hash
    <3>1. p # q /\ put[p].pc = "verified" /\ put'[p].hash = put[p].hash
      BY <1>0, <2>2 DEF PutCreateTemp, PutContents, PutRPC
    <3>2. data'[TmpInode(p)] = data[TmpInode(p)]
      BY <1>0, <2>2, <3>1, InodesDiffer, InodeFacts DEF PutCreateTemp, PutContents
    <3> QED
      BY <3>1, <3>2 DEF StoreInv
  <2>3. ASSUME NEW q \in Puts, PutVerify(q)
        PROVE  data'[TmpInode(p)] = put'[p].hash
    BY <1>0, <2>3 DEF PutVerify, StoreInv, PutRPC, files
  <2>4. ASSUME NEW q \in Puts, PutHash(q) \/ PutRename(q) \/ PutChmod(q) \/ PutFail(q)
        PROVE  data'[TmpInode(p)] = put'[p].hash
    <3>1. data' = data /\ p # q /\ put'[p] = put[p]
      BY <1>0, <2>4 DEF PutHash, PutRename, PutChmod, PutFail, PutRPC, files
    <3> QED
      BY <3>1 DEF StoreInv
  <2>5. CASE ~ \E q \in Puts : PutStep(q)
    BY <1>0, <2>5, OthersKeep DEF Kill, Ended, PutRPC, StoreInv
  <2> QED
    BY <2>1, <2>2, <2>3, <2>4, <2>5 DEF PutStep
<1> QED
  BY <1>1, <1>2, <1>3, <1>4, <1>5 DEF StoreInv

\* No path ever names a partial upload or one with a wrong hash, for any number
\* of uploads, removals and server deaths.
THEOREM PublishedIsWhole == Spec => []PublishedWhole
<1>1. StoreInv => PublishedWhole
  BY DEF StoreInv, PublishedWhole, Settled
<1> QED
  BY <1>1, StoreInvInit, StoreInvNext, AlwaysTyped, PTL DEF Spec

-----------------------------------------------------------------------------
\* Reading one chunk further keeps a copy a prefix.
LEMMA PrefixGrows ==
  ASSUME NEW S, NEW s \in Seq(S), NEW t \in Seq(S), IsPrefix(s, t), Len(s) < Len(t)
  PROVE  IsPrefix(Append(s, t[Len(s) + 1]), t)
<1> DEFINE u == Append(s, t[Len(s) + 1])
<1>1. u \in Seq(S) /\ Len(u) = Len(s) + 1 /\ Len(u) <= Len(t)
  OBVIOUS
<1>2. \A k \in 1..Len(s) : s[k] = t[k]
  <2>1. SubSeq(s, 1, Len(s)) = SubSeq(t, 1, Len(s)) /\ Len(s) \in Nat
    BY DEF IsPrefix
  <2>2. \A k \in 1..Len(s) : SubSeq(s, 1, Len(s))[k] = s[k]
                             /\ SubSeq(t, 1, Len(s))[k] = t[k]
    OBVIOUS
  <2> QED
    BY <2>1, <2>2
<1>3. \A k \in 1..Len(u) : u[k] = t[k]
  BY <1>2
<1>4. SubSeq(u, 1, Len(u)) = SubSeq(t, 1, Len(u))
  <2> DEFINE v == SubSeq(u, 1, Len(u))
             w == SubSeq(t, 1, Len(u))
  <2>1. v \in Seq(S) /\ w \in Seq(S) /\ Len(v) = Len(u) /\ Len(w) = Len(u)
    BY <1>1
  <2>2. \A k \in 1..Len(u) : v[k] = u[k] /\ w[k] = t[k]
    BY <1>1
  <2> HIDE DEF v, w, u
  <2> QED
    BY <1>3, <2>1, <2>2
<1> QED
  BY <1>1, <1>4 DEF IsPrefix

\* A copy that has not begun is a prefix.
LEMMA EmptyIsPrefix ==
  ASSUME NEW S, NEW t \in Seq(S)
  PROVE  IsPrefix(<<>>, t)
BY DEF IsPrefix

\* The whole content of an inode is a sequence of chunks.
LEMMA WholeType == Typed => \A i \in Inodes : Whole(i) \in Seq(Chunks)
<1> SUFFICES ASSUME Typed, NEW i \in Inodes PROVE Whole(i) \in Seq(Chunks)
  OBVIOUS
<1>1. \A p \in Puts : put[p].hash \in Seq(Chunks)
  BY DEF Typed, PutRPC
<1>2. <<>> \in Seq(Chunks)
  OBVIOUS
<1>3. \A n \in Paths : OldData[n] \in Seq(Chunks)
  BY FileServerAssumption
<1>4. \/ \E n \in Paths : i = OldInode(n)
      \/ \E p \in Puts : i = NewInode(p) \/ i = TmpInode(p)
  BY DEF Inodes
<1>5. \/ \E n \in Paths : Whole(i) = OldData[n]
      \/ Whole(i) = <<>>
      \/ \E p \in Puts : Whole(i) = put[p].hash
  BY <1>4, WholeFacts
<1> QED
  BY <1>1, <1>2, <1>3, <1>5

\* A Get of a path reads a settled inode, so what it has sent is a prefix of
\* the whole content of that inode.
GetReads(g) ==
  /\ get[g].pc \in {"idle", "checked"} => get[g].sent = <<>>
  /\ get[g].pc \in {"reading", "ok"} /\ get[g].name \in Paths =>
        /\ get[g].ino \in Inodes /\ Settled(get[g].ino)
        /\ IsPrefix(get[g].sent, Whole(get[g].ino))

GetInv == \A g \in Gets : GetReads(g)

\* Every step keeps what Gets have sent a prefix: their own reads extend it,
\* the other handlers leave the inode settled.
LEMMA GetInvNext == Typed /\ StoreInv /\ GetInv /\ [Next]_vars => GetInv'
<1> SUFFICES ASSUME Typed, StoreInv, GetInv, [Next]_vars, NEW g \in Gets
             PROVE  GetReads(g)'
  BY DEF GetInv
<1>0. /\ get \in [Gets -> GetRPC] /\ get[g].sent \in Seq(Chunks)
      /\ dir \in [Names -> Inodes \cup {NoInode}] /\ data \in [Inodes -> Seq(Chunks)]
      /\ get[g].name \in Names /\ GetReads(g) /\ Paths \subseteq Names
      /\ get[g] \in GetRPC
  BY DEF Typed, GetRPC, GetInv, Names
<1>1. ASSUME NEW i \in Inodes, Settled(i), get'[g].ino = i,
             IsPrefix(get'[g].sent, Whole(i)), get'[g].pc \in {"reading", "ok"}
      PROVE  GetReads(g)'
  <2>1. Settled(i)' /\ Whole(i)' = Whole(i)
    BY <1>1, SettledForGood
  <2> QED
    BY <1>1, <2>1 DEF GetReads, Settled, Whole
<1>2. ASSUME get'[g].pc \notin {"reading", "ok"},
             get'[g].pc \in {"idle", "checked"} => get'[g].sent = <<>>
      PROVE  GetReads(g)'
  BY <1>2 DEF GetReads
<1>3. CASE get'[g].name \notin Paths /\ get'[g].pc \in {"reading", "ok"}
  BY <1>3 DEF GetReads
<1>4. ASSUME get'[g].name = get[g].name, get'[g].ino = get[g].ino,
             get'[g].sent = get[g].sent, get[g].pc \in {"reading", "ok"},
             get'[g].pc \in {"reading", "ok"}
      PROVE  GetReads(g)'
  BY <1>0, <1>1, <1>3, <1>4 DEF GetReads
<1>5. CASE get'[g] = get[g]
  BY <1>0, <1>2, <1>4, <1>5 DEF GetReads
<1>6. CASE GetStat(g) \/ GetFail(g)
  BY <1>0, <1>2, <1>6 DEF GetStat, GetFail, GetReads, GetRPC
<1>7. CASE GetOpen(g)
  <2>1. /\ get'[g] = [get[g] EXCEPT !.pc = "reading", !.ino = dir[get[g].name]]
        /\ get[g].sent = <<>> /\ Exists(get[g].name)
    BY <1>0, <1>7 DEF GetOpen, GetReads
  <2>2. /\ get'[g].pc = "reading" /\ get'[g].ino = dir[get[g].name]
        /\ get'[g].sent = <<>> /\ get'[g].name = get[g].name
    BY <1>0, <2>1 DEF GetRPC
  <2>3. CASE get[g].name \in Paths
    <3>1. dir[get[g].name] \in Inodes /\ Settled(dir[get[g].name])
      BY <1>0, <2>1, <2>3 DEF StoreInv, Exists
    <3>2. IsPrefix(<<>>, Whole(dir[get[g].name]))
      BY <3>1, WholeType, EmptyIsPrefix
    <3> QED
      BY <1>1, <2>2, <3>1, <3>2
  <2> QED
    BY <1>3, <2>2, <2>3
<1>8. CASE GetRead(g)
  <2>1. /\ get[g].pc = "reading" /\ get'[g].pc = "reading"
        /\ get'[g].ino = get[g].ino /\ get'[g].name = get[g].name
        /\ get'[g].sent = Append(get[g].sent, data[get[g].ino][Len(get[g].sent) + 1])
        /\ Len(get[g].sent) < Len(data[get[g].ino])
    BY <1>0, <1>8 DEF GetRead, GetRPC
  <2>2. CASE get[g].name \in Paths
    <3>1. PICK i \in Inodes : /\ i = get[g].ino /\ Settled(i)
                              /\ IsPrefix(get[g].sent, Whole(i))
      BY <1>0, <2>1, <2>2 DEF GetReads
    <3>2. data[i] = Whole(i) /\ Whole(i) \in Seq(Chunks)
      BY <1>0, <2>1, <3>1, WholeType DEF Settled
    <3>3. IsPrefix(get'[g].sent, Whole(i))
      BY <1>0, <2>1, <3>1, <3>2, PrefixGrows
    <3> QED
      BY <1>1, <2>1, <3>1, <3>3
  <2> QED
    BY <1>3, <2>1, <2>2
<1>9. CASE GetEnd(g)
  <2>1. /\ get[g].pc = "reading" /\ get'[g].pc = "ok" /\ get'[g].name = get[g].name
        /\ get'[g].ino = get[g].ino /\ get'[g].sent = get[g].sent
    BY <1>0, <1>9 DEF GetEnd, GetRPC
  <2> QED
    BY <1>4, <2>1
<1>10. CASE get' = Kill(get)
  <2>1. get'[g] = get[g] \/ get'[g] = [get[g] EXCEPT !.pc = "dead"]
    BY <1>0, <1>10 DEF Kill
  <2> QED
    BY <1>0, <1>2, <1>5, <2>1 DEF GetRPC
<1>11. ASSUME NEW h \in Gets, GetStep(h), h # g
       PROVE  get'[g] = get[g]
  BY <1>0, <1>11 DEF GetStep, GetStat, GetOpen, GetRead, GetEnd, GetFail
<1>12. \/ \E h \in Gets : GetStep(h)
       \/ get' = get
       \/ get' = Kill(get)
  BY DEF Next, vars, PutStep, PutOpen, PutCreateTemp, PutContents, PutHash, PutVerify,
     PutRename, PutChmod, PutFail, TransferStep, TransferStat, TransferOpen,
     TransferCopy, TransferRewind, TransferHash, TransferEnd, TransferFail,
     TransferPanic, RemoveStep, RemoveStat, RemoveUnlink, RemoveFail,
     StatStep, StatMask, StatRestore, StatFail, Crash, Die
<1> QED
  BY <1>5, <1>6, <1>7, <1>8, <1>9, <1>10, <1>11, <1>12 DEF GetStep

\* A Get never sends a mix of two versions of a file, nor part of an upload the
\* server has not verified, for any interleaving of uploads and reads.
THEOREM GetsSendOneVersion == Spec => []GetOneVersion
<1>1. Init => GetInv
  <2> SUFFICES ASSUME Init, NEW g \in Gets PROVE GetReads(g)
    BY DEF GetInv
  <2>1. get[g].pc = "idle" /\ get[g].sent = <<>>
    BY DEF Init
  <2> QED
    BY <2>1 DEF GetReads
<1>2. GetInv => GetOneVersion
  BY DEF GetInv, GetReads, GetOneVersion
<1>3. Spec => []StoreInv
  BY StoreInvInit, StoreInvNext, AlwaysTyped, PTL DEF Spec
<1> QED
  BY <1>1, <1>2, <1>3, GetInvNext, AlwaysTyped, PTL DEF Spec

-----------------------------------------------------------------------------
\* An inode is bound to no path but the one it was made for.
BoundInv ==
  \A n \in Paths : \/ dir[n] \in {NoInode, OldInode(n)}
                   \/ \E p \in Puts : /\ put[p].path = n
                                      /\ dir[n] \in {NewInode(p), TmpInode(p)}

\* At the start each path names its own old file.
LEMMA BoundInvInit == Init => BoundInv
<1> SUFFICES ASSUME Init PROVE BoundInv
  OBVIOUS
<1>1. \A n \in Paths : dir[n] \in {NoInode, OldInode(n)}
  <2>1. PICK old \in SUBSET Paths :
           dir = [n \in Names |-> IF n \in old THEN OldInode(n) ELSE NoInode]
    BY DEF Init
  <2> QED
    BY <2>1 DEF Names
<1> QED
  BY <1>1 DEF BoundInv

\* Every step binds paths to their own inodes only.
LEMMA BoundInvNext == Typed /\ StoreInv /\ BoundInv /\ [Next]_vars => BoundInv'
<1> SUFFICES ASSUME Typed, StoreInv, BoundInv, [Next]_vars
             PROVE  BoundInv'
  OBVIOUS
<1>0. /\ dir \in [Names -> Inodes \cup {NoInode}] /\ put \in [Puts -> PutRPC]
      /\ \A p \in Puts : put[p].path \in Paths
      /\ Paths \cap Puts = {} /\ \A n \in Paths : n \in Names
      /\ \A p \in Puts : p \in Names
  BY FileServerAssumption DEF Typed, PutRPC, Names
<1>1. ASSUME NEW n \in Paths
      PROVE  \/ dir'[n] \in {NoInode, OldInode(n)}
             \/ \E p \in Puts : /\ put'[p].path = n
                                /\ dir'[n] \in {NewInode(p), TmpInode(p)}
  <2>1. \/ dir'[n] \in {dir[n], NoInode}
        \/ \E p \in Puts : put[p].path = n /\ dir'[n] \in {NewInode(p), TmpInode(p)}
    <3>1. ASSUME NEW p \in Puts, PutOpen(p)
          PROVE  dir'[n] = dir[n] \/ (put[p].path = n /\ dir'[n] = NewInode(p))
      BY <1>0, <3>1 DEF PutOpen
    <3>2. ASSUME NEW p \in Puts, PutRename(p)
          PROVE  dir'[n] = dir[n] \/ (put[p].path = n /\ dir'[n] = TmpInode(p))
      BY <1>0, <3>2 DEF PutRename, StoreInv, Exists
    <3>3. ASSUME NEW p \in Puts, PutStep(p), ~PutOpen(p), ~PutRename(p)
          PROVE  dir'[n] = dir[n]
      BY <1>0, <3>3 DEF PutStep, PutCreateTemp, PutContents, PutHash, PutVerify,
         PutChmod, PutFail, files
    <3> QED
      BY <1>0, <3>1, <3>2, <3>3, OthersKeep
  <2>2. \A p \in Puts : put'[p].path = put[p].path
    BY PutKeeps
  <2> QED
    BY <2>1, <2>2 DEF BoundInv
<1> QED
  BY <1>1 DEF BoundInv

\* Two paths never share an inode.
LEMMA PathsApart ==
  ASSUME BoundInv, NEW n \in Paths, NEW m \in Paths, n # m, Exists(n)
  PROVE  dir[n] # dir[m]
<1>1. dir[n] = OldInode(n) \/ \E p \in Puts : /\ put[p].path = n
                                              /\ dir[n] = NewInode(p) \/ dir[n] = TmpInode(p)
  BY DEF BoundInv, Exists
<1>2. \/ dir[m] = NoInode
      \/ dir[m] = OldInode(m)
      \/ \E p \in Puts : put[p].path = m /\ (dir[m] = NewInode(p) \/ dir[m] = TmpInode(p))
  BY DEF BoundInv
<1>3. CASE dir[m] = NoInode
  BY <1>3 DEF Exists
<1>4. CASE dir[n] = OldInode(n)
  BY <1>2, <1>3, <1>4, InodesDiffer
<1>5. CASE dir[m] = OldInode(m)
  BY <1>1, <1>5, InodesDiffer
<1>6. ASSUME NEW p \in Puts, NEW q \in Puts, put[p].path = n, put[q].path = m,
             dir[n] = NewInode(p) \/ dir[n] = TmpInode(p),
             dir[m] = NewInode(q) \/ dir[m] = TmpInode(q)
      PROVE  dir[n] # dir[m]
  BY <1>6, InodesDiffer
<1> QED
  BY <1>1, <1>2, <1>3, <1>4, <1>5, <1>6

-----------------------------------------------------------------------------
\* When one Put moves on, the offers of the others stay as they are.
LEMMA OffersOthers ==
  ASSUME Typed, NEW p \in Puts, NEW c, put' = [put EXCEPT ![p].pc = c]
  PROVE  /\ \A q \in Puts : OfferOf(q)' = OfferOf(q)
         /\ \A q \in Puts \ {p} : Pending(q)' = Pending(q)
         /\ Pending(p)' <=> c \in {"reopened", "verified"}
<1>1. put \in [Puts -> PutRPC]
  BY DEF Typed
<1>2. /\ \A q \in Puts \ {p} : put'[q] = put[q]
      /\ put'[p].path = put[p].path /\ put'[p].hash = put[p].hash /\ put'[p].pc = c
  BY <1>1 DEF PutRPC
<1> QED
  BY <1>2 DEF OfferOf, Pending

\* A Put that is neither offered before nor after its step leaves the offers.
LEMMA OffersStay ==
  ASSUME Typed, NEW p \in Puts, NEW c, put' = [put EXCEPT ![p].pc = c],
         Pending(p) <=> c \in {"reopened", "verified"}
  PROVE  Offers' = Offers
<1>1. \A q \in Puts : OfferOf(q)' = OfferOf(q) /\ (Pending(q)' <=> Pending(q))
  BY OffersOthers
<1> QED
  BY <1>1 DEF Offers

\* A Put that leaves the offer of its hash withdraws that offer only.
LEMMA OffersLess ==
  ASSUME Typed, NEW p \in Puts, NEW c, put' = [put EXCEPT ![p].pc = c],
         c \notin {"reopened", "verified"}
  PROVE  Offers' = Offers \ {OfferOf(p)}
<1>1. /\ \A q \in Puts : OfferOf(q)' = OfferOf(q)
      /\ \A q \in Puts \ {p} : Pending(q)' = Pending(q)
      /\ ~Pending(p)'
  BY OffersOthers
<1>2. \A q \in Puts : OfferOf(q) = OfferOf(p) => q = p
  BY DEF OfferOf
<1> QED
  BY <1>1, <1>2 DEF Offers

\* A Put that receives its hash makes one offer more.
LEMMA OffersMore ==
  ASSUME Typed, NEW p \in Puts, PutHash(p)
  PROVE  \E n \in Paths, h \in Digests :
            /\ \A o \in Offers : o.by # p
            /\ Offers' = Offers \cup {[by |-> p, path |-> n, content |-> h]}
<1>1. put \in [Puts -> PutRPC] /\ put[p].path \in Paths
  BY DEF Typed, PutRPC
<1>2. PICK h \in Digests : put' = [put EXCEPT ![p].pc = "reopened", ![p].hash = h]
  BY DEF PutHash
<1>3. /\ \A q \in Puts \ {p} : put'[q] = put[q]
      /\ put'[p].path = put[p].path /\ put'[p].hash = h /\ put'[p].pc = "reopened"
  BY <1>1, <1>2 DEF PutRPC
<1>4. /\ \A q \in Puts \ {p} : OfferOf(q)' = OfferOf(q) /\ Pending(q)' = Pending(q)
      /\ OfferOf(p)' = [by |-> p, path |-> put[p].path, content |-> h]
      /\ Pending(p)' /\ ~Pending(p)
  BY <1>3 DEF OfferOf, Pending, PutHash
<1>5. \A o \in Offers : o.by # p
  BY <1>4 DEF Offers, OfferOf
<1>6. Offers' = Offers \cup {[by |-> p, path |-> put[p].path, content |-> h]}
  BY <1>4 DEF Offers
<1> QED
  BY <1>1, <1>5, <1>6

\* The death of the server withdraws every offer.
LEMMA OffersDie ==
  ASSUME Typed, put' = Kill(put)
  PROVE  Offers' \subseteq Offers
<1>1. put \in [Puts -> PutRPC]
  BY DEF Typed
<1>2. \A p \in Puts : put'[p].pc \in Ended
  BY <1>1 DEF Kill, Ended, PutRPC
<1>3. \A p \in Puts : ~Pending(p)'
  BY <1>2 DEF Pending, Ended
<1> QED
  BY <1>3 DEF Offers

\* The initial files are initial for FileStore.
LEMMA StoreInit == Init => Store!Init
<1> SUFFICES ASSUME Init PROVE Store!Init
  OBVIOUS
<1>1. PICK old \in SUBSET Paths :
         dir = [n \in Names |-> IF n \in old THEN OldInode(n) ELSE NoInode]
  BY DEF Init
<1>2. ASSUME NEW n \in Paths
      PROVE  Content(n) = IF n \in old THEN Store!File(OldData[n]) ELSE Store!Absent
  <2>1. CASE n \in old
    <3>1. dir[n] = OldInode(n) /\ OldInode(n) # NoInode /\ OldInode(n) \in Inodes
      BY <1>1, <2>1, InodeFacts DEF Names
    <3>2. OldInode(n)[1] = "old" /\ OldInode(n)[2] = n
      BY DEF OldInode
    <3>3. data[OldInode(n)] = OldData[n]
      BY <3>1, <3>2 DEF Init
    <3> QED
      BY <2>1, <3>1, <3>3 DEF Content, Exists, Store!File
  <2>2. CASE n \notin old
    BY <1>1, <2>2 DEF Names, Content, Exists, Store!Absent
  <2> QED
    BY <2>1, <2>2
<1>3. Offers = {}
  <2>1. \A p \in Puts : put[p].pc = "idle"
    BY DEF Init
  <2> QED
    BY <2>1 DEF Offers, Pending
<1>4. [n \in Paths |-> Content(n)]
        = [n \in Paths |-> IF n \in old THEN Store!File(OldData[n]) ELSE Store!Absent]
  BY <1>2
<1> QED
  BY <1>3, <1>4 DEF Store!Init

\* Emptying or removing one path, and no other, is a step of FileStore.
LEMMA StoreChange ==
  ASSUME NEW n \in Paths,
         \A m \in Paths \ {n} : Content(m)' = Content(m),
         Content(n)' = Store!File(<<>>) \/ Content(n)' = Store!Absent,
         Offers' = Offers
  PROVE  Store!Next
<1> DEFINE f == [m \in Paths |-> Content(m)]
<1>1. f' = [f EXCEPT ![n] = Content(n)']
  OBVIOUS
<1>2. CASE Content(n)' = Store!File(<<>>)
  BY <1>1, <1>2 DEF Store!Next, Store!Begin
<1>3. CASE Content(n)' = Store!Absent
  BY <1>1, <1>3 DEF Store!Next, Store!Delete
<1> QED
  BY <1>2, <1>3

\* So is putting the content of an offer under its path.
LEMMA StorePublish ==
  ASSUME NEW o \in Offers, o.path \in Paths,
         \A m \in Paths \ {o.path} : Content(m)' = Content(m),
         Content(o.path)' = Store!File(o.content),
         Offers' = Offers \ {o}
  PROVE  Store!Next
<1> DEFINE f == [m \in Paths |-> Content(m)]
<1>1. f' = [f EXCEPT ![o.path] = Store!File(o.content)]
  OBVIOUS
<1>2. Store!Publish(o)
  BY <1>1 DEF Store!Publish
<1> QED
  BY <1>2 DEF Store!Next

\* And so is leaving every path as it is while offers are given up.
LEMMA StoreWithdraw ==
  ASSUME \A m \in Paths : Content(m)' = Content(m), Offers' \subseteq Offers
  PROVE  Store!Next
BY DEF Store!Next, Store!Withdraw

\* Every step of the server is a step of FileStore.
LEMMA StoreNext ==
  ASSUME Typed, StoreInv, BoundInv, [Next]_vars
  PROVE  Store!Next
<1>0. /\ dir \in [Names -> Inodes \cup {NoInode}] /\ data \in [Inodes -> Seq(Chunks)]
      /\ put \in [Puts -> PutRPC] /\ \A p \in Puts : put[p].path \in Paths
      /\ Paths \cap Puts = {} /\ \A n \in Paths : n \in Names
      /\ \A p \in Puts : p \in Names
  BY FileServerAssumption DEF Typed, PutRPC, Names
<1>1. ASSUME NEW m \in Paths, dir'[m] = dir[m],
             Exists(m) => data'[dir[m]] = data[dir[m]]
      PROVE  Content(m)' = Content(m)
  BY <1>1 DEF Content, Exists
<1>2. \A m \in Paths, p \in Puts :
         put[p].pc \in {"opened", "receiving"} => dir[m] # TmpInode(p)
  BY InodeFacts DEF StoreInv, Settled, Finished, Exists
<1>3. ASSUME NEW p \in Puts, PutOpen(p)
      PROVE  Store!Next
  <2>1. PICK n \in Paths : n = put[p].path
    BY <1>0
  <2>4. Offers' = Offers
    BY <1>3, OffersStay DEF PutOpen, Pending
  <2>2. CASE Exists(n)
    <3>1. dir' = dir /\ data' = [data EXCEPT ![dir[n]] = <<>>]
      BY <1>3, <2>1, <2>2 DEF PutOpen
    <3>2. dir[n] \in Inodes
      BY <1>0, <2>2 DEF Exists
    <3>3. Content(n)' = Store!File(<<>>)
      BY <1>0, <2>2, <3>1, <3>2 DEF Content, Exists, Store!File
    <3>4. ASSUME NEW m \in Paths \ {n}
          PROVE  Content(m)' = Content(m)
      <4>1. Exists(m) => dir[m] # dir[n] /\ dir[m] \in Inodes
        BY <1>0, PathsApart DEF Exists
      <4>2. Exists(m) => data'[dir[m]] = data[dir[m]]
        BY <1>0, <3>1, <4>1
      <4> QED
        BY <1>1, <3>1, <4>2
    <3> QED
      BY <2>4, <3>3, <3>4, StoreChange
  <2>3. CASE ~Exists(n)
    <3>1. /\ dir' = [dir EXCEPT ![n] = NewInode(p)]
          /\ data' = [data EXCEPT ![NewInode(p)] = <<>>]
      BY <1>3, <2>1, <2>3 DEF PutOpen
    <3>2. NewInode(p) \in Inodes /\ NewInode(p) # NoInode
      BY InodeFacts
    <3>3. Content(n)' = Store!File(<<>>)
      BY <1>0, <3>1, <3>2 DEF Content, Exists, Store!File
    <3>4. ASSUME NEW m \in Paths \ {n}
          PROVE  Content(m)' = Content(m)
      <4>1. dir'[m] = dir[m]
        BY <1>0, <3>1
      <4>2. data[NewInode(p)] = <<>>
        BY WholeFacts DEF StoreInv, Settled
      <4>3. Exists(m) => dir[m] \in Inodes
        BY <1>0 DEF Exists
      <4>4. Exists(m) => data'[dir[m]] = data[dir[m]]
        BY <1>0, <3>1, <4>2, <4>3
      <4> QED
        BY <1>1, <4>1, <4>4
    <3> QED
      BY <2>4, <3>3, <3>4, StoreChange
  <2> QED
    BY <2>2, <2>3
<1>4. ASSUME NEW p \in Puts, PutRename(p)
      PROVE  Store!Next
  <2>1. PICK n \in Paths : n = put[p].path
    BY <1>0
  <2>2. /\ data' = data /\ dir' = [dir EXCEPT ![n] = TmpInode(p), ![p] = NoInode]
        /\ put[p].pc = "verified"
    BY <1>0, <1>4, <2>1 DEF PutRename, StoreInv, Exists
  <2>3. /\ OfferOf(p) \in Offers /\ OfferOf(p).path = n
        /\ OfferOf(p).content = data[TmpInode(p)]
    BY <2>1, <2>2 DEF Offers, OfferOf, Pending, StoreInv
  <2>4. dir'[n] = TmpInode(p) /\ TmpInode(p) # NoInode
    BY <1>0, <2>2, InodeFacts
  <2>5. Content(n)' = Store!File(data[TmpInode(p)])
    BY <2>2, <2>4 DEF Content, Exists, Store!File
  <2>6. ASSUME NEW m \in Paths \ {n}
        PROVE  Content(m)' = Content(m)
    <3>1. dir'[m] = dir[m]
      BY <1>0, <2>2
    <3> QED
      BY <1>1, <2>2, <3>1
  <2>7. Offers' = Offers \ {OfferOf(p)}
    <3>1. put' = [put EXCEPT ![p].pc = "renamed"]
      BY <1>4 DEF PutRename
    <3>2. "renamed" \notin {"reopened", "verified"}
      OBVIOUS
    <3> QED
      BY <3>1, <3>2, OffersLess
  <2> QED
    BY <2>3, <2>5, <2>6, <2>7, StorePublish
<1>5. ASSUME NEW p \in Puts, PutCreateTemp(p) \/ PutContents(p), NEW m \in Paths
      PROVE  Content(m)' = Content(m)
  <2>1. dir[m] # TmpInode(p)
    BY <1>2, <1>5 DEF PutCreateTemp, PutContents
  <2>2. dir'[m] = dir[m]
    BY <1>0, <1>5 DEF PutCreateTemp, PutContents
  <2>3. Exists(m) => data'[dir[m]] = data[dir[m]]
    BY <1>0, <1>5, <2>1 DEF PutCreateTemp, PutContents, Exists
  <2> QED
    BY <1>1, <2>2, <2>3
<1>6. ASSUME NEW p \in Puts, PutHash(p) \/ PutVerify(p) \/ PutChmod(p) \/ PutFail(p),
             NEW m \in Paths
      PROVE  Content(m)' = Content(m)
  BY <1>1, <1>6 DEF PutHash, PutVerify, PutChmod, PutFail, files
<1>7. ASSUME NEW p \in Puts, PutHash(p)
       PROVE  Store!Next
  <2>1. \A m \in Paths : Content(m)' = Content(m)
    BY <1>6, <1>7
  <2>2. PICK n \in Paths, h \in Digests :
           /\ \A o \in Offers : o.by # p
           /\ Offers' = Offers \cup {[by |-> p, path |-> n, content |-> h]}
    BY <1>7, OffersMore
  <2>3. Store!Offer(p, n, h)
    BY <2>1, <2>2 DEF Store!Offer
  <2> QED
    BY <2>3 DEF Store!Next
<1>8. ASSUME NEW p \in Puts,
              \/ PutCreateTemp(p) \/ PutContents(p) \/ PutVerify(p)
              \/ PutChmod(p) \/ PutFail(p)
       PROVE  Store!Next
  <2>1. \A m \in Paths : Content(m)' = Content(m)
    BY <1>5, <1>6, <1>8
  <2>2. CASE PutCreateTemp(p) \/ PutVerify(p) \/ PutChmod(p)
    <3>1. Offers' = Offers
      BY <2>2, OffersStay DEF PutCreateTemp, PutVerify, PutChmod, Pending
    <3> QED
      BY <2>1, <3>1, StoreWithdraw
  <2>3. CASE PutContents(p)
    <3>1. Offers' = Offers
      BY <2>3 DEF PutContents, Offers, OfferOf, Pending
    <3> QED
      BY <2>1, <3>1, StoreWithdraw
  <2>4. CASE PutFail(p)
    <3>1. put' = [put EXCEPT ![p].pc = "failed"]
      BY <2>4 DEF PutFail
    <3>2. "failed" \notin {"reopened", "verified"}
      OBVIOUS
    <3>3. Offers' = Offers \ {OfferOf(p)}
      BY <3>1, <3>2, OffersLess
    <3> QED
      BY <2>1, <3>3, StoreWithdraw
  <2> QED
    BY <1>8, <2>2, <2>3, <2>4
<1>9. ASSUME \A m \in Paths : Content(m)' = Content(m), put' = put \/ put' = Kill(put)
       PROVE  Store!Next
  <2>1. CASE put' = put
    <3>1. Offers' = Offers
      BY <2>1 DEF Offers, OfferOf, Pending
    <3> QED
      BY <1>9, <3>1, StoreWithdraw
  <2>2. CASE put' = Kill(put)
    BY <1>9, <2>2, OffersDie, StoreWithdraw
  <2> QED
    BY <1>9, <2>1, <2>2
<1>10. ASSUME NEW r \in Removes, RemoveUnlink(r)
      PROVE  Store!Next
  <2>1. PICK n \in Names : n = rm[r].name
    BY DEF Typed, RemoveRPC
  <2>2. data' = data /\ dir' = [dir EXCEPT ![n] = NoInode] /\ put' = put
    BY <1>10, <2>1 DEF RemoveUnlink
  <2>3. ASSUME NEW m \in Paths \ {n}
        PROVE  Content(m)' = Content(m)
    <3>1. dir'[m] = dir[m]
      BY <1>0, <2>2
    <3> QED
      BY <1>1, <2>2, <3>1
  <2>4. CASE n \in Paths
    <3>1. Content(n)' = Store!Absent
      BY <1>0, <2>2 DEF Content, Exists, Store!Absent
    <3>2. Offers' = Offers
      BY <2>2 DEF Offers, OfferOf, Pending
    <3> QED
      BY <2>3, <2>4, <3>1, <3>2, StoreChange
  <2>5. CASE n \notin Paths
    BY <1>9, <2>2, <2>3, <2>5
  <2> QED
    BY <2>4, <2>5
<1>11. CASE /\ ~ \E p \in Puts : PutStep(p)
           /\ ~ \E r \in Removes : RemoveUnlink(r)
  <2>1. UNCHANGED <<dir, data>>
    BY <1>11 DEF Next, vars, files, GetStep, GetStat, GetOpen, GetRead, GetEnd, GetFail,
       TransferStep, TransferStat, TransferOpen, TransferCopy, TransferRewind,
       TransferHash, TransferEnd, TransferFail, TransferPanic, RemoveStep, RemoveStat,
       RemoveFail, StatStep, StatMask, StatRestore, StatFail, Crash, Die
  <2>2. \A m \in Paths : Content(m)' = Content(m)
    BY <1>1, <2>1
  <2> QED
    BY <1>11, <1>9, <2>2, OthersKeep
<1> QED
  BY <1>3, <1>4, <1>10, <1>11, <1>7, <1>8 DEF PutStep

\* The paths, as clients see them, go through the states of FileStore: files are
\* emptied, replaced and removed as a whole, and each content that appears was
\* offered for that path by one upload, which publishes it once.
THEOREM FilesAreStored == Spec => StoresFiles
<1>1. Spec => []StoreInv
  BY StoreInvInit, StoreInvNext, AlwaysTyped, PTL DEF Spec
<1>2. Spec => []BoundInv
  BY <1>1, BoundInvInit, BoundInvNext, AlwaysTyped, PTL DEF Spec
<1>3. Typed /\ StoreInv /\ BoundInv /\ [Next]_vars
        => [Store!Next]_<<[n \in Paths |-> Content(n)], Offers>>
  BY StoreNext
<1> QED
  BY <1>1, <1>2, <1>3, StoreInit, AlwaysTyped, PTL DEF Spec, StoresFiles, Store!Spec

-----------------------------------------------------------------------------
\* A copy of all there is of a content is that content.
LEMMA PrefixWhole ==
  ASSUME NEW S, NEW s \in Seq(S), NEW t \in Seq(S), IsPrefix(s, t), Len(s) >= Len(t)
  PROVE  s = t
<1>1. Len(s) <= Len(t) /\ SubSeq(s, 1, Len(s)) = SubSeq(t, 1, Len(s))
  BY DEF IsPrefix
<1>2. Len(s) = Len(t) /\ Len(s) \in Nat
  BY <1>1
<1>3. SubSeq(s, 1, Len(s)) = s /\ SubSeq(t, 1, Len(t)) = t
  OBVIOUS
<1> QED
  BY <1>1, <1>2, <1>3

\* A transfer of a path reads a settled inode twice.  The first reading ends with
\* all of it, unless a Put emptied it, and so does the second.
TransferReads(x) ==
  /\ xfer[x].pc \in {"idle", "checked"} => xfer[x].sent = <<>>
  /\ xfer[x].pc \in {"copying", "hashing", "ok"} /\ xfer[x].name \in Paths =>
        /\ xfer[x].ino \in Inodes /\ Settled(xfer[x].ino)
        /\ IsPrefix(xfer[x].sent, Whole(xfer[x].ino))
        /\ xfer[x].pc \in {"hashing", "ok"} =>
              data[xfer[x].ino] = <<>> \/ xfer[x].sent = Whole(xfer[x].ino)
        /\ xfer[x].pc = "hashing" => IsPrefix(xfer[x].hashed, Whole(xfer[x].ino))
        /\ xfer[x].pc = "ok" => data[xfer[x].ino] = <<>> \/ xfer[x].hashed = xfer[x].sent

TransferInv == \A x \in Transfers : TransferReads(x)

\* Every step keeps what transfers copied and hashed: their own reads extend it, the
\* other handlers leave the inode settled.
LEMMA TransferInvNext == Typed /\ StoreInv /\ TransferInv /\ [Next]_vars => TransferInv'
<1> SUFFICES ASSUME Typed, StoreInv, TransferInv, [Next]_vars, NEW x \in Transfers
             PROVE  TransferReads(x)'
  BY DEF TransferInv
<1>0. /\ xfer \in [Transfers -> TransferRPC]
      /\ xfer[x].sent \in Seq(Chunks) /\ xfer[x].hashed \in Seq(Chunks)
      /\ dir \in [Names -> Inodes \cup {NoInode}] /\ data \in [Inodes -> Seq(Chunks)]
      /\ xfer[x].name \in Names /\ TransferReads(x) /\ Paths \subseteq Names
      /\ xfer[x] \in TransferRPC
  BY DEF Typed, TransferRPC, TransferInv, Names
<1>1. ASSUME NEW i \in Inodes, Settled(i), xfer'[x].ino = i,
             xfer'[x].pc \in {"copying", "hashing", "ok"},
             IsPrefix(xfer'[x].sent, Whole(i)),
             xfer'[x].pc \in {"hashing", "ok"} => data[i] = <<>> \/ xfer'[x].sent = Whole(i),
             xfer'[x].pc = "hashing" => IsPrefix(xfer'[x].hashed, Whole(i)),
             xfer'[x].pc = "ok" => data[i] = <<>> \/ xfer'[x].hashed = xfer'[x].sent
      PROVE  TransferReads(x)'
  <2>1. Settled(i)' /\ Whole(i)' = Whole(i) /\ data'[i] \in {data[i], <<>>}
    BY <1>1, SettledForGood
  <2> QED
    BY <1>1, <2>1 DEF TransferReads, Settled, Whole
<1>2. ASSUME xfer'[x].pc \notin {"copying", "hashing", "ok"},
             xfer'[x].pc \in {"idle", "checked"} => xfer'[x].sent = <<>>
      PROVE  TransferReads(x)'
  BY <1>2 DEF TransferReads
<1>3. CASE xfer'[x].name \notin Paths /\ xfer'[x].pc \in {"copying", "hashing", "ok"}
  BY <1>3 DEF TransferReads
<1>4. CASE xfer'[x] = xfer[x]
  <2>1. CASE xfer[x].pc \in {"copying", "hashing", "ok"} /\ xfer[x].name \in Paths
    <3>1. PICK i \in Inodes : i = xfer[x].ino
      BY <1>0, <2>1 DEF TransferReads
    <3> QED
      BY <1>0, <1>1, <1>4, <2>1, <3>1 DEF TransferReads
  <2> QED
    BY <1>0, <1>2, <1>3, <1>4, <2>1 DEF TransferReads
<1>5. CASE TransferStat(x) \/ TransferFail(x)
  BY <1>0, <1>2, <1>5 DEF TransferStat, TransferFail, TransferReads, TransferRPC
<1>6. CASE TransferOpen(x)
  <2>1. /\ xfer'[x] = [xfer[x] EXCEPT !.pc = "copying", !.ino = dir[xfer[x].name]]
        /\ xfer[x].sent = <<>> /\ Exists(xfer[x].name)
    BY <1>0, <1>6 DEF TransferOpen, TransferReads
  <2>2. /\ xfer'[x].pc = "copying" /\ xfer'[x].ino = dir[xfer[x].name]
        /\ xfer'[x].sent = <<>> /\ xfer'[x].name = xfer[x].name
    BY <1>0, <2>1 DEF TransferRPC
  <2>3. CASE xfer[x].name \in Paths
    <3>1. dir[xfer[x].name] \in Inodes /\ Settled(dir[xfer[x].name])
      BY <1>0, <2>1, <2>3 DEF StoreInv, Exists
    <3>2. IsPrefix(<<>>, Whole(dir[xfer[x].name]))
      BY <3>1, WholeType, EmptyIsPrefix
    <3> QED
      BY <1>1, <2>2, <3>1, <3>2
  <2> QED
    BY <1>3, <2>2, <2>3
\* What the inode of a transfer in progress holds.
<1>7. ASSUME xfer[x].pc \in {"copying", "hashing"}, xfer[x].name \in Paths
      PROVE  \E i \in Inodes :
                 /\ i = xfer[x].ino /\ Settled(i) /\ Whole(i) \in Seq(Chunks)
                 /\ IsPrefix(xfer[x].sent, Whole(i))
                 /\ data[i] = <<>> \/ data[i] = Whole(i)
  BY <1>0, <1>7, WholeType DEF TransferReads, Settled
<1>8. CASE TransferCopy(x)
  <2>1. /\ xfer[x].pc = "copying" /\ xfer'[x].pc = "copying"
        /\ xfer'[x].ino = xfer[x].ino /\ xfer'[x].name = xfer[x].name
        /\ xfer'[x].sent = Append(xfer[x].sent, data[xfer[x].ino][Len(xfer[x].sent) + 1])
        /\ Len(xfer[x].sent) < Len(data[xfer[x].ino])
    BY <1>0, <1>8 DEF TransferCopy, TransferRPC
  <2>2. CASE xfer[x].name \in Paths
    <3>1. PICK i \in Inodes : /\ i = xfer[x].ino /\ Settled(i) /\ Whole(i) \in Seq(Chunks)
                              /\ IsPrefix(xfer[x].sent, Whole(i))
                              /\ data[i] = <<>> \/ data[i] = Whole(i)
      BY <1>7, <2>1, <2>2
    <3>2. data[i] = Whole(i)
      BY <1>0, <2>1, <3>1
    <3>3. IsPrefix(xfer'[x].sent, Whole(i))
      BY <1>0, <2>1, <3>1, <3>2, PrefixGrows
    <3> QED
      BY <1>1, <2>1, <3>1, <3>3
  <2> QED
    BY <1>3, <2>1, <2>2
<1>9. CASE TransferRewind(x)
  <2>1. /\ xfer[x].pc = "copying" /\ xfer'[x].pc = "hashing"
        /\ xfer'[x].ino = xfer[x].ino /\ xfer'[x].name = xfer[x].name
        /\ xfer'[x].sent = xfer[x].sent /\ xfer'[x].hashed = <<>>
        /\ Len(xfer[x].sent) >= Len(data[xfer[x].ino])
    BY <1>0, <1>9 DEF TransferRewind, TransferRPC
  <2>2. CASE xfer[x].name \in Paths
    <3>1. PICK i \in Inodes : /\ i = xfer[x].ino /\ Settled(i) /\ Whole(i) \in Seq(Chunks)
                              /\ IsPrefix(xfer[x].sent, Whole(i))
                              /\ data[i] = <<>> \/ data[i] = Whole(i)
      BY <1>7, <2>1, <2>2
    <3>2. data[i] = <<>> \/ xfer[x].sent = Whole(i)
      BY <1>0, <2>1, <3>1, PrefixWhole
    <3>3. IsPrefix(<<>>, Whole(i))
      BY <3>1, EmptyIsPrefix
    <3> QED
      BY <1>1, <2>1, <3>1, <3>2, <3>3
  <2> QED
    BY <1>3, <2>1, <2>2
<1>10. CASE TransferHash(x)
  <2>1. /\ xfer[x].pc = "hashing" /\ xfer'[x].pc = "hashing"
        /\ xfer'[x].ino = xfer[x].ino /\ xfer'[x].name = xfer[x].name
        /\ xfer'[x].sent = xfer[x].sent
        /\ xfer'[x].hashed = Append(xfer[x].hashed, data[xfer[x].ino][Len(xfer[x].hashed) + 1])
        /\ Len(xfer[x].hashed) < Len(data[xfer[x].ino])
    BY <1>0, <1>10 DEF TransferHash, TransferRPC
  <2>2. CASE xfer[x].name \in Paths
    <3>1. PICK i \in Inodes : /\ i = xfer[x].ino /\ Settled(i) /\ Whole(i) \in Seq(Chunks)
                              /\ IsPrefix(xfer[x].sent, Whole(i))
                              /\ data[i] = <<>> \/ data[i] = Whole(i)
      BY <1>7, <2>1, <2>2
    <3>2. data[i] = Whole(i)
      BY <1>0, <2>1, <3>1
    <3>3. IsPrefix(xfer[x].hashed, Whole(i)) /\ (data[i] = <<>> \/ xfer[x].sent = Whole(i))
      BY <1>0, <2>1, <2>2, <3>1 DEF TransferReads
    <3>4. IsPrefix(xfer'[x].hashed, Whole(i))
      BY <1>0, <2>1, <3>1, <3>2, <3>3, PrefixGrows
    <3> QED
      BY <1>1, <2>1, <3>1, <3>3, <3>4
  <2> QED
    BY <1>3, <2>1, <2>2
<1>11. CASE TransferEnd(x)
  <2>1. /\ xfer[x].pc = "hashing" /\ xfer'[x].pc = "ok"
        /\ xfer'[x].ino = xfer[x].ino /\ xfer'[x].name = xfer[x].name
        /\ xfer'[x].sent = xfer[x].sent /\ xfer'[x].hashed = xfer[x].hashed
        /\ Len(xfer[x].hashed) >= Len(data[xfer[x].ino])
    BY <1>0, <1>11 DEF TransferEnd, TransferRPC
  <2>2. CASE xfer[x].name \in Paths
    <3>1. PICK i \in Inodes : /\ i = xfer[x].ino /\ Settled(i) /\ Whole(i) \in Seq(Chunks)
                              /\ IsPrefix(xfer[x].sent, Whole(i))
                              /\ data[i] = <<>> \/ data[i] = Whole(i)
      BY <1>7, <2>1, <2>2
    <3>2. IsPrefix(xfer[x].hashed, Whole(i)) /\ (data[i] = <<>> \/ xfer[x].sent = Whole(i))
      BY <1>0, <2>1, <2>2, <3>1 DEF TransferReads
    <3>3. data[i] = <<>> \/ xfer[x].hashed = Whole(i)
      BY <1>0, <2>1, <3>1, <3>2, PrefixWhole
    <3> QED
      BY <1>1, <2>1, <3>1, <3>2, <3>3
  <2> QED
    BY <1>3, <2>1, <2>2
<1>12. CASE xfer' = Kill(xfer)
  <2>1. xfer'[x] = xfer[x] \/ xfer'[x] = [xfer[x] EXCEPT !.pc = "dead"]
    BY <1>0, <1>12 DEF Kill
  <2> QED
    BY <1>0, <1>2, <1>4, <2>1 DEF TransferRPC
<1>13. ASSUME NEW y \in Transfers, TransferStep(y), ~TransferPanic(y), y # x
       PROVE  xfer'[x] = xfer[x]
  BY <1>0, <1>13 DEF TransferStep, TransferStat, TransferOpen, TransferCopy, TransferRewind,
     TransferHash, TransferEnd, TransferFail
<1>14. \/ \E y \in Transfers : TransferStep(y) /\ ~TransferPanic(y)
       \/ xfer' = xfer
       \/ xfer' = Kill(xfer)
  BY DEF Next, vars, PutStep, PutOpen, PutCreateTemp, PutContents, PutHash, PutVerify,
     PutRename, PutChmod, PutFail, GetStep, GetStat, GetOpen, GetRead, GetEnd, GetFail,
     TransferStep, TransferPanic, RemoveStep, RemoveStat, RemoveUnlink, RemoveFail,
     StatStep, StatMask, StatRestore, StatFail, Crash, Die
<1> QED
  BY <1>4, <1>5, <1>6, <1>8, <1>9, <1>10, <1>11, <1>12, <1>13, <1>14 DEF TransferStep

\* A transfer never copies a mix of two versions of a file, and the hash it answers
\* is that of its copy unless the file was emptied meanwhile, for any interleaving of
\* uploads, readings and kills.
THEOREM TransfersCopyOneVersion == Spec => []TransferOneVersion
<1>1. Init => TransferInv
  <2> SUFFICES ASSUME Init, NEW x \in Transfers PROVE TransferReads(x)
    BY DEF TransferInv
  <2>1. xfer[x].pc = "idle" /\ xfer[x].sent = <<>>
    BY DEF Init
  <2> QED
    BY <2>1 DEF TransferReads
<1>2. TransferInv => TransferOneVersion
  BY DEF TransferInv, TransferReads, TransferOneVersion
<1>3. Spec => []StoreInv
  BY StoreInvInit, StoreInvNext, AlwaysTyped, PTL DEF Spec
<1> QED
  BY <1>1, <1>2, <1>3, TransferInvNext, AlwaysTyped, PTL DEF Spec

-----------------------------------------------------------------------------
\* What a Put and a Remove are asked for is fixed, and what has begun has begun.
LEMMA RequestsStay ==
  ASSUME Typed, [Next]_vars
  PROVE  /\ \A p \in Puts : /\ put'[p].path = put[p].path /\ put'[p].perm = put[p].perm
                            /\ put[p].pc # "idle" => put'[p].pc # "idle"
         /\ \A r \in Removes : /\ rm'[r].name = rm[r].name
                               /\ rm[r].pc # "idle" => rm'[r].pc # "idle"
<1>0. put \in [Puts -> PutRPC] /\ rm \in [Removes -> RemoveRPC]
  BY DEF Typed
<1>1. ASSUME NEW p \in Puts
      PROVE  /\ put'[p].path = put[p].path /\ put'[p].perm = put[p].perm
             /\ put[p].pc # "idle" => put'[p].pc # "idle"
  <2>1. ASSUME NEW q \in Puts, PutStep(q)
        PROVE  /\ put'[p].path = put[p].path /\ put'[p].perm = put[p].perm
               /\ put[p].pc # "idle" => put'[p].pc # "idle"
    <3>1. CASE PutHash(q)
      BY <1>0, <3>1 DEF PutHash, PutRPC
    <3>2. CASE \E c : c # "idle" /\ put' = [put EXCEPT ![q].pc = c]
      BY <1>0, <3>2 DEF PutRPC
    <3>3. CASE put' = put
      BY <3>3
    <3> QED
      BY <2>1, <3>1, <3>2, <3>3 DEF PutStep, PutOpen, PutCreateTemp, PutContents,
         PutVerify, PutRename, PutChmod, PutFail
  <2>2. CASE put' = Kill(put)
    BY <1>0, <2>2 DEF Kill, PutRPC
  <2> QED
    BY <2>1, <2>2, OthersKeep
<1>2. ASSUME NEW r \in Removes
      PROVE  /\ rm'[r].name = rm[r].name
             /\ rm[r].pc # "idle" => rm'[r].pc # "idle"
  <2>1. ASSUME NEW q \in Removes, RemoveStep(q)
        PROVE  \E c : c # "idle" /\ rm' = [rm EXCEPT ![q].pc = c]
    BY <2>1 DEF RemoveStep, RemoveStat, RemoveUnlink, RemoveFail
  <2>2. CASE \E q \in Removes : \E c : c # "idle" /\ rm' = [rm EXCEPT ![q].pc = c]
    BY <1>0, <2>2 DEF RemoveRPC
  <2>3. CASE rm' = Kill(rm)
    BY <1>0, <2>3 DEF Kill, RemoveRPC
  <2>4. rm' = rm \/ rm' = Kill(rm) \/ \E q \in Removes : RemoveStep(q)
    BY DEF Next, vars, PutStep, PutOpen, PutCreateTemp, PutContents, PutHash, PutVerify,
       PutRename, PutChmod, PutFail, GetStep, GetStat, GetOpen, GetRead, GetEnd, GetFail,
       TransferStep, TransferStat, TransferOpen, TransferCopy, TransferRewind, TransferHash,
       TransferEnd, TransferFail, TransferPanic,
       StatStep, StatMask, StatRestore, StatFail, Crash, Die
  <2> QED
    BY <2>1, <2>2, <2>3, <2>4
<1> QED
  BY <1>1, <1>2

\* Only the Puts set modes.
LEMMA OthersKeepModes ==
  ASSUME [Next]_vars, ~ \E p \in Puts : PutStep(p)
  PROVE  mode' = mode
BY DEF Next, vars, files, GetStep, GetStat, GetOpen, GetRead, GetEnd, GetFail,
   TransferStep, TransferStat, TransferOpen, TransferCopy, TransferRewind, TransferHash,
   TransferEnd, TransferFail, TransferPanic, RemoveStep, RemoveStat, RemoveUnlink, RemoveFail,
   StatStep, StatMask, StatRestore, StatFail, Crash, Die

\* The modes of the files under the paths: a temporary file has none of the bits
\* until it is renamed, and only a Put to its path gives it others.
Requested(n) ==
  Exists(n) => \/ dir[n] = OldInode(n) /\ mode[dir[n]] = OldMode
               \/ \E p \in Puts : /\ put[p].path = n /\ put[p].pc # "idle"
                                  /\ mode[dir[n]] \subseteq put[p].perm
ModeInv ==
  /\ \A p \in Puts : put[p].pc \in {"receiving", "reopened", "verified"} =>
        mode[TmpInode(p)] = {}
  /\ \A n \in Paths : Requested(n)

LEMMA ModeInvInit == Init => ModeInv
<1> SUFFICES ASSUME Init PROVE ModeInv
  OBVIOUS
<1>1. \A p \in Puts : put[p].pc = "idle"
  BY DEF Init
<1>2. ASSUME NEW n \in Paths, Exists(n)
      PROVE  dir[n] = OldInode(n) /\ mode[dir[n]] = OldMode
  <2>1. dir[n] = OldInode(n)
    <3>1. PICK old \in SUBSET Paths :
             dir = [m \in Names |-> IF m \in old THEN OldInode(m) ELSE NoInode]
      BY DEF Init
    <3> QED
      BY <1>2, <3>1 DEF Names, Exists
  <2>2. OldInode(n) \in Inodes /\ OldInode(n)[1] = "old"
    BY InodeFacts DEF OldInode
  <2>3. mode = [i \in Inodes |-> IF i[1] = "old" THEN OldMode ELSE {}]
    BY DEF Init
  <2> QED
    BY <2>1, <2>2, <2>3
<1> QED
  BY <1>1, <1>2 DEF ModeInv, Requested

\* A step of a Put gives the file under its path a mode it asked for, and leaves
\* those under the other paths alone.
LEMMA ModeInvNext ==
  Typed /\ StoreInv /\ BoundInv /\ ModeInv /\ [Next]_vars => ModeInv'
<1> SUFFICES ASSUME Typed, StoreInv, BoundInv, ModeInv, [Next]_vars
             PROVE  ModeInv'
  OBVIOUS
<1>0. /\ dir \in [Names -> Inodes \cup {NoInode}] /\ put \in [Puts -> PutRPC]
      /\ mode \in [Inodes -> Modes]
      /\ \A p \in Puts : put[p].path \in Paths /\ put[p].perm \in Modes
      /\ Paths \cap Puts = {} /\ \A n \in Paths : n \in Names
      /\ \A p \in Puts : p \in Names
  BY FileServerAssumption DEF Typed, PutRPC, Names
\* A path keeps its file and the mode of it, or loses the file.
<1>1. ASSUME NEW n \in Paths, dir'[n] \in {dir[n], NoInode},
             dir'[n] = dir[n] => mode'[dir[n]] = mode[dir[n]]
      PROVE  Requested(n)'
  BY <1>1, RequestsStay DEF ModeInv, Requested, Exists
<1>2. ASSUME NEW p \in Puts, PutStep(p)
      PROVE  ModeInv'
  <2>1. ASSUME mode' = mode, \A n \in Paths : dir'[n] = dir[n],
               put'[p].pc \in {"receiving", "reopened", "verified"} =>
                   put[p].pc \in {"receiving", "reopened", "verified"},
               \A q \in Puts \ {p} : put'[q] = put[q]
        PROVE  ModeInv'
    BY <1>1, <2>1 DEF ModeInv
  <2>2. CASE PutOpen(p)
    <3>1. /\ \A q \in Puts \ {p} : put'[q] = put[q]
          /\ put'[p].pc = "opened" /\ put'[p].perm = put[p].perm /\ put'[p].path = put[p].path
      BY <1>0, <2>2 DEF PutOpen, PutRPC
    <3>2. CASE Exists(put[p].path)
      BY <2>1, <2>2, <3>1, <3>2 DEF PutOpen
    <3>3. CASE ~Exists(put[p].path)
      <4>1. /\ \A n \in Paths : dir'[n] = IF n = put[p].path THEN NewInode(p) ELSE dir[n]
            /\ \A i \in Inodes : i # NewInode(p) => mode'[i] = mode[i]
            /\ mode'[NewInode(p)] = put[p].perm \ umask
        BY <1>0, <2>2, <3>3, InodeFacts DEF PutOpen
      <4>2. ASSUME NEW n \in Paths
            PROVE  Requested(n)'
        <5>1. CASE n = put[p].path
          BY <3>1, <4>1, <5>1 DEF Requested
        <5>2. CASE n # put[p].path
          <6>1. dir[n] # NewInode(p)
            BY <5>2, InodeFacts, InodesDiffer DEF BoundInv
          <6>2. dir[n] \in Inodes => mode'[dir[n]] = mode[dir[n]]
            BY <4>1, <6>1
          <6> QED
            BY <1>0, <4>1, <5>2, <6>2, RequestsStay DEF ModeInv, Requested, Exists
        <5> QED
          BY <5>1, <5>2
      <4>3. \A q \in Puts : mode'[TmpInode(q)] = mode[TmpInode(q)]
        BY <4>1, InodeFacts, InodesDiffer
      <4> QED
        BY <3>1, <4>2, <4>3 DEF ModeInv
    <3> QED
      BY <3>2, <3>3
  <2>3. CASE PutCreateTemp(p)
    <3>1. /\ \A q \in Puts \ {p} : put'[q] = put[q]
          /\ put[p].pc = "opened"
          /\ \A n \in Paths : dir'[n] = dir[n]
          /\ \A i \in Inodes : i # TmpInode(p) => mode'[i] = mode[i]
          /\ mode'[TmpInode(p)] = {}
      BY <1>0, <2>3, InodeFacts DEF PutCreateTemp
    <3>2. ASSUME NEW n \in Paths
          PROVE  Requested(n)'
      <4>1. CASE Exists(n)
        <5>1. dir[n] # TmpInode(p) /\ dir[n] \in Inodes
          BY <1>0, <3>1, <4>1 DEF StoreInv, Settled, Finished, Exists
        <5> QED
          BY <1>1, <3>1, <5>1
      <4>2. CASE ~Exists(n)
        BY <3>1, <4>2 DEF Requested, Exists
      <4> QED
        BY <4>1, <4>2
    <3>3. \A q \in Puts \ {p} : mode'[TmpInode(q)] = mode[TmpInode(q)]
      BY <3>1, InodeFacts, InodesDiffer
    <3> QED
      BY <3>1, <3>2, <3>3 DEF ModeInv
  <2>4. CASE PutRename(p)
    <3>1. /\ \A q \in Puts \ {p} : put'[q] = put[q]
          /\ put[p].pc = "verified" /\ put'[p].pc = "renamed"
          /\ put'[p].perm = put[p].perm /\ put'[p].path = put[p].path
          /\ \A n \in Paths : dir'[n] = IF n = put[p].path THEN TmpInode(p) ELSE dir[n]
          /\ mode' = mode
      BY <1>0, <2>4 DEF PutRename, PutRPC, StoreInv, Exists
    <3>2. Requested(put[p].path)'
      BY <1>0, <3>1 DEF Requested, ModeInv
    <3>3. \A n \in Paths : Requested(n)'
      BY <1>1, <3>1, <3>2
    <3> QED
      BY <3>1, <3>3 DEF ModeInv
  <2>5. CASE PutChmod(p)
    <3>1. /\ \A q \in Puts \ {p} : put'[q] = put[q]
          /\ put'[p].pc = "ok" /\ put'[p].perm = put[p].perm /\ put'[p].path = put[p].path
          /\ dir' = dir /\ Exists(put[p].path)
          /\ mode' = [mode EXCEPT ![dir[put[p].path]] = put[p].perm]
      BY <1>0, <2>5 DEF PutChmod, PutRPC
    <3>2. Requested(put[p].path)'
      <4>1. dir[put[p].path] \in Inodes
        BY <1>0, <3>1 DEF Exists
      <4> QED
        BY <1>0, <3>1, <4>1 DEF Requested
    <3>3. ASSUME NEW n \in Paths, n # put[p].path
          PROVE  Requested(n)'
      <4>1. dir[n] # dir[put[p].path]
        BY <1>0, <3>1, <3>3, PathsApart
      <4>2. dir[n] \in Inodes => mode'[dir[n]] = mode[dir[n]]
        BY <1>0, <3>1, <4>1
      <4> QED
        BY <1>0, <3>1, <4>2, RequestsStay DEF ModeInv, Requested, Exists
    <3>4. ASSUME NEW q \in Puts, put'[q].pc \in {"receiving", "reopened", "verified"}
          PROVE  mode'[TmpInode(q)] = {}
      <4>1. put[q].pc \in {"receiving", "reopened", "verified"}
        BY <3>1, <3>4
      <4>2. dir[put[p].path] # TmpInode(q)
        BY <1>0, <3>1, <4>1 DEF StoreInv, Settled, Finished
      <4> QED
        BY <1>0, <3>1, <4>1, <4>2, InodeFacts DEF ModeInv
    <3>5. \A n \in Paths : Requested(n)'
      BY <3>1, <3>2, <3>3
    <3> QED
      BY <3>4, <3>5 DEF ModeInv
  <2>6. CASE PutContents(p) \/ PutHash(p) \/ PutVerify(p) \/ PutFail(p)
    BY <1>0, <2>1, <2>6 DEF PutContents, PutHash, PutVerify, PutFail, PutRPC, files
  <2> QED
    BY <1>2, <2>2, <2>3, <2>4, <2>5, <2>6 DEF PutStep
<1>3. CASE ~ \E p \in Puts : PutStep(p)
  <2>1. /\ mode' = mode
        /\ \A n \in Paths : dir'[n] \in {dir[n], NoInode}
        /\ put' = put \/ put' = Kill(put)
    BY <1>0, <1>3, OthersKeep, OthersKeepModes
  <2>2. \A p \in Puts : put'[p].pc \in {"receiving", "reopened", "verified"} =>
                            put[p].pc \in {"receiving", "reopened", "verified"}
    BY <1>0, <2>1 DEF Kill, PutRPC
  <2> QED
    BY <1>1, <2>1, <2>2 DEF ModeInv
<1> QED
  BY <1>2, <1>3

\* No file under a path has permission bits that neither its past nor some Put to
\* the path asked for, for any interleaving of renames and chmods.
THEOREM ModesWereRequested == Spec => []ModesAreRequested
<1>1. ModeInv => ModesAreRequested
  BY DEF ModeInv, Requested, ModesAreRequested, OldInode
<1>2. Spec => [](StoreInv /\ BoundInv)
  BY StoreInvInit, StoreInvNext, BoundInvInit, BoundInvNext, AlwaysTyped, PTL DEF Spec
<1> QED
  BY <1>1, <1>2, ModeInvInit, ModeInvNext, AlwaysTyped, PTL DEF Spec

-----------------------------------------------------------------------------
\* A Put alone on its path has its temporary file there once it is renamed, whole,
\* and with its mode once it succeeded.
Served(p) ==
  /\ put[p].pc \in {"renamed", "ok"} => /\ dir[put[p].path] = TmpInode(p) /\ dir[p] = NoInode
                                        /\ data[TmpInode(p)] = put[p].hash
  /\ put[p].pc = "ok" => mode[TmpInode(p)] = put[p].perm

AckedInv == \A p \in Puts : Alone(p) => Served(p)

\* A Put that is alone has been so.
LEMMA AloneBefore ==
  ASSUME Typed, [Next]_vars, NEW p \in Puts, Alone(p)'
  PROVE  Alone(p)
BY RequestsStay DEF Alone

\* The steps of the other RPCs leave alone what a Put alone on its path published.
LEMMA ServedByOthers ==
  ASSUME Typed, StoreInv, BoundInv, NEW p \in Puts, Alone(p)', [Next]_vars, ~PutStep(p),
         dir[put[p].path] = TmpInode(p), dir[p] = NoInode
  PROVE  /\ dir'[put[p].path] = dir[put[p].path] /\ dir'[p] = NoInode
         /\ data'[TmpInode(p)] = data[TmpInode(p)] /\ mode'[TmpInode(p)] = mode[TmpInode(p)]
<1>0. /\ dir \in [Names -> Inodes \cup {NoInode}] /\ put \in [Puts -> PutRPC]
      /\ mode \in [Inodes -> Modes] /\ data \in [Inodes -> Seq(Chunks)]
      /\ \A q \in Puts : put[q].path \in Paths
      /\ Paths \cap Puts = {} /\ \A n \in Paths : n \in Names
      /\ \A q \in Puts : q \in Names /\ TmpInode(q) \in Inodes /\ NewInode(q) \in Inodes
  BY FileServerAssumption, InodeFacts DEF Typed, PutRPC, Names
<1>1. ASSUME NEW q \in Puts, q # p, PutStep(q)
      PROVE  /\ dir'[put[p].path] = dir[put[p].path] /\ dir'[p] = NoInode
             /\ data'[TmpInode(p)] = data[TmpInode(p)] /\ mode'[TmpInode(p)] = mode[TmpInode(p)]
  <2>1. put'[q].pc # "idle"
    BY <1>0, <1>1 DEF PutStep, PutOpen, PutCreateTemp, PutContents, PutHash, PutVerify,
       PutRename, PutChmod, PutFail, PutRPC
  <2>2. put[q].path # put[p].path
    <3>1. put'[q].path = put'[p].path => put'[q].pc = "idle"
      BY <1>1 DEF Alone
    <3> QED
      BY <2>1, <3>1, RequestsStay
  <2>3. dir[put[q].path] # TmpInode(p)
    <3>1. Exists(put[p].path)
      BY <1>0, InodeFacts DEF Exists
    <3> QED
      BY <1>0, <2>2, <3>1, PathsApart
  <2>4. TmpInode(q) # TmpInode(p) /\ NewInode(q) # TmpInode(p)
    BY <1>1, InodesDiffer
  <2>5. CASE PutOpen(q)
    BY <1>0, <2>2, <2>3, <2>4, <2>5 DEF PutOpen
  <2>6. CASE PutCreateTemp(q) \/ PutContents(q)
    BY <1>0, <1>1, <2>4, <2>6 DEF PutCreateTemp, PutContents
  <2>7. CASE PutRename(q)
    BY <1>0, <1>1, <2>2, <2>7 DEF PutRename
  <2>8. CASE PutChmod(q)
    BY <1>0, <2>3, <2>8 DEF PutChmod
  <2>9. CASE PutHash(q) \/ PutVerify(q) \/ PutFail(q)
    BY <2>9 DEF PutHash, PutVerify, PutFail, files
  <2> QED
    BY <1>1, <2>5, <2>6, <2>7, <2>8, <2>9 DEF PutStep
<1>2. ASSUME NEW r \in Removes, RemoveStep(r)
      PROVE  /\ dir'[put[p].path] = dir[put[p].path] /\ dir'[p] = NoInode
  <2>1. rm \in [Removes -> RemoveRPC]
    BY DEF Typed
  <2>2. rm'[r].pc # "idle"
    BY <1>2, <2>1 DEF RemoveStep, RemoveStat, RemoveUnlink, RemoveFail, RemoveRPC
  <2>3. rm[r].name # put[p].path
    <3>1. rm'[r].name = put'[p].path => rm'[r].pc = "idle"
      BY <1>2 DEF Alone
    <3> QED
      BY <2>2, <3>1, RequestsStay
  <2>4. dir' = dir \/ dir' = [dir EXCEPT ![rm[r].name] = NoInode]
    BY <1>2 DEF RemoveStep, RemoveStat, RemoveUnlink, RemoveFail, files
  <2> QED
    BY <1>0, <2>3, <2>4
<1>3. ASSUME ~ \E q \in Puts : PutStep(q), ~ \E r \in Removes : RemoveStep(r)
      PROVE  dir' = dir
  BY <1>3 DEF Next, vars, files, GetStep, GetStat, GetOpen, GetRead, GetEnd, GetFail,
     TransferStep, TransferStat, TransferOpen, TransferCopy, TransferRewind, TransferHash,
     TransferEnd, TransferFail, TransferPanic, StatStep, StatMask, StatRestore, StatFail,
     Crash, Die
<1>4. CASE ~ \E q \in Puts : PutStep(q)
  BY <1>2, <1>3, <1>4, OthersKeep, OthersKeepModes
<1> QED
  BY <1>1, <1>4

LEMMA AckedInvNext ==
  Typed /\ StoreInv /\ BoundInv /\ AckedInv /\ [Next]_vars => AckedInv'
<1> SUFFICES ASSUME Typed, StoreInv, BoundInv, AckedInv, [Next]_vars,
                    NEW p \in Puts, Alone(p)'
             PROVE  Served(p)'
  BY DEF AckedInv
<1>0. /\ dir \in [Names -> Inodes \cup {NoInode}] /\ put \in [Puts -> PutRPC]
      /\ mode \in [Inodes -> Modes] /\ data \in [Inodes -> Seq(Chunks)]
      /\ put[p].path \in Paths /\ put[p] \in PutRPC
      /\ put[p].path # p /\ put[p].path \in Names /\ p \in Names /\ TmpInode(p) \in Inodes
  BY FileServerAssumption, InodeFacts DEF Typed, PutRPC, Names
<1>1. Served(p)
  BY AloneBefore DEF AckedInv
<1>2. CASE PutRename(p)
  <2>1. /\ put'[p].pc = "renamed" /\ put'[p].path = put[p].path /\ put'[p].hash = put[p].hash
        /\ put[p].pc = "verified" /\ dir[p] = TmpInode(p)
        /\ dir' = [dir EXCEPT ![put[p].path] = dir[p], ![p] = NoInode] /\ data' = data
    BY <1>0, <1>2 DEF PutRename, PutRPC, StoreInv, Exists
  <2>2. dir'[put[p].path] = TmpInode(p) /\ dir'[p] = NoInode
    BY <1>0, <2>1
  <2> QED
    BY <1>0, <2>1, <2>2 DEF Served, StoreInv
<1>3. CASE PutChmod(p)
  <2>1. /\ put'[p].pc = "ok" /\ put'[p].path = put[p].path /\ put'[p].hash = put[p].hash
        /\ put'[p].perm = put[p].perm /\ put[p].pc = "renamed"
        /\ dir' = dir /\ data' = data
        /\ mode' = [mode EXCEPT ![dir[put[p].path]] = put[p].perm]
    BY <1>0, <1>3 DEF PutChmod, PutRPC
  <2> QED
    BY <1>0, <1>1, <2>1 DEF Served
<1>4. CASE PutStep(p) /\ ~PutRename(p) /\ ~PutChmod(p)
  <2>1. put'[p].pc \notin {"renamed", "ok"}
    BY <1>0, <1>4 DEF PutStep, PutOpen, PutCreateTemp, PutContents, PutHash, PutVerify,
       PutFail, PutRPC
  <2> QED
    BY <2>1 DEF Served
<1>5. CASE ~PutStep(p)
  <2>1. put'[p].pc \in {"renamed", "ok"} => put'[p] = put[p]
    <3>1. put' = put \/ put' = Kill(put) \/ \E q \in Puts \ {p} : PutStep(q)
      BY <1>5, OthersKeep
    <3>2. CASE put' = Kill(put)
      BY <1>0, <3>2 DEF Kill, PutRPC
    <3>3. ASSUME NEW q \in Puts \ {p}, PutStep(q)
          PROVE  put'[p] = put[p]
      BY <1>0, <3>3 DEF PutStep, PutOpen, PutCreateTemp, PutContents, PutHash, PutVerify,
         PutRename, PutChmod, PutFail
    <3> QED
      BY <3>1, <3>2, <3>3
  <2>2. CASE put'[p].pc \in {"renamed", "ok"}
    <3>1. dir[put[p].path] = TmpInode(p) /\ dir[p] = NoInode
      BY <1>1, <2>1, <2>2 DEF Served
    <3>2. /\ dir'[put[p].path] = dir[put[p].path] /\ dir'[p] = NoInode
          /\ data'[TmpInode(p)] = data[TmpInode(p)] /\ mode'[TmpInode(p)] = mode[TmpInode(p)]
      BY <1>5, <3>1, ServedByOthers
    <3> QED
      BY <1>1, <2>1, <2>2, <3>1, <3>2 DEF Served, TmpInode
  <2> QED
    BY <2>2 DEF Served
<1> QED
  BY <1>2, <1>3, <1>4, <1>5

\* A Put that returned success, with no other RPC on its path, left there the content
\* and the mode it asked for, for any number of RPCs on other paths and any kills.
THEOREM AckedPutsAreServed == Spec => []AckedPutIsServed
<1>1. Init => AckedInv
  BY DEF Init, AckedInv, Served
<1>2. AckedInv => AckedPutIsServed
  BY DEF AckedInv, Served, AckedPutIsServed
<1>3. Spec => [](StoreInv /\ BoundInv)
  BY StoreInvInit, StoreInvNext, BoundInvInit, BoundInvNext, AlwaysTyped, PTL DEF Spec
<1> QED
  BY <1>1, <1>2, <1>3, AckedInvNext, AlwaysTyped, PTL DEF Spec

-----------------------------------------------------------------------------
\* Stats served one at a time: no two are between their two system calls.
StatsApart ==
    \A s, r \in Stats : stat[s].pc = "masked" /\ stat[r].pc = "masked" => s = r

\* The one that is between them holds the umask to restore, which it then answers.
UmaskInv == /\ (\A s \in Stats : stat[s].pc # "masked") => umask = Umask0
            /\ \A s \in Stats : stat[s].pc \in {"masked", "ok"} => stat[s].umask = Umask0

\* Only the Stat and the death of the server touch the umask.
LEMMA UmaskNext ==
    StatsApart /\ StatsApart' /\ Typed /\ UmaskInv /\ [Next]_vars => UmaskInv'
<1> SUFFICES ASSUME StatsApart, StatsApart', Typed, UmaskInv, [Next]_vars
             PROVE  UmaskInv'
  OBVIOUS
<1>0. stat \in [Stats -> StatRPC]
  BY DEF Typed
<1>1. ASSUME NEW s \in Stats, StatStep(s)
      PROVE  UmaskInv'
  <2>2. CASE StatMask(s)
    <3>1. stat' = [stat EXCEPT ![s] = [@ EXCEPT !.pc = "masked", !.umask = umask]]
      BY <1>0, <2>2 DEF StatMask, StatRPC
    <3>2. stat'[s].pc = "masked" /\ stat'[s].umask = umask /\ stat[s].pc = "idle"
      BY <1>0, <2>2, <3>1 DEF StatMask, StatRPC
    <3>3. \A r \in Stats : r # s => stat'[r] = stat[r]
      BY <1>0, <3>1
    <3>4. \A r \in Stats : stat[r].pc # "masked"
      BY <3>2, <3>3 DEF StatsApart
    <3>5. umask = Umask0
      BY <3>4 DEF UmaskInv
    <3> QED
      BY <3>2, <3>3, <3>5 DEF UmaskInv
  <2>3. CASE StatRestore(s)
    <3>1. stat'[s].umask = stat[s].umask /\ umask' = Umask0 /\ stat[s].umask = Umask0
      BY <1>0, <2>3 DEF StatRestore, UmaskInv, StatRPC
    <3>2. \A r \in Stats : r # s => stat'[r] = stat[r]
      BY <1>0, <2>3 DEF StatRestore
    <3> QED
      BY <3>1, <3>2 DEF UmaskInv
  <2>4. CASE StatFail(s)
    <3>1. /\ stat'[s].pc = "failed" /\ stat[s].pc = "idle" /\ umask' = umask
          /\ \A r \in Stats : r # s => stat'[r] = stat[r]
      BY <1>0, <2>4 DEF StatFail, StatRPC
    <3> QED
      BY <3>1 DEF UmaskInv
  <2> QED
    BY <1>1, <2>2, <2>3, <2>4 DEF StatStep
<1>2. CASE Die
  <2>1. \A s \in Stats : /\ stat'[s].pc # "masked"
                         /\ stat'[s].pc = "ok" => stat[s].pc = "ok" /\ stat'[s] = stat[s]
    BY <1>0, <1>2 DEF Die, Kill, Ended, StatRPC
  <2> QED
    BY <1>2, <2>1 DEF Die, UmaskInv
<1>3. CASE UNCHANGED <<umask, stat>>
  BY <1>3 DEF UmaskInv
<1>4. \/ \E s \in Stats : StatStep(s)
      \/ Die
      \/ UNCHANGED <<umask, stat>>
  BY DEF Next, vars, PutStep, PutOpen, PutCreateTemp, PutContents, PutHash, PutVerify,
     PutRename, PutChmod, PutFail, GetStep, GetStat, GetOpen, GetRead, GetEnd, GetFail,
     TransferStep, TransferStat, TransferOpen, TransferCopy, TransferRewind, TransferHash,
     TransferEnd, TransferFail, TransferPanic, RemoveStep, RemoveStat, RemoveUnlink,
     RemoveFail, Crash
<1> QED
  BY <1>1, <1>2, <1>3, <1>4

LEMMA UmaskInvariance == Spec /\ []StatsApart => []UmaskInv
<1>1. Init => UmaskInv
  BY DEF Init, UmaskInv
<1> QED
  BY <1>1, UmaskNext, AlwaysTyped, PTL DEF Spec

\* Only two Stats at once can make one answer with the other's mask: where they are
\* served one at a time every Stat answers with the umask of the process, for any number
\* of Stats and other RPCs, a panic and any kills.
THEOREM ApartStatsReportUmask == Spec /\ []StatsApart => []StatReportsUmask
<1>1. UmaskInv => StatReportsUmask
  BY DEF UmaskInv, StatReportsUmask
<1> QED
  BY <1>1, UmaskInvariance, PTL

-----------------------------------------------------------------------------
LEMMA TempsInit == Init => TempsAreOfUnfinished
<1> SUFFICES ASSUME Init, NEW p \in Puts PROVE ~Exists(p)
  BY DEF TempsAreOfUnfinished
<1>1. PICK old \in SUBSET Paths :
          dir = [n \in Names |-> IF n \in old THEN OldInode(n) ELSE NoInode]
  BY DEF Init
<1>2. p \in Names /\ p \notin Paths
  BY FileServerAssumption DEF Names
<1> QED
  BY <1>1, <1>2 DEF Exists

LEMMA TempsNext == Typed /\ TempsAreOfUnfinished /\ [Next]_vars => TempsAreOfUnfinished'
<1> SUFFICES ASSUME Typed, TempsAreOfUnfinished, [Next]_vars, NEW p \in Puts, dir'[p] # NoInode
             PROVE  put'[p].pc \in {"receiving", "reopened", "verified", "failed", "dead"}
  BY DEF TempsAreOfUnfinished, Exists
<1>0. /\ dir \in [Names -> Inodes \cup {NoInode}] /\ put \in [Puts -> PutRPC]
      /\ \A q \in Puts : put[q].path \in Paths
      /\ Paths \cap Puts = {} /\ \A n \in Paths : n \in Names
      /\ \A q \in Puts : q \in Names
  BY FileServerAssumption DEF Typed, PutRPC, Names
<1>1. ASSUME NEW q \in Puts, q # p, PutStep(q)
      PROVE  dir'[p] = dir[p] /\ put'[p] = put[p]
  <2>1. put'[p] = put[p]
    BY <1>0, <1>1 DEF PutStep, PutOpen, PutCreateTemp, PutContents, PutHash, PutVerify,
       PutRename, PutChmod, PutFail
  <2>2. dir'[p] = dir[p]
    BY <1>0, <1>1 DEF PutStep, PutOpen, PutCreateTemp, PutContents, PutHash, PutVerify,
       PutRename, PutChmod, PutFail, files
  <2> QED
    BY <2>1, <2>2
<1>2. ASSUME PutStep(p)
      PROVE  put'[p].pc \in {"receiving", "reopened", "verified", "failed", "dead"}
  <2>1. CASE PutOpen(p) \/ PutRename(p) \/ PutChmod(p)
    <3>1. dir'[p] = NoInode
      BY <1>0, <2>1 DEF PutOpen, PutRename, PutChmod, TempsAreOfUnfinished, Exists
    <3> QED
      BY <3>1
  <2>2. CASE PutContents(p)
    BY <2>2 DEF PutContents
  <2>3. CASE PutCreateTemp(p) \/ PutHash(p) \/ PutVerify(p) \/ PutFail(p)
    BY <1>0, <2>3 DEF PutCreateTemp, PutHash, PutVerify, PutFail, PutRPC
  <2> QED
    BY <1>2, <2>1, <2>2, <2>3 DEF PutStep
<1>3. CASE ~ \E q \in Puts : PutStep(q)
  <2>1. dir'[p] \in {dir[p], NoInode} /\ (put' = put \/ put' = Kill(put))
    BY <1>0, <1>3, OthersKeep
  <2>2. put[p].pc \in {"receiving", "reopened", "verified", "failed", "dead"}
    BY <2>1 DEF TempsAreOfUnfinished, Exists
  <2> QED
    BY <1>0, <2>1, <2>2 DEF Kill, Ended, PutRPC
<1> QED
  BY <1>0, <1>1, <1>2, <1>3 DEF TempsAreOfUnfinished, Exists

\* A Put that returned success leaves no temporary file behind, whatever other handlers do
\* to its path meanwhile; what is left in the directory is of Puts that failed or were
\* killed, at most one file for each.
THEOREM LeftoversAreOfFailures == Spec => []TempsAreOfUnfinished
BY TempsInit, TempsNext, AlwaysTyped, PTL DEF Spec
=============================================================================
