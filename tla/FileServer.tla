------------------------------ MODULE FileServer ------------------------------
(***************************************************************************)
(* The gNOI File service of `gnoic server` (type fserver, app/server.go):  *)
(* Put, Get, TransferToRemote, Stat and Remove handlers, each its own      *)
(* goroutine, over one POSIX directory.  There is no lock in the server:   *)
(* the handlers meet in the file system, one system call at a time.        *)
(*                                                                         *)
(* Files are inodes: a name can be re-bound (rename) or removed while a    *)
(* handler still holds the inode open.  File contents are sequences of     *)
(* chunks and a hash stands for the content hashed (it is collision free). *)
(* Modes are sets of permission bits.                                      *)
(***************************************************************************)
EXTENDS Naturals, Sequences, SequencesExt

CONSTANTS
    Puts, Gets, Transfers, Removes, Stats,  \* the RPCs, each used once
    Paths,     \* names of regular files under rootDir
    NoInode,   \* what an unused name is bound to
    Chunks,    \* the possible content messages
    MaxLen,    \* bound: content messages of one Put
    Digests,   \* the hashes a Put may declare, as the content they are of
    OldData,   \* OldData[n]: content of the file n when the server starts
    Bits,      \* permission bits subject to the umask
    OldMode,   \* mode of the files that exist when the server starts
    Umask0,    \* the umask the process is started with
    FileHashes, \* the values of --file-hash server processes are started with
    MayCrash   \* whether the server process may be killed

ASSUME FileServerAssumption ==
    /\ Paths \cap Puts = {}
    /\ Digests \subseteq Seq(Chunks)
    /\ OldData \in [Paths -> Seq(Chunks)]
    /\ OldMode \subseteq Bits /\ Umask0 \subseteq Bits
    /\ MaxLen \in Nat
    /\ MayCrash \in BOOLEAN

\* Inodes, by how they come to be: "old" ones are there from the start, Put p
\* may create "new" at its path (os.OpenFile) and creates "tmp" (CreateTemp).
OldInode(n) == <<"old", n>>
NewInode(p) == <<"new", p>>
TmpInode(p) == <<"tmp", p>>
Inodes == {OldInode(n) : n \in Paths} \cup {NewInode(p) : p \in Puts}
          \cup {TmpInode(p) : p \in Puts}

ASSUME NoInodeAssumption == NoInode \notin Inodes

\* The temporary file of Put p has a name of its own, written p.
Names == Paths \cup Puts
Modes == SUBSET Bits

VARIABLES
    dir,    \* dir[n]: the inode name n is bound to
    data,   \* data[i]: content of inode i
    mode,   \* mode[i]: permission bits of inode i
    umask,  \* the umask of the server process
    put, get, xfer, rm, stat  \* the state of each RPC's handler

files == <<dir, data, mode>>
vars == <<files, umask, put, get, xfer, rm, stat>>

PutRPC == [pc : {"idle", "opened", "receiving", "reopened", "verified",
                 "renamed", "ok", "failed", "dead"},
           path : Paths, perm : Modes, hash : Seq(Chunks)]
GetRPC == [pc : {"idle", "checked", "reading", "ok", "failed", "dead"},
           name : Names, ino : Inodes \cup {NoInode}, sent : Seq(Chunks)]
TransferRPC == [pc : {"idle", "checked", "copying", "hashing", "ok", "failed", "dead"},
                name : Names, ino : Inodes \cup {NoInode}, sent : Seq(Chunks),
                hashed : Seq(Chunks)]
RemoveRPC == [pc : {"idle", "checked", "ok", "failed", "dead"}, name : Names]
StatRPC == [pc : {"idle", "masked", "ok", "failed", "dead"}, umask : Modes]

Typed ==
    /\ dir \in [Names -> Inodes \cup {NoInode}]
    /\ data \in [Inodes -> Seq(Chunks)]
    /\ mode \in [Inodes -> Modes]
    /\ umask \in Modes
    /\ put \in [Puts -> PutRPC]
    /\ get \in [Gets -> GetRPC]
    /\ xfer \in [Transfers -> TransferRPC]
    /\ rm \in [Removes -> RemoveRPC]
    /\ stat \in [Stats -> StatRPC]

\* A handler that reads holds a file it opened.
Handles ==
    /\ \A g \in Gets : get[g].pc = "reading" => get[g].ino \in Inodes
    /\ \A x \in Transfers : xfer[x].pc \in {"copying", "hashing"} => xfer[x].ino \in Inodes

\* Every variable has its type, and no handler reads through a file it failed
\* to open.
TypeOK == Typed /\ Handles

-----------------------------------------------------------------------------
\* Some paths hold a file; the RPCs that will come are fixed but not begun.
Init ==
    /\ \E old \in SUBSET Paths :
          dir = [n \in Names |-> IF n \in old THEN OldInode(n) ELSE NoInode]
    /\ data = [i \in Inodes |-> IF i[1] = "old" THEN OldData[i[2]] ELSE <<>>]
    /\ mode = [i \in Inodes |-> IF i[1] = "old" THEN OldMode ELSE {}]
    /\ umask = Umask0
    /\ put \in [Puts -> [pc : {"idle"}, path : Paths, perm : Modes, hash : {<<>>}]]
    /\ get \in [Gets -> [pc : {"idle"}, name : Names, ino : {NoInode}, sent : {<<>>}]]
    /\ xfer \in [Transfers -> [pc : {"idle"}, name : Names, ino : {NoInode},
                               sent : {<<>>}, hashed : {<<>>}]]
    /\ rm \in [Removes -> [pc : {"idle"}, name : Names]]
    /\ stat = [s \in Stats |-> [pc |-> "idle", umask |-> {}]]

Exists(n) == dir[n] # NoInode

-----------------------------------------------------------------------------
(* Put *)

\* The first message is an Open: os.OpenFile(remoteFile, O_RDWR | O_CREATE |
\* O_TRUNC, rFileMode) empties the file the path names, or creates an empty one.
PutOpen(p) ==
    /\ put[p].pc = "idle"
    /\ put' = [put EXCEPT ![p].pc = "opened"]
    /\ LET n == put[p].path IN
       IF Exists(n)
       THEN /\ data' = [data EXCEPT ![dir[n]] = <<>>]
            /\ UNCHANGED <<dir, mode>>
       ELSE /\ dir' = [dir EXCEPT ![n] = NewInode(p)]
            /\ data' = [data EXCEPT ![NewInode(p)] = <<>>]
            /\ mode' = [mode EXCEPT ![NewInode(p)] = put[p].perm \ umask]
    /\ UNCHANGED <<umask, get, xfer, rm, stat>>

\* os.CreateTemp(dir, filepath.Base(remoteFile)), mode 0600.
PutCreateTemp(p) ==
    /\ put[p].pc = "opened"
    /\ put' = [put EXCEPT ![p].pc = "receiving"]
    /\ dir' = [dir EXCEPT ![p] = TmpInode(p)]
    /\ data' = [data EXCEPT ![TmpInode(p)] = <<>>]
    /\ mode' = [mode EXCEPT ![TmpInode(p)] = {}]
    /\ UNCHANGED <<umask, get, xfer, rm, stat>>

\* Mutant: the contents are written to the file itself.
PutContentsInPlace(p) ==
    /\ put[p].pc = "receiving"
    /\ Exists(put[p].path)
    /\ Len(data[dir[put[p].path]]) < MaxLen
    /\ \E c \in Chunks : data' = [data EXCEPT ![dir[put[p].path]] = Append(@, c)]
    /\ UNCHANGED <<dir, mode, umask, put, get, xfer, rm, stat>>

\* PutRequest_Contents: tempFile.Write, through the descriptor.
PutContents(p) ==
    /\ put[p].pc = "receiving"
    /\ Len(data[TmpInode(p)]) < MaxLen
    /\ \E c \in Chunks : data' = [data EXCEPT ![TmpInode(p)] = Append(@, c)]
    /\ UNCHANGED <<dir, mode, umask, put, get, xfer, rm, stat>>

\* PutRequest_Hash with a known method: the temporary file is closed and
\* opened again by name.
PutHash(p) ==
    /\ put[p].pc = "receiving"
    /\ Exists(p)
    /\ \E h \in Digests : put' = [put EXCEPT ![p].pc = "reopened", ![p].hash = h]
    /\ UNCHANGED <<files, umask, get, xfer, rm, stat>>

\* Mutant: the hashes are not compared.
PutNoVerify(p) ==
    /\ put[p].pc = "reopened"
    /\ put' = [put EXCEPT ![p].pc = "verified"]
    /\ UNCHANGED <<files, umask, get, xfer, rm, stat>>

\* bytes.Equal(cHash, req.Hash.GetHash())
PutVerify(p) ==
    /\ put[p].pc = "reopened"
    /\ data[TmpInode(p)] = put[p].hash
    /\ put' = [put EXCEPT ![p].pc = "verified"]
    /\ UNCHANGED <<files, umask, get, xfer, rm, stat>>

\* Mutant: the temporary file is linked to its path and not unlinked.
PutRenameCopies(p) ==
    /\ put[p].pc = "verified"
    /\ Exists(p)
    /\ put' = [put EXCEPT ![p].pc = "renamed"]
    /\ dir' = [dir EXCEPT ![put[p].path] = dir[p]]
    /\ UNCHANGED <<data, mode, umask, get, xfer, rm, stat>>

\* os.Rename(tempFileName, rFile.Name())
PutRename(p) ==
    /\ put[p].pc = "verified"
    /\ Exists(p)
    /\ put' = [put EXCEPT ![p].pc = "renamed"]
    /\ dir' = [dir EXCEPT ![put[p].path] = dir[p], ![p] = NoInode]
    /\ UNCHANGED <<data, mode, umask, get, xfer, rm, stat>>

\* Mutants: the umask is applied to the mode, or every bit is set.
PutChmodMasked(p) ==
    /\ put[p].pc = "renamed"
    /\ Exists(put[p].path)
    /\ put' = [put EXCEPT ![p].pc = "ok"]
    /\ mode' = [mode EXCEPT ![dir[put[p].path]] = put[p].perm \ umask]
    /\ UNCHANGED <<dir, data, umask, get, xfer, rm, stat>>

PutChmodAll(p) ==
    /\ put[p].pc = "renamed"
    /\ Exists(put[p].path)
    /\ put' = [put EXCEPT ![p].pc = "ok"]
    /\ mode' = [mode EXCEPT ![dir[put[p].path]] = Bits]
    /\ UNCHANGED <<dir, data, umask, get, xfer, rm, stat>>

\* os.Chmod(rFile.Name(), rFileMode): by name, then SendAndClose.
PutChmod(p) ==
    /\ put[p].pc = "renamed"
    /\ Exists(put[p].path)
    /\ put' = [put EXCEPT ![p].pc = "ok"]
    /\ mode' = [mode EXCEPT ![dir[put[p].path]] = put[p].perm]
    /\ UNCHANGED <<dir, data, umask, get, xfer, rm, stat>>

\* Every error return of Put: the stream ends or is cancelled, a message is out
\* of order or of an unknown type or hash method, the hash is wrong, or a system
\* call fails.  What was done so far stays done: the path keeps the emptied
\* file and the temporary file is not removed.
PutFail(p) ==
    /\ put[p].pc \in {"idle", "opened", "receiving", "reopened", "verified", "renamed"}
    /\ put' = [put EXCEPT ![p].pc = "failed"]
    /\ UNCHANGED <<files, umask, get, xfer, rm, stat>>

-----------------------------------------------------------------------------
(* Get *)

\* os.Stat(localFile), not a directory
GetStat(g) ==
    /\ get[g].pc = "idle"
    /\ Exists(get[g].name)
    /\ get' = [get EXCEPT ![g].pc = "checked"]
    /\ UNCHANGED <<files, umask, put, xfer, rm, stat>>

GetOpen(g) ==
    /\ get[g].pc = "checked"
    /\ Exists(get[g].name)
    /\ get' = [get EXCEPT ![g].pc = "reading", ![g].ino = dir[get[g].name]]
    /\ UNCHANGED <<files, umask, put, xfer, rm, stat>>

\* Mutant: the file is opened again by name for every read.
GetReadByName(g) ==
    /\ get[g].pc = "reading"
    /\ Exists(get[g].name)
    /\ LET now == data[dir[get[g].name]] IN
          /\ Len(get[g].sent) < Len(now)
          /\ get' = [get EXCEPT ![g].sent = Append(@, now[Len(@) + 1])]
    /\ UNCHANGED <<files, umask, put, xfer, rm, stat>>

\* r.Read, h.Write, stream.Send.
GetRead(g) ==
    /\ get[g].pc = "reading"
    /\ Len(get[g].sent) < Len(data[get[g].ino])
    /\ get' = [get EXCEPT ![g].sent = Append(@, data[get[g].ino][Len(@) + 1])]
    /\ UNCHANGED <<files, umask, put, xfer, rm, stat>>

\* io.EOF: the offset is at or beyond the end of the file; the hash of what was
\* read is sent.
GetEnd(g) ==
    /\ get[g].pc = "reading"
    /\ Len(get[g].sent) >= Len(data[get[g].ino])
    /\ get' = [get EXCEPT ![g].pc = "ok"]
    /\ UNCHANGED <<files, umask, put, xfer, rm, stat>>

\* The file is missing or a directory, a read or a send fails, or the client
\* cancels.
GetFail(g) ==
    /\ get[g].pc \in {"idle", "checked", "reading"}
    /\ get' = [get EXCEPT ![g].pc = "failed"]
    /\ UNCHANGED <<files, umask, put, xfer, rm, stat>>

-----------------------------------------------------------------------------
(* TransferToRemote, over SCP or SFTP *)

TransferStat(x) ==
    /\ xfer[x].pc = "idle"
    /\ Exists(xfer[x].name)
    /\ xfer' = [xfer EXCEPT ![x].pc = "checked"]
    /\ UNCHANGED <<files, umask, put, get, rm, stat>>

\* Mutant: the error of os.Open is not looked at.
TransferOpenUnchecked(x) ==
    /\ xfer[x].pc = "checked"
    /\ xfer' = [xfer EXCEPT ![x].pc = "copying", ![x].ino = dir[xfer[x].name]]
    /\ UNCHANGED <<files, umask, put, get, rm, stat>>

TransferOpen(x) ==
    /\ xfer[x].pc = "checked"
    /\ Exists(xfer[x].name)
    /\ xfer' = [xfer EXCEPT ![x].pc = "copying", ![x].ino = dir[xfer[x].name]]
    /\ UNCHANGED <<files, umask, put, get, rm, stat>>

\* io.Copy or scp's CopyFile: one read of the local file, one remote write.
TransferCopy(x) ==
    /\ xfer[x].pc = "copying"
    /\ Len(xfer[x].sent) < Len(data[xfer[x].ino])
    /\ xfer' = [xfer EXCEPT ![x].sent = Append(@, data[xfer[x].ino][Len(@) + 1])]
    /\ UNCHANGED <<files, umask, put, get, rm, stat>>

\* Mutant: the file is not rewound, so nothing is left to hash.
TransferNoRewind(x) ==
    /\ xfer[x].pc = "copying"
    /\ Len(xfer[x].sent) >= Len(data[xfer[x].ino])
    /\ xfer' = [xfer EXCEPT ![x].pc = "ok", ![x].hashed = <<>>]
    /\ UNCHANGED <<files, umask, put, get, rm, stat>>

\* End of file: f.Seek(0, io.SeekStart), and the file is read again.
TransferRewind(x) ==
    /\ xfer[x].pc = "copying"
    /\ Len(xfer[x].sent) >= Len(data[xfer[x].ino])
    /\ xfer' = [xfer EXCEPT ![x].pc = "hashing", ![x].hashed = <<>>]
    /\ UNCHANGED <<files, umask, put, get, rm, stat>>

\* The flags for which TransferToRemote makes a hash.Hash.
KnownHashes == {"md5", "sha256", "sha512"}

TransferHash(x) ==
    /\ xfer[x].pc = "hashing"
    /\ FileHashes \cap KnownHashes # {}
    /\ Len(xfer[x].hashed) < Len(data[xfer[x].ino])
    /\ xfer' = [xfer EXCEPT ![x].hashed = Append(@, data[xfer[x].ino][Len(@) + 1])]
    /\ UNCHANGED <<files, umask, put, get, rm, stat>>

TransferEnd(x) ==
    /\ xfer[x].pc = "hashing"
    /\ FileHashes \cap KnownHashes # {}
    /\ Len(xfer[x].hashed) >= Len(data[xfer[x].ino])
    /\ xfer' = [xfer EXCEPT ![x].pc = "ok"]
    /\ UNCHANGED <<files, umask, put, get, rm, stat>>

\* HTTP and HTTPS are not implemented, the remote path does not parse, the SSH
\* connection or a copy fails, the local file is missing.
TransferFail(x) ==
    /\ xfer[x].pc \in {"idle", "checked", "copying", "hashing"}
    /\ xfer' = [xfer EXCEPT ![x].pc = "failed"]
    /\ UNCHANGED <<files, umask, put, get, rm, stat>>

-----------------------------------------------------------------------------
(* Remove *)

RemoveStat(r) ==
    /\ rm[r].pc = "idle"
    /\ Exists(rm[r].name)
    /\ rm' = [rm EXCEPT ![r].pc = "checked"]
    /\ UNCHANGED <<files, umask, put, get, xfer, stat>>

\* os.Remove(statPath)
RemoveUnlink(r) ==
    /\ rm[r].pc = "checked"
    /\ Exists(rm[r].name)
    /\ rm' = [rm EXCEPT ![r].pc = "ok"]
    /\ dir' = [dir EXCEPT ![rm[r].name] = NoInode]
    /\ UNCHANGED <<data, mode, umask, put, get, xfer, stat>>

RemoveFail(r) ==
    /\ rm[r].pc \in {"idle", "checked"}
    /\ rm' = [rm EXCEPT ![r].pc = "failed"]
    /\ UNCHANGED <<files, umask, put, get, xfer, stat>>

-----------------------------------------------------------------------------
(* Stat: the umask can only be read by setting it, process-wide. *)

\* oldUmask := unix.Umask(0)
StatMask(s) ==
    /\ stat[s].pc = "idle"
    /\ stat' = [stat EXCEPT ![s].pc = "masked", ![s].umask = umask]
    /\ umask' = {}
    /\ UNCHANGED <<files, put, get, xfer, rm>>

\* unix.Umask(oldUmask); the answer, or the failure to list a directory,
\* changes nothing.
StatRestore(s) ==
    /\ stat[s].pc = "masked"
    /\ stat' = [stat EXCEPT ![s].pc = "ok"]
    /\ umask' = stat[s].umask
    /\ UNCHANGED <<files, put, get, xfer, rm>>

\* os.Stat(statPath) failed.
StatFail(s) ==
    /\ stat[s].pc = "idle"
    /\ stat' = [stat EXCEPT ![s].pc = "failed"]
    /\ UNCHANGED <<files, umask, put, get, xfer, rm>>

-----------------------------------------------------------------------------
Ended == {"idle", "ok", "failed", "dead"}
Kill(rpc) == [h \in DOMAIN rpc |->
                IF rpc[h].pc \in Ended THEN rpc[h] ELSE [rpc[h] EXCEPT !.pc = "dead"]]

\* The process dies with its handlers; the files stay, and a new process serves
\* the RPCs still to come.
Die ==
    /\ put' = Kill(put) /\ get' = Kill(get) /\ xfer' = Kill(xfer)
    /\ rm' = Kill(rm) /\ stat' = Kill(stat)
    /\ umask' = Umask0
    /\ UNCHANGED files

\* RunEServer returns as soon as its context ends, without waiting for handlers.
Crash == MayCrash /\ Die

\* With any other --file-hash no hash.Hash is made: the nil one panics in its
\* first use, and grpc does not recover.
TransferPanic(x) ==
    /\ xfer[x].pc = "hashing"
    /\ FileHashes \ KnownHashes # {} /\ xfer[x].hashed = <<>>
    /\ Die

PutStep(p) == \/ PutOpen(p) \/ PutCreateTemp(p) \/ PutContents(p) \/ PutHash(p)
              \/ PutVerify(p) \/ PutRename(p) \/ PutChmod(p) \/ PutFail(p)
GetStep(g) == GetStat(g) \/ GetOpen(g) \/ GetRead(g) \/ GetEnd(g) \/ GetFail(g)
TransferStep(x) == \/ TransferStat(x) \/ TransferOpen(x) \/ TransferCopy(x)
                   \/ TransferRewind(x) \/ TransferHash(x) \/ TransferEnd(x)
                   \/ TransferFail(x) \/ TransferPanic(x)
RemoveStep(r) == RemoveStat(r) \/ RemoveUnlink(r) \/ RemoveFail(r)
StatStep(s) == StatMask(s) \/ StatRestore(s) \/ StatFail(s)

Next == \/ \E p \in Puts : PutStep(p)
        \/ \E g \in Gets : GetStep(g)
        \/ \E x \in Transfers : TransferStep(x)
        \/ \E r \in Removes : RemoveStep(r)
        \/ \E s \in Stats : StatStep(s)
        \/ Crash

Spec == Init /\ [][Next]_vars

-----------------------------------------------------------------------------
(***************************************************************************)
(* Properties                                                              *)
(***************************************************************************)

\* The one content an inode may show under a path, apart from being empty: what
\* was there at the start, or what a Put declared and the server verified.
Whole(i) == CASE i[1] = "old" -> OldData[i[2]]
              [] i[1] = "tmp" -> put[i[2]].hash
              [] i[1] = "new" -> <<>>

\* A path never names a partial upload, nor one whose hash is wrong, whatever
\* the other handlers do and wherever the server is killed: its file is whole,
\* or emptied by the opening of a later Put.
PublishedWhole ==
    \A n \in Paths : Exists(n) => data[dir[n]] \in {<<>>, Whole(dir[n])}

\* What a Get sends, and vouches for with its hash, is a prefix of one version
\* of the file, never a mix of two, however many Puts replace it meanwhile.
GetOneVersion ==
    \A g \in Gets : /\ get[g].pc \in {"reading", "ok"}
                    /\ get[g].name \in Paths
                    => IsPrefix(get[g].sent, Whole(get[g].ino))

\* The same for the copy a TransferToRemote makes; and the hash it answers,
\* from a second reading, is that of the copy unless a Put emptied the file.
TransferOneVersion ==
    \A x \in Transfers :
        xfer[x].name \in Paths =>
            /\ xfer[x].pc \in {"copying", "hashing", "ok"}
               => IsPrefix(xfer[x].sent, Whole(xfer[x].ino))
            /\ xfer[x].pc = "ok" => \/ xfer[x].hashed = xfer[x].sent
                                    \/ data[xfer[x].ino] = <<>>

\* No other RPC has begun to change the path of Put p, or its temporary file.
Alone(p) ==
    /\ \A q \in Puts \ {p} : put[q].path = put[p].path => put[q].pc = "idle"
    /\ \A r \in Removes : rm[r].name = put[p].path => rm[r].pc = "idle"

\* A Put that returned success, alone on its path, left there the content it
\* was sent with the mode it asked for, and no temporary file.
AckedPutIsServed ==
    \A p \in Puts :
        put[p].pc = "ok" /\ Alone(p) =>
            /\ dir[put[p].path] = TmpInode(p) /\ dir[p] = NoInode
            /\ data[TmpInode(p)] = put[p].hash
            /\ mode[TmpInode(p)] = put[p].perm

\* A temporary file is of a Put that has not published it, or that failed or was killed
\* before it did: a Put that succeeds leaves none behind, whatever Removes, other Puts
\* and kills do meanwhile.
TempsAreOfUnfinished ==
    \A p \in Puts : Exists(p) =>
        put[p].pc \in {"receiving", "reopened", "verified", "failed", "dead"}

\* With no Put in progress, a file published by a successful Put has the mode
\* that Put asked for.
PutSetsItsMode ==
    \A p \in Puts :
        /\ put[p].pc = "ok" /\ dir[put[p].path] = TmpInode(p)
        /\ \A q \in Puts : put[q].pc \in Ended
        => mode[TmpInode(p)] = put[p].perm

\* No file has permission bits that neither its past nor some Put to its path
\* asked for, even between the rename and the chmod of concurrent Puts.
ModesAreRequested ==
    \A n \in Paths :
        Exists(n) => \/ dir[n][1] = "old" /\ mode[dir[n]] = OldMode
                     \/ \E p \in Puts : /\ put[p].path = n /\ put[p].pc # "idle"
                                        /\ mode[dir[n]] \subseteq put[p].perm

\* A Stat answers with the umask the process was started with.
StatReportsUmask == \A s \in Stats : stat[s].pc = "ok" => stat[s].umask = Umask0

\* The file a path holds, and the contents that uploads have declared and may
\* still publish.
Content(n) == [exists |-> Exists(n), content |-> IF Exists(n) THEN data[dir[n]] ELSE <<>>]

Pending(p) == put[p].pc \in {"reopened", "verified"}
OfferOf(p) == [by |-> p, path |-> put[p].path, content |-> put[p].hash]
Offers     == {OfferOf(p) : p \in {q \in Puts : Pending(q)}}

\* What clients of the service may assume of its paths (module FileStore): a
\* file appears under a path only as a whole, as one upload to that path
\* declared it, and once.
Store == INSTANCE FileStore WITH
    Uploads <- Puts,
    file    <- [n \in Paths |-> Content(n)],
    offer   <- Offers

StoresFiles == Store!Spec
=============================================================================
