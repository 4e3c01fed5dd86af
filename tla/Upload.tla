-------------------------------- MODULE Upload --------------------------------
(***************************************************************************)
(* The uploads: `gnoic file put` of one file (app/filePut.go) and          *)
(* `gnoic system set-package` (app/systemSetPackage.go).  The client sends *)
(* a header, the file block by block, its hash, closes its side and waits  *)
(* for the only answer.  "ZeroSetPackage" is set-package with              *)
(* --content-chunk-size 0: file put has a default for it, set-package not. *)
(*                                                                         *)
(* The server hashes what it gets.  That of `gnoic server` (module         *)
(* FileServer) publishes the file when the hash arrives; a device may wait *)
(* for the end of the client's side first.                                 *)
(***************************************************************************)
EXTENDS Stream

SetPackages == {"SetPackage", "ZeroSetPackage"}
Uploads == {"Put"} \cup SetPackages
Chunked(r) == r # "ZeroSetPackage"
UploadRequests == {"Header", "Contents", "Hash"}

UploadTypeOK ==
    rpc \in Uploads =>
        StreamTypeOK({"reading", "sending", "hash", "close", "wait"},
                     {"contents", "hashed", "stored", "answered"},
                     UploadRequests, {"Response"})

UploadInit == StreamInit /\ rpc \in Uploads

-----------------------------------------------------------------------------
(* filePut, sendSysPackageFile *)

Uploading(r) == rpc = r /\ UNCHANGED <<rpc, serverVars>>

\* The file is opened, the stream made, and the header sent.
UploadHeader(r) ==
    /\ Uploading(r) /\ client = "start"
    /\ Send("Header")
    /\ Goto("reading")
    /\ UNCHANGED sent

\* Mutant: a failed read ends the file like its end.
UploadReadLoose(r) ==
    /\ Uploading(r) /\ client = "reading"
    /\ \/ sent < Blocks /\ Goto("sending")
       \/ Goto("hash")
    /\ UNCHANGED <<channel, sent>>

\* Mutant: the last, empty read is sent as a block.
UploadReadPast(r) ==
    /\ Uploading(r) /\ client = "reading"
    /\ Goto(IF sent <= Blocks THEN "sending" ELSE "hash")
    /\ UNCHANGED <<channel, sent>>

\* A block, or the end of the file, which a read into an empty buffer is taken for.
UploadRead(r) ==
    /\ Uploading(r) /\ client = "reading"
    /\ Goto(IF sent < Blocks /\ Chunked(r) THEN "sending" ELSE "hash")
    /\ UNCHANGED <<channel, sent>>

UploadContents(r) ==
    /\ Uploading(r) /\ client = "sending"
    /\ Send("Contents")
    /\ sent' = sent + 1
    /\ Goto("reading")

UploadHash(r) ==
    /\ Uploading(r) /\ client = "hash"
    /\ Send("Hash")
    /\ Goto("close")
    /\ UNCHANGED sent

\* Mutant: CloseAndRecv only receives.
UploadCloseNot(r) ==
    /\ Uploading(r) /\ client = "close"
    /\ Goto("wait")
    /\ UNCHANGED <<channel, sent>>

\* CloseAndRecv: CloseSend, ...
UploadClose(r) ==
    /\ Uploading(r) /\ client = "close"
    /\ CloseSend
    /\ Goto("wait")
    /\ UNCHANGED sent

\* ... and the answer, which the status of a successful RPC follows.
UploadAnswered(r) ==
    /\ Uploading(r) /\ client = "wait"
    /\ ended = "ok" /\ Recv("Response")
    /\ Return("nil")
    /\ UNCHANGED sent

\* The file cannot be opened or read, or the stream made; Send fails with io.EOF,
\* which hides the server's reason; or the RPC fails.
UploadFails(r) ==
    /\ Uploading(r)
    /\ \/ client \in {"start", "reading"} /\ UNCHANGED channel
       \/ client \in {"sending", "hash"} /\ SendFails
       \/ client = "wait" /\ (RecvEnded \/ (ended = "error" /\ Recv("Response")))
    /\ Return("error")
    /\ UNCHANGED sent

-----------------------------------------------------------------------------
(* The server *)

UploadServer(r) == rpc = r /\ UNCHANGED <<rpc, clientVars>>

UploadReceive(r) ==
    /\ UploadServer(r)
    /\ \/ server = "start" /\ Handle("Header") /\ server' = "contents" /\ UNCHANGED got
       \/ server = "contents" /\ Handle("Contents") /\ got' = got + 1 /\ UNCHANGED server
       \/ server = "contents" /\ Handle("Hash") /\ server' = "hashed" /\ UNCHANGED got

\* The hash is the one of the blocks received.
UploadStore(r) ==
    /\ UploadServer(r) /\ server = "hashed"
    /\ r \in SetPackages => HandleEOF
    /\ got = sent
    /\ server' = "stored"
    /\ UNCHANGED <<channel, got>>

UploadAnswer(r) ==
    /\ UploadServer(r) /\ server = "stored"
    /\ Answer("Response")
    /\ server' = "answered"
    /\ UNCHANGED got

UploadReturn(r) ==
    /\ UploadServer(r) /\ server = "answered"
    /\ Finish("ok")
    /\ UNCHANGED serverVars

UploadBreak(r) == rpc = r /\ Break

-----------------------------------------------------------------------------
UploadClientStep(r) ==
    \/ UploadHeader(r) \/ UploadRead(r) \/ UploadContents(r) \/ UploadHash(r)
    \/ UploadClose(r) \/ UploadAnswered(r) \/ UploadFails(r)
UploadServerStep(r) ==
    UploadReceive(r) \/ UploadStore(r) \/ UploadAnswer(r) \/ UploadReturn(r)

filePutStep == UploadClientStep("Put") \/ UploadServerStep("Put") \/ UploadBreak("Put")
sendSysPackageStep ==
    \E r \in SetPackages : UploadClientStep(r) \/ UploadServerStep(r) \/ UploadBreak(r)

UploadNext == filePutStep \/ sendSysPackageStep

UploadFairness == \A r \in Uploads : /\ WF_streamVars(UploadClientStep(r))
                                     /\ WF_streamVars(UploadServerStep(r))

UploadSpec == UploadInit /\ [][UploadNext]_streamVars /\ UploadFairness

-----------------------------------------------------------------------------
\* An upload succeeds only if the server stored all that was sent, and that is the
\* whole file unless it is read in chunks of 0 bytes: a read error, a lost connection
\* or a server that returned early is never a success.
UploadSuccessIsStored ==
    rpc \in Uploads /\ verdict = "nil" =>
        server = "answered" /\ got = sent /\ (Chunked(rpc) => got = Blocks)

\* An upload that succeeds has left the file on the target.  With a chunk size of 0,
\* set-package sends no block, the hash of nothing, and reports that it succeeded.
UploadLeavesFile == rpc \in Uploads /\ verdict = "nil" => got = Blocks

\* Both sides are in a call that only the other can end, or the server has a hash it
\* does not store.
UploadClientWaits == \/ client = "wait" /\ down = <<>>
                     \/ client \in {"sending", "hash"} /\ Len(up) = UpWindow
UploadServerWaits ==
    \/ server \in {"start", "contents"} /\ up = <<>>
    \/ server = "hashed" /\ (got # sent \/ (rpc \in SetPackages /\ ~(half /\ up = <<>>)))
    \/ server = "stored" /\ Len(down) = DownWindow
UploadStuck == Serving /\ UploadClientWaits /\ UploadServerWaits

\* An upload never leaves the client and the server waiting for each other, however
\* large the file is: the server answers nothing before the hash.
UploadNeverStuck == rpc \in Uploads => ~UploadStuck

\* An upload ends, although the server may wait for the client to close its side.
UploadEnds == rpc \in Uploads ~> client = "returned"
=============================================================================
