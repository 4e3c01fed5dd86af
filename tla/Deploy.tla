-------------------------------- MODULE Deploy --------------------------------
(***************************************************************************)
(* `gnoic containerz deploy` (app/containerzDeploy.go) against a device    *)
(* ("Deploy") and against the mock of `gnoic server --containerz`          *)
(* (app/containerzMockServer.go, "MockDeploy").                            *)
(*                                                                         *)
(* The client sends the whole image before it looks at an answer, and it   *)
(* never closes its side.  A device answers when it has the                *)
(* ImageTransferEnd; the mock answers when the client's side is closed.    *)
(* "ClosingDeploy" is the mock with a client that does close its side.     *)
(***************************************************************************)
EXTENDS Stream

Mocked == {"MockDeploy", "ClosingDeploy"}
Deploys == {"Deploy"} \cup Mocked

DeployRequests == {"ImageTransfer", "Content", "ImageTransferEnd"}
DeployAnswers  == {"ImageTransferReady", "ImageTransferProgress",
                   "ImageTransferSuccess", "ImageTransferError"}

DeployTypeOK ==
    rpc \in Deploys =>
        StreamTypeOK({"ready", "reading", "sending", "end", "drain"},
                     {"ready", "content", "progress", "succeeding", "success",
                      "failing", "failed", "quit"},
                     DeployRequests, DeployAnswers)

DeployInit == StreamInit /\ rpc \in Deploys

-----------------------------------------------------------------------------
(* containerzDeploy *)

DeployClient == rpc \in Deploys /\ UNCHANGED <<rpc, serverVars>>

\* The file is opened, and step 1: the metadata.
DeploySendImage ==
    /\ DeployClient /\ client = "start"
    /\ Send("ImageTransfer")
    /\ Goto("ready")
    /\ UNCHANGED sent

\* The file is missing, or the stream cannot be made.
DeployStartFails ==
    /\ DeployClient /\ client = "start"
    /\ Return("error")
    /\ UNCHANGED <<channel, sent>>

\* Step 2: ImageTransferReady.
DeployReady ==
    /\ DeployClient /\ client = "ready"
    /\ Recv("ImageTransferReady")
    /\ Goto("reading")
    /\ UNCHANGED sent

\* Any other answer, or the end of the stream.
DeployNotReady ==
    /\ DeployClient /\ client = "ready"
    /\ \/ \E m \in DeployAnswers \ {"ImageTransferReady"} : Recv(m)
       \/ RecvEnded
    /\ Return("error")
    /\ UNCHANGED sent

\* Mutant: a read may end the image early.
DeployReadShort ==
    /\ DeployClient /\ client = "reading"
    /\ \/ sent < Blocks /\ Goto("sending")
       \/ Goto("end")
    /\ UNCHANGED <<channel, sent>>

\* Mutant: the last, empty read is sent as a block.
DeployReadPast ==
    /\ DeployClient /\ client = "reading"
    /\ Goto(IF sent <= Blocks THEN "sending" ELSE "end")
    /\ UNCHANGED <<channel, sent>>

\* Step 3: the image, block by block; no answer is read.
DeployRead ==
    /\ DeployClient /\ client = "reading"
    /\ Goto(IF sent < Blocks THEN "sending" ELSE "end")
    /\ UNCHANGED <<channel, sent>>

DeployReadFails ==
    /\ DeployClient /\ client = "reading"
    /\ Return("error")
    /\ UNCHANGED <<channel, sent>>

DeploySendContent ==
    /\ DeployClient /\ client = "sending"
    /\ Send("Content")
    /\ sent' = sent + 1
    /\ Goto("reading")

\* Step 4: ImageTransferEnd.
DeploySendEnd ==
    /\ DeployClient /\ client = "end"
    /\ Send("ImageTransferEnd")
    /\ Goto("drain")
    /\ UNCHANGED sent

DeploySendFails ==
    /\ DeployClient /\ client \in {"sending", "end"}
    /\ SendFails
    /\ Return("error")
    /\ UNCHANGED sent

\* Not gNOIc: a client that closes its side of the stream after the image.
DeployCloses ==
    /\ DeployClient /\ client = "drain"
    /\ rpc = "ClosingDeploy" /\ ~half
    /\ CloseSend
    /\ UNCHANGED clientVars

\* Step 5: progress is logged until the result.
DeployProgress ==
    /\ DeployClient /\ client = "drain"
    /\ Recv("ImageTransferProgress")
    /\ UNCHANGED clientVars

\* ImageTransferSuccess; and io.EOF, which breaks out of the loop to return nil.
DeploySucceeds ==
    /\ DeployClient /\ client = "drain"
    /\ Recv("ImageTransferSuccess") \/ RecvEOF
    /\ Return("nil")
    /\ UNCHANGED sent

DeployFails ==
    /\ DeployClient /\ client = "drain"
    /\ Recv("ImageTransferError") \/ RecvFails
    /\ Return("error")
    /\ UNCHANGED sent

-----------------------------------------------------------------------------
(* The device, and the mock server *)

DeployServer(rpcs) == rpc \in rpcs /\ UNCHANGED <<rpc, clientVars>>

\* The mock is always ready; a device may refuse.
DeployHandleImage ==
    /\ DeployServer(Deploys) /\ server = "start"
    /\ Handle("ImageTransfer")
    /\ server' \in IF rpc \in Mocked THEN {"ready"} ELSE {"ready", "failing"}
    /\ UNCHANGED got

\* A block; progress is sent when a megabyte is full.  A device may also fail.
DeployHandleContent ==
    /\ DeployServer(Deploys) /\ server = "content"
    /\ Handle("Content")
    /\ server' \in {"content", "progress"} \cup IF rpc \in Mocked THEN {} ELSE {"failing"}
    /\ got' = got + 1

\* A device loads the image; the mock logs the end and goes on receiving.
DeployHandleEnd ==
    /\ DeployServer(Deploys) /\ server = "content"
    /\ Handle("ImageTransferEnd")
    /\ server' \in IF rpc \in Mocked THEN {"content"} ELSE {"succeeding", "failing"}
    /\ UNCHANGED got

\* Mutant: the mock goes on receiving after io.EOF.
MockHandleEOFIgnored ==
    /\ DeployServer(Mocked) /\ server = "content"
    /\ HandleEOF
    /\ UNCHANGED <<channel, serverVars>>

\* The mock's Recv returned io.EOF.
MockHandleEOF ==
    /\ DeployServer(Mocked) /\ server = "content"
    /\ HandleEOF
    /\ server' = "succeeding"
    /\ UNCHANGED <<channel, got>>

DeployAnswer ==
    /\ DeployServer(Deploys)
    /\ \/ server = "ready" /\ Answer("ImageTransferReady") /\ server' = "content"
       \/ server = "progress" /\ Answer("ImageTransferProgress") /\ server' = "content"
       \/ server = "succeeding" /\ Answer("ImageTransferSuccess") /\ server' = "success"
       \/ server = "failing" /\ Answer("ImageTransferError") /\ server' = "failed"
    /\ UNCHANGED got

DeployServerReturn ==
    /\ DeployServer(Deploys) /\ server \in {"success", "failed"}
    /\ \/ Finish("ok")
       \/ server = "failed" /\ Finish("error")
    /\ UNCHANGED serverVars

\* A device may also return normally without an answer, or without a result.
DeployDevQuit ==
    /\ DeployServer({"Deploy"}) /\ server \in {"start", "content"}
    /\ Finish("ok")
    /\ server' = "quit"
    /\ UNCHANGED got

DeployBreak == rpc \in Deploys /\ Break

-----------------------------------------------------------------------------
DeployClientStep ==
    \/ DeploySendImage \/ DeployStartFails \/ DeployReady \/ DeployNotReady
    \/ DeployRead \/ DeployReadFails \/ DeploySendContent \/ DeploySendEnd
    \/ DeploySendFails \/ DeployCloses \/ DeployProgress \/ DeploySucceeds \/ DeployFails
DeployServerStep ==
    \/ DeployHandleImage \/ DeployHandleContent \/ DeployHandleEnd \/ MockHandleEOF
    \/ DeployAnswer \/ DeployServerReturn

DeployNext == DeployClientStep \/ DeployServerStep \/ DeployDevQuit \/ DeployBreak

DeployFairness == /\ WF_streamVars(DeployClientStep)
                  /\ WF_streamVars(DeployServerStep)

DeploySpec == DeployInit /\ [][DeployNext]_streamVars /\ DeployFairness

-----------------------------------------------------------------------------
\* The command succeeds only for an image the server has whole and reported as
\* deployed.  (A device that returns without a result counts as one that did.)
DeploySuccessIsWhole ==
    rpc \in Deploys /\ verdict = "nil" =>
        server = "quit" \/ (server = "success" /\ got = Blocks)

\* The client and the server are each in a call that only the other can end: a Recv
\* with nothing in flight, or a Send on a full window.
DeployClientWaits ==
    \/ client = "ready" /\ down = <<>>
    \/ client = "drain" /\ down = <<>> /\ (rpc = "ClosingDeploy" => half)
    \/ client \in {"sending", "end"} /\ Len(up) = UpWindow
DeployServerWaits ==
    \/ server \in {"start", "content"} /\ up = <<>> /\ ~(rpc \in Mocked /\ half)
    \/ server \in {"ready", "progress", "succeeding", "failing"} /\ Len(down) = DownWindow
DeployStuck == Serving /\ DeployClientWaits /\ DeployServerWaits

\* An image that fits the flow-control windows does not leave them waiting for each
\* other, although the client looks at no answer while it sends: against a device,
\* and against the mock if the client closes its side.
DeployNeverStuck ==
    rpc \in {"Deploy", "ClosingDeploy"} /\ FitsWindows => ~DeployStuck

\* The command with such an image ends.
DeployEnds ==
    rpc \in {"Deploy", "ClosingDeploy"} /\ FitsWindows ~> client = "returned"

\* gNOIc and the mock server do not wait for each other: they are not both in
\* Recv with nothing in flight.
DeployNoStandoff ==
    ~ /\ rpc = "MockDeploy"
      /\ client = "drain" /\ down = <<>>
      /\ server = "content" /\ up = <<>> /\ ~half
      /\ Serving
=============================================================================
