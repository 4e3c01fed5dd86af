------------------------------- MODULE OsInstall -------------------------------
(***************************************************************************)
(* `gnoic os install` (app/osInstall.go) on one target.  While the package *)
(* is sent, a second goroutine receives from the stream, to notice an      *)
(* error of the device; it shares with the first the stream, the           *)
(* unbuffered errCh and doneCh.  Nothing makes it give the stream back: it *)
(* looks at doneCh only between two Recv.  "ZeroInstall" is the command    *)
(* with --content-chunk-size 0, which it does not check.                   *)
(*                                                                         *)
(* The device is external: it answers as gnoi.os asks, in the answers the  *)
(* client handles, and may answer with a response the client does not know.*)
(***************************************************************************)
EXTENDS Stream

VARIABLES
    receiver,  \* the goroutine started by osInstallTransferContent
    doneCh     \* doneCh is closed

osVars == <<streamVars, receiver, doneCh>>

Installs == {"Install", "ZeroInstall"}
OsRequests == {"TransferRequest", "TransferContent", "TransferEnd"}
OsAnswers  == {"TransferReady", "TransferProgress", "SyncProgress", "Validated",
               "InstallError", "Unknown"}

OsTypeOK ==
    rpc \in Installs =>
        /\ StreamTypeOK({"rcv", "select", "sending", "ending"},
                        {"ready", "content", "progress", "sync", "valid", "refusing",
                         "known", "strange", "validated", "refused", "odd"},
                        OsRequests, OsAnswers)
        /\ receiver \in {"none", "loop", "recv", "report", "exited"}
        /\ doneCh \in BOOLEAN

OsInit == StreamInit /\ rpc \in Installs /\ receiver = "none" /\ doneCh = FALSE

-----------------------------------------------------------------------------
(* OsInstall: the main goroutine *)

OsMain == rpc \in Installs /\ UNCHANGED <<rpc, serverVars>>

\* os.Stat of the package, and the TransferRequest.
OsSendRequest ==
    /\ OsMain /\ client = "start"
    /\ Send("TransferRequest")
    /\ Goto("rcv")
    /\ UNCHANGED <<sent, receiver, doneCh>>

\* The package is missing, or the request cannot be built or sent.
OsStartFails ==
    /\ OsMain /\ client = "start"
    /\ Return("error")
    /\ UNCHANGED <<channel, sent, receiver, doneCh>>

\* RCV: TransferReady starts osInstallTransferContent and its goroutine.
OsReady ==
    /\ OsMain /\ client = "rcv"
    /\ Recv("TransferReady")
    /\ Goto("select")
    /\ receiver' = "loop"
    /\ UNCHANGED <<sent, doneCh>>

\* os.Open of the package failed.
OsOpenFails ==
    /\ OsMain /\ client = "rcv"
    /\ Recv("TransferReady")
    /\ Return("error")
    /\ UNCHANGED <<sent, receiver, doneCh>>

\* RCV: Validated, or a response of a type the switch does not list.
OsSucceeds ==
    /\ OsMain /\ client = "rcv"
    /\ Recv("Validated") \/ Recv("Unknown")
    /\ Return("nil")
    /\ UNCHANGED <<sent, receiver, doneCh>>

\* Mutant: the end of the stream ends the installation.
OsEOFSucceeds ==
    /\ OsMain /\ client = "rcv"
    /\ \/ Recv("InstallError") /\ Return("error")
       \/ RecvFails /\ Return("error")
       \/ RecvEOF /\ Return("nil")
    /\ UNCHANGED <<sent, receiver, doneCh>>

\* RCV: InstallError, or Recv failed (io.EOF included).
OsFails ==
    /\ OsMain /\ client = "rcv"
    /\ Recv("InstallError") \/ RecvEnded
    /\ Return("error")
    /\ UNCHANGED <<sent, receiver, doneCh>>

\* RCV: progress is logged.
OsProgress ==
    /\ OsMain /\ client = "rcv"
    /\ Recv("SyncProgress") \/ Recv("TransferProgress")
    /\ UNCHANGED <<clientVars, receiver, doneCh>>

-----------------------------------------------------------------------------
(* osInstallTransferContent: the loop that sends the package *)

\* <-errCh: the goroutine's error is returned.
OsReported ==
    /\ OsMain /\ client = "select"
    /\ receiver = "report"
    /\ receiver' = "exited"
    /\ Return("error")
    /\ UNCHANGED <<channel, sent, doneCh>>

\* Mutant: the last, empty read is sent as a block.
OsReadPast ==
    /\ OsMain /\ client = "select"
    /\ receiver # "report"
    /\ sent <= Blocks
    /\ Goto("sending")
    /\ UNCHANGED <<channel, sent, receiver, doneCh>>

\* default: a block is read.
OsRead ==
    /\ OsMain /\ client = "select"
    /\ receiver # "report"
    /\ rpc = "Install" /\ sent < Blocks
    /\ Goto("sending")
    /\ UNCHANGED <<channel, sent, receiver, doneCh>>

\* default: bufio.Reader reads into an empty buffer, which returns 0 and no error,
\* wherever it is in the file.
OsReadNothing ==
    /\ OsMain /\ client = "select"
    /\ receiver # "report"
    /\ rpc = "ZeroInstall"
    /\ Goto("sending")
    /\ UNCHANGED <<channel, sent, receiver, doneCh>>

\* The blocks in one TransferContent.
InContent == IF rpc = "Install" THEN 1 ELSE 0

OsSendContent ==
    /\ OsMain /\ client = "sending"
    /\ Send("TransferContent")
    /\ Goto("select")
    /\ sent' = sent + InContent
    /\ UNCHANGED <<receiver, doneCh>>

\* Mutant: a read error ends the package like its end.
OsReadErrorIsEnd ==
    /\ OsMain /\ client = "select"
    /\ receiver # "report"
    /\ doneCh' = TRUE
    /\ Goto("ending")
    /\ UNCHANGED <<channel, sent, receiver>>

\* default: the end of the package; doneCh is closed.
OsReadEnd ==
    /\ OsMain /\ client = "select"
    /\ receiver # "report"
    /\ rpc = "Install" /\ sent = Blocks
    /\ doneCh' = TRUE
    /\ Goto("ending")
    /\ UNCHANGED <<channel, sent, receiver>>

\* default: the read failed; doneCh is closed.
OsReadFails ==
    /\ OsMain /\ client = "select"
    /\ receiver # "report"
    /\ rpc = "Install"
    /\ doneCh' = TRUE
    /\ Return("error")
    /\ UNCHANGED <<channel, sent, receiver>>

\* Mutant: it first waits for the goroutine that receives.
OsSendEndWaits ==
    /\ OsMain /\ client = "ending"
    /\ receiver = "exited"
    /\ Send("TransferEnd")
    /\ Goto("rcv")
    /\ UNCHANGED <<sent, receiver, doneCh>>

\* Mutant: the end of the package is not sent.
OsSendNoEnd ==
    /\ OsMain /\ client = "ending"
    /\ Goto("rcv")
    /\ UNCHANGED <<channel, sent, receiver, doneCh>>

OsSendEnd ==
    /\ OsMain /\ client = "ending"
    /\ Send("TransferEnd")
    /\ Goto("rcv")
    /\ UNCHANGED <<sent, receiver, doneCh>>

\* Sending a block or the end failed.
OsSendFails ==
    /\ OsMain /\ client \in {"sending", "ending"}
    /\ SendFails
    /\ Return("error")
    /\ UNCHANGED <<sent, receiver, doneCh>>

-----------------------------------------------------------------------------
(* osInstallTransferContent: the goroutine that receives *)

OsReceiver == rpc \in Installs /\ UNCHANGED <<rpc, clientVars, serverVars, doneCh>>

\* select: ctx.Done() once the main goroutine returned, or doneCh, or default.
OsRcvSelect ==
    /\ OsReceiver /\ receiver = "loop"
    /\ receiver' = IF doneCh \/ client = "returned" THEN "exited" ELSE "recv"
    /\ UNCHANGED channel

\* Recv: an error, of the stream or of the device, goes to errCh.
OsRcvError ==
    /\ OsReceiver /\ receiver = "recv"
    /\ \/ Recv("InstallError")
       \/ RecvEnded
       \/ client = "returned" /\ UNCHANGED channel
    /\ receiver' = "report"

\* Recv: any other answer is logged and forgotten.
OsRcvOther ==
    /\ OsReceiver /\ receiver = "recv"
    /\ \E m \in OsAnswers \ {"InstallError"} : Recv(m)
    /\ receiver' = "loop"

-----------------------------------------------------------------------------
(* The device *)

OsDevice == rpc \in Installs /\ UNCHANGED <<rpc, clientVars, receiver, doneCh>>

\* The TransferRequest: it wants the package, has it already, or refuses.
OsDevRequest ==
    /\ OsDevice /\ server = "start"
    /\ Handle("TransferRequest")
    /\ server' \in {"ready", "known", "refusing"}
    /\ UNCHANGED got

\* Content arrives; progress may be reported, or the transfer refused.
OsDevContent ==
    /\ OsDevice /\ server = "content"
    /\ Handle("TransferContent")
    /\ server' \in {"content", "progress", "refusing"}
    /\ got' = got + InContent

\* The package is complete; it is checked, on the way to another supervisor.
OsDevEnd ==
    /\ OsDevice /\ server = "content"
    /\ Handle("TransferEnd")
    /\ server' \in {"sync", "valid", "refusing", "strange"}
    /\ UNCHANGED got

OsDevAnswer ==
    /\ OsDevice
    /\ \/ server = "ready" /\ Answer("TransferReady") /\ server' = "content"
       \/ server = "progress" /\ Answer("TransferProgress") /\ server' = "content"
       \/ server = "sync" /\ Answer("SyncProgress") /\ server' \in {"valid", "refusing"}
       \/ server \in {"valid", "known"} /\ Answer("Validated") /\ server' = "validated"
       \/ server = "refusing" /\ Answer("InstallError") /\ server' = "refused"
       \/ server = "strange" /\ Answer("Unknown") /\ server' = "odd"
    /\ UNCHANGED got

OsDevReturn ==
    /\ OsDevice /\ server \in {"validated", "refused", "odd"}
    /\ \/ Finish("ok")
       \/ server = "refused" /\ Finish("error")
    /\ UNCHANGED serverVars

OsBreak == rpc \in Installs /\ Break /\ UNCHANGED <<receiver, doneCh>>

-----------------------------------------------------------------------------
OsClientStep ==
    \/ OsSendRequest \/ OsStartFails \/ OsReady \/ OsOpenFails \/ OsSucceeds
    \/ OsFails \/ OsProgress \/ OsReported \/ OsRead \/ OsReadNothing
    \/ OsSendContent \/ OsReadEnd \/ OsReadFails \/ OsSendEnd \/ OsSendFails
OsReceiverStep == OsRcvSelect \/ OsRcvError \/ OsRcvOther
OsDeviceStep == OsDevRequest \/ OsDevContent \/ OsDevEnd \/ OsDevAnswer \/ OsDevReturn

OsNext == OsClientStep \/ OsReceiverStep \/ OsDeviceStep \/ OsBreak

\* Goroutines are scheduled, and the device reads its stream and returns.
OsFairness == /\ WF_osVars(OsClientStep)
              /\ WF_osVars(OsReceiverStep)
              /\ WF_osVars(OsDeviceStep)

OsSpec == OsInit /\ [][OsNext]_osVars /\ OsFairness

-----------------------------------------------------------------------------
\* The command succeeds only if the device validated the package, whichever
\* goroutine received which answer: an InstallError, a lost connection or the
\* end of the stream is never a success.  (A response of a type the client does
\* not know is one.)
OsSuccessIsValidated ==
    rpc \in Installs /\ verdict = "nil" => server \in {"validated", "odd"}

\* A device that got TransferEnd got the whole package before it: no error on
\* the way there, read by either goroutine, is taken for the end of the file.
OsWholePackage ==
    rpc \in Installs /\ server \in {"sync", "valid"} => got = Blocks

\* Each goroutine of gNOIc, and the device, is in a call that only another can end:
\* a Recv with nothing in flight, a Send on a full window, the send on errCh.
OsMainWaits == \/ client = "rcv" /\ down = <<>>
               \/ client \in {"sending", "ending"} /\ Len(up) = UpWindow
OsReceiverWaits == \/ receiver \in {"none", "report", "exited"}
                   \/ receiver = "recv" /\ down = <<>>
OsDeviceWaits ==
    \/ server \in {"start", "content"} /\ up = <<>>
    \/ /\ server \in {"ready", "progress", "sync", "valid", "refusing", "known", "strange"}
       /\ Len(down) = DownWindow
OsStuck == Serving /\ OsMainWaits /\ OsReceiverWaits /\ OsDeviceWaits

\* gNOIc and the device do not wait for each other.  (A larger package can leave the
\* device blocked in an answer that nobody receives any more, once doneCh is closed,
\* and the TransferEnd behind the blocks that the device does not get to.)
OsNeverStuck == rpc \in Installs /\ FitsWindows => ~OsStuck

\* The command ends when the device answers and returns, although the goroutine
\* that receives can stay blocked on errCh.  (It need not with a chunk size of 0:
\* OsContentEnds.)
OsEnds == rpc = "Install" /\ FitsWindows ~> client = "returned"

\* A device that validated the package and returned normally is not reported as
\* a failure.  The goroutine that receives can take the Validated and drop it.
OsValidatedIsSuccess ==
    rpc \in Installs /\ server = "validated" /\ ended # "error" => verdict # "error"

\* The transfer of a package ends, in the TransferEnd or an error, whatever the size
\* of its chunks.  With a size of 0 the end of the file is never reached: empty
\* contents are sent for as long as the device takes them.
OsContentEnds == rpc \in Installs /\ client = "select" ~> client \in {"ending", "returned"}
=============================================================================
