---------------------------- MODULE OsInstallProofs ----------------------------
(***************************************************************************)
(* Proofs about module OsInstall: what `gnoic os install` and the device   *)
(* may conclude, for a package of any size, any windows, and every way the *)
(* two goroutines can share the answers.                                   *)
(***************************************************************************)
EXTENDS OsInstall, StreamProofs

USE DEF Installs

\* The device has not asked for the package, or the client has not seen that.
Before == \/ server \in {"start", "ready"}
          \/ \E i \in 1..Len(down) : down[i] = "TransferReady"

PackageSent == sent = Blocks /\ client \in {"rcv", "returned"} /\ ~Before

\* The inductive invariant.  The device asks for the package once, and before that
\* nothing is sent and no second goroutine receives; TransferEnd follows the last
\* block; and an answer that ends the command well is the device's last.
OsClientInv ==
    /\ client = "sending" => sent < Blocks
    /\ client = "ending" => sent = Blocks
    /\ verdict = "nil" => server \in {"validated", "odd"}
OsChannelInv ==
    Serving =>
        /\ InFlight("TransferRequest", "TransferEnd")
        /\ client = "start" => up = <<>> /\ server = "start"
        /\ server = "start" /\ client = "rcv" => up # <<>>
        /\ \A i \in 1..Len(up) : up[i] = "TransferEnd" => PackageSent
OsReadyInv ==
    /\ Before => sent = 0 /\ client \in {"start", "rcv", "returned"}
    /\ server \in {"start", "ready"} => down = <<>>
    /\ \A i \in 1..Len(down) : down[i] = "TransferReady" => i = 1
OsServerInv ==
    /\ got <= sent
    /\ server \in {"sync", "valid"} => got = Blocks
    /\ \A i \in 1..Len(down) : /\ down[i] = "Validated" => server = "validated"
                               /\ down[i] = "Unknown" => server = "odd"
OsIInv == /\ rpc = "Install" /\ OsTypeOK
          /\ OsClientInv /\ OsChannelInv /\ OsReadyInv /\ OsServerInv

LEMMA OsInitType == OsInit => OsTypeOK
<1> SUFFICES ASSUME OsInit PROVE OsTypeOK
  OBVIOUS
<1> USE DEF OsInit, StreamInit, StreamOpens
<1>1. up \in Seq(OsRequests) /\ down \in Seq(OsAnswers) /\ Len(up) = 0 /\ Len(down) = 0
  BY EmptySeq
<1>2. 0 \in 0..Blocks /\ 0 <= UpWindow /\ 0 <= DownWindow
  BY StreamAssumption
<1>3. rpc \in RPCs /\ half \in BOOLEAN /\ ended = "open" /\ client = "start"
      /\ verdict = "none" /\ sent = 0 /\ got = 0 /\ server = "start"
  OBVIOUS
<1> QED
  BY <1>1, <1>2, <1>3 DEF OsTypeOK, StreamTypeOK

LEMMA OsInitInv == OsInit /\ rpc = "Install" => OsIInv
<1> SUFFICES ASSUME OsInit, rpc = "Install" PROVE OsIInv
  OBVIOUS
<1> USE DEF OsInit, StreamInit, StreamOpens
<1>1. OsTypeOK
  BY OsInitType
<1>2. OsChannelInv
  BY DEF OsChannelInv, InFlight, Serving
<1>3. OsReadyInv
  BY DEF OsReadyInv, Before
<1> QED
  BY <1>1, <1>2, <1>3, StreamAssumption DEF OsIInv, OsClientInv, OsServerInv

LEMMA OsChannelOK == OsIInv => ChannelOK(OsRequests)
BY StreamAssumption DEF OsIInv, OsTypeOK, StreamTypeOK, ChannelOK

LEMMA OsReadsSomething == OsIInv => ~OsReadNothing /\ InContent = 1
BY DEF OsIInv, OsReadNothing, InContent

-----------------------------------------------------------------------------
\* The main goroutine sends.
LEMMA OsSendNext ==
    ASSUME OsIInv, OsSendRequest \/ OsSendContent \/ OsSendEnd
    PROVE  OsIInv'
<1> USE StreamAssumption DEF OsRequests
<1>a. ChannelOK(OsRequests)
  BY OsChannelOK
<1>b. UNCHANGED <<rpc, server, got, verdict, down, half, ended, receiver, doneCh>>
  BY DEF OsSendRequest, OsSendContent, OsSendEnd, OsMain, serverVars, Goto, Send
<1>c. Before' = Before
  BY <1>b DEF Before
<1>1. CASE OsSendRequest
  <2>1. client = "start" /\ client' = "rcv" /\ sent' = sent /\ Send("TransferRequest")
    BY <1>1 DEF OsSendRequest, Goto
  <2>2. CASE Serving
    <3>1. up = <<>> /\ server = "start" /\ InFlight("TransferRequest", "TransferEnd")
      BY <2>1, <2>2 DEF OsIInv, OsChannelInv
    <3>2. ChannelOK(OsRequests)' /\ InFlight("TransferRequest", "TransferEnd")'
      BY <1>a, <1>b, <2>1, <2>2, <3>1, FirstSent
    <3>3. up' = <<"TransferRequest">>
      BY <2>1, <2>2, <3>1 DEF Send, Serving
    <3>4. OsTypeOK'
      BY <1>b, <2>1, <3>2 DEF OsIInv, OsTypeOK, StreamTypeOK, ChannelOK
    <3>5. OsChannelInv'
      BY <2>1, <3>2, <3>3 DEF OsChannelInv
    <3> QED
      BY <1>b, <1>c, <2>1, <3>4, <3>5
      DEF OsIInv, OsClientInv, OsServerInv, OsReadyInv
  <2>3. CASE ~Serving
    BY <1>b, <1>c, <2>1, <2>3
    DEF OsIInv, OsClientInv, OsChannelInv, OsServerInv, OsReadyInv, Serving, Send,
        OsTypeOK, StreamTypeOK
  <2> QED
    BY <2>2, <2>3
<1>2. CASE OsSendContent
  <2>1. /\ client = "sending" /\ client' = "select" /\ sent' = sent + 1
        /\ Send("TransferContent")
        /\ sent < Blocks /\ sent \in Nat /\ ~Before
    BY <1>2, OsReadsSomething DEF OsSendContent, Goto, OsIInv, OsClientInv, OsReadyInv, OsTypeOK, StreamTypeOK
  <2>2. CASE Serving
    <3>1. /\ InFlight("TransferRequest", "TransferEnd")
          /\ server # "start"
          /\ \A i \in 1..Len(up) : up[i] # "TransferEnd"
      BY <2>1, <2>2 DEF OsIInv, OsChannelInv, PackageSent, Before
    <3>2. ChannelOK(OsRequests)' /\ InFlight("TransferRequest", "TransferEnd")'
      BY <1>a, <1>b, <2>1, <2>2, <3>1, BlockSent
    <3>3. \A i \in 1..Len(up') : up'[i] # "TransferEnd"
      BY <1>a, <2>1, <2>2, <3>1 DEF Send, Serving, ChannelOK
    <3>4. OsTypeOK'
      BY <1>b, <2>1, <3>2 DEF OsIInv, OsTypeOK, StreamTypeOK, ChannelOK
    <3>5. OsChannelInv'
      BY <1>b, <2>1, <3>1, <3>2, <3>3 DEF OsChannelInv
    <3> QED
      BY <1>a, <1>b, <1>c, <2>1, <3>4, <3>5
      DEF OsIInv, OsClientInv, OsServerInv, OsReadyInv, ChannelOK
  <2>3. CASE ~Serving
    <3>1. OsTypeOK'
      BY <1>b, <2>1, <2>3 DEF OsIInv, OsTypeOK, StreamTypeOK, Serving, Send
    <3> QED
      BY <1>a, <1>b, <1>c, <2>1, <2>3, <3>1
      DEF OsIInv, OsClientInv, OsChannelInv, OsServerInv, OsReadyInv, Serving, Send, ChannelOK
  <2> QED
    BY <2>2, <2>3
<1>3. CASE OsSendEnd
  <2>1. /\ client = "ending" /\ client' = "rcv" /\ sent' = sent /\ Send("TransferEnd")
        /\ sent = Blocks /\ ~Before
    BY <1>3 DEF OsSendEnd, Goto, OsIInv, OsClientInv, OsReadyInv
  <2>2. CASE Serving
    <3>1. /\ InFlight("TransferRequest", "TransferEnd")
          /\ server # "start"
          /\ \A i \in 1..Len(up) : up[i] # "TransferEnd"
      BY <2>1, <2>2 DEF OsIInv, OsChannelInv, PackageSent, Before
    <3>2. ChannelOK(OsRequests)' /\ InFlight("TransferRequest", "TransferEnd")'
      BY <1>a, <1>b, <2>1, <2>2, <3>1, LastSent
    <3>3. PackageSent'
      BY <1>c, <2>1 DEF PackageSent
    <3>4. OsTypeOK'
      BY <1>b, <2>1, <3>2 DEF OsIInv, OsTypeOK, StreamTypeOK, ChannelOK
    <3>5. OsChannelInv'
      BY <1>b, <2>1, <3>1, <3>2, <3>3 DEF OsChannelInv
    <3> QED
      BY <1>b, <1>c, <2>1, <3>4, <3>5
      DEF OsIInv, OsClientInv, OsServerInv, OsReadyInv
  <2>3. CASE ~Serving
    BY <1>b, <1>c, <2>1, <2>3
    DEF OsIInv, OsClientInv, OsChannelInv, OsServerInv, OsReadyInv, Serving, Send,
        OsTypeOK, StreamTypeOK
  <2> QED
    BY <2>2, <2>3
<1> QED
  BY <1>1, <1>2, <1>3

\* Either goroutine receives an answer.
LEMMA OsRecvNext ==
    ASSUME OsIInv, UNCHANGED <<rpc, sent, server, got>>, NEW m \in OsAnswers, Recv(m),
           receiver' \in {"none", "loop", "recv", "report", "exited"}, doneCh' \in BOOLEAN,
           \/ client' = client /\ verdict' = verdict
           \/ client = "rcv" /\ m = "TransferReady" /\ client' = "select" /\ verdict' = verdict
           \/ client' = "returned" /\ verdict' = "error"
           \/ m \in {"Validated", "Unknown"} /\ client' = "returned" /\ verdict' = "nil"
    PROVE  OsIInv'
<1> USE StreamAssumption
<1>1. down \in Seq(OsAnswers) /\ Len(down) <= DownWindow
  BY DEF OsIInv, OsTypeOK, StreamTypeOK
<1>2. /\ down' \in Seq(OsAnswers) /\ Len(down') <= DownWindow
      /\ down # <<>> /\ Len(down) > 0 /\ down[1] = m
      /\ Len(down') = Len(down) - 1
      /\ \A i \in 1..Len(down') : down'[i] = down[i + 1]
      /\ UNCHANGED <<up, half, ended>>
  BY <1>1, AnswerReceived
<1>3. Len(down) \in Nat /\ Len(down') \in Nat
  BY <1>1, <1>2, LenProperties
<1>4. 1 \in 1..Len(down) /\ \A i \in 1..Len(down') : i + 1 \in 1..Len(down) /\ i + 1 # 1
  BY <1>2, <1>3
<1>5. OsTypeOK'
  BY <1>2 DEF OsIInv, OsTypeOK, StreamTypeOK
\* TransferReady is the first answer: what is left has none, and the device has
\* gone on.
<1>6. ~Before'
  <2>1. server \notin {"start", "ready"}
    BY <1>2 DEF OsIInv, OsReadyInv
  <2>2. \A i \in 1..Len(down') : down'[i] # "TransferReady"
    BY <1>2, <1>4 DEF OsIInv, OsReadyInv
  <2> QED
    BY <2>1, <2>2 DEF Before
<1>7. OsReadyInv'
  BY <1>6 DEF OsReadyInv, Before
<1>8. OsServerInv'
  BY <1>2, <1>4 DEF OsIInv, OsServerInv
<1>9. OsClientInv'
  <2>1. m \in {"Validated", "Unknown"} => server \in {"validated", "odd"}
    BY <1>2, <1>4 DEF OsIInv, OsServerInv
  <2> QED
    BY <2>1 DEF OsIInv, OsClientInv
<1>10. OsChannelInv'
  <2>1. client' = "start" => client = "start"
    OBVIOUS
  <2>2. server # "start"
    BY <1>2 DEF OsIInv, OsReadyInv
  <2>3. PackageSent => PackageSent'
    <3>1. m = "TransferReady" => Before
      BY <1>2, <1>4 DEF Before
    <3> QED
      BY <1>6, <3>1 DEF PackageSent
  <2> QED
    BY <1>2, <2>1, <2>2, <2>3 DEF OsIInv, OsChannelInv, InFlight, Serving
<1> QED
  BY <1>5, <1>7, <1>8, <1>9, <1>10 DEF OsIInv

\* Either goroutine moves and touches neither queue.
LEMMA OsOtherNext ==
    ASSUME OsIInv, UNCHANGED <<rpc, up, down, half, ended, sent, server, got>>,
           receiver' \in {"none", "loop", "recv", "report", "exited"}, doneCh' \in BOOLEAN,
           \/ UNCHANGED <<client, verdict>>
           \/ client = "select" /\ sent < Blocks /\ client' = "sending" /\ verdict' = verdict
           \/ client = "select" /\ sent = Blocks /\ client' = "ending" /\ verdict' = verdict
           \/ client' = "returned" /\ verdict' = "error"
    PROVE  OsIInv'
<1>1. OsTypeOK'
  BY DEF OsIInv, OsTypeOK, StreamTypeOK
<1>2. Before' = Before
  BY DEF Before
<1>3. OsChannelInv'
  BY <1>2 DEF OsIInv, OsChannelInv, InFlight, Serving, PackageSent
<1>4. OsReadyInv'
  BY <1>2 DEF OsIInv, OsReadyInv
<1> QED
  BY <1>1, <1>3, <1>4 DEF OsIInv, OsClientInv, OsServerInv

LEMMA OsClientNext ==
    ASSUME OsIInv, OsClientStep
    PROVE  OsIInv'
<1>a. /\ receiver \in {"none", "loop", "recv", "report", "exited"} /\ doneCh \in BOOLEAN
  BY DEF OsIInv, OsTypeOK
<1>1. CASE OsSendRequest \/ OsSendContent \/ OsSendEnd
  BY <1>1, OsSendNext
<1>2. CASE OsReady \/ OsOpenFails \/ OsSucceeds \/ OsProgress
  BY <1>a, <1>2, OsRecvNext
  DEF OsReady, OsOpenFails, OsSucceeds, OsProgress, OsMain, Goto, Return, clientVars,
      serverVars, OsAnswers
<1>3. CASE OsFails
  <2>1. CASE Recv("InstallError")
    BY <1>a, <1>3, <2>1, OsRecvNext DEF OsFails, OsMain, Return, serverVars, OsAnswers
  <2>2. CASE RecvEnded
    BY <1>a, <1>3, <2>2, OsOtherNext
    DEF OsFails, OsMain, Return, serverVars, RecvEnded, RecvEOF, RecvFails, channel
  <2> QED
    BY <1>3, <2>1, <2>2 DEF OsFails
<1>4. CASE OsStartFails \/ OsReported \/ OsRead \/ OsReadEnd \/ OsReadFails \/ OsSendFails
  BY <1>a, <1>4, OsOtherNext
  DEF OsStartFails, OsReported, OsRead, OsReadEnd, OsReadFails, OsSendFails, OsMain,
      SendFails, Goto, Return, channel, serverVars
<1> QED
  BY <1>1, <1>2, <1>3, <1>4, OsReadsSomething DEF OsClientStep

LEMMA OsReceiverNext ==
    ASSUME OsIInv, OsReceiverStep
    PROVE  OsIInv'
<1>1. /\ UNCHANGED <<rpc, client, verdict, sent, server, got, doneCh>>
      /\ receiver' \in {"none", "loop", "recv", "report", "exited"} /\ doneCh \in BOOLEAN
  BY DEF OsReceiverStep, OsRcvSelect, OsRcvError, OsRcvOther, OsReceiver, clientVars, serverVars,
         OsIInv, OsTypeOK
<1>2. UNCHANGED channel \/ \E m \in OsAnswers : Recv(m)
  BY DEF OsReceiverStep, OsRcvSelect, OsRcvError, OsRcvOther, RecvEnded, RecvEOF, RecvFails,
         OsAnswers
<1>3. CASE UNCHANGED channel
  BY <1>1, <1>3, OsOtherNext DEF channel
<1>4. CASE \E m \in OsAnswers : Recv(m)
  BY <1>1, <1>4, OsRecvNext
<1> QED
  BY <1>2, <1>3, <1>4

-----------------------------------------------------------------------------
\* The device receives.
LEMMA OsHandleNext ==
    ASSUME OsIInv, OsDevRequest \/ OsDevContent \/ OsDevEnd
    PROVE  OsIInv'
<1> USE StreamAssumption DEF OsRequests
<1>a. ChannelOK(OsRequests)
  BY OsChannelOK
<1>b. UNCHANGED <<rpc, client, verdict, sent, receiver, doneCh>>
  BY DEF OsDevRequest, OsDevContent, OsDevEnd, OsDevice, clientVars
<1>1. PICK m \in OsRequests :
          /\ Handle(m)
          /\ \/ /\ m = "TransferRequest" /\ server = "start"
                /\ server' \in {"ready", "known", "refusing"} /\ got' = got
             \/ /\ m = "TransferContent" /\ server = "content"
                /\ server' \in {"content", "progress", "refusing"} /\ got' = got + 1
             \/ /\ m = "TransferEnd" /\ server = "content"
                /\ server' \in {"sync", "valid", "refusing", "strange"} /\ got' = got
  <2>1. CASE OsDevRequest
    BY <2>1 DEF OsDevRequest
  <2>2. CASE OsDevContent
    BY <2>2, OsReadsSomething DEF OsDevContent
  <2>3. CASE OsDevEnd
    BY <2>3 DEF OsDevEnd
  <2> QED
    BY <2>1, <2>2, <2>3
<1>2. Serving /\ InFlight("TransferRequest", "TransferEnd")
  BY <1>1 DEF Handle, OsIInv, OsChannelInv
<1>3. /\ ChannelOK(OsRequests)' /\ InFlight("TransferRequest", "TransferEnd")'
      /\ got' <= sent
      /\ m = "TransferEnd" => got = sent
  <2>1. CASE m = "TransferRequest"
    BY <1>a, <1>b, <1>1, <1>2, <2>1, FirstHandled DEF OsIInv, OsServerInv
  <2>2. CASE m = "TransferContent"
    BY <1>a, <1>b, <1>1, <1>2, <2>2, BlockHandled
  <2>3. CASE m = "TransferEnd"
    BY <1>a, <1>b, <1>1, <1>2, <2>3, LastHandled DEF OsIInv, OsServerInv
  <2> QED
    BY <2>1, <2>2, <2>3
<1>4. /\ Len(up') = Len(up) - 1 /\ Len(up) > 0 /\ Len(up) \in Nat
      /\ \A i \in 1..Len(up') : up'[i] = up[i + 1]
      /\ up[1] = m
  BY <1>a, <1>1, HeadTaken, LenProperties DEF ChannelOK
<1>5. UNCHANGED <<down, half, ended>> /\ up # <<>>
  BY <1>1 DEF Handle
<1>6. ~Before => ~Before'
  BY <1>1, <1>5 DEF Before
<1>7. /\ \A i \in 1..Len(up') : up'[i] = "TransferEnd" => PackageSent
      /\ m = "TransferEnd" => PackageSent
  <2>1. \A i \in 1..Len(up) : up[i] = "TransferEnd" => PackageSent
    BY <1>2 DEF OsIInv, OsChannelInv
  <2>2. 1 \in 1..Len(up) /\ \A i \in 1..Len(up') : i + 1 \in 1..Len(up)
    BY <1>4
  <2> QED
    BY <1>4, <2>1, <2>2
<1>8. OsTypeOK'
  BY <1>b, <1>1, <1>3, <1>5 DEF OsIInv, OsTypeOK, StreamTypeOK, ChannelOK
<1>9. OsChannelInv'
  <2>1. PackageSent => PackageSent'
    BY <1>b, <1>6 DEF PackageSent
  <2> QED
    BY <1>b, <1>1, <1>2, <1>3, <1>5, <1>7, <2>1 DEF OsIInv, OsChannelInv, Serving
<1>10. OsReadyInv'
  BY <1>b, <1>1, <1>5, <1>6 DEF OsIInv, OsReadyInv, Before
<1>11. OsServerInv' /\ OsClientInv'
  BY <1>b, <1>1, <1>3, <1>5, <1>7
  DEF OsIInv, OsServerInv, OsClientInv, PackageSent
<1> QED
  BY <1>b, <1>8, <1>9, <1>10, <1>11 DEF OsIInv

LEMMA OsAnswerNext ==
    ASSUME OsIInv, OsDevAnswer
    PROVE  OsIInv'
<1> USE StreamAssumption
<1>1. PICK m \in OsAnswers :
          /\ Answer(m)
          /\ \/ m = "TransferReady" /\ server = "ready" /\ server' = "content"
             \/ m = "TransferProgress" /\ server = "progress" /\ server' = "content"
             \/ m = "SyncProgress" /\ server = "sync" /\ server' \in {"valid", "refusing"}
             \/ m = "Validated" /\ server \in {"valid", "known"} /\ server' = "validated"
             \/ m = "InstallError" /\ server = "refusing" /\ server' = "refused"
             \/ m = "Unknown" /\ server = "strange" /\ server' = "odd"
  BY DEF OsDevAnswer, OsAnswers
<1>2. UNCHANGED <<rpc, client, verdict, sent, got, receiver, doneCh>>
  BY DEF OsDevAnswer, OsDevice, clientVars
<1>3. down \in Seq(OsAnswers) /\ Len(down) <= DownWindow
  BY DEF OsIInv, OsTypeOK, StreamTypeOK
<1>4. /\ down' \in Seq(OsAnswers) /\ Len(down') <= DownWindow
      /\ Len(down') = Len(down) + 1 /\ down' # <<>>
      /\ \A i \in 1..Len(down') : down'[i] = IF i <= Len(down) THEN down[i] ELSE m
      /\ UNCHANGED <<up, half, ended>> /\ Serving
  BY <1>1, <1>3, AnswerSent
<1>5. Len(down) \in Nat
  BY <1>3, LenProperties
<1>6. OsTypeOK'
  BY <1>1, <1>2, <1>4 DEF OsIInv, OsTypeOK, StreamTypeOK
<1>7. \A i \in 1..Len(down') : \/ i \in 1..Len(down) /\ down'[i] = down[i]
                               \/ i = Len(down) + 1 /\ down'[i] = m
  BY <1>4, <1>5
<1>8. Before' => Before
  BY <1>1, <1>7 DEF Before
<1>9. OsChannelInv'
  <2>1. PackageSent => PackageSent'
    BY <1>2, <1>8 DEF PackageSent
  <2> QED
    BY <1>1, <1>2, <1>4, <2>1 DEF OsIInv, OsChannelInv, InFlight, Serving
<1>10. OsReadyInv'
  <2>1. m = "TransferReady" => Len(down) = 0
    BY <1>1 DEF OsIInv, OsReadyInv
  <2>2. \A i \in 1..Len(down') : down'[i] = "TransferReady" => i = 1
    BY <1>5, <1>7, <2>1 DEF OsIInv, OsReadyInv
  <2> QED
    BY <1>1, <1>2, <1>8, <2>2 DEF OsIInv, OsReadyInv
<1>11. OsServerInv'
  <2>1. \A i \in 1..Len(down') : /\ down'[i] = "Validated" => server' = "validated"
                                 /\ down'[i] = "Unknown" => server' = "odd"
    BY <1>1, <1>7 DEF OsIInv, OsServerInv
  <2> QED
    BY <1>1, <1>2, <2>1 DEF OsIInv, OsServerInv
<1>12. OsClientInv'
  BY <1>1, <1>2 DEF OsIInv, OsClientInv
<1> QED
  BY <1>2, <1>6, <1>9, <1>10, <1>11, <1>12 DEF OsIInv

LEMMA OsReturnNext ==
    ASSUME OsIInv, OsDevReturn
    PROVE  OsIInv'
<1>1. /\ UNCHANGED <<rpc, up, down, half, client, verdict, sent, server, got, receiver, doneCh>>
      /\ ended' \in {"ok", "error"}
  BY DEF OsDevReturn, OsDevice, Finish, serverVars, clientVars
<1>2. OsTypeOK'
  BY <1>1 DEF OsIInv, OsTypeOK, StreamTypeOK
<1> QED
  BY <1>1, <1>2
  DEF OsIInv, OsClientInv, OsChannelInv, OsReadyInv, OsServerInv, Before, Serving

LEMMA OsBreakNext ==
    ASSUME OsIInv, OsBreak
    PROVE  OsIInv'
<1>1. down \in Seq(OsAnswers) /\ Len(down) <= DownWindow
  BY DEF OsIInv, OsTypeOK, StreamTypeOK
<1>2. /\ down' \in Seq(OsAnswers) /\ Len(down') <= Len(down) /\ Len(down') \in Nat
      /\ down' # <<>> => down # <<>>
      /\ \A i \in 1..Len(down') : down'[i] = down[i]
      /\ Serving /\ ended' = "error"
      /\ UNCHANGED <<rpc, up, half, client, verdict, sent, server, got, receiver, doneCh>>
  BY <1>1, BrokenOff DEF OsBreak
<1>3. /\ Len(down) \in Nat /\ Len(down') <= DownWindow
      /\ \A i \in 1..Len(down') : i \in 1..Len(down)
  BY <1>1, <1>2, LenProperties, StreamAssumption
<1>4. OsTypeOK'
  BY <1>2, <1>3 DEF OsIInv, OsTypeOK, StreamTypeOK
<1>5. Before' => Before
  BY <1>2, <1>3 DEF Before
<1>6. OsReadyInv' /\ OsServerInv'
  BY <1>2, <1>3, <1>5 DEF OsIInv, OsReadyInv, OsServerInv
<1> QED
  BY <1>2, <1>4, <1>6 DEF OsIInv, OsClientInv, OsChannelInv, Serving

-----------------------------------------------------------------------------
LEMMA OsInvNext == OsIInv /\ [OsNext]_osVars => OsIInv'
<1> SUFFICES ASSUME OsIInv, [OsNext]_osVars PROVE OsIInv'
  OBVIOUS
<1>1. CASE OsNext
  BY <1>1, OsClientNext, OsReceiverNext, OsHandleNext, OsAnswerNext, OsReturnNext, OsBreakNext
  DEF OsNext, OsDeviceStep
<1>2. CASE UNCHANGED osVars
  BY <1>2, OsOtherNext
  DEF osVars, streamVars, channel, clientVars, serverVars, OsIInv, OsTypeOK
<1> QED
  BY <1>1, <1>2

-----------------------------------------------------------------------------
(* A chunk size of 0 *)

\* With --content-chunk-size 0 nothing of the package is sent, nor its end; while it is
\* asked for, the device is left in the transfer or refuses it; and no answer says more
\* than that the device had the package.
OsZeroDataInv ==
    /\ sent = 0 /\ got = 0 /\ client # "ending" /\ doneCh = FALSE
    /\ server \notin {"sync", "valid", "strange", "odd"}
    /\ verdict = "nil" => server = "validated"
    /\ \A i \in 1..Len(up) : up[i] # "TransferEnd"
    /\ \A i \in 1..Len(down) : /\ down[i] = "Validated" => server = "validated"
                               /\ down[i] = "InstallError" => server = "refused"
                               /\ down[i] # "Unknown"
OsZeroChannelInv ==
    Serving =>
        /\ server \in {"start", "ready"} => down = <<>>
        /\ client = "start" => up = <<>> /\ server = "start"
        /\ client \in {"start", "rcv"} => receiver = "none"
        /\ client = "rcv" =>
              /\ up = IF server = "start" THEN <<"TransferRequest">> ELSE <<>>
              /\ server # "progress"
              /\ \A i \in 1..Len(down) : down[i] = "TransferReady" => server = "content"
              /\ server = "content" => down = <<"TransferReady">>
        /\ client \in {"select", "sending"} =>
              /\ server \in {"content", "progress", "refusing", "refused"}
              /\ receiver \in {"loop", "recv", "report"}
              /\ receiver = "report" => server = "refused"
OsZeroIInv == rpc = "ZeroInstall" /\ OsTypeOK /\ OsZeroDataInv /\ OsZeroChannelInv

LEMMA OsZeroInit == OsInit /\ rpc = "ZeroInstall" => OsZeroIInv
BY OsInitType DEF OsInit, StreamInit, StreamOpens, OsZeroIInv, OsZeroDataInv, OsZeroChannelInv

LEMMA OsZeroCounts ==
    ASSUME OsZeroIInv
    PROVE  /\ Len(up) \in Nat /\ Len(down) \in Nat /\ ChannelOK(OsRequests)
           /\ down \in Seq(OsAnswers) /\ Len(down) <= DownWindow
           /\ (up = <<>> <=> Len(up) = 0) /\ (down = <<>> <=> Len(down) = 0)
           /\ InContent = 0
BY StreamAssumption, EmptySeq
DEF OsZeroIInv, OsTypeOK, StreamTypeOK, ChannelOK, InContent

\* The main goroutine sends the request, or an empty content.
LEMMA OsZeroSend ==
    ASSUME OsZeroIInv, OsSendRequest \/ OsSendContent
    PROVE  OsZeroIInv'
<1>1. PICK m \in {"TransferRequest", "TransferContent"} :
          /\ Send(m)
          /\ \/ m = "TransferRequest" /\ client = "start" /\ client' = "rcv"
             \/ m = "TransferContent" /\ client = "sending" /\ client' = "select"
  BY DEF OsSendRequest, OsSendContent, Goto
<1>a. sent = 0 /\ InContent = 0
  BY OsZeroCounts DEF OsZeroIInv, OsZeroDataInv
<1>2. /\ UNCHANGED <<rpc, server, got, verdict, down, half, ended, receiver, doneCh>>
      /\ sent' = 0
  BY <1>a DEF OsSendRequest, OsSendContent, OsMain, serverVars, Goto, Send
<1>3. /\ up' \in Seq(OsRequests) /\ Len(up') <= UpWindow
      /\ \A i \in 1..Len(up') : up'[i] # "TransferEnd"
  <2>1. CASE Serving
    <3>1. up' = Append(up, m) /\ Len(up) < UpWindow /\ m \in OsRequests /\ m # "TransferEnd"
      BY <1>1, <2>1 DEF Send, Serving, OsRequests
    <3>2. up \in Seq(OsRequests) /\ Len(up) \in Nat
      BY OsZeroCounts DEF ChannelOK
    <3>3. \A i \in 1..Len(up) : up[i] # "TransferEnd"
      BY DEF OsZeroIInv, OsZeroDataInv
    <3>4. up' \in Seq(OsRequests) /\ Len(up') = Len(up) + 1
      BY <3>1, <3>2
    <3>5. \A i \in 1..Len(up') : up'[i] = IF i <= Len(up) THEN up[i] ELSE m
      BY <3>1, <3>2
    <3> QED
      BY <3>1, <3>2, <3>3, <3>4, <3>5, StreamAssumption
  <2>2. CASE ~Serving
    BY <1>1, <2>2, OsZeroCounts
    DEF Send, Serving, ChannelOK, OsZeroIInv, OsZeroDataInv
  <2> QED
    BY <2>1, <2>2
<1>4. OsTypeOK'
  BY <1>a, <1>1, <1>2, <1>3 DEF OsZeroIInv, OsTypeOK, StreamTypeOK
<1>5. OsZeroDataInv'
  BY <1>a, <1>1, <1>2, <1>3 DEF OsZeroIInv, OsZeroDataInv
<1>6. OsZeroChannelInv'
  <2>1. Serving /\ m = "TransferRequest" =>
            server = "start" /\ down = <<>> /\ up' = <<"TransferRequest">>
    BY <1>1 DEF OsZeroIInv, OsZeroChannelInv, Send, Serving
  <2>2. down = <<>> => Len(down) = 0
    BY OsZeroCounts
  <2> QED
    BY <1>1, <1>2, <2>1, <2>2 DEF OsZeroIInv, OsZeroChannelInv, Serving
<1> QED
  BY <1>2, <1>4, <1>5, <1>6 DEF OsZeroIInv

\* Either goroutine moves and touches neither queue.
LEMMA OsZeroStill ==
    ASSUME OsZeroIInv, UNCHANGED <<rpc, up, down, half, ended, sent, server, got, doneCh>>,
           receiver' \in {"none", "loop", "recv", "report", "exited"},
           \/ UNCHANGED <<client, verdict>>
           \/ client = "select" /\ client' = "sending" /\ verdict' = verdict
           \/ client' = "returned" /\ verdict' = "error",
           \/ receiver' = receiver
           \/ client' = "returned"
           \/ receiver = "loop" /\ receiver' = "recv"
           \/ receiver = "recv" /\ receiver' = "report" /\ ~Serving
    PROVE  OsZeroIInv'
<1>1. OsTypeOK'
  BY DEF OsZeroIInv, OsTypeOK, StreamTypeOK
<1>2. OsZeroDataInv'
  BY DEF OsZeroIInv, OsZeroDataInv
<1>3. OsZeroChannelInv'
  BY DEF OsZeroIInv, OsZeroChannelInv, Serving
<1> QED
  BY <1>1, <1>2, <1>3 DEF OsZeroIInv

\* Either goroutine receives an answer.
LEMMA OsZeroRecv ==
    ASSUME OsZeroIInv, UNCHANGED <<rpc, sent, server, got, doneCh>>, NEW m \in OsAnswers,
           Recv(m),
           receiver' \in {"none", "loop", "recv", "report", "exited"},
           \/ /\ client = "rcv" /\ UNCHANGED <<client, verdict, receiver>>
              /\ m \in {"SyncProgress", "TransferProgress"}
           \/ /\ client = "rcv" /\ m = "TransferReady" /\ client' = "select"
              /\ verdict' = verdict /\ receiver' = "loop"
           \/ client' = "returned" /\ verdict' = "error"
           \/ m \in {"Validated", "Unknown"} /\ client' = "returned" /\ verdict' = "nil"
           \/ receiver = "recv" /\ receiver' = "loop" /\ UNCHANGED <<client, verdict>>
           \/ /\ receiver = "recv" /\ receiver' = "report" /\ UNCHANGED <<client, verdict>>
              /\ m = "InstallError"
    PROVE  OsZeroIInv'
<1>1. /\ down' \in Seq(OsAnswers) /\ Len(down') <= DownWindow
      /\ down # <<>> /\ Len(down) > 0 /\ down[1] = m
      /\ Len(down') = Len(down) - 1
      /\ \A i \in 1..Len(down') : down'[i] = down[i + 1]
      /\ UNCHANGED <<up, half, ended>>
  BY OsZeroCounts, AnswerReceived
<1>2. 1 \in 1..Len(down) /\ \A i \in 1..Len(down') : i + 1 \in 1..Len(down)
  BY <1>1, OsZeroCounts
<1>3. /\ m = "Validated" => server = "validated"
      /\ m = "InstallError" => server = "refused"
      /\ m # "Unknown"
  BY <1>1, <1>2 DEF OsZeroIInv, OsZeroDataInv
<1>4. OsTypeOK'
  BY <1>1 DEF OsZeroIInv, OsTypeOK, StreamTypeOK
<1>5. OsZeroDataInv'
  BY <1>1, <1>2, <1>3 DEF OsZeroIInv, OsZeroDataInv
<1>6. OsZeroChannelInv'
  <2>1. Serving => server \notin {"start", "ready"}
    BY <1>1 DEF OsZeroIInv, OsZeroChannelInv
  <2>2. Serving /\ client = "rcv" =>
            /\ m = "TransferReady" => server = "content"
            /\ server = "content" => m = "TransferReady"
            /\ receiver = "none" /\ server # "progress"
    BY <1>1, <1>2 DEF OsZeroIInv, OsZeroChannelInv
  <2>3. Serving /\ client = "rcv" =>
            \A i \in 1..Len(down') : down'[i] = "TransferReady" => server = "content"
    BY <1>1, <1>2 DEF OsZeroIInv, OsZeroChannelInv
  <2>4. Serving /\ client = "start" => FALSE
    BY <2>1 DEF OsZeroIInv, OsZeroChannelInv
  <2> QED
    BY <1>1, <1>3, <2>1, <2>2, <2>3, <2>4 DEF OsZeroIInv, OsZeroChannelInv, Serving
<1> QED
  BY <1>4, <1>5, <1>6 DEF OsZeroIInv

LEMMA OsZeroGoroutines ==
    ASSUME OsZeroIInv, OsClientStep \/ OsReceiverStep
    PROVE  OsZeroIInv'
<1>a. /\ rpc = "ZeroInstall" /\ client # "ending" /\ doneCh = FALSE
      /\ receiver \in {"none", "loop", "recv", "report", "exited"}
  BY DEF OsZeroIInv, OsZeroDataInv, OsTypeOK
<1>1. CASE OsSendRequest \/ OsSendContent
  BY <1>1, OsZeroSend
<1>2. CASE OsReady \/ OsOpenFails \/ OsSucceeds \/ OsProgress \/ (OsFails /\ Recv("InstallError"))
  BY <1>a, <1>2, OsZeroRecv
  DEF OsReady, OsOpenFails, OsSucceeds, OsProgress, OsFails, OsMain, Goto, Return, clientVars,
      serverVars, OsAnswers
<1>3. CASE \/ OsStartFails \/ OsReported \/ OsReadNothing \/ OsSendFails
           \/ (OsFails /\ RecvEnded)
  BY <1>a, <1>3, OsZeroStill
  DEF OsStartFails, OsReported, OsReadNothing, OsSendFails, OsFails, OsMain, SendFails, Goto,
      Return, RecvEnded, RecvEOF, RecvFails, channel, serverVars
<1>4. CASE OsRead \/ OsReadEnd \/ OsReadFails \/ OsSendEnd
  BY <1>a, <1>4 DEF OsRead, OsReadEnd, OsReadFails, OsSendEnd
<1>5. CASE OsRcvSelect
  BY <1>a, <1>5, OsZeroStill DEF OsRcvSelect, OsReceiver, channel, clientVars, serverVars
<1>6. CASE OsRcvError
  <2>1. CASE Recv("InstallError")
    BY <1>a, <1>6, <2>1, OsZeroRecv DEF OsRcvError, OsReceiver, clientVars, serverVars, OsAnswers
  <2>2. CASE RecvEnded \/ (client = "returned" /\ UNCHANGED channel)
    BY <1>a, <1>6, <2>2, OsZeroStill
    DEF OsRcvError, OsReceiver, clientVars, serverVars, RecvEnded, RecvEOF, RecvFails, channel,
        Serving
  <2> QED
    BY <1>6, <2>1, <2>2 DEF OsRcvError
<1>7. CASE OsRcvOther
  BY <1>a, <1>7, OsZeroRecv DEF OsRcvOther, OsReceiver, clientVars, serverVars, OsAnswers
<1> QED
  BY <1>1, <1>2, <1>3, <1>4, <1>5, <1>6, <1>7 DEF OsClientStep, OsReceiverStep, OsFails

\* The device receives the request, or an empty content.
LEMMA OsZeroHandle ==
    ASSUME OsZeroIInv, OsDevRequest \/ OsDevContent \/ OsDevEnd
    PROVE  OsZeroIInv'
<1>1. PICK m \in OsRequests :
          /\ Handle(m)
          /\ \/ /\ m = "TransferRequest" /\ server = "start"
                /\ server' \in {"ready", "known", "refusing"}
             \/ /\ m = "TransferContent" /\ server = "content"
                /\ server' \in {"content", "progress", "refusing"}
             \/ m = "TransferEnd"
  BY DEF OsDevRequest, OsDevContent, OsDevEnd, OsRequests
<1>2. /\ up' \in Seq(OsRequests) /\ Len(up') = Len(up) - 1 /\ Len(up) > 0
      /\ \A i \in 1..Len(up') : up'[i] = up[i + 1]
      /\ up[1] = m
      /\ UNCHANGED <<down, half, ended>> /\ Serving
  BY <1>1, OsZeroCounts, HeadTaken DEF Handle
<1>3. 1 \in 1..Len(up) /\ \A i \in 1..Len(up') : i + 1 \in 1..Len(up)
  BY <1>2, OsZeroCounts
<1>4. m # "TransferEnd" /\ \A i \in 1..Len(up') : up'[i] # "TransferEnd"
  BY <1>2, <1>3 DEF OsZeroIInv, OsZeroDataInv
<1>a. got = 0 /\ InContent = 0
  BY OsZeroCounts DEF OsZeroIInv, OsZeroDataInv
<1>5. UNCHANGED <<rpc, client, verdict, sent, receiver, doneCh>> /\ got' = 0
  BY <1>a DEF OsDevRequest, OsDevContent, OsDevEnd, OsDevice, clientVars
<1>6. OsTypeOK'
  <2>1. Len(up') <= UpWindow /\ 0 \in 0..Blocks
    BY <1>2, OsZeroCounts, StreamAssumption DEF ChannelOK
  <2> QED
    BY <1>1, <1>2, <1>4, <1>5, <2>1 DEF OsZeroIInv, OsTypeOK, StreamTypeOK
<1>7. OsZeroDataInv'
  BY <1>a, <1>1, <1>2, <1>4, <1>5 DEF OsZeroIInv, OsZeroDataInv
<1>8. OsZeroChannelInv'
  <2>1. CASE m = "TransferRequest"
    <3>1. server = "start" /\ down = <<>> /\ server' \in {"ready", "known", "refusing"}
      BY <1>1, <1>2, <2>1 DEF OsZeroIInv, OsZeroChannelInv
    <3>2. client # "start" /\ client \notin {"select", "sending"}
      BY <1>2, <3>1, OsZeroCounts DEF OsZeroIInv, OsZeroChannelInv
    <3>3. client = "rcv" => up' = <<>>
      BY <1>1, <1>2, <3>1 DEF OsZeroIInv, OsZeroChannelInv, Handle
    <3> QED
      BY <1>2, <1>5, <3>1, <3>2, <3>3, OsZeroCounts DEF OsZeroIInv, OsZeroChannelInv
  <2>2. CASE m = "TransferContent"
    <3>1. client \notin {"start", "rcv"}
      BY <1>1, <1>2, <2>2, OsZeroCounts DEF OsZeroIInv, OsZeroChannelInv
    <3> QED
      BY <1>1, <1>2, <1>5, <2>2, <3>1 DEF OsZeroIInv, OsZeroChannelInv
  <2> QED
    BY <1>1, <1>4, <2>1, <2>2
<1> QED
  BY <1>5, <1>6, <1>7, <1>8 DEF OsZeroIInv

\* It answers.
LEMMA OsZeroAnswer ==
    ASSUME OsZeroIInv, OsDevAnswer
    PROVE  OsZeroIInv'
<1>1. PICK m \in OsAnswers :
          /\ Answer(m)
          /\ \/ m = "TransferReady" /\ server = "ready" /\ server' = "content"
             \/ m = "TransferProgress" /\ server = "progress" /\ server' = "content"
             \/ m = "Validated" /\ server = "known" /\ server' = "validated"
             \/ m = "InstallError" /\ server = "refusing" /\ server' = "refused"
  BY DEF OsDevAnswer, OsAnswers, OsZeroIInv, OsZeroDataInv
<1>2. UNCHANGED <<rpc, client, verdict, sent, got, receiver, doneCh>>
  BY DEF OsDevAnswer, OsDevice, clientVars
<1>3. /\ down' \in Seq(OsAnswers) /\ Len(down') <= DownWindow
      /\ Len(down') = Len(down) + 1
      /\ \A i \in 1..Len(down') : down'[i] = IF i <= Len(down) THEN down[i] ELSE m
      /\ UNCHANGED <<up, half, ended>> /\ Serving
  BY <1>1, OsZeroCounts, AnswerSent
<1>4. \A i \in 1..Len(down') : \/ i \in 1..Len(down) /\ down'[i] = down[i]
                               \/ i = Len(down) + 1 /\ down'[i] = m
  BY <1>3, OsZeroCounts
<1>5. OsTypeOK'
  BY <1>1, <1>2, <1>3 DEF OsZeroIInv, OsTypeOK, StreamTypeOK
<1>6. OsZeroDataInv'
  BY <1>1, <1>2, <1>3, <1>4 DEF OsZeroIInv, OsZeroDataInv
<1>7. OsZeroChannelInv'
  <2>1. m = "TransferReady" => down' = <<"TransferReady">>
    <3>1. m = "TransferReady" => down = <<>>
      BY <1>1, <1>3 DEF OsZeroIInv, OsZeroChannelInv
    <3> QED
      BY <1>1, <3>1 DEF Answer
  <2>2. \A i \in 1..Len(down') : client = "rcv" /\ down'[i] = "TransferReady" =>
            server' = "content"
    BY <1>1, <1>3, <1>4 DEF OsZeroIInv, OsZeroChannelInv
  <2> QED
    BY <1>1, <1>2, <1>3, <2>1, <2>2 DEF OsZeroIInv, OsZeroChannelInv
<1> QED
  BY <1>2, <1>5, <1>6, <1>7 DEF OsZeroIInv

\* It returns, or the connection is lost.
LEMMA OsZeroEnd ==
    ASSUME OsZeroIInv, OsDevReturn \/ OsBreak
    PROVE  OsZeroIInv'
<1>1. /\ UNCHANGED <<rpc, up, half, client, verdict, sent, server, got, receiver, doneCh>>
      /\ ended' \in {"ok", "error"}
      /\ Len(down') <= Len(down) /\ Len(down') \in Nat /\ down' \in Seq(OsAnswers)
      /\ \A i \in 1..Len(down') : down'[i] = down[i]
  <2>1. CASE OsDevReturn
    BY <2>1, OsZeroCounts DEF OsDevReturn, OsDevice, Finish, serverVars, clientVars
  <2>2. CASE OsBreak
    BY <2>2, OsZeroCounts, BrokenOff DEF OsBreak
  <2> QED
    BY <2>1, <2>2
<1>2. Len(down') <= DownWindow /\ \A i \in 1..Len(down') : i \in 1..Len(down)
  BY <1>1, OsZeroCounts, StreamAssumption
<1>3. OsTypeOK'
  BY <1>1, <1>2 DEF OsZeroIInv, OsTypeOK, StreamTypeOK
<1>4. OsZeroDataInv'
  BY <1>1, <1>2 DEF OsZeroIInv, OsZeroDataInv
<1> QED
  BY <1>1, <1>3, <1>4 DEF OsZeroIInv, OsZeroChannelInv, Serving

LEMMA OsZeroNext == OsZeroIInv /\ [OsNext]_osVars => OsZeroIInv'
<1> SUFFICES ASSUME OsZeroIInv, [OsNext]_osVars PROVE OsZeroIInv'
  OBVIOUS
<1>1. CASE OsNext
  BY <1>1, OsZeroGoroutines, OsZeroHandle, OsZeroAnswer, OsZeroEnd DEF OsNext, OsDeviceStep
<1>2. CASE UNCHANGED osVars
  BY <1>2, OsZeroStill
  DEF osVars, streamVars, channel, clientVars, serverVars, OsZeroIInv, OsTypeOK
<1> QED
  BY <1>1, <1>2

\* Whatever the chunk size.
LEMMA OsInductive == OsSpec => [](OsIInv \/ OsZeroIInv)
<1>1. OsInit => OsIInv \/ OsZeroIInv
  BY OsInitInv, OsZeroInit DEF OsInit
<1> QED
  BY <1>1, OsInvNext, OsZeroNext, PTL DEF OsSpec

\* An installation of a package of any number of blocks, with any chunk size, keeps to
\* the states, the messages and the windows that OsTypeOK lists.
THEOREM OsTypeCorrect == OsSpec => []OsTypeOK
<1>1. OsIInv \/ OsZeroIInv => OsTypeOK
  BY DEF OsIInv, OsZeroIInv
<1> QED
  BY <1>1, OsInductive, PTL

\* `gnoic os install` succeeds only when the device validated the package (or
\* answered with a response the client does not know), whichever goroutine
\* received which answer.
THEOREM OsSuccessesAreValidated == OsSpec => []OsSuccessIsValidated
<1>1. OsIInv \/ OsZeroIInv => OsSuccessIsValidated
  BY DEF OsIInv, OsClientInv, OsZeroIInv, OsZeroDataInv, OsSuccessIsValidated
<1> QED
  BY <1>1, OsInductive, PTL

\* A device that got TransferEnd got every block of the package before it.
THEOREM OsPackagesAreWhole == OsSpec => []OsWholePackage
<1>1. OsIInv \/ OsZeroIInv => OsWholePackage
  BY DEF OsIInv, OsServerInv, OsZeroIInv, OsZeroDataInv, OsWholePackage
<1> QED
  BY <1>1, OsInductive, PTL

\* With --content-chunk-size 0 the command sends no block of the package and never gets
\* to TransferEnd, so that no device completes the transfer; it succeeds only with a
\* device that had the package.
OsZeroSendsNothing ==
    rpc = "ZeroInstall" =>
        /\ sent = 0 /\ client # "ending" /\ \A i \in 1..Len(up) : up[i] # "TransferEnd"
        /\ server \notin {"sync", "valid"}
        /\ verdict = "nil" => server = "validated" /\ got = 0

\* Nothing the device answers, and no end of the stream, makes a command whose chunk size
\* is 0 finish its transfer.
THEOREM OsZeroNeverFinishes == OsSpec => []OsZeroSendsNothing
<1>1. OsIInv \/ OsZeroIInv => OsZeroSendsNothing
  BY DEF OsIInv, OsZeroIInv, OsZeroDataInv, OsZeroSendsNothing
<1> QED
  BY <1>1, OsInductive, PTL

-----------------------------------------------------------------------------
\* That gNOIc and the device do not wait for each other: while the package is sent,
\* the device has sent at most one answer for each block it got, the one it owes
\* counted; after TransferEnd it has something to receive until it has received it.
Sending == client \in {"select", "sending", "ending"}
Owed    == IF server \in {"progress", "refusing"} THEN 1 ELSE 0
OsWindowInv ==
    /\ Before => receiver = "none"
    /\ Serving => \A i \in 1..Len(down) :
           down[i] = "TransferReady" => server = "content" /\ Len(down) = 1
    /\ Serving /\ Sending => /\ server \in {"content", "progress", "refusing", "refused"}
                             /\ Len(down) + Owed <= got
    /\ Serving /\ client = "rcv" /\ server \in {"content", "progress"} /\ ~Before =>
           up # <<>> /\ up[Len(up)] = "TransferEnd"

\* The numbers of the stream are numbers.
LEMMA OsCounts ==
    ASSUME OsIInv
    PROVE  /\ Len(up) \in Nat /\ Len(down) \in Nat /\ got \in Nat /\ sent \in Nat
           /\ down \in Seq(OsAnswers) /\ Len(down) <= DownWindow
           /\ sent <= Blocks /\ (up = <<>> <=> Len(up) = 0) /\ (down = <<>> <=> Len(down) = 0)
BY StreamAssumption, EmptySeq DEF OsIInv, OsTypeOK, StreamTypeOK

\* An answer is taken: TransferReady, if it was the one, is gone.
LEMMA OsTaken ==
    ASSUME OsIInv, NEW m, Recv(m), server' = server
    PROVE  /\ ~Before' /\ server \notin {"start", "ready"} /\ Len(down') = Len(down) - 1
           /\ \A i \in 1..Len(down') : down'[i] # "TransferReady"
           /\ Before => m = "TransferReady"
           /\ down[1] = m /\ 1 \in 1..Len(down)
           /\ UNCHANGED <<up, half, ended>>
<1>1. /\ down # <<>> /\ Len(down) > 0 /\ down[1] = m
      /\ Len(down') = Len(down) - 1
      /\ \A i \in 1..Len(down') : down'[i] = down[i + 1]
      /\ UNCHANGED <<up, half, ended>>
  BY OsCounts, AnswerReceived
<1>2. server \notin {"start", "ready"}
  BY <1>1 DEF OsIInv, OsReadyInv
<1>3. /\ 1 \in 1..Len(down)
      /\ \A i \in 1..Len(down') : i + 1 \in 1..Len(down) /\ i + 1 # 1
  BY <1>1, OsCounts
<1>4. \A i \in 1..Len(down) : down[i] = "TransferReady" => i = 1
  BY DEF OsIInv, OsReadyInv
<1>5. \A i \in 1..Len(down') : down'[i] # "TransferReady"
  BY <1>1, <1>3, <1>4
<1>6. Before => m = "TransferReady"
  BY <1>1, <1>2, <1>4 DEF Before
<1> QED
  BY <1>1, <1>2, <1>3, <1>5, <1>6 DEF Before

\* Nothing of the package is in flight before the client has seen TransferReady.
LEMMA OsNothingBefore ==
    ASSUME OsIInv, Serving, server # "start", Before
    PROVE  up = <<>> /\ got = 0
<1>1. /\ InFlight("TransferRequest", "TransferEnd") /\ sent = 0
      /\ \A i \in 1..Len(up) : up[i] # "TransferEnd"
  BY DEF OsIInv, OsChannelInv, OsReadyInv, PackageSent
<1>2. up # <<>> => 1 \in 1..Len(up) /\ Len(up) \in 1..Len(up)
  BY OsCounts
<1>3. up # <<>> => up[1] # "TransferRequest" /\ up[Len(up)] # "TransferEnd"
  BY <1>1, <1>2 DEF InFlight
<1>4. got + Len(up) = 0
  BY <1>1, <1>3, OsCounts DEF InFlight
<1> QED
  BY <1>4, OsCounts

LEMMA OsWindowInit == OsInit => OsWindowInv
BY DEF OsInit, StreamInit, StreamOpens, OsWindowInv, Sending

\* The goroutines of gNOIc.
LEMMA OsWindowClient ==
    ASSUME OsIInv, OsWindowInv, OsClientStep \/ OsReceiverStep
    PROVE  OsWindowInv'
<1>a. UNCHANGED <<server, got>> /\ Owed' = Owed
  BY OsReadsSomething DEF OsClientStep, OsSendRequest, OsStartFails, OsReady, OsOpenFails, OsSucceeds,
         OsFails, OsProgress, OsReported, OsRead, OsSendContent, OsReadEnd, OsReadFails,
         OsSendEnd, OsSendFails, OsReceiverStep, OsRcvSelect, OsRcvError, OsRcvOther,
         OsMain, OsReceiver, serverVars, Owed
<1>1. CASE OsSendRequest
  <2>1. /\ client = "start" /\ client' = "rcv"
        /\ UNCHANGED <<down, half, ended, receiver>>
    BY <1>1 DEF OsSendRequest, Goto, Send
  <2>2. Serving => server = "start"
    BY <2>1 DEF OsIInv, OsChannelInv
  <2> QED
    BY <1>a, <2>1, <2>2 DEF OsWindowInv, Before, Sending, Serving
<1>2. CASE OsSendContent
  <2>1. /\ client = "sending" /\ client' = "select"
        /\ UNCHANGED <<down, half, ended, receiver>>
    BY <1>2 DEF OsSendContent, Goto, Send
  <2> QED
    BY <1>a, <2>1 DEF OsWindowInv, Before, Sending, Serving
<1>3. CASE OsSendEnd
  <2>1. /\ client = "ending" /\ client' = "rcv" /\ Send("TransferEnd")
        /\ UNCHANGED <<down, half, ended, receiver>>
    BY <1>3 DEF OsSendEnd, Goto, Send
  <2>2. Serving => up' # <<>> /\ up'[Len(up')] = "TransferEnd"
    BY <2>1, OsChannelOK DEF Send, Serving, ChannelOK
  <2> QED
    BY <1>a, <2>1, <2>2 DEF OsWindowInv, Before, Sending, Serving
<1>4. CASE OsReady
  <2>1. /\ client = "rcv" /\ client' = "select" /\ Recv("TransferReady")
    BY <1>4 DEF OsReady, Goto
  <2>2. /\ ~Before' /\ Len(down') = Len(down) - 1
        /\ \A i \in 1..Len(down') : down'[i] # "TransferReady"
        /\ down[1] = "TransferReady" /\ 1 \in 1..Len(down)
        /\ UNCHANGED <<up, half, ended>>
    BY <1>a, <2>1, OsTaken
  <2>3. Serving => server = "content" /\ Len(down') = 0
    BY <2>2, OsCounts DEF OsWindowInv
  <2> QED
    BY <1>a, <2>1, <2>2, <2>3, OsCounts DEF OsWindowInv, Serving, Owed
<1>5. CASE OsOpenFails \/ OsSucceeds \/ (OsFails /\ Recv("InstallError"))
  <2>1. PICK m \in OsAnswers : Recv(m)
    BY <1>5 DEF OsOpenFails, OsSucceeds, OsAnswers
  <2>2. client' = "returned"
    BY <1>5 DEF OsOpenFails, OsSucceeds, OsFails, Return
  <2> QED
    BY <1>a, <2>1, <2>2, OsTaken DEF OsWindowInv, Sending
<1>6. CASE OsProgress \/ OsRcvOther \/ (OsRcvError /\ Recv("InstallError"))
  <2>1. PICK m \in OsAnswers :
            Recv(m) /\ (m # "TransferReady" \/ receiver = "recv") /\ client' = client
    BY <1>6 DEF OsProgress, OsRcvOther, OsRcvError, OsReceiver, OsAnswers, clientVars
  <2>2. ~Before /\ ~Before'
    BY <1>a, <2>1, OsTaken DEF OsWindowInv
  <2>3. /\ Len(down') = Len(down) - 1 /\ UNCHANGED <<up, ended>>
        /\ \A i \in 1..Len(down') : down'[i] # "TransferReady"
    BY <1>a, <2>1, OsTaken
  <2>4. Len(down) + Owed <= got => Len(down') + Owed' <= got'
    BY <1>a, <2>3, OsCounts DEF Owed
  <2> QED
    BY <1>a, <2>1, <2>2, <2>3, <2>4 DEF OsWindowInv, Sending, Serving
<1>7. CASE \/ OsStartFails \/ (OsFails /\ RecvEnded) \/ OsReported \/ OsRead \/ OsReadEnd
           \/ OsReadFails \/ OsSendFails \/ OsRcvSelect \/ (OsRcvError /\ UNCHANGED channel)
  <2>1. /\ UNCHANGED channel
        /\ client' = client \/ client' = "returned" \/ (Sending /\ Sending')
        /\ receiver' = receiver \/ receiver # "none"
    BY <1>7 DEF OsStartFails, OsFails, OsReported, OsRead, OsReadEnd, OsReadFails, OsSendFails,
                SendFails, OsRcvSelect, OsRcvError, OsReceiver, RecvEnded, RecvEOF, RecvFails,
                Return, Goto, Sending, clientVars
  <2> QED
    BY <1>a, <2>1 DEF OsWindowInv, Before, Sending, Serving, channel
<1> QED
  BY <1>1, <1>2, <1>3, <1>4, <1>5, <1>6, <1>7, OsReadsSomething
  DEF OsClientStep, OsReceiverStep, OsFails, OsRcvError, RecvEnded, RecvEOF, RecvFails

\* The device receives.
LEMMA OsWindowHandle ==
    ASSUME OsIInv, OsWindowInv, OsDevRequest \/ OsDevContent \/ OsDevEnd
    PROVE  OsWindowInv'
<1>a. UNCHANGED <<client, receiver, down, half, ended>> /\ Serving
  BY DEF OsDevRequest, OsDevContent, OsDevEnd, OsDevice, clientVars, Handle
<1>b. InFlight("TransferRequest", "TransferEnd")
  BY <1>a DEF OsIInv, OsChannelInv
<1>1. CASE OsDevRequest
  <2>1. server = "start" /\ server' \in {"ready", "known", "refusing"} /\ down = <<>>
    BY <1>1 DEF OsDevRequest, OsIInv, OsReadyInv
  <2>2. ~Sending /\ Before
    BY <1>a, <2>1 DEF OsWindowInv, Before
  <2> QED
    BY <1>a, <2>1, <2>2 DEF OsWindowInv, Sending, Serving
<1>2. CASE OsDevContent
  <2>1. /\ Handle("TransferContent") /\ server = "content" /\ got' = got + 1
        /\ server' \in {"content", "progress", "refusing"}
    BY <1>2, OsReadsSomething DEF OsDevContent
  <2>2. /\ Len(up') = Len(up) - 1 /\ Len(up) > 0
        /\ \A i \in 1..Len(up') : up'[i] = up[i + 1]
        /\ up[1] = "TransferContent"
    BY <2>1, OsChannelOK, HeadTaken
  <2>3. ~Before
    BY <1>a, <2>1, <2>2, OsNothingBefore, OsCounts
  <2>4. ~Before' /\ \A i \in 1..Len(down) : down[i] # "TransferReady"
    BY <1>a, <2>1, <2>3 DEF Before
  <2>5. Len(down) <= got /\ Sending => Len(down) + Owed' <= got'
    BY <2>1, OsCounts DEF Owed
  <2>6. Sending => Len(down) <= got
    BY <1>a, <2>1, OsCounts DEF OsWindowInv, Owed
  <2>7. up[Len(up)] = "TransferEnd" => up' # <<>> /\ up'[Len(up')] = "TransferEnd"
    BY <2>1, OsChannelOK, LastStays
  <2> QED
    BY <1>a, <2>1, <2>3, <2>4, <2>5, <2>6, <2>7 DEF OsWindowInv, Sending, Serving
<1>3. CASE OsDevEnd
  <2>1. /\ Handle("TransferEnd") /\ server = "content"
        /\ server' \in {"sync", "valid", "refusing", "strange"}
    BY <1>3 DEF OsDevEnd
  <2>2. up[1] = "TransferEnd" /\ Len(up) > 0
    BY <2>1, OsChannelOK, HeadTaken
  <2>3. 1 \in 1..Len(up)
    BY <2>2, OsCounts
  <2>4. PackageSent
    BY <1>a, <2>2, <2>3 DEF OsIInv, OsChannelInv
  <2> QED
    BY <1>a, <2>1, <2>4 DEF OsWindowInv, PackageSent, Before, Sending, Serving
<1> QED
  BY <1>1, <1>2, <1>3

\* It answers.
LEMMA OsWindowAnswer ==
    ASSUME OsIInv, OsWindowInv, OsDevAnswer
    PROVE  OsWindowInv'
<1>1. PICK m \in OsAnswers :
          /\ Answer(m)
          /\ \/ m = "TransferReady" /\ server = "ready" /\ server' = "content"
             \/ m = "TransferProgress" /\ server = "progress" /\ server' = "content"
             \/ m = "SyncProgress" /\ server = "sync" /\ server' \in {"valid", "refusing"}
             \/ m = "Validated" /\ server \in {"valid", "known"} /\ server' = "validated"
             \/ m = "InstallError" /\ server = "refusing" /\ server' = "refused"
             \/ m = "Unknown" /\ server = "strange" /\ server' = "odd"
  BY DEF OsDevAnswer, OsAnswers
<1>2. UNCHANGED <<client, got, receiver>>
  BY DEF OsDevAnswer, OsDevice, clientVars
<1>3. /\ Len(down') = Len(down) + 1
      /\ \A i \in 1..Len(down') : down'[i] = IF i <= Len(down) THEN down[i] ELSE m
      /\ UNCHANGED <<up, half, ended>> /\ Serving
  BY <1>1, OsCounts, AnswerSent
<1>4. \A i \in 1..Len(down') : \/ i \in 1..Len(down) /\ down'[i] = down[i]
                               \/ i = Len(down) + 1 /\ down'[i] = m
  BY <1>3, OsCounts
<1>5. CASE m = "TransferReady"
  <2>1. server = "ready" /\ server' = "content" /\ down = <<>> /\ Before
    BY <1>1, <1>5 DEF OsIInv, OsReadyInv, Before
  <2>2. Len(down') = 1 /\ 1 \in 1..Len(down') /\ down'[1] = m
    BY <1>3, <1>4, <2>1, OsCounts
  <2>3. Before' /\ ~Sending
    BY <1>3, <1>5, <2>1, <2>2 DEF Before, OsWindowInv
  <2> QED
    BY <1>2, <2>1, <2>2, <2>3 DEF OsWindowInv, Sending
<1>6. CASE m # "TransferReady"
  <2>1. \A i \in 1..Len(down) : down[i] # "TransferReady"
    BY <1>1, <1>3, <1>6 DEF OsWindowInv
  <2>2. \A i \in 1..Len(down') : down'[i] # "TransferReady"
    BY <1>4, <1>6, <2>1
  <2>3. ~Before /\ ~Before'
    BY <1>1, <1>6, <2>1, <2>2 DEF Before
  <2>4. Sending => /\ server' \in {"content", "progress", "refusing", "refused"}
                   /\ Len(down') + Owed' <= got
    BY <1>1, <1>3, <1>6, OsCounts DEF OsWindowInv, Owed
  <2>5. server' \in {"content", "progress"} => server = "progress"
    BY <1>1, <1>6
  <2> QED
    BY <1>2, <1>3, <2>2, <2>3, <2>4, <2>5 DEF OsWindowInv, Sending, Serving
<1> QED
  BY <1>5, <1>6

LEMMA OsWindowNext == OsIInv /\ OsWindowInv /\ [OsNext]_osVars => OsWindowInv'
<1> SUFFICES ASSUME OsIInv, OsWindowInv, [OsNext]_osVars PROVE OsWindowInv'
  OBVIOUS
<1>1. CASE OsDevReturn \/ OsBreak
  <2>1. /\ UNCHANGED <<server, receiver>> /\ ~Serving'
        /\ Len(down') \in Nat /\ Len(down') <= Len(down)
        /\ \A i \in 1..Len(down') : down'[i] = down[i]
    <3>1. CASE OsDevReturn
      BY <3>1, OsCounts DEF OsDevReturn, OsDevice, Finish, serverVars, Serving
    <3>2. CASE OsBreak
      BY <3>2, OsCounts, BrokenOff DEF OsBreak, Serving
    <3> QED
      BY <1>1, <3>1, <3>2
  <2>2. Before' => Before
    BY <2>1, OsCounts DEF Before
  <2> QED
    BY <2>1, <2>2 DEF OsWindowInv
<1>2. CASE UNCHANGED osVars
  BY <1>2 DEF osVars, streamVars, channel, clientVars, serverVars, OsWindowInv, Before, Sending,
              Serving, Owed
<1> QED
  BY <1>1, <1>2, OsWindowClient, OsWindowHandle, OsWindowAnswer DEF OsNext, OsDeviceStep

\* gNOIc and the device never wait for each other, whatever the windows, as long as
\* the package has no more blocks than the two windows hold.
THEOREM OsNeverWaitsForever == OsSpec => []OsNeverStuck
<1>1. OsIInv /\ OsWindowInv => OsNeverStuck
  <2> SUFFICES ASSUME OsIInv, OsWindowInv, FitsWindows, Serving, OsMainWaits, OsDeviceWaits
               PROVE  FALSE
    BY DEF OsNeverStuck, OsStuck
  <2> USE StreamAssumption, OsCounts
  <2>1. InFlight("TransferRequest", "TransferEnd")
    BY DEF OsIInv, OsChannelInv
  <2>2. CASE client = "rcv" /\ down = <<>>
    <3>1. server \in {"start", "content"} /\ up = <<>>
      BY <2>2 DEF OsDeviceWaits
    <3>2. server = "content"
      BY <2>2, <3>1 DEF OsIInv, OsChannelInv
    <3>3. ~Before
      BY <2>2, <3>2 DEF Before
    <3> QED
      BY <2>2, <3>1, <3>2, <3>3 DEF OsWindowInv
  <2>3. CASE Sending /\ Len(up) = UpWindow
    <3>1. up # <<>> /\ 1 \in 1..Len(up) /\ Len(up) \in 1..Len(up)
      BY <2>3
    <3>2. server \in {"progress", "refusing"} /\ Len(down) = DownWindow
      BY <2>3, <3>1 DEF OsDeviceWaits, OsWindowInv
    <3>3. DownWindow + 1 <= got
      BY <2>3, <3>2 DEF OsWindowInv, Owed
    <3>4. up[1] # "TransferRequest"
      BY <2>1, <3>1, <3>2 DEF InFlight
    <3>5. up[Len(up)] # "TransferEnd"
      BY <2>3, <3>1 DEF OsIInv, OsChannelInv, PackageSent, Sending
    <3>6. got + UpWindow = sent
      BY <2>1, <2>3, <3>4, <3>5 DEF InFlight
    <3> QED
      BY <3>3, <3>6 DEF FitsWindows
  <2> QED
    BY <2>2, <2>3 DEF OsMainWaits, Sending
<1>2. OsZeroIInv => ~OsStuck
  <2> SUFFICES ASSUME OsZeroIInv, Serving, OsMainWaits, OsReceiverWaits, OsDeviceWaits
               PROVE  FALSE
    BY DEF OsStuck
  <2> USE StreamAssumption, OsZeroCounts
  <2>1. CASE client = "rcv" /\ down = <<>>
    <3>1. server \in {"start", "content"} /\ up = <<>>
      BY <2>1 DEF OsDeviceWaits
    <3> QED
      BY <2>1, <3>1 DEF OsZeroIInv, OsZeroChannelInv
  <2>2. CASE client = "sending" /\ Len(up) = UpWindow
    <3>1. /\ server \in {"progress", "refusing"} /\ Len(down) = DownWindow
          /\ receiver \in {"recv", "report"}
          /\ receiver = "report" => server = "refused"
      BY <2>2 DEF OsDeviceWaits, OsReceiverWaits, OsZeroIInv, OsZeroChannelInv
    <3>2. receiver = "recv" /\ down = <<>>
      BY <3>1 DEF OsReceiverWaits
    <3> QED
      BY <3>1, <3>2
  <2> QED
    BY <2>1, <2>2 DEF OsMainWaits, OsZeroIInv, OsZeroDataInv
<1>3. OsInit => OsZeroIInv \/ (OsIInv /\ OsWindowInv)
  BY OsInitInv, OsZeroInit, OsWindowInit DEF OsInit
<1>4. OsIInv /\ OsWindowInv /\ [OsNext]_osVars => OsIInv' /\ OsWindowInv'
  BY OsInvNext, OsWindowNext
<1>5. OsZeroIInv \/ (OsIInv /\ OsWindowInv) => OsNeverStuck
  BY <1>1, <1>2 DEF OsNeverStuck
<1> QED
  BY <1>3, <1>4, <1>5, OsZeroNext, PTL DEF OsSpec

-----------------------------------------------------------------------------
(* The end of an installation *)

\* What the two goroutines and the device have still to do, the messages of their own
\* they send counted.  In RCV the main goroutine may still be asked for the package, but
\* only once.
OsClientRanks == [start |-> 14, rcv |-> 1, select |-> 7, sending |-> 6, ending |-> 6,
                  returned |-> 0]
OsClientLeft == IF client = "rcv" /\ Before THEN 9 ELSE OsClientRanks[client]
OsReceiverLeft == [none |-> 0, loop |-> 3, recv |-> 2, report |-> 1, exited |-> 0]
OsDeviceLeft == [start |-> 3, ready |-> 6, content |-> 3, progress |-> 6, sync |-> 6,
                 valid |-> 3, known |-> 3, refusing |-> 3, strange |-> 3,
                 validated |-> 0, refused |-> 0, odd |-> 0]
OsLeft == OsClientLeft + OsReceiverLeft[receiver] + OsDeviceLeft[server]
          + 6 * (Blocks - sent) + InTransit

\* An installation of N blocks takes at most 6 N + 18 steps, those of the device and of
\* the second goroutine included, whichever goroutine takes which answer.
OsIsBounded ==
    /\ [](OsLeft \in 0..(6 * Blocks + 18))
    /\ [][OsLeft' < OsLeft]_osVars

LEMMA OsLeftNat ==
    ASSUME OsIInv
    PROVE  /\ OsClientLeft \in Nat /\ OsReceiverLeft[receiver] \in Nat
           /\ OsDeviceLeft[server] \in Nat /\ InTransit \in Nat
           /\ Blocks \in Nat /\ sent \in Nat /\ sent <= Blocks
           /\ OsLeft \in Nat
           /\ QueuesOK(OsRequests, OsAnswers)
<1>1. QueuesOK(OsRequests, OsAnswers)
  BY DEF OsIInv, OsTypeOK, StreamTypeOK, QueuesOK
<1>2. InTransit \in Nat
  BY <1>1, TransitNat
<1>3. /\ client \in {"start", "rcv", "select", "sending", "ending", "returned"}
      /\ receiver \in {"none", "loop", "recv", "report", "exited"}
      /\ server \in {"start", "ready", "content", "progress", "sync", "valid", "refusing",
                     "known", "strange", "validated", "refused", "odd"}
      /\ sent \in 0..Blocks /\ Blocks \in Nat
  BY StreamAssumption DEF OsIInv, OsTypeOK, StreamTypeOK
<1>4. OsClientLeft \in Nat /\ OsReceiverLeft[receiver] \in Nat /\ OsDeviceLeft[server] \in Nat
  BY <1>3 DEF OsClientLeft, OsClientRanks, OsReceiverLeft, OsDeviceLeft
<1> QED
  BY <1>1, <1>2, <1>3, <1>4 DEF OsLeft

LEMMA OsLeftNatNext ==
    ASSUME OsIInv'
    PROVE  /\ OsClientLeft' \in Nat /\ OsReceiverLeft[receiver'] \in Nat
           /\ OsDeviceLeft[server'] \in Nat /\ InTransit' \in Nat
           /\ OsLeft' \in Nat
<1>1. QueuesOK(OsRequests, OsAnswers)'
  BY DEF OsIInv, OsTypeOK, StreamTypeOK, QueuesOK
<1>2. InTransit' \in Nat
  BY <1>1, TransitNatNext
<1>3. /\ client' \in {"start", "rcv", "select", "sending", "ending", "returned"}
      /\ receiver' \in {"none", "loop", "recv", "report", "exited"}
      /\ server' \in {"start", "ready", "content", "progress", "sync", "valid", "refusing",
                      "known", "strange", "validated", "refused", "odd"}
      /\ sent' \in 0..Blocks /\ Blocks \in Nat
  BY StreamAssumption DEF OsIInv, OsTypeOK, StreamTypeOK
<1>4. /\ OsClientLeft' \in Nat /\ OsReceiverLeft[receiver'] \in Nat
      /\ OsDeviceLeft[server'] \in Nat
  BY <1>3 DEF OsClientLeft, OsClientRanks, OsReceiverLeft, OsDeviceLeft
<1> QED
  BY <1>2, <1>3, <1>4 DEF OsLeft

\* The device asks for the package once, and the answers that ask for it are taken once.
LEMMA BeforeOnce ==
    ASSUME OsIInv, OsNext, Before'
    PROVE  Before
<1>1. down \in Seq(OsAnswers) /\ Len(down) <= DownWindow /\ Len(down) \in Nat
  BY LenProperties DEF OsIInv, OsTypeOK, StreamTypeOK
<1>2. server' \in {"start", "ready"} => server \in {"start", "ready"}
  BY OsReadsSomething DEF OsNext, OsClientStep, OsReceiverStep, OsDeviceStep, OsSendRequest, OsStartFails,
         OsReady, OsOpenFails, OsSucceeds, OsFails, OsProgress, OsReported, OsRead,
         OsSendContent, OsReadEnd, OsReadFails, OsSendEnd, OsSendFails, OsRcvSelect,
         OsRcvError, OsRcvOther, OsDevRequest, OsDevContent, OsDevEnd, OsDevAnswer,
         OsDevReturn, OsBreak, Break, OsMain, OsReceiver, OsDevice, serverVars
<1> SUFFICES ASSUME server' \notin {"start", "ready"},
                    NEW i \in 1..Len(down'), down'[i] = "TransferReady"
             PROVE  Before
  BY <1>2 DEF Before
<1>3. \/ down' = down
      \/ \E m : Recv(m)
      \/ server = "ready"
      \/ \E m \in OsAnswers \ {"TransferReady"} : Answer(m)
      \/ Break
  <2>1. CASE OsClientStep
    BY <2>1, OsReadsSomething DEF OsClientStep, OsSendRequest, OsStartFails,
         OsReady, OsOpenFails, OsSucceeds, OsFails, OsProgress, OsReported, OsRead,
         OsSendContent, OsReadEnd, OsReadFails, OsSendEnd, OsSendFails, Send, SendFails,
         RecvEnded, RecvEOF, RecvFails, channel
  <2>2. CASE OsReceiverStep
    BY <2>2 DEF OsReceiverStep, OsRcvSelect, OsRcvError, OsRcvOther,
         RecvEnded, RecvEOF, RecvFails, channel
  <2>3. CASE OsDeviceStep
    BY <2>3 DEF OsDeviceStep, OsDevRequest, OsDevContent, OsDevEnd, OsDevAnswer,
         OsDevReturn, Handle, Finish, OsAnswers
  <2> QED
    BY <2>1, <2>2, <2>3 DEF OsNext, OsBreak
<1>4. ASSUME NEW m, Recv(m) PROVE Before
  <2>1. Len(down') = Len(down) - 1 /\ \A j \in 1..Len(down') : down'[j] = down[j + 1]
    BY <1>1, <1>4, AnswerReceived
  <2>2. i + 1 \in 1..Len(down) /\ down[i + 1] = "TransferReady"
    BY <1>1, <2>1
  <2> QED
    BY <2>2 DEF Before
<1>5. ASSUME NEW m \in OsAnswers \ {"TransferReady"}, Answer(m) PROVE Before
  <2>1. /\ Len(down') = Len(down) + 1
        /\ \A j \in 1..Len(down') : down'[j] = IF j <= Len(down) THEN down[j] ELSE m
    BY <1>1, <1>5, AnswerSent
  <2>2. i \in 1..Len(down) /\ down[i] = "TransferReady"
    BY <1>1, <1>5, <2>1
  <2> QED
    BY <2>2 DEF Before
<1>6. CASE Break
  <2>1. Len(down') <= Len(down) /\ \A j \in 1..Len(down') : down'[j] = down[j]
        /\ Len(down') \in Nat
    BY <1>1, <1>6, BrokenOff
  <2>2. i \in 1..Len(down) /\ down[i] = "TransferReady"
    BY <1>1, <2>1
  <2> QED
    BY <2>2 DEF Before
<1> QED
  BY <1>3, <1>4, <1>5, <1>6 DEF Before

\* The main goroutine keeps its place, or gets nearer to its end.
LEMMA OsPlaceKept ==
    ASSUME OsIInv, OsIInv', OsNext, client' = client
    PROVE  OsClientLeft' <= OsClientLeft
<1>1. client \in {"start", "rcv", "select", "sending", "ending", "returned"}
  BY DEF OsIInv, OsTypeOK, StreamTypeOK
<1> QED
  BY <1>1, BeforeOnce DEF OsClientLeft, OsClientRanks

LEMMA OsNearerMain ==
    ASSUME OsIInv, OsIInv', OsClientStep
    PROVE  OsLeft' < OsLeft
<1>a. server' = server
  BY OsReadsSomething DEF OsClientStep, OsSendRequest, OsStartFails, OsReady, OsOpenFails, OsSucceeds, OsFails,
         OsProgress, OsReported, OsRead, OsSendContent, OsReadEnd, OsReadFails, OsSendEnd,
         OsSendFails, OsMain, serverVars
<1>b. /\ OsClientLeft \in Nat /\ OsClientLeft' \in Nat
      /\ OsReceiverLeft[receiver] \in Nat /\ OsReceiverLeft[receiver'] \in Nat
      /\ OsDeviceLeft[server] \in Nat /\ InTransit \in Nat /\ InTransit' \in Nat
      /\ Blocks \in Nat /\ sent \in Nat
      /\ QueuesOK(OsRequests, OsAnswers)
  BY OsLeftNat, OsLeftNatNext
<1>1. CASE OsSendRequest
  <2>1. InTransit' <= InTransit + 4
    BY <1>b, <1>1, TransitSent DEF OsSendRequest, OsRequests
  <2>2. OsClientLeft = 14 /\ OsClientLeft' \in {1, 9}
    BY <1>1 DEF OsSendRequest, Goto, OsClientLeft, OsClientRanks
  <2>3. UNCHANGED <<sent, receiver>>
    BY <1>1 DEF OsSendRequest
  <2> QED
    BY <1>a, <1>b, <2>1, <2>2, <2>3 DEF OsLeft
<1>2. CASE OsReady
  <2>1. InTransit' = InTransit - 2
    BY <1>b, <1>2, TransitReceived DEF OsReady
  <2>2. Before
    <3>1. down \in Seq(OsAnswers) /\ Len(down) <= DownWindow /\ Recv("TransferReady")
      BY <1>2 DEF OsReady, OsIInv, OsTypeOK, StreamTypeOK
    <3>2. Len(down) \in Nat /\ Len(down) > 0 /\ down[1] = "TransferReady"
      BY <3>1, AnswerReceived, LenProperties
    <3> QED
      BY <3>2 DEF Before
  <2>3. OsClientLeft = 9 /\ OsClientLeft' = 7 /\ OsReceiverLeft[receiver'] = 3 /\ sent' = sent
    BY <1>2, <2>2 DEF OsReady, Goto, OsClientLeft, OsClientRanks, OsReceiverLeft
  <2> QED
    BY <1>a, <1>b, <2>1, <2>3 DEF OsLeft
<1>3. CASE OsProgress
  <2>1. InTransit' = InTransit - 2
    BY <1>b, <1>3, TransitReceived DEF OsProgress
  <2>2. OsClientLeft' <= OsClientLeft
    BY <1>3, OsPlaceKept DEF OsProgress, clientVars, OsNext
  <2>3. UNCHANGED <<sent, receiver>>
    BY <1>3 DEF OsProgress, clientVars
  <2> QED
    BY <1>a, <1>b, <2>1, <2>2, <2>3 DEF OsLeft
<1>4. CASE OsSendContent
  <2>1. InTransit' <= InTransit + 4
    BY <1>b, <1>4, TransitSent DEF OsSendContent, OsRequests
  <2>2. OsClientLeft = 6 /\ OsClientLeft' = 7 /\ sent' = sent + 1 /\ receiver' = receiver
    BY <1>4, OsReadsSomething DEF OsSendContent, Goto, OsClientLeft, OsClientRanks
  <2> QED
    BY <1>a, <1>b, <2>1, <2>2 DEF OsLeft
<1>5. CASE OsSendEnd
  <2>1. InTransit' <= InTransit + 4
    BY <1>b, <1>5, TransitSent DEF OsSendEnd, OsRequests
  <2>2. ~Before'
    BY <1>5, BeforeOnce DEF OsSendEnd, OsIInv, OsReadyInv, OsNext
  <2>3. OsClientLeft = 6 /\ OsClientLeft' = 1 /\ UNCHANGED <<sent, receiver>>
    BY <1>5, <2>2 DEF OsSendEnd, Goto, OsClientLeft, OsClientRanks
  <2> QED
    BY <1>a, <1>b, <2>1, <2>3 DEF OsLeft
<1>6. CASE OsRead \/ OsReadEnd
  <2>1. InTransit' = InTransit
    BY <1>b, <1>6, TransitStill DEF OsRead, OsReadEnd, channel
  <2>2. OsClientLeft = 7 /\ OsClientLeft' = 6 /\ UNCHANGED <<sent, receiver>>
    BY <1>6 DEF OsRead, OsReadEnd, Goto, OsClientLeft, OsClientRanks
  <2> QED
    BY <1>a, <1>b, <2>1, <2>2 DEF OsLeft
<1>7. CASE \/ OsStartFails \/ OsOpenFails \/ OsSucceeds \/ OsFails \/ OsReported
           \/ OsReadFails \/ OsSendFails
  <2>1. InTransit' <= InTransit
    <3>1. (\E m : Recv(m)) \/ UNCHANGED channel
      BY <1>7 DEF OsStartFails, OsOpenFails, OsSucceeds, OsFails, OsReported, OsReadFails,
                  OsSendFails, SendFails, RecvEnded, RecvEOF, RecvFails
    <3>2. ASSUME NEW m, Recv(m) PROVE InTransit' <= InTransit
      BY <1>b, <3>2, TransitReceived
    <3>3. CASE UNCHANGED channel
      BY <1>b, <3>3, TransitStill DEF channel
    <3> QED
      BY <3>1, <3>2, <3>3
  <2>2. sent' = sent /\ (receiver' # receiver => receiver = "report" /\ receiver' = "exited")
    BY <1>7 DEF OsStartFails, OsOpenFails, OsSucceeds, OsFails, OsReported, OsReadFails,
                OsSendFails
  <2>3. OsReceiverLeft[receiver'] <= OsReceiverLeft[receiver]
    BY <1>b, <2>2 DEF OsReceiverLeft
  <2>4. client \in {"start", "rcv", "select", "sending", "ending"} /\ client' = "returned"
    BY <1>7 DEF OsStartFails, OsOpenFails, OsSucceeds, OsFails, OsReported, OsReadFails,
                OsSendFails, Return
  <2>5. OsClientLeft' < OsClientLeft
    BY <2>4 DEF OsClientLeft, OsClientRanks
  <2> QED
    BY <1>a, <1>b, <2>1, <2>2, <2>3, <2>5 DEF OsLeft
<1> QED
  BY <1>1, <1>2, <1>3, <1>4, <1>5, <1>6, <1>7, OsReadsSomething DEF OsClientStep

LEMMA OsNearerOther ==
    ASSUME OsIInv, OsIInv', OsReceiverStep \/ OsDeviceStep \/ OsBreak
    PROVE  OsLeft' < OsLeft
<1>a. UNCHANGED <<client, sent>>
  BY DEF OsReceiverStep, OsDeviceStep, OsRcvSelect, OsRcvError, OsRcvOther, OsDevRequest,
         OsDevContent, OsDevEnd, OsDevAnswer, OsDevReturn, OsBreak, Break, OsReceiver, OsDevice,
         clientVars
<1>b. /\ OsClientLeft \in Nat /\ OsClientLeft' \in Nat
      /\ OsReceiverLeft[receiver] \in Nat /\ OsReceiverLeft[receiver'] \in Nat
      /\ OsDeviceLeft[server] \in Nat /\ OsDeviceLeft[server'] \in Nat
      /\ InTransit \in Nat /\ InTransit' \in Nat
      /\ Blocks \in Nat /\ sent \in Nat
      /\ QueuesOK(OsRequests, OsAnswers)
  BY OsLeftNat, OsLeftNatNext
<1>c. OsClientLeft' <= OsClientLeft
  BY <1>a, OsPlaceKept DEF OsNext
<1>1. CASE OsRcvSelect \/ OsRcvError
  <2>1. InTransit' <= InTransit
    <3>1. (\E m : Recv(m)) \/ UNCHANGED channel
      BY <1>1 DEF OsRcvSelect, OsRcvError, RecvEnded, RecvEOF, RecvFails
    <3>2. ASSUME NEW m, Recv(m) PROVE InTransit' <= InTransit
      BY <1>b, <3>2, TransitReceived
    <3>3. CASE UNCHANGED channel
      BY <1>b, <3>3, TransitStill DEF channel
    <3> QED
      BY <3>1, <3>2, <3>3
  <2>2. OsReceiverLeft[receiver'] < OsReceiverLeft[receiver] /\ server' = server
    BY <1>1 DEF OsRcvSelect, OsRcvError, OsReceiver, serverVars, OsReceiverLeft
  <2> QED
    BY <1>a, <1>b, <1>c, <2>1, <2>2 DEF OsLeft
<1>2. CASE OsRcvOther
  <2>1. InTransit' = InTransit - 2
    BY <1>b, <1>2, TransitReceived DEF OsRcvOther
  <2>2. OsReceiverLeft[receiver'] = 3 /\ OsReceiverLeft[receiver] = 2 /\ server' = server
    BY <1>2 DEF OsRcvOther, OsReceiver, serverVars, OsReceiverLeft
  <2> QED
    BY <1>a, <1>b, <1>c, <2>1, <2>2 DEF OsLeft
<1>3. CASE OsDevRequest \/ OsDevContent \/ OsDevEnd
  <2>1. PICK m \in OsRequests : Handle(m)
    BY <1>3 DEF OsDevRequest, OsDevContent, OsDevEnd, OsRequests
  <2>2. InTransit' = InTransit - 4
    BY <1>b, <2>1, TransitHandled
  <2>3. /\ server \in {"start", "content"} /\ receiver' = receiver
        /\ server' \in {"ready", "known", "refusing", "content", "progress", "sync", "valid",
                        "strange"}
    BY <1>3 DEF OsDevRequest, OsDevContent, OsDevEnd, OsDevice
  <2>4. OsDeviceLeft[server'] <= OsDeviceLeft[server] + 3
    BY <2>3 DEF OsDeviceLeft
  <2> QED
    BY <1>a, <1>b, <1>c, <2>2, <2>3, <2>4 DEF OsLeft
<1>4. CASE OsDevAnswer
  <2>1. PICK m \in OsAnswers : Answer(m)
    BY <1>4 DEF OsDevAnswer, OsAnswers
  <2>2. InTransit' = InTransit + 2
    BY <1>b, <2>1, TransitAnswered
  <2>3. OsDeviceLeft[server'] + 3 = OsDeviceLeft[server] /\ receiver' = receiver
    BY <1>4 DEF OsDevAnswer, OsDevice, OsDeviceLeft
  <2> QED
    BY <1>a, <1>b, <1>c, <2>2, <2>3 DEF OsLeft
<1>5. CASE OsDevReturn
  <2>1. PICK s \in {"ok", "error"} : Finish(s)
    BY <1>5 DEF OsDevReturn
  <2>2. InTransit' = InTransit - 1
    BY <1>b, <2>1, TransitFinished
  <2>3. UNCHANGED <<server, receiver>>
    BY <1>5 DEF OsDevReturn, serverVars, OsDevice
  <2> QED
    BY <1>a, <1>b, <1>c, <2>2, <2>3 DEF OsLeft
<1>6. CASE OsBreak
  <2>1. Break /\ UNCHANGED <<server, receiver>>
    BY <1>6 DEF OsBreak, Break, serverVars
  <2>2. InTransit' <= InTransit - 1
    BY <1>b, <2>1, TransitBroken
  <2> QED
    BY <1>a, <1>b, <1>c, <2>1, <2>2 DEF OsLeft
<1> QED
  BY <1>1, <1>2, <1>3, <1>4, <1>5, <1>6 DEF OsReceiverStep, OsDeviceStep

\* An installation whose chunk size is not 0 takes a bounded number of steps, for every
\* size of the package and of the windows: the two goroutines cannot keep each other, or
\* the device, busy forever.  (With a chunk size of 0 they can: OsContentEnds is false.)
THEOREM OsInstallsAreBounded == OsSpec /\ rpc = "Install" => OsIsBounded
<1> DEFINE Bound == OsLeft \in 0..(6 * Blocks + 18)
<1>1. OsInit /\ rpc = "Install" => OsLeft = 6 * Blocks + 18
  <2> SUFFICES ASSUME OsInit PROVE OsLeft = 6 * Blocks + 18
    OBVIOUS
  <2>1. Len(up) = 0 /\ Len(down) = 0 /\ Serving /\ sent = 0
    BY EmptySeq DEF OsInit, StreamInit, StreamOpens, Serving
  <2>2. OsClientLeft = 14 /\ OsReceiverLeft[receiver] = 0 /\ OsDeviceLeft[server] = 3
    BY DEF OsInit, StreamInit, StreamOpens, OsClientLeft, OsClientRanks, OsReceiverLeft, OsDeviceLeft
  <2> QED
    BY <2>1, <2>2, StreamAssumption DEF OsLeft, InTransit
<1>2. OsInit /\ rpc = "Install" => OsIInv /\ Bound
  BY <1>1, OsInitInv, StreamAssumption
<1>3. OsIInv /\ [OsNext]_osVars => OsIInv'
  BY OsInvNext
<1>4. ASSUME OsIInv, OsNext PROVE OsLeft' < OsLeft
  <2>1. OsIInv'
    BY <1>3, <1>4
  <2> QED
    BY <1>4, <2>1, OsNearerMain, OsNearerOther DEF OsNext
<1>5. OsIInv => OsLeft \in Nat
  BY OsLeftNat
<1>6. UNCHANGED osVars => OsLeft' = OsLeft
  BY DEF osVars, streamVars, channel, clientVars, serverVars, OsLeft, OsClientLeft, Before,
         InTransit, Serving
<1>7. OsIInv' => OsLeft' \in Nat
  BY OsLeftNatNext
<1>8. OsIInv /\ Bound /\ [OsNext]_osVars => OsIInv' /\ Bound'
  <2> SUFFICES ASSUME OsIInv, Bound, [OsNext]_osVars PROVE OsIInv' /\ Bound'
    OBVIOUS
  <2>1. OsIInv' /\ OsLeft' \in Nat
    BY <1>3, <1>7
  <2>2. OsLeft' <= OsLeft
    BY <2>1, <1>4, <1>5, <1>6
  <2> QED
    BY <2>1, <2>2, StreamAssumption
<1>9. OsIInv /\ [OsNext]_osVars => [OsLeft' < OsLeft]_osVars
  BY <1>4
<1> QED
  BY <1>2, <1>8, <1>9, PTL DEF OsSpec, OsIsBounded
=============================================================================
