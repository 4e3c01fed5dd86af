----------------------------- MODULE DeployProofs -----------------------------
(***************************************************************************)
(* Proofs about module Deploy: what `gnoic containerz deploy` reports, for *)
(* an image of any size, any windows, and each of its servers.             *)
(***************************************************************************)
EXTENDS Deploy, StreamProofs

EndSent == sent = Blocks /\ client \in {"drain", "returned"}

\* The inductive invariant.  ImageTransferEnd, and the end of the client's side,
\* follow the last block; a server that deploys the image has got either, so it
\* has got what was sent.  An ImageTransferError is the last answer, and the
\* client has seen it if it is not in flight: it cannot see the normal end of the
\* stream before.
DeployClientInv ==
    /\ client = "sending" => sent < Blocks
    /\ client \in {"end", "drain"} => sent = Blocks
    /\ half => EndSent
    /\ verdict = "nil" => server \in {"quit", "success"}
DeployChannelInv ==
    Serving =>
        /\ InFlight("ImageTransfer", "ImageTransferEnd")
        /\ client = "start" => up = <<>> /\ server = "start"
        /\ server = "start" /\ client \notin {"start", "returned"} => up # <<>>
        /\ \A i \in 1..Len(up) : up[i] = "ImageTransferEnd" => EndSent
DeployServerInv ==
    /\ got <= sent
    /\ server \in {"succeeding", "success"} => got = Blocks
    /\ ended = "ok" => server \in {"success", "failed", "quit"}
DeployAnswersInv ==
    /\ \A i \in 1..Len(down) : down[i] = "ImageTransferSuccess" => server = "success"
    /\ server = "failed" /\ ended # "error" /\ client # "returned" =>
           down # <<>> /\ down[Len(down)] = "ImageTransferError"
DeployIInv == /\ rpc \in Deploys /\ DeployTypeOK
              /\ DeployClientInv /\ DeployChannelInv /\ DeployServerInv /\ DeployAnswersInv

LEMMA DeployInitInv == DeployInit => DeployIInv
<1> SUFFICES ASSUME DeployInit PROVE DeployIInv
  OBVIOUS
<1> USE DEF DeployInit, StreamInit, StreamOpens
<1>1. DeployTypeOK
  <2>1. up \in Seq(DeployRequests) /\ down \in Seq(DeployAnswers) /\ Len(up) = 0 /\ Len(down) = 0
    BY EmptySeq
  <2>2. 0 \in 0..Blocks /\ 0 <= UpWindow /\ 0 <= DownWindow
    BY StreamAssumption
  <2>3. rpc \in RPCs /\ half \in BOOLEAN /\ ended = "open" /\ client = "start"
        /\ verdict = "none" /\ sent = 0 /\ got = 0 /\ server = "start"
    OBVIOUS
  <2> QED
    BY <2>1, <2>2, <2>3 DEF DeployTypeOK, StreamTypeOK
<1>2. DeployChannelInv
  BY DEF DeployChannelInv, InFlight, Serving
<1>3. DeployAnswersInv
  BY DEF DeployAnswersInv
<1> QED
  BY <1>1, <1>2, <1>3, StreamAssumption DEF DeployIInv, DeployClientInv, DeployServerInv

LEMMA DeployChannelOK == DeployIInv => ChannelOK(DeployRequests)
BY StreamAssumption DEF DeployIInv, DeployTypeOK, StreamTypeOK, ChannelOK

-----------------------------------------------------------------------------
\* The client sends.
LEMMA DeploySendNext ==
    ASSUME DeployIInv, DeploySendImage \/ DeploySendContent \/ DeploySendEnd
    PROVE  DeployIInv'
<1> USE StreamAssumption DEF DeployRequests
<1>a. ChannelOK(DeployRequests)
  BY DeployChannelOK
<1>b. UNCHANGED <<rpc, server, got, verdict, down, half, ended>>
  BY DEF DeploySendImage, DeploySendContent, DeploySendEnd, DeployClient, serverVars, Goto, Send
<1>1. CASE DeploySendImage
  <2>1. client = "start" /\ client' = "ready" /\ sent' = sent /\ Send("ImageTransfer")
    BY <1>1 DEF DeploySendImage, Goto
  <2>2. CASE Serving
    <3>1. up = <<>> /\ server = "start" /\ InFlight("ImageTransfer", "ImageTransferEnd")
      BY <2>1, <2>2 DEF DeployIInv, DeployChannelInv
    <3>2. ChannelOK(DeployRequests)' /\ InFlight("ImageTransfer", "ImageTransferEnd")'
      BY <1>a, <1>b, <2>1, <2>2, <3>1, FirstSent
    <3>3. up' = <<"ImageTransfer">>
      BY <2>1, <2>2, <3>1 DEF Send, Serving
    <3>4. DeployTypeOK'
      BY <1>b, <2>1, <3>2 DEF DeployIInv, DeployTypeOK, StreamTypeOK, ChannelOK
    <3>5. DeployChannelInv'
      BY <2>1, <3>2, <3>3 DEF DeployChannelInv
    <3> QED
      BY <1>b, <2>1, <3>4, <3>5
      DEF DeployIInv, DeployClientInv, DeployServerInv, DeployAnswersInv, EndSent
  <2>3. CASE ~Serving
    BY <1>b, <2>1, <2>3
    DEF DeployIInv, DeployClientInv, DeployChannelInv, DeployServerInv, DeployAnswersInv, EndSent,
        Serving, Send, DeployTypeOK, StreamTypeOK
  <2> QED
    BY <2>2, <2>3
<1>2. CASE DeploySendContent
  <2>1. /\ client = "sending" /\ client' = "reading" /\ sent' = sent + 1 /\ Send("Content")
        /\ sent < Blocks /\ sent \in Nat
    BY <1>2 DEF DeploySendContent, Goto, DeployIInv, DeployClientInv, DeployTypeOK, StreamTypeOK
  <2>2. CASE Serving
    <3>1. /\ InFlight("ImageTransfer", "ImageTransferEnd")
          /\ server = "start" => up # <<>>
          /\ \A i \in 1..Len(up) : up[i] # "ImageTransferEnd"
      BY <2>1, <2>2 DEF DeployIInv, DeployChannelInv, EndSent
    <3>2. ChannelOK(DeployRequests)' /\ InFlight("ImageTransfer", "ImageTransferEnd")'
      BY <1>a, <1>b, <2>1, <2>2, <3>1, BlockSent
    <3>3. /\ up' # <<>>
          /\ \A i \in 1..Len(up') : up'[i] # "ImageTransferEnd"
      BY <1>a, <2>1, <2>2, <3>1 DEF Send, Serving, ChannelOK
    <3>4. DeployTypeOK'
      BY <1>b, <2>1, <3>2 DEF DeployIInv, DeployTypeOK, StreamTypeOK, ChannelOK
    <3>5. DeployChannelInv'
      BY <2>1, <3>2, <3>3 DEF DeployChannelInv
    <3> QED
      BY <1>a, <1>b, <2>1, <3>4, <3>5
      DEF DeployIInv, DeployClientInv, DeployServerInv, DeployAnswersInv, EndSent, ChannelOK
  <2>3. CASE ~Serving
    BY <1>a, <1>b, <2>1, <2>3
    DEF DeployIInv, DeployClientInv, DeployChannelInv, DeployServerInv, DeployAnswersInv, EndSent,
        Serving, Send, DeployTypeOK, StreamTypeOK, ChannelOK
  <2> QED
    BY <2>2, <2>3
<1>3. CASE DeploySendEnd
  <2>1. /\ client = "end" /\ client' = "drain" /\ sent' = sent /\ Send("ImageTransferEnd")
        /\ sent = Blocks
    BY <1>3 DEF DeploySendEnd, Goto, DeployIInv, DeployClientInv
  <2>2. CASE Serving
    <3>1. /\ InFlight("ImageTransfer", "ImageTransferEnd")
          /\ server = "start" => up # <<>>
          /\ \A i \in 1..Len(up) : up[i] # "ImageTransferEnd"
      BY <2>1, <2>2 DEF DeployIInv, DeployChannelInv, EndSent
    <3>2. ChannelOK(DeployRequests)' /\ InFlight("ImageTransfer", "ImageTransferEnd")'
      BY <1>a, <1>b, <2>1, <2>2, <3>1, LastSent
    <3>3. up' # <<>>
      BY <1>a, <2>1, <2>2 DEF Send, Serving, ChannelOK
    <3>4. DeployTypeOK'
      BY <1>b, <2>1, <3>2 DEF DeployIInv, DeployTypeOK, StreamTypeOK, ChannelOK
    <3>5. DeployChannelInv'
      BY <2>1, <3>2, <3>3 DEF DeployChannelInv, EndSent
    <3> QED
      BY <1>b, <2>1, <3>4, <3>5
      DEF DeployIInv, DeployClientInv, DeployServerInv, DeployAnswersInv, EndSent
  <2>3. CASE ~Serving
    BY <1>b, <2>1, <2>3
    DEF DeployIInv, DeployClientInv, DeployChannelInv, DeployServerInv, DeployAnswersInv, EndSent,
        Serving, Send, DeployTypeOK, StreamTypeOK
  <2> QED
    BY <2>2, <2>3
<1> QED
  BY <1>1, <1>2, <1>3

\* It receives an answer.
LEMMA DeployRecvNext ==
    ASSUME DeployIInv, DeployClient, sent' = sent, NEW m \in DeployAnswers, Recv(m),
           \/ client = "ready" /\ m = "ImageTransferReady" /\ client' = "reading" /\ verdict' = verdict
           \/ client = "ready" /\ client' = "returned" /\ verdict' = "error"
           \/ client = "drain" /\ m = "ImageTransferProgress" /\ client' = client /\ verdict' = verdict
           \/ client = "drain" /\ m = "ImageTransferSuccess" /\ client' = "returned" /\ verdict' = "nil"
           \/ client = "drain" /\ m = "ImageTransferError" /\ client' = "returned" /\ verdict' = "error"
    PROVE  DeployIInv'
<1> USE StreamAssumption
<1>1. down \in Seq(DeployAnswers) /\ Len(down) <= DownWindow
  BY DEF DeployIInv, DeployTypeOK, StreamTypeOK
<1>2. /\ down' \in Seq(DeployAnswers) /\ Len(down') <= DownWindow
      /\ down # <<>> /\ Len(down) > 0 /\ down[1] = m
      /\ Len(down') = Len(down) - 1
      /\ \A i \in 1..Len(down') : down'[i] = down[i + 1]
      /\ UNCHANGED <<up, half, ended>>
  BY <1>1, AnswerReceived
<1>3. UNCHANGED <<rpc, server, got>>
  BY DEF DeployClient, serverVars
<1>4. DeployTypeOK'
  BY <1>2, <1>3 DEF DeployIInv, DeployTypeOK, StreamTypeOK
<1>5. Len(down) \in Nat /\ Len(down') \in Nat /\ (down' = <<>> <=> Len(down') = 0)
  BY <1>1, <1>2, LenProperties, EmptySeq
<1>6. m = "ImageTransferSuccess" => server = "success"
  <2>1. 1 \in 1..Len(down)
    BY <1>2, <1>5
  <2> QED
    BY <1>2, <2>1 DEF DeployIInv, DeployAnswersInv
<1>7. \A i \in 1..Len(down') : down'[i] = "ImageTransferSuccess" => server = "success"
  <2>1. \A i \in 1..Len(down') : i + 1 \in 1..Len(down)
    BY <1>2, <1>5
  <2> QED
    BY <1>2, <2>1 DEF DeployIInv, DeployAnswersInv
<1>8. server = "failed" /\ ended # "error" /\ client' # "returned" =>
          down' # <<>> /\ down'[Len(down')] = "ImageTransferError"
  <2> SUFFICES ASSUME server = "failed", ended # "error", client' # "returned"
               PROVE  down' # <<>> /\ down'[Len(down')] = "ImageTransferError"
    OBVIOUS
  <2>1. down[Len(down)] = "ImageTransferError" /\ m # "ImageTransferError"
    BY DEF DeployIInv, DeployAnswersInv
  <2>2. Len(down) > 1
    BY <1>2, <1>5, <2>1
  <2>3. Len(down') \in 1..Len(down') /\ Len(down') + 1 = Len(down)
    BY <1>2, <1>5, <2>2
  <2>4. down'[Len(down')] = down[Len(down)]
    BY <1>2, <2>3
  <2> QED
    BY <1>5, <2>1, <2>3, <2>4
<1>9. DeployAnswersInv'
  BY <1>2, <1>3, <1>7, <1>8 DEF DeployAnswersInv
<1>10. DeployChannelInv'
  BY <1>2, <1>3 DEF DeployIInv, DeployChannelInv, InFlight, Serving, EndSent
<1> QED
  BY <1>2, <1>3, <1>4, <1>6, <1>9, <1>10
  DEF DeployIInv, DeployClientInv, DeployServerInv, EndSent

\* It reads the image, closes its side, or returns.
LEMMA DeployOtherNext ==
    ASSUME DeployIInv, DeployClient, UNCHANGED <<up, down, ended, sent>>,
           \/ /\ client = "reading" /\ client' = (IF sent < Blocks THEN "sending" ELSE "end")
              /\ UNCHANGED <<half, verdict>>
           \/ client' = "returned" /\ verdict' = "error" /\ half' = half
           \/ client = "drain" /\ half' = TRUE /\ UNCHANGED <<client, verdict>>
           \/ client = "drain" /\ RecvEOF /\ client' = "returned" /\ verdict' = "nil"
    PROVE  DeployIInv'
<1> USE StreamAssumption
<1>1. UNCHANGED <<rpc, server, got>>
  BY DEF DeployClient, serverVars
<1>2. RecvEOF => half' = half
  BY DEF RecvEOF, channel
<1>3. DeployTypeOK'
  BY <1>1, <1>2 DEF DeployIInv, DeployTypeOK, StreamTypeOK
<1>4. RecvEOF /\ client = "drain" => server \in {"quit", "success"}
  BY DEF RecvEOF, DeployIInv, DeployServerInv, DeployAnswersInv
<1>5. DeployClientInv'
  BY <1>1, <1>2, <1>4 DEF DeployIInv, DeployClientInv, EndSent, DeployTypeOK, StreamTypeOK
<1>6. DeployChannelInv'
  BY <1>1 DEF DeployIInv, DeployChannelInv, InFlight, Serving, EndSent
<1> QED
  BY <1>1, <1>3, <1>5, <1>6 DEF DeployIInv, DeployServerInv, DeployAnswersInv

LEMMA DeployClientNext ==
    ASSUME DeployIInv, DeployClientStep
    PROVE  DeployIInv'
<1>1. CASE DeploySendImage \/ DeploySendContent \/ DeploySendEnd
  BY <1>1, DeploySendNext
<1>2. CASE DeployReady
  BY <1>2, DeployRecvNext DEF DeployReady, Goto, DeployAnswers
<1>3. CASE DeployNotReady
  <2>1. CASE \E m \in DeployAnswers \ {"ImageTransferReady"} : Recv(m)
    BY <1>3, <2>1, DeployRecvNext DEF DeployNotReady, Return
  <2>2. CASE RecvEnded
    BY <1>3, <2>2, DeployOtherNext DEF DeployNotReady, Return, RecvEnded, RecvEOF, RecvFails, channel
  <2> QED
    BY <1>3, <2>1, <2>2 DEF DeployNotReady
<1>4. CASE DeployProgress
  BY <1>4, DeployRecvNext DEF DeployProgress, clientVars, DeployAnswers
<1>5. CASE DeploySucceeds
  <2>1. CASE Recv("ImageTransferSuccess")
    BY <1>5, <2>1, DeployRecvNext DEF DeploySucceeds, Return, DeployAnswers
  <2>2. CASE RecvEOF
    BY <1>5, <2>2, DeployOtherNext DEF DeploySucceeds, Return, RecvEOF, channel
  <2> QED
    BY <1>5, <2>1, <2>2 DEF DeploySucceeds
<1>6. CASE DeployFails
  <2>1. CASE Recv("ImageTransferError")
    BY <1>6, <2>1, DeployRecvNext DEF DeployFails, Return, DeployAnswers
  <2>2. CASE RecvFails
    BY <1>6, <2>2, DeployOtherNext DEF DeployFails, Return, RecvFails, channel
  <2> QED
    BY <1>6, <2>1, <2>2 DEF DeployFails
<1>7. CASE DeployStartFails \/ DeployRead \/ DeployReadFails \/ DeploySendFails \/ DeployCloses
  BY <1>7, DeployOtherNext
  DEF DeployStartFails, DeployRead, DeployReadFails, DeploySendFails, DeployCloses,
      SendFails, CloseSend, Goto, Return, channel, clientVars
<1> QED
  BY <1>1, <1>2, <1>3, <1>4, <1>5, <1>6, <1>7 DEF DeployClientStep

-----------------------------------------------------------------------------
\* The server receives.
LEMMA DeployHandleNext ==
    ASSUME DeployIInv, DeployHandleImage \/ DeployHandleContent \/ DeployHandleEnd
    PROVE  DeployIInv'
<1> USE StreamAssumption DEF DeployRequests
<1>a. ChannelOK(DeployRequests)
  BY DeployChannelOK
<1>b. UNCHANGED <<rpc, client, verdict, sent>>
  BY DEF DeployHandleImage, DeployHandleContent, DeployHandleEnd, DeployServer, clientVars
<1>1. PICK m \in DeployRequests :
          /\ Handle(m)
          /\ \/ /\ m = "ImageTransfer" /\ server = "start"
                /\ server' \in {"ready", "failing"} /\ got' = got
             \/ /\ m = "Content" /\ server = "content"
                /\ server' \in {"content", "progress", "failing"} /\ got' = got + 1
             \/ /\ m = "ImageTransferEnd" /\ server = "content"
                /\ server' \in {"content", "succeeding", "failing"} /\ got' = got
  <2>1. CASE DeployHandleImage
    BY <2>1 DEF DeployHandleImage
  <2>2. CASE DeployHandleContent
    BY <2>2 DEF DeployHandleContent
  <2>3. CASE DeployHandleEnd
    BY <2>3 DEF DeployHandleEnd
  <2> QED
    BY <2>1, <2>2, <2>3
<1>2. Serving /\ InFlight("ImageTransfer", "ImageTransferEnd")
  BY <1>1 DEF Handle, DeployIInv, DeployChannelInv
<1>3. /\ ChannelOK(DeployRequests)' /\ InFlight("ImageTransfer", "ImageTransferEnd")'
      /\ got' <= sent
      /\ m = "ImageTransferEnd" => got = sent
  <2>1. CASE m = "ImageTransfer"
    BY <1>a, <1>b, <1>1, <1>2, <2>1, FirstHandled DEF DeployIInv, DeployServerInv
  <2>2. CASE m = "Content"
    BY <1>a, <1>b, <1>1, <1>2, <2>2, BlockHandled
  <2>3. CASE m = "ImageTransferEnd"
    BY <1>a, <1>b, <1>1, <1>2, <2>3, LastHandled DEF DeployIInv, DeployServerInv
  <2> QED
    BY <2>1, <2>2, <2>3
<1>4. /\ Len(up') = Len(up) - 1 /\ Len(up) > 0 /\ Len(up) \in Nat
      /\ \A i \in 1..Len(up') : up'[i] = up[i + 1]
      /\ up[1] = m
  BY <1>a, <1>1, HeadTaken, LenProperties DEF ChannelOK
<1>5. UNCHANGED <<down, half, ended>> /\ up # <<>>
  BY <1>1 DEF Handle
<1>6. /\ \A i \in 1..Len(up') : up'[i] = "ImageTransferEnd" => EndSent
      /\ m = "ImageTransferEnd" => EndSent
  <2>1. \A i \in 1..Len(up) : up[i] = "ImageTransferEnd" => EndSent
    BY <1>2 DEF DeployIInv, DeployChannelInv
  <2>2. 1 \in 1..Len(up) /\ \A i \in 1..Len(up') : i + 1 \in 1..Len(up)
    BY <1>4
  <2> QED
    BY <1>4, <2>1, <2>2
<1>7. DeployTypeOK'
  BY <1>b, <1>1, <1>3, <1>5 DEF DeployIInv, DeployTypeOK, StreamTypeOK, ChannelOK
<1>8. DeployChannelInv'
  BY <1>b, <1>1, <1>2, <1>3, <1>5, <1>6 DEF DeployIInv, DeployChannelInv, Serving, EndSent
<1>9. DeployAnswersInv'
  BY <1>b, <1>1, <1>5 DEF DeployIInv, DeployAnswersInv
<1>10. DeployServerInv' /\ DeployClientInv'
  <2>1. ended = "open"
    BY <1>2 DEF Serving
  <2> QED
    BY <1>b, <1>1, <1>3, <1>5, <1>6, <2>1
    DEF DeployIInv, DeployServerInv, DeployClientInv, EndSent
<1> QED
  BY <1>b, <1>7, <1>8, <1>9, <1>10 DEF DeployIInv

\* It sees the end of the client's side, answers, returns, or the stream breaks.
LEMMA MockEOFNext ==
    ASSUME DeployIInv, MockHandleEOF
    PROVE  DeployIInv'
<1> USE StreamAssumption
<1>1. /\ server = "content" /\ server' = "succeeding"
      /\ Serving /\ half /\ up = <<>>
      /\ UNCHANGED <<rpc, up, down, half, ended, client, verdict, sent, got>>
  BY DEF MockHandleEOF, DeployServer, HandleEOF, channel, clientVars
<1>2. got = Blocks
  <2>1. sent = Blocks /\ InFlight("ImageTransfer", "ImageTransferEnd")
    BY <1>1 DEF DeployIInv, DeployClientInv, DeployChannelInv, EndSent
  <2>2. Len(up) = 0 /\ got \in Nat /\ sent \in Nat
    BY <1>1 DEF DeployIInv, DeployTypeOK, StreamTypeOK
  <2> QED
    BY <1>1, <2>1, <2>2 DEF InFlight
<1>3. DeployTypeOK'
  BY <1>1 DEF DeployIInv, DeployTypeOK, StreamTypeOK
<1>4. DeployChannelInv'
  BY <1>1 DEF DeployIInv, DeployChannelInv, InFlight, Serving, EndSent
<1> QED
  BY <1>1, <1>2, <1>3, <1>4
  DEF DeployIInv, DeployClientInv, DeployServerInv, DeployAnswersInv, EndSent, Serving

LEMMA DeployAnswerNext ==
    ASSUME DeployIInv, DeployAnswer
    PROVE  DeployIInv'
<1> USE StreamAssumption
<1>1. PICK m \in DeployAnswers :
          /\ Answer(m)
          /\ \/ m = "ImageTransferReady" /\ server = "ready" /\ server' = "content"
             \/ m = "ImageTransferProgress" /\ server = "progress" /\ server' = "content"
             \/ m = "ImageTransferSuccess" /\ server = "succeeding" /\ server' = "success"
             \/ m = "ImageTransferError" /\ server = "failing" /\ server' = "failed"
  BY DEF DeployAnswer, DeployAnswers
<1>2. UNCHANGED <<rpc, client, verdict, sent, got>>
  BY DEF DeployAnswer, DeployServer, clientVars
<1>3. down \in Seq(DeployAnswers) /\ Len(down) <= DownWindow
  BY DEF DeployIInv, DeployTypeOK, StreamTypeOK
<1>4. /\ down' \in Seq(DeployAnswers) /\ Len(down') <= DownWindow
      /\ Len(down') = Len(down) + 1 /\ down' # <<>>
      /\ \A i \in 1..Len(down') : down'[i] = IF i <= Len(down) THEN down[i] ELSE m
      /\ UNCHANGED <<up, half, ended>> /\ Serving
  BY <1>1, <1>3, AnswerSent
<1>5. Len(down) \in Nat
  BY <1>3, LenProperties
<1>6. DeployTypeOK'
  BY <1>1, <1>2, <1>4 DEF DeployIInv, DeployTypeOK, StreamTypeOK
<1>7. DeployChannelInv'
  BY <1>1, <1>2, <1>4 DEF DeployIInv, DeployChannelInv, InFlight, Serving, EndSent
<1>8. down'[Len(down')] = m
  BY <1>4, <1>5
<1>9. \A i \in 1..Len(down') : down'[i] = "ImageTransferSuccess" => server' = "success"
  <2> SUFFICES ASSUME NEW i \in 1..Len(down'), down'[i] = "ImageTransferSuccess"
               PROVE  server' = "success"
    OBVIOUS
  <2>1. CASE i \in 1..Len(down)
    <3>1. down[i] = "ImageTransferSuccess"
      BY <1>4, <1>5, <2>1
    <3> QED
      BY <1>1, <2>1, <3>1 DEF DeployIInv, DeployAnswersInv
  <2>2. CASE i \notin 1..Len(down)
    <3>1. down'[i] = m
      BY <1>4, <1>5, <2>2
    <3> QED
      BY <1>1, <3>1
  <2> QED
    BY <2>1, <2>2
<1>10. DeployAnswersInv'
  BY <1>1, <1>4, <1>8, <1>9 DEF DeployAnswersInv
<1>11. DeployServerInv' /\ DeployClientInv'
  BY <1>1, <1>2, <1>4 DEF DeployIInv, DeployServerInv, DeployClientInv, EndSent, Serving
<1> QED
  BY <1>2, <1>6, <1>7, <1>10, <1>11 DEF DeployIInv

LEMMA DeployFinishNext ==
    ASSUME DeployIInv, DeployServerReturn \/ DeployDevQuit
    PROVE  DeployIInv'
<1>1. /\ UNCHANGED <<rpc, up, down, half, client, verdict, sent, got>>
      /\ Serving
      /\ \/ server' = server /\ server \in {"success", "failed"} /\ ended' \in {"ok", "error"}
         \/ server' = "quit" /\ server \in {"start", "content"} /\ ended' = "ok"
  BY DEF DeployServerReturn, DeployDevQuit, DeployServer, Finish, serverVars, clientVars
<1>2. DeployTypeOK'
  BY <1>1 DEF DeployIInv, DeployTypeOK, StreamTypeOK
<1>3. ~Serving'
  BY <1>1 DEF Serving
<1>4. DeployAnswersInv'
  BY <1>1 DEF DeployIInv, DeployAnswersInv, Serving
<1> QED
  BY <1>1, <1>2, <1>3, <1>4
  DEF DeployIInv, DeployClientInv, DeployChannelInv, DeployServerInv, EndSent

LEMMA DeployBreakNext ==
    ASSUME DeployIInv, Break
    PROVE  DeployIInv'
<1>1. down \in Seq(DeployAnswers) /\ Len(down) <= DownWindow
  BY DEF DeployIInv, DeployTypeOK, StreamTypeOK
<1>2. /\ down' \in Seq(DeployAnswers) /\ Len(down') <= Len(down) /\ Len(down') \in Nat
      /\ \A i \in 1..Len(down') : down'[i] = down[i]
      /\ Serving /\ ended' = "error"
      /\ UNCHANGED <<rpc, up, half, client, verdict, sent, server, got>>
  BY <1>1, BrokenOff
<1>3. Len(down) \in Nat /\ Len(down') <= DownWindow
  BY <1>1, <1>2, LenProperties, StreamAssumption
<1>4. DeployTypeOK'
  BY <1>2, <1>3 DEF DeployIInv, DeployTypeOK, StreamTypeOK
<1>5. \A i \in 1..Len(down') : down'[i] = "ImageTransferSuccess" => server = "success"
  <2>1. \A i \in 1..Len(down') : i \in 1..Len(down)
    BY <1>2, <1>3
  <2> QED
    BY <1>2, <2>1 DEF DeployIInv, DeployAnswersInv
<1> QED
  BY <1>2, <1>4, <1>5
  DEF DeployIInv, DeployClientInv, DeployChannelInv, DeployServerInv, DeployAnswersInv, EndSent, Serving

-----------------------------------------------------------------------------
LEMMA DeployInvNext == DeployIInv /\ [DeployNext]_streamVars => DeployIInv'
<1> SUFFICES ASSUME DeployIInv, [DeployNext]_streamVars PROVE DeployIInv'
  OBVIOUS
<1>1. CASE DeployNext
  BY <1>1, DeployClientNext, DeployHandleNext, MockEOFNext, DeployAnswerNext, DeployFinishNext,
     DeployBreakNext
  DEF DeployNext, DeployServerStep, DeployBreak
<1>2. CASE UNCHANGED streamVars
  BY <1>2 DEF streamVars, channel, clientVars, serverVars, DeployIInv, DeployTypeOK, StreamTypeOK,
      DeployClientInv, DeployChannelInv, DeployServerInv, DeployAnswersInv, InFlight, EndSent, Serving
<1> QED
  BY <1>1, <1>2

LEMMA DeployInductive == DeploySpec => []DeployIInv
BY DeployInvNext, DeployInitInv, PTL DEF DeploySpec

\* A deployment of any number of blocks keeps to the states, the messages and the
\* windows that DeployTypeOK lists.
THEOREM DeployTypeCorrect == DeploySpec => []DeployTypeOK
<1>1. DeployIInv => DeployTypeOK
  BY DEF DeployIInv
<1> QED
  BY <1>1, DeployInductive, PTL

\* `gnoic containerz deploy` succeeds only when the server has the whole image and
\* reported it deployed, or returned without a result: an ImageTransferError is
\* never overtaken by the end of the stream, which the client takes for success.
THEOREM DeploySuccessesAreWhole == DeploySpec => []DeploySuccessIsWhole
<1>1. DeployIInv => DeploySuccessIsWhole
  BY DEF DeployIInv, DeployClientInv, DeployServerInv, DeploySuccessIsWhole
<1> QED
  BY <1>1, DeployInductive, PTL

-----------------------------------------------------------------------------
\* That the client and its server do not wait for each other.  The answer to the
\* metadata is there before the client goes on; while the image is sent, the server
\* has sent at most one answer for each block it got, the one it owes counted; after
\* ImageTransferEnd a device has something to receive until it has received it.
DeploySending == client \in {"reading", "sending", "end"}
DeployOwes    == IF server \in {"progress", "failing"} THEN 1 ELSE 0
DeployReadyInv ==
    client \in {"start", "ready"} =>
        /\ sent = 0
        /\ \/ server \in {"start", "ready", "failing"} /\ Len(down) = 0
           \/ server = "content" /\ Len(down) = 1
           \/ server = "failed" /\ Len(down) = 1 /\ down[1] = "ImageTransferError"
DeployOwesInv ==
    DeploySending => /\ server \in {"content", "progress", "failing", "failed"}
                     /\ Len(down) + DeployOwes <= got
DeployEndInv ==
    rpc = "Deploy" /\ client = "drain" /\ server \in {"content", "progress"} =>
        up # <<>> /\ up[Len(up)] = "ImageTransferEnd"
DeployDrainInv ==
    client = "drain" => server \notin {"start", "ready"}
DeployWindowInv ==
    Serving => DeployReadyInv /\ DeployOwesInv /\ DeployEndInv /\ DeployDrainInv

LEMMA DeployCounts ==
    ASSUME DeployIInv
    PROVE  /\ Len(up) \in Nat /\ Len(down) \in Nat /\ got \in Nat /\ sent \in Nat
           /\ down \in Seq(DeployAnswers) /\ Len(down) <= DownWindow
           /\ sent <= Blocks /\ (up = <<>> <=> Len(up) = 0) /\ (down = <<>> <=> Len(down) = 0)
BY StreamAssumption, EmptySeq DEF DeployIInv, DeployTypeOK, StreamTypeOK

\* Nothing of the image is in flight before the client goes on to send it.
LEMMA DeployNothingBefore ==
    ASSUME DeployIInv, DeployWindowInv, Serving, client \in {"start", "ready"}
    PROVE  /\ got = 0
           /\ server # "start" => up = <<>>
           /\ \A i \in 1..Len(up) : up[i] # "Content" /\ up[i] # "ImageTransferEnd"
<1>1. /\ InFlight("ImageTransfer", "ImageTransferEnd") /\ sent = 0
      /\ \A i \in 1..Len(up) : up[i] # "ImageTransferEnd"
  BY DEF DeployIInv, DeployChannelInv, EndSent, DeployWindowInv, DeployReadyInv
<1>2. up # <<>> => 1 \in 1..Len(up) /\ Len(up) \in 1..Len(up)
  BY DeployCounts
<1>3. up # <<>> => up[Len(up)] # "ImageTransferEnd"
  BY <1>1, <1>2
<1>4. got + Len(up) = IF up # <<>> /\ up[1] = "ImageTransfer" THEN 1 ELSE 0
  BY <1>1, <1>3, DeployCounts DEF InFlight
<1>5. CASE up = <<>>
  BY <1>4, <1>5, DeployCounts
<1>6. CASE up # <<>>
  <2>1. Len(up) \in Nat /\ got \in Nat /\ Len(up) > 0
    BY <1>6, DeployCounts
  <2>2. up[1] = "ImageTransfer" /\ got + Len(up) = 1
    BY <1>4, <1>6, <2>1, DeployCounts
  <2>3. Len(up) = 1 /\ got = 0
    BY <2>1, <2>2
  <2>4. server = "start"
    BY <1>1, <1>2, <1>6, <2>2 DEF InFlight
  <2> QED
    BY <2>2, <2>3, <2>4
<1> QED
  BY <1>5, <1>6

LEMMA DeployWindowInit == DeployInit => DeployWindowInv
BY EmptySeq DEF DeployInit, StreamInit, StreamOpens, DeployWindowInv, DeployReadyInv, DeployOwesInv,
   DeployEndInv, DeployDrainInv, DeploySending

\* The client.
LEMMA DeployWindowClient ==
    ASSUME DeployIInv, DeployWindowInv, DeployClientStep
    PROVE  DeployWindowInv'
<1> SUFFICES ASSUME Serving' PROVE DeployWindowInv'
  BY DEF DeployWindowInv
<1>a. UNCHANGED <<rpc, server, got, ended>> /\ DeployOwes' = DeployOwes /\ Serving
  BY DEF DeployClientStep, DeploySendImage, DeployStartFails, DeployReady, DeployNotReady,
         DeployRead, DeployReadFails, DeploySendContent, DeploySendEnd, DeploySendFails,
         DeployCloses, DeployProgress, DeploySucceeds, DeployFails, DeployClient, serverVars,
         DeployOwes, Send, Recv, CloseSend, SendFails, RecvEnded, RecvEOF, RecvFails, channel, Serving
<1>b. DeployReadyInv /\ DeployOwesInv /\ DeployEndInv /\ DeployDrainInv
  BY <1>a DEF DeployWindowInv
<1> USE DEF DeployWindowInv, DeployReadyInv, DeployOwesInv, DeployEndInv, DeployDrainInv, DeploySending
<1>1. CASE DeploySendImage
  <2>1. client = "start" /\ client' = "ready" /\ UNCHANGED <<down, sent>>
    BY <1>1 DEF DeploySendImage, Goto, Send
  <2> QED
    BY <1>a, <1>b, <2>1
<1>2. CASE DeployReady
  <2>1. client = "ready" /\ client' = "reading" /\ Recv("ImageTransferReady")
    BY <1>2 DEF DeployReady, Goto
  <2>2. Len(down) > 0 /\ down[1] = "ImageTransferReady" /\ Len(down') = Len(down) - 1
    BY <2>1, DeployCounts, AnswerReceived
  <2>3. server = "content" /\ Len(down') = 0
    BY <1>b, <2>1, <2>2, DeployCounts
  <2> QED
    BY <1>a, <2>1, <2>3, DeployCounts DEF DeployOwes
<1>3. CASE DeploySendContent \/ DeployRead
  <2>1. DeploySending /\ DeploySending' /\ down' = down
    BY <1>3 DEF DeploySendContent, DeployRead, Goto, Send, channel
  <2> QED
    BY <1>a, <1>b, <2>1
<1>4. CASE DeploySendEnd
  <2>1. client = "end" /\ client' = "drain" /\ Send("ImageTransferEnd")
    BY <1>4 DEF DeploySendEnd, Goto
  <2>2. up' # <<>> /\ up'[Len(up')] = "ImageTransferEnd"
    BY <1>a, <2>1, DeployChannelOK DEF Send, Serving, ChannelOK
  <2> QED
    BY <1>a, <1>b, <2>1, <2>2
<1>5. CASE DeployCloses \/ DeployProgress
  <2>1. client = "drain" /\ client' = "drain" /\ up' = up
    BY <1>5 DEF DeployCloses, DeployProgress, clientVars, CloseSend, Recv
  <2> QED
    BY <1>a, <1>b, <2>1
<1>6. CASE \/ DeployStartFails \/ DeployNotReady \/ DeployReadFails \/ DeploySendFails
           \/ DeploySucceeds \/ DeployFails
  <2>1. client' = "returned"
    BY <1>6 DEF DeployStartFails, DeployNotReady, DeployReadFails, DeploySendFails,
                DeploySucceeds, DeployFails, Return
  <2> QED
    BY <2>1
<1> QED
  BY <1>1, <1>2, <1>3, <1>4, <1>5, <1>6 DEF DeployClientStep

\* The server receives.
LEMMA DeployWindowHandle ==
    ASSUME DeployIInv, DeployWindowInv,
           DeployHandleImage \/ DeployHandleContent \/ DeployHandleEnd \/ MockHandleEOF
    PROVE  DeployWindowInv'
<1>a. UNCHANGED <<rpc, client, sent, down, ended>> /\ Serving
  BY DEF DeployHandleImage, DeployHandleContent, DeployHandleEnd, MockHandleEOF, DeployServer,
         clientVars, Handle, HandleEOF, channel
<1>b. DeployReadyInv /\ DeployOwesInv /\ DeployEndInv /\ DeployDrainInv
  BY <1>a DEF DeployWindowInv
<1> USE DEF DeployWindowInv, DeployReadyInv, DeployOwesInv, DeployEndInv, DeployDrainInv, DeploySending
<1>1. CASE DeployHandleImage
  <2>1. server = "start" /\ server' \in {"ready", "failing"}
    BY <1>1 DEF DeployHandleImage
  <2>2. client \in {"start", "ready"} \/ ~(DeploySending \/ client = "drain")
    BY <1>b, <2>1
  <2> QED
    BY <1>a, <1>b, <2>1, <2>2
<1>2. CASE DeployHandleContent
  <2>1. /\ Handle("Content") /\ server = "content" /\ got' = got + 1
        /\ server' \in {"content", "progress", "failing"}
    BY <1>2 DEF DeployHandleContent
  <2>2. Len(up) > 0 /\ up[1] = "Content"
    BY <2>1, DeployChannelOK, HeadTaken
  <2>3. 1 \in 1..Len(up)
    BY <2>2, DeployCounts
  <2>4. client \notin {"start", "ready"}
    BY <1>a, <2>2, <2>3, DeployNothingBefore
  <2>5. DeploySending => Len(down) + DeployOwes' <= got'
    BY <1>b, <2>1, DeployCounts DEF DeployOwes
  <2>6. up[Len(up)] = "ImageTransferEnd" => up' # <<>> /\ up'[Len(up')] = "ImageTransferEnd"
    BY <2>1, DeployChannelOK, LastStays
  <2> QED
    BY <1>a, <1>b, <2>1, <2>4, <2>5, <2>6
<1>3. CASE DeployHandleEnd
  <2>1. /\ Handle("ImageTransferEnd") /\ server = "content"
        /\ server' = "content" => rpc \in Mocked
        /\ server' \in {"content", "succeeding", "failing"}
    BY <1>3 DEF DeployHandleEnd
  <2>2. Len(up) > 0 /\ up[1] = "ImageTransferEnd"
    BY <2>1, DeployChannelOK, HeadTaken
  <2>3. 1 \in 1..Len(up)
    BY <2>2, DeployCounts
  <2>4. client \in {"drain", "returned"}
    BY <1>a, <2>2, <2>3 DEF DeployIInv, DeployChannelInv, EndSent
  <2> QED
    BY <1>a, <2>1, <2>4 DEF Mocked
<1>4. CASE MockHandleEOF
  <2>1. server' = "succeeding" /\ client \in {"drain", "returned"}
    BY <1>4 DEF MockHandleEOF, HandleEOF, DeployIInv, DeployClientInv, EndSent
  <2> QED
    BY <1>a, <2>1
<1> QED
  BY <1>1, <1>2, <1>3, <1>4

\* It answers.
LEMMA DeployWindowAnswer ==
    ASSUME DeployIInv, DeployWindowInv, DeployAnswer
    PROVE  DeployWindowInv'
<1>1. PICK m \in DeployAnswers :
          /\ Answer(m)
          /\ \/ m = "ImageTransferReady" /\ server = "ready" /\ server' = "content"
             \/ m = "ImageTransferProgress" /\ server = "progress" /\ server' = "content"
             \/ m = "ImageTransferSuccess" /\ server = "succeeding" /\ server' = "success"
             \/ m = "ImageTransferError" /\ server = "failing" /\ server' = "failed"
  BY DEF DeployAnswer, DeployAnswers
<1>2. UNCHANGED <<rpc, client, sent, got>>
  BY DEF DeployAnswer, DeployServer, clientVars
<1>3. /\ Len(down') = Len(down) + 1
      /\ \A i \in 1..Len(down') : down'[i] = IF i <= Len(down) THEN down[i] ELSE m
      /\ UNCHANGED <<up, ended>> /\ Serving
  BY <1>1, DeployCounts, AnswerSent
<1>4. DeployReadyInv /\ DeployOwesInv /\ DeployEndInv /\ DeployDrainInv
  BY <1>3 DEF DeployWindowInv
<1>5. Len(down) = 0 => Len(down') = 1 /\ down'[1] = m
  BY <1>3, DeployCounts
<1>6. DeployReadyInv'
  BY <1>1, <1>2, <1>4, <1>5 DEF DeployReadyInv
<1>7. DeployOwesInv'
  BY <1>1, <1>2, <1>3, <1>4, DeployCounts DEF DeployOwesInv, DeployOwes, DeploySending
<1>8. DeployEndInv' /\ DeployDrainInv'
  BY <1>1, <1>2, <1>3, <1>4 DEF DeployEndInv, DeployDrainInv
<1> QED
  BY <1>6, <1>7, <1>8 DEF DeployWindowInv

LEMMA DeployWindowNext == DeployIInv /\ DeployWindowInv /\ [DeployNext]_streamVars => DeployWindowInv'
<1> SUFFICES ASSUME DeployIInv, DeployWindowInv, [DeployNext]_streamVars PROVE DeployWindowInv'
  OBVIOUS
<1>1. CASE DeployServerReturn \/ DeployDevQuit \/ DeployBreak
  BY <1>1 DEF DeployServerReturn, DeployDevQuit, DeployBreak, Finish, Break, DeployWindowInv, Serving
<1>2. CASE UNCHANGED streamVars
  BY <1>2 DEF streamVars, channel, clientVars, serverVars, DeployWindowInv, DeployReadyInv,
              DeployOwesInv, DeployEndInv, DeployDrainInv, DeploySending, DeployOwes, Serving
<1> QED
  BY <1>1, <1>2, DeployWindowClient, DeployWindowHandle, DeployWindowAnswer
  DEF DeployNext, DeployServerStep

\* `gnoic containerz deploy`, which looks at no answer while it sends the image, and a
\* device, or the mock if the client closed its side, never wait for each other:
\* whatever the windows, as long as the image has no more blocks than they hold.
THEOREM DeployNeverWaitsForever == DeploySpec => []DeployNeverStuck
<1>1. DeployIInv /\ DeployWindowInv => DeployNeverStuck
  <2> SUFFICES ASSUME DeployIInv, DeployWindowInv, rpc \in {"Deploy", "ClosingDeploy"},
                      FitsWindows, Serving, DeployClientWaits, DeployServerWaits
               PROVE  FALSE
    BY DEF DeployNeverStuck, DeployStuck
  <2> USE StreamAssumption, DeployCounts
  <2>1. /\ InFlight("ImageTransfer", "ImageTransferEnd")
        /\ server = "start" /\ client \notin {"start", "returned"} => up # <<>>
    BY DEF DeployIInv, DeployChannelInv
  <2>2. DeployReadyInv /\ DeployOwesInv /\ DeployEndInv /\ DeployDrainInv
    BY DEF DeployWindowInv
  <2>3. CASE down = <<>> /\ client \in {"ready", "drain"}
    <3>1. server = "content" /\ up = <<>> /\ ~(rpc \in Mocked /\ half)
      BY <2>1, <2>3 DEF DeployServerWaits
    <3>2. client = "drain"
      BY <2>2, <2>3, <3>1 DEF DeployReadyInv
    <3> QED
      BY <2>2, <2>3, <3>1, <3>2 DEF DeployClientWaits, DeployEndInv, Mocked
  <2>4. CASE client \in {"sending", "end"} /\ Len(up) = UpWindow
    <3>1. up # <<>> /\ 1 \in 1..Len(up) /\ Len(up) \in 1..Len(up)
      BY <2>4
    <3>2. server \in {"progress", "failing"} /\ Len(down) = DownWindow
      BY <2>2, <2>4, <3>1 DEF DeployServerWaits, DeployOwesInv, DeploySending
    <3>3. DownWindow + 1 <= got
      BY <2>2, <2>4, <3>2 DEF DeployOwesInv, DeployOwes, DeploySending
    <3>4. up[1] # "ImageTransfer"
      BY <2>1, <3>1, <3>2 DEF InFlight
    <3>5. up[Len(up)] # "ImageTransferEnd"
      BY <2>4, <3>1 DEF DeployIInv, DeployChannelInv, EndSent
    <3>6. got + UpWindow = sent
      BY <2>1, <2>4, <3>4, <3>5 DEF InFlight
    <3> QED
      BY <3>3, <3>6 DEF FitsWindows
  <2> QED
    BY <2>3, <2>4 DEF DeployClientWaits
<1> QED
  BY <1>1, DeployInductive, DeployWindowInit, DeployWindowNext, PTL DEF DeploySpec

-----------------------------------------------------------------------------
(* The end of a deployment *)

\* What each side has still to do, the messages of its own it sends counted; a client
\* may close its side once.
DeployClientLeft == [start |-> 13, ready |-> 8, reading |-> 7, sending |-> 6, end |-> 6,
                     drain |-> 1, returned |-> 0]
DeployServerLeft == [start |-> 4, ready |-> 7, content |-> 4, progress |-> 7, succeeding |-> 3,
                     failing |-> 3, success |-> 0, failed |-> 0, quit |-> 0]
DeployLeft == DeployClientLeft[client] + DeployServerLeft[server]
              + 6 * (Blocks - sent) + InTransit + (IF half THEN 0 ELSE 1)

\* A deployment of N blocks takes at most 6 N + 19 steps, the server's included, however
\* it answers and whatever the windows are: each step brings it nearer to its end.
DeployIsBounded ==
    /\ [](DeployLeft \in 0..(6 * Blocks + 19))
    /\ [][DeployLeft' < DeployLeft]_streamVars

LEMMA DeployLeftNat ==
    ASSUME DeployIInv
    PROVE  /\ DeployClientLeft[client] \in Nat /\ DeployServerLeft[server] \in Nat
           /\ InTransit \in Nat /\ Blocks \in Nat /\ sent \in Nat /\ sent <= Blocks
           /\ DeployLeft \in Nat
           /\ QueuesOK(DeployRequests, DeployAnswers)
<1>1. QueuesOK(DeployRequests, DeployAnswers)
  BY DEF DeployIInv, DeployTypeOK, StreamTypeOK, QueuesOK
<1>2. InTransit \in Nat
  BY <1>1, TransitNat
<1>3. /\ client \in {"start", "ready", "reading", "sending", "end", "drain", "returned"}
      /\ server \in {"start", "ready", "content", "progress", "succeeding", "success",
                     "failing", "failed", "quit"}
      /\ sent \in 0..Blocks /\ Blocks \in Nat
  BY StreamAssumption DEF DeployIInv, DeployTypeOK, StreamTypeOK
<1>4. DeployClientLeft[client] \in Nat /\ DeployServerLeft[server] \in Nat
  BY <1>3 DEF DeployClientLeft, DeployServerLeft
<1> QED
  BY <1>1, <1>2, <1>3, <1>4 DEF DeployLeft

LEMMA DeployNearerClient ==
    ASSUME DeployIInv, DeployIInv', DeployClientStep
    PROVE  DeployLeft' < DeployLeft
<1>a. server' = server
  BY DEF DeployClientStep, DeploySendImage, DeployStartFails, DeployReady, DeployNotReady,
         DeployRead, DeployReadFails, DeploySendContent, DeploySendEnd, DeploySendFails,
         DeployCloses, DeployProgress, DeploySucceeds, DeployFails, DeployClient, serverVars
<1>b. /\ DeployServerLeft[server] \in Nat /\ InTransit \in Nat /\ InTransit' \in Nat
      /\ DeployClientLeft[client] \in Nat
      /\ Blocks \in Nat /\ sent \in Nat /\ QueuesOK(DeployRequests, DeployAnswers)
  <2>1. QueuesOK(DeployRequests, DeployAnswers)'
    BY DEF DeployIInv, DeployTypeOK, StreamTypeOK, QueuesOK
  <2> QED
    BY <2>1, DeployLeftNat, TransitNatNext
<1>1. CASE DeploySendImage \/ DeploySendEnd
  <2>1. PICK m \in DeployRequests : Send(m)
    BY <1>1 DEF DeploySendImage, DeploySendEnd, DeployRequests
  <2>2. InTransit' <= InTransit + 4 /\ half' = half
    BY <1>b, <2>1, TransitSent DEF Send
  <2>3. DeployClientLeft[client'] + 4 < DeployClientLeft[client] /\ sent' = sent
        /\ DeployClientLeft[client'] \in Nat
    BY <1>1 DEF DeploySendImage, DeploySendEnd, Goto, DeployClientLeft
  <2> QED
    BY <1>a, <1>b, <2>2, <2>3 DEF DeployLeft
<1>2. CASE DeploySendContent
  <2>1. InTransit' <= InTransit + 4 /\ half' = half
    BY <1>b, <1>2, TransitSent DEF DeploySendContent, DeployRequests, Send
  <2>2. DeployClientLeft[client'] = 7 /\ DeployClientLeft[client] = 6 /\ sent' = sent + 1
    BY <1>2 DEF DeploySendContent, Goto, DeployClientLeft
  <2> QED
    BY <1>a, <1>b, <2>1, <2>2 DEF DeployLeft
<1>3. CASE \/ DeployStartFails \/ DeployNotReady \/ DeployRead \/ DeployReadFails
           \/ DeploySendFails \/ DeploySucceeds \/ DeployFails \/ DeployReady
  <2>1. InTransit' <= InTransit /\ half' = half
    <3>1. (\E m : Recv(m)) \/ UNCHANGED channel
      BY <1>3 DEF DeployStartFails, DeployNotReady, DeployRead, DeployReadFails, DeployReady,
                  DeploySendFails, DeploySucceeds, DeployFails, SendFails, RecvEnded, RecvEOF,
                  RecvFails
    <3>2. ASSUME NEW m, Recv(m) PROVE InTransit' <= InTransit /\ half' = half
      BY <1>b, <3>2, TransitReceived DEF Recv
    <3>3. CASE UNCHANGED channel
      BY <1>b, <3>3, TransitStill DEF channel
    <3> QED
      BY <3>1, <3>2, <3>3
  <2>2. DeployClientLeft[client'] < DeployClientLeft[client] /\ sent' = sent
        /\ DeployClientLeft[client'] \in Nat
    <3>1. sent' = sent
      BY <1>3 DEF DeployStartFails, DeployNotReady, DeployRead, DeployReadFails, DeployReady,
                  DeploySendFails, DeploySucceeds, DeployFails
    <3>2. \/ client \in {"start", "ready", "reading", "sending", "end", "drain"}
             /\ client' = "returned"
          \/ client = "reading" /\ client' \in {"sending", "end"}
          \/ client = "ready" /\ client' = "reading"
      BY <1>3 DEF DeployStartFails, DeployNotReady, DeployRead, DeployReadFails, DeployReady,
                  DeploySendFails, DeploySucceeds, DeployFails, Goto, Return
    <3> QED
      BY <3>1, <3>2 DEF DeployClientLeft
  <2> QED
    BY <1>a, <1>b, <2>1, <2>2 DEF DeployLeft
<1>4. CASE DeployCloses
  <2>1. InTransit' = InTransit
    BY <1>b, <1>4, TransitStill DEF DeployCloses, CloseSend
  <2>2. UNCHANGED <<client, sent>> /\ ~half /\ half'
    BY <1>4 DEF DeployCloses, CloseSend, clientVars
  <2> QED
    BY <1>a, <1>b, <2>1, <2>2 DEF DeployLeft
<1>5. CASE DeployProgress
  <2>1. InTransit' = InTransit - 2
    BY <1>b, <1>5, TransitReceived DEF DeployProgress
  <2>2. UNCHANGED <<client, sent, half>>
    BY <1>5 DEF DeployProgress, clientVars, Recv
  <2> QED
    BY <1>a, <1>b, <2>1, <2>2 DEF DeployLeft
<1> QED
  BY <1>1, <1>2, <1>3, <1>4, <1>5 DEF DeployClientStep

LEMMA DeployNearerServer ==
    ASSUME DeployIInv, DeployIInv', DeployServerStep \/ DeployDevQuit \/ DeployBreak
    PROVE  DeployLeft' < DeployLeft
<1>a. UNCHANGED <<client, sent, half>>
  BY DEF DeployServerStep, DeployHandleImage, DeployHandleContent, DeployHandleEnd,
         MockHandleEOF, DeployAnswer, DeployServerReturn, DeployDevQuit, DeployBreak,
         DeployServer, clientVars, Break, Handle, HandleEOF, Answer, Finish, channel
<1>b. /\ DeployClientLeft[client] \in Nat /\ DeployServerLeft[server] \in Nat
      /\ InTransit \in Nat /\ InTransit' \in Nat
      /\ Blocks \in Nat /\ sent \in Nat /\ QueuesOK(DeployRequests, DeployAnswers)
  <2>1. QueuesOK(DeployRequests, DeployAnswers)'
    BY DEF DeployIInv, DeployTypeOK, StreamTypeOK, QueuesOK
  <2> QED
    BY <2>1, DeployLeftNat, TransitNatNext
<1>1. CASE DeployHandleImage \/ DeployHandleContent \/ DeployHandleEnd
  <2>1. PICK m \in DeployRequests : Handle(m)
    BY <1>1 DEF DeployHandleImage, DeployHandleContent, DeployHandleEnd, DeployRequests
  <2>2. InTransit' = InTransit - 4
    BY <1>b, <2>1, TransitHandled
  <2>3. /\ server \in {"start", "content"}
        /\ server' \in {"ready", "failing", "content", "progress", "succeeding"}
    BY <1>1 DEF DeployHandleImage, DeployHandleContent, DeployHandleEnd
  <2>4. DeployServerLeft[server'] <= DeployServerLeft[server] + 3
        /\ DeployServerLeft[server'] \in Nat
    BY <2>3 DEF DeployServerLeft
  <2> QED
    BY <1>a, <1>b, <2>2, <2>4 DEF DeployLeft
<1>2. CASE MockHandleEOF
  <2>1. InTransit' = InTransit
    BY <1>b, <1>2, TransitStill DEF MockHandleEOF, channel
  <2>2. DeployServerLeft[server'] = 3 /\ DeployServerLeft[server] = 4
    BY <1>2 DEF MockHandleEOF, DeployServerLeft
  <2> QED
    BY <1>a, <1>b, <2>1, <2>2 DEF DeployLeft
<1>3. CASE DeployAnswer
  <2>1. PICK m \in DeployAnswers : Answer(m)
    BY <1>3 DEF DeployAnswer, DeployAnswers
  <2>2. InTransit' = InTransit + 2
    BY <1>b, <2>1, TransitAnswered
  <2>3. DeployServerLeft[server'] + 3 = DeployServerLeft[server]
        /\ DeployServerLeft[server'] \in Nat
    BY <1>3 DEF DeployAnswer, DeployServerLeft
  <2> QED
    BY <1>a, <1>b, <2>2, <2>3 DEF DeployLeft
<1>4. CASE DeployServerReturn \/ DeployDevQuit
  <2>1. PICK s \in {"ok", "error"} : Finish(s)
    BY <1>4 DEF DeployServerReturn, DeployDevQuit
  <2>2. InTransit' = InTransit - 1
    BY <1>b, <2>1, TransitFinished
  <2>3. DeployServerLeft[server'] <= DeployServerLeft[server] /\ DeployServerLeft[server'] \in Nat
    BY <1>b, <1>4 DEF DeployServerReturn, DeployDevQuit, serverVars, DeployServerLeft
  <2> QED
    BY <1>a, <1>b, <2>2, <2>3 DEF DeployLeft
<1>5. CASE DeployBreak
  <2>1. Break /\ server' = server
    BY <1>5 DEF DeployBreak, Break, serverVars
  <2>2. InTransit' <= InTransit - 1
    BY <1>b, <2>1, TransitBroken
  <2> QED
    BY <1>a, <1>b, <2>1, <2>2 DEF DeployLeft
<1> QED
  BY <1>1, <1>2, <1>3, <1>4, <1>5 DEF DeployServerStep

\* A deployment takes a bounded number of steps, for every size of the image and of the
\* windows, with each of its servers: what a client that waits forever is waiting for is
\* a server that waits too, never one that is still busy.
THEOREM DeploysAreBounded == DeploySpec => DeployIsBounded
<1> DEFINE Bound == DeployLeft \in 0..(6 * Blocks + 19)
<1>1. DeployInit => DeployLeft = 6 * Blocks + 19
  <2> SUFFICES ASSUME DeployInit PROVE DeployLeft = 6 * Blocks + 19
    OBVIOUS
  <2>1. Len(up) = 0 /\ Len(down) = 0 /\ Serving /\ sent = 0 /\ ~half
    BY EmptySeq DEF DeployInit, StreamInit, StreamOpens, Serving
  <2>2. DeployClientLeft[client] = 13 /\ DeployServerLeft[server] = 4
    BY DEF DeployInit, StreamInit, StreamOpens, DeployClientLeft, DeployServerLeft
  <2> QED
    BY <2>1, <2>2, StreamAssumption DEF DeployLeft, InTransit
<1>2. DeployInit => DeployIInv /\ Bound
  BY <1>1, DeployInitInv, StreamAssumption
<1>3. DeployIInv /\ [DeployNext]_streamVars => DeployIInv'
  BY DeployInvNext
<1>4. ASSUME DeployIInv, DeployNext PROVE DeployLeft' < DeployLeft
  <2>1. DeployIInv'
    BY <1>3, <1>4
  <2> QED
    BY <1>4, <2>1, DeployNearerClient, DeployNearerServer DEF DeployNext
<1>5. DeployIInv => DeployLeft \in Nat
  BY DeployLeftNat
<1>6. UNCHANGED streamVars => DeployLeft' = DeployLeft
  BY DEF streamVars, channel, clientVars, serverVars, DeployLeft, InTransit, Serving
<1>7. ASSUME DeployIInv' PROVE DeployLeft' \in Nat
  <2>1. InTransit' \in Nat
    <3>1. QueuesOK(DeployRequests, DeployAnswers)'
      BY <1>7 DEF DeployIInv, DeployTypeOK, StreamTypeOK, QueuesOK
    <3> QED
      BY <3>1, TransitNatNext
  <2>2. DeployClientLeft[client'] \in Nat /\ DeployServerLeft[server'] \in Nat /\ sent' \in 0..Blocks
    BY <1>7 DEF DeployIInv, DeployTypeOK, StreamTypeOK, DeployClientLeft, DeployServerLeft
  <2> QED
    BY <2>1, <2>2, StreamAssumption DEF DeployLeft
<1>8. DeployIInv /\ Bound /\ [DeployNext]_streamVars => DeployIInv' /\ Bound'
  <2> SUFFICES ASSUME DeployIInv, Bound, [DeployNext]_streamVars PROVE DeployIInv' /\ Bound'
    OBVIOUS
  <2>1. DeployIInv' /\ DeployLeft' \in Nat
    BY <1>3, <1>7
  <2>2. DeployLeft' <= DeployLeft
    BY <2>1, <1>4, <1>5, <1>6
  <2> QED
    BY <2>1, <2>2, StreamAssumption
<1>9. DeployIInv /\ [DeployNext]_streamVars => [DeployLeft' < DeployLeft]_streamVars
  BY <1>4
<1> QED
  BY <1>2, <1>8, <1>9, PTL DEF DeploySpec, DeployIsBounded
=============================================================================
