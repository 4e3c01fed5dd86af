---------------------------- MODULE FileClientProofs ----------------------------
(***************************************************************************)
(* Proofs about the commands that move files: the uploads of module Upload *)
(* (file put, set-package), for files of any size; the downloads of module *)
(* Download (file get, healthz artifact), for any number of targets; and   *)
(* the recursive commands of module FileTree, for a tree of any depth.     *)
(***************************************************************************)
EXTENDS Upload, Download, FileTree, StreamProofs, FiniteSetTheorems

USE DEF Uploads, SetPackages

-----------------------------------------------------------------------------
HashSent == (Chunked(rpc) => sent = Blocks) /\ client \in {"close", "wait", "returned"}

\* The inductive invariant.  The hash is sent after the last block that is read, the handler
\* has it only then, and stores what it has got: all that was sent.
UploadClientInv ==
    /\ client = "sending" => sent < Blocks
    /\ client \in {"hash", "close", "wait"} /\ Chunked(rpc) => sent = Blocks
    /\ verdict = "nil" => server = "answered"
UploadChannelInv ==
    Serving =>
        /\ InFlight("Header", "Hash")
        /\ client = "start" => up = <<>> /\ server = "start"
        /\ server = "start" /\ client \notin {"start", "returned"} => up # <<>>
        /\ \A i \in 1..Len(up) : up[i] = "Hash" => HashSent
UploadServerInv ==
    /\ got <= sent
    /\ server \in {"hashed", "stored", "answered"} => HashSent
    /\ server \in {"stored", "answered"} => got = sent
    /\ down # <<>> => server = "answered"
UploadIInv == /\ rpc \in Uploads /\ UploadTypeOK
              /\ UploadClientInv /\ UploadChannelInv /\ UploadServerInv

LEMMA UploadInitInv == UploadInit => UploadIInv
<1> SUFFICES ASSUME UploadInit PROVE UploadIInv
  OBVIOUS
<1> USE DEF UploadInit, StreamInit, StreamOpens
<1>1. UploadTypeOK
  <2>1. up \in Seq(UploadRequests) /\ down \in Seq({"Response"}) /\ Len(up) = 0 /\ Len(down) = 0
    BY EmptySeq
  <2>2. 0 \in 0..Blocks /\ 0 <= UpWindow /\ 0 <= DownWindow
    BY StreamAssumption
  <2>3. rpc \in RPCs /\ half \in BOOLEAN /\ ended = "open" /\ client = "start"
        /\ verdict = "none" /\ sent = 0 /\ got = 0 /\ server = "start"
    OBVIOUS
  <2> QED
    BY <2>1, <2>2, <2>3 DEF UploadTypeOK, StreamTypeOK
<1>2. UploadChannelInv
  BY DEF UploadChannelInv, InFlight, Serving
<1> QED
  BY <1>1, <1>2, StreamAssumption DEF UploadIInv, UploadClientInv, UploadServerInv

\* What the lemmas about the channel ask for.
LEMMA UploadChannelOK == UploadIInv => ChannelOK(UploadRequests)
BY StreamAssumption DEF UploadIInv, UploadTypeOK, StreamTypeOK, ChannelOK

LEMMA UploadClientNext ==
    ASSUME NEW r \in Uploads, UploadIInv, UploadClientStep(r)
    PROVE  UploadIInv'
<1> USE StreamAssumption DEF UploadRequests
<1>a. ChannelOK(UploadRequests)
  BY UploadChannelOK
<1>b. rpc = r /\ rpc' = rpc /\ server' = server /\ got' = got
  BY DEF UploadClientStep, UploadHeader, UploadRead, UploadContents, UploadHash,
         UploadClose, UploadAnswered, UploadFails, Uploading, serverVars
<1>1. CASE UploadHeader(r)
  <2> USE <1>1 DEF UploadHeader, Goto
  <2>1. CASE Serving
    <3>1. up = <<>> /\ server = "start" /\ InFlight("Header", "Hash")
      BY <2>1 DEF UploadIInv, UploadChannelInv
    <3>2. ChannelOK(UploadRequests)' /\ InFlight("Header", "Hash")'
      BY <1>a, <1>b, <2>1, <3>1, FirstSent
    <3>3. up' = <<"Header">>
      BY <2>1, <3>1 DEF Send, Serving
    <3>4. UploadTypeOK'
      BY <1>b, <3>2 DEF UploadIInv, UploadTypeOK, StreamTypeOK, ChannelOK, Send
    <3> QED
      BY <1>b, <3>1, <3>2, <3>3, <3>4
      DEF UploadIInv, UploadClientInv, UploadChannelInv, UploadServerInv, HashSent, Serving, Send
  <2>2. CASE ~Serving
    BY <1>b, <2>2
    DEF UploadIInv, UploadClientInv, UploadChannelInv, UploadServerInv, HashSent, Serving, Send,
        UploadTypeOK, StreamTypeOK
  <2> QED
    BY <2>1, <2>2
<1>2. CASE UploadContents(r)
  <2> USE <1>2 DEF UploadContents, Goto
  <2>1. sent < Blocks /\ sent \in Nat
    BY DEF UploadIInv, UploadClientInv, UploadTypeOK, StreamTypeOK
  <2>2. CASE Serving
    <3>1. /\ InFlight("Header", "Hash")
          /\ server = "start" => up # <<>>
          /\ \A i \in 1..Len(up) : up[i] # "Hash"
      BY <2>2 DEF UploadIInv, UploadChannelInv, HashSent
    <3>2. ChannelOK(UploadRequests)' /\ InFlight("Header", "Hash")'
      BY <1>a, <1>b, <2>2, <3>1, BlockSent
    <3>3. /\ up' # <<>>
          /\ \A i \in 1..Len(up') : up'[i] # "Hash"
      BY <1>a, <2>2, <3>1 DEF Send, Serving, ChannelOK
    <3>4. UploadTypeOK'
      BY <1>b, <2>1, <3>2 DEF UploadIInv, UploadTypeOK, StreamTypeOK, ChannelOK, Send
    <3> QED
      BY <1>b, <2>1, <3>1, <3>2, <3>3, <3>4
      DEF UploadIInv, UploadClientInv, UploadChannelInv, UploadServerInv, HashSent, Serving, Send, ChannelOK
  <2>3. CASE ~Serving
    BY <1>b, <2>1, <2>3
    DEF UploadIInv, UploadClientInv, UploadChannelInv, UploadServerInv, HashSent, Serving, Send,
        UploadTypeOK, StreamTypeOK
  <2> QED
    BY <2>2, <2>3
<1>3. CASE UploadHash(r)
  <2> USE <1>3 DEF UploadHash, Goto
  <2>1. Chunked(rpc) => sent = Blocks
    BY DEF UploadIInv, UploadClientInv
  <2>2. CASE Serving
    <3>1. /\ InFlight("Header", "Hash")
          /\ server = "start" => up # <<>>
          /\ \A i \in 1..Len(up) : up[i] # "Hash"
      BY <2>2 DEF UploadIInv, UploadChannelInv, HashSent
    <3>2. ChannelOK(UploadRequests)' /\ InFlight("Header", "Hash")'
      BY <1>a, <1>b, <2>2, <3>1, LastSent
    <3>3. up' # <<>>
      BY <1>a, <2>2 DEF Send, Serving, ChannelOK
    <3>4. UploadTypeOK'
      BY <1>b, <3>2 DEF UploadIInv, UploadTypeOK, StreamTypeOK, ChannelOK, Send
    <3> QED
      BY <1>b, <2>1, <3>1, <3>2, <3>3, <3>4
      DEF UploadIInv, UploadClientInv, UploadChannelInv, UploadServerInv, HashSent, Serving, Send, ChannelOK
  <2>3. CASE ~Serving
    BY <1>b, <2>1, <2>3
    DEF UploadIInv, UploadClientInv, UploadChannelInv, UploadServerInv, HashSent, Serving, Send,
        UploadTypeOK, StreamTypeOK
  <2> QED
    BY <2>2, <2>3
<1>4. CASE UploadRead(r) \/ UploadClose(r) \/ UploadAnswered(r) \/ UploadFails(r)
  <2>1. UNCHANGED <<up, ended, sent>>
    BY <1>4 DEF UploadRead, UploadClose, UploadAnswered, UploadFails, CloseSend,
                Recv, RecvEnded, RecvEOF, RecvFails, SendFails, channel
  <2>2. UploadTypeOK'
    <3>1. down' \in Seq({"Response"}) /\ Len(down') <= DownWindow
      <4>1. down \in Seq({"Response"}) /\ Len(down) <= DownWindow
        BY DEF UploadIInv, UploadTypeOK, StreamTypeOK
      <4>2. down' = down \/ Recv("Response")
        BY <1>4 DEF UploadRead, UploadClose, UploadAnswered, UploadFails, CloseSend,
                    RecvEnded, RecvEOF, RecvFails, SendFails, channel
      <4> QED
        BY <4>1, <4>2, AnswerReceived
    <3>2. half' \in BOOLEAN
      BY <1>4 DEF UploadRead, UploadClose, UploadAnswered, UploadFails, CloseSend,
                Recv, RecvEnded, RecvEOF, RecvFails, SendFails, channel,
                UploadIInv, UploadTypeOK, StreamTypeOK
    <3>3. /\ client' \in {"reading", "sending", "hash", "close", "wait", "start", "returned"}
          /\ verdict' \in {"none", "nil", "error"}
      BY <1>4 DEF UploadRead, UploadClose, UploadAnswered, UploadFails, Goto, Return,
                UploadIInv, UploadTypeOK, StreamTypeOK
    <3> QED
      BY <1>b, <2>1, <3>1, <3>2, <3>3 DEF UploadIInv, UploadTypeOK, StreamTypeOK
  <2>3. UploadClientInv'
    BY <1>4, <1>b, <2>1
    DEF UploadRead, UploadClose, UploadAnswered, UploadFails, Goto, Return, Recv,
        UploadIInv, UploadClientInv, UploadServerInv, UploadTypeOK, StreamTypeOK
  <2>4. /\ client # "start" \/ client' # "start" => client' # "start"
        /\ HashSent => HashSent'
        /\ client' \notin {"start", "returned"} => client \notin {"start", "returned"}
    BY <1>4, <1>b, <2>1
    DEF UploadRead, UploadClose, UploadAnswered, UploadFails, Goto, Return, HashSent
  <2>5. UploadChannelInv'
    BY <1>4, <1>b, <2>1, <2>4 DEF UploadIInv, UploadChannelInv, InFlight, Serving
  <2>6. UploadServerInv'
    BY <1>4, <1>b, <2>1, <2>4
    DEF UploadRead, UploadClose, UploadAnswered, UploadFails, CloseSend,
        Recv, RecvEnded, RecvEOF, RecvFails, SendFails, channel,
        UploadIInv, UploadServerInv
  <2> QED
    BY <1>b, <2>2, <2>3, <2>5, <2>6 DEF UploadIInv
<1> QED
  BY <1>1, <1>2, <1>3, <1>4 DEF UploadClientStep

LEMMA UploadServerNext ==
    ASSUME NEW r \in Uploads, UploadIInv, UploadServerStep(r)
    PROVE  UploadIInv'
<1> USE StreamAssumption DEF UploadRequests
<1>a. ChannelOK(UploadRequests)
  BY UploadChannelOK
<1>b. rpc = r /\ UNCHANGED <<rpc, client, verdict, sent>>
  BY DEF UploadServerStep, UploadReceive, UploadStore, UploadAnswer, UploadReturn,
         UploadServer, clientVars
<1>c. down \in Seq({"Response"}) /\ Len(down) <= DownWindow /\ got <= Blocks
  BY DEF UploadIInv, UploadTypeOK, StreamTypeOK
<1>1. CASE UploadReceive(r)
  <2>1. PICK m \in UploadRequests :
            /\ Handle(m)
            /\ \/ m = "Header" /\ server = "start" /\ server' = "contents" /\ got' = got
               \/ m = "Contents" /\ server = "contents" /\ server' = "contents" /\ got' = got + 1
               \/ m = "Hash" /\ server = "contents" /\ server' = "hashed" /\ got' = got
    BY <1>1 DEF UploadReceive
  <2>2. Serving /\ InFlight("Header", "Hash")
    BY <2>1 DEF Handle, UploadIInv, UploadChannelInv
  <2>3. /\ ChannelOK(UploadRequests)' /\ InFlight("Header", "Hash")'
        /\ got' <= sent
        /\ m = "Hash" => got = sent
    <3>1. CASE m = "Header"
      BY <1>a, <1>b, <2>1, <2>2, <3>1, FirstHandled DEF UploadIInv, UploadServerInv
    <3>2. CASE m = "Contents"
      BY <1>a, <1>b, <2>1, <2>2, <3>2, BlockHandled
    <3>3. CASE m = "Hash"
      BY <1>a, <1>b, <2>1, <2>2, <3>3, LastHandled DEF UploadIInv, UploadServerInv
    <3> QED
      BY <3>1, <3>2, <3>3
  <2>4. /\ Len(up') = Len(up) - 1 /\ Len(up) > 0 /\ Len(up) \in Nat
        /\ \A i \in 1..Len(up') : up'[i] = up[i + 1]
        /\ up[1] = m
    BY <1>a, <2>1, HeadTaken, LenProperties DEF ChannelOK
  <2>5. UNCHANGED <<down, half, ended>>
    BY <2>1 DEF Handle
  <2>6. \A i \in 1..Len(up') : up'[i] = "Hash" => HashSent
    <3>1. \A i \in 1..Len(up) : up[i] = "Hash" => HashSent
      BY <2>2 DEF UploadIInv, UploadChannelInv
    <3>2. \A i \in 1..Len(up') : i + 1 \in 1..Len(up)
      BY <2>4
    <3> QED
      BY <2>4, <3>1, <3>2
  <2>7. m = "Hash" => HashSent
    <3>1. 1 \in 1..Len(up)
      BY <2>4
    <3> QED
      BY <2>2, <2>4, <3>1 DEF UploadIInv, UploadChannelInv
  <2>8. up # <<>>
    BY <2>1 DEF Handle
  <2>9. UploadTypeOK'
    BY <1>b, <2>1, <2>3, <2>5 DEF UploadIInv, UploadTypeOK, StreamTypeOK, ChannelOK
  <2>10. UploadChannelInv'
    BY <1>b, <2>1, <2>2, <2>3, <2>5, <2>6, <2>8
    DEF UploadIInv, UploadChannelInv, Serving, HashSent
  <2>11. UploadServerInv' /\ UploadClientInv'
    BY <1>b, <2>1, <2>3, <2>5, <2>7
    DEF UploadIInv, UploadServerInv, UploadClientInv, HashSent
  <2> QED
    BY <1>b, <2>9, <2>10, <2>11 DEF UploadIInv
<1>2. CASE UploadStore(r)
  <2>1. /\ server = "hashed" /\ server' = "stored" /\ got = sent /\ got' = got
        /\ UNCHANGED <<up, down, half, ended>>
    BY <1>2 DEF UploadStore, channel
  <2>2. HashSent
    BY <2>1 DEF UploadIInv, UploadServerInv
  <2>3. UploadTypeOK'
    BY <1>b, <2>1 DEF UploadIInv, UploadTypeOK, StreamTypeOK
  <2> QED
    BY <1>b, <2>1, <2>2, <2>3
    DEF UploadIInv, UploadClientInv, UploadChannelInv, UploadServerInv, InFlight, HashSent, Serving
<1>3. CASE UploadAnswer(r)
  <2>1. server = "stored" /\ server' = "answered" /\ got' = got /\ Answer("Response")
    BY <1>3 DEF UploadAnswer
  <2>2. /\ down' \in Seq({"Response"}) /\ Len(down') <= DownWindow
        /\ UNCHANGED <<up, half, ended>>
    BY <1>c, <2>1, AnswerSent
  <2>3. UploadTypeOK'
    BY <1>b, <2>1, <2>2 DEF UploadIInv, UploadTypeOK, StreamTypeOK
  <2> QED
    BY <1>b, <2>1, <2>2, <2>3
    DEF UploadIInv, UploadClientInv, UploadChannelInv, UploadServerInv, InFlight, HashSent, Serving
<1>4. CASE UploadReturn(r)
  <2>1. /\ ended' = "ok" /\ UNCHANGED <<up, down, half, server, got>>
    BY <1>4 DEF UploadReturn, Finish, serverVars
  <2>2. UploadTypeOK'
    BY <1>b, <2>1 DEF UploadIInv, UploadTypeOK, StreamTypeOK
  <2> QED
    BY <1>b, <2>1, <2>2
    DEF UploadIInv, UploadClientInv, UploadChannelInv, UploadServerInv, HashSent, Serving
<1> QED
  BY <1>1, <1>2, <1>3, <1>4 DEF UploadServerStep

LEMMA UploadBreakNext ==
    ASSUME UploadIInv, Break
    PROVE  UploadIInv'
<1>1. down \in Seq({"Response"}) /\ Len(down) <= DownWindow
  BY DEF UploadIInv, UploadTypeOK, StreamTypeOK
<1>2. /\ down' \in Seq({"Response"}) /\ Len(down') <= DownWindow
      /\ down' # <<>> => down # <<>>
      /\ Serving /\ ended' = "error"
      /\ UNCHANGED <<rpc, up, half, client, verdict, sent, server, got>>
  BY <1>1, BrokenOff, LenProperties, StreamAssumption
<1>3. UploadTypeOK'
  BY <1>2 DEF UploadIInv, UploadTypeOK, StreamTypeOK
<1> QED
  BY <1>2, <1>3
  DEF UploadIInv, UploadClientInv, UploadChannelInv, UploadServerInv, HashSent, Serving

LEMMA UploadInvNext == UploadIInv /\ [UploadNext]_streamVars => UploadIInv'
<1> SUFFICES ASSUME UploadIInv, [UploadNext]_streamVars PROVE UploadIInv'
  OBVIOUS
<1>1. CASE UploadNext
  <2>1. PICK r \in Uploads : UploadClientStep(r) \/ UploadServerStep(r) \/ Break
    BY <1>1 DEF UploadNext, filePutStep, sendSysPackageStep, UploadBreak, Uploads
  <2> QED
    BY <2>1, UploadClientNext, UploadServerNext, UploadBreakNext
<1>2. CASE UNCHANGED streamVars
  BY <1>2 DEF streamVars, channel, clientVars, serverVars, UploadIInv, UploadTypeOK, StreamTypeOK,
              UploadClientInv, UploadChannelInv, UploadServerInv, HashSent, InFlight, Serving
<1> QED
  BY <1>1, <1>2

LEMMA UploadInductive == UploadSpec => []UploadIInv
BY UploadInvNext, UploadInitInv, PTL DEF UploadSpec

\* An upload of a file of any number of blocks keeps to the states, the requests
\* and the windows that UploadTypeOK lists.
THEOREM UploadTypeCorrect == UploadSpec => []UploadTypeOK
<1>1. UploadIInv => UploadTypeOK
  BY DEF UploadIInv
<1> QED
  BY <1>1, UploadInductive, PTL

\* `gnoic file put` and `gnoic system set-package` succeed only when the server stored
\* all that was sent, and that is every block of the file unless the chunk size is 0,
\* whatever the size of the file and the windows.
THEOREM UploadsAreStored == UploadSpec => []UploadSuccessIsStored
<1>1. UploadIInv => UploadSuccessIsStored
  BY DEF UploadIInv, UploadClientInv, UploadServerInv, HashSent, UploadSuccessIsStored
<1> QED
  BY <1>1, UploadInductive, PTL

\* That an upload does not leave both sides waiting.  Until the server has the hash
\* it has something to receive once the client sent all; when it has the hash it has
\* everything; and a client that waits for the answer has closed its side.
UploadWaitInv ==
    Serving =>
        /\ client = "wait" => half
        /\ client \in {"close", "wait"} /\ server \in {"start", "contents"} =>
               up # <<>> /\ up[Len(up)] = "Hash"
        /\ server \in {"hashed", "stored", "answered"} => up = <<>> /\ got = sent

LEMMA UploadWaitInit == UploadInit => UploadWaitInv
BY DEF UploadInit, StreamInit, StreamOpens, UploadWaitInv

LEMMA UploadWaitClient ==
    ASSUME NEW r \in Uploads, UploadIInv, UploadWaitInv, UploadClientStep(r)
    PROVE  UploadWaitInv'
<1> SUFFICES ASSUME Serving' PROVE UploadWaitInv'
  BY DEF UploadWaitInv
<1>1. UNCHANGED <<server, got, ended>> /\ Serving
  BY DEF UploadClientStep, UploadHeader, UploadRead, UploadContents, UploadHash, UploadClose,
         UploadAnswered, UploadFails, Uploading, serverVars, Send, Recv, CloseSend, SendFails,
         RecvEnded, RecvEOF, RecvFails, channel, Serving
<1>2. /\ client = "wait" => half
      /\ client \in {"close", "wait"} /\ server \in {"start", "contents"} =>
             up # <<>> /\ up[Len(up)] = "Hash"
      /\ server \in {"hashed", "stored", "answered"} => up = <<>> /\ got = sent /\ HashSent
  BY <1>1 DEF UploadWaitInv, UploadIInv, UploadServerInv
<1>3. CASE UploadHeader(r) \/ UploadContents(r)
  <2>1. client \in {"start", "sending"} /\ client' = "reading"
    BY <1>3 DEF UploadHeader, UploadContents, Goto
  <2> QED
    BY <1>1, <1>2, <2>1 DEF UploadWaitInv, HashSent
<1>4. CASE UploadHash(r)
  <2>1. client = "hash" /\ client' = "close" /\ Send("Hash")
    BY <1>4 DEF UploadHash, Goto
  <2>2. up' # <<>> /\ up'[Len(up')] = "Hash"
    BY <1>1, <2>1, UploadChannelOK DEF Send, Serving, ChannelOK
  <2> QED
    BY <1>1, <1>2, <2>1, <2>2 DEF UploadWaitInv, HashSent
<1>5. CASE UploadClose(r)
  <2>1. client = "close" /\ client' = "wait" /\ half' = TRUE /\ UNCHANGED <<up, sent>>
    BY <1>5 DEF UploadClose, Goto, CloseSend
  <2> QED
    BY <1>1, <1>2, <2>1 DEF UploadWaitInv
<1>6. CASE UploadRead(r)
  <2>1. client = "reading" /\ client' \in {"sending", "hash"}
    BY <1>6 DEF UploadRead, Goto
  <2> QED
    BY <1>1, <1>2, <2>1 DEF UploadWaitInv, HashSent
<1>7. CASE UploadAnswered(r) \/ UploadFails(r)
  <2>1. client' = "returned" /\ UNCHANGED <<up, sent>>
    BY <1>7 DEF UploadAnswered, UploadFails, Return, Recv, RecvEnded, RecvEOF, RecvFails,
                SendFails, channel
  <2> QED
    BY <1>1, <1>2, <2>1 DEF UploadWaitInv
<1> QED
  BY <1>3, <1>4, <1>5, <1>6, <1>7 DEF UploadClientStep

LEMMA UploadWaitServer ==
    ASSUME NEW r \in Uploads, UploadIInv, UploadWaitInv, UploadServerStep(r)
    PROVE  UploadWaitInv'
<1> SUFFICES ASSUME Serving' PROVE UploadWaitInv'
  BY DEF UploadWaitInv
<1>1. CASE UploadReceive(r)
  <2>1. PICK m \in UploadRequests :
            /\ Handle(m)
            /\ \/ m = "Header" /\ server = "start" /\ server' = "contents" /\ got' = got
               \/ m = "Contents" /\ server = "contents" /\ server' = "contents" /\ got' = got + 1
               \/ m = "Hash" /\ server = "contents" /\ server' = "hashed" /\ got' = got
    BY <1>1 DEF UploadReceive, UploadRequests
  <2>2. UNCHANGED <<client, sent, half>> /\ Serving
    BY <1>1, <2>1 DEF UploadReceive, UploadServer, clientVars, Handle
  <2>3. CASE m = "Hash"
    <3>1. InFlight("Header", "Hash") /\ server # "start"
      BY <2>1, <2>2, <2>3 DEF UploadIInv, UploadChannelInv
    <3>2. up' = <<>> /\ got = sent
      BY <2>1, <2>2, <2>3, <3>1, UploadChannelOK, LastHandled DEF UploadRequests
    <3> QED
      BY <2>1, <2>2, <2>3, <3>2 DEF UploadWaitInv
  <2>4. CASE m # "Hash"
    <3>1. up[Len(up)] = "Hash" => up' # <<>> /\ up'[Len(up')] = "Hash"
      BY <2>1, <2>4, UploadChannelOK, LastStays
    <3> QED
      BY <2>1, <2>2, <2>4, <3>1 DEF UploadWaitInv
  <2> QED
    BY <2>3, <2>4
<1>2. CASE UploadStore(r) \/ UploadAnswer(r) \/ UploadReturn(r)
  <2>1. /\ UNCHANGED <<client, sent, got, up, half>> /\ Serving
        /\ server \in {"hashed", "stored"} /\ server' \in {"stored", "answered"}
    BY <1>2 DEF UploadStore, UploadAnswer, UploadReturn, UploadServer, clientVars, channel,
                Answer, Finish, Serving
  <2> QED
    BY <2>1 DEF UploadWaitInv
<1> QED
  BY <1>1, <1>2 DEF UploadServerStep

\* An upload of a file of any number of blocks, over any windows, never leaves the
\* client and the server waiting for each other, also where the server waits for the
\* end of the client's side before it answers.
THEOREM UploadNeverWaitsForever == UploadSpec => []UploadNeverStuck
<1>1. UploadIInv /\ UploadWaitInv => UploadNeverStuck
  <2> SUFFICES ASSUME UploadIInv, UploadWaitInv, Serving, UploadClientWaits, UploadServerWaits
               PROVE  FALSE
    BY DEF UploadNeverStuck, UploadStuck
  <2>1. /\ server = "start" /\ client \notin {"start", "returned"} => up # <<>>
        /\ server \in {"hashed", "stored", "answered"} => HashSent
    BY DEF UploadIInv, UploadChannelInv, UploadServerInv
  <2>2. CASE client = "wait" /\ down = <<>>
    <3>1. ~(server = "stored" /\ Len(down) = DownWindow)
      BY <2>2, StreamAssumption, EmptySeq
    <3> QED
      BY <2>2, <3>1 DEF UploadServerWaits, UploadWaitInv
  <2>3. CASE client \in {"sending", "hash"} /\ Len(up) = UpWindow
    <3>1. up # <<>>
      BY <2>3, StreamAssumption, EmptySeq
    <3> QED
      BY <2>1, <2>3, <3>1 DEF UploadServerWaits, HashSent
  <2> QED
    BY <2>2, <2>3 DEF UploadClientWaits
<1>2. UploadIInv /\ UploadWaitInv /\ [UploadNext]_streamVars => UploadWaitInv'
  <2> SUFFICES ASSUME UploadIInv, UploadWaitInv, [UploadNext]_streamVars PROVE UploadWaitInv'
    OBVIOUS
  <2>1. CASE UploadNext
    <3>1. PICK r \in Uploads : UploadClientStep(r) \/ UploadServerStep(r) \/ UploadBreak(r)
      BY <2>1 DEF UploadNext, filePutStep, sendSysPackageStep, Uploads
    <3>2. CASE UploadBreak(r)
      BY <3>2 DEF UploadBreak, Break, UploadWaitInv, Serving
    <3> QED
      BY <3>1, <3>2, UploadWaitClient, UploadWaitServer
  <2>2. CASE UNCHANGED streamVars
    BY <2>2 DEF streamVars, channel, clientVars, serverVars, UploadWaitInv, Serving
  <2> QED
    BY <2>1, <2>2
<1> QED
  BY <1>1, <1>2, UploadInductive, UploadWaitInit, PTL DEF UploadSpec

-----------------------------------------------------------------------------
\* The inductive invariant: a local file is created and written only with a whole,
\* verified file in memory, and is empty in between if no other target has it.
DlShape ==
    /\ download # "none" /\ prefix \in BOOLEAN
    /\ size \in [DlTargets -> Nat] /\ buf \in [DlTargets -> Nat]
    /\ dlPC \in [DlTargets -> {"start", "header", "recv", "create", "write", "returned"}]
    /\ saved \in [DlTargets -> {"none", "nil", "error"}]
    /\ unsaved \in [DlTargets -> BOOLEAN]
    /\ DOMAIN disk = Locals
DlWhole ==
    \A t \in DlTargets : dlPC[t] \in {"create", "write"} => buf[t] = size[t]
DlOwn ==
    prefix =>
        \A t \in DlTargets : /\ dlPC[t] = "write" => disk[t] = <<>>
                             /\ saved[t] # "none" => dlPC[t] = "returned"
                             /\ saved[t] = "nil" /\ ~unsaved[t] =>
                                    disk[t] = Content(t, size[t])
DlIInv == DlShape /\ DlWhole /\ DlOwn /\ DownloadKeepsCopy

LEMMA DlInitInv == DlInit => DlIInv
<1> SUFFICES ASSUME DlInit PROVE DlIInv
  OBVIOUS
<1>1. DlShape
  BY DlAssumption DEF DlInit, DlShape
<1> QED
  BY <1>1 DEF DlInit, DlIInv, DlWhole, DlOwn, DownloadKeepsCopy

\* A target whose local file is not written waits, receives, or returns.
LEMMA DlUnwrittenNext ==
    ASSUME DlIInv, NEW t \in DlTargets,
           UNCHANGED <<download, prefix, size, disk>>,
           dlPC[t] \in {"start", "header", "recv", "create"},
           \/ /\ UNCHANGED <<dlPC, saved, unsaved, buf>>
           \/ /\ \E s \in {"header", "recv"} : dlPC' = [dlPC EXCEPT ![t] = s]
              /\ buf' \in [DlTargets -> Nat] /\ \A u \in DlTargets \ {t} : buf'[u] = buf[u]
              /\ UNCHANGED <<saved, unsaved>>
           \/ /\ dlPC' = [dlPC EXCEPT ![t] = "create"] /\ buf[t] = size[t]
              /\ UNCHANGED <<saved, unsaved, buf>>
           \/ /\ dlPC' = [dlPC EXCEPT ![t] = "returned"] /\ buf' = buf
              /\ \/ /\ saved' = [saved EXCEPT ![t] = "nil"]
                    /\ unsaved' = [unsaved EXCEPT ![t] = TRUE]
                 \/ /\ saved' = [saved EXCEPT ![t] = "error"]
                    /\ unsaved' = [unsaved EXCEPT ![t] = FALSE]
    PROVE  DlIInv'
<1> USE DEF DlIInv, DlShape
<1>1. DlShape'
  OBVIOUS
<1>2. DlWhole'
  BY DEF DlWhole
<1>3. DlOwn'
  BY DEF DlOwn, Content
<1>4. DownloadKeepsCopy'
  <2>1. \A u \in DlTargets : dlPC[u] \in {"write", "returned"} =>
            dlPC'[u] = dlPC[u] /\ buf'[u] = buf[u]
    OBVIOUS
  <2>2. ASSUME NEW f \in Locals, disk[f] # Old
        PROVE  \E u \in DlTargets : /\ Local(u)' = f
                                    /\ dlPC'[u] \in {"write", "returned"}
                                    /\ buf'[u] = size'[u]
    <3>1. PICK u \in DlTargets : /\ Local(u) = f
                                 /\ dlPC[u] \in {"write", "returned"}
                                 /\ buf[u] = size[u]
      BY <2>2 DEF DownloadKeepsCopy
    <3> QED
      BY <2>1, <3>1 DEF Local
  <2> QED
    BY <2>2 DEF DownloadKeepsCopy, Locals, Old
<1> QED
  BY <1>1, <1>2, <1>3, <1>4

\* The local file is created, or written.
LEMMA DlWrittenNext ==
    ASSUME DlIInv, NEW t \in DlTargets, DlCreate(t) \/ DlWrite(t) \/ DlWriteFails(t)
    PROVE  DlIInv'
<1> USE DEF DlIInv, DlShape
<1>1. /\ UNCHANGED <<download, prefix, size, buf>>
      /\ dlPC[t] \in {"create", "write"} /\ buf[t] = size[t]
  BY DEF DlCreate, DlWrite, DlWriteFails, DlAt, DlWhole
<1>2. PICK c : disk' = [disk EXCEPT ![Local(t)] = c]
  <2>1. CASE DlCreate(t)
    BY <2>1 DEF DlCreate
  <2>2. CASE DlWrite(t)
    BY <2>2 DEF DlWrite, Overwrite
  <2>3. CASE DlWriteFails(t)
    BY <2>3 DEF DlWriteFails, Overwrite
  <2> QED
    BY <2>1, <2>2, <2>3
<1>3. /\ dlPC' = [dlPC EXCEPT ![t] = "write"] \/ dlPC' = [dlPC EXCEPT ![t] = "returned"]
      /\ saved' \in [DlTargets -> {"none", "nil", "error"}]
      /\ unsaved' \in [DlTargets -> BOOLEAN]
      /\ \A u \in DlTargets \ {t} : saved'[u] = saved[u] /\ unsaved'[u] = unsaved[u]
  BY DEF DlCreate, DlWrite, DlWriteFails, DlGoto, DlReturn
<1>4. DlShape'
  BY <1>1, <1>2, <1>3
<1>5. DlWhole'
  BY <1>1, <1>3 DEF DlWhole
<1>6. DownloadKeepsCopy'
  <2>1. \A u \in DlTargets : dlPC[u] \in {"write", "returned"} => dlPC'[u] \in {"write", "returned"}
    BY <1>3
  <2>2. dlPC'[t] \in {"write", "returned"}
    BY <1>3
  <2>3. ASSUME NEW f \in Locals, disk'[f] # Old
        PROVE  \E u \in DlTargets : /\ Local(u)' = f
                                    /\ dlPC'[u] \in {"write", "returned"}
                                    /\ buf'[u] = size'[u]
    <3>1. CASE f = Local(t)
      BY <1>1, <2>2, <3>1 DEF Local
    <3>2. CASE f # Local(t)
      <4>1. disk[f] # Old
        BY <1>2, <2>3, <3>2
      <4>2. PICK u \in DlTargets : /\ Local(u) = f
                                   /\ dlPC[u] \in {"write", "returned"}
                                   /\ buf[u] = size[u]
        BY <4>1 DEF DownloadKeepsCopy
      <4> QED
        BY <1>1, <2>1, <4>2 DEF Local
    <3> QED
      BY <3>1, <3>2
  <2> QED
    BY <2>3 DEF DownloadKeepsCopy, Locals, Old
<1>7. ASSUME prefix
      PROVE  /\ dlPC'[t] = "write" => disk'[t] = <<>>
             /\ saved'[t] # "none" => dlPC'[t] = "returned"
             /\ saved'[t] = "nil" /\ ~unsaved'[t] => disk'[t] = Content(t, size[t])
  <2>1. Local(t) = t /\ t \in DOMAIN disk
    BY <1>7 DEF Local, Locals
  <2>2. CASE DlCreate(t)
    BY <1>7, <2>1, <2>2 DEF DlCreate, DlAt, DlGoto, DlOwn
  <2>3. CASE DlWrite(t)
    <3>1. disk[t] = <<>> /\ Len(<<>>) = 0 /\ size[t] \in Nat
      BY <1>7, <2>3 DEF DlWrite, DlAt, DlOwn
    <3>2. disk'[t] = Content(t, size[t])
      BY <2>1, <2>3, <3>1 DEF DlWrite, Overwrite
    <3> QED
      BY <2>3, <3>2 DEF DlWrite, DlReturn
  <2>4. CASE DlWriteFails(t)
    BY <2>4 DEF DlWriteFails, DlReturn
  <2> QED
    BY <2>2, <2>3, <2>4
<1>8. DlOwn'
  <2> SUFFICES ASSUME prefix, NEW u \in DlTargets
               PROVE  /\ dlPC'[u] = "write" => disk'[u] = <<>>
                      /\ saved'[u] # "none" => dlPC'[u] = "returned"
                      /\ saved'[u] = "nil" /\ ~unsaved'[u] => disk'[u] = Content(u, size[u])
    BY <1>1 DEF DlOwn, Content
  <2>1. CASE u = t
    BY <1>7, <2>1
  <2>2. CASE u # t
    <3>1. dlPC'[u] = dlPC[u] /\ saved'[u] = saved[u] /\ unsaved'[u] = unsaved[u]
      BY <1>3, <2>2
    <3>2. disk'[u] = disk[u]
      BY <1>2, <2>2 DEF Local, Locals
    <3> QED
      BY <3>1, <3>2 DEF DlOwn
  <2> QED
    BY <2>1, <2>2
<1> QED
  BY <1>4, <1>5, <1>6, <1>8

LEMMA DlInductive == DlSpec => []DlIInv
<1>1. DlIInv /\ [DlNext]_dlVars => DlIInv'
  <2> SUFFICES ASSUME DlIInv, [DlNext]_dlVars PROVE DlIInv'
    OBVIOUS
  <2>1. ASSUME NEW t \in DlTargets, fileGet(t) \/ handleFileArtifact(t)
        PROVE  DlIInv'
    <3>1. CASE DlCreate(t) \/ DlWrite(t) \/ DlWriteFails(t)
      BY <3>1, DlWrittenNext
    <3>2. CASE DlStart(t) \/ DlHeader(t)
      BY <3>2, DlUnwrittenNext DEF DlStart, DlHeader, DlAt, DlGoto, DlIInv, DlShape
    <3>3. CASE DlContents(t)
      <4>1. buf' \in [DlTargets -> Nat] /\ \A u \in DlTargets \ {t} : buf'[u] = buf[u]
        BY <3>3 DEF DlContents, DlIInv, DlShape
      <4> QED
        BY <3>3, <4>1, DlUnwrittenNext DEF DlContents, DlAt, DlGoto
    <3>4. CASE DlVerify(t)
      BY <3>4, DlUnwrittenNext DEF DlVerify, DlAt, DlGoto
    <3>5. CASE DlOtherArtifact(t) \/ DlNothing(t) \/ DlFails(t)
      BY <3>5, DlUnwrittenNext DEF DlOtherArtifact, DlNothing, DlFails, DlAt, DlReturn
    <3>6. CASE DlPanic(t)
      BY <3>6, DlUnwrittenNext DEF DlPanic, DlAt
    <3> QED
      BY <2>1, <3>1, <3>2, <3>3, <3>4, <3>5, <3>6 DEF fileGet, handleFileArtifact
  <2>2. CASE UNCHANGED dlVars
    BY <2>2 DEF dlVars, DlIInv, DlShape, DlWhole, DlOwn, DownloadKeepsCopy, Content, Local, Old
  <2> QED
    BY <2>1, <2>2 DEF DlNext
<1> QED
  BY <1>1, DlInitInv, PTL DEF DlSpec

\* With any number of targets and files of any size, a local copy is replaced only
\* once a whole file with the right hash is there to replace it.
THEOREM DownloadsKeepCopies == DlSpec => []DownloadKeepsCopy
<1>1. DlIInv => DownloadKeepsCopy
  BY DEF DlIInv
<1> QED
  BY <1>1, DlInductive, PTL

\* With any number of targets, each with a local file of its own, a download that
\* succeeds left the whole file in it.
THEOREM DownloadsAreSaved == DlSpec => []DownloadNilIsSaved
<1>1. DlIInv => DownloadNilIsSaved
  BY DEF DlIInv, DlOwn, DownloadNilIsSaved
<1> QED
  BY <1>1, DlInductive, PTL

-----------------------------------------------------------------------------
DlData == Seq(DlTargets \cup {"old"})

\* A write at the start of a file of sequences leaves one.
LEMMA OverwriteType ==
    ASSUME DlTypeOK, DlIInv, NEW t \in DlTargets, NEW n \in Nat, Overwrite(t, n)
    PROVE  \A f \in Locals : disk'[f] \in DlData
<1> DEFINE old == disk[Local(t)]
           new == Content(t, n)
           rest == SubSeq(old, n + 1, Len(old))
<1>1. Local(t) \in Locals /\ DOMAIN disk = Locals
  BY DEF Local, Locals, DlIInv, DlShape
<1>2. old \in DlData
  BY <1>1 DEF DlTypeOK, DlData, DlIInv, DlShape
<1>3. new \in DlData
  BY DEF Content, DlData
<1>4. rest \in DlData
  <2>1. Len(old) \in Nat
    BY <1>2 DEF DlData
  <2>2. \A i \in (n + 1)..Len(old) : old[i] \in DlTargets \cup {"old"}
    BY <1>2, <2>1, SMTT(30) DEF DlData
  <2> HIDE DEF old
  <2> QED
    BY <1>2, <2>1, <2>2, SMTT(30) DEF DlData
<1>5. new \o rest \in DlData
  <2> HIDE DEF new, rest
  <2> QED
    BY <1>3, <1>4 DEF DlData
<1>6. disk' = [disk EXCEPT ![Local(t)] = IF n >= Len(old) THEN new ELSE new \o rest]
  BY DEF Overwrite
<1> HIDE DEF old, new, rest
<1> QED
  BY <1>1, <1>3, <1>5, <1>6 DEF DlTypeOK, DlData, DlIInv, DlShape

\* Every step of a goroutine keeps the types.
LEMMA DlTypeNext == DlTypeOK /\ DlIInv /\ [DlNext]_dlVars => DlTypeOK'
<1> SUFFICES ASSUME DlTypeOK, DlIInv, [DlNext]_dlVars PROVE DlTypeOK'
  OBVIOUS
<1>0. download # "none"
  BY DEF DlIInv, DlShape
<1>1. ASSUME NEW t \in DlTargets, fileGet(t) \/ handleFileArtifact(t)
      PROVE  DlTypeOK'
  <2>1. /\ UNCHANGED <<download, prefix, size>>
        /\ size[t] \in Nat /\ size[t] <= DlBlocks
    <3>1. UNCHANGED <<download, prefix, size>>
      BY <1>1 DEF fileGet, handleFileArtifact, DlStart, DlContents, DlVerify, DlNothing, DlFails,
         DlCreate, DlWrite, DlWriteFails, DlHeader, DlOtherArtifact, DlPanic, DlAt
    <3>2. size[t] \in 1..DlBlocks
      BY <1>0 DEF DlTypeOK
    <3> QED
      BY <3>1, <3>2, DlAssumption
  <2>2. \/ dlPC' = dlPC
        \/ \E s \in {"header", "recv", "create", "write", "returned"} : dlPC' = [dlPC EXCEPT ![t] = s]
    BY <1>1 DEF fileGet, handleFileArtifact, DlStart, DlContents, DlVerify, DlNothing, DlFails,
       DlCreate, DlWrite, DlWriteFails, DlHeader, DlOtherArtifact, DlPanic, DlAt, DlGoto, DlReturn
  <2>3. buf' \in [DlTargets -> 0..DlBlocks]
    <3>1. CASE DlContents(t)
      BY <1>0, <2>1, <3>1, DlAssumption DEF DlContents, DlTypeOK
    <3>2. CASE buf' = buf
      BY <1>0, <3>2 DEF DlTypeOK
    <3> QED
      BY <1>1, <3>1, <3>2 DEF fileGet, handleFileArtifact, DlStart, DlVerify, DlNothing, DlFails,
         DlCreate, DlWrite, DlWriteFails, DlHeader, DlOtherArtifact, DlPanic
  <2>4. /\ saved' \in [DlTargets -> {"none", "nil", "error"}]
        /\ unsaved' \in [DlTargets -> BOOLEAN]
        /\ died' \in BOOLEAN
    <3>1. CASE UNCHANGED <<saved, unsaved>>
      BY <1>0, <1>1, <3>1 DEF DlTypeOK, fileGet, handleFileArtifact, DlStart, DlContents, DlVerify, DlNothing,
         DlFails, DlCreate, DlWrite, DlWriteFails, DlHeader, DlOtherArtifact, DlPanic, DlGoto, DlReturn
    <3>2. CASE \E r \in {"nil", "error"}, b \in BOOLEAN : DlReturn(t, r, b)
      BY <1>0, <3>2 DEF DlTypeOK, DlReturn
    <3> QED
      BY <1>1, <3>1, <3>2 DEF fileGet, handleFileArtifact, DlStart, DlContents, DlVerify, DlNothing,
         DlFails, DlCreate, DlWrite, DlWriteFails, DlHeader, DlOtherArtifact, DlPanic, DlGoto
  <2>5. \A f \in Locals : disk'[f] \in DlData
    <3>1. CASE DlWrite(t)
      BY <2>1, <3>1, OverwriteType DEF DlWrite
    <3>2. CASE DlWriteFails(t)
      <4>1. PICK n \in 0..(size[t] - 1) : Overwrite(t, n)
        BY <3>2 DEF DlWriteFails
      <4> QED
        BY <2>1, <4>1, OverwriteType
    <3>3. CASE DlCreate(t)
      BY <1>0, <3>3 DEF DlCreate, DlTypeOK, DlData, DlIInv, DlShape
    <3>4. CASE disk' = disk
      BY <1>0, <3>4 DEF DlTypeOK, DlData
    <3> QED
      BY <1>1, <3>1, <3>2, <3>3, <3>4 DEF fileGet, handleFileArtifact, DlStart, DlContents, DlVerify,
         DlNothing, DlFails, DlHeader, DlOtherArtifact, DlPanic
  <2> QED
    BY <1>0, <2>1, <2>2, <2>3, <2>4, <2>5 DEF DlTypeOK, DlData, Locals
<1>2. CASE UNCHANGED dlVars
  BY <1>2 DEF dlVars, DlTypeOK, Locals
<1> QED
  BY <1>1, <1>2 DEF DlNext

\* Every variable of the downloads keeps its type.
THEOREM DlTypeCorrect == DlSpec => []DlTypeOK
<1>1. DlInit => DlTypeOK
  <2>1. Old \in DlData
    BY DlAssumption DEF Old, DlData
  <2> SUFFICES ASSUME DlInit PROVE DlTypeOK
    OBVIOUS
  <2>2. \A f \in Locals : disk[f] \in DlData
    BY <2>1 DEF DlInit
  <2>3. /\ buf \in [DlTargets -> 0..DlBlocks]
        /\ dlPC \in [DlTargets -> {"start", "header", "recv", "create", "write", "returned"}]
    BY DlAssumption DEF DlInit
  <2> QED
    BY <2>2, <2>3 DEF DlInit, DlTypeOK, DlData
<1> QED
  BY <1>1, DlTypeNext, DlInductive, PTL DEF DlSpec

-----------------------------------------------------------------------------
\* The inductive invariant of a shared local file, as long as no target fails: one
\* that is written is no older one, and whoever has an outcome has returned.
DlFailed == \E t \in DlTargets : unsaved[t] \/ saved[t] = "error"
DlReturned ==
    \A t \in DlTargets : unsaved[t] \/ saved[t] = "error" => dlPC[t] = "returned"
DlShared ==
    ~prefix /\ ~DlFailed =>
        \/ /\ disk["shared"] = Old
           /\ \A t \in DlTargets : dlPC[t] # "write"
        \/ WholeParts(disk["shared"])
DlSharedInv == DlReturned /\ DlShared

\* A whole file written over one of whole parts leaves whole parts.
LEMMA OverwriteKeepsParts ==
    ASSUME NEW old \in DlData, WholeParts(old), NEW t \in DlTargets,
           size \in [DlTargets -> Nat]
    PROVE  WholeParts(IF size[t] >= Len(old) THEN Content(t, size[t])
                      ELSE Content(t, size[t]) \o SubSeq(old, size[t] + 1, Len(old)))
<1> DEFINE n == size[t]
           new == Content(t, n)
           rest == SubSeq(old, n + 1, Len(old))
<1>1. n \in Nat
  OBVIOUS
<1>2. /\ new \in Seq(DlTargets) /\ Len(new) = n
      /\ \A i \in 1..n : new[i] = t
  BY <1>1 DEF Content
<1>3. CASE n >= Len(old)
  BY <1>1, <1>2, <1>3 DEF WholeParts
<1>4. CASE n < Len(old)
  <2>0. /\ Len(old) \in Nat /\ DOMAIN old = 1..Len(old)
        /\ \A i \in 1..Len(old) : old[i] \in DlTargets \cup {"old"}
    BY DEF DlData
  <2>1. /\ rest \in DlData /\ Len(rest) = Len(old) - n
        /\ \A i \in 1..(Len(old) - n) : rest[i] = old[n + i]
    <3>1. DlTargets \cup {"old"} # {} /\ n + 1 \in 1..Len(old) + 1
      BY <1>1, <1>4, <2>0
    <3> QED
      BY <1>1, <1>4, <2>0, SMTT(60) DEF DlData
  <2> DEFINE f == new \o rest
  <2>2. /\ DOMAIN f = 1..Len(old) /\ Len(f) = Len(old)
        /\ \A i \in 1..n : f[i] = t
        /\ \A i \in (n + 1)..Len(old) : f[i] = old[i]
    <3> HIDE DEF n, new, rest
    <3>0. new \in DlData
      BY <1>2 DEF DlData
    <3>1. /\ f \in DlData /\ Len(f) = Len(new) + Len(rest)
          /\ \A i \in 1..(Len(new) + Len(rest)) :
                 f[i] = IF i <= Len(new) THEN new[i] ELSE rest[i - Len(new)]
      BY <2>1, <3>0, ConcatProperties DEF DlData
    <3> HIDE DEF f
    <3>3. DOMAIN f = 1..Len(f)
      BY <3>1 DEF DlData
    <3>2. ASSUME NEW i \in (n + 1)..Len(old)
          PROVE  f[i] = old[i]
      <4>1. i - n \in 1..(Len(old) - n) /\ n + (i - n) = i
        BY <1>1, <2>0
      <4>2. rest[i - n] = old[i]
        BY <2>1, <4>1
      <4> QED
        BY <1>1, <1>2, <1>4, <2>0, <2>1, <3>1, <4>1, <4>2
    <3> QED
      BY <1>1, <1>2, <1>4, <2>0, <2>1, <3>1, <3>2, <3>3
  <2> HIDE DEF new, rest, f
  <2>3. ASSUME NEW i \in DOMAIN f
        PROVE  /\ f[i] \in DlTargets /\ i <= size[f[i]]
               /\ i < size[f[i]] => i < Len(f) /\ f[i + 1] = f[i]
    <3>1. CASE i <= n
      BY <1>1, <1>4, <2>0, <2>2, <3>1
    <3>2. CASE i > n
      <4>1. /\ f[i] = old[i] /\ i \in DOMAIN old
        BY <1>1, <2>0, <2>2, <3>2
      <4>2. /\ old[i] \in DlTargets /\ i <= size[old[i]]
            /\ i < size[old[i]] => i < Len(old) /\ old[i + 1] = old[i]
        BY <4>1 DEF WholeParts
      <4>3. i < Len(old) => f[i + 1] = old[i + 1]
        BY <1>1, <2>0, <2>2, <3>2
      <4> QED
        BY <2>2, <4>1, <4>2, <4>3
    <3> QED
      BY <1>1, <2>0, <2>2, <3>1, <3>2
  <2>4. WholeParts(f)
    BY <2>3 DEF WholeParts
  <2> QED
    BY <1>1, <1>4, <2>0, <2>4 DEF f, new, rest
<1> QED
  BY <1>1, <1>3, <1>4 DEF DlData

\* Every step keeps the shared file one of whole parts.
LEMMA DlSharedNext ==
    ASSUME DlTypeOK, DlIInv, DlSharedInv, [DlNext]_dlVars
    PROVE  DlSharedInv'
<1>1. ASSUME NEW t \in DlTargets, fileGet(t) \/ handleFileArtifact(t)
      PROVE  DlSharedInv'
  <2>1. /\ UNCHANGED <<download, prefix, size>> /\ dlPC[t] # "returned"
        /\ \/ /\ UNCHANGED <<dlPC, saved, unsaved>>
           \/ /\ \E s \in {"header", "recv", "create", "write"} : dlPC' = [dlPC EXCEPT ![t] = s]
              /\ UNCHANGED <<saved, unsaved>>
           \/ \E r \in {"nil", "error"}, b \in BOOLEAN : DlReturn(t, r, b)
    BY <1>1 DEF fileGet, handleFileArtifact, DlStart, DlContents, DlVerify, DlNothing, DlFails,
       DlCreate, DlWrite, DlWriteFails, DlHeader, DlOtherArtifact, DlPanic, DlAt, DlGoto
  <2>2. DlReturned'
    <3> SUFFICES ASSUME NEW u \in DlTargets, unsaved'[u] \/ saved'[u] = "error"
                 PROVE  dlPC'[u] = "returned"
      BY DEF DlReturned
    <3>1. CASE u = t
      BY <2>1, <3>1 DEF DlReturn, DlSharedInv, DlReturned, DlIInv, DlShape
    <3>2. CASE u # t
      <4>1. unsaved'[u] = unsaved[u] /\ saved'[u] = saved[u] /\ dlPC'[u] = dlPC[u]
        BY <2>1, <3>2 DEF DlReturn, DlIInv, DlShape
      <4> QED
        BY <4>1 DEF DlSharedInv, DlReturned
    <3> QED
      BY <3>1, <3>2
  <2>3. DlFailed => DlFailed'
    <3> SUFFICES ASSUME NEW u \in DlTargets, unsaved[u] \/ saved[u] = "error"
                 PROVE  unsaved'[u] \/ saved'[u] = "error"
      BY DEF DlFailed
    <3>1. u # t
      BY <2>1 DEF DlSharedInv, DlReturned
    <3> QED
      BY <2>1, <3>1 DEF DlReturn, DlIInv, DlShape
  <2>4. ASSUME ~prefix, ~DlFailed'
        PROVE  \/ /\ disk'["shared"] = Old
                  /\ \A u \in DlTargets : dlPC'[u] # "write"
               \/ WholeParts(disk'["shared"])
    <3>0. /\ \/ /\ disk["shared"] = Old
                /\ \A u \in DlTargets : dlPC[u] # "write"
             \/ WholeParts(disk["shared"])
          /\ "shared" \in Locals /\ Local(t) = "shared" /\ DOMAIN disk = Locals
          /\ disk["shared"] \in DlData /\ size \in [DlTargets -> Nat]
      BY <2>3, <2>4 DEF DlSharedInv, DlShared, Locals, Local, DlIInv, DlShape, DlTypeOK, DlData
    <3>1. CASE DlCreate(t)
      <4>1. disk'["shared"] = <<>>
        BY <3>0, <3>1 DEF DlCreate
      <4> QED
        BY <4>1 DEF WholeParts
    <3>2. CASE DlWrite(t)
      <4>1. WholeParts(disk["shared"])
        BY <3>0, <3>2 DEF DlWrite, DlAt
      <4>2. disk'["shared"] = IF size[t] >= Len(disk["shared"]) THEN Content(t, size[t])
                              ELSE Content(t, size[t]) \o
                                       SubSeq(disk["shared"], size[t] + 1, Len(disk["shared"]))
        BY <3>0, <3>2 DEF DlWrite, Overwrite
      <4> QED
        BY <3>0, <4>1, <4>2, OverwriteKeepsParts
    <3>3. CASE DlWriteFails(t)
      <4>1. unsaved'[t] \/ saved'[t] = "error"
        BY <3>3 DEF DlWriteFails, DlReturn, DlIInv, DlShape
      <4> QED
        BY <2>4, <4>1 DEF DlFailed
    <3>4. CASE disk' = disk /\ \A u \in DlTargets : dlPC'[u] = "write" => dlPC[u] = "write"
      BY <3>0, <3>4
    <3>5. \/ DlCreate(t) \/ DlWrite(t) \/ DlWriteFails(t)
          \/ disk' = disk /\ \A u \in DlTargets : dlPC'[u] = "write" => dlPC[u] = "write"
      BY <1>1 DEF fileGet, handleFileArtifact, DlStart, DlContents, DlVerify, DlNothing, DlFails,
         DlHeader, DlOtherArtifact, DlPanic, DlAt, DlGoto, DlReturn, DlIInv, DlShape
    <3> QED
      BY <3>1, <3>2, <3>3, <3>4, <3>5
  <2>5. \A f : WholeParts(f)' = WholeParts(f)
    BY <2>1 DEF WholeParts
  <2> QED
    BY <2>1, <2>2, <2>4, <2>5 DEF DlSharedInv, DlShared, Old, WholeParts
<1>2. CASE UNCHANGED dlVars
  BY <1>2 DEF dlVars, DlSharedInv, DlReturned, DlShared, DlFailed, WholeParts, Old
<1> QED
  BY <1>1, <1>2 DEF DlNext

\* With any number of targets and files of any size, a local file they share holds,
\* as long as none of them fails, whole verified files or the ends of such.
THEOREM DownloadsShareVerified == DlSpec => []DownloadSharesVerified
<1>1. DlInit => DlSharedInv
  BY DEF DlInit, DlSharedInv, DlReturned, DlShared, DlFailed, Locals
<1>2. DlIInv /\ DlSharedInv => DownloadSharesVerified
  BY DEF DlSharedInv, DlShared, DlFailed, DownloadSharesVerified
<1> QED
  BY <1>1, <1>2, DlSharedNext, DlTypeCorrect, DlInductive, PTL DEF DlSpec

-----------------------------------------------------------------------------
\* Every set of naturals that is not empty has a least element.
LEMMA LeastNatural ==
    ASSUME NEW S \in SUBSET Nat, S # {}
    PROVE  \E m \in S : \A n \in S : m <= n
<1> DEFINE T == {0..n : n \in S}
           R == StrictSubsetOrdering(Nat)
<1>1. T \subseteq FiniteSubsetsOf(Nat)
  <2>1. ASSUME NEW n \in S
        PROVE  0..n \in FiniteSubsetsOf(Nat)
    <3>1. n \in Int /\ 0 \in Int /\ 0..n \in SUBSET Nat
      OBVIOUS
    <3>2. IsFiniteSet(0..n)
      BY <3>1, FS_Interval
    <3> QED
      BY <3>1, <3>2 DEF FiniteSubsetsOf
  <2> QED
    BY <2>1
<1>2. PICK x \in T : \A y \in T : ~(<<y, x>> \in R)
  <2> HIDE DEF R
  <2>1. IsWellFoundedOn(R, FiniteSubsetsOf(Nat))
    BY FS_StrictSubsetOrderingWellFounded DEF R
  <2>2. T # {}
    OBVIOUS
  <2> HIDE DEF T
  <2> QED
    BY <1>1, <2>1, <2>2, WFMin
<1>3. PICK m \in S : x = 0..m
  BY <1>2
<1>4. ASSUME NEW n \in S, n < m
      PROVE  FALSE
  <2>1. /\ 0..n \in SUBSET Nat /\ 0..m \in SUBSET Nat
        /\ 0..n \subseteq 0..m /\ m \in 0..m /\ m \notin 0..n
    BY <1>4
  <2>2. <<0..n, 0..m>> \in R
    BY <2>1 DEF StrictSubsetOrdering
  <2> QED
    BY <1>2, <1>3, <2>2
<1> QED
  BY <1>4

-----------------------------------------------------------------------------
\* What a path is, and the directory it is in.
LEMMA PathIs ==
    ASSUME NEW q \in Paths
    PROVE  /\ Len(q) \in 0..TreeDepth /\ Len(q) \in Nat
           /\ q \in [1..Len(q) -> Names] /\ q \in Seq(Names)
<1>1. PICK n \in 0..TreeDepth : q \in [1..n -> Names]
  BY DEF Paths
<1>2. n \in Nat
  BY TreeAssumption
<1>3. q \in Seq(Names)
  BY <1>1, <1>2
<1> QED
  BY <1>1, <1>2, <1>3

LEMMA IsPath ==
    ASSUME NEW q \in Seq(Names), Len(q) <= TreeDepth
    PROVE  q \in Paths
<1>1. Len(q) \in 0..TreeDepth /\ q \in [1..Len(q) -> Names]
  BY TreeAssumption
<1> QED
  BY <1>1 DEF Paths

LEMMA DirIs ==
    ASSUME NEW q \in Paths, q # Root
    PROVE  /\ Len(q) >= 1
           /\ Dir(q) \in Paths /\ Len(Dir(q)) = Len(q) - 1
           /\ \A i \in 1..(Len(q) - 1) : Dir(q)[i] = q[i]
<1>1. Len(q) \in 0..TreeDepth /\ q \in Seq(Names)
  BY PathIs
<1>2. Len(q) >= 1
  BY <1>1 DEF Root
<1>3. /\ Dir(q) \in Seq(Names) /\ Len(Dir(q)) = Len(q) - 1
      /\ \A i \in 1..(Len(q) - 1) : Dir(q)[i] = q[i]
  <2>1. \A i \in 1..(Len(q) - 1) : q[i] \in Names
    BY <1>1
  <2> DEFINE d == SubSeq(q, 1, Len(q) - 1)
  <2>2. /\ d \in Seq(Names)
        /\ Len(d) = IF 1 <= Len(q) - 1 THEN (Len(q) - 1) - 1 + 1 ELSE 0
        /\ \A i \in 1..((Len(q) - 1) - 1 + 1) : d[i] = q[1 + i - 1]
    BY <1>1, <2>1, SubSeqProperties
  <2>3. Dir(q) = d
    BY DEF Dir, Front
  <2> HIDE DEF d
  <2>4. Len(Dir(q)) = Len(q) - 1
    <3>1. Len(q) \in Nat
      BY <1>1, TreeAssumption
    <3> QED
      BY <1>2, <2>2, <2>3, <3>1
  <2>5. \A i \in 1..(Len(q) - 1) : Dir(q)[i] = q[i]
    <3> SUFFICES ASSUME NEW i \in 1..(Len(q) - 1)
                 PROVE  Dir(q)[i] = q[i]
      OBVIOUS
    <3>1. i \in 1..((Len(q) - 1) - 1 + 1) /\ 1 + i - 1 = i
      BY <1>1
    <3>2. Dir(q)[i] = q[1 + i - 1]
      BY <2>2, <2>3, <3>1
    <3> QED
      BY <3>1, <3>2
  <2> QED
    BY <2>2, <2>3, <2>4, <2>5
<1>4. Dir(q) \in Paths
  BY <1>1, <1>2, <1>3, IsPath, TreeAssumption
<1> QED
  BY <1>2, <1>3, <1>4

\* p is a directory above q.
Above(p, q) == Len(p) < Len(q) /\ \A i \in 1..Len(p) : p[i] = q[i]

\* What is above a path is its directory or above it.
LEMMA AboveDir ==
    ASSUME NEW p \in Paths, NEW q \in Paths, Above(p, q)
    PROVE  q # Root /\ (p = Dir(q) \/ Above(p, Dir(q)))
<1>1. /\ Len(p) \in Nat /\ Len(q) \in Nat /\ p \in Seq(Names) /\ q \in Seq(Names)
  BY PathIs
<1>2. Len(q) >= 1 /\ q # Root
  BY <1>1 DEF Above, Root
<1>3. /\ Dir(q) \in Paths /\ Len(Dir(q)) = Len(q) - 1
      /\ \A i \in 1..(Len(q) - 1) : Dir(q)[i] = q[i]
  BY <1>2, DirIs
<1>4. Dir(q) \in Seq(Names)
  BY <1>3, PathIs
<1>5. CASE Len(p) = Len(q) - 1
  <2>1. \A i \in 1..Len(p) : p[i] = Dir(q)[i]
    BY <1>1, <1>3, <1>5 DEF Above
  <2>2. p = Dir(q)
    BY <1>1, <1>3, <1>4, <1>5, <2>1, SeqEqual
  <2> QED
    BY <1>2, <2>2
<1>6. CASE Len(p) < Len(q) - 1
  BY <1>1, <1>2, <1>3, <1>6 DEF Above
<1> QED
  BY <1>1, <1>5, <1>6 DEF Above

\* A path is below its directory, and below what that is below.
LEMMA DirAbove ==
    ASSUME NEW q \in Paths, q # Root
    PROVE  Above(Dir(q), q) /\ \A p \in Paths : Above(p, Dir(q)) => Above(p, q)
<1>1. /\ Len(q) >= 1 /\ Dir(q) \in Paths /\ Len(Dir(q)) = Len(q) - 1
      /\ \A i \in 1..(Len(q) - 1) : Dir(q)[i] = q[i]
  BY DirIs
<1>2. Len(q) \in Nat /\ \A p \in Paths : Len(p) \in Nat
  BY PathIs
<1> QED
  BY <1>1, <1>2 DEF Above

\* The entry of a directory on the way to what is below it.
LEMMA EntryTowards ==
    ASSUME NEW p \in Paths, NEW q \in Paths, Above(p, q)
    PROVE  \E c \in Paths : c # Root /\ Dir(c) = p /\ (c = q \/ Above(c, q))
<1> DEFINE k == Len(p) + 1
           c == SubSeq(q, 1, k)
<1>1. /\ Len(p) \in Nat /\ Len(q) \in Nat /\ p \in Seq(Names) /\ q \in Seq(Names)
      /\ Len(q) <= TreeDepth /\ k <= Len(q)
  BY PathIs DEF Above
<1>2. /\ c \in Seq(Names) /\ Len(c) = k
      /\ \A i \in 1..k : c[i] = q[i]
  <2>1. \A i \in 1..k : q[i] \in Names
    BY <1>1
  <2>2. /\ c \in Seq(Names) /\ Len(c) = (IF 1 <= k THEN k - 1 + 1 ELSE 0)
        /\ \A i \in 1..(k - 1 + 1) : c[i] = q[1 + i - 1]
    BY <1>1, <2>1, SubSeqProperties
  <2> HIDE DEF c
  <2> QED
    BY <1>1, <2>2
<1> HIDE DEF c
<1>3. c \in Paths
  BY <1>1, <1>2, IsPath, TreeAssumption
<1>4. c # Root
  BY <1>1, <1>2 DEF Root
<1>5. Dir(c) = p
  <2>1. /\ Dir(c) \in Paths /\ Len(Dir(c)) = Len(c) - 1
        /\ \A i \in 1..(Len(c) - 1) : Dir(c)[i] = c[i]
    BY <1>3, <1>4, DirIs
  <2>2. Dir(c) \in Seq(Names)
    BY <2>1, PathIs
  <2>3. Len(Dir(c)) = Len(p) /\ \A i \in 1..Len(p) : Dir(c)[i] = p[i]
    BY <1>1, <1>2, <2>1 DEF Above
  <2> QED
    BY <1>1, <2>2, <2>3, SeqEqual
<1>6. c = q \/ Above(c, q)
  <2>1. CASE k = Len(q)
    BY <1>1, <1>2, <2>1, SeqEqual
  <2>2. CASE k < Len(q)
    BY <1>1, <1>2, <2>2 DEF Above
  <2> QED
    BY <1>1, <2>1, <2>2
<1> QED
  BY <1>3, <1>4, <1>5, <1>6

\* A directory has finitely many entries ...
LEMMA EntriesAreFinite ==
    ASSUME NEW p \in Paths
    PROVE  IsFiniteSet(Entries(p))
<1> DEFINE E == Entries(p)
           f == [q \in E |-> q[Len(q)]]
<1>0. ASSUME NEW q \in E
      PROVE  /\ q \in Seq(Names) /\ Len(q) \in Nat /\ Len(q) = Len(p) + 1
             /\ q[Len(q)] \in Names
             /\ \A i \in 1..(Len(q) - 1) : p[i] = q[i]
  <2>1. q \in Paths /\ q # Root /\ Dir(q) = p
    BY <1>0 DEF Entries
  <2>2. q \in Seq(Names) /\ Len(q) \in Nat /\ Len(p) \in Nat
    BY <2>1, PathIs
  <2>3. Len(q) >= 1 /\ Len(p) = Len(q) - 1 /\ \A i \in 1..(Len(q) - 1) : p[i] = q[i]
    BY <2>1, DirIs
  <2> QED
    BY <2>2, <2>3
<1> HIDE DEF E
<1>1. f \in [E -> Names]
  BY <1>0
<1>2. ASSUME NEW q \in E, NEW r \in E, f[q] = f[r]
      PROVE  q = r
  <2>1. /\ q \in Seq(Names) /\ Len(q) \in Nat /\ Len(q) = Len(p) + 1
        /\ \A i \in 1..(Len(q) - 1) : p[i] = q[i]
    BY <1>0
  <2>2. /\ r \in Seq(Names) /\ Len(r) = Len(p) + 1
        /\ \A i \in 1..(Len(r) - 1) : p[i] = r[i]
    BY <1>0
  <2>3. q[Len(q)] = r[Len(r)]
    BY <1>2
  <2>4. Len(q) = Len(r) /\ \A i \in 1..Len(q) : q[i] = r[i]
    BY <2>1, <2>2, <2>3
  <2> QED
    BY <2>1, <2>2, <2>4, SeqEqual
<1>3. f \in Injection(E, Names)
  BY <1>1, <1>2 DEF Injection, IsInjective
<1>4. IsFiniteSet(E)
  <2> HIDE DEF f
  <2> QED
    BY <1>3, TreeAssumption, FS_Injection
<1> QED
  BY <1>4 DEF E

\* ... and an order in which they are taken has all of them.
LEMMA OrderHasAll ==
    ASSUME NEW S, IsFiniteSet(S), NEW order \in SetToSeqs(S)
    PROVE  /\ Cardinality(S) \in Nat /\ DOMAIN order = 1..Cardinality(S)
           /\ \A i \in DOMAIN order : order[i] \in S
           /\ \A q \in S : \E i \in DOMAIN order : order[i] = q
<1> DEFINE D == 1..Cardinality(S)
<1>1. Cardinality(S) \in Nat
  BY FS_CardinalityType
<1>2. order \in [D -> S] /\ \A i, j \in D : i # j => order[i] # order[j]
  BY DEF SetToSeqs
<1>3. order \in Injection(D, S)
  BY <1>2 DEF Injection, IsInjective
<1>4. Cardinality(D) = Cardinality(S)
  <2>1. Cardinality(D) = IF 1 > Cardinality(S) THEN 0 ELSE Cardinality(S) - 1 + 1
    BY <1>1, FS_Interval
  <2> QED
    BY <1>1, <2>1
<1> HIDE DEF D
<1>5. order \in Surjection(D, S)
  BY <1>3, <1>4, FS_Injection
<1> QED
  BY <1>1, <1>2, <1>5 DEF Surjection, D

-----------------------------------------------------------------------------
\* In any tree, everything above a path where something is, is a directory.
Rooted(t) == \A p, q \in Paths : t[q] # "absent" /\ Above(p, q) => t[p] = "dir"

LEMMA TreesAreRooted ==
    ASSUME NEW t \in Trees
    PROVE  Rooted(t)
<1> DEFINE Bad == {q \in Paths : t[q] # "absent" /\ \E p \in Paths : Above(p, q) /\ t[p] # "dir"}
           Lens == {Len(q) : q \in Bad}
<1>1. \A q \in Paths \ {Root} : t[q] # "absent" => t[Dir(q)] = "dir"
  BY DEF Trees
<1>2. SUFFICES ASSUME Bad # {} PROVE FALSE
  BY DEF Rooted
<1>3. Lens \in SUBSET Nat /\ Lens # {}
  BY <1>2, PathIs
<1>4. PICK m \in Lens : \A n \in Lens : m <= n
  <2> HIDE DEF Lens
  <2> QED
    BY <1>3, LeastNatural
<1>5. PICK q \in Bad : m = Len(q)
  BY <1>4
<1>6. PICK p \in Paths : Above(p, q) /\ t[p] # "dir"
  OBVIOUS
<1>7. q \in Paths /\ q # Root /\ (p = Dir(q) \/ Above(p, Dir(q)))
  BY <1>6, AboveDir
<1>8. t[Dir(q)] = "dir" /\ Dir(q) \in Paths /\ Len(Dir(q)) = Len(q) - 1
  BY <1>1, <1>7, DirIs
<1>9. Dir(q) \in Bad
  BY <1>6, <1>7, <1>8
<1>10. Len(q) \in Nat /\ m <= Len(Dir(q))
  BY <1>4, <1>7, <1>9, PathIs
<1> QED
  BY <1>5, <1>8, <1>10

\* The inductive invariant of a recursive command: what it still has to do, if
\* nothing failed, covers every file that was there at first and has been neither
\* touched by the other client nor dealt with; such a file is still there.
Calls   == {"isDir", "list", "get", "remove"} \X Paths
Pending == {todo[k][2] : k \in DOMAIN todo}
Covers(P, q) == \E p \in P : p = q \/ Above(p, q)
Undone  == before \ (touched \cup seen)
TreeShape ==
    /\ walker \in {"get", "remove", "stat"}
    /\ tree \in [Paths -> {"absent", "file", "dir"}]
    /\ before \subseteq Paths
    /\ todo \in Seq(Calls)
    /\ walked = "nil" => todo = <<>>
WalkCovers ==
    walked # "error" /\ ~skipped => \A q \in Undone : Covers(Pending, q)
TreeIInv ==
    /\ TreeShape /\ Rooted(tree)
    /\ \A q \in Undone : tree[q] = "file"
    /\ WalkCovers

LEMMA TreeInitInv == TreeInit => TreeIInv
<1> SUFFICES ASSUME TreeInit PROVE TreeIInv
  OBVIOUS
<1>1. Root \in Paths /\ Len(Root) = 0
  <2>1. Root \in Seq(Names) /\ Len(Root) = 0
    BY DEF Root
  <2>2. Len(Root) <= TreeDepth
    BY <2>1, TreeAssumption
  <2> QED
    BY <2>1, <2>2, IsPath
<1>2. todo \in Seq(Calls) /\ Pending = {Root}
  BY <1>1 DEF TreeInit, Calls, Pending
<1>3. TreeShape
  BY <1>2 DEF TreeInit, TreeShape, Trees
<1>4. Rooted(tree)
  BY TreesAreRooted DEF TreeInit
<1>5. ASSUME NEW q \in before
      PROVE  Covers(Pending, q) /\ tree[q] = "file"
  <2>1. q \in Paths /\ tree[q] = "file"
    BY DEF TreeInit
  <2>2. q \in Seq(Names) /\ Len(q) \in Nat
    BY <2>1, PathIs
  <2>3. q = Root \/ Len(q) > 0
    BY <2>2 DEF Root
  <2>4. q = Root \/ Above(Root, q)
    BY <1>1, <2>2, <2>3 DEF Above
  <2> QED
    BY <1>2, <2>1, <2>4 DEF Covers
<1> QED
  BY <1>3, <1>4, <1>5 DEF TreeIInv, WalkCovers, Undone

\* What is at hand is one of the calls, and the first of what is to be done.
LEMMA AtHand ==
    ASSUME TreeIInv, NEW op, Walking(op)
    PROVE  /\ Here \in Paths
           /\ Tail(todo) \in Seq(Calls)
           /\ \A p \in Pending : p = Here \/ \E k \in DOMAIN Tail(todo) : p = Tail(todo)[k][2]
<1>1. todo \in Seq(Calls) /\ todo # <<>>
  BY DEF TreeIInv, TreeShape, Walking
<1>2. /\ Head(todo) \in Calls /\ Tail(todo) \in Seq(Calls)
      /\ Len(Tail(todo)) = Len(todo) - 1
      /\ \A i \in 1..Len(Tail(todo)) : Tail(todo)[i] = todo[i + 1]
  BY <1>1, HeadTailProperties
<1>3. ASSUME NEW k \in DOMAIN todo
      PROVE  todo[k][2] = Here \/ \E j \in DOMAIN Tail(todo) : todo[k][2] = Tail(todo)[j][2]
  <2>1. k \in 1..Len(todo) /\ Len(todo) \in Nat /\ DOMAIN Tail(todo) = 1..Len(Tail(todo))
    BY <1>1, <1>2, <1>3
  <2>2. CASE k = 1
    BY <1>1, <2>2 DEF Here
  <2>3. CASE k > 1
    <3>1. k - 1 \in DOMAIN Tail(todo) /\ (k - 1) + 1 = k
      BY <1>2, <2>1, <2>3
    <3> QED
      BY <1>2, <2>1, <3>1
  <2> QED
    BY <2>1, <2>2, <2>3
<1> QED
  BY <1>2, <1>3 DEF Calls, Here, Pending

\* A call goes on with others, which cover what it covered and is not done.
LEMMA WalkOnNext ==
    ASSUME TreeIInv, NEW op, Walking(op), NEW calls \in Seq(Calls),
           WalkOn(calls), seen \subseteq seen',
           walked # "error" /\ ~skipped =>
               \A q \in before \ (touched \cup seen') :
                   q = Here \/ Above(Here, q) => Covers({calls[k][2] : k \in DOMAIN calls}, q)
    PROVE  TreeIInv'
<1>1. /\ UNCHANGED <<walker, before, touched, tree, skipped, walked>> /\ walked = "none"
      /\ todo' = calls \o Tail(todo)
  BY DEF Walking, WalkOn
<1>2. Tail(todo) \in Seq(Calls)
  BY AtHand
<1> DEFINE rest == Tail(todo)
           both == calls \o rest
<1>3. /\ both \in Seq(Calls) /\ Len(both) = Len(calls) + Len(rest)
      /\ \A i \in 1..(Len(calls) + Len(rest)) :
             both[i] = IF i <= Len(calls) THEN calls[i] ELSE rest[i - Len(calls)]
  <2> HIDE DEF rest
  <2>1. rest \in Seq(Calls)
    BY <1>2 DEF rest
  <2> QED
    BY <2>1, ConcatProperties
<1> HIDE DEF both, rest
<1>4. todo' = both /\ rest \in Seq(Calls)
  BY <1>1, <1>2 DEF both, rest
<1>5. /\ Len(calls) \in Nat /\ Len(rest) \in Nat
      /\ DOMAIN calls = 1..Len(calls) /\ DOMAIN rest = 1..Len(rest)
      /\ DOMAIN both = 1..Len(both)
  BY <1>3, <1>4
<1>6. \A k \in DOMAIN calls : calls[k][2] \in Pending'
  <2>1. \A k \in DOMAIN calls : k \in DOMAIN both /\ both[k] = calls[k]
    BY <1>3, <1>5
  <2> QED
    BY <1>4, <2>1 DEF Pending
<1>7. \A k \in DOMAIN rest : rest[k][2] \in Pending'
  <2>1. ASSUME NEW k \in DOMAIN rest
        PROVE  Len(calls) + k \in DOMAIN both /\ both[Len(calls) + k] = rest[k]
    <3>1. /\ Len(calls) + k \in 1..(Len(calls) + Len(rest))
          /\ ~(Len(calls) + k <= Len(calls)) /\ (Len(calls) + k) - Len(calls) = k
      BY <1>5
    <3> QED
      BY <1>3, <1>5, <3>1
  <2> QED
    BY <1>4, <2>1 DEF Pending
<1>8. Undone' \subseteq Undone /\ Undone' = before \ (touched \cup seen')
  BY <1>1 DEF Undone
<1>9. ASSUME walked # "error", ~skipped, NEW q \in Undone'
      PROVE  Covers(Pending', q)
  <2>1. PICK p \in Pending : p = q \/ Above(p, q)
    BY <1>8, <1>9 DEF TreeIInv, WalkCovers, Covers
  <2>2. CASE p = Here
    <3>1. Covers({calls[k][2] : k \in DOMAIN calls}, q)
      BY <1>8, <1>9, <2>1, <2>2
    <3> QED
      BY <1>6, <3>1 DEF Covers
  <2>3. CASE \E k \in DOMAIN rest : p = rest[k][2]
    BY <1>7, <2>1, <2>3 DEF Covers
  <2> QED
    BY <2>2, <2>3, AtHand DEF rest
<1>10. TreeShape' /\ Rooted(tree)'
  BY <1>1, <1>3, <1>4 DEF TreeIInv, TreeShape, Rooted
<1> QED
  BY <1>1, <1>8, <1>9, <1>10 DEF TreeIInv, WalkCovers, Covers

\* What is at a file or below it is that file.
LEMMA AtFile ==
    ASSUME TreeIInv, NEW p \in Paths, NEW q \in Undone, tree[p] # "dir",
           p = q \/ Above(p, q)
    PROVE  p = q
<1>1. q \in Paths /\ tree[q] = "file"
  BY DEF TreeIInv, TreeShape, Undone
<1> QED
  BY <1>1 DEF TreeIInv, Rooted

LEMMA isDirNext == ASSUME TreeIInv, isDir PROVE TreeIInv'
<1>0. Here \in Paths /\ Walking("isDir")
  BY AtHand DEF isDir
<1>1. CASE walker = "stat" /\ tree[Here] # "dir"
  <2>1. seen' = seen \cup {Here} /\ WalkOn(<<>>)
    BY <1>1 DEF isDir
  <2>2. ASSUME NEW q \in before \ (touched \cup seen'), q = Here \/ Above(Here, q)
        PROVE  FALSE
    <3>1. q \in Undone /\ q # Here
      BY <2>1, <2>2 DEF Undone
    <3> QED
      BY <1>0, <1>1, <2>2, <3>1, AtFile
  <2>3. <<>> \in Seq(Calls)
    OBVIOUS
  <2> QED
    BY <1>0, <2>1, <2>2, <2>3, WalkOnNext
<1>2. CASE ~(walker = "stat" /\ tree[Here] # "dir")
  <2>1. PICK op \in {"list", "get", "remove"} :
            seen \subseteq seen' /\ WalkOn(Call(<<op>>, Here))
    <3>1. CASE tree[Here] = "dir"
      <4>1. seen \subseteq seen' /\ WalkOn(Call(<<"list">>, Here))
        BY <3>1 DEF isDir
      <4> QED
        BY <4>1
    <3>2. CASE tree[Here] # "dir"
      <4>1. walker \in {"get", "remove"} /\ seen' = seen /\ WalkOn(Call(<<walker>>, Here))
        BY <1>2, <3>2 DEF isDir, TreeIInv, TreeShape
      <4> QED
        BY <4>1
    <3> QED
      BY <3>1, <3>2
  <2>2. Call(<<op>>, Here) = <<<<op, Here>>>>
    BY DEF Call
  <2>3. <<<<op, Here>>>> \in Seq(Calls) /\ <<op, Here>> \in Calls
    BY <1>0 DEF Calls
  <2> DEFINE calls == <<<<op, Here>>>>
  <2>4. Here \in {calls[k][2] : k \in DOMAIN calls}
    <3>1. 1 \in DOMAIN calls /\ calls[1][2] = Here
      OBVIOUS
    <3> QED
      BY <3>1
  <2> HIDE DEF calls
  <2>5. \A q : q = Here \/ Above(Here, q) => Covers({calls[k][2] : k \in DOMAIN calls}, q)
    BY <2>4 DEF Covers
  <2>6. calls \in Seq(Calls) /\ WalkOn(calls)
    BY <2>1, <2>2, <2>3 DEF calls
  <2> QED
    BY <1>0, <2>1, <2>5, <2>6, WalkOnNext
<1> QED
  BY <1>1, <1>2

LEMMA WalkListNext == ASSUME TreeIInv, WalkList PROVE TreeIInv'
<1>0. Here \in Paths /\ Walking("list") /\ seen' = seen
  BY AtHand DEF WalkList
<1> DEFINE S == IF tree[Here] = "dir" THEN Entries(Here) ELSE {Here}
<1>1. PICK order \in SetToSeqs(S) : WalkOn([i \in DOMAIN order |-> <<"isDir", order[i]>>])
  BY DEF WalkList
<1>2. S \subseteq Paths /\ IsFiniteSet(S)
  <2>1. IsFiniteSet({Here})
    BY FS_EmptySet, FS_AddElement
  <2> QED
    BY <1>0, <2>1, EntriesAreFinite DEF Entries
<1>3. \A q \in Undone : q = Here \/ Above(Here, q) => \E c \in S : c = q \/ Above(c, q)
  <2> SUFFICES ASSUME NEW q \in Undone, q = Here \/ Above(Here, q)
               PROVE  \E c \in S : c = q \/ Above(c, q)
    OBVIOUS
  <2>1. q \in Paths /\ tree[q] = "file"
    BY DEF TreeIInv, TreeShape, Undone
  <2>2. CASE tree[Here] = "dir"
    <3>1. Above(Here, q)
      BY <2>1, <2>2
    <3>2. PICK c \in Paths : c # Root /\ Dir(c) = Here /\ (c = q \/ Above(c, q))
      BY <1>0, <2>1, <3>1, EntryTowards
    <3>3. tree[c] # "absent"
      BY <2>1, <3>2 DEF TreeIInv, Rooted
    <3>4. c \in Entries(Here)
      BY <3>2, <3>3 DEF Entries
    <3> QED
      BY <2>2, <3>2, <3>4
  <2>3. CASE tree[Here] # "dir"
    BY <1>0, <2>3, AtFile
  <2> QED
    BY <2>2, <2>3
<1> HIDE DEF S
<1>4. /\ Cardinality(S) \in Nat /\ DOMAIN order = 1..Cardinality(S)
      /\ \A i \in DOMAIN order : order[i] \in S
      /\ \A q \in S : \E i \in DOMAIN order : order[i] = q
  BY <1>2, OrderHasAll
<1> DEFINE calls == [i \in DOMAIN order |-> <<"isDir", order[i]>>]
<1>5. /\ DOMAIN calls = DOMAIN order
      /\ \A i \in DOMAIN order : calls[i] = <<"isDir", order[i]>> /\ calls[i][2] = order[i]
  OBVIOUS
<1>6. calls \in Seq(Calls)
  <2>1. \A i \in 1..Cardinality(S) : <<"isDir", order[i]>> \in Calls
    BY <1>2, <1>4 DEF Calls
  <2>2. calls \in [1..Cardinality(S) -> Calls]
    BY <1>4, <2>1
  <2> HIDE DEF calls
  <2> QED
    BY <1>4, <2>2
<1> HIDE DEF calls
<1>7. ASSUME NEW q \in Undone, q = Here \/ Above(Here, q)
      PROVE  Covers({calls[k][2] : k \in DOMAIN calls}, q)
  <2>1. PICK c \in S : c = q \/ Above(c, q)
    BY <1>3, <1>7
  <2>2. c \in {calls[k][2] : k \in DOMAIN calls}
    BY <1>4, <1>5
  <2> QED
    BY <2>1, <2>2 DEF Covers
<1>8. before \ (touched \cup seen') = Undone
  BY <1>0 DEF Undone
<1>9. WalkOn(calls)
  BY <1>1 DEF calls
<1> QED
  BY <1>0, <1>6, <1>7, <1>8, <1>9, WalkOnNext

LEMMA WalkGetNext == ASSUME TreeIInv, WalkGet PROVE TreeIInv'
<1>0. /\ Here \in Paths /\ Walking("get") /\ tree[Here] = "file"
      /\ seen' = seen \cup {Here} /\ WalkOn(<<>>)
  BY AtHand DEF WalkGet
<1>1. ASSUME NEW q \in before \ (touched \cup seen'), q = Here \/ Above(Here, q)
      PROVE  FALSE
  <2>1. q \in Undone /\ q # Here
    BY <1>0, <1>1 DEF Undone
  <2> QED
    BY <1>0, <1>1, <2>1, AtFile
<1>2. <<>> \in Seq(Calls)
  OBVIOUS
<1> QED
  BY <1>0, <1>1, <1>2, WalkOnNext

\* Where nothing is below a path, it may change if what is above it is a directory.
LEMMA ChangeKeepsRooted ==
    ASSUME tree \in [Paths -> {"absent", "file", "dir"}], Rooted(tree), NEW h \in Paths, NEW what,
           tree' = [tree EXCEPT ![h] = what],
           \A q \in Paths : Above(h, q) => tree[q] = "absent",
           what # "absent" => h # Root /\ tree[Dir(h)] = "dir"
    PROVE  Rooted(tree')
<1> SUFFICES ASSUME NEW p \in Paths, NEW q \in Paths, tree'[q] # "absent", Above(p, q)
             PROVE  tree'[p] = "dir"
  BY DEF Rooted
<1>1. CASE q = h
  <2>1. h # Root /\ tree[Dir(h)] = "dir" /\ Dir(h) \in Paths
    BY <1>1, DirIs
  <2>2. p = Dir(h) \/ Above(p, Dir(h))
    BY <1>1, AboveDir
  <2>3. tree[p] = "dir"
    BY <2>1, <2>2 DEF Rooted
  <2>4. p # h
    BY <1>1, PathIs DEF Above
  <2> QED
    BY <2>3, <2>4
<1>2. CASE q # h
  <2>1. tree[q] # "absent"
    BY <1>2
  <2>2. tree[p] = "dir" /\ p # h
    BY <2>1 DEF Rooted
  <2> QED
    BY <2>2
<1> QED
  BY <1>1, <1>2

LEMMA WalkRemoveNext == ASSUME TreeIInv, WalkRemove PROVE TreeIInv'
<1>0. /\ Here \in Paths /\ Walking("remove") /\ tree[Here] = "file"
      /\ tree' = [tree EXCEPT ![Here] = "absent"]
      /\ seen' = seen \cup {Here} /\ todo' = Tail(todo)
      /\ UNCHANGED <<walker, before, touched, skipped, walked>>
      /\ walked = "none"
  BY AtHand DEF WalkRemove, Walking
<1>1. Rooted(tree')
  <2>1. \A q \in Paths : Above(Here, q) => tree[q] = "absent"
    BY <1>0 DEF TreeIInv, Rooted
  <2> QED
    BY <1>0, <2>1, ChangeKeepsRooted DEF TreeIInv, TreeShape
<1>2. Undone' = Undone \ {Here}
  BY <1>0 DEF Undone
<1>3. TreeShape'
  BY <1>0, AtHand DEF TreeIInv, TreeShape
<1>4. \A q \in Undone' : tree'[q] = "file"
  BY <1>0, <1>2 DEF TreeIInv
<1>5. ASSUME walked # "error", ~skipped, NEW q \in Undone'
      PROVE  Covers(Pending', q)
  <2>1. PICK p \in Pending : p = q \/ Above(p, q)
    BY <1>2, <1>5 DEF TreeIInv, WalkCovers, Covers
  <2>2. p # Here
    BY <1>0, <1>2, <2>1, AtFile
  <2>3. p \in Pending'
    BY <1>0, <2>2, AtHand DEF Pending
  <2> QED
    BY <2>1, <2>3 DEF Covers
<1> QED
  BY <1>0, <1>1, <1>3, <1>4, <1>5 DEF TreeIInv, WalkCovers, Rooted, Covers

\* A failure ends the command, or is logged.
LEMMA WalkErrorNext ==
    ASSUME TreeIInv, NEW op, Walking(op), WalkError
    PROVE  TreeIInv'
<1>1. /\ UNCHANGED <<walker, before, touched, tree, seen>>
      /\ walked' = "error" \/ skipped' = TRUE
      /\ todo' = <<>> \/ (todo' = Tail(todo) /\ walked' = walked)
      /\ walked = "none"
  BY DEF Walking, WalkError
<1>2. Tail(todo) \in Seq(Calls) /\ <<>> \in Seq(Calls)
  BY AtHand
<1> QED
  BY <1>1, <1>2 DEF TreeIInv, TreeShape, WalkCovers, Undone, Rooted

LEMMA OtherClientNext == ASSUME TreeIInv, OtherClient PROVE TreeIInv'
<1>0. /\ UNCHANGED <<walker, before, todo, seen, skipped, walked>> /\ walked = "none"
  BY DEF OtherClient
<1>1. PICK p \in Paths \ (touched \cup {Root}) :
          /\ \/ /\ tree[p] = "absent" /\ tree[Dir(p)] = "dir"
                /\ \E what \in Kinds(p) \ {"absent"} : tree' = [tree EXCEPT ![p] = what]
             \/ /\ tree[p] = "file" \/ (tree[p] = "dir" /\ Entries(p) = {})
                /\ tree' = [tree EXCEPT ![p] = "absent"]
          /\ touched' = touched \cup {p}
  BY DEF OtherClient
<1>2. PICK what \in {"absent", "file", "dir"} :
          /\ tree' = [tree EXCEPT ![p] = what]
          /\ what # "absent" => p # Root /\ tree[Dir(p)] = "dir"
  BY <1>1 DEF Kinds
<1>3. ASSUME NEW q \in Paths, Above(p, q), tree[q] # "absent"
      PROVE  FALSE
  <2>1. tree[p] = "dir"
    BY <1>3 DEF TreeIInv, Rooted
  <2>2. Entries(p) = {}
    BY <1>1, <2>1
  <2>3. PICK c \in Paths : c # Root /\ Dir(c) = p /\ (c = q \/ Above(c, q))
    BY <1>3, EntryTowards
  <2>4. tree[c] # "absent"
    BY <1>3, <2>3 DEF TreeIInv, Rooted
  <2> QED
    BY <2>2, <2>3, <2>4 DEF Entries
<1>4. Rooted(tree')
  BY <1>2, <1>3, ChangeKeepsRooted DEF TreeIInv, TreeShape
<1>5. Undone' = Undone \ {p} /\ Undone' \subseteq Paths
  BY <1>0, <1>1 DEF Undone, TreeIInv, TreeShape
<1>6. \A q \in Undone' : tree'[q] = "file"
  BY <1>2, <1>5 DEF TreeIInv, TreeShape
<1>7. TreeShape' /\ Pending' = Pending
  BY <1>0, <1>2 DEF TreeIInv, TreeShape, Pending
<1> QED
  BY <1>0, <1>4, <1>5, <1>6, <1>7 DEF TreeIInv, WalkCovers, Rooted, Covers

LEMMA TreeNextInv == TreeIInv /\ [TreeNext]_treeVars => TreeIInv'
<1> SUFFICES ASSUME TreeIInv, [TreeNext]_treeVars PROVE TreeIInv'
  OBVIOUS
<1>1. CASE WalkEmpty
  BY <1>1, WalkErrorNext DEF WalkEmpty
<1>2. CASE WalkFails
  BY <1>2, WalkErrorNext DEF WalkFails
<1>3. CASE WalkReturn
  <2>1. /\ UNCHANGED <<walker, tree, before, touched, todo, seen, skipped>>
        /\ walked = "none" /\ walked' = "nil" /\ todo = <<>>
    BY <1>3 DEF WalkReturn
  <2> QED
    BY <2>1 DEF TreeIInv, TreeShape, WalkCovers, Undone, Rooted, Covers, Pending
<1>4. CASE UNCHANGED treeVars
  BY <1>4 DEF treeVars, TreeIInv, TreeShape, WalkCovers, Undone, Rooted, Covers, Pending
<1> QED
  BY <1>1, <1>2, <1>3, <1>4, isDirNext, WalkListNext, WalkGetNext, WalkRemoveNext, OtherClientNext
     DEF TreeNext, TreeWalk

\* In a tree of any depth, with any names, whatever another client changes and how
\* often, a recursive get, remove or stat that succeeds did all it was asked.
THEOREM WalksAreWhole == TreeSpec => []WalkNilIsWhole
<1>1. TreeIInv => WalkNilIsWhole
  <2> SUFFICES ASSUME TreeIInv, walked = "nil", ~skipped, NEW q \in Undone
               PROVE  FALSE
    BY DEF WalkNilIsWhole, Undone
  <2>1. todo = <<>> /\ Covers(Pending, q)
    BY DEF TreeIInv, TreeShape, WalkCovers
  <2> QED
    BY <2>1 DEF Covers, Pending
<1> QED
  BY <1>1, TreeInitInv, TreeNextInv, PTL DEF TreeSpec

-----------------------------------------------------------------------------
(* The end of an upload *)

\* What each side has still to do, the messages of its own it sends counted.
UploadClientLeft == [start |-> 13, reading |-> 8, sending |-> 7, hash |-> 7, close |-> 2,
                     wait |-> 1, returned |-> 0]
UploadServerLeft == [start |-> 5, contents |-> 5, hashed |-> 4, stored |-> 3, answered |-> 0]
UploadLeft == UploadClientLeft[client] + UploadServerLeft[server]
              + 6 * (Blocks - sent) + InTransit

\* An upload of N blocks takes at most 6 N + 19 steps, the server's included, whatever
\* the windows are and whatever fails: each step brings it nearer to its end.
UploadIsBounded ==
    /\ [](UploadLeft \in 0..(6 * Blocks + 19))
    /\ [][UploadLeft' < UploadLeft]_streamVars

LEMMA UploadLeftNat ==
    ASSUME UploadIInv
    PROVE  /\ UploadClientLeft[client] \in Nat /\ UploadServerLeft[server] \in Nat
           /\ InTransit \in Nat /\ Blocks \in Nat /\ sent \in Nat /\ sent <= Blocks
           /\ UploadLeft \in Nat
           /\ QueuesOK(UploadRequests, {"Response"})
<1>1. QueuesOK(UploadRequests, {"Response"})
  BY DEF UploadIInv, UploadTypeOK, StreamTypeOK, QueuesOK
<1>2. InTransit \in Nat
  BY <1>1, TransitNat
<1>3. /\ client \in {"start", "reading", "sending", "hash", "close", "wait", "returned"}
      /\ server \in {"start", "contents", "hashed", "stored", "answered"}
      /\ sent \in 0..Blocks /\ Blocks \in Nat
  BY StreamAssumption DEF UploadIInv, UploadTypeOK, StreamTypeOK
<1>4. UploadClientLeft[client] \in Nat /\ UploadServerLeft[server] \in Nat
  BY <1>3 DEF UploadClientLeft, UploadServerLeft
<1> QED
  BY <1>1, <1>2, <1>3, <1>4 DEF UploadLeft

LEMMA UploadNearerClient ==
    ASSUME NEW r \in Uploads, UploadIInv, UploadIInv', UploadClientStep(r)
    PROVE  UploadLeft' < UploadLeft
<1>a. server' = server
  BY DEF UploadClientStep, UploadHeader, UploadRead, UploadContents, UploadHash, UploadClose,
         UploadAnswered, UploadFails, Uploading, serverVars
<1>b. /\ UploadServerLeft[server] \in Nat /\ InTransit \in Nat /\ InTransit' \in Nat
      /\ Blocks \in Nat /\ sent \in Nat /\ QueuesOK(UploadRequests, {"Response"})
  <2>1. QueuesOK(UploadRequests, {"Response"})'
    BY DEF UploadIInv, UploadTypeOK, StreamTypeOK, QueuesOK
  <2> QED
    BY <2>1, UploadLeftNat, TransitNatNext
<1>1. CASE UploadHeader(r) \/ UploadHash(r)
  <2>1. PICK m \in UploadRequests : Send(m)
    BY <1>1 DEF UploadHeader, UploadHash, UploadRequests
  <2>2. InTransit' <= InTransit + 4
    BY <1>b, <2>1, TransitSent
  <2>3. UploadClientLeft[client'] + 4 < UploadClientLeft[client] /\ sent' = sent
        /\ UploadClientLeft[client'] \in Nat /\ UploadClientLeft[client] \in Nat
    BY <1>1 DEF UploadHeader, UploadHash, Goto, UploadClientLeft
  <2> QED
    BY <1>a, <1>b, <2>2, <2>3 DEF UploadLeft
<1>2. CASE UploadContents(r)
  <2>1. InTransit' <= InTransit + 4
    BY <1>b, <1>2, TransitSent DEF UploadContents, UploadRequests
  <2>2. UploadClientLeft[client'] = 8 /\ UploadClientLeft[client] = 7 /\ sent' = sent + 1
    BY <1>2 DEF UploadContents, Goto, UploadClientLeft
  <2> QED
    BY <1>a, <1>b, <2>1, <2>2 DEF UploadLeft
<1>3. CASE UploadRead(r) \/ UploadClose(r)
  <2>1. InTransit' = InTransit
    BY <1>b, <1>3, TransitStill DEF UploadRead, UploadClose, CloseSend, channel
  <2>2. UploadClientLeft[client'] < UploadClientLeft[client] /\ sent' = sent
        /\ UploadClientLeft[client'] \in Nat /\ UploadClientLeft[client] \in Nat
    BY <1>3 DEF UploadRead, UploadClose, Goto, UploadClientLeft
  <2> QED
    BY <1>a, <1>b, <2>1, <2>2 DEF UploadLeft
<1>4. CASE UploadAnswered(r) \/ UploadFails(r)
  <2>1. InTransit' <= InTransit
    <3>1. Recv("Response") \/ UNCHANGED channel
      BY <1>4 DEF UploadAnswered, UploadFails, SendFails, RecvEnded, RecvEOF, RecvFails
    <3>2. CASE Recv("Response")
      BY <1>b, <3>2, TransitReceived
    <3>3. CASE UNCHANGED channel
      BY <1>b, <3>3, TransitStill DEF channel
    <3> QED
      BY <3>1, <3>2, <3>3
  <2>2. UploadClientLeft[client'] < UploadClientLeft[client] /\ sent' = sent
        /\ UploadClientLeft[client'] \in Nat /\ UploadClientLeft[client] \in Nat
    BY <1>4 DEF UploadAnswered, UploadFails, Return, UploadClientLeft
  <2> QED
    BY <1>a, <1>b, <2>1, <2>2 DEF UploadLeft
<1> QED
  BY <1>1, <1>2, <1>3, <1>4 DEF UploadClientStep

LEMMA UploadNearerServer ==
    ASSUME NEW r \in Uploads, UploadIInv, UploadServerStep(r) \/ Break
    PROVE  UploadLeft' < UploadLeft
<1>a. UNCHANGED <<client, sent>>
  BY DEF UploadServerStep, UploadReceive, UploadStore, UploadAnswer, UploadReturn, UploadServer,
         clientVars, Break
<1>b. /\ UploadClientLeft[client] \in Nat /\ UploadServerLeft[server] \in Nat
      /\ InTransit \in Nat
      /\ Blocks \in Nat /\ sent \in Nat /\ QueuesOK(UploadRequests, {"Response"})
  BY UploadLeftNat
<1>1. CASE UploadReceive(r)
  <2>1. PICK m \in UploadRequests : Handle(m)
    BY <1>1 DEF UploadReceive, UploadRequests
  <2>2. InTransit' = InTransit - 4
    BY <1>b, <2>1, TransitHandled
  <2>3. UploadServerLeft[server'] <= UploadServerLeft[server] /\ UploadServerLeft[server'] \in Nat
    BY <1>1 DEF UploadReceive, UploadServerLeft
  <2> QED
    BY <1>a, <1>b, <2>2, <2>3 DEF UploadLeft
<1>2. CASE UploadStore(r)
  <2>1. InTransit' = InTransit
    BY <1>b, <1>2, TransitStill DEF UploadStore, channel
  <2>2. UploadServerLeft[server'] = 3 /\ UploadServerLeft[server] = 4
    BY <1>2 DEF UploadStore, UploadServerLeft
  <2> QED
    BY <1>a, <1>b, <2>1, <2>2 DEF UploadLeft
<1>3. CASE UploadAnswer(r)
  <2>1. InTransit' = InTransit + 2
    BY <1>b, <1>3, TransitAnswered DEF UploadAnswer
  <2>2. UploadServerLeft[server'] = 0 /\ UploadServerLeft[server] = 3
    BY <1>3 DEF UploadAnswer, UploadServerLeft
  <2> QED
    BY <1>a, <1>b, <2>1, <2>2 DEF UploadLeft
<1>4. CASE UploadReturn(r)
  <2>1. Finish("ok") /\ server' = server
    BY <1>4 DEF UploadReturn, serverVars
  <2>2. InTransit' = InTransit - 1
    BY <1>b, <2>1, TransitFinished
  <2> QED
    BY <1>a, <1>b, <2>1, <2>2 DEF UploadLeft
<1>5. CASE Break
  <2>1. server' = server
    BY <1>5 DEF Break, serverVars
  <2>2. InTransit' <= InTransit - 1 /\ QueuesOK(UploadRequests, {"Response"})'
    BY <1>b, <1>5, TransitBroken
  <2>3. InTransit' \in Nat
    BY <2>2, TransitNatNext
  <2> QED
    BY <1>a, <1>b, <2>1, <2>2, <2>3 DEF UploadLeft
<1> QED
  BY <1>1, <1>2, <1>3, <1>4, <1>5 DEF UploadServerStep

\* However large the file and the windows are, an upload takes a bounded number of steps,
\* and so do the two sides while one of them fails: none goes round in a loop.
THEOREM UploadsAreBounded == UploadSpec => UploadIsBounded
<1> DEFINE Bound == UploadLeft \in 0..(6 * Blocks + 19)
<1>1. UploadInit => UploadLeft = 6 * Blocks + 19
  <2> SUFFICES ASSUME UploadInit PROVE UploadLeft = 6 * Blocks + 19
    OBVIOUS
  <2>1. Len(up) = 0 /\ Len(down) = 0 /\ Serving /\ sent = 0
    BY EmptySeq DEF UploadInit, StreamInit, StreamOpens, Serving
  <2>2. UploadClientLeft[client] = 13 /\ UploadServerLeft[server] = 5
    BY DEF UploadInit, StreamInit, StreamOpens, UploadClientLeft, UploadServerLeft
  <2> QED
    BY <2>1, <2>2, StreamAssumption DEF UploadLeft, InTransit
<1>2. UploadInit => UploadIInv /\ Bound
  BY <1>1, UploadInitInv, StreamAssumption
<1>3. ASSUME UploadIInv, UploadNext PROVE UploadLeft' < UploadLeft
  <2>1. PICK r \in Uploads : UploadClientStep(r) \/ UploadServerStep(r) \/ Break
    BY <1>3 DEF UploadNext, filePutStep, sendSysPackageStep, UploadBreak, Uploads
  <2>2. UploadIInv'
    BY <1>3, UploadInvNext
  <2> QED
    BY <1>3, <2>1, <2>2, UploadNearerClient, UploadNearerServer
<1>4. UploadIInv => UploadLeft \in Nat
  BY UploadLeftNat
<1>5. UNCHANGED streamVars => UploadLeft' = UploadLeft
  BY DEF streamVars, channel, clientVars, serverVars, UploadLeft, InTransit, Serving
<1>6. ASSUME UploadIInv' PROVE UploadLeft' \in Nat
  <2>1. InTransit' \in Nat
    <3>1. QueuesOK(UploadRequests, {"Response"})'
      BY <1>6 DEF UploadIInv, UploadTypeOK, StreamTypeOK, QueuesOK
    <3> QED
      BY <3>1, TransitNatNext
  <2>2. UploadClientLeft[client'] \in Nat /\ UploadServerLeft[server'] \in Nat /\ sent' \in 0..Blocks
    BY <1>6 DEF UploadIInv, UploadTypeOK, StreamTypeOK, UploadClientLeft, UploadServerLeft
  <2> QED
    BY <2>1, <2>2, StreamAssumption DEF UploadLeft
<1>7. UploadIInv /\ Bound /\ [UploadNext]_streamVars => UploadIInv' /\ Bound'
  <2> SUFFICES ASSUME UploadIInv, Bound, [UploadNext]_streamVars PROVE UploadIInv' /\ Bound'
    OBVIOUS
  <2>1. UploadIInv' /\ UploadLeft' \in Nat
    BY <1>6, UploadInvNext
  <2>2. UploadLeft' <= UploadLeft
    BY <2>1, <1>3, <1>4, <1>5
  <2> QED
    BY <2>1, <2>2, StreamAssumption
<1>8. UploadIInv /\ [UploadNext]_streamVars => [UploadLeft' < UploadLeft]_streamVars
  BY <1>3
<1> QED
  BY <1>2, <1>7, <1>8, PTL DEF UploadSpec, UploadIsBounded

-----------------------------------------------------------------------------
(* The end of a download *)

\* What a target has still to do: its blocks, and the steps around them.
DlRanks == [start |-> 5, header |-> 4, recv |-> 3, create |-> 2, write |-> 1, returned |-> 0]
DlLeft(t) == DlRanks[dlPC[t]] + (DlBlocks - buf[t])

\* Each step brings one target nearer to its end and leaves the others where they are,
\* although they may write the same local file, or is the panic that ends them all: the
\* download of a file of N blocks takes at most N + 5 steps.
DownloadIsBounded ==
    /\ [](\A t \in DlTargets : DlLeft(t) \in 0..(DlBlocks + 5))
    /\ [][\/ ~died /\ died'
          \/ \E t \in DlTargets :
                 /\ DlLeft(t)' < DlLeft(t)
                 /\ \A u \in DlTargets \ {t} : DlLeft(u)' = DlLeft(u)]_dlVars

LEMMA DlNearer ==
    ASSUME DlIInv, DlTypeOK, DlNext, ~(~died /\ died')
    PROVE  \E t \in DlTargets : /\ DlLeft(t)' < DlLeft(t)
                                /\ \A u \in DlTargets \ {t} : DlLeft(u)' = DlLeft(u)
<1>1. PICK t \in DlTargets : fileGet(t) \/ handleFileArtifact(t)
  BY DEF DlNext
<1>2. /\ buf \in [DlTargets -> Nat] /\ DlBlocks \in Nat
      /\ dlPC \in [DlTargets -> {"start", "header", "recv", "create", "write", "returned"}]
  BY DlAssumption DEF DlIInv, DlShape
<1>3. \/ /\ dlPC[t] = "recv" /\ dlPC' = [dlPC EXCEPT ![t] = "recv"]
         /\ buf' = [buf EXCEPT ![t] = @ + 1]
      \/ /\ buf' = buf
         /\ \/ dlPC[t] = "start" /\ dlPC' = [dlPC EXCEPT ![t] = "recv"]
            \/ dlPC[t] = "start" /\ dlPC' = [dlPC EXCEPT ![t] = "header"]
            \/ dlPC[t] = "header" /\ dlPC' = [dlPC EXCEPT ![t] = "recv"]
            \/ dlPC[t] = "recv" /\ dlPC' = [dlPC EXCEPT ![t] = "create"]
            \/ dlPC[t] = "create" /\ dlPC' = [dlPC EXCEPT ![t] = "write"]
            \/ /\ dlPC[t] \in {"start", "header", "recv", "create", "write"}
               /\ dlPC' = [dlPC EXCEPT ![t] = "returned"]
  <2>1. CASE DlStart(t) \/ DlContents(t) \/ DlVerify(t) \/ DlCreate(t) \/ DlHeader(t)
    BY <2>1 DEF DlStart, DlContents, DlVerify, DlCreate, DlHeader, DlAt, DlGoto
  <2>2. CASE \/ DlNothing(t) \/ DlFails(t) \/ DlWrite(t) \/ DlWriteFails(t)
             \/ DlOtherArtifact(t)
    BY <2>2 DEF DlNothing, DlFails, DlWrite, DlWriteFails, DlOtherArtifact, DlAt, DlReturn
  <2>3. ~DlPanic(t)
    BY DEF DlPanic, DlAt
  <2> QED
    BY <1>1, <2>1, <2>2, <2>3 DEF fileGet, handleFileArtifact
<1>4. DlLeft(t)' < DlLeft(t)
  <2>1. DlRanks[dlPC[t]] \in Nat /\ DlRanks[dlPC'[t]] \in Nat
    BY <1>2, <1>3 DEF DlRanks
  <2>2. CASE dlPC[t] = "recv" /\ dlPC'[t] = "recv" /\ buf'[t] = buf[t] + 1
    BY <1>2, <2>1, <2>2 DEF DlLeft
  <2>3. CASE buf' = buf /\ DlRanks[dlPC'[t]] < DlRanks[dlPC[t]]
    BY <1>2, <2>1, <2>3 DEF DlLeft
  <2> QED
    BY <1>2, <1>3, <2>2, <2>3 DEF DlRanks
<1>5. \A u \in DlTargets \ {t} : DlLeft(u)' = DlLeft(u)
  <2>1. \A u \in DlTargets \ {t} : dlPC'[u] = dlPC[u] /\ buf'[u] = buf[u]
    BY <1>2, <1>3
  <2> QED
    BY <2>1 DEF DlLeft
<1> QED
  BY <1>4, <1>5

\* For any number of targets and files of any size, a download takes a bounded number of
\* steps: no target goes round in the loop that receives, and none holds up another.
THEOREM DownloadsAreBounded == DlSpec => DownloadIsBounded
<1>1. DlIInv /\ DlTypeOK => \A t \in DlTargets : DlLeft(t) \in 0..(DlBlocks + 5)
  <2> SUFFICES ASSUME DlIInv, DlTypeOK, NEW t \in DlTargets
               PROVE  DlLeft(t) \in 0..(DlBlocks + 5)
    OBVIOUS
  <2>1. buf[t] \in 0..DlBlocks /\ DlBlocks \in Nat
        /\ dlPC[t] \in {"start", "header", "recv", "create", "write", "returned"}
    BY DlAssumption DEF DlIInv, DlShape, DlTypeOK
  <2>2. DlRanks[dlPC[t]] \in 0..5
    BY <2>1 DEF DlRanks
  <2> QED
    BY <2>1, <2>2 DEF DlLeft
<1>2. DlIInv /\ DlTypeOK /\ [DlNext]_dlVars
      => [\/ ~died /\ died'
          \/ \E t \in DlTargets :
                 /\ DlLeft(t)' < DlLeft(t)
                 /\ \A u \in DlTargets \ {t} : DlLeft(u)' = DlLeft(u)]_dlVars
  BY DlNearer
<1> QED
  BY <1>1, <1>2, DlInductive, DlTypeCorrect, PTL DEF DlSpec, DownloadIsBounded
=================================================================================
