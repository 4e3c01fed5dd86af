-------------------------------- MODULE Stream --------------------------------
(***************************************************************************)
(* One streaming RPC: a goroutine of gNOIc, the handler of the server or   *)
(* device it talks to, and the gRPC stream between them.  Modules          *)
(* OsInstall, Deploy and Upload give the two sides their behaviour.        *)
(*                                                                         *)
(* A stream is a queue of messages in each direction, each bounded by its  *)
(* flow-control window, and the status with which the handler returned.    *)
(* The client learns the status only after the answers sent before it.     *)
(***************************************************************************)
EXTENDS Naturals, Sequences

CONSTANTS
    RPCs,        \* the streaming RPCs considered
    Blocks,      \* blocks of the local file that is sent
    UpWindow,    \* messages to the server before Send blocks
    DownWindow   \* messages to the client before the server's Send blocks

ASSUME StreamAssumption == /\ Blocks \in Nat
                           /\ UpWindow \in Nat \ {0}
                           /\ DownWindow \in Nat \ {0}

\* What is sent fits what the two windows hold between them.
FitsWindows == Blocks <= UpWindow + DownWindow

VARIABLES
    rpc,      \* the RPC the client called
    up,       \* messages to the server, in flight
    down,     \* answers to the client, in flight
    half,     \* the client closed its side
    ended,    \* "open", or the status the client sees when down is empty
    client,   \* where the client is
    verdict,  \* what it returned
    sent,     \* blocks it sent
    server,   \* where the handler is
    got       \* blocks it received

channel == <<up, down, half, ended>>
clientVars == <<client, verdict, sent>>
serverVars == <<server, got>>
streamVars == <<rpc, channel, clientVars, serverVars>>

StreamTypeOK(clientStates, serverStates, requests, answers) ==
    /\ rpc \in RPCs
    /\ up \in Seq(requests) /\ down \in Seq(answers)
    /\ Len(up) <= UpWindow /\ Len(down) <= DownWindow
    /\ half \in BOOLEAN
    /\ ended \in {"open", "ok", "error"}
    /\ client \in clientStates \cup {"start", "returned"}
    /\ verdict \in {"none", "nil", "error"}
    /\ sent \in 0..Blocks /\ got \in 0..Blocks
    /\ server \in serverStates \cup {"start"}

StreamOpens ==
    /\ up = <<>> /\ down = <<>> /\ half = FALSE /\ ended = "open"
    /\ client = "start" /\ verdict = "none" /\ sent = 0
    /\ server = "start" /\ got = 0

StreamInit == rpc \in RPCs /\ StreamOpens

-----------------------------------------------------------------------------
(* The client's end *)

\* stream.Send returned nil: the message is queued, or dropped when the handler
\* has returned and the client does not know it yet.
Send(m) ==
    /\ ended = "open" => Len(up) < UpWindow
    /\ up' = IF ended = "open" THEN Append(up, m) ELSE up
    /\ UNCHANGED <<down, half, ended>>

\* stream.Send returned io.EOF: the handler has returned.
SendFails == ended # "open" /\ UNCHANGED channel

\* stream.Recv returned m.
Recv(m) ==
    /\ down # <<>> /\ Head(down) = m
    /\ down' = Tail(down)
    /\ UNCHANGED <<up, half, ended>>

\* stream.Recv returned io.EOF, or the error the stream ended with.
RecvEOF    == down = <<>> /\ ended = "ok" /\ UNCHANGED channel
RecvFails  == down = <<>> /\ ended = "error" /\ UNCHANGED channel
RecvEnded  == RecvEOF \/ RecvFails

\* stream.CloseSend
CloseSend == half' = TRUE /\ UNCHANGED <<up, down, ended>>

Goto(s) == client' = s /\ UNCHANGED verdict

Return(v) == client' = "returned" /\ verdict' = v

-----------------------------------------------------------------------------
(* The server's end *)

Serving == ended = "open"

\* The handler receives m.
Handle(m) ==
    /\ Serving
    /\ up # <<>> /\ Head(up) = m
    /\ up' = Tail(up)
    /\ UNCHANGED <<down, half, ended>>

\* The handler sends m; it blocks while the window is full.
Answer(m) ==
    /\ Serving
    /\ Len(down) < DownWindow
    /\ down' = Append(down, m)
    /\ UNCHANGED <<up, half, ended>>

\* The handler received the end of the client's side.
HandleEOF == Serving /\ half /\ up = <<>>

\* The handler returns.
Finish(status) ==
    /\ Serving
    /\ ended' = status
    /\ UNCHANGED <<up, down, half>>

\* The connection is lost with some of the answers in flight, the handler
\* fails, or it is cancelled because the client returned.
Break ==
    /\ Serving
    /\ ended' = "error"
    /\ \E n \in 0..Len(down) : down' = SubSeq(down, 1, n)
    /\ UNCHANGED <<rpc, up, half, clientVars, serverVars>>
=============================================================================
