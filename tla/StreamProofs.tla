----------------------------- MODULE StreamProofs -----------------------------
(***************************************************************************)
(* What the commands that send a file over a stream have in common, for a  *)
(* file of any size and any flow-control windows: lemmas about the two     *)
(* queues of module Stream, which FileClientProofs, DeployProofs and       *)
(* OsInstallProofs use.                                                    *)
(***************************************************************************)
EXTENDS Stream, SequenceTheorems, TLAPS

\* All three send a first message, the blocks, and a last message.  While the
\* handler runs, what it has not got of what was sent is in flight, in order.
InFlight(first, last) ==
    /\ \A i \in 1..Len(up) : /\ up[i] = first => i = 1 /\ server = "start"
                             /\ up[i] = last => i = Len(up)
    /\ server = "start" /\ up # <<>> => up[1] = first
    /\ got + Len(up) = sent + (IF up # <<>> /\ up[1] = first THEN 1 ELSE 0)
                            + (IF up # <<>> /\ up[Len(up)] = last THEN 1 ELSE 0)

ChannelOK(S) == /\ up \in Seq(S) /\ Len(up) <= UpWindow
                /\ ended \in {"open", "ok", "error"}
                /\ sent \in Nat /\ got \in Nat

\* The first message is sent.
LEMMA FirstSent ==
    ASSUME NEW S, NEW first \in S, NEW last \in S, first # last,
           ChannelOK(S), InFlight(first, last), Serving,
           up = <<>>, server = "start",
           Send(first), UNCHANGED <<sent, got, server>>
    PROVE  ChannelOK(S)' /\ InFlight(first, last)'
<1>1. up' = <<first>>
  BY DEF Send, Serving
<1> QED
  BY <1>1, StreamAssumption DEF ChannelOK, InFlight, Serving, Send

\* A block is sent.
LEMMA BlockSent ==
    ASSUME NEW S, NEW first \in S, NEW last \in S, NEW block \in S,
           first # last, block # first, block # last,
           ChannelOK(S), InFlight(first, last), Serving,
           server = "start" => up # <<>>,
           \A i \in 1..Len(up) : up[i] # last,
           Send(block), sent' = sent + 1, UNCHANGED <<got, server>>
    PROVE  ChannelOK(S)' /\ InFlight(first, last)'
<1>1. up' = Append(up, block) /\ Len(up) < UpWindow
  BY DEF Send, Serving
<1>2. up' \in Seq(S) /\ Len(up') = Len(up) + 1 /\ up' # <<>>
  BY <1>1 DEF ChannelOK
<1>3. \A i \in 1..Len(up') : up'[i] = IF i <= Len(up) THEN up[i] ELSE block
  BY <1>1 DEF ChannelOK
<1> QED
  BY <1>1, <1>2, <1>3, StreamAssumption DEF ChannelOK, InFlight, Serving, Send

\* The last message is sent, once.
LEMMA LastSent ==
    ASSUME NEW S, NEW first \in S, NEW last \in S, first # last,
           ChannelOK(S), InFlight(first, last), Serving,
           server = "start" => up # <<>>,
           \A i \in 1..Len(up) : up[i] # last,
           Send(last), UNCHANGED <<sent, got, server>>
    PROVE  ChannelOK(S)' /\ InFlight(first, last)'
<1>1. up' = Append(up, last) /\ Len(up) < UpWindow
  BY DEF Send, Serving
<1>2. up' \in Seq(S) /\ Len(up') = Len(up) + 1 /\ up' # <<>>
  BY <1>1 DEF ChannelOK
<1>3. \A i \in 1..Len(up') : up'[i] = IF i <= Len(up) THEN up[i] ELSE last
  BY <1>1 DEF ChannelOK
<1> QED
  BY <1>1, <1>2, <1>3, StreamAssumption DEF ChannelOK, InFlight, Serving, Send

\* The handler receives a message.
LEMMA HeadTaken ==
    ASSUME NEW S, NEW m, ChannelOK(S), Handle(m)
    PROVE  /\ up' \in Seq(S) /\ Len(up') = Len(up) - 1 /\ Len(up) > 0
           /\ \A i \in 1..Len(up') : up'[i] = up[i + 1]
           /\ up[1] = m
<1>1. up # <<>> /\ up' = Tail(up) /\ Head(up) = m
  BY DEF Handle
<1> QED
  BY <1>1, HeadTailProperties, LenProperties, EmptySeq DEF ChannelOK

\* The last message stays the last while others are taken.
LEMMA LastStays ==
    ASSUME NEW S, NEW m, NEW last, m # last, ChannelOK(S), Handle(m), up[Len(up)] = last
    PROVE  up' # <<>> /\ up'[Len(up')] = last
<1>1. /\ up' \in Seq(S) /\ Len(up') = Len(up) - 1 /\ Len(up) > 0
      /\ \A i \in 1..Len(up') : up'[i] = up[i + 1]
      /\ up[1] = m
  BY HeadTaken
<1>2. Len(up) \in Nat /\ Len(up) > 1
  BY <1>1, LenProperties DEF ChannelOK
<1>3. Len(up') \in 1..Len(up') /\ Len(up') + 1 = Len(up)
  BY <1>1, <1>2
<1>4. up'[Len(up')] = up[Len(up)]
  BY <1>1, <1>3
<1>5. up' # <<>>
  BY <1>3
<1> QED
  BY <1>4, <1>5

LEMMA FirstHandled ==
    ASSUME NEW S, NEW first \in S, NEW last \in S, first # last,
           ChannelOK(S), InFlight(first, last), server = "start",
           Handle(first), server' # "start", UNCHANGED <<sent, got>>
    PROVE  ChannelOK(S)' /\ InFlight(first, last)'
<1>1. /\ up' \in Seq(S) /\ Len(up') = Len(up) - 1 /\ Len(up) > 0
      /\ \A i \in 1..Len(up') : up'[i] = up[i + 1]
      /\ up[1] = first
  BY HeadTaken
<1>2. up # <<>> /\ (up' = <<>> <=> Len(up') = 0) /\ Len(up) \in Nat /\ Len(up') \in Nat
  BY <1>1, LenProperties, EmptySeq DEF ChannelOK
<1>3. ChannelOK(S)'
  BY <1>1, <1>2, StreamAssumption DEF ChannelOK, Handle
<1>4. \A i \in 1..Len(up') : up'[i] # first /\ (up'[i] = last => i = Len(up'))
  BY <1>1, <1>2 DEF InFlight
<1>5. up' # <<>> => up'[Len(up')] = up[Len(up)]
  BY <1>1, <1>2
<1>6. got + Len(up) = sent + 1 + (IF up[Len(up)] = last THEN 1 ELSE 0)
  BY <1>1, <1>2 DEF InFlight
<1>7. (up' # <<>> /\ up'[Len(up')] = last) <=> up[Len(up)] = last
  BY <1>1, <1>2, <1>5
<1>8. ~(up' # <<>> /\ up'[1] = first)
  BY <1>1, <1>2, <1>4
<1> QED
  BY <1>1, <1>2, <1>3, <1>4, <1>6, <1>7, <1>8 DEF InFlight, ChannelOK

LEMMA BlockHandled ==
    ASSUME NEW S, NEW first \in S, NEW last \in S, NEW block \in S,
           first # last, block # first, block # last,
           ChannelOK(S), InFlight(first, last), server # "start",
           Handle(block), server' # "start", got' = got + 1, sent' = sent
    PROVE  ChannelOK(S)' /\ InFlight(first, last)' /\ got' <= sent
<1>1. /\ up' \in Seq(S) /\ Len(up') = Len(up) - 1 /\ Len(up) > 0
      /\ \A i \in 1..Len(up') : up'[i] = up[i + 1]
      /\ up[1] = block
  BY HeadTaken
<1>2. up # <<>> /\ (up' = <<>> <=> Len(up') = 0) /\ Len(up) \in Nat /\ Len(up') \in Nat
  BY <1>1, LenProperties, EmptySeq DEF ChannelOK
<1>3. ChannelOK(S)'
  BY <1>1, <1>2, StreamAssumption DEF ChannelOK, Handle
<1>4. \A i \in 1..Len(up') : up'[i] # first /\ (up'[i] = last => i = Len(up'))
  BY <1>1, <1>2 DEF InFlight
<1>5. up' # <<>> => up'[Len(up')] = up[Len(up)]
  BY <1>1, <1>2
<1>6. got + Len(up) = sent + (IF up[Len(up)] = last THEN 1 ELSE 0)
  BY <1>1, <1>2 DEF InFlight, ChannelOK
<1>7. (up' # <<>> /\ up'[Len(up')] = last) <=> up[Len(up)] = last
  BY <1>1, <1>2, <1>5
<1>8. ~(up' # <<>> /\ up'[1] = first)
  BY <1>1, <1>2, <1>4
<1>9. got' + Len(up') = sent' + (IF up' # <<>> /\ up'[Len(up')] = last THEN 1 ELSE 0)
  <2>1. got \in Nat /\ sent \in Nat
    BY DEF ChannelOK
  <2>2. got' + Len(up') = got + Len(up)
    BY <1>1, <1>2, <2>1
  <2> QED
    BY <1>6, <1>7, <2>2
<1>10. got' <= sent
  BY <1>1, <1>2, <1>6 DEF ChannelOK
<1>11. InFlight(first, last)'
  BY <1>2, <1>4, <1>8, <1>9, <1>3 DEF InFlight, ChannelOK
<1> QED
  BY <1>3, <1>10, <1>11

\* When the handler gets the last message it has got all the blocks.
LEMMA LastHandled ==
    ASSUME NEW S, NEW first \in S, NEW last \in S, first # last,
           ChannelOK(S), InFlight(first, last), server # "start",
           Handle(last), server' # "start", UNCHANGED <<sent, got>>
    PROVE  ChannelOK(S)' /\ InFlight(first, last)' /\ got = sent /\ up' = <<>>
<1>1. /\ up' \in Seq(S) /\ Len(up') = Len(up) - 1 /\ Len(up) > 0
      /\ \A i \in 1..Len(up') : up'[i] = up[i + 1]
      /\ up[1] = last
  BY HeadTaken
<1>2. up # <<>> /\ (up' = <<>> <=> Len(up') = 0) /\ Len(up) \in Nat /\ Len(up') \in Nat
  BY <1>1, LenProperties, EmptySeq DEF ChannelOK
<1>3. ChannelOK(S)'
  BY <1>1, <1>2, StreamAssumption DEF ChannelOK, Handle
<1>4. Len(up) = 1
  BY <1>1, <1>2 DEF InFlight
<1> QED
  BY <1>1, <1>2, <1>3, <1>4 DEF InFlight, ChannelOK

\* An answer is received, ...
LEMMA AnswerReceived ==
    ASSUME NEW S, down \in Seq(S), Len(down) <= DownWindow, NEW m, Recv(m)
    PROVE  /\ down' \in Seq(S) /\ Len(down') <= DownWindow
           /\ down # <<>> /\ Len(down) > 0 /\ down[1] = m
           /\ Len(down') = Len(down) - 1
           /\ \A i \in 1..Len(down') : down'[i] = down[i + 1]
           /\ UNCHANGED <<up, half, ended>>
<1>1. down # <<>> /\ down' = Tail(down) /\ Head(down) = m /\ UNCHANGED <<up, half, ended>>
  BY DEF Recv
<1> QED
  BY <1>1, HeadTailProperties, LenProperties, EmptySeq, StreamAssumption

\* ... and sent.
LEMMA AnswerSent ==
    ASSUME NEW S, down \in Seq(S), Len(down) <= DownWindow, NEW m \in S, Answer(m)
    PROVE  /\ down' \in Seq(S) /\ Len(down') <= DownWindow
           /\ Len(down') = Len(down) + 1 /\ down' # <<>>
           /\ \A i \in 1..Len(down') : down'[i] = IF i <= Len(down) THEN down[i] ELSE m
           /\ UNCHANGED <<up, half, ended>> /\ Serving
<1>1. down' = Append(down, m) /\ Len(down) < DownWindow /\ UNCHANGED <<up, half, ended>> /\ Serving
  BY DEF Answer
<1> QED
  BY <1>1, StreamAssumption

\* A stream that breaks keeps a prefix of the answers.
LEMMA BrokenOff ==
    ASSUME NEW S, down \in Seq(S), Len(down) <= DownWindow, Break
    PROVE  /\ down' \in Seq(S) /\ Len(down') <= Len(down) /\ Len(down') \in Nat
           /\ down' # <<>> => down # <<>>
           /\ \A i \in 1..Len(down') : down'[i] = down[i]
           /\ Serving /\ ended' = "error"
           /\ UNCHANGED <<rpc, up, half, client, verdict, sent, server, got>>
<1>1. /\ \E n \in 0..Len(down) : down' = SubSeq(down, 1, n)
      /\ Serving /\ ended' = "error"
      /\ UNCHANGED <<rpc, up, half, client, verdict, sent, server, got>>
  BY DEF Break, clientVars, serverVars
<1>2. PICK n \in 0..Len(down) : down' = SubSeq(down, 1, n)
  BY <1>1
<1>3. Len(down) \in Nat /\ n \in Nat
  BY LenProperties
<1>4. down' \in Seq(S) /\ Len(down') = n /\ \A i \in 1..n : down'[i] = down[i]
  BY <1>2, <1>3
<1> QED
  BY <1>1, <1>3, <1>4

\* What a message and a stream that is open can still give rise to: a message to the
\* server counts for its being handled and for an answer to it, an answer for its being
\* received.  It measures how far an RPC is from its end.
InTransit == 4 * Len(up) + 2 * Len(down) + (IF Serving THEN 1 ELSE 0)
QueuesOK(S, T) == up \in Seq(S) /\ down \in Seq(T)

LEMMA TransitNat ==
    ASSUME NEW S, NEW T, QueuesOK(S, T)
    PROVE  InTransit \in Nat /\ Len(up) \in Nat /\ Len(down) \in Nat
<1>1. Len(up) \in Nat /\ Len(down) \in Nat
  BY LenProperties DEF QueuesOK
<1> QED
  BY <1>1 DEF InTransit

LEMMA TransitNatNext ==
    ASSUME NEW S, NEW T, QueuesOK(S, T)'
    PROVE  InTransit' \in Nat
<1>1. Len(up') \in Nat /\ Len(down') \in Nat
  BY LenProperties DEF QueuesOK
<1> QED
  BY <1>1 DEF InTransit

\* A message that is sent adds to it, ...
LEMMA TransitSent ==
    ASSUME NEW S, NEW T, QueuesOK(S, T), NEW m \in S, Send(m)
    PROVE  QueuesOK(S, T)' /\ InTransit' <= InTransit + 4
<1>1. up' = up \/ up' = Append(up, m)
  BY DEF Send
<1>2. up' \in Seq(S) /\ (Len(up') = Len(up) \/ Len(up') = Len(up) + 1)
  BY <1>1 DEF QueuesOK
<1>3. down' = down /\ Serving' = Serving
  BY DEF Send, Serving
<1>4. Len(up) \in Nat /\ Len(down) \in Nat
  BY TransitNat
<1> QED
  BY <1>2, <1>3, <1>4 DEF QueuesOK, InTransit

\* ... as does an answer; ...
LEMMA TransitAnswered ==
    ASSUME NEW S, NEW T, QueuesOK(S, T), NEW m \in T, Answer(m)
    PROVE  QueuesOK(S, T)' /\ InTransit' = InTransit + 2
<1>1. down' = Append(down, m) /\ UNCHANGED <<up, ended>>
  BY DEF Answer
<1>2. down' \in Seq(T) /\ Len(down') = Len(down) + 1
  BY <1>1 DEF QueuesOK
<1>3. Len(up) \in Nat /\ Len(down) \in Nat
  BY TransitNat
<1> QED
  BY <1>1, <1>2, <1>3 DEF QueuesOK, InTransit, Serving

\* ... what is received, on either side, ...
LEMMA TransitReceived ==
    ASSUME NEW S, NEW T, QueuesOK(S, T), NEW m, Recv(m)
    PROVE  QueuesOK(S, T)' /\ InTransit' = InTransit - 2
<1>1. down # <<>> /\ down' = Tail(down) /\ UNCHANGED <<up, ended>>
  BY DEF Recv
<1>2. down' \in Seq(T) /\ Len(down') = Len(down) - 1
  BY <1>1, HeadTailProperties DEF QueuesOK
<1>3. Len(up) \in Nat /\ Len(down) \in Nat
  BY TransitNat
<1> QED
  BY <1>1, <1>2, <1>3 DEF QueuesOK, InTransit, Serving

LEMMA TransitHandled ==
    ASSUME NEW S, NEW T, QueuesOK(S, T), NEW m, Handle(m)
    PROVE  QueuesOK(S, T)' /\ InTransit' = InTransit - 4
<1>1. up # <<>> /\ up' = Tail(up) /\ UNCHANGED <<down, ended>>
  BY DEF Handle
<1>2. up' \in Seq(S) /\ Len(up') = Len(up) - 1
  BY <1>1, HeadTailProperties DEF QueuesOK
<1>3. Len(up) \in Nat /\ Len(down) \in Nat
  BY TransitNat
<1> QED
  BY <1>1, <1>2, <1>3 DEF QueuesOK, InTransit, Serving

\* ... and the end of the stream take from it.
LEMMA TransitFinished ==
    ASSUME NEW S, NEW T, QueuesOK(S, T), NEW s, s # "open", Finish(s)
    PROVE  QueuesOK(S, T)' /\ InTransit' = InTransit - 1
<1>1. Len(up) \in Nat /\ Len(down) \in Nat
  BY TransitNat
<1>2. Serving /\ ~Serving' /\ UNCHANGED <<up, down>>
  BY DEF Finish, Serving
<1> QED
  BY <1>1, <1>2 DEF QueuesOK, InTransit

LEMMA TransitBroken ==
    ASSUME NEW S, NEW T, QueuesOK(S, T), Break
    PROVE  QueuesOK(S, T)' /\ InTransit' <= InTransit - 1
<1>1. Len(up) \in Nat /\ Len(down) \in Nat
  BY TransitNat
<1>2. PICK n \in 0..Len(down) : down' = SubSeq(down, 1, n)
  BY DEF Break
<1>3. down' \in Seq(T) /\ Len(down') = n
  BY <1>1, <1>2 DEF QueuesOK
<1>4. Serving /\ ~Serving' /\ up' = up
  BY DEF Break, Serving
<1> QED
  BY <1>1, <1>3, <1>4 DEF QueuesOK, InTransit

\* Nothing else changes it.
LEMMA TransitStill ==
    ASSUME NEW S, NEW T, QueuesOK(S, T), UNCHANGED <<up, down, ended>>
    PROVE  QueuesOK(S, T)' /\ InTransit' = InTransit
BY DEF QueuesOK, InTransit, Serving
=============================================================================
