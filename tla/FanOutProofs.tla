----------------------------- MODULE FanOutProofs -----------------------------
(***************************************************************************)
(* Proofs about FanOut, for every finite set of targets and every set of   *)
(* command traits.                                                         *)
(***************************************************************************)
EXTENDS FanOut, FiniteSetTheorems, TLAPS

\* Targets whose report was put in the channel, and those taken out of it.
Reported == {t \in Targets : HasReported(t)}
Drained  == errs \cup result

\* The Go channel holds exactly the reports that are sent and not drained,
\* each once.
ChanInv ==
    /\ \A i \in 1..Len(chan) : chan[i] \in Reported /\ chan[i] \notin Drained
    /\ \A i, j \in 1..Len(chan) : chan[i] = chan[j] => i = j
    /\ \A t \in Reported : t \in Drained \/ \E i \in 1..Len(chan) : chan[i] = t
    /\ \A t \in errs : t \in Reported /\ rep[t] = "error"
    /\ \A t \in result : t \in Reported /\ rep[t] = "nil"

\* The channel never holds more than what was reported.
CountInv == Len(chan) + Cardinality(Drained) = Cardinality(Reported)

\* The WaitGroup counts the goroutines that have not exited.
Running == {t \in Targets : pc[t] # "exited"}
WaitInv == wg = Cardinality(Running)

\* How far main is says how far the goroutines are.
MainInv ==
    /\ closed <=> main \in {"drain", "render", "returned"}
    /\ closed => \A t \in Targets : pc[t] = "exited"
    /\ main \in {"render", "returned"} => chan = <<>>
    /\ main \in {"spawn", "wait"} => errs = {} /\ result = {}

\* The last error a goroutine stored tells whether it failed.
Unwritten(t) == pc[t] \in {"none", "dial"}
FailedInv == \A t \in Targets : /\ failed[t] <=> own[t] = "error"
                                /\ Unwritten(t) => own[t] = "nil"

\* Where t's last assignment went.
LastWhere(t) == IF pc[t] = "done" THEN cmd.op ELSE cmd.dial

\* Some goroutine, the last that stored an error, reads its own value back.
Reader(w) ==
    /\ ~Unwritten(w)
    /\ Finished(w) => rep[w] = own[w]
    /\ ~Finished(w) => LastWhere(w) = "own" \/ err = own[w]
LastWriterInv ==
    (\A t \in Targets : Unwritten(t)) \/ \E w \in Targets : Reader(w)

\* A shared error, or a reported one, comes from some goroutine.
OriginInv ==
    /\ err = "error" => \E t \in Targets : failed[t]
    /\ \A r \in Targets : rep[r] = "error" => \E t \in Targets : failed[t]

\* The verdict agrees with the errors collected.
VerdictInv ==
    /\ main = "returned" =>
        /\ cmd.verdict = "count" /\ errs # {} => verdict = "error"
        /\ errs = {} /\ ~cmd.render => verdict = "nil"
    /\ main \notin {"returned", "crashed"} => verdict = "none"

IInv == /\ TypeOK /\ ChanInv /\ CountInv /\ WaitInv /\ MainInv
        /\ FailedInv /\ LastWriterInv /\ OriginInv /\ VerdictInv

-----------------------------------------------------------------------------
\* TypeOK, the type invariant of the fan-out, holds in every reachable state.
LEMMA TypeInit == Init => TypeOK
<1>1. Cardinality(Targets) \in Nat
  BY FanOutAssumption, FS_CardinalityType
<1>2. Init => failed \in [Targets -> BOOLEAN]
  BY Zenon DEF Init
<1>3. Init => chan \in Seq(Targets)
  BY DEF Init
<1> QED
  BY <1>1, <1>2, <1>3 DEF Init, TypeOK, ErrVal

\* Every step keeps the types, given that the counter of the WaitGroup is
\* positive while a goroutine is about to call Done.
LEMMA TypeNext ==
  ASSUME TypeOK, WaitInv, [Next]_vars
  PROVE  TypeOK'
<1> USE DEF TypeOK, ErrVal
<1>1. ASSUME NEW t \in Targets, Spawn(t) PROVE TypeOK'
  BY <1>1 DEF Spawn, mainVars
<1>2. CASE SpawnEnd
  BY <1>2 DEF SpawnEnd, goVars
<1>3. ASSUME NEW t \in Targets, Dial(t) PROVE TypeOK'
  BY <1>3, Zenon DEF Dial, Assign, mainVars
<1>4. ASSUME NEW t \in Targets, DialFailed(t) PROVE TypeOK'
  BY <1>4 DEF DialFailed, Report, Reads, mainVars
<1>5. ASSUME NEW t \in Targets, DialSucceeded(t) PROVE TypeOK'
  BY <1>5 DEF DialSucceeded, mainVars
<1>6. ASSUME NEW t \in Targets, Op(t) PROVE TypeOK'
  BY <1>6 DEF Op, Assign, mainVars
<1>7. ASSUME NEW t \in Targets, OpOnNilClient(t) PROVE TypeOK'
  BY <1>7 DEF OpOnNilClient, goVars
<1>8. ASSUME NEW t \in Targets, OpReport(t) PROVE TypeOK'
  BY <1>8 DEF OpReport, Report, Reads, mainVars
<1>9. ASSUME NEW t \in Targets, Send(t) PROVE TypeOK'
  BY <1>9 DEF Send, mainVars
<1>10. ASSUME NEW t \in Targets, Exit(t) PROVE TypeOK'
  <2>1. IsFiniteSet(Running)
    BY FanOutAssumption, FS_Subset DEF Running
  <2>2. t \in Running
    BY <1>10 DEF Exit, Running
  <2>3. wg - 1 \in Nat
    BY <2>1, <2>2, FS_EmptySet, FS_CardinalityType DEF WaitInv
  <2> QED
    BY <1>10, <2>3 DEF Exit, mainVars
<1>11. CASE WaitAndClose
  BY <1>11 DEF WaitAndClose, goVars
<1>12. CASE Collect
  BY <1>12 DEF Collect, goVars
<1>13. CASE CollectEnd
  BY <1>13 DEF CollectEnd, goVars
<1>14. CASE Return
  BY <1>14 DEF Return, goVars, handleErrs
<1>15. CASE UNCHANGED vars
  BY <1>15 DEF vars, goVars, mainVars
<1> QED
  BY <1>1, <1>2, <1>3, <1>4, <1>5, <1>6, <1>7, <1>8, <1>9, <1>10, <1>11,
     <1>12, <1>13, <1>14, <1>15 DEF Next, Main, Goroutine

-----------------------------------------------------------------------------
\* failed[t] and own[t] move together: a goroutine runs its RPC only after a
\* dial that stored nil.
LEMMA FailedNext ==
  ASSUME TypeOK, FailedInv, [Next]_vars
  PROVE  FailedInv'
<1> USE DEF TypeOK, ErrVal, FailedInv, Unwritten
<1>1. ASSUME NEW t \in Targets, NEW v \in ErrVal, NEW where, own[t] = "nil",
             Assign(t, where, v), pc' = [pc EXCEPT ![t] = "check"]
                                  \/ pc' = [pc EXCEPT ![t] = "done"]
      PROVE  FailedInv'
  <2>1. failed' = [failed EXCEPT ![t] = v = "error"]
    <3>1. ~failed[t]
      BY <1>1
    <3>2. (failed[t] \/ v = "error") = (v = "error")
      BY <3>1
    <3> QED
      BY <1>1, <3>2, Zenon DEF Assign
  <2>2. own' = [own EXCEPT ![t] = v]
    BY <1>1 DEF Assign
  <2> QED
    BY <1>1, <2>1, <2>2, ZenonT(60)
<1>2. ASSUME NEW t \in Targets, Dial(t) PROVE FailedInv'
  BY <1>1, <1>2, ZenonT(60) DEF Dial
<1>3. ASSUME NEW t \in Targets, Op(t) PROVE FailedInv'
  BY <1>1, <1>3, ZenonT(60) DEF Op
<1>4. CASE UNCHANGED <<pc, own, failed>>
  BY <1>4
<1>5. ASSUME NEW t \in Targets,
             Spawn(t) \/ DialFailed(t) \/ DialSucceeded(t) \/ OpReport(t)
             \/ Send(t) \/ Exit(t)
      PROVE  FailedInv'
  BY <1>5 DEF Spawn, DialFailed, DialSucceeded, OpReport, Report, Send, Exit
<1> QED
  BY <1>2, <1>3, <1>4, <1>5
     DEF Next, Main, Goroutine, vars, goVars, SpawnEnd, OpOnNilClient,
         WaitAndClose, Collect, CollectEnd, Return

\* A goroutine that just stored an error value is a Reader; reporting, it
\* stays one, and no step of another goroutine that stores nothing harms it.
LEMMA LastWriterNext ==
  ASSUME TypeOK, LastWriterInv, [Next]_vars
  PROVE  LastWriterInv'
<1> USE DEF TypeOK, ErrVal
<1>1. ASSUME NEW t \in Targets, Dial(t) PROVE LastWriterInv'
  <2>1. Reader(t)'
    BY <1>1, FanOutAssumption DEF Traits, Dial, Assign, Reader, Unwritten, Finished, LastWhere
  <2> QED
    BY <2>1 DEF LastWriterInv
<1>2. ASSUME NEW t \in Targets, Op(t) PROVE LastWriterInv'
  <2>1. Reader(t)'
    BY <1>2, FanOutAssumption DEF Traits, Op, Assign, Reader, Unwritten, Finished, LastWhere
  <2> QED
    BY <2>1 DEF LastWriterInv
<1>3. ASSUME NEW t \in Targets, Spawn(t) PROVE LastWriterInv'
  BY <1>3 DEF Spawn, LastWriterInv, Reader, Unwritten, Finished, LastWhere, mainVars
<1>4. ASSUME NEW t \in Targets, NEW w \in Targets, Reader(w),
             DialFailed(t) \/ DialSucceeded(t) \/ OpReport(t) \/ Send(t) \/ Exit(t)
      PROVE  Reader(w)'
  <2>1. CASE DialFailed(t)
    BY <1>4, <2>1 DEF DialFailed, Report, Reads, Reader, Unwritten, Finished, LastWhere
  <2>2. CASE DialSucceeded(t)
    BY <1>4, <2>2 DEF DialSucceeded, Reader, Unwritten, Finished, LastWhere
  <2>3. CASE OpReport(t)
    BY <1>4, <2>3 DEF OpReport, Report, Reads, Reader, Unwritten, Finished, LastWhere
  <2>4. CASE Send(t) \/ Exit(t)
    BY <1>4, <2>4 DEF Send, Exit, Reader, Unwritten, Finished, LastWhere
  <2> QED
    BY <1>4, <2>1, <2>2, <2>3, <2>4
<1>5. ASSUME NEW t \in Targets,
             DialFailed(t) \/ DialSucceeded(t) \/ OpReport(t) \/ Send(t) \/ Exit(t)
      PROVE  LastWriterInv'
  <2>1. ~Unwritten(t)
    BY <1>5 DEF Unwritten, DialFailed, DialSucceeded, OpReport, Send, Exit
  <2> QED
    BY <1>4, <1>5, <2>1 DEF LastWriterInv
<1>6. CASE UNCHANGED <<cmd, pc, err, own, rep>>
  BY <1>6 DEF LastWriterInv, Reader, Unwritten, Finished, LastWhere
<1> QED
  BY <1>1, <1>2, <1>3, <1>5, <1>6
     DEF Next, Main, Goroutine, vars, goVars, SpawnEnd, OpOnNilClient,
         WaitAndClose, Collect, CollectEnd, Return

\* An error in the shared variable or in a report was stored by a goroutine
\* that failed.
LEMMA OriginNext ==
  ASSUME TypeOK, FailedInv, OriginInv, [Next]_vars
  PROVE  OriginInv'
<1> USE DEF TypeOK, ErrVal
<1>1. ASSUME NEW t \in Targets, Dial(t) PROVE OriginInv'
  BY <1>1 DEF Dial, Assign, OriginInv
<1>2. ASSUME NEW t \in Targets, Op(t) PROVE OriginInv'
  BY <1>2 DEF Op, Assign, OriginInv
<1>3. ASSUME NEW t \in Targets, DialFailed(t) \/ OpReport(t) PROVE OriginInv'
  BY <1>3 DEF DialFailed, OpReport, Report, Reads, OriginInv, FailedInv
<1>4. CASE UNCHANGED <<err, failed, rep>>
  BY <1>4 DEF OriginInv
<1> QED
  BY <1>1, <1>2, <1>3, <1>4
     DEF Next, Main, Goroutine, vars, goVars, mainVars, Spawn, SpawnEnd,
         DialSucceeded, OpOnNilClient, Send, Exit, WaitAndClose, Collect,
         CollectEnd, Return

-----------------------------------------------------------------------------
\* The WaitGroup counter follows the goroutines that have not exited: only
\* the deferred Done of one of them changes either.
LEMMA WaitNext ==
  ASSUME TypeOK, WaitInv, [Next]_vars
  PROVE  WaitInv'
<1> USE DEF TypeOK
<1>1. ASSUME NEW t \in Targets, Exit(t) PROVE WaitInv'
  <2>1. IsFiniteSet(Running)
    BY FanOutAssumption, FS_Subset DEF Running
  <2>2. t \in Running /\ Running' = Running \ {t}
    BY <1>1 DEF Exit, Running
  <2>3. Cardinality(Running') = Cardinality(Running) - 1
    BY <2>1, <2>2, FS_RemoveElement
  <2> QED
    BY <1>1, <2>3 DEF Exit, WaitInv
<1>2. ASSUME wg' = wg, Running' = Running PROVE WaitInv'
  BY <1>2 DEF WaitInv
<1>3. ASSUME NEW t \in Targets,
             Spawn(t) \/ Dial(t) \/ DialFailed(t) \/ DialSucceeded(t) \/ Op(t)
             \/ OpReport(t) \/ Send(t)
      PROVE  wg' = wg /\ Running' = Running
  BY <1>3 DEF Spawn, Dial, DialFailed, DialSucceeded, Op, OpReport, Report,
              Send, Running
<1>4. ASSUME UNCHANGED <<pc, wg>> PROVE wg' = wg /\ Running' = Running
  BY <1>4 DEF Running
<1> QED
  BY <1>1, <1>2, <1>3, <1>4
     DEF Next, Main, Goroutine, vars, goVars, SpawnEnd, OpOnNilClient,
         WaitAndClose, Collect, CollectEnd, Return

\* The channel is closed, and drained, only when every goroutine has exited.
LEMMA MainNext ==
  ASSUME TypeOK, WaitInv, MainInv, [Next]_vars
  PROVE  MainInv'
<1> USE DEF TypeOK, MainInv
<1>1. CASE WaitAndClose
  <2>1. Running = {}
    BY <1>1, FanOutAssumption, FS_Subset, FS_EmptySet DEF WaitAndClose, WaitInv, Running
  <2> QED
    BY <1>1, <2>1 DEF WaitAndClose, Running, goVars
<1>2. CASE SpawnEnd \/ Collect \/ CollectEnd \/ Return
  BY <1>2 DEF SpawnEnd, Collect, CollectEnd, Return, goVars
<1>3. ASSUME NEW t \in Targets, Spawn(t) \/ Goroutine(t) PROVE MainInv'
  BY <1>3 DEF Spawn, Goroutine, Dial, DialFailed, DialSucceeded, Op,
              OpOnNilClient, OpReport, Report, Send, Exit, mainVars, goVars
<1>4. CASE UNCHANGED vars
  BY <1>4 DEF vars, goVars, mainVars
<1> QED
  BY <1>1, <1>2, <1>3, <1>4 DEF Next, Main

\* The verdict is computed from errs once and neither changes afterwards.
LEMMA VerdictNext ==
  ASSUME TypeOK, VerdictInv, [Next]_vars
  PROVE  VerdictInv'
<1> USE DEF TypeOK, VerdictInv
<1>1. CASE Return
  BY <1>1 DEF Return, handleErrs
<1>2. CASE SpawnEnd \/ WaitAndClose \/ Collect \/ CollectEnd
  BY <1>2 DEF SpawnEnd, WaitAndClose, Collect, CollectEnd
<1>3. ASSUME NEW t \in Targets, Spawn(t) \/ Goroutine(t) PROVE VerdictInv'
  BY <1>3 DEF Spawn, Goroutine, Dial, DialFailed, DialSucceeded, Op,
              OpOnNilClient, OpReport, Report, Send, Exit, mainVars
<1>4. CASE UNCHANGED vars
  BY <1>4 DEF vars, mainVars
<1> QED
  BY <1>1, <1>2, <1>3, <1>4 DEF Next, Main

\* A step that neither sends nor drains leaves the channel's contents as they
\* were: reports are built before they are sent.
LEMMA ChanFrame ==
  ASSUME TypeOK, ChanInv, CountInv, UNCHANGED <<chan, errs, result>>,
         Reported' = Reported, \A t \in Reported : rep'[t] = rep[t]
  PROVE  ChanInv' /\ CountInv'
BY DEF ChanInv, CountInv, Drained

\* A send adds a report not sent before to the channel.
LEMMA SendNext ==
  ASSUME TypeOK, ChanInv, CountInv, NEW t \in Targets, Send(t)
  PROVE  ChanInv' /\ CountInv'
<1> USE DEF TypeOK
<1>1. Reported' = Reported \cup {t} /\ t \notin Reported
  BY DEF Send, Reported, HasReported
<1>2. /\ chan' = Append(chan, t) /\ Len(chan') = Len(chan) + 1
      /\ chan'[Len(chan) + 1] = t
      /\ \A i \in 1..Len(chan) : chan'[i] = chan[i]
  BY DEF Send
<1>3. Drained' = Drained /\ UNCHANGED <<errs, result, rep>> /\ Drained \subseteq Reported
  BY DEF Send, mainVars, Drained, ChanInv
<1>4. ChanInv'
  <2>1. \A i \in 1..Len(chan') : chan'[i] \in Reported' /\ chan'[i] \notin Drained'
    BY <1>1, <1>2, <1>3 DEF ChanInv
  <2>2. \A i, j \in 1..Len(chan') : chan'[i] = chan'[j] => i = j
    BY <1>1, <1>2 DEF ChanInv
  <2>3. \A u \in Reported' : u \in Drained' \/ \E i \in 1..Len(chan') : chan'[i] = u
    BY <1>1, <1>2, <1>3 DEF ChanInv
  <2> QED
    BY <1>1, <1>3, <2>1, <2>2, <2>3 DEF ChanInv
<1>5. IsFiniteSet(Reported)
  BY FanOutAssumption, FS_Subset DEF Reported
<1>6. Cardinality(Reported') = Cardinality(Reported) + 1
  BY <1>1, <1>5, FS_AddElement
<1>7. Cardinality(Drained) \in Nat
  BY <1>3, <1>5, FS_Subset, FS_CardinalityType
<1> QED
  BY <1>2, <1>3, <1>4, <1>6, <1>7 DEF CountInv

\* A receive moves one report from the channel to errs or result.
LEMMA CollectNext ==
  ASSUME TypeOK, ChanInv, CountInv, Collect
  PROVE  ChanInv' /\ CountInv'
<1> USE DEF TypeOK
<1> DEFINE h == Head(chan)
<1>1. Reported' = Reported /\ rep' = rep
  BY DEF Collect, Reported, HasReported, goVars
<1>2. /\ chan # <<>> /\ Len(chan) \in Nat \ {0} /\ h = chan[1] /\ h \in Targets
      /\ Len(chan') = Len(chan) - 1
      /\ \A i \in 1..Len(chan') : chan'[i] = chan[i + 1]
  BY DEF Collect
<1>3. h \in Reported /\ h \notin Drained
  BY <1>2 DEF ChanInv
<1>4. Drained' = Drained \cup {h}
  BY DEF Collect, Drained
<1>5. ChanInv'
  <2>1. \A i \in 1..Len(chan') : chan'[i] \in Reported' /\ chan'[i] \notin Drained'
    BY <1>1, <1>2, <1>4, SMTT(30) DEF ChanInv
  <2>2. \A i, j \in 1..Len(chan') : chan'[i] = chan'[j] => i = j
    BY <1>2 DEF ChanInv
  <2>3. ASSUME NEW u \in Reported'
        PROVE  u \in Drained' \/ \E i \in 1..Len(chan') : chan'[i] = u
    <3>1. ASSUME NEW i \in 1..Len(chan), chan[i] = u, i # 1
          PROVE  i - 1 \in 1..Len(chan') /\ chan'[i - 1] = u
      BY <1>2, <3>1
    <3> QED
      BY <1>1, <1>2, <1>4, <3>1 DEF ChanInv
  <2>4. \A u \in errs' : u \in Reported' /\ rep'[u] = "error"
    BY <1>1, <1>3 DEF Collect, ChanInv
  <2>5. \A u \in result' : u \in Reported' /\ rep'[u] = "nil"
    BY <1>1, <1>2, <1>3 DEF Collect, ChanInv, ErrVal
  <2> QED
    BY <2>1, <2>2, <2>3, <2>4, <2>5 DEF ChanInv
<1>6. IsFiniteSet(Drained)
  BY FanOutAssumption, FS_Subset DEF Drained
<1>7. Cardinality(Drained') = Cardinality(Drained) + 1 /\ Cardinality(Drained) \in Nat
  BY <1>3, <1>4, <1>6, FS_AddElement, FS_CardinalityType
<1>8. CountInv'
  BY <1>1, <1>2, <1>7 DEF CountInv
<1> QED
  BY <1>5, <1>8

\* The channel and the two result lists hold every sent report exactly once.
LEMMA ChanNext ==
  ASSUME TypeOK, ChanInv, CountInv, [Next]_vars
  PROVE  ChanInv' /\ CountInv'
<1> USE DEF TypeOK
<1>1. ASSUME NEW t \in Targets, Send(t) PROVE ChanInv' /\ CountInv'
  BY <1>1, SendNext
<1>2. CASE Collect
  BY <1>2, CollectNext
<1>3. ASSUME NEW t \in Targets,
             Spawn(t) \/ Dial(t) \/ DialFailed(t) \/ DialSucceeded(t) \/ Op(t)
             \/ OpReport(t) \/ Exit(t)
      PROVE  /\ UNCHANGED <<chan, errs, result>>
             /\ Reported' = Reported /\ \A u \in Reported : rep'[u] = rep[u]
  BY <1>3 DEF Spawn, Dial, DialFailed, DialSucceeded, Op, OpReport, Report,
              Exit, Reported, HasReported, mainVars
<1>4. ASSUME UNCHANGED <<chan, errs, result, pc, rep>>
      PROVE  /\ UNCHANGED <<chan, errs, result>>
             /\ Reported' = Reported /\ \A u \in Reported : rep'[u] = rep[u]
  BY <1>4 DEF Reported, HasReported
<1> QED
  BY <1>1, <1>2, <1>3, <1>4, ChanFrame
     DEF Next, Main, Goroutine, vars, goVars, mainVars, SpawnEnd,
         OpOnNilClient, WaitAndClose, CollectEnd, Return

-----------------------------------------------------------------------------
\* Before the goroutines start nothing is counted or in the channel.
LEMMA IInvInit == Init => IInv
<1> SUFFICES ASSUME Init PROVE IInv
  OBVIOUS
<1>1. TypeOK
  BY TypeInit
<1>2. Reported = {} /\ Drained = {} /\ Running = Targets
  BY DEF Init, Reported, HasReported, Drained, Running
<1>3. ChanInv
  BY <1>2 DEF Init, ChanInv
<1>4. CountInv /\ WaitInv
  BY <1>2, FS_EmptySet DEF Init, CountInv, WaitInv
<1>5. MainInv /\ VerdictInv
  BY DEF Init, MainInv, VerdictInv
<1>6. FailedInv /\ LastWriterInv /\ OriginInv
  BY DEF Init, FailedInv, Unwritten, LastWriterInv, OriginInv
<1> QED
  BY <1>1, <1>3, <1>4, <1>5, <1>6 DEF IInv

\* Every step of main and of the goroutines keeps the invariant.
LEMMA IInvNext == IInv /\ [Next]_vars => IInv'
  BY TypeNext, FailedNext, LastWriterNext, OriginNext, WaitNext, MainNext,
     VerdictNext, ChanNext DEF IInv

\* The inductive invariant holds throughout.
THEOREM Invariance == Spec => []IInv
  BY IInvInit, IInvNext, PTL DEF Spec

\* The state of the fan-out is always of its declared type; in particular the
\* WaitGroup counter never goes below zero.
THEOREM TypeCorrect == Spec => []TypeOK
<1>1. IInv => TypeOK
  BY DEF IInv
<1> QED
  BY <1>1, Invariance, PTL

\* Whatever the number of targets, no goroutine blocks in its send or sends on
\* the closed channel: the buffer made with numTargets slots is large enough.
THEOREM SendsAreSafe == Spec => []SendIsSafe
<1>1. IInv => SendIsSafe
  <2> SUFFICES ASSUME IInv, NEW t \in Targets, pc[t] = "report"
               PROVE  ~closed /\ Len(chan) < Cardinality(Targets)
    BY DEF SendIsSafe
  <2>1. ~closed
    BY DEF IInv, MainInv
  <2>2. t \in Targets \ Reported /\ Reported \subseteq Targets
    BY DEF Reported, HasReported
  <2>3. Cardinality(Reported) < Cardinality(Targets)
    <3>1. Cardinality(Reported) <= Cardinality(Targets)
          /\ (Cardinality(Reported) = Cardinality(Targets) => Reported = Targets)
      BY <2>2, FanOutAssumption, FS_Subset
    <3>2. Cardinality(Reported) \in Nat /\ Cardinality(Targets) \in Nat
      BY <2>2, FanOutAssumption, FS_Subset, FS_CardinalityType
    <3> QED
      BY <2>2, <3>1, <3>2
  <2>4. IsFiniteSet(Drained)
    BY FanOutAssumption, FS_Subset DEF IInv, TypeOK, Drained
  <2>5. Cardinality(Drained) \in Nat /\ Len(chan) \in Nat
        /\ Cardinality(Reported) \in Nat /\ Cardinality(Targets) \in Nat
    BY <2>2, <2>4, FanOutAssumption, FS_Subset, FS_CardinalityType DEF IInv, TypeOK
  <2> QED
    BY <2>1, <2>3, <2>5 DEF IInv, CountInv
<1> QED
  BY <1>1, Invariance, PTL

\* Once main has left the drain loop every target's report is in exactly one
\* of the two lists.
LEMMA AllCollected == IInv => EveryTargetAccounted
<1> SUFFICES ASSUME IInv, main \in {"render", "returned"}
             PROVE  errs \cup result = Targets /\ errs \cap result = {} /\ chan = <<>>
  BY DEF EveryTargetAccounted
<1>1. chan = <<>> /\ \A t \in Targets : t \in Reported
  BY DEF IInv, MainInv, Reported, HasReported
<1>2. errs \cup result = Targets
  BY <1>1 DEF IInv, ChanInv, TypeOK, Drained
<1>3. errs \cap result = {}
  BY DEF IInv, ChanInv
<1> QED
  BY <1>1, <1>2, <1>3

\* The drain loop collects the report of every target exactly once, as an error
\* or as a success.
THEOREM TargetsAccounted == Spec => []EveryTargetAccounted
  BY AllCollected, Invariance, PTL

\* Even with the error variable shared by every goroutine, a command that
\* counts errors never returns nil when every target failed.
THEOREM TotalFailureIsReported == Spec => []TotalFailureReported
<1>1. IInv => TotalFailureReported
  <2> SUFFICES ASSUME IInv, main = "returned", cmd.verdict = "count",
                      Targets # {}, \A t \in Targets : failed[t]
               PROVE  verdict = "error"
    BY DEF TotalFailureReported
  <2>1. errs \cup result = Targets
    BY AllCollected DEF EveryTargetAccounted
  <2>2. \A t \in Targets : pc[t] = "exited" /\ own[t] = "error"
    BY DEF IInv, MainInv, FailedInv
  <2>3. PICK w \in Targets : Reader(w)
    BY <2>2 DEF IInv, LastWriterInv, Unwritten
  <2>4. rep[w] = "error"
    BY <2>2, <2>3 DEF Reader, Finished
  <2>5. w \in errs
    BY <2>1, <2>4 DEF IInv, ChanInv
  <2> QED
    BY <2>5 DEF IInv, VerdictInv
<1> QED
  BY <1>1, Invariance, PTL

\* With no failure at all, no error is invented by the races on err.
THEOREM NoAlarmIsFalse == Spec => []NoFalseAlarm
<1>1. IInv => NoFalseAlarm
  <2> SUFFICES ASSUME IInv, main = "returned", ~cmd.render,
                      \A t \in Targets : ~failed[t]
               PROVE  verdict = "nil"
    BY DEF NoFalseAlarm
  <2>1. errs = {}
    BY DEF IInv, ChanInv, OriginInv, TypeOK
  <2> QED
    BY <2>1 DEF IInv, VerdictInv
<1> QED
  BY <1>1, Invariance, PTL

-----------------------------------------------------------------------------
(***************************************************************************)
(* The commands that keep their errors apart implement CollectErrors.      *)
(***************************************************************************)
\* A report of such a command carries its goroutine's own error, and the shared
\* err, if it has one, only ever holds the nil of dials.
ReportInv ==
    /\ \A t \in Targets : Finished(t) => rep[t] = own[t]
    /\ cmd.dial = "outer" =>
         /\ err = "nil"
         /\ \A t \in Targets : pc[t] = "check" => own[t] = "nil"

\* With errors kept apart, a report is of the goroutine's own error.
LEMMA ReportNext ==
  ASSUME TypeOK, KeepsApart(cmd), ReportInv, [Next]_vars
  PROVE  ReportInv'
<1> USE DEF TypeOK, ReportInv, Finished, KeepsApart
<1>1. ASSUME NEW t \in Targets, Spawn(t) \/ Goroutine(t) PROVE ReportInv'
  <2>1. CASE Spawn(t) \/ DialSucceeded(t) \/ OpOnNilClient(t) \/ Send(t) \/ Exit(t)
    BY <2>1 DEF Spawn, DialSucceeded, OpOnNilClient, Send, Exit, goVars
  <2>2. CASE Dial(t)
    BY <2>2 DEF Dial, Assign, ErrVal
  <2>3. CASE DialFailed(t)
    BY <2>3 DEF DialFailed, Report, Reads
  <2>4. CASE Op(t)
    BY <2>4 DEF Op, Assign
  <2>5. CASE OpReport(t)
    BY <2>5 DEF OpReport, Report, Reads
  <2> QED
    BY <1>1, <2>1, <2>2, <2>3, <2>4, <2>5 DEF Goroutine
<1>2. CASE UNCHANGED <<cmd, pc, err, own, rep>>
  BY <1>2
<1> QED
  BY <1>1, <1>2 DEF Next, Main, vars, goVars, SpawnEnd, WaitAndClose, Collect,
                    CollectEnd, Return

\* Every step of such a command is a step of CollectErrors or a stutter.
LEMMA CollectsNext ==
  ASSUME IInv, ReportInv, KeepsApart(cmd), [Next]_vars
  PROVE  Collector!Next \/ UNCHANGED <<Outcome, Blamed, verdict>>
<1> USE DEF IInv, TypeOK
<1>1. CASE Return
  <2>1. \A t \in Targets : pc[t] = "exited" /\ Finished(t)
    BY <1>1 DEF Return, MainInv, Finished
  <2>2. errs \cup result = Targets /\ errs \cap result = {}
    BY <1>1, AllCollected DEF Return, EveryTargetAccounted
  <2>3. Collector!Failures = errs
    <3>1. \A t \in Targets : Outcome[t] = "failed" <=> failed[t]
      BY <2>1 DEF Outcome
    <3>2. \A t \in Targets : failed[t] <=> t \in errs
      BY <2>1, <2>2 DEF ChanInv, FailedInv, ReportInv
    <3> QED
      BY <3>1, <3>2 DEF Collector!Failures
  <2>4. /\ verdict' \in IF errs = {} THEN {"nil", "error"} ELSE {"error"}
        /\ Blamed' = errs /\ Outcome' = Outcome
    BY <1>1 DEF Return, handleErrs, KeepsApart, Blamed, Outcome, Finished, goVars
  <2>5. verdict = "none"
    BY <1>1 DEF Return, VerdictInv
  <2> QED
    BY <2>1, <2>3, <2>4, <2>5 DEF Collector!Return, Collector!Next, Outcome, Blamed
<1>2. ASSUME NEW t \in Targets, DialFailed(t) \/ OpReport(t)
      PROVE  Collector!Next
  <2>1. ~Finished(t) /\ Finished(t)' /\ UNCHANGED <<main, errs, verdict, failed>>
    BY <1>2 DEF DialFailed, OpReport, Report, Finished, mainVars
  <2>2. \A u \in Targets \ {t} : Finished(u)' <=> Finished(u)
    BY <1>2 DEF DialFailed, OpReport, Report, Finished
  <2>3. Outcome[t] = "pending" /\ UNCHANGED <<Blamed, verdict>>
    BY <2>1 DEF Outcome, Blamed
  <2>4. Outcome' = [Outcome EXCEPT ![t] = IF failed[t] THEN "failed" ELSE "ok"]
    BY <2>1, <2>2 DEF Outcome
  <2>5. \E o \in {"ok", "failed"} : Outcome' = [Outcome EXCEPT ![t] = o]
    BY <2>4
  <2>6. Collector!Finish(t)
    BY <2>3, <2>5 DEF Collector!Finish, Outcome, Blamed
  <2> QED
    BY <2>6 DEF Collector!Next
<1>3. ASSUME NEW t \in Targets, Dial(t) \/ Op(t)
      PROVE  UNCHANGED <<Outcome, Blamed, verdict>>
  <2>1. /\ ~Finished(t) /\ ~Finished(t)' /\ UNCHANGED <<main, errs, verdict>>
        /\ \A u \in Targets \ {t} : (Finished(u)' <=> Finished(u))
                                    /\ (failed'[u] <=> failed[u])
    BY <1>3, Zenon DEF Dial, Op, Assign, Finished, mainVars
  <2> QED
    BY <2>1 DEF Outcome, Blamed
<1>4. ASSUME NEW t \in Targets,
             Spawn(t) \/ DialSucceeded(t) \/ OpOnNilClient(t) \/ Send(t) \/ Exit(t)
      PROVE  UNCHANGED <<Outcome, Blamed, verdict>>
  <2>1. /\ UNCHANGED <<errs, verdict, failed>>
        /\ \A u \in Targets : Finished(u)' <=> Finished(u)
        /\ main' = "returned" <=> main = "returned"
    BY <1>4 DEF Spawn, DialSucceeded, OpOnNilClient, Send, Exit, Finished,
                mainVars, goVars, MainInv
  <2> QED
    BY <2>1 DEF Outcome, Blamed
<1>5. CASE SpawnEnd \/ WaitAndClose \/ Collect \/ CollectEnd
  BY <1>5 DEF SpawnEnd, WaitAndClose, Collect, CollectEnd, Outcome, Blamed,
              Finished, goVars
<1>6. CASE UNCHANGED vars
  BY <1>6 DEF vars, goVars, mainVars, Outcome, Blamed, Finished
<1> QED
  BY <1>1, <1>2, <1>3, <1>4, <1>5, <1>6 DEF Next, Main, Goroutine

\* A command does not change its traits.
LEMMA KindFixed == [Next]_vars => cmd' = cmd
  BY DEF Next, Main, Goroutine, vars, Spawn, SpawnEnd, Dial, DialFailed,
         DialSucceeded, Op, OpOnNilClient, OpReport, Send, Exit, WaitAndClose,
         Collect, CollectEnd, Return

\* Such a command stays apart for its whole life.
LEMMA ApartInvariance == Spec => [](IInv /\ (KeepsApart(cmd) => ReportInv))
<1> DEFINE J == IInv /\ (KeepsApart(cmd) => ReportInv)
<1>1. Init => J
  BY IInvInit DEF Init, ReportInv, Finished
<1>2. J /\ [Next]_vars => J'
  <2>1. [Next]_vars => (KeepsApart(cmd)' <=> KeepsApart(cmd))
    BY KindFixed DEF KeepsApart
  <2> QED
    BY <2>1, IInvNext, ReportNext DEF IInv
<1> QED
  BY <1>1, <1>2, PTL DEF Spec

\* containerzDo, RunEServices and any command that declares its errors inside
\* the goroutine return an error naming exactly the targets that failed, whatever
\* the interleaving; so do those that share the dial's error, if no dial fails.
THEOREM ApartCommandsCollectErrors == Spec => CollectsErrors
<1> DEFINE J == IInv /\ (KeepsApart(cmd) => ReportInv)
<1>1. Init => Collector!Init
  BY DEF Init, Collector!Init, Outcome, Blamed, Finished
<1>2. J /\ [Next]_vars
        => [KeepsApart(cmd) => Collector!Next]_<<Outcome, Blamed, verdict>>
  BY CollectsNext
<1> QED
  BY <1>1, <1>2, ApartInvariance, PTL DEF Spec, CollectsErrors

\* A failure that a command swallows is the doing of its shared errors, or of a
\* verdict that does not count them: the commands that keep their errors apart, in
\* any number of goroutines, return an error whenever a target failed.
THEOREM ApartFailuresAreReported == Spec => [](KeepsApart(cmd) => FailureReported)
<1>1. IInv /\ (KeepsApart(cmd) => ReportInv) => (KeepsApart(cmd) => FailureReported)
  <2> SUFFICES ASSUME IInv, ReportInv, KeepsApart(cmd), main = "returned",
                      NEW t \in Targets, failed[t]
               PROVE  verdict = "error"
    BY DEF FailureReported
  <2>1. errs \cup result = Targets
    BY AllCollected DEF EveryTargetAccounted
  <2>2. pc[t] = "exited" /\ own[t] = "error"
    BY DEF IInv, MainInv, FailedInv
  <2>3. rep[t] = "error"
    BY <2>2 DEF ReportInv, Finished
  <2>4. t \in errs
    BY <2>1, <2>3 DEF IInv, ChanInv
  <2> QED
    BY <2>4 DEF IInv, VerdictInv, KeepsApart
<1> QED
  BY <1>1, ApartInvariance, PTL

-----------------------------------------------------------------------------
(* The end of a command: its steps are bounded, and none is waited for in vain *)

\* The steps a goroutine, and the main goroutine without its collecting, can still
\* take.
GoLeft   == [none |-> 7, dial |-> 6, check |-> 5, op |-> 4, done |-> 3, report |-> 2,
             sent |-> 1, exited |-> 0]
MainLeft == [spawn |-> 4, wait |-> 3, drain |-> 2, render |-> 1, returned |-> 0,
             crashed |-> 0]

\* The steps of all goroutines, the reports to collect, and the steps of main.
GoAhead   == {s \in Targets \X (1..7) : s[2] <= GoLeft[pc[s[1]]]}
ToCollect == Targets \ Drained
StepsLeft == Cardinality(GoAhead) + Cardinality(ToCollect) + MainLeft[main]

\* A command of N targets takes at most 8 N + 4 steps, whatever the order in which
\* its goroutines run and fail: each step brings it nearer to its end.
CommandIsBounded ==
    /\ [](StepsLeft \in 0..(8 * Cardinality(Targets) + 4))
    /\ [][StepsLeft' < StepsLeft]_vars

\* While main waits for the WaitGroup some goroutine can take a step: it was started,
\* has not exited, and does not find the channel full.
GoWaits(t) == \/ pc[t] \in {"none", "exited"}
              \/ pc[t] = "report" /\ Len(chan) >= Cardinality(Targets)
CommandNeverStuck == main = "wait" /\ wg # 0 => \E t \in Targets : ~GoWaits(t)

-----------------------------------------------------------------------------
\* The sets counted are finite.
LEMMA AheadFinite ==
    ASSUME TypeOK
    PROVE  /\ IsFiniteSet(GoAhead) /\ IsFiniteSet(ToCollect)
           /\ Cardinality(GoAhead) \in 0..(7 * Cardinality(Targets))
           /\ Cardinality(ToCollect) \in 0..Cardinality(Targets)
           /\ MainLeft[main] \in 0..4
<1>1. IsFiniteSet(1..7) /\ Cardinality(1..7) = 7
  <2>1. 1 \in Int /\ 7 \in Int /\ ~(1 > 7) /\ 7 - 1 + 1 = 7
    OBVIOUS
  <2>2. /\ IsFiniteSet(1..7)
        /\ Cardinality(1..7) = IF 1 > 7 THEN 0 ELSE 7 - 1 + 1
    BY <2>1, FS_Interval
  <2> QED
    BY <2>1, <2>2
<1>2. /\ IsFiniteSet(Targets \X (1..7))
      /\ Cardinality(Targets \X (1..7)) = Cardinality(Targets) * 7
  BY <1>1, FanOutAssumption, FS_Product
<1>3. GoAhead \subseteq Targets \X (1..7) /\ ToCollect \subseteq Targets
  BY DEF GoAhead, ToCollect
<1>4. /\ IsFiniteSet(GoAhead) /\ Cardinality(GoAhead) <= Cardinality(Targets) * 7
      /\ IsFiniteSet(ToCollect) /\ Cardinality(ToCollect) <= Cardinality(Targets)
  BY <1>2, <1>3, FanOutAssumption, FS_Subset
<1>5. /\ Cardinality(GoAhead) \in Nat /\ Cardinality(ToCollect) \in Nat
      /\ Cardinality(Targets) \in Nat
  BY <1>4, FanOutAssumption, FS_CardinalityType
<1>6. MainLeft[main] \in 0..4
  BY DEF TypeOK, MainLeft
<1> QED
  BY <1>4, <1>5, <1>6

\* One goroutine gets on.
LEMMA GoroutineNearer ==
    ASSUME TypeOK, NEW t \in Targets, NEW s,
           s \in {"dial", "check", "op", "done", "report", "sent", "exited"},
           pc' = [pc EXCEPT ![t] = s], GoLeft[s] < GoLeft[pc[t]], UNCHANGED mainVars
    PROVE  StepsLeft' < StepsLeft
<1>1. \A u \in Targets : pc[u] \in DOMAIN GoLeft /\ GoLeft[pc[u]] \in 0..7
  BY DEF TypeOK, GoLeft
<1>2. \A u \in Targets : pc'[u] = IF u = t THEN s ELSE pc[u]
  BY DEF TypeOK
<1>3. GoLeft[s] \in 0..7
  BY DEF GoLeft
<1>4. GoAhead' \subseteq GoAhead
  <2> SUFFICES ASSUME NEW u \in Targets, NEW i \in 1..7, i <= GoLeft[pc'[u]]
               PROVE  i <= GoLeft[pc[u]]
    BY DEF GoAhead
  <2>1. GoLeft[pc'[u]] <= GoLeft[pc[u]]
    BY <1>1, <1>2, <1>3
  <2>2. GoLeft[pc'[u]] \in 0..7 /\ GoLeft[pc[u]] \in 0..7
    BY <1>1, <1>2, <1>3
  <2> QED
    BY <2>1, <2>2
<1>5. <<t, GoLeft[pc[t]]>> \in GoAhead /\ <<t, GoLeft[pc[t]]>> \notin GoAhead'
  <2> DEFINE k == GoLeft[pc[t]]
  <2>1. k \in 1..7 /\ ~(k <= GoLeft[pc'[t]])
    BY <1>1, <1>2, <1>3
  <2> QED
    BY <2>1 DEF GoAhead
<1>6. IsFiniteSet(GoAhead) /\ Cardinality(GoAhead) \in Nat
  BY AheadFinite
<1>7. Cardinality(GoAhead') < Cardinality(GoAhead)
  BY <1>4, <1>5, <1>6, FS_Subset, FS_CardinalityType
<1>8. ToCollect' = ToCollect /\ main' = main
  BY DEF ToCollect, Drained, mainVars
<1>9. Cardinality(GoAhead') \in Nat /\ Cardinality(ToCollect) \in Nat /\ MainLeft[main] \in Nat
  BY <1>4, <1>6, FS_Subset, FS_CardinalityType, AheadFinite
<1> QED
  BY <1>6, <1>7, <1>8, <1>9 DEF StepsLeft

\* The main goroutine gets on.
LEMMA MainNearer ==
    ASSUME TypeOK, UNCHANGED <<pc, errs, result>>, MainLeft[main'] < MainLeft[main],
           main' \in DOMAIN MainLeft
    PROVE  StepsLeft' < StepsLeft
<1>1. GoAhead' = GoAhead /\ ToCollect' = ToCollect
  BY DEF GoAhead, ToCollect, Drained
<1>2. MainLeft[main'] \in Nat
  BY DEF MainLeft
<1>3. Cardinality(GoAhead) \in Nat /\ Cardinality(ToCollect) \in Nat /\ MainLeft[main] \in Nat
  BY AheadFinite
<1> QED
  BY <1>1, <1>2, <1>3 DEF StepsLeft

LEMMA NearerNext == IInv /\ Next => StepsLeft' < StepsLeft
<1> SUFFICES ASSUME IInv, Next PROVE StepsLeft' < StepsLeft
  OBVIOUS
<1>0. TypeOK
  BY DEF IInv
<1>1. ASSUME NEW t \in Targets, Spawn(t) \/ Goroutine(t), ~OpOnNilClient(t)
      PROVE  StepsLeft' < StepsLeft
  <2>1. PICK s \in {"dial", "check", "op", "done", "report", "sent", "exited"} :
            pc' = [pc EXCEPT ![t] = s] /\ GoLeft[s] < GoLeft[pc[t]]
    BY <1>1 DEF Goroutine, Spawn, Dial, DialFailed, DialSucceeded, Op, OpReport, Send, Exit,
                Report, GoLeft
  <2>2. UNCHANGED mainVars
    BY <1>1 DEF Goroutine, Spawn, Dial, DialFailed, DialSucceeded, Op, OpReport, Send, Exit
  <2> QED
    BY <1>0, <2>1, <2>2, GoroutineNearer
<1>2. ASSUME NEW t \in Targets, OpOnNilClient(t)
      PROVE  StepsLeft' < StepsLeft
  <2>1. main \in {"spawn", "wait"} /\ main' = "crashed" /\ UNCHANGED <<pc, errs, result>>
    BY <1>0, <1>2 DEF OpOnNilClient, Alive, goVars, IInv, MainInv, TypeOK
  <2> QED
    BY <1>0, <2>1, MainNearer DEF MainLeft
<1>3. CASE SpawnEnd \/ WaitAndClose \/ CollectEnd \/ Return
  BY <1>0, <1>3, MainNearer DEF SpawnEnd, WaitAndClose, CollectEnd, Return, goVars, MainLeft
<1>4. CASE Collect
  <2>1. Head(chan) \in Targets /\ Head(chan) \notin Drained
    <3>1. chan \in Seq(Targets) /\ chan # <<>> /\ ChanInv
      BY <1>0, <1>4 DEF Collect, TypeOK, IInv
    <3>2. 1 \in 1..Len(chan) /\ Head(chan) = chan[1]
      BY <3>1
    <3> QED
      BY <3>1, <3>2 DEF ChanInv, Reported
  <2>2. Drained' = Drained \cup {Head(chan)} /\ pc' = pc /\ main' = main
    BY <1>4 DEF Collect, Drained, goVars
  <2>3. ToCollect' = ToCollect \ {Head(chan)} /\ Head(chan) \in ToCollect
    BY <2>1, <2>2 DEF ToCollect
  <2>4. Cardinality(ToCollect') = Cardinality(ToCollect) - 1
    BY <1>0, <2>3, AheadFinite, FS_RemoveElement
  <2>5. GoAhead' = GoAhead
    BY <2>2 DEF GoAhead
  <2>6. Cardinality(GoAhead) \in Nat /\ Cardinality(ToCollect) \in Nat /\ MainLeft[main] \in Nat
    BY <1>0, AheadFinite
  <2> QED
    BY <2>2, <2>4, <2>5, <2>6 DEF StepsLeft
<1> QED
  BY <1>1, <1>2, <1>3, <1>4 DEF Next, Main

\* With any number of targets, a command takes at most eight steps for each of them
\* and four of its own: no goroutine, nor main, goes round in a loop.
THEOREM CommandsAreBounded == Spec => CommandIsBounded
<1>1. IInv => StepsLeft \in 0..(8 * Cardinality(Targets) + 4)
  <2> SUFFICES ASSUME IInv PROVE StepsLeft \in 0..(8 * Cardinality(Targets) + 4)
    OBVIOUS
  <2>1. Cardinality(Targets) \in Nat
    BY FanOutAssumption, FS_CardinalityType
  <2>2. /\ Cardinality(GoAhead) \in 0..(7 * Cardinality(Targets))
        /\ Cardinality(ToCollect) \in 0..Cardinality(Targets)
        /\ MainLeft[main] \in 0..4
    BY AheadFinite DEF IInv
  <2> QED
    BY <2>1, <2>2 DEF StepsLeft
<1>2. IInv /\ [Next]_vars => [StepsLeft' < StepsLeft]_vars
  BY NearerNext
<1> QED
  BY <1>1, <1>2, Invariance, PTL DEF Spec, CommandIsBounded

\* A goroutine has been started for every target by the time main waits.
SpawnedInv == main \notin {"spawn", "crashed"} => \A t \in Targets : pc[t] # "none"

LEMMA SpawnedNext == TypeOK /\ SpawnedInv /\ [Next]_vars => SpawnedInv'
<1> SUFFICES ASSUME TypeOK, SpawnedInv, [Next]_vars PROVE SpawnedInv'
  OBVIOUS
<1>1. ASSUME NEW t \in Targets, Spawn(t) \/ Goroutine(t), ~OpOnNilClient(t)
      PROVE  SpawnedInv'
  <2>1. PICK s \in {"dial", "check", "op", "done", "report", "sent", "exited"} :
            pc' = [pc EXCEPT ![t] = s] /\ main' = main
    BY <1>1 DEF Goroutine, Spawn, Dial, DialFailed, DialSucceeded, Op, OpReport, Send, Exit,
                Report, mainVars
  <2> QED
    BY <2>1 DEF SpawnedInv, TypeOK
<1>2. ASSUME NEW t \in Targets, OpOnNilClient(t) PROVE SpawnedInv'
  BY <1>2 DEF OpOnNilClient, SpawnedInv
<1>3. CASE SpawnEnd \/ WaitAndClose \/ Collect \/ CollectEnd \/ Return
  BY <1>3 DEF SpawnEnd, WaitAndClose, Collect, CollectEnd, Return, goVars, SpawnedInv
<1>4. CASE UNCHANGED vars
  BY <1>4 DEF vars, goVars, mainVars, SpawnedInv
<1> QED
  BY <1>1, <1>2, <1>3, <1>4 DEF Next, Main

\* Main does not wait for a WaitGroup that never drains: with any number of targets, as
\* long as the counter is not zero some goroutine is left that nothing blocks.
THEOREM CommandsNeverWaitForever == Spec => []CommandNeverStuck
<1>1. Init => SpawnedInv
  BY DEF Init, SpawnedInv
<1>2. IInv /\ SpawnedInv /\ [Next]_vars => SpawnedInv'
  BY SpawnedNext DEF IInv
<1>3. IInv /\ SpawnedInv /\ SendIsSafe => CommandNeverStuck
  <2> SUFFICES ASSUME IInv, SpawnedInv, SendIsSafe, main = "wait", wg # 0
               PROVE  \E t \in Targets : ~GoWaits(t)
    BY DEF CommandNeverStuck
  <2>1. Running # {}
    BY FS_EmptySet DEF IInv, WaitInv
  <2>2. PICK t \in Targets : pc[t] # "exited"
    BY <2>1 DEF Running
  <2>3. pc[t] # "none"
    BY DEF SpawnedInv
  <2>4. Len(chan) \in Nat /\ Cardinality(Targets) \in Nat
    BY FanOutAssumption, FS_CardinalityType DEF IInv, TypeOK
  <2>5. pc[t] = "report" => Len(chan) < Cardinality(Targets)
    BY DEF SendIsSafe
  <2> QED
    BY <2>2, <2>3, <2>4, <2>5 DEF GoWaits
<1> QED
  BY <1>1, <1>2, <1>3, Invariance, SendsAreSafe, PTL DEF Spec
=============================================================================
