-------------------------------- MODULE FanOut --------------------------------
(***************************************************************************)
(* The fan-out every gNOIc command is built on (containerzDo and the RunE  *)
(* functions of app/*.go): one goroutine per target dials, runs the RPC    *)
(* and reports on a channel; the main goroutine waits for the WaitGroup,   *)
(* closes the channel, drains it and turns the collected errors into the   *)
(* result of the command.                                                  *)
(*                                                                         *)
(* Most commands assign the error of CreateGrpcClient, and some also the   *)
(* error of the RPC, to the err of the enclosing function.  That variable  *)
(* is then written and read by every goroutine without synchronisation: a  *)
(* read yields either the goroutine's own last write or the latest value   *)
(* any goroutine stored.                                                   *)
(***************************************************************************)
EXTENDS Naturals, Sequences, FiniteSets, CommandCatalogue

CONSTANTS Targets,      \* the targets a.GetTargets() returned
          Commands,     \* the traits of the commands considered
          DialMayFail   \* whether CreateGrpcClient can return an error

ASSUME FanOutAssumption == /\ IsFiniteSet(Targets)
                           /\ Commands \subseteq Traits
                           /\ DialMayFail \in BOOLEAN

VARIABLES
    cmd,      \* the traits of the command that runs
    pc,       \* pc[t]: where the goroutine of t is
    err,      \* the err of the enclosing function
    own,      \* own[t]: the last error value t's goroutine assigned
    failed,   \* failed[t]: the dial or the RPC of t returned an error
    rep,      \* rep[t]: the Err field t's goroutine put in its report
    chan,     \* responseChan: the reports sent and not yet received
    closed,   \* close(responseChan) was called
    wg,       \* the counter of a.wg
    main,     \* where the main goroutine is
    errs,     \* targets whose report was collected as an error
    result,   \* targets whose report was collected as a success
    verdict   \* what the command returned

goVars   == <<pc, err, own, failed, rep>>
mainVars == <<main, errs, result, verdict>>
vars == <<cmd, goVars, chan, closed, wg, mainVars>>

ErrVal == {"nil", "error"}

TypeOK ==
    /\ cmd \in Commands
    /\ pc \in [Targets -> {"none", "dial", "check", "op", "done", "report", "sent", "exited"}]
    /\ err \in ErrVal
    /\ own \in [Targets -> ErrVal]
    /\ failed \in [Targets -> BOOLEAN]
    /\ rep \in [Targets -> ErrVal]
    /\ chan \in Seq(Targets)
    /\ closed \in BOOLEAN
    /\ wg \in Nat
    /\ main \in {"spawn", "wait", "drain", "render", "returned", "crashed"}
    /\ errs \subseteq Targets
    /\ result \subseteq Targets
    /\ verdict \in {"none", "nil", "error"}

-----------------------------------------------------------------------------
\* GetTargets succeeded, the channel was made with room for every target and
\* a.wg.Add(numTargets) was called.
Init ==
    /\ cmd \in Commands
    /\ pc = [t \in Targets |-> "none"]
    /\ err = "nil"
    /\ own = [t \in Targets |-> "nil"]
    /\ failed = [t \in Targets |-> FALSE]
    /\ rep = [t \in Targets |-> "nil"]
    /\ chan = <<>>
    /\ closed = FALSE
    /\ wg = Cardinality(Targets)
    /\ main = "spawn"
    /\ errs = {} /\ result = {}
    /\ verdict = "none"

Alive == main # "crashed"

\* for _, t := range targets { go func(t *api.Target) {...}(t) }
Spawn(t) ==
    /\ main = "spawn"
    /\ pc[t] = "none"
    /\ pc' = [pc EXCEPT ![t] = "dial"]
    /\ UNCHANGED <<cmd, err, own, failed, rep, chan, closed, wg, mainVars>>

SpawnEnd ==
    /\ main = "spawn"
    /\ \A t \in Targets : pc[t] # "none"
    /\ main' = "wait"
    /\ UNCHANGED <<cmd, goVars, chan, closed, wg, errs, result, verdict>>

\* Store error value v of goroutine t in the variable named by where.
Assign(t, where, v) ==
    /\ own' = [own EXCEPT ![t] = v]
    /\ failed' = [failed EXCEPT ![t] = @ \/ v = "error"]
    /\ err' = IF where = "outer" THEN v ELSE err

\* Mutant: every error is read from the err of the enclosing function.
ReadsShared(t, where) == {own[t], err}

\* What a read of the variable named by where may yield in goroutine t.
Reads(t, where) == IF where = "outer" THEN {own[t], err} ELSE {own[t]}

\* err = t.CreateGrpcClient(ctx, a.createBaseDialOpts()...)
Dial(t) ==
    /\ Alive /\ pc[t] = "dial"
    /\ \E v \in IF DialMayFail THEN ErrVal ELSE {"nil"} : Assign(t, cmd.dial, v)
    /\ pc' = [pc EXCEPT ![t] = "check"]
    /\ UNCHANGED <<cmd, rep, chan, closed, wg, mainVars>>

\* Build a report; its Err field is read again, after the check.
Report(t, where) ==
    /\ \E v \in Reads(t, where) : rep' = [rep EXCEPT ![t] = v]
    /\ pc' = [pc EXCEPT ![t] = "report"]

\* Mutant: the goroutine of a failed dial returns without a report.
DialFailedSilently(t) ==
    /\ Alive /\ pc[t] = "check"
    /\ "error" \in Reads(t, cmd.dial)
    /\ pc' = [pc EXCEPT ![t] = "sent"]
    /\ UNCHANGED <<cmd, err, own, failed, rep, chan, closed, wg, mainVars>>

\* if err != nil { responseChan <- ...; return }
DialFailed(t) ==
    /\ Alive /\ pc[t] = "check"
    /\ "error" \in Reads(t, cmd.dial)
    /\ Report(t, cmd.dial)
    /\ UNCHANGED <<cmd, err, own, failed, chan, closed, wg, mainVars>>

DialSucceeded(t) ==
    /\ Alive /\ pc[t] = "check"
    /\ "nil" \in Reads(t, cmd.dial)
    /\ pc' = [pc EXCEPT ![t] = "op"]
    /\ UNCHANGED <<cmd, err, own, failed, rep, chan, closed, wg, mainVars>>

\* The RPC is run on the client the dial made.
Op(t) ==
    /\ Alive /\ pc[t] = "op"
    /\ own[t] = "nil"
    /\ \E v \in ErrVal : Assign(t, cmd.op, v)
    /\ pc' = [pc EXCEPT ![t] = "done"]
    /\ UNCHANGED <<cmd, rep, chan, closed, wg, mainVars>>

\* The dial failed, another goroutine's nil hid it: the RPC is run on a nil
\* connection and the process panics.
OpOnNilClient(t) ==
    /\ Alive /\ pc[t] = "op"
    /\ own[t] = "error"
    /\ main' = "crashed"
    /\ UNCHANGED <<cmd, goVars, chan, closed, wg, errs, result, verdict>>

\* Mutant: the report is built without its Err field.
OpReportNoErr(t) ==
    /\ Alive /\ pc[t] = "done"
    /\ pc' = [pc EXCEPT ![t] = "report"]
    /\ UNCHANGED <<cmd, err, own, failed, rep, chan, closed, wg, mainVars>>

\* responseChan is sent the answer and the error of the RPC.
OpReport(t) ==
    /\ Alive /\ pc[t] = "done"
    /\ Report(t, cmd.op)
    /\ UNCHANGED <<cmd, err, own, failed, chan, closed, wg, mainVars>>

\* responseChan <- report; the channel has room for numTargets reports.
Send(t) ==
    /\ Alive /\ pc[t] = "report"
    /\ Len(chan) < Cardinality(Targets)
    /\ chan' = Append(chan, t)
    /\ pc' = [pc EXCEPT ![t] = "sent"]
    /\ UNCHANGED <<cmd, err, own, failed, rep, closed, wg, mainVars>>

\* Mutants: Done is called twice, or never.
ExitTwice(t) ==
    /\ Alive /\ pc[t] = "sent"
    /\ wg' = wg - 2
    /\ pc' = [pc EXCEPT ![t] = "exited"]
    /\ UNCHANGED <<cmd, err, own, failed, rep, chan, closed, mainVars>>

ExitWithoutDone(t) ==
    /\ Alive /\ pc[t] = "sent"
    /\ pc' = [pc EXCEPT ![t] = "exited"]
    /\ UNCHANGED <<cmd, err, own, failed, rep, chan, closed, wg, mainVars>>

\* defer a.wg.Done()
Exit(t) ==
    /\ Alive /\ pc[t] = "sent"
    /\ wg' = wg - 1
    /\ pc' = [pc EXCEPT ![t] = "exited"]
    /\ UNCHANGED <<cmd, err, own, failed, rep, chan, closed, mainVars>>

\* Mutant: the channel is closed without waiting for the goroutines.
CloseEarly ==
    /\ main = "wait"
    /\ closed' = TRUE
    /\ main' = "drain"
    /\ UNCHANGED <<cmd, goVars, chan, wg, errs, result, verdict>>

\* a.wg.Wait(); close(responseChan)
WaitAndClose ==
    /\ main = "wait"
    /\ wg = 0
    /\ closed' = TRUE
    /\ main' = "drain"
    /\ UNCHANGED <<cmd, goVars, chan, wg, errs, result, verdict>>

\* for rsp := range responseChan { if rsp.Err != nil {...} }
Collect ==
    /\ main = "drain"
    /\ chan # <<>>
    /\ chan' = Tail(chan)
    /\ IF rep[Head(chan)] = "error"
       THEN errs' = errs \cup {Head(chan)} /\ UNCHANGED result
       ELSE result' = result \cup {Head(chan)} /\ UNCHANGED errs
    /\ UNCHANGED <<cmd, goVars, closed, wg, main, verdict>>

CollectEnd ==
    /\ main = "drain"
    /\ chan = <<>>
    /\ main' = "render"
    /\ UNCHANGED <<cmd, goVars, chan, closed, wg, errs, result, verdict>>

\* Mutant: the error that counts the failures is built even when there is none.
handleErrsAlways(es) == "error"

\* handleErrs: an error iff errs is not empty.
handleErrs(es) == IF es = {} THEN "nil" ELSE "error"

\* The end of the command: its answers are printed, then the verdict returned.
Return ==
    /\ main = "render"
    /\ main' = "returned"
    /\ \/ /\ \/ cmd.verdict = "count"
             \/ cmd.verdict = "nilIfEmpty" /\ result # {}
          /\ verdict' = handleErrs(errs)
       \/ /\ cmd.verdict = "nil" \/ (cmd.verdict = "nilIfEmpty" /\ result = {})
          /\ verdict' = "nil"
       \/ /\ cmd.render /\ result # {}
          /\ verdict' = "error"
    /\ UNCHANGED <<cmd, goVars, chan, closed, wg, errs, result>>

Goroutine(t) == \/ Dial(t) \/ DialFailed(t) \/ DialSucceeded(t)
                \/ Op(t) \/ OpOnNilClient(t) \/ OpReport(t) \/ Send(t)
                \/ Exit(t)

Main == \/ \E t \in Targets : Spawn(t)
        \/ SpawnEnd \/ WaitAndClose \/ Collect \/ CollectEnd \/ Return

Next == Main \/ \E t \in Targets : Goroutine(t)

Spec == Init /\ [][Next]_vars

\* The Go scheduler runs every goroutine that can run; a dial or an RPC
\* returns, with an answer or an error (the liveness of the server).
FairSpec == /\ Spec
            /\ WF_vars(Main)
            /\ \A t \in Targets : WF_vars(Goroutine(t))

-----------------------------------------------------------------------------
(***************************************************************************)
(* Properties                                                              *)
(***************************************************************************)
HasReported(t) == pc[t] \in {"sent", "exited"}

\* A report never finds the channel full and never finds it closed: no
\* goroutine can block in its send, or panic in it, whatever the others do.
SendIsSafe ==
    \A t \in Targets : pc[t] = "report" => /\ ~closed
                                           /\ Len(chan) < Cardinality(Targets)

\* When the verdict is formed every target's report has been collected, once,
\* as an error or as a success: the drain loop misses none and counts none
\* twice.
EveryTargetAccounted ==
    main \in {"render", "returned"} =>
        /\ errs \cup result = Targets
        /\ errs \cap result = {}
        /\ chan = <<>>

\* A command that counts errors does not return nil when every target failed,
\* even when the error variable is shared: the last goroutine to store into
\* it reads its own failure back.
TotalFailureReported ==
    /\ main = "returned" /\ cmd.verdict = "count"
    /\ Targets # {} /\ \A t \in Targets : failed[t]
    => verdict = "error"

\* A target that did not fail is never reported as failed unless another one
\* did: with no failure at all the command returns nil.
NoFalseAlarm ==
    /\ main = "returned" /\ ~cmd.render
    /\ \A t \in Targets : ~failed[t]
    => verdict = "nil"

\* The failure of any target makes the command return an error.
FailureReported ==
    /\ main = "returned"
    /\ \E t \in Targets : failed[t]
    => verdict = "error"

\* The command comes to an end, whatever the order in which its goroutines
\* run and fail: main is not left waiting for a WaitGroup that never drains.
CommandEnds == <>(main \in {"returned", "crashed"})

\* The commands whose goroutines cannot disturb each other: those that keep both
\* errors to themselves, and, where no dial can fail, those that share the dial's.
KeepsApart(c) == /\ c.op = "own" /\ c.verdict = "count"
                 /\ c.dial = "own" \/ ~DialMayFail

Finished(t) == pc[t] \in {"report", "sent", "exited"}
Outcome == [t \in Targets |-> IF ~Finished(t) THEN "pending"
                              ELSE IF failed[t] THEN "failed" ELSE "ok"]
Blamed  == IF main = "returned" THEN errs ELSE {}

Collector == INSTANCE CollectErrors WITH outcome <- Outcome, blamed <- Blamed

\* Such a command behaves as module CollectErrors has it: its goroutines'
\* failures, and nothing else, decide its verdict.  (A command never changes its
\* traits, so for each this is Collector!Spec.)
CollectsErrors ==
    /\ KeepsApart(cmd) => Collector!Init
    /\ [][KeepsApart(cmd) => Collector!Next]_<<Outcome, Blamed, verdict>>
=============================================================================
