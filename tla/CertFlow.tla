------------------------------- MODULE CertFlow -------------------------------
(***************************************************************************)
(* `gnoic cert install` and `gnoic cert rotate` (app/certInstall.go,       *)
(* app/certRotate.go) on several targets at once.  Each goroutine has its  *)
(* stream to its target; they share the flag --gen-csr, which the          *)
(* goroutine of a target that cannot generate a CSR sets for all of them,  *)
(* and which each reads three times.                                       *)
(*                                                                         *)
(* The devices are external and conform to gnoi.cert: a rotated            *)
(* certificate is on trial until the client finalizes, and is rolled back  *)
(* when the stream ends before that.                                       *)
(***************************************************************************)
EXTENDS Naturals

CONSTANT CertTargets

VARIABLES
    command,  \* "install", "rotate" or "none"
    flag,     \* --gen-csr as the user gave it
    genCSR,   \* a.Config.Cert{Install,Rotate}GenCSR
    canGen,   \* the target generates CSRs
    pc,       \* where the goroutine of a target is
    result,   \* what it returned
    csr,      \* where its CSR comes from
    keys,     \* its LoadCertificate request: has it a key pair
    ask,      \* the request on its stream
    ans,      \* the answer on its stream
    stream,   \* "open", or the status the stream ended with
    cert      \* the device's certificate: "old", "trial" or "new"

certVars == <<command, flag, genCSR, canGen, pc, result, csr, keys, ask, ans, stream, cert>>

CertTypeOK ==
    command # "none" =>
        /\ command \in {"install", "rotate"}
        /\ flag \in BOOLEAN /\ genCSR \in BOOLEAN
        /\ canGen \in [CertTargets -> BOOLEAN]
        /\ pc \in [CertTargets -> {"start", "check", "can", "choose", "generate", "sign",
                                   "load", "finalize", "end", "returned"}]
        /\ result \in [CertTargets -> {"none", "nil", "error"}]
        /\ csr \in [CertTargets -> {"none", "local", "remote"}]
        /\ keys \in [CertTargets -> {"none", "without", "with"}]
        /\ ask \in [CertTargets -> {"none", "GenerateCSR", "LoadCertificate", "Finalize"}]
        /\ ans \in [CertTargets -> {"none", "GeneratedCSR", "LoadCertificate"}]
        /\ stream \in [CertTargets -> {"open", "ok", "error"}]
        /\ cert \in [CertTargets -> {"old", "trial", "new"}]
        /\ \A t \in CertTargets : pc[t] = "returned" <=> result[t] # "none"

CertInit ==
    /\ command \in {"install", "rotate"}
    /\ flag \in BOOLEAN /\ genCSR = flag
    /\ canGen \in [CertTargets -> BOOLEAN]
    /\ pc = [t \in CertTargets |-> "start"]
    /\ result = [t \in CertTargets |-> "none"]
    /\ csr = [t \in CertTargets |-> "none"]
    /\ keys = [t \in CertTargets |-> "none"]
    /\ ask = [t \in CertTargets |-> "none"]
    /\ ans = [t \in CertTargets |-> "none"]
    /\ stream = [t \in CertTargets |-> "open"]
    /\ cert = [t \in CertTargets |-> "old"]

-----------------------------------------------------------------------------
(* The goroutine of a target *)

At(t, s) == pc[t] = s /\ UNCHANGED <<command, flag, canGen, cert>>
CertGoto(t, s) == pc' = [pc EXCEPT ![t] = s] /\ UNCHANGED result
CertReturn(t, r) == /\ pc' = [pc EXCEPT ![t] = "returned"]
                    /\ result' = [result EXCEPT ![t] = r]

\* stream.Send; what is sent after the stream ended is dropped.
CertSend(t, m) == /\ ask' = IF stream[t] = "open" THEN [ask EXCEPT ![t] = m] ELSE ask
                  /\ UNCHANGED <<ans, stream>>

\* stream.Recv
CertRecv(t, m) == /\ ans[t] = m
                  /\ ans' = [ans EXCEPT ![t] = "none"]
                  /\ UNCHANGED <<ask, stream>>

\* The stream is created; --gen-csr is read.
CertStart(t) ==
    /\ At(t, "start")
    /\ CertGoto(t, IF genCSR THEN "choose" ELSE "can")
    /\ UNCHANGED <<genCSR, csr, keys, ask, ans, stream>>

\* Mutant: the flag follows the last target asked.
CertCanGenerateResets(t) ==
    /\ At(t, "can")
    /\ genCSR' = ~canGen[t]
    /\ CertGoto(t, "choose")
    /\ UNCHANGED <<csr, keys, ask, ans, stream>>

\* CanGenerateCSR; a target that cannot sets --gen-csr.
CertCanGenerate(t) ==
    /\ At(t, "can")
    /\ genCSR' = (genCSR \/ ~canGen[t])
    /\ CertGoto(t, "choose")
    /\ UNCHANGED <<csr, keys, ask, ans, stream>>

\* createLocalCSR{Install,Rotate}
CertLocalCSR(t) ==
    /\ At(t, "choose") /\ genCSR
    /\ csr' = [csr EXCEPT ![t] = "local"]
    /\ CertGoto(t, "sign")
    /\ UNCHANGED <<genCSR, keys, ask, ans, stream>>

\* createRemoteCSR{Install,Rotate}: the request, ...
CertAskCSR(t) ==
    /\ At(t, "choose") /\ ~genCSR
    /\ CertSend(t, "GenerateCSR")
    /\ CertGoto(t, "generate")
    /\ UNCHANGED <<genCSR, csr, keys>>

\* ... and the CSR.
CertRemoteCSR(t) ==
    /\ At(t, "generate")
    /\ CertRecv(t, "GeneratedCSR")
    /\ csr' = [csr EXCEPT ![t] = "remote"]
    /\ CertGoto(t, "sign")
    /\ UNCHANGED <<genCSR, keys>>

\* The certificate is signed and loaded, with the key pair if --gen-csr (now).
CertLoad(t) ==
    /\ At(t, "sign")
    /\ keys' = [keys EXCEPT ![t] = IF genCSR THEN "with" ELSE "without"]
    /\ CertSend(t, "LoadCertificate")
    /\ CertGoto(t, "load")
    /\ UNCHANGED <<genCSR, csr>>

\* install: it is loaded.
CertInstalled(t) ==
    /\ At(t, "load") /\ command = "install"
    /\ CertRecv(t, "LoadCertificate")
    /\ CertReturn(t, "nil")
    /\ UNCHANGED <<genCSR, csr, keys>>

\* Mutant: rotate returns once it is loaded.
CertLoadedEarly(t) ==
    /\ At(t, "load") /\ command = "rotate"
    /\ CertRecv(t, "LoadCertificate")
    /\ CertReturn(t, "nil")
    /\ UNCHANGED <<genCSR, csr, keys>>

\* rotate: it is loaded, ...
CertLoaded(t) ==
    /\ At(t, "load") /\ command = "rotate"
    /\ CertRecv(t, "LoadCertificate")
    /\ CertGoto(t, "finalize")
    /\ UNCHANGED <<genCSR, csr, keys>>

\* Mutant: the certificate is not finalized.
CertFinalizeNot(t) ==
    /\ At(t, "finalize")
    /\ CertGoto(t, "end")
    /\ UNCHANGED <<genCSR, csr, keys, ask, ans, stream>>

\* ... and finalized.
CertFinalize(t) ==
    /\ At(t, "finalize")
    /\ CertSend(t, "Finalize")
    /\ CertGoto(t, "end")
    /\ UNCHANGED <<genCSR, csr, keys>>

\* The end of the stream is the success of the rotation.
CertRotated(t) ==
    /\ At(t, "end") /\ stream[t] = "ok"
    /\ CertReturn(t, "nil")
    /\ UNCHANGED <<genCSR, csr, keys, ask, ans, stream>>

\* Mutant: the goroutine ends without an outcome.
CertStepFailsQuietly(t) ==
    /\ \E s \in {"start", "can", "choose", "sign"} : At(t, s)
    /\ pc' = [pc EXCEPT ![t] = "returned"]
    /\ UNCHANGED <<result, genCSR, csr, keys, ask, ans, stream>>

\* A request cannot be built, a CSR made or decoded, a certificate signed, the
\* stream created, or CanGenerateCSR fails.
CertStepFails(t) ==
    /\ \E s \in {"start", "can", "choose", "sign"} : At(t, s)
    /\ CertReturn(t, "error")
    /\ UNCHANGED <<genCSR, csr, keys, ask, ans, stream>>

\* Recv or Send fails: the stream ended, without the answer.
CertStreamFails(t) ==
    /\ \/ \E s \in {"choose", "sign", "finalize"} : At(t, s) /\ stream[t] # "open"
       \/ \E s \in {"generate", "load"} : At(t, s) /\ stream[t] # "open" /\ ans[t] = "none"
       \/ At(t, "end") /\ stream[t] = "error"
    /\ CertReturn(t, "error")
    /\ UNCHANGED <<genCSR, csr, keys, ask, ans, stream>>

-----------------------------------------------------------------------------
(* The devices *)

DevTakes(t, m) == /\ stream[t] = "open" /\ ask[t] = m
                  /\ ask' = [ask EXCEPT ![t] = "none"]
                  /\ UNCHANGED <<command, flag, genCSR, canGen, pc, result, csr, keys>>

DevCSR(t) ==
    /\ DevTakes(t, "GenerateCSR") /\ canGen[t]
    /\ ans' = [ans EXCEPT ![t] = "GeneratedCSR"]
    /\ UNCHANGED <<stream, cert>>

\* It loads a certificate whose private key it has, or is given.
DevLoads(t) == /\ DevTakes(t, "LoadCertificate")
               /\ csr[t] = "remote" \/ keys[t] = "with"

\* The connection may be lost right after the device is done, and what it last
\* answered with it.
DevInstalls(t) ==
    /\ DevLoads(t) /\ command = "install"
    /\ cert' = [cert EXCEPT ![t] = "new"]
    /\ \/ /\ ans' = [ans EXCEPT ![t] = "LoadCertificate"]
          /\ stream' = [stream EXCEPT ![t] = "ok"]
       \/ /\ stream' = [stream EXCEPT ![t] = "error"]
          /\ UNCHANGED ans

DevTries(t) ==
    /\ DevLoads(t) /\ command = "rotate"
    /\ cert' = [cert EXCEPT ![t] = "trial"]
    /\ ans' = [ans EXCEPT ![t] = "LoadCertificate"]
    /\ UNCHANGED stream

DevFinalize(t) ==
    /\ DevTakes(t, "Finalize")
    /\ cert' = [cert EXCEPT ![t] = "new"]
    /\ \E status \in {"ok", "error"} : stream' = [stream EXCEPT ![t] = status]
    /\ UNCHANGED ans

\* The stream ends before the device is done, and a certificate on trial goes.
DevEnds(t) ==
    /\ stream[t] = "open"
    /\ stream' = [stream EXCEPT ![t] = "error"]
    /\ ask' = [ask EXCEPT ![t] = "none"]
    /\ ans' = [ans EXCEPT ![t] = "none"]
    /\ cert' = [cert EXCEPT ![t] = "old"]
    /\ UNCHANGED <<command, flag, genCSR, canGen, pc, result, csr, keys>>

\* It refuses a request.
DevRefuses(t) == ask[t] # "none" /\ DevEnds(t)

\* The connection is lost.
DevLost(t) == pc[t] # "returned" /\ DevEnds(t)

\* The goroutine returned: its context is cancelled and its connection closed.
CertCancel(t) == pc[t] = "returned" /\ DevEnds(t)

-----------------------------------------------------------------------------
CertGoroutine(t) ==
    \/ CertStart(t) \/ CertCanGenerate(t) \/ CertLocalCSR(t) \/ CertAskCSR(t)
    \/ CertRemoteCSR(t) \/ CertLoad(t) \/ CertInstalled(t) \/ CertLoaded(t)
    \/ CertFinalize(t) \/ CertRotated(t) \/ CertStepFails(t) \/ CertStreamFails(t)
DevStep(t) == \/ DevCSR(t) \/ DevInstalls(t) \/ DevTries(t) \/ DevFinalize(t)
              \/ DevRefuses(t)

CertNext == \E t \in CertTargets :
                CertGoroutine(t) \/ DevStep(t) \/ DevLost(t) \/ CertCancel(t)

\* Goroutines are scheduled, and a device answers the requests it gets, or refuses
\* them.  Nothing makes a connection fail.
CertFairness == \A t \in CertTargets : /\ WF_certVars(CertGoroutine(t))
                                       /\ WF_certVars(DevStep(t))

CertSpec == CertInit /\ [][CertNext]_certVars /\ CertFairness

-----------------------------------------------------------------------------
\* A certificate made from a CSR generated here is loaded with its key pair, on
\* every target, whatever the goroutines of the others do to --gen-csr in between.
CertLocalHasKeys ==
    command # "none" =>
        \A t \in CertTargets : csr[t] = "local" => keys[t] # "without"

\* The command succeeds on a target only if its device is left with the new
\* certificate, and not on trial.
CertSuccessIsLoaded ==
    command # "none" =>
        \A t \in CertTargets : result[t] = "nil" => cert[t] = "new"

\* No device is left with a certificate on trial, whichever way the rotation ends.
CertNoneOnTrial ==
    \A t \in CertTargets :
        command # "none" ~> pc[t] = "returned" /\ cert[t] # "trial"

\* Without --gen-csr, gNOIc relies on a target that can generate a CSR to do so,
\* and sends it no key pair.
CertReliesOnTarget ==
    command # "none" /\ ~flag =>
        \A t \in CertTargets : canGen[t] => csr[t] # "local" /\ keys[t] # "with"
=============================================================================
