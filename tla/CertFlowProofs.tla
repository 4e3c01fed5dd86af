---------------------------- MODULE CertFlowProofs ----------------------------
(***************************************************************************)
(* Proofs about module CertFlow, for any set of targets: the goroutines of *)
(* any number of targets share --gen-csr.                                  *)
(***************************************************************************)
EXTENDS CertFlow, TLAPS

\* The inductive invariant.  A CSR is generated here only after --gen-csr is set,
\* which nothing resets, so it is still set when the certificate is loaded.
CertKeysInv ==
    \A t \in CertTargets :
        /\ csr[t] = "local" => genCSR /\ keys[t] # "without"
        /\ keys[t] # "none" => pc[t] \in {"load", "finalize", "end", "returned"}
\* A stream ends normally only when its device is done with the new certificate,
\* and only then does a goroutine succeed.
CertDoneInv ==
    \A t \in CertTargets :
        /\ stream[t] = "ok" => cert[t] = "new"
        /\ command = "install" /\ ans[t] = "LoadCertificate" => stream[t] = "ok"
        /\ result[t] = "nil" => stream[t] = "ok"
CertIInv == command # "none" /\ CertTypeOK /\ CertKeysInv /\ CertDoneInv

LEMMA CertInitInv == CertInit => CertIInv
BY DEF CertInit, CertIInv, CertTypeOK, CertKeysInv, CertDoneInv

\* A step of the goroutine of t, with what it may change.
LEMMA CertGoroutineNext ==
    ASSUME NEW t \in CertTargets, CertIInv, CertGoroutine(t)
    PROVE  CertIInv'
<1> USE DEF CertIInv, CertTypeOK
<1>1. CASE CertStart(t) \/ CertCanGenerate(t)
  <2>1. /\ UNCHANGED <<command, flag, canGen, cert, csr, keys, ask, ans, stream, result>>
        /\ pc[t] \in {"start", "can"}
        /\ pc' = [pc EXCEPT ![t] = "choose"] \/ pc' = [pc EXCEPT ![t] = "can"]
        /\ genCSR' \in BOOLEAN /\ (genCSR => genCSR')
    BY <1>1 DEF CertStart, CertCanGenerate, At, CertGoto
  <2>2. CertTypeOK'
    BY <2>1
  <2>3. CertKeysInv'
    BY <2>1 DEF CertKeysInv
  <2>4. CertDoneInv'
    BY <2>1 DEF CertDoneInv
  <2> QED
    BY <2>1, <2>2, <2>3, <2>4
<1>2. CASE CertLocalCSR(t) \/ CertAskCSR(t) \/ CertRemoteCSR(t)
  <2>1. /\ UNCHANGED <<command, flag, canGen, cert, genCSR, keys, stream, result>>
        /\ pc[t] \in {"choose", "generate"}
        /\ pc' = [pc EXCEPT ![t] = "sign"] \/ pc' = [pc EXCEPT ![t] = "generate"]
    BY <1>2 DEF CertLocalCSR, CertAskCSR, CertRemoteCSR, At, CertGoto, CertSend, CertRecv
  <2>2. \/ csr' = csr
        \/ csr' = [csr EXCEPT ![t] = "local"] /\ genCSR
        \/ csr' = [csr EXCEPT ![t] = "remote"]
    BY <1>2 DEF CertLocalCSR, CertAskCSR, CertRemoteCSR
  <2>3. /\ ask' = ask \/ ask' = [ask EXCEPT ![t] = "GenerateCSR"]
        /\ ans' = ans \/ ans' = [ans EXCEPT ![t] = "none"]
    BY <1>2 DEF CertLocalCSR, CertAskCSR, CertRemoteCSR, CertSend, CertRecv
  <2>4. CertTypeOK'
    BY <2>1, <2>2, <2>3
  <2>5. CertKeysInv'
    BY <2>1, <2>2 DEF CertKeysInv
  <2>6. CertDoneInv'
    BY <2>1, <2>3 DEF CertDoneInv
  <2> QED
    BY <2>1, <2>4, <2>5, <2>6
<1>3. CASE CertLoad(t)
  <2>1. /\ UNCHANGED <<command, flag, canGen, cert, genCSR, csr, ans, stream, result>>
        /\ pc' = [pc EXCEPT ![t] = "load"] /\ pc[t] = "sign"
        /\ ask' = ask \/ ask' = [ask EXCEPT ![t] = "LoadCertificate"]
        /\ keys' = [keys EXCEPT ![t] = IF genCSR THEN "with" ELSE "without"]
    BY <1>3 DEF CertLoad, At, CertGoto, CertSend
  <2>2. CertTypeOK'
    BY <2>1
  <2>3. CertKeysInv'
    BY <2>1 DEF CertKeysInv
  <2>4. CertDoneInv'
    BY <2>1 DEF CertDoneInv
  <2> QED
    BY <2>1, <2>2, <2>3, <2>4
<1>4. CASE CertLoaded(t) \/ CertFinalize(t)
  <2>1. /\ UNCHANGED <<command, flag, canGen, cert, genCSR, csr, keys, stream, result>>
        /\ pc[t] \in {"load", "finalize"}
        /\ pc' = [pc EXCEPT ![t] = "finalize"] \/ pc' = [pc EXCEPT ![t] = "end"]
        /\ ask' = ask \/ ask' = [ask EXCEPT ![t] = "Finalize"]
        /\ ans' = ans \/ ans' = [ans EXCEPT ![t] = "none"]
    BY <1>4 DEF CertLoaded, CertFinalize, At, CertGoto, CertSend, CertRecv
  <2>2. CertTypeOK'
    BY <2>1
  <2>3. CertKeysInv'
    BY <2>1 DEF CertKeysInv
  <2>4. CertDoneInv'
    BY <2>1 DEF CertDoneInv
  <2> QED
    BY <2>1, <2>2, <2>3, <2>4
<1>5. CASE CertInstalled(t) \/ CertRotated(t) \/ CertStepFails(t) \/ CertStreamFails(t)
  <2>1. PICK r \in {"nil", "error"} :
            /\ CertReturn(t, r)
            /\ UNCHANGED <<command, flag, canGen, cert, genCSR, csr, keys, ask, stream>>
            /\ ans' = ans \/ ans' = [ans EXCEPT ![t] = "none"]
            /\ r = "nil" => stream[t] = "ok"
    BY <1>5
    DEF CertInstalled, CertRotated, CertStepFails, CertStreamFails, At, CertRecv, CertDoneInv
  <2>2. /\ pc' = [pc EXCEPT ![t] = "returned"] /\ result' = [result EXCEPT ![t] = r]
    BY <2>1 DEF CertReturn
  <2>3. CertTypeOK'
    BY <2>1, <2>2
  <2>4. CertKeysInv'
    BY <2>1, <2>2 DEF CertKeysInv
  <2>5. CertDoneInv'
    BY <2>1, <2>2 DEF CertDoneInv
  <2> QED
    BY <2>1, <2>3, <2>4, <2>5
<1> QED
  BY <1>1, <1>2, <1>3, <1>4, <1>5 DEF CertGoroutine

\* A step of the device of t, or the end of its stream.
LEMMA CertDeviceNext ==
    ASSUME NEW t \in CertTargets, CertIInv, DevStep(t) \/ DevLost(t) \/ CertCancel(t)
    PROVE  CertIInv'
<1> USE DEF CertIInv, CertTypeOK
<1>1. /\ UNCHANGED <<command, flag, genCSR, canGen, pc, result, csr, keys>>
      /\ stream[t] = "open"
      /\ ask' = [ask EXCEPT ![t] = "none"]
  BY DEF DevStep, DevLost, CertCancel, DevCSR, DevInstalls, DevTries, DevFinalize, DevRefuses,
         DevLoads, DevTakes, DevEnds
<1>2. \/ /\ ans' = [ans EXCEPT ![t] = "GeneratedCSR"] /\ UNCHANGED <<stream, cert>>
      \/ /\ command = "rotate" /\ cert' = [cert EXCEPT ![t] = "trial"] /\ stream' = stream
         /\ ans' = [ans EXCEPT ![t] = "LoadCertificate"]
      \/ /\ cert' = [cert EXCEPT ![t] = "new"] /\ stream' = [stream EXCEPT ![t] = "ok"]
         /\ ans' = [ans EXCEPT ![t] = "LoadCertificate"] \/ ans' = ans
      \/ /\ cert' = [cert EXCEPT ![t] = "new"] \/ cert' = [cert EXCEPT ![t] = "old"]
         /\ stream' = [stream EXCEPT ![t] = "error"]
         /\ ans' = [ans EXCEPT ![t] = "none"] \/ ans' = ans
  BY DEF DevStep, DevLost, CertCancel, DevCSR, DevInstalls, DevTries, DevFinalize, DevRefuses,
         DevLoads, DevTakes, DevEnds
<1>3. CertTypeOK'
  BY <1>1, <1>2
<1>4. CertKeysInv'
  BY <1>1 DEF CertKeysInv
<1>5. CertDoneInv'
  BY <1>1, <1>2 DEF CertDoneInv
<1> QED
  BY <1>1, <1>3, <1>4, <1>5

LEMMA CertInductive == CertSpec => []CertIInv
<1>1. CertIInv /\ [CertNext]_certVars => CertIInv'
  <2> SUFFICES ASSUME CertIInv, [CertNext]_certVars PROVE CertIInv'
    OBVIOUS
  <2>1. CASE CertNext
    BY <2>1, CertGoroutineNext, CertDeviceNext DEF CertNext
  <2>2. CASE UNCHANGED certVars
    BY <2>2 DEF certVars, CertIInv, CertTypeOK, CertKeysInv, CertDoneInv
  <2> QED
    BY <2>1, <2>2
<1> QED
  BY <1>1, CertInitInv, PTL DEF CertSpec

\* With any number of targets a goroutine that ended has an outcome, and one that
\* has an outcome ended.
THEOREM CertTypeCorrect == CertSpec => []CertTypeOK
<1>1. CertIInv => CertTypeOK
  BY DEF CertIInv
<1> QED
  BY <1>1, CertInductive, PTL

\* With any number of targets, a certificate made from a CSR generated here is
\* loaded with its key pair, whatever the other goroutines do to --gen-csr between
\* the three times it is read.
THEOREM CertLocalsHaveKeys == CertSpec => []CertLocalHasKeys
<1>1. CertIInv => CertLocalHasKeys
  BY DEF CertIInv, CertKeysInv, CertLocalHasKeys
<1> QED
  BY <1>1, CertInductive, PTL

\* With any number of targets, `gnoic cert install` and `gnoic cert rotate` succeed
\* on a target only if its device keeps the new certificate.
THEOREM CertSuccessesAreLoaded == CertSpec => []CertSuccessIsLoaded
<1>1. CertIInv => CertSuccessIsLoaded
  BY DEF CertIInv, CertDoneInv, CertSuccessIsLoaded
<1> QED
  BY <1>1, CertInductive, PTL

\* The inductive invariant of targets that generate their own CSRs: nothing sets
\* --gen-csr, and nothing is done locally.
CertRemoteInv ==
    /\ \A t \in CertTargets : canGen[t]
    /\ ~genCSR
    /\ \A t \in CertTargets : csr[t] # "local" /\ keys[t] # "with"

LEMMA CertRemoteNext ==
    CertTypeOK /\ command # "none" /\ CertRemoteInv /\ [CertNext]_certVars => CertRemoteInv'
<1> SUFFICES ASSUME CertTypeOK, command # "none", CertRemoteInv, [CertNext]_certVars
             PROVE  CertRemoteInv'
  OBVIOUS
<1> USE DEF CertTypeOK, CertRemoteInv
<1>1. ASSUME NEW t \in CertTargets, CertGoroutine(t)
      PROVE  CertRemoteInv'
  <2>1. canGen' = canGen
    BY <1>1 DEF CertGoroutine, CertStart, CertCanGenerate, CertLocalCSR, CertAskCSR,
                CertRemoteCSR, CertLoad, CertInstalled, CertLoaded, CertFinalize,
                CertRotated, CertStepFails, CertStreamFails, At
  <2>2. genCSR' = genCSR
    BY <1>1 DEF CertGoroutine, CertStart, CertCanGenerate, CertLocalCSR, CertAskCSR,
                CertRemoteCSR, CertLoad, CertInstalled, CertLoaded, CertFinalize,
                CertRotated, CertStepFails, CertStreamFails
  <2>3. csr' = csr \/ csr' = [csr EXCEPT ![t] = "remote"]
    BY <1>1 DEF CertGoroutine, CertStart, CertCanGenerate, CertLocalCSR, CertAskCSR,
                CertRemoteCSR, CertLoad, CertInstalled, CertLoaded, CertFinalize,
                CertRotated, CertStepFails, CertStreamFails
  <2>4. keys' = keys \/ keys' = [keys EXCEPT ![t] = "without"]
    BY <1>1 DEF CertGoroutine, CertStart, CertCanGenerate, CertLocalCSR, CertAskCSR,
                CertRemoteCSR, CertLoad, CertInstalled, CertLoaded, CertFinalize,
                CertRotated, CertStepFails, CertStreamFails
  <2> QED
    BY <2>1, <2>2, <2>3, <2>4
<1>2. ASSUME NEW t \in CertTargets, DevStep(t) \/ DevLost(t) \/ CertCancel(t)
      PROVE  CertRemoteInv'
  BY <1>2 DEF DevStep, DevLost, CertCancel, DevCSR, DevInstalls, DevTries, DevFinalize,
              DevRefuses, DevLoads, DevTakes, DevEnds
<1>3. CASE UNCHANGED certVars
  BY <1>3 DEF certVars
<1> QED
  BY <1>1, <1>2, <1>3 DEF CertNext

\* That a target which can generate a CSR is sent a key pair made here is the doing
\* of another that cannot: where all of them can and the user did not ask for
\* --gen-csr, none is, with any number of targets.
THEOREM CertReliesOnCapableTargets ==
    CertSpec /\ (\A t \in CertTargets : canGen[t]) => []CertReliesOnTarget
<1>1. CertInit /\ (\A t \in CertTargets : canGen[t]) => flag \/ CertRemoteInv
  BY DEF CertInit, CertRemoteInv
<1>2. /\ CertIInv /\ (flag \/ CertRemoteInv) /\ [CertNext]_certVars
      => (flag \/ CertRemoteInv)'
  <2>1. [CertNext]_certVars => flag' = flag
    BY DEF CertNext, certVars, CertGoroutine, CertStart, CertCanGenerate, CertLocalCSR,
           CertAskCSR, CertRemoteCSR, CertLoad, CertInstalled, CertLoaded, CertFinalize,
           CertRotated, CertStepFails, CertStreamFails, At, DevStep, DevLost, CertCancel,
           DevCSR, DevInstalls, DevTries, DevFinalize, DevRefuses, DevLoads, DevTakes, DevEnds
  <2> QED
    BY <2>1, CertRemoteNext DEF CertIInv
<1>3. flag \/ CertRemoteInv => CertReliesOnTarget
  BY DEF CertRemoteInv, CertReliesOnTarget
<1> QED
  BY <1>1, <1>2, <1>3, CertInductive, PTL DEF CertSpec

-----------------------------------------------------------------------------
(* The exchange with one device, and its end *)

\* What is on the stream of a target goes with the place of its goroutine: a request or
\* its answer where the goroutine waits for one, and nothing elsewhere.  A certificate is
\* on trial only while its goroutine is still there to finalize it.
Quiet(t, asked, answered) == ask[t] = asked /\ ans[t] = answered
CertOpen(t) ==
    /\ pc[t] = "generate" =>
           Quiet(t, "GenerateCSR", "none") \/ Quiet(t, "none", "GeneratedCSR")
    /\ pc[t] = "load" =>
           Quiet(t, "LoadCertificate", "none") \/ Quiet(t, "none", "LoadCertificate")
    /\ pc[t] = "end" => Quiet(t, "Finalize", "none")
    /\ pc[t] \notin {"generate", "load", "end"} => Quiet(t, "none", "none")
CertClosed(t) == /\ ask[t] = "none"
                 /\ ans[t] # "none" => ans[t] = "LoadCertificate" /\ pc[t] = "load"
CertExchange(t) ==
    /\ pc[t] # "check"
    /\ IF stream[t] = "open" THEN CertOpen(t) ELSE CertClosed(t)
    /\ cert[t] = "trial" => stream[t] = "open" /\ pc[t] \in {"load", "finalize", "end"}
CertExchangeInv == \A t \in CertTargets : CertExchange(t)

\* What a target has still to do, with what is on its stream, and that it is open.
CertRanks == [start |-> 11, can |-> 10, choose |-> 9, generate |-> 7, sign |-> 6, load |-> 4,
              finalize |-> 3, end |-> 1, returned |-> 0]
CertLeft(t) == CertRanks[pc[t]] + (IF ask[t] = "none" THEN 0 ELSE 1)
               + (IF stream[t] = "open" THEN 1 ELSE 0)

\* Each step brings one target nearer to its end and leaves the others where they are, in
\* spite of the flag they share: a command takes at most twelve steps for each target.
CertIsBounded ==
    /\ [](\A t \in CertTargets : CertLeft(t) \in 0..12)
    /\ [][\E t \in CertTargets :
              /\ CertLeft(t)' < CertLeft(t)
              /\ \A u \in CertTargets \ {t} : CertLeft(u)' = CertLeft(u)]_certVars

\* A goroutine that has not returned waits for the answer of its device only while the
\* device has a request to answer or to refuse, or the stream has not ended.
CertWaits(t) ==
    \/ pc[t] = "generate" /\ ans[t] # "GeneratedCSR" /\ ~(stream[t] # "open" /\ ans[t] = "none")
    \/ pc[t] = "load" /\ ans[t] # "LoadCertificate" /\ ~(stream[t] # "open" /\ ans[t] = "none")
    \/ pc[t] = "end" /\ stream[t] = "open"
    \/ pc[t] = "check"
DevWaits(t) == stream[t] # "open" \/ ask[t] = "none"
CertNeverStuck == \A t \in CertTargets : ~(CertWaits(t) /\ DevWaits(t))

\* A device has a certificate on trial only while the goroutine of its target has not
\* returned and its stream is open.
CertTrialIsHeld ==
    \A t \in CertTargets : cert[t] = "trial" => pc[t] # "returned" /\ stream[t] = "open"

\* A step of one target leaves the streams, goroutines and devices of the others alone.
LEMMA CertOthersKept ==
    ASSUME CertTypeOK, command # "none",
           NEW t \in CertTargets, NEW u \in CertTargets, u # t,
           CertGoroutine(t) \/ DevStep(t) \/ DevLost(t) \/ CertCancel(t)
    PROVE  /\ pc'[u] = pc[u] /\ ask'[u] = ask[u] /\ ans'[u] = ans[u]
           /\ stream'[u] = stream[u] /\ cert'[u] = cert[u]
<1> USE DEF CertTypeOK
<1>1. CASE CertGoroutine(t)
  <2>1. pc'[u] = pc[u]
    BY <1>1 DEF CertGoroutine, CertStart, CertCanGenerate, CertLocalCSR, CertAskCSR,
                CertRemoteCSR, CertLoad, CertInstalled, CertLoaded, CertFinalize,
                CertRotated, CertStepFails, CertStreamFails, CertGoto, CertReturn
  <2>2. ask'[u] = ask[u]
    BY <1>1 DEF CertGoroutine, CertStart, CertCanGenerate, CertLocalCSR, CertAskCSR,
                CertRemoteCSR, CertLoad, CertInstalled, CertLoaded, CertFinalize,
                CertRotated, CertStepFails, CertStreamFails, CertSend, CertRecv
  <2>3. ans'[u] = ans[u]
    BY <1>1 DEF CertGoroutine, CertStart, CertCanGenerate, CertLocalCSR, CertAskCSR,
                CertRemoteCSR, CertLoad, CertInstalled, CertLoaded, CertFinalize,
                CertRotated, CertStepFails, CertStreamFails, CertSend, CertRecv
  <2>4. stream' = stream
    BY <1>1 DEF CertGoroutine, CertStart, CertCanGenerate, CertLocalCSR, CertAskCSR,
                CertRemoteCSR, CertLoad, CertInstalled, CertLoaded, CertFinalize,
                CertRotated, CertStepFails, CertStreamFails, CertSend, CertRecv
  <2>5. cert' = cert
    BY <1>1 DEF CertGoroutine, CertStart, CertCanGenerate, CertLocalCSR, CertAskCSR,
                CertRemoteCSR, CertLoad, CertInstalled, CertLoaded, CertFinalize,
                CertRotated, CertStepFails, CertStreamFails, At
  <2> QED
    BY <2>1, <2>2, <2>3, <2>4, <2>5
<1>2. CASE DevStep(t) \/ DevLost(t) \/ CertCancel(t)
  <2>1. pc' = pc /\ ask' = [ask EXCEPT ![t] = "none"]
    BY <1>2 DEF DevStep, DevLost, CertCancel, DevCSR, DevInstalls, DevTries, DevFinalize,
                DevRefuses, DevLoads, DevTakes, DevEnds
  <2>2. ans'[u] = ans[u]
    BY <1>2 DEF DevStep, DevLost, CertCancel, DevCSR, DevInstalls, DevTries, DevFinalize,
                DevRefuses, DevLoads, DevTakes, DevEnds
  <2>3. stream'[u] = stream[u]
    BY <1>2 DEF DevStep, DevLost, CertCancel, DevCSR, DevInstalls, DevTries, DevFinalize,
                DevRefuses, DevLoads, DevTakes, DevEnds
  <2>4. cert'[u] = cert[u]
    BY <1>2 DEF DevStep, DevLost, CertCancel, DevCSR, DevInstalls, DevTries, DevFinalize,
                DevRefuses, DevLoads, DevTakes, DevEnds
  <2> QED
    BY <2>1, <2>2, <2>3, <2>4
<1> QED
  BY <1>1, <1>2

\* A step of the goroutine of t keeps to the exchange and brings t nearer to its end.
LEMMA CertGoroutineExchange ==
    ASSUME NEW t \in CertTargets, CertIInv, CertExchange(t), CertGoroutine(t)
    PROVE  CertExchange(t)' /\ CertLeft(t)' < CertLeft(t)
<1> USE DEF CertIInv, CertTypeOK
<1>a. stream' = stream /\ cert' = cert
  <2>1. stream' = stream
    BY DEF CertGoroutine, CertStart, CertCanGenerate, CertLocalCSR, CertAskCSR,
           CertRemoteCSR, CertLoad, CertInstalled, CertLoaded, CertFinalize,
           CertRotated, CertStepFails, CertStreamFails, CertSend, CertRecv
  <2>2. cert' = cert
    BY DEF CertGoroutine, CertStart, CertCanGenerate, CertLocalCSR, CertAskCSR,
           CertRemoteCSR, CertLoad, CertInstalled, CertLoaded, CertFinalize,
           CertRotated, CertStepFails, CertStreamFails, At
  <2> QED
    BY <2>1, <2>2
<1>1. CASE CertStart(t) \/ CertCanGenerate(t) \/ CertLocalCSR(t)
  <2>1. /\ \/ pc[t] = "start" /\ pc'[t] \in {"can", "choose"}
           \/ pc[t] = "can" /\ pc'[t] = "choose"
           \/ pc[t] = "choose" /\ pc'[t] = "sign"
        /\ ask' = ask /\ ans' = ans
    BY <1>1 DEF CertStart, CertCanGenerate, CertLocalCSR, At, CertGoto
  <2>2. CertExchange(t)'
    BY <1>a, <2>1 DEF CertExchange, CertOpen, CertClosed, Quiet
  <2>3. CertRanks[pc'[t]] < CertRanks[pc[t]] /\ CertRanks[pc'[t]] \in Nat
        /\ CertRanks[pc[t]] \in Nat
    BY <2>1 DEF CertRanks
  <2> QED
    BY <1>a, <2>1, <2>2, <2>3 DEF CertLeft
<1>2. CASE CertAskCSR(t) \/ CertLoad(t) \/ CertFinalize(t)
  <2>1. PICK m \in {"GenerateCSR", "LoadCertificate", "Finalize"} :
            /\ \/ m = "GenerateCSR" /\ pc[t] = "choose" /\ pc'[t] = "generate"
               \/ m = "LoadCertificate" /\ pc[t] = "sign" /\ pc'[t] = "load"
               \/ m = "Finalize" /\ pc[t] = "finalize" /\ pc'[t] = "end"
            /\ ask'[t] = (IF stream[t] = "open" THEN m ELSE ask[t])
            /\ ans' = ans
    <3>1. CASE CertAskCSR(t)
      BY <3>1 DEF CertAskCSR, At, CertGoto, CertSend
    <3>2. CASE CertLoad(t)
      BY <3>2 DEF CertLoad, At, CertGoto, CertSend
    <3>3. CASE CertFinalize(t)
      BY <3>3 DEF CertFinalize, At, CertGoto, CertSend
    <3> QED
      BY <1>2, <3>1, <3>2, <3>3
  <2>2. CertExchange(t)'
    BY <1>a, <2>1 DEF CertExchange, CertOpen, CertClosed, Quiet
  <2>3. CertRanks[pc'[t]] + 2 = CertRanks[pc[t]] /\ CertRanks[pc'[t]] \in Nat
    BY <2>1 DEF CertRanks
  <2>4. ask[t] = "none"
    BY <2>1 DEF CertExchange, CertOpen, CertClosed, Quiet
  <2> QED
    BY <1>a, <2>2, <2>3, <2>4 DEF CertLeft
<1>3. CASE CertRemoteCSR(t) \/ CertLoaded(t)
  <2>1. /\ \/ pc[t] = "generate" /\ pc'[t] = "sign"
           \/ pc[t] = "load" /\ pc'[t] = "finalize" /\ command = "rotate"
        /\ ask' = ask /\ ans[t] # "none" /\ ans'[t] = "none"
    BY <1>3 DEF CertRemoteCSR, CertLoaded, At, CertGoto, CertRecv
  <2>2. CertExchange(t)'
    BY <1>a, <2>1 DEF CertExchange, CertOpen, CertClosed, Quiet
  <2>3. CertRanks[pc'[t]] + 1 = CertRanks[pc[t]] /\ CertRanks[pc'[t]] \in Nat
    BY <2>1 DEF CertRanks
  <2> QED
    BY <1>a, <2>1, <2>2, <2>3 DEF CertLeft
<1>4. CASE CertInstalled(t) \/ CertRotated(t) \/ CertStepFails(t) \/ CertStreamFails(t)
  <2>1. /\ pc[t] \in {"start", "can", "choose", "generate", "sign", "load", "finalize", "end"}
        /\ pc'[t] = "returned" /\ ask' = ask
        /\ ans' = ans \/ ans'[t] = "none"
    BY <1>4 DEF CertInstalled, CertRotated, CertStepFails, CertStreamFails, At, CertReturn, CertRecv
  <2>2. \/ stream[t] # "open" /\ ans'[t] = "none"
        \/ pc[t] \in {"start", "can", "choose", "sign"} /\ ans' = ans
    <3>1. CASE CertInstalled(t)
      BY <3>1 DEF CertInstalled, At, CertRecv, CertDoneInv
    <3>2. CASE CertStepFails(t)
      BY <3>2 DEF CertStepFails, At
    <3>3. CASE CertRotated(t) \/ CertStreamFails(t)
      BY <3>3 DEF CertRotated, CertStreamFails, At, CertExchange, CertClosed
    <3> QED
      BY <1>4, <3>1, <3>2, <3>3
  <2>3. CertExchange(t)'
    BY <1>a, <2>1, <2>2 DEF CertExchange, CertOpen, CertClosed, Quiet
  <2>4. CertRanks[pc'[t]] = 0 /\ CertRanks[pc[t]] \in Nat /\ CertRanks[pc[t]] > 0
    BY <2>1 DEF CertRanks
  <2> QED
    BY <1>a, <2>1, <2>3, <2>4 DEF CertLeft
<1> QED
  BY <1>1, <1>2, <1>3, <1>4 DEF CertGoroutine

\* So does a step of its device, and the end of its stream.
LEMMA CertDeviceExchange ==
    ASSUME NEW t \in CertTargets, CertIInv, CertExchange(t),
           DevStep(t) \/ DevLost(t) \/ CertCancel(t)
    PROVE  CertExchange(t)' /\ CertLeft(t)' < CertLeft(t)
<1> USE DEF CertIInv, CertTypeOK
<1>1. pc' = pc /\ stream[t] = "open" /\ ask'[t] = "none"
  BY DEF DevStep, DevLost, CertCancel, DevCSR, DevInstalls, DevTries, DevFinalize, DevRefuses,
         DevLoads, DevTakes, DevEnds
<1>2. \/ ask[t] = "GenerateCSR" /\ ans'[t] = "GeneratedCSR" /\ UNCHANGED <<stream, cert>>
      \/ /\ ask[t] = "LoadCertificate" /\ ans'[t] = "LoadCertificate" /\ stream' = stream
         /\ cert'[t] = "trial"
      \/ /\ ask[t] = "LoadCertificate" /\ stream'[t] # "open" /\ cert'[t] = "new"
         /\ ans'[t] \in {ans[t], "LoadCertificate"}
      \/ /\ ask[t] = "Finalize" /\ stream'[t] # "open" /\ cert'[t] = "new" /\ ans' = ans
      \/ stream'[t] # "open" /\ cert'[t] = "old" /\ ans'[t] = "none"
  <2>1. CASE DevCSR(t)
    BY <2>1 DEF DevCSR, DevTakes
  <2>2. CASE DevTries(t)
    BY <2>2 DEF DevTries, DevLoads, DevTakes
  <2>3. CASE DevInstalls(t)
    BY <2>3 DEF DevInstalls, DevLoads, DevTakes
  <2>4. CASE DevFinalize(t)
    BY <2>4 DEF DevFinalize, DevTakes
  <2>5. CASE DevEnds(t)
    BY <2>5 DEF DevEnds
  <2> QED
    BY <2>1, <2>2, <2>3, <2>4, <2>5 DEF DevStep, DevLost, CertCancel, DevRefuses
<1>3. CertOpen(t) /\ pc[t] # "check"
  BY <1>1 DEF CertExchange
<1>4. CertExchange(t)'
  <2>1. CASE ask[t] = "GenerateCSR" /\ ans'[t] = "GeneratedCSR" /\ UNCHANGED <<stream, cert>>
    BY <1>1, <1>3, <2>1 DEF CertExchange, CertOpen, Quiet
  <2>2. CASE /\ ask[t] = "LoadCertificate" /\ ans'[t] = "LoadCertificate" /\ stream' = stream
             /\ cert'[t] = "trial"
    BY <1>1, <1>3, <2>2 DEF CertExchange, CertOpen, Quiet
  <2>3. CASE stream'[t] # "open" /\ cert'[t] # "trial" /\ ans'[t] = "none"
    BY <1>1, <1>3, <2>3 DEF CertExchange, CertClosed
  <2>4. CASE /\ ask[t] = "LoadCertificate" /\ stream'[t] # "open" /\ cert'[t] # "trial"
             /\ ans'[t] = "LoadCertificate"
    BY <1>1, <1>3, <2>4 DEF CertExchange, CertOpen, CertClosed, Quiet
  <2>5. ask[t] \in {"LoadCertificate", "Finalize"} => ans[t] = "none"
    BY <1>3 DEF CertOpen, Quiet
  <2> QED
    BY <1>2, <2>1, <2>2, <2>3, <2>4, <2>5
<1>5. CertRanks[pc[t]] \in Nat
  BY <1>3 DEF CertRanks
<1>6. CertLeft(t)' < CertLeft(t)
  <2>1. stream'[t] # "open" \/ (ask[t] # "none" /\ stream' = stream)
    BY <1>2
  <2> QED
    BY <1>1, <1>5, <2>1 DEF CertLeft
<1> QED
  BY <1>4, <1>6

LEMMA CertExchangeInitInv == CertInit => CertExchangeInv
<1> SUFFICES ASSUME CertInit, NEW t \in CertTargets PROVE CertExchange(t)
  BY DEF CertExchangeInv
<1>1. pc[t] = "start" /\ ask[t] = "none" /\ ans[t] = "none" /\ stream[t] = "open" /\ cert[t] = "old"
  BY DEF CertInit
<1> QED
  BY <1>1 DEF CertExchange, CertOpen, Quiet

LEMMA CertNearer ==
    ASSUME CertIInv, CertExchangeInv, CertNext
    PROVE  /\ CertExchangeInv'
           /\ \E t \in CertTargets :
                  /\ CertLeft(t)' < CertLeft(t)
                  /\ \A u \in CertTargets \ {t} : CertLeft(u)' = CertLeft(u)
<1>1. PICK t \in CertTargets : CertGoroutine(t) \/ DevStep(t) \/ DevLost(t) \/ CertCancel(t)
  BY DEF CertNext
<1>2. CertExchange(t)' /\ CertLeft(t)' < CertLeft(t)
  BY <1>1, CertGoroutineExchange, CertDeviceExchange DEF CertExchangeInv
<1>3. ASSUME NEW u \in CertTargets, u # t
      PROVE  CertExchange(u)' /\ CertLeft(u)' = CertLeft(u)
  <2>1. /\ pc'[u] = pc[u] /\ ask'[u] = ask[u] /\ ans'[u] = ans[u]
        /\ stream'[u] = stream[u] /\ cert'[u] = cert[u]
    BY <1>1, <1>3, CertOthersKept DEF CertIInv
  <2>2. CertExchange(u)
    BY DEF CertExchangeInv
  <2> QED
    BY <2>1, <2>2 DEF CertExchange, CertOpen, CertClosed, Quiet, CertLeft
<1> QED
  BY <1>2, <1>3 DEF CertExchangeInv

LEMMA CertExchangeInductive == CertSpec => []CertExchangeInv
<1>1. CertIInv /\ CertExchangeInv /\ [CertNext]_certVars => CertExchangeInv'
  <2> SUFFICES ASSUME CertIInv, CertExchangeInv, [CertNext]_certVars PROVE CertExchangeInv'
    OBVIOUS
  <2>1. CASE UNCHANGED certVars
    BY <2>1 DEF certVars, CertExchangeInv, CertExchange, CertOpen, CertClosed, Quiet
  <2> QED
    BY <2>1, CertNearer
<1> QED
  BY <1>1, CertExchangeInitInv, CertInductive, PTL DEF CertSpec

\* For any number of targets, `gnoic cert install` and `gnoic cert rotate` take a bounded
\* number of steps, each of which brings one target nearer to its end.
THEOREM CertCommandsAreBounded == CertSpec => CertIsBounded
<1>1. CertIInv /\ CertExchangeInv => \A t \in CertTargets : CertLeft(t) \in 0..12
  <2> SUFFICES ASSUME CertIInv, CertExchangeInv, NEW t \in CertTargets
               PROVE  CertLeft(t) \in 0..12
    OBVIOUS
  <2>1. pc[t] \in {"start", "can", "choose", "generate", "sign", "load", "finalize", "end",
                   "returned"}
    BY DEF CertIInv, CertTypeOK, CertExchangeInv, CertExchange
  <2>2. CertRanks[pc[t]] \in 0..11
    BY <2>1 DEF CertRanks
  <2>3. CASE pc[t] = "start"
    <3>1. ask[t] = "none"
      BY <2>3 DEF CertExchangeInv, CertExchange, CertOpen, CertClosed, Quiet
    <3> QED
      BY <2>2, <3>1 DEF CertLeft
  <2>4. CASE pc[t] # "start"
    <3>1. CertRanks[pc[t]] \in 0..10
      BY <2>1, <2>4 DEF CertRanks
    <3> QED
      BY <3>1 DEF CertLeft
  <2> QED
    BY <2>3, <2>4
<1>2. CertIInv /\ CertExchangeInv /\ [CertNext]_certVars
      => [\E t \in CertTargets :
              /\ CertLeft(t)' < CertLeft(t)
              /\ \A u \in CertTargets \ {t} : CertLeft(u)' = CertLeft(u)]_certVars
  BY CertNearer
<1> QED
  BY <1>1, <1>2, CertInductive, CertExchangeInductive, PTL DEF CertSpec, CertIsBounded

\* A goroutine and the device of its target never wait for each other, for any number of
\* targets: not even where the flag, set by another between two reads of it, made gNOIc
\* send no key pair, or one the device has no use for.
THEOREM CertCommandsNeverWait == CertSpec => []CertNeverStuck
<1>1. CertExchangeInv => CertNeverStuck
  BY DEF CertExchangeInv, CertExchange, CertOpen, CertClosed, Quiet, CertNeverStuck, CertWaits,
         DevWaits
<1> QED
  BY <1>1, CertExchangeInductive, PTL

\* No device is left with a certificate on trial by a goroutine that has returned, or by a
\* stream that has ended.
THEOREM CertTrialsAreHeld == CertSpec => []CertTrialIsHeld
<1>1. CertExchangeInv => CertTrialIsHeld
  BY DEF CertExchangeInv, CertExchange, CertTrialIsHeld
<1> QED
  BY <1>1, CertExchangeInductive, PTL
=============================================================================
