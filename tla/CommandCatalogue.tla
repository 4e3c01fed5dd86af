--------------------------- MODULE CommandCatalogue ---------------------------
(***************************************************************************)
(* The gNOIc commands that talk to targets.  Every one of them runs the    *)
(* same fan-out (module FanOut); what differs is recorded here:            *)
(*                                                                         *)
(*   dial    which variable receives the error of CreateGrpcClient: "outer"*)
(*           is the err of the enclosing RunE function, shared by every    *)
(*           goroutine, "own" is declared inside the goroutine;            *)
(*   op      the same for the error of the RPC itself;                     *)
(*   verdict what the command returns: "count" is handleErrs(errs),        *)
(*           "nil" ignores errs, "nilIfEmpty" returns nil when no target   *)
(*           answered and handleErrs(errs) otherwise;                      *)
(*   render  TRUE when printing or saving the answers may itself fail and  *)
(*           turn the command's result into an error.                      *)
(***************************************************************************)

Traits == [dial : {"outer", "own"}, op : {"outer", "own"},
           verdict : {"count", "nil", "nilIfEmpty"}, render : BOOLEAN]

\* The three shapes most commands have.
OuterDial == [dial |-> "outer", op |-> "own", verdict |-> "count", render |-> FALSE]
OuterBoth == [OuterDial EXCEPT !.op = "outer"]
AllOwn    == [OuterDial EXCEPT !.dial = "own"]
Rendered  == [OuterDial EXCEPT !.render = TRUE]

-----------------------------------------------------------------------------
\* err = t.CreateGrpcClient(...), then err = a.<Op>(...): both shared.
RunECertInstall            == OuterBoth
RunECertRotate             == OuterBoth
RunECertRevokeCertificates == OuterBoth
RunESystemSetPackage       == OuterBoth
\* RunEOSInstall prints the failures and returns nil.
RunEOSInstall              == [OuterBoth EXCEPT !.verdict = "nil"]

\* err = t.CreateGrpcClient(...), then rsp, err := a.<Op>(...).
RunECertCanGenerateCSR     == OuterDial
RunELoadCerts              == OuterDial
RunELoadCertsCaBundle      == OuterDial
RunEFactoryResetStart      == OuterDial
RunEFileGet                == OuterDial
RunEFilePut                == OuterDial
RunEFileRemove             == OuterDial
RunEFileStat               == OuterDial
RunEFileTransfer           == OuterDial
RunEHealthzArtifact        == OuterDial
RunEOSActivate             == OuterDial
RunEOSVerify               == OuterDial
RunESystemCancelReboot     == OuterDial
RunESystemKillProcess      == OuterDial
RunESystemPing             == OuterDial
RunESystemReboot           == OuterDial
RunESystemTraceRoute       == OuterDial

\* The same, and a table, a JSON document or a file may fail to be produced.
RunEGenerateCSR               == Rendered
RunEHealthzAck                == Rendered
RunEHealthzCheck              == Rendered
RunEHealthzGet                == Rendered
RunEHealthzList               == Rendered
RunESystemRebootStatus        == Rendered
RunESystemSwitchControlProcessor == Rendered
RunESystemTime                == Rendered
RunECertGetCertificates       == Rendered
\* With --details it returns nil before handleErrs when no target answered.
RunECertGetCertificatesDetails == [Rendered EXCEPT !.verdict = "nilIfEmpty"]

\* err := inside the goroutine.
containerzDo               == AllOwn
RunEServices               == AllOwn

-----------------------------------------------------------------------------
\* Commands by what a caller may rely on.
OuterBothCommands == {RunECertInstall, RunECertRotate, RunECertRevokeCertificates,
                      RunESystemSetPackage}

OuterDialCommands ==
    {RunECertCanGenerateCSR, RunELoadCerts, RunELoadCertsCaBundle,
     RunEFactoryResetStart, RunEFileGet, RunEFilePut, RunEFileRemove,
     RunEFileStat, RunEFileTransfer, RunEHealthzArtifact, RunEOSActivate,
     RunEOSVerify, RunESystemCancelReboot, RunESystemKillProcess,
     RunESystemPing, RunESystemReboot, RunESystemTraceRoute,
     RunEGenerateCSR, RunEHealthzAck, RunEHealthzCheck, RunEHealthzGet,
     RunEHealthzList, RunESystemRebootStatus,
     RunESystemSwitchControlProcessor, RunESystemTime, RunECertGetCertificates}

AllOwnCommands == {containerzDo, RunEServices}

\* The commands whose result is meant to tell whether every target succeeded.
CountingCommands == OuterBothCommands \cup OuterDialCommands \cup AllOwnCommands

AllCommands == CountingCommands \cup {RunEOSInstall, RunECertGetCertificatesDetails}
=============================================================================
