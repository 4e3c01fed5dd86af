------------------------------- MODULE MCClients -------------------------------
(***************************************************************************)
(* Model checking of the commands on the client's side: a behaviour is one *)
(* invocation of gNOIc, and the modules of the other commands stay idle.   *)
(***************************************************************************)
EXTENDS OsInstall, Deploy, Upload, Download, CertFlow, Requests, FileTree, TargetConfig

\* What each module's variables are while its command does not run.
StreamIdle == rpc = "none" /\ StreamOpens
OsIdle     == receiver = "none" /\ doneCh = FALSE
StreamsIdle == StreamIdle /\ OsIdle

DlIdle ==
    /\ download = "none" /\ prefix = FALSE /\ died = FALSE
    /\ size = <<>> /\ dlPC = <<>> /\ buf = <<>>
    /\ saved = <<>> /\ unsaved = <<>> /\ disk = <<>>

CertIdle ==
    /\ command = "none" /\ flag = FALSE /\ genCSR = FALSE
    /\ canGen = [t \in CertTargets |-> FALSE]
    /\ pc = [t \in CertTargets |-> "returned"]
    /\ stream = [t \in CertTargets |-> "ok"]
    /\ cert = [t \in CertTargets |-> "old"]
    /\ ask = [t \in CertTargets |-> "none"]
    /\ result = <<>> /\ csr = <<>> /\ keys = <<>> /\ ans = <<>>

ReqIdle ==
    /\ request = Ask("none", "cert", "none", <<>>)
    /\ stack = <<>> /\ outcome = "none"

TreeIdle ==
    /\ walker = "none" /\ walked = "none" /\ skipped = FALSE
    /\ tree = <<>> /\ todo = <<>>
    /\ before = {} /\ touched = {} /\ seen = {}

TcIdle ==
    /\ getting = "none" /\ global = <<>> /\ targets = <<>>
    /\ asked = {} /\ left = {}

ClientsInit ==
    \/ OsInit /\ DlIdle /\ CertIdle /\ ReqIdle /\ TreeIdle /\ TcIdle
    \/ /\ DeployInit \/ UploadInit
       /\ OsIdle /\ DlIdle /\ CertIdle /\ ReqIdle /\ TreeIdle /\ TcIdle
    \/ DlInit /\ StreamsIdle /\ CertIdle /\ ReqIdle /\ TreeIdle /\ TcIdle
    \/ CertInit /\ StreamsIdle /\ DlIdle /\ ReqIdle /\ TreeIdle /\ TcIdle
    \/ ReqInit /\ StreamsIdle /\ DlIdle /\ CertIdle /\ TreeIdle /\ TcIdle
    \/ TreeInit /\ StreamsIdle /\ DlIdle /\ CertIdle /\ ReqIdle /\ TcIdle
    \/ TcInit /\ StreamsIdle /\ DlIdle /\ CertIdle /\ ReqIdle /\ TreeIdle

ClientsNext ==
    \/ /\ \/ OsNext
          \/ rpc # "none" /\ (DeployNext \/ UploadNext) /\ UNCHANGED <<receiver, doneCh>>
       /\ UNCHANGED <<dlVars, certVars, reqVars, treeVars, tcVars>>
    \/ /\ download # "none" /\ DlNext
       /\ UNCHANGED <<osVars, certVars, reqVars, treeVars, tcVars>>
    \/ /\ command # "none" /\ CertNext
       /\ UNCHANGED <<osVars, dlVars, reqVars, treeVars, tcVars>>
    \/ /\ outcome # "none" /\ ReqNext
       /\ UNCHANGED <<osVars, dlVars, certVars, treeVars, tcVars>>
    \/ /\ walker # "none" /\ TreeNext
       /\ UNCHANGED <<osVars, dlVars, certVars, reqVars, tcVars>>
    \/ /\ getting # "none" /\ TcNext
       /\ UNCHANGED <<osVars, dlVars, certVars, reqVars, treeVars>>

ClientsSpec ==
    /\ ClientsInit
    /\ [][ClientsNext]_<<osVars, dlVars, certVars, reqVars, treeVars, tcVars>>
    /\ OsFairness /\ DeployFairness /\ UploadFairness
    /\ CertFairness /\ TreeFairness
=============================================================================
