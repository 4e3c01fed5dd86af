------------------------------- MODULE Requests -------------------------------
(***************************************************************************)
(* How gNOIc builds the messages it sends: every builder of api/* makes an *)
(* empty message and applies the caller's options to it in order, stopping *)
(* at the first that fails.  The options are functions on any proto        *)
(* message: that one is given to a message it does not know is only found  *)
(* at run time, by the user of the command.                                *)
(*                                                                         *)
(* A behaviour builds one message, either that of a command (app/*.go) or  *)
(* one that a user of the api packages may ask for.                        *)
(***************************************************************************)
EXTENDS Options, Naturals, Sequences

VARIABLES
    request,  \* the builder called: by whom, of which package, for which message
    stack,    \* the messages being built, the innermost one first
    outcome   \* "building", "built", "value" or "type" (the error), "none"

reqVars == <<request, stack, outcome>>

-----------------------------------------------------------------------------
(* The options as functions of a message *)

Accepts(pkg, opt, msg) == msg \in DOMAIN Options[pkg][opt]

\* Options that return nil for any message they do not know.
Ignores(pkg, opt) ==
    pkg = "os" /\ opt \in {"ActivationFailMsg", "VerifyStandbyState",
                           "VerifyStandbyResponse", "StandbyResponseID"}

\* Options that fail on some of their values: the names of an enum, a gNMI path,
\* an even number of keys and values.
Fallible == [cert    |-> {"CertificateType", "KeyType"},
             file    |-> {"Hash", "RemoteDownloadProtocol"},
             healthz |-> {"Path", "Status", "Hash"},
             os      |-> {},
             system  |-> {"L3Protocol", "L4Protocol", "State", "MPLSKV", "Hash"}]

\* The message built by the options given to an option.
Nested == [cert    |-> [CertificateInfo |-> "CertificateInfo",
                        Certificate |-> "Certificate", CaCertificate |-> "Certificate",
                        CSRParams |-> "CSRParams", CSR |-> "CSR", KeyPair |-> "KeyPair"],
           file    |-> [StatInfo |-> "StatInfo", Credentials |-> "Credentials"],
           healthz |-> [ComponentStatus |-> "ComponentStatus",
                        ArtifactHeader |-> "ArtifactHeader"],
           os      |-> [VerifyStandbyResponse |-> "StandbyResponse"],
           system  |-> <<>>]

\* These two build their message before they look at the one they are given.
Eager(pkg, opt) == pkg = "healthz" /\ opt \in {"ComponentStatus", "ArtifactHeader"}

\* Fields an option appends to, or merges in.
Repeated == {"CertificateInfo", "CaCertificates", "RevokedCertificateId", "Endpoints",
             "Stats", "Subcomponents", "Statuses", "Artifacts", "Mpls", "AsPath"}
Appends(msg, field) ==
    field \in Repeated \/ <<msg, field>> = <<"RevokeCertificatesRequest", "CertificateId">>

\* The same field, set in another way.
Variants(pkg, a, b) ==
    {a, b} \in [cert    |-> {{"KeySize", "MinKeySize"}},
                file    |-> {{"RemoteDownloadProtocol", "RemoteDownloadProtocolCustom"},
                             {"Password", "Hash"}},
                healthz |-> {},
                os      |-> {{"VerifyStandbyState", "VerifyStandbyResponse"}},
                system  |-> {{"L3Protocol", "L3ProtocolCustom"},
                             {"L4Protocol", "L4ProtocolCustom"}}][pkg]

-----------------------------------------------------------------------------
(* What is asked of the builders.  The value of an option is "fine" when    *)
(* any value is, or when the command checked it before; "user" when it is   *)
(* the user's and unchecked; "id" when it is a certificate ID.              *)

Option(o)     == [opt |-> o, value |-> "fine", opts |-> <<>>]
UserOption(o) == [opt |-> o, value |-> "user", opts |-> <<>>]
With(o, os)   == [opt |-> o, value |-> "fine", opts |-> os]
All(names)    == [i \in DOMAIN names |-> Option(names[i])]
Ask(cmd, pkg, msg, os) == [cmd |-> cmd, pkg |-> pkg, msg |-> msg, opts |-> os]
Optional(os)  == {<<>>, os}

CertTyped == With("Certificate", <<UserOption("CertificateType"), Option("CertificateBytes")>>)
CaTyped   == With("CaCertificate", <<UserOption("CertificateType"), Option("CertificateBytes")>>)
CSRNames  == <<"CommonName", "Country", "State", "City", "Org", "OrgUnit", "IPAddress">>
CSRParamsOf(os) ==
    With("CSRParams", <<UserOption("CertificateType"), Option("MinKeySize"),
                        UserOption("KeyType")>> \o All(CSRNames) \o os)

CertCanGenerateCSR ==
    {Ask("can-generate-csr", "cert", "CanGenerateCSRRequest",
         <<UserOption("CertificateType"), UserOption("KeyType"), Option("KeySize")>>)}
CertGenerateCSR ==
    {Ask("generate-csr", "cert", "GenerateCSRRequest",
         <<Option("CertificateID"), CSRParamsOf(All(<<"EmailID">>))>>)}
createRemoteCSRInstall ==
    {Ask("install", "cert", "GenerateCSRRequest", <<Option("CertificateID"), CSRParamsOf(e)>>)
        : e \in Optional(All(<<"EmailID">>))}
CertInstallLoad ==
    {Ask("install", "cert", "LoadCertificateRequest", <<CertTyped>> \o k)
        : k \in Optional(<<With("KeyPair", All(<<"PublicKey", "PrivateKey">>)),
                           Option("CertificateID")>>)}
CertRotateLoad ==
    {Ask("rotate", "cert", "LoadCertificateRequest",
         <<CertTyped, Option("CertificateID")>> \o k)
        : k \in Optional(<<With("KeyPair", All(<<"PublicKey", "PrivateKey">>))>>)}
CertLoadCertificate ==
    {Ask("load", "cert", "LoadCertificateRequest",
         <<[opt |-> "CertificateType", value |-> "id", opts |-> <<>>]>>
         \o c \o pub \o priv \o ca)
        : c \in Optional(<<CertTyped>>), pub \in Optional(All(<<"PublicKey">>)),
          priv \in Optional(All(<<"PrivateKey">>)), ca \in Optional(<<CaTyped, CaTyped>>)}
CertLoadCABundle ==
    {Ask("load-ca", "cert", "LoadCertificateAuthorityBundleRequest", cas)
        : cas \in {<<>>, <<CaTyped>>, <<CaTyped, CaTyped>>}}
Revoke ==
    {Ask("revoke", "cert", "RevokeCertificatesRequest", All(ids))
        : ids \in {<<>>, <<"CertificateID">>, <<"CertificateID", "CertificateID">>}}

filePut ==
    {Ask("put", "file", "PutRequest_Open", All(<<"Permissions", "FileName">>))}
filePutHash == {Ask("put", "file", "PutRequest_Hash", All(<<"Hash">>))}
serverGet == {Ask("server", "file", "GetResponse_Hash", All(<<"Hash">>))}
serverTransfer == {Ask("server", "file", "TransferToRemoteResponse", All(<<"Hash">>))}
serverStat ==
    LET info == With("StatInfo",
                     All(<<"Path", "LastModified", "Permissions", "Size", "Umask">>))
    IN  {Ask("server", "file", "StatResponse", infos)
            : infos \in {<<>>, <<info>>, <<info, info>>}}

HealthAck ==
    {Ask("ack", "healthz", "AcknowledgeRequest", <<UserOption("Path"), Option("ID")>>)}
HealthArtifact == {Ask("artifact", "healthz", "ArtifactRequest", All(<<"ID">>))}
HealthzCheck ==
    {Ask("check", "healthz", "CheckRequest", <<UserOption("Path"), Option("ID")>>)}
HealthzGet == {Ask("get", "healthz", "GetRequest", <<UserOption("Path")>>)}
HealthzList ==
    {Ask("list", "healthz", "ListRequest",
         <<UserOption("Path"), Option("IncludeAcknowledged")>>)}

OsInstallRequest ==
    {Ask("install", "os", "TransferRequest",
         All(<<"Version", "StandbySupervisor", "PackageSize">>))}
OsActivate ==
    {Ask("activate", "os", "ActivateRequest",
         All(<<"Version", "StandbySupervisor", "NoReboot">>))}

SystemPing ==
    {Ask("ping", "system", "PingRequest",
         All(<<"Destination", "Source", "Count", "Interval", "Wait", "Size",
               "DoNotFragment", "DoNotResolve", "L3Protocol", "NetworkInstance">>))}
SystemTraceRoute ==
    {Ask("traceroute", "system", "TracerouteRequest",
         All(<<"Destination", "Source", "InitialTTL", "TTL", "Wait", "DoNotFragment",
               "DoNotResolve", "L3Protocol", "L4Protocol", "DoNotLookupAsn",
               "NetworkInstance">>))}
SystemKillProcess ==
    {Ask("kill-process", "system", "KillProcessRequest",
         All(<<"PID", "ProcessName", "Signal", "ProcessRestart">>))}
SystemSetPackage ==
    {Ask("set-package", "system", "SetPackageRequest_Package",
         All(<<"PackageFile", "Version", "Activate">>))}
SystemSetPackageHash ==
    {Ask("set-package", "system", "SetPackageRequest_Hash", All(<<"Hash">>))}

Commands ==
    CertCanGenerateCSR \cup CertGenerateCSR \cup createRemoteCSRInstall
    \cup CertInstallLoad \cup CertRotateLoad \cup CertLoadCertificate
    \cup CertLoadCABundle \cup Revoke
    \cup filePut \cup filePutHash \cup serverGet \cup serverTransfer \cup serverStat
    \cup HealthAck \cup HealthArtifact \cup HealthzCheck \cup HealthzGet \cup HealthzList
    \cup OsInstallRequest \cup OsActivate
    \cup SystemPing \cup SystemTraceRoute \cup SystemKillProcess
    \cup SystemSetPackage \cup SystemSetPackageHash

\* A user of the api packages: one option with any message of its package, or
\* two options of which each accepts the message.
Library ==
    UNION {LET opts == DOMAIN Options[pkg]
               msgs == UNION {DOMAIN Options[pkg][o] : o \in opts}
               for(m) == {o \in opts : Accepts(pkg, o, m)}
           IN  UNION {     {Ask("library", pkg, m, <<UserOption(o)>>) : o \in opts}
                      \cup {Ask("library", pkg, m, <<Option(p[1]), Option(p[2])>>)
                               : p \in {q \in for(m) \X for(m) : q[1] # q[2]}}
                     : m \in msgs}
          : pkg \in DOMAIN Options}

-----------------------------------------------------------------------------
(* What TLC finds in these tables, and the proofs rest on *)

\* Two options that set the same field of a message add to it, or are two ways to
\* set it.
ASSUME OptionsShareNoField ==
    \A pkg \in DOMAIN Options : \A o, p \in DOMAIN Options[pkg] :
        \A m \in DOMAIN Options[pkg][o] \cap DOMAIN Options[pkg][p] :
            o # p /\ Options[pkg][o][m] = Options[pkg][p][m] =>
                Appends(m, Options[pkg][o][m]) \/ Variants(pkg, p, o)

ASSUME TablesAreOfNames ==
    \A pkg \in DOMAIN Options :
        /\ \A o \in DOMAIN Options[pkg] :
               o \in STRING /\ \A m \in DOMAIN Options[pkg][o] : Options[pkg][o][m] \in STRING
        /\ \A o \in DOMAIN Nested[pkg] : Nested[pkg][o] \in STRING

\* An option as it is given to a builder, with options that are given to it.
OptionsOf(pkg, nested) ==
    [opt : DOMAIN Options[pkg], value : {"fine", "user", "id"}, opts : nested]
Leaves(pkg)   == OptionsOf(pkg, {<<>>})
Branches(pkg) == OptionsOf(pkg, Seq(Leaves(pkg)))

ASSUME RequestsAreOfOptions ==
    \A r \in Commands \cup Library :
        r.pkg \in DOMAIN Options /\ r.msg \in STRING /\ r.opts \in Seq(Branches(r.pkg))

\* Commands other than cert load give a message options that apply to it, and give
\* these the options of the message they build.
Fits(pkg, msg, o) == Accepts(pkg, o.opt, msg) /\ o.value \in {"fine", "user"}
ASSUME CommandsFit ==
    \A r \in Commands : r.cmd # "load" =>
        \A i \in DOMAIN r.opts :
            LET o == r.opts[i] IN
            /\ Fits(r.pkg, r.msg, o)
            /\ o.opt \in DOMAIN Nested[r.pkg] =>
                   \A k \in DOMAIN o.opts :
                       /\ Fits(r.pkg, Nested[r.pkg][o.opt], o.opts[k])
                       /\ o.opts[k].opt \notin DOMAIN Nested[r.pkg]

-----------------------------------------------------------------------------
(* apply *)

Frame(msg, opts) == [msg |-> msg, given |-> opts, todo |-> opts, set |-> {}]

ReqInit ==
    /\ request \in Commands \cup Library
    /\ stack = <<Frame(request.msg, request.opts)>>
    /\ outcome = "building"

Top == Head(stack)
Current == Head(Top.todo)
Applying == outcome = "building" /\ Top.todo # <<>>
OfNested == Current.opt \in DOMAIN Nested[request.pkg]
Accepted == Accepts(request.pkg, Current.opt, Top.msg)

\* Mutant: a field that takes one more value is made anew.
SetFieldAnew(frame) ==
    LET o     == Head(frame.todo).opt
        field == Options[request.pkg][o][frame.msg]
    IN  [frame EXCEPT !.todo = Tail(@),
                      !.set = {s \in @ : s.field # field} \cup {[field |-> field, by |-> o]}]

\* The field an option sets takes the option's value, or one more.
SetField(frame) ==
    LET o     == Head(frame.todo).opt
        field == Options[request.pkg][o][frame.msg]
        kept  == IF Appends(frame.msg, field)
                 THEN frame.set
                 ELSE {s \in frame.set : s.field # field}
    IN  [frame EXCEPT !.todo = Tail(@), !.set = kept \cup {[field |-> field, by |-> o]}]

\* The option is applied to the message.
ReqApply ==
    /\ Applying /\ ~OfNested /\ Accepted
    /\ Current.opt \in Fallible[request.pkg] => Current.value # "id"
    /\ stack' = <<SetField(Top)>> \o Tail(stack)
    /\ UNCHANGED <<request, outcome>>

\* Mutant: the option gives its options to the message it is given.
ReqEnterOuter ==
    /\ Applying /\ OfNested
    /\ Accepted \/ Eager(request.pkg, Current.opt)
    /\ stack' = <<Frame(Top.msg, Current.opts)>> \o stack
    /\ UNCHANGED <<request, outcome>>

\* The option builds a message of its own first.
ReqEnter ==
    /\ Applying /\ OfNested
    /\ Accepted \/ Eager(request.pkg, Current.opt)
    /\ stack' = <<Frame(Nested[request.pkg][Current.opt], Current.opts)>> \o stack
    /\ UNCHANGED <<request, outcome>>

\* The message built is put in its place.
ReqLeave ==
    /\ outcome = "building" /\ Top.todo = <<>> /\ Len(stack) > 1
    /\ IF Accepts(request.pkg, Head(stack[2].todo).opt, stack[2].msg)
       THEN /\ stack' = <<SetField(stack[2])>> \o Tail(Tail(stack))
            /\ UNCHANGED outcome
       ELSE outcome' = "type" /\ UNCHANGED stack
    /\ UNCHANGED request

\* The message is not one of the option's: ErrInvalidMsgType.
ReqRefuseType ==
    /\ Applying /\ ~Accepted
    /\ ~Eager(request.pkg, Current.opt)
    /\ ~Ignores(request.pkg, Current.opt)
    /\ outcome' = "type"
    /\ UNCHANGED <<request, stack>>

\* The value is not one of the option's: ErrInvalidValue (also when it comes in
\* the words of ErrInvalidMsgType, from L3Protocol and L4Protocol).
ReqRefuseValue ==
    /\ Applying
    /\ Current.opt \in Fallible[request.pkg]
    /\ Current.value # "fine"
    /\ outcome' = "value"
    /\ UNCHANGED <<request, stack>>

\* The option does nothing to a message it does not know.
ReqIgnore ==
    /\ Applying /\ ~Accepted
    /\ Ignores(request.pkg, Current.opt)
    /\ stack' = <<[Top EXCEPT !.todo = Tail(@)]>> \o Tail(stack)
    /\ UNCHANGED <<request, outcome>>

ReqDone ==
    /\ outcome = "building" /\ Top.todo = <<>> /\ Len(stack) = 1
    /\ outcome' = "built"
    /\ UNCHANGED <<request, stack>>

ReqNext == \/ ReqApply \/ ReqEnter \/ ReqLeave
           \/ ReqRefuseType \/ ReqRefuseValue \/ ReqIgnore \/ ReqDone

ReqSpec == ReqInit /\ [][ReqNext]_reqVars

-----------------------------------------------------------------------------
\* The options of a frame that were applied.
Applied(frame) == SubSeq(frame.given, 1, Len(frame.given) - Len(frame.todo))

\* Every option given to a builder is in the message it returns, or fails: none is
\* dropped, and none is overwritten by another that sets the same field.  (The four
\* options that ignore a message, and two ways to set one field, are excepted.)
RequestKeepsEveryOption ==
    \A i \in DOMAIN stack : \A a \in DOMAIN Applied(stack[i]) :
        LET frame == stack[i]
            o     == frame.given[a].opt
        IN  \/ \E s \in frame.set : s.by = o
            \/ Ignores(request.pkg, o)
            \/ \E s \in frame.set : Variants(request.pkg, s.by, o)

\* A command never gives a builder an option that does not apply to its message:
\* it fails to build a request only on a value its user chose.  (cert load, which
\* takes the certificate ID for its type, is excepted.)
CommandsBuildRequests ==
    request.cmd \notin {"library", "load", "none"} =>
        \/ outcome \in {"building", "built"}
        \/ outcome = "value" /\ Current.value = "user"
=============================================================================
