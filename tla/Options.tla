-------------------------------- MODULE Options --------------------------------
(***************************************************************************)
(* The options of the request and response builders (api/cert, api/file,   *)
(* api/healthz, api/os, api/system): the messages each one accepts and the *)
(* field of the message it sets.  A variant of a oneof is a message of its *)
(* own (PutRequest_Open).  An option that takes options builds the nested  *)
(* message named in Nested.  An option that fixes the value of another     *)
(* (HashMD5, L3ProtocolIPv4, CertificateTypeX509, ...) is that other one.  *)
(***************************************************************************)
EXTENDS TLC

CertCertificateOptions ==
    [CertificateType  |-> [CanGenerateCSRRequest |-> "CertificateType",
                           Certificate |-> "Type", CSR |-> "Type", CSRParams |-> "Type"],
     CertificateBytes |-> [Certificate |-> "Certificate"],
     CertificateInfo  |-> [GetCertificatesResponse |-> "CertificateInfo"],
     Certificate      |-> [LoadCertificateRequest |-> "Certificate",
                           CertificateInfo |-> "Certificate"],
     CertificateID    |-> [GenerateCSRRequest |-> "CertificateId",
                           LoadCertificateRequest |-> "CertificateId",
                           CertificateInfo |-> "CertificateId",
                           RevokeCertificatesRequest |-> "CertificateId",
                           RevokeCertificatesResponse |-> "RevokedCertificateId",
                           CertificateRevocationError |-> "CertificateId"]]

CertKeyOptions ==
    [CaCertificate |-> [LoadCertificateRequest |-> "CaCertificates",
                        LoadCertificateAuthorityBundleRequest |-> "CaCertificates"],
     ErrorMsg      |-> [CertificateRevocationError |-> "ErrorMessage"],
     CSRParams     |-> [GenerateCSRRequest |-> "CsrParams"],
     CSR           |-> [GenerateCSRResponse |-> "Csr"],
     KeySize       |-> [CanGenerateCSRRequest |-> "KeySize", CSRParams |-> "MinKeySize"],
     MinKeySize    |-> [CanGenerateCSRRequest |-> "KeySize", CSRParams |-> "MinKeySize"],
     KeyType       |-> [CanGenerateCSRRequest |-> "KeyType", CSRParams |-> "KeyType"],
     KeyPair       |-> [LoadCertificateRequest |-> "KeyPair"]]

CertSubjectOptions ==
    [PublicKey  |-> [KeyPair |-> "PublicKey"],
     PrivateKey |-> [KeyPair |-> "PrivateKey"],
     CommonName |-> [CSRParams |-> "CommonName"],
     Country    |-> [CSRParams |-> "Country"],
     State      |-> [CSRParams |-> "State"],
     City       |-> [CSRParams |-> "City"],
     Org        |-> [CSRParams |-> "Organization"],
     OrgUnit    |-> [CSRParams |-> "OrganizationalUnit"],
     IPAddress  |-> [CSRParams |-> "IpAddress"],
     EmailID    |-> [CSRParams |-> "EmailId"]]

CertInfoOptions ==
    [Endpoint         |-> [CertificateInfo |-> "Endpoints"],
     ModificationTime |-> [CertificateInfo |-> "ModificationTime"]]

FileContentOptions ==
    [FileName |-> [GetRequest |-> "RemoteFile", RemoveRequest |-> "RemoteFile",
                   PutRequest_Open |-> "RemoteFile",
                   TransferToRemoteRequest |-> "LocalPath"],
     Content  |-> [GetResponse_Contents |-> "Contents", PutRequest_Contents |-> "Contents"],
     Hash     |-> [GetResponse_Hash |-> "Hash", PutRequest_Hash |-> "Hash",
                   Credentials |-> "Password", TransferToRemoteResponse |-> "Hash"],
     StatInfo |-> [StatResponse |-> "Stats"]]

FileStatOptions ==
    [Path         |-> [StatRequest |-> "Path", StatInfo |-> "Path",
                       RemoteDownload |-> "Path"],
     LastModified |-> [StatInfo |-> "LastModified"],
     Permissions  |-> [StatInfo |-> "Permissions", PutRequest_Open |-> "Permissions"],
     Size         |-> [StatInfo |-> "Size"],
     Umask        |-> [StatInfo |-> "Umask"],
     RemoteDownloadProtocol       |-> [RemoteDownload |-> "Protocol"],
     RemoteDownloadProtocolCustom |-> [RemoteDownload |-> "Protocol"]]

FileDownloadOptions ==
    [Credentials   |-> [RemoteDownload |-> "Credentials"],
     Username      |-> [Credentials |-> "Username"],
     Password      |-> [Credentials |-> "Password"],
     SourceAddress |-> [RemoteDownload |-> "SourceAddress"]]

HealthzComponentOptions ==
    [Path            |-> [GetRequest |-> "Path", AcknowledgeRequest |-> "Path",
                          ListRequest |-> "Path", CheckRequest |-> "Path"],
     ComponentStatus |-> [GetResponse |-> "Component",
                          ComponentStatus |-> "Subcomponents",
                          ListResponse |-> "Statuses",
                          AcknowledgeResponse |-> "Status", CheckResponse |-> "Status"],
     Status          |-> [ComponentStatus |-> "Status"],
     ArtifactHeader  |-> [ArtifactResponse |-> "Contents", ComponentStatus |-> "Artifacts"],
     ID              |-> [ArtifactHeader |-> "Id", ComponentStatus |-> "Id",
                          AcknowledgeRequest |-> "Id", ArtifactRequest |-> "Id",
                          CheckRequest |-> "EventId"]]

HealthzArtifactOptions ==
    [Name         |-> [FileArtifactType |-> "Name"],
     SysPath      |-> [FileArtifactType |-> "Path"],
     MimeType     |-> [FileArtifactType |-> "Mimetype"],
     Size         |-> [FileArtifactType |-> "Size"],
     Hash         |-> [FileArtifactType |-> "Hash"],
     Acknowledged |-> [ComponentStatus |-> "Acknowledged"],
     Created      |-> [ComponentStatus |-> "Created"],
     Expires      |-> [ComponentStatus |-> "Expires"],
     IncludeAcknowledged |-> [ListRequest |-> "IncludeAcknowledged"]]

OsPackageOptions ==
    [Version           |-> [TransferRequest |-> "Version", ActivateRequest |-> "Version",
                            VerifyResponse |-> "Version", StandbyResponse |-> "Version",
                            Validated |-> "Version"],
     Description       |-> [Validated |-> "Description"],
     StandbySupervisor |-> [TransferRequest |-> "StandbySupervisor",
                            ActivateRequest |-> "StandbySupervisor"],
     PackageSize       |-> [TransferRequest |-> "PackageSize"],
     NoReboot          |-> [ActivateRequest |-> "NoReboot"],
     ErrorType         |-> [ActivateError |-> "Type", InstallError |-> "Type"],
     ErrorDetail       |-> [ActivateError |-> "Detail", InstallError |-> "Detail"],
     ActivationFailMsg |-> [VerifyResponse |-> "ActivationFailMessage",
                            StandbyResponse |-> "ActivationFailMessage"]]

OsProgressOptions ==
    [BytesReceived         |-> [TransferProgress |-> "BytesReceived"],
     PercentageTransferred |-> [SyncProgress |-> "PercentageTransferred"]]

OsStandbyOptions ==
    [VerifyStandbyState    |-> [VerifyResponse |-> "VerifyStandby"],
     VerifyStandbyResponse |-> [VerifyResponse |-> "VerifyStandby"],
     StandbyResponseID     |-> [StandbyResponse |-> "Id"]]

SystemProbeOptions ==
    [Destination     |-> [PingRequest |-> "Destination", TracerouteRequest |-> "Destination",
                          TracerouteResponse |-> "DestinationAddress"],
     DestinationName |-> [TracerouteResponse |-> "DestinationName"],
     Source          |-> [PingRequest |-> "Source", PingResponse |-> "Source",
                          TracerouteRequest |-> "Source"],
     Count           |-> [PingRequest |-> "Count"],
     Interval        |-> [PingRequest |-> "Interval"],
     Wait            |-> [PingRequest |-> "Wait", TracerouteRequest |-> "Wait"],
     Size            |-> [PingRequest |-> "Size", TracerouteResponse |-> "PacketSize"],
     DoNotFragment   |-> [PingRequest |-> "DoNotFragment",
                          TracerouteRequest |-> "DoNotFragment"]]

SystemProtocolOptions ==
    [DoNotResolve     |-> [PingRequest |-> "DoNotResolve",
                           TracerouteRequest |-> "DoNotResolve"],
     NetworkInstance  |-> [PingRequest |-> "NetworkInstance",
                           TracerouteRequest |-> "NetworkInstance"],
     L3Protocol       |-> [PingRequest |-> "L3Protocol", TracerouteRequest |-> "L3Protocol"],
     L3ProtocolCustom |-> [PingRequest |-> "L3Protocol", TracerouteRequest |-> "L3Protocol"],
     Time             |-> [PingResponse |-> "Time"],
     CurrentTime      |-> [TimeResponse |-> "Time"],
     Sent             |-> [PingResponse |-> "Sent"],
     Received         |-> [PingResponse |-> "Received"]]

SystemPingOptions ==
    [MinTime    |-> [PingResponse |-> "MinTime"],
     AvgTime    |-> [PingResponse |-> "AvgTime"],
     MaxTime    |-> [PingResponse |-> "MaxTime"],
     StdDev     |-> [PingResponse |-> "StdDev"],
     Bytes      |-> [PingResponse |-> "Bytes"],
     Sequence   |-> [PingResponse |-> "Sequence"],
     TTL        |-> [PingResponse |-> "Ttl", TracerouteRequest |-> "MaxTtl"],
     InitialTTL |-> [TracerouteRequest |-> "InitialTtl"],
     Hops       |-> [TracerouteResponse |-> "Hops"]]

SystemHopOptions ==
    [Hop      |-> [TracerouteResponse |-> "Hop"],
     Address  |-> [TracerouteResponse |-> "Address"],
     Name     |-> [TracerouteResponse |-> "Name"],
     RTT      |-> [TracerouteResponse |-> "Rtt"],
     State    |-> [TracerouteResponse |-> "State"],
     ICMPCode |-> [TracerouteResponse |-> "IcmpCode"]]

SystemPathOptions ==
    [MPLS             |-> [TracerouteResponse |-> "Mpls"],
     MPLSKV           |-> [TracerouteResponse |-> "Mpls"],
     ASPath           |-> [TracerouteResponse |-> "AsPath"],
     L4Protocol       |-> [TracerouteRequest |-> "L4Protocol"],
     L4ProtocolCustom |-> [TracerouteRequest |-> "L4Protocol"],
     DoNotLookupAsn   |-> [TracerouteRequest |-> "DoNotLookupAsn"]]

SystemProcessOptions ==
    [PID            |-> [KillProcessRequest |-> "Pid"],
     ProcessName    |-> [KillProcessRequest |-> "Name"],
     Signal         |-> [KillProcessRequest |-> "Signal"],
     ProcessRestart |-> [KillProcessRequest |-> "Restart"],
     PackageFile    |-> [SetPackageRequest_Package |-> "Filename"],
     Version        |-> [SetPackageRequest_Package |-> "Version"],
     Activate       |-> [SetPackageRequest_Package |-> "Activate"]]

SystemHashOptions == [Hash |-> [SetPackageRequest_Hash |-> "Hash"]]

\* An option of one package is no option of another.
Options ==
    [cert    |-> CertCertificateOptions @@ CertKeyOptions @@ CertSubjectOptions
                 @@ CertInfoOptions,
     file    |-> FileContentOptions @@ FileStatOptions @@ FileDownloadOptions,
     healthz |-> HealthzComponentOptions @@ HealthzArtifactOptions,
     os      |-> OsPackageOptions @@ OsProgressOptions @@ OsStandbyOptions,
     system  |-> SystemProbeOptions @@ SystemProtocolOptions @@ SystemPingOptions
                 @@ SystemHopOptions @@ SystemPathOptions @@ SystemProcessOptions
                 @@ SystemHashOptions]
=============================================================================
