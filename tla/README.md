# gNOIc in TLA+

gNOIc is a command line client for the gNOI services of network devices (Cert, File,
OS, System, Healthz, FactoryReset, Containerz), with a small File server (`gnoic
server`) and a mock Containerz server. These modules model the fan-out every command
is built on, the file server, and what the commands do on the client's side: their
streams, the files they keep, the certificates they rotate, the messages they build
and the targets they choose. The configurations check them on small instances with
TLC; the `*Proofs` modules prove the main safety properties with TLAPS for every
value of the constants.

Paths below are relative to the repository.

## Running

    tlc -workers 2 -config FanOut_all.cfg MCFanOut.tla
    tlc -workers 2 -config FileServer_put.cfg MCFileServer.tla    # likewise the other FileServer_*.cfg
    tlc -workers 2 -config Clients.cfg MCClients.tla
    tlc -workers 2 -config OsInstall_lost.cfg OsInstall.tla       # likewise OsInstall_endless
    tlc -workers 2 -config Deploy_mock.cfg Deploy.tla             # likewise Cert_shared (CertFlow.tla)
                                                                  # and SetPackage_zero (Upload.tla)
    tlapm OsInstallProofs.tla                                     # likewise the other *Proofs.tla

`PROJECT.json` lists the runs, the properties of each, the source lines behind every
definition, the hazards, the findings and the theorems.

## Inventory

| Component | State | Operations and interactions | Hard behaviour | What makes it correct | Here |
|---|---|---|---|---|---|
| **Fan-out**: the `RunE*` functions, `containerzDo`, `handleErrs` (`app/*.go`) | `a.wg`, `responseChan` (buffered, one place per target), the `err` of the enclosing function, `errs`, answers | one goroutine per target dials, calls the RPC and reports; main waits, closes, drains, returns | interleaving of goroutines, an error variable shared by most commands, some targets failing | every target accounted for once; the returned error tells exactly which failed; the command ends | modelled: `FanOut`, `CommandCatalogue`, `CollectErrors` |
| **File server** (`app/server.go`) | a directory, its inodes, modes, the process umask; no lock | Put, Get, TransferToRemote, Stat, Remove handlers, meeting in the file system | handlers interleave at system calls; chmod and open by name; process killed at any point; process-wide umask | no partial or unverified file is ever visible; readers see one version; modes as requested | modelled: `FileServer`, `FileStore` |
| **File client** (`app/file*.go`) | local files, the stream | put (open, contents, hash), get, stat, remove, transfer; recursion over directories | isDir, Stat and Get are separate RPCs; several targets write one local path; `Send` returns `io.EOF` and the server's error is never received; an empty message ends a get with no file and no error; a recursive removal stops at the first error | a successful put or get left the same bytes on both sides; a recursive command that succeeds did all it was asked | `Upload`, `Download`, `FileTree`; the local walk of a put is not |
| **OS install** (`app/osInstall.go`) | stream, `errCh`, `doneCh` | TransferRequest, Ready, contents, End, Validated | two receivers on one stream; an unbuffered `errCh` nobody reads once sending is over; a chunk size of 0 | success only for a validated package; the command ends | `Stream`, `OsInstall` |
| **Containerz deploy** and mock server (`app/containerzDeploy.go`, `containerzMockServer.go`) | stream | ImageTransfer, Ready, contents, End, Success | no answer is read while the image is sent; the client waits for success and never closes its side; the mock server answers at the end of the stream | success only for a whole image; the command ends | `Stream`, `Deploy`; the mock's other handlers return constants |
| **Other containerz commands** | none of their own | `containerzDo` with another RPC; requests built from flags | fan-out only | the fan-out's | `CommandCatalogue` |
| **Certificate flows** (`app/cert*.go`) | `CertRotateGenCSR`, `CertInstallGenCSR` of the shared configuration | Install, Rotate (finalize or roll back), Revoke, Load, GetCertificates, CanGenerateCSR | the gen-csr flag is shared by all targets and set by one of them while others are in mid-flow; the answer to Finalize may be lost | each target is given a certificate for the key it holds; none is left on trial | `CertFlow`, `Requests`; the x509 computations are not |
| **System commands** (`app/system*.go`) | the SetPackage stream | reboot, status, cancel, set-package, ping, traceroute, kill-process, time, switch | the end of the SetPackage stream; a chunk size of 0 | the package is stored whole; requests keep what the user asked | `Upload`, `Requests`; the printing of ping and traceroute is not |
| **Healthz, FactoryReset** | the artifact stream | get, list, check, ack, artifact; start | order of header, bytes, trailer; an unknown artifact type; a header without a hash | the saved file is the artifact whose hash was checked | `Download`, `Requests` |
| **Target configuration** (`config/*.go`, `app/target.go`) | map of targets by name | addresses, file, defaults | two addresses with one name become one target; global and own TLS settings combine | every target given is operated on, and dialled as asked | `TargetConfig`; credentials and timeouts follow the same rule and are left out |
| **Request builders** (`api/cert`, `file`, `healthz`, `os`, `system`) | a message | one option per field, any option compiles with any message | an option given to a message it does not know; two options for one field | no option is dropped or overwritten; a command builds its message | `Options`, `Requests` |
| **gRPC client** (`api/target.go`) | the connection | dial | none of its own | – | external: `FanOut` sees a dial that succeeds or fails, `TargetConfig` the credentials |
| **Command line, version, tree, printing, path parsing, install script** | none | I/O and layout | none | – | not modelled |

### Interactions

A command's main goroutine gets its targets from the configuration (`TargetConfig`)
and starts one goroutine per target (`FanOut`). The goroutines share `err` (most
commands), the channel, the WaitGroup, the flags of the configuration (`CertFlow`)
and the local files (`Download`); each builds its messages (`Requests`) and runs one
client protocol against one device (`Upload`, `OsInstall`, `Deploy`, `FileTree`).
`gnoic server` is the only server of the repository that keeps state: its handlers
share nothing in memory but the umask of the process and meet in the directory they
serve.

## Modules

| Module | Contents |
|---|---|
| `CommandCatalogue` | the traits of each command: which variable its errors go to, how its verdict is formed, whether printing may fail |
| `FanOut` | the fan-out, parameterised by the traits |
| `CollectErrors` | what a multi-target command promises, without goroutines or channels |
| `FileServer` | the handlers of `gnoic server`, one system call per action |
| `FileStore` | the service as clients see it: uploads offer a content for a path and put it there whole, once, or give it up |
| `Stream` | a streaming RPC: two queues bounded by flow control, the end of the client's side, the status of the server |
| `Upload` | file put and set-package over a `Stream` |
| `OsInstall` | os install over a `Stream`: two goroutines of the client, and a device |
| `Deploy` | containerz deploy over a `Stream`, against a device and against the mock |
| `Download` | file get and healthz artifact from several targets, and the local files |
| `CertFlow` | cert install and cert rotate on several targets, with their devices |
| `FileTree` | recursive get, stat and remove on a tree another client changes |
| `Options`, `Requests` | the options of the api packages, and how they are applied; the messages of every command |
| `TargetConfig` | the targets of a command and how they are dialled |
| `MCFanOut`, `MCFileServer`, `MCClients` | instances; `MCClients` composes the modules from `Stream` on: a behaviour is one invocation of gNOIc |
| `FanOutProofs`, `FileServerProofs`, `FileClientProofs`, `OsInstallProofs`, `DeployProofs`, `CertFlowProofs`, `LocalProofs` | proofs; `FileClientProofs` is about `Upload`, `Download` and `FileTree`, `LocalProofs` about `TargetConfig` and `Requests` |
| `StreamProofs` | what the queues of a `Stream` do, for the three modules about streams |

### FanOut and the code

All commands have one shape, that of `RunECertInstall`
(`src/app/certInstall.go:50-111`) or of `containerzDo`
(`src/app/containerz.go:25-72`). Each action is one step of it:

| Action | Code (certInstall.go) |
|---|---|
| `Init` | the channel is made, `a.wg.Add(numTargets)` (68-74) |
| `Spawn`, `SpawnEnd` | `for _, t := range targets { go ... }` (75-97) |
| `Dial` | `err = t.CreateGrpcClient(...)` (82) |
| `DialFailed`, `DialSucceeded` | `if err != nil` reads the variable, and the report reads it again (83-89) |
| `Op`, `OpOnNilClient`, `OpReport` | the RPC assigns `err`, the report reads it (91-95) |
| `Send`, `Exit` | `responseChan <- ...`, `defer a.wg.Done()` |
| `WaitAndClose`, `Collect`, `CollectEnd`, `Return` | `a.wg.Wait()`, `close`, the drain, `handleErrs` (98-110) |

Whether `err` is the enclosing function's or the goroutine's is the difference
between commands that matters, and `CommandCatalogue` records it for each. The
access to the shared variable is a data race: a read yields the goroutine's own last
write or the latest value stored by any goroutine (`Reads`). A dial that failed and
is taken for a success leads to an RPC on a nil connection (`OpOnNilClient`), which
ends the process. The RPC is atomic here; its protocol is another module's business.

The catalogue groups the commands in six classes. `OuterBoth` shares the dial's and
the RPC's errors; `OuterDial` only the dial's; `Rendered` is the same with answers
that may fail to be printed or saved; `AllOwn` shares nothing. `RunEOSInstall`
returns nil whatever happened. `cert get-certs` is `Rendered` as it is; with
`--details` it returns nil before looking at the errors when no target answered.

### FileServer and the code

| Part | Code (`src/app/server.go`) |
|---|---|
| `PutOpen`, `PutCreateTemp`, `PutContents`, `PutHash`, `PutVerify`, `PutRename`, `PutChmod`, `PutFail` | `Put`, 331-446 |
| `GetStat`, `GetOpen`, `GetRead`, `GetEnd`, `GetFail` | `Get`, 127-189 |
| `TransferStat` ... `TransferEnd`, `TransferFail`, `TransferPanic` | `TransferToRemote`, 191-329 |
| `RemoveStat`, `RemoveUnlink`, `RemoveFail` | `Remove`, 494-512 |
| `StatMask`, `StatRestore`, `StatFail` | `Stat`, 448-492 |
| `Crash`, `Die` | `RunEServer` returns without waiting for its handlers, 105-116 |

Names are bound to inodes and a handler keeps the inode it opened, so renaming and
removing under a reader behave as POSIX has it. A Put has up to two inodes of its
own: the file `os.OpenFile` creates when its path is absent, and its temporary file,
whose name is written as the Put itself. Contents are sequences of chunks, and a
hash is the content it is the hash of. A mode is a set of bits subject to the umask.
Abstracted: directories and the permission to open files; the octal conversions of
modes; the network, of which only its failures show (`PutFail`, `GetFail`,
`TransferFail` at any point). After `Die` the server is started again, with the
umask it was started with first, and serves the RPCs that have not begun.

### Streams and the code

gRPC is external, and `Stream` models what the code relies on: messages arrive in
order and once; `Send` blocks on a full flow-control window, queues, is dropped, or
returns `io.EOF` when the handler has returned; `Recv` gives the answers sent before
the status, then the status; a connection breaks at any point with some of the
answers in flight (`Break`). A block of a file is one message, and a message is one
place of a window.

| Module | Code |
|---|---|
| `Upload` | `filePut` (`src/app/filePut.go`), `sendSysPackageFile` (`src/app/systemSetPackage.go`). One client, two users of it: the loops are the same, header, blocks, hash, `CloseAndRecv`. The server of a put is `gnoic server`'s (publishes at the hash), that of set-package a device that may wait for the end of the client's side. `"ZeroSetPackage"` is set-package with `--content-chunk-size 0`: its first read, into an empty buffer, returns nothing and is taken for the end of the file. A put has no such case, because `PreRunEFilePut` replaces a chunk size of 0 by the default. |
| `OsInstall` | `OsInstall` and `osInstallTransferContent` (`src/app/osInstall.go`): the main goroutine waits in `rcv`, sends in `select`/`sending`/`ending`; the goroutine of lines 163-200 is `receiver`, blocked on `errCh` in `report`. Nothing stops it when the package is sent: it goes on receiving beside the main goroutine. `"ZeroInstall"` is the command with `--content-chunk-size 0`: a read into an empty buffer returns neither a byte nor the end of the file, so contents are sent that hold nothing (`OsReadNothing`). |
| `Deploy` | `containerzDeploy` (`src/app/containerzDeploy.go`) and the mock's `Deploy` (`src/app/containerzMockServer.go`). `"ClosingDeploy"` is the mock with a client that closes its side, to show that this is what is missing. |

The devices are external: they answer as the client's switch statements expect, in
any of the ways listed there, or return early.

### The other client modules and the code

| Module | Code |
|---|---|
| `Download` | `fileGet` and its local write (`src/app/fileGet.go`), `handleFileArtifact` (`src/app/healthzArtifact.go`). A target's content is as many blocks of its own; the local file is `"shared"` without `--target-prefix`. `os.Create` and `Write` are two steps, so that targets can meet between them. `unsaved` marks the successes after which there is nothing to check. |
| `CertFlow` | `CertInstall`, `CertRotate` and their local and remote CSRs. `genCSR` is the flag in `a.Config`, read at the start, when the CSR is made and when it is loaded; a target that answers `CanGenerate: false` sets it. A device has its certificate `"old"`, on `"trial"` or `"new"`, and rolls a trial back when the stream ends. |
| `FileTree` | `isDir` (`src/app/file.go`), `fileGet`, `fileStat`, `fileRemove` and their recursions: `todo` is the call stack, a step is one RPC. A path counts as downloaded when its Get returned nil; what the download left on disk is the business of `Download`. `OtherClient` creates and removes files and directories between them. |
| `Options` | the option functions of `src/api/*/options.go`: message and field, option by option. |
| `Requests` | the builders and the nested builders (`apply`), and for every command the options its code gives. An option given to a message it does not know, or to another variant of a oneof, fails with `ErrInvalidMsgType`, except for four options of `api/os` (`Ignores`). Values are abstracted to whether the option can fail on them. |
| `TargetConfig` | `GetTargets`, `parseAddress`, `setTargetConfigDefaults` (`src/config/target.go`, `src/app/target.go`). The file's targets are a Go map: they are visited in any order. |

## Runs

| Run | Instance | What it shows |
|---|---|---|
| `FanOut_all` | 3 targets, all classes of commands, dials may fail, `FairSpec` | `SendIsSafe`, `EveryTargetAccounted`, `TotalFailureReported`, `NoFalseAlarm`: what survives the sharing of `err`; `CollectsErrors`: `containerzDo` and `RunEServices`, which share nothing, behave as `CollectErrors`; `CommandEnds` |
| `FanOut_shared` | 2 targets, `cert install` | a finding: `FailureReported` is violated |
| `FileServer_put` | 2 uploads, 1 removal, 2 paths, kills | `StoresFiles`: the directory implements `FileStore`; `AckedPutIsServed`; `TempsAreOfUnfinished`: an acknowledged upload leaves no temporary file; `ModesAreRequested` |
| `FileServer_read` | a reader of a path with contents of up to 2 chunks: a Get among two uploads, or a transfer among an upload, a removal and kills, with a `--file-hash` the server knows or not; or a Stat and kills | `TypeOK`; `PublishedWhole`; `GetOneVersion`; `TransferOneVersion`: the copy is of one version, and its hash is the copy's |
| `FileServer_modes` | 2 uploads | a finding: `PutSetsItsMode` is violated |
| `FileServer_umask` | 2 Stats | a finding: `StatReportsUmask` is violated |
| `Clients` | every module of the client's side, one at a time; 3 blocks, windows 1 up and 2 down, 2 targets, trees of depth 2, 2 targets to configure | streams: `OsSuccessIsValidated`, `OsWholePackage`, `DeploySuccessIsWhole`, `UploadSuccessIsStored`, that they end: `OsEnds`, `DeployEnds`, `UploadEnds`, and that gNOIc and the device are never left waiting for each other: `OsNeverStuck`; downloads: `DownloadKeepsCopy`, `DownloadNilIsSaved`, `DownloadSharesVerified`; certificates: `CertLocalHasKeys`, `CertSuccessIsLoaded`, `CertNoneOnTrial`; messages: `RequestKeepsEveryOption`, `CommandsBuildRequests`; trees: `WalkNilIsWhole`, `WalkEnds`; targets: `TargetsNoneLost`, `TargetsDialAsAsked` |
| `OsInstall_lost` | 2 blocks | a finding: `OsValidatedIsSuccess` is violated |
| `Deploy_mock` | the mock server | a finding: `DeployNoStandoff` is violated |
| `Cert_shared` | 2 targets | a finding: `CertReliesOnTarget` is violated |
| `SetPackage_zero` | set-package with a chunk size of 0, 3 blocks | a finding: `UploadLeavesFile` is violated |
| `OsInstall_endless` | os install with a chunk size of 0, 2 blocks | a finding: `OsContentEnds` is violated |

`FailureReported` is a property of the commands that share nothing: for them it
follows from `CollectsErrors`. `Clients` is a disjoint union: each behaviour is of
one command, with the variables of the others idle, and each property begins with
the condition that its command is the one that runs.

Every run has `CHECK_DEADLOCK FALSE`: a command returns and RPCs come to an end, and
the models then stop. That they stop only where they should is what the liveness
properties say.

### Bounds

- `Targets`: the race needs a writer and a reader (two targets); the third is there
  so that one target is neither, and so that `errs` and `result` may both be
  non-empty while another report is pending.
- `MCReaders`, the state constraint of `FileServer_read`, says who meets in a behaviour:
  two uploads and a Get, in one life of the server; or a transfer, one upload, a removal
  and any kills; or a Stat and kills. All at once would be far more states; the readers
  share nothing with one another, and the Stat only the umask, on which no mode
  depends here, where `Bits` is empty. (`ModesWereRequested` proves the modes for any
  number of Stats.) The constraint bounds safety properties only.
- `Puts`, `Gets`, `Transfers`, `Removes`, `Stats`: each RPC is used once. Two
  uploads are enough for one to truncate, overtake, or chmod another's file; a
  reader with two uploads can be truncated and replaced under its feet.
- `Paths` is one file, and two where a content could end up under the wrong one
  (`FileServer_put`). Otherwise handlers of different paths share only the umask;
  the theorems hold for any set of paths.
- `Chunks` has two values and `MaxLen` is 2, so that a wrong, short, long or mixed
  content differs from the right one; it is 1 in the runs where no handler reads a
  file chunk by chunk. `MCDigests` is every content up to `MaxLen`: a client may
  declare a hash that is not that of what it sent. The files present at the start
  hold two chunks (`MCOldData`), so that a reader can be overtaken between them.
- `Bits` is one bit, in the umask: masked and unmasked modes differ.
- Symmetry is over `Puts`, in runs of safety properties only: nothing in
  `FileServer` tells one upload from another.
- `Blocks` is 3 and the windows are 1 and 2: a block is sent while another is in
  flight, and both directions fill. It is the largest file of which the two windows
  hold all (`FitsWindows`), the boundary at which `OsNeverStuck`, `OsEnds` and
  `DeployEnds` still hold. The code's loops tell only the first message, a block and
  the last message apart.
- `DlTargets` and `CertTargets` have two members: one to write and one to be
  overtaken. `DlBlocks` is 2, so that the file of one target can be longer than that
  of the other and leave its end behind; the old local file is longer than both.
- `TreeDepth` is 2 with two names: a directory in the root with two entries, so that
  one is done and one is left when something fails. `TreeChanges` is one change by
  the other client, at any moment: each RPC asks about one path, so one change is
  enough to make two of them disagree.
- `TargetConfig` has at most two targets, of one host with or without a port and of
  one name: the cases are whether two of them coincide in one of these.
- `Requests` takes every message of the commands, and every pair of options each
  message accepts: a field is overwritten by a second option.

Wherever an upload takes part the model has it fail at any point, and the invariants
then speak of what the failure leaves.

### Fairness

`FairSpec` gives weak fairness to the main goroutine and to each target's goroutine:
the Go scheduler runs every goroutine that can run. Weak fairness of `Dial` and `Op`
also says that they return, with an answer or an error. The dial has the timeout of
the configuration; the code puts no deadline on the RPCs themselves, so a device
that accepts a call and never answers does hang the command. `CommandEnds` is under
the assumption that it does not. The file server has no liveness property: whether a
handler ends is its client's choice.

On the client's side, weak fairness is of the goroutines of gNOIc and of the device
or server: it reads its stream, answers, or refuses, and returns. Nothing makes a
connection break or a device give up, and no deadline is assumed on a stream, since
the code sets none. In `OsInstall` main and receiver have fairness of their own, and
the receiver may still end blocked on `errCh` for ever: `OsEnds` says that the
command does not wait for it.

`OsEnds` is of installations with a chunk size that is not 0: with 0 the transfer does
not end under any fairness (finding 8). `UploadEnds` is of any chunk size.

`OsEnds` and `DeployEnds` are for files of at most `UpWindow + DownWindow` blocks
(`FitsWindows`). A deployment reads no answer while it sends, so that a device that
reports its progress can block in an answer while the client blocks in `Send`. An
installation does read, until `osInstallTransferContent` closes `doneCh`: a receiver
that sees it closed exits, and if one window is full of progress reports and the
other of blocks, the `Send` of TransferEnd (`src/app/osInstall.go:229`) and the
device wait for each other. With 3 blocks and windows of 1 TLC shows either. Real
windows are bytes and progress is reported seldom, so it takes a device that reports
far more than it need: no document promises that such a device is served, and it is a
bound of the properties, not a finding. `CertNoneOnTrial` needs no more than this: a connection that breaks
makes the device roll back, and otherwise the goroutine finalizes and the device
answers. `Download` and the configuration have no loop that waits for another
goroutine.

## Proofs

The theorems hold for any number of targets, RPCs, paths, chunks and bits, files of
any size and flow-control windows of any size, under the assumptions the modules
name: `FanOutAssumption` (the targets are finitely many), `FileServerAssumption` and
`NoInodeAssumption` (which relate the constants' types), `StreamAssumption` (a file
has a natural number of blocks, a window holds a message), `DlAssumption`,
`TreeAssumption` (finitely many names, a depth), and four facts about the tables of
`Options` and `Requests`, which are definitions: TLC evaluates those on the tables
themselves (the fourth, `CommandsFit`, is that the options of each command apply to
the message they are given to, one level at a time).

**FanOut.** The inductive invariant (`Invariance`) says that the WaitGroup's counter
is the number of goroutines that have not exited; that the channel holds the targets
that have sent and were not collected, without repetition, so that it never holds
more than its capacity less the reports still to come; that it is closed only once
all have exited; and, for the shared variable, that some goroutine, the last to
store into it, reads its own value back (`LastWriterInv`). That last part is why
`TotalFailureReported` survives the race: when every target failed, that goroutine's
report is a failure. Theorems: `Invariance` (the invariant itself), `TypeCorrect`,
`SendsAreSafe`, `TargetsAccounted`, `TotalFailureIsReported`, `NoAlarmIsFalse`. For
commands that keep both errors in the goroutine (and for those that share the
dial's, where dials do not fail) `ApartCommandsCollectErrors` adds that a report's
`Err` is the failure of its target (`ReportInv`), and shows that every step of
`FanOut` is a step of `CollectErrors` or leaves its variables unchanged. It is why
the sharing of the dial's error is harmless as long as no dial fails. `ApartFailuresAreReported` draws
the line of finding 1: what `FanOut_shared` refutes, that no target's failure is
lost, holds of these commands. `CommandsAreBounded` counts what is left to do
(`StepsLeft`), which every step lowers, from at most eight steps for each target and
four of main's; and `CommandsNeverWaitForever` says that main does not wait for a
WaitGroup which no goroutine is left to release. Together they are what `CommandEnds`
needs of the code; the rest is that the scheduler is fair.

**FileServer.** `PublishedWhole` is not inductive: rename publishes a temporary
file, so one must know that it was verified and that nobody writes it any more.
`StoreInv` calls an inode *settled* when its content is empty or its whole content
and no handler may add to it; every path names a settled inode; a temporary name is
bound only to its own Put's file; a verified Put's file has the declared content. An
inode settled once is settled for good (`SettledForGood`), so a reader that opened a
path reads from something that only ever gets emptied: `GetInv` and hence
`GetsSendOneVersion`. `BoundInv` adds that each path is bound only to its own
inodes, so no inode has two names (`PathsApart`) and a write through one path does
not show under another. In `FileStore` an upload that has received its hash *offers*
the declared content for its path; the rename is the `Publish` of that offer,
because a verified file has the declared content; a failure or the death of the
server is a `Withdraw`. With these every step of the server is a step of `FileStore`
or leaves its variables unchanged (`FilesAreStored`). Theorems: `TypeCorrect`,
`PublishedIsWhole`, `GetsSendOneVersion`, `FilesAreStored`. To these, three
invariants add what is particular to one kind of RPC. `TransferInv`: a transfer
reads a settled inode twice, so each reading gets the whole content or is cut short
by a truncation, after which the file is empty (`TransfersCopyOneVersion`).
`ModeInv`: a temporary file has no bits until it is renamed, and the mode of an
inode a path is bound to is that of the old file or within that of an upload of this
path; chmod goes by name, and so can only bring in the mode of another upload of the
same path (`ModesWereRequested`). `AckedInv`: a Put that has published, with no
other RPC begun on its path, still is what the path names (`AckedPutsAreServed`); it
needs `PathsApart`, for a write elsewhere must not show here. `LeftoversAreOfFailures`
says whose the temporary files are that clients find in the directory: of Puts still
receiving, failed or killed, at most one each, never of one that was acknowledged.

`ApartStatsReportUmask` is of the behaviours in which no two Stats overlap
(`[]StatsApart`; of Stats there may be any number): the one between its two system
calls holds the umask to restore (`UmaskInv`), and any other has answered with it.
Nothing in the code keeps Stats apart. The theorem draws the line of finding 3: it
takes two Stats that overlap, and no other RPC, panic or kill brings it about.

**Streams.** A success is reported far from where the content was received, and what
connects them is the queue. `InFlight` (module `StreamProofs`) says that what was
sent and not yet received is in the queue, that the first message is first and the
last is last: `got + Len(up)` is `sent`, give or take these two. The lemmas of
`StreamProofs` show that `Send`, `Handle`, `Recv`, `Answer` and `Break` keep it,
once for all three modules. On top of it each inductive invariant says at which
messages the client has sent all (`HashSent`, `EndSent`, `PackageSent`), and which
answer in the other queue stands for which outcome of the server. Theorems:
`UploadTypeCorrect`, `UploadsAreStored`, `DeployTypeCorrect`,
`DeploySuccessesAreWhole`, `OsTypeCorrect`, `OsSuccessesAreValidated`,
`OsPackagesAreWhole`. In `OsInstallProofs` the receiver may take any answer at any
time, so the invariant speaks of the answers still in the queue, never of who reads
them; and `OsReadyInv` (the device asks once, and first) is why no second goroutine
is started.

An installation with a chunk size of 0 has an invariant of its own (`OsZeroIInv`): no
block is ever sent, no TransferEnd is sent or on its way, and a success can only be
that of a device which had the package already. The theorems of `OsSpec` are proved
from the disjunction of the two (`OsInductive`), and `OsZeroNeverFinishes` says that
no answer of the device gets such a transfer to its end, only to an error.
`UploadsAreStored` is of every chunk size, and says of 0 what is true: that what was
sent, nothing, is what was stored.

That a stream does not come to a standstill is safety, and is proved as such: in no
reachable state is every party in a call that only another one can end. It is what
one can prove of the liveness properties. `UploadNeverWaitsForever` holds for every
file and window, because the server answers nothing before the hash, which it then
has as the last message (`UploadWaitInv`). `OsNeverWaitsForever` and
`DeployNeverWaitsForever` are for files that fit the windows. Their invariants
(`OsWindowInv`, `DeployWindowInv`) count: the device has sent at most one answer for
each block it got, the one it is about to send included. Were both windows full, it
would have got more than `DownWindow` blocks and left `UpWindow` in flight, more than
the file has. And once the client only receives, the last message is on its way or
has been handled.

What is left of liveness is that nobody runs for ever. `InTransit` (`StreamProofs`)
weighs what the two queues can still give rise to: a message to the server is
handled and answered, an answer is received. With what each party has left to send
it makes a measure (`UploadLeft`, `DeployLeft`, `OsLeft`) that every step lowers, the
failures and the breaking of the connection included: `UploadsAreBounded`,
`DeploysAreBounded`, `OsInstallsAreBounded`, each linear in the number of blocks (that
of an installation for chunk sizes other than 0: with 0 there is no bound). A
behaviour thus has finitely many steps that change anything, and stops only where no party can step or
fairness lets one idle; where no party can step, the theorems above say that it is
not because they wait for each other.

**Certificates.** `CertLocalHasKeys` is not inductive: the flag might be reset
between the CSR and the load. `CertKeysInv` adds that it is set whenever a local CSR
exists, and no step resets it. `CertDoneInv` connects the client's result to the
device through the status of the stream, which is "ok" only after the new
certificate is in place. Theorems: `CertTypeCorrect`, `CertLocalsHaveKeys`,
`CertSuccessesAreLoaded`.

`CertExchangeInv` is the protocol as both sides see it: a question or its answer is on
the stream where the goroutine waits for one, and nothing elsewhere. From it follow `CertCommandsNeverWait`,
`CertCommandsAreBounded` (at most twelve steps for each target, which no step of
another lengthens) and `CertTrialsAreHeld`: a device has a certificate on trial only
while the stream is open and its goroutine has yet to finalize or give up. That is
`CertNoneOnTrial` but for the fairness that makes the goroutine go on.

`CertReliesOnCapableTargets` draws the line of finding 6: if every target can generate
a CSR, none is sent a key pair while the flag is unset, because nothing sets it
(`CertRemoteInv`).

**Downloads** (`FileClientProofs`). `DlIInv` says that a goroutine that creates or
writes a file has a whole verified content in memory, and that its own file is empty
in between. Theorems: `DlTypeCorrect`, `DownloadsKeepCopies`, `DownloadsAreSaved`.
For the file that targets share, `DlSharedInv` says that after the first creation it
is made of whole parts: contents, or the ends of contents, each reaching to where one
ended. A write at its beginning keeps that (`OverwriteKeepsParts`), and the old file
is gone before anything is written. So `DownloadsShareVerified` holds of any number
of targets, where TLC has two. `DownloadsAreBounded`: no target goes round in the
receiving loop, and a step of one, unless it is the panic that ends them all, leaves
the others as far from their ends as they were.

**Recursive commands** (`FileClientProofs`). `TreeIInv`: as long as nothing failed,
every file that was there at first, and that neither the other client touched nor the
command dealt with, is still there, and is named by a call still to make or lies
below one (`WalkCovers`). When the command returns nil no call is left, and so no
such file: `WalksAreWhole`, for any names, depth and number of changes. Each step of
the recursion replaces a directory by its entries, and one of them is towards each
file below it (`EntryTowards`). That the directories above a path exist is an
induction over its length; the provers cannot instantiate the library's induction
theorems, and `TreesAreRooted` takes the shortest path that lacks one instead
(`LeastNatural`, from the well-founded ordering of finite sets).

**Targets** (`LocalProofs`). TLC takes at most two targets;
`TcAnySpec` takes any set of them, and `TargetsOfTheRun` shows that it covers the
instance of the run. The invariant `TcIInv` says that each target already configured
is still kept under its name, or that its place was taken by one of the same name.
Theorems: `TargetsAreNotLost`, `TargetsAreDialledAsAsked`.

**Messages** (`LocalProofs`). TLC takes the commands' messages and the pairs of
options. `ReqAnySpec(S)` starts from any list of the options `S`, where an option may
carry a list of options of its own, to any depth. `ReqIInv` goes through the stack of
messages being built: each option already applied to a message is still in it
(`Kept`), because the options that set one field are ways to choose a variant of it,
or append to it (`OptionsShareNoField`). Theorems: `RequestsKeepOptions`, and
`CommandsKeepOptions` for the messages of the run; the options they leave out are the
four that `Ignores` lists, applied to a message they do not know. A second invariant, `FitInv`, says
that what is still to be applied on the stack fits the message it goes to; so that
messages of fitting options are built or refused for a value of their user
(`FittingOptionsAreBuilt`), and the commands' messages, which fit by `CommandsFit`,
are (`CommandsAreBuilt`). `cert load` does not fit (see below the findings).

**Checked by TLC only.** Liveness under fairness is outside the prover's reach, as is
`ENABLED`: `CommandEnds`, `OsEnds`, `DeployEnds`, `UploadEnds`, `CertNoneOnTrial`,
`WalkEnds`. Of all but the last the substance is proved above, a bound on the steps and
that nobody waits for ever; for the last step, from there to the property, TLC stands
alone. `WalkEnds` has no proved bound: what is left of a walk is a sum over the stack of
calls, and a sum over data takes an induction the provers cannot do. Then the findings,
of which three have a theorem that says when they cannot occur, and finding 8 one that
says that it always does. Every invariant of a
passing run is stated by a theorem.

## Findings

Each is the counterexample of a run that expects a violation.

1. `FanOut_shared`: in `cert install` (also `rotate`, `revoke`, `set-package`) all
   goroutines share one `err`. Target A's `CertInstall` fails and stores its error
   (`src/app/certInstall.go:91`), target B's succeeds and stores nil, A reports nil
   (`:94`) and the command returns nil, although
   `src/docs/command_reference/cert/install.md:10-11` has the operation fail. The
   converse happens too: B reports A's error.
2. `FileServer_modes`: `Put` ends with `os.Chmod` on the path
   (`src/app/server.go:436`). A Put overtaken between its rename and its chmod
   changes the mode of the other's file, after the other's own chmod.
3. `FileServer_umask`: `Stat` sets the umask to 0 to read it
   (`src/app/server.go:455`); an overlapping Stat answers with umask 0, and can
   leave the process with it.
4. `OsInstall_lost`: the goroutine that receives while the package is sent
   (`src/app/osInstall.go:176`) goes on receiving afterwards. It can take the
   Validated, print it and forget it; the main goroutine then reads the end of the
   stream and reports a failure.
5. `Deploy_mock`: `containerzDeploy` never closes its side of the stream
   (`src/app/containerzDeploy.go:130`), and the mock server answers only once it is
   closed: `gnoic containerz deploy` against `gnoic server --containerz` waits for
   ever.
6. `Cert_shared`: a target that cannot generate a CSR turns `--gen-csr` on for all
   (`src/app/certRotate.go:134`), although
   `src/docs/command_reference/cert/rotate.md:13` relies on the target where it can.
   In the window between the CSR and the load a target may be sent an empty key pair
   with a certificate for the key it generated itself.
7. `SetPackage_zero`: `system set-package --content-chunk-size 0` reads into an empty
   buffer, takes the 0 bytes it gets for the end of the file
   (`src/app/systemSetPackage.go:182`), sends the hash of nothing, has an empty package
   stored and logs that the package was "sent successfully" (`:117`).
8. `OsInstall_endless`: `os install --content-chunk-size 0` reads 0 bytes and no error
   for ever (`src/app/osInstall.go:204`) and sends empty contents without end. The
   TransferEnd of `src/docs/command_reference/os/install.md:15` is never sent.

Reading the code for the modules showed more, of which no property is made:

- `Get` ends with an MD5 whatever `--file-hash` says (`src/app/server.go:145-153`,
  flag at `:44`), and `TransferToRemote` answers with a hash labelled MD5 whatever
  the method (`:324`); the modules abstract a hash to the content it is of.
- `Status_UNSPECIFIED` of healthz names a status that does not exist,
  `"UNSPECIFIED}"` (`src/api/healthz/options.go:105`), and always fails.
- `L3Protocol` and `L4Protocol` report a bad value as a bad message type
  (`src/api/system/options.go:201`, `:655`); `Requests` has it a bad value.
- `cert load` gives the value of `--id` to the option `CertificateType`
  (`src/app/certLoadCerts.go:95`), which refuses it; the options for the keys do not
  apply to the request either. No call sends a request. `CommandsBuildRequests` is of
  every other command.
- Four options of `api/os` return nil for messages they do not know, and do nothing to
  them (`Ignores`).
- `NewSystemTimeRequest` and `NewCertGetCertificatesRequest` take options and ignore
  them.
- A local CSR is kept in `KeyPair.PublicKey`, where the public key is meant
  (`src/app/certInstall.go:290`, `src/app/certRotate.go:297`).
- A containerz deployment whose stream ends without a result returns nil
  (`src/app/containerzDeploy.go:131`): in `DeploySuccessIsWhole` it is the state
  `"quit"`, which the property excepts.
- `file get` returns nil when an answer has neither contents nor hash
  (`src/app/fileGet.go:169`), and does not look at the error of its local write
  (`:192`): `DownloadNilIsSaved` excepts both (`unsaved`).
- A Put whose file is removed between its rename and its chmod (`src/app/server.go:435`)
  returns an error although it has published: `AckedPutIsServed` is about Puts that
  succeed, alone on their path.
- Two targets given one name become one (`src/config/target.go:54`):
  `TargetsNoneLost` excepts them.

## Not modelled

- Path parsing (`src/utils/path.go`), permissions as digits (`server.go:529`), x509
  and `cert create-ca`, the tables, JSON and trees that are printed: computations on
  data with no order of steps to get wrong. `Requests` knows that a path can fail to
  parse.
- The walk over local directories of `file put`: it reads a file system nobody else
  of the system changes and puts each file as `Upload` has it.
- The other handlers of the mock server, which return constants, and the requests of
  the other containerz commands, built from flags field by field.
- `RunEOSInstall` returning nil whatever its targets answered
  (`src/app/osInstall.go:94`) is modelled (verdict `"nil"`), but no property is about it.
- Memory: a Put with a hash allocates a buffer of 1 GiB (`server.go:413`).
- The dialing of `api/target.go`: name resolution, TLS versions and ciphers, gzip.
  `FanOut` has it succeed or fail.
- Command line, version, shell completion, install script: I/O.

## Plan

What is left, most useful first:

1. `Upload` composed with `FileServer`: the server of a put is now the abstraction
   of it that `AckedPutsAreServed` and `LeftoversAreOfFailures` justify; a refinement
   would make this step formal.
2. `Octal`: `octalToDecimal` and `decimalToOctal` against a reference definition.
3. Larger trees with more than one change by the other client in a run of their own;
   `WalksAreWhole` covers them, `WalkEnds` is checked with one.
