------------------------------- MODULE Download -------------------------------
(***************************************************************************)
(* The downloads of `gnoic file get` (app/fileGet.go) and `gnoic healthz   *)
(* artifact` (app/healthzArtifact.go), from several targets at once.  What *)
(* is received is kept in memory, compared with the hash the device sends, *)
(* and then written to a local file, which the targets may have in common: *)
(* without --target-prefix, or when the devices give their artifacts the   *)
(* same name.                                                              *)
(*                                                                         *)
(* A step of the client contains the device's answer to it.                *)
(***************************************************************************)
EXTENDS Naturals, Sequences

CONSTANTS
    DlTargets,
    DlBlocks    \* blocks of the longest file: bounds the model

ASSUME DlAssumption == DlBlocks \in Nat

VARIABLES
    download,  \* "get", "artifact" or "none"
    prefix,    \* each target has a local file of its own
    size,      \* blocks of the file of each target
    dlPC,      \* where the goroutine of a target is
    buf,       \* blocks received
    saved,     \* what it returned
    unsaved,   \* nothing was to be saved, or not all of it was and nobody looked
    disk,      \* the local files
    died       \* gNOIc panicked

dlVars == <<download, prefix, size, dlPC, buf, saved, unsaved, disk, died>>

Local(t) == IF prefix THEN t ELSE "shared"
Locals   == DlTargets \cup {"shared"}
Old      == [i \in 1..(DlBlocks + 1) |-> "old"]
Content(t, n) == [i \in 1..n |-> t]

DlTypeOK ==
    download # "none" =>
        /\ download \in {"get", "artifact"} /\ prefix \in BOOLEAN
        /\ size \in [DlTargets -> 1..DlBlocks]
        /\ dlPC \in [DlTargets -> {"start", "header", "recv", "create", "write", "returned"}]
        /\ buf \in [DlTargets -> 0..DlBlocks]
        /\ saved \in [DlTargets -> {"none", "nil", "error"}]
        /\ unsaved \in [DlTargets -> BOOLEAN]
        /\ \A f \in Locals : disk[f] \in Seq(DlTargets \cup {"old"})
        /\ died \in BOOLEAN

DlInit ==
    /\ download \in {"get", "artifact"}
    /\ prefix \in BOOLEAN
    /\ size \in [DlTargets -> 1..DlBlocks]
    /\ dlPC = [t \in DlTargets |-> "start"]
    /\ buf = [t \in DlTargets |-> 0]
    /\ saved = [t \in DlTargets |-> "none"]
    /\ unsaved = [t \in DlTargets |-> FALSE]
    /\ disk = [f \in Locals |-> Old]
    /\ died = FALSE

-----------------------------------------------------------------------------
DlAt(t, s) == ~died /\ dlPC[t] = s /\ UNCHANGED <<download, prefix, size>>
DlGoto(t, s) == dlPC' = [dlPC EXCEPT ![t] = s] /\ UNCHANGED <<saved, unsaved, died>>
DlReturn(t, r, un) == /\ dlPC' = [dlPC EXCEPT ![t] = "returned"]
                      /\ saved' = [saved EXCEPT ![t] = r]
                      /\ unsaved' = [unsaved EXCEPT ![t] = un]
                      /\ UNCHANGED died

\* os.File.Write at the file's own offset, which is its start.
Overwrite(t, n) ==
    LET old == disk[Local(t)]
        new == Content(t, n)
    IN  disk' = [disk EXCEPT ![Local(t)] =
                     IF n >= Len(old) THEN new ELSE new \o SubSeq(old, n + 1, Len(old))]

\* The RPC is called; an artifact starts with its header.
DlStart(t) ==
    /\ DlAt(t, "start")
    /\ DlGoto(t, IF download = "get" THEN "recv" ELSE "header")
    /\ UNCHANGED <<buf, disk>>

\* The header of a file ...
DlHeader(t) ==
    /\ DlAt(t, "header")
    /\ DlGoto(t, "recv")
    /\ UNCHANGED <<buf, disk>>

\* ... or of a custom or proto artifact, which is only printed.
DlOtherArtifact(t) ==
    /\ DlAt(t, "header")
    /\ DlReturn(t, "nil", TRUE)
    /\ UNCHANGED <<buf, disk>>

\* Mutant: the local file is created before the hash is known.
DlContentsCreating(t) ==
    /\ DlAt(t, "recv") /\ buf[t] < size[t]
    /\ buf' = [buf EXCEPT ![t] = @ + 1]
    /\ disk' = [disk EXCEPT ![Local(t)] = <<>>]
    /\ DlGoto(t, "recv")

\* Mutant: a block is received again.
DlContentsPast(t) ==
    /\ DlAt(t, "recv") /\ buf[t] <= size[t]
    /\ buf' = [buf EXCEPT ![t] = @ + 1]
    /\ DlGoto(t, "recv")
    /\ UNCHANGED disk

\* Contents, or bytes.
DlContents(t) ==
    /\ DlAt(t, "recv") /\ buf[t] < size[t]
    /\ buf' = [buf EXCEPT ![t] = @ + 1]
    /\ DlGoto(t, "recv")
    /\ UNCHANGED disk

\* The hash (of an artifact, the trailer) and compareFileHash: equal.
DlVerify(t) ==
    /\ DlAt(t, "recv") /\ buf[t] = size[t]
    /\ DlGoto(t, "create")
    /\ UNCHANGED <<buf, disk>>

\* get: an answer with neither contents nor hash ends it.
DlNothing(t) ==
    /\ DlAt(t, "recv") /\ download = "get"
    /\ DlReturn(t, "nil", TRUE)
    /\ UNCHANGED <<buf, disk>>

\* artifact: the header had no hash, and compareFileHash reads its method.
DlPanic(t) ==
    /\ DlAt(t, "recv") /\ download = "artifact"
    /\ died' = TRUE
    /\ UNCHANGED <<dlPC, buf, saved, unsaved, disk>>

\* Recv fails (io.EOF included), the answer is not expected, the hash is another
\* one, or of no method or of an unknown one, or os.Create fails.
DlFails(t) ==
    /\ \E s \in {"start", "header", "recv", "create"} : DlAt(t, s)
    /\ DlReturn(t, "error", FALSE)
    /\ UNCHANGED <<buf, disk>>

\* Mutant: the local file is opened without O_TRUNC.
DlCreateOpens(t) ==
    /\ DlAt(t, "create")
    /\ DlGoto(t, "write")
    /\ UNCHANGED <<buf, disk>>

\* os.Create truncates.
DlCreate(t) ==
    /\ DlAt(t, "create")
    /\ disk' = [disk EXCEPT ![Local(t)] = <<>>]
    /\ DlGoto(t, "write")
    /\ UNCHANGED buf

DlWrite(t) ==
    /\ DlAt(t, "write")
    /\ Overwrite(t, size[t])
    /\ DlReturn(t, "nil", FALSE)
    /\ UNCHANGED buf

\* Mutant: artifact ignores the error of the write, too.
DlWriteFailsQuietly(t) ==
    /\ DlAt(t, "write")
    /\ \E n \in 0..(size[t] - 1) : Overwrite(t, n)
    /\ DlReturn(t, "nil", download = "get")
    /\ UNCHANGED buf

\* A part is written: get does not look at the error.
DlWriteFails(t) ==
    /\ DlAt(t, "write")
    /\ \E n \in 0..(size[t] - 1) : Overwrite(t, n)
    /\ DlReturn(t, IF download = "get" THEN "nil" ELSE "error", download = "get")
    /\ UNCHANGED buf

fileGet(t) == \/ DlStart(t) \/ DlContents(t) \/ DlVerify(t) \/ DlNothing(t) \/ DlFails(t)
              \/ DlCreate(t) \/ DlWrite(t) \/ DlWriteFails(t)
handleFileArtifact(t) == DlHeader(t) \/ DlOtherArtifact(t) \/ DlPanic(t)

DlNext == \E t \in DlTargets : fileGet(t) \/ handleFileArtifact(t)

DlSpec == DlInit /\ [][DlNext]_dlVars

-----------------------------------------------------------------------------
\* A local copy is replaced only once a whole file with the right hash is there to
\* replace it: no refused, cut or wrong download touches it.
DownloadKeepsCopy ==
    download # "none" =>
        \A f \in Locals : disk[f] # Old =>
            \E t \in DlTargets : /\ Local(t) = f
                                 /\ dlPC[t] \in {"write", "returned"}
                                 /\ buf[t] = size[t]

\* A download that succeeds left the whole file in the local file, if no other
\* target has the same one.  (An artifact without a file, an answer without
\* contents and a write error of file get are successes that left none.)
DownloadNilIsSaved ==
    download # "none" /\ prefix =>
        \A t \in DlTargets : saved[t] = "nil" /\ ~unsaved[t] =>
            disk[t] = Content(t, size[t])

\* A target's blocks in a local file are the first of its own file, and end only
\* where that file does.
WholeParts(f) ==
    \A i \in DOMAIN f :
        /\ f[i] \in DlTargets /\ i <= size[f[i]]
        /\ i < size[f[i]] => i < Len(f) /\ f[i + 1] = f[i]

\* A local file that any number of targets share is the verified file of one of
\* them, or of one followed by the ends of those of others: nothing of an older
\* local file survives, and no part of a file stops before that file does.
DownloadSharesVerified ==
    download # "none" /\ ~prefix /\ ~(\E t \in DlTargets : unsaved[t] \/ saved[t] = "error") =>
        disk["shared"] = Old \/ WholeParts(disk["shared"])
=============================================================================
