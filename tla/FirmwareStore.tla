---------------------------- MODULE FirmwareStore ----------------------------
(***************************************************************************)
(* launcher/firmware.py: how `fetch` and `select` bring one variant's      *)
(* artifact to its path.  Each run is a process of its own; what they      *)
(* share is the directory: the artifact's name, and the name of the        *)
(* `.part` file every download of that artifact goes through.  Names lead  *)
(* to inodes, because a process that has the file open keeps writing to    *)
(* the inode wherever its name has gone.                                   *)
(***************************************************************************)
EXTENDS Naturals

CONSTANTS
    Procs,      \* processes running firmware.py
    Inodes,
    NoFile,     \* a name that leads nowhere
    MaxRuns     \* bound: commands run in all

ASSUME StoreAssumption == NoFile \notin Inodes /\ MaxRuns \in Nat

Contents == {"empty", "good", "bad"}     \* "good" has the manifest's sha256
Downloading == {"write", "hash", "chmod", "replace", "unlink"}
PCs == {"idle", "open"} \cup Downloading

VARIABLES
    manifest,    \* the variant: it runs on the host, it has a download URL
    artifact,    \* the inode artifact_path names
    part,        \* the inode tmp_path names
    content,     \* of every inode
    exec,        \* inodes with the execute bit
    pc, fd,      \* each process: where it is, and the file it has open
    result,      \* of its last command: "none", "ok", "fail" or "crashed"
    runs,
    overlapped,  \* two downloads have been under way at once
    orphan       \* a crash has left its `.part` behind

files == <<artifact, part, content, exec>>
vars  == <<manifest, files, pc, fd, result, runs, overlapped, orphan>>

TypeOK ==
    /\ manifest \in [unix : BOOLEAN, published : BOOLEAN]
    /\ artifact \in Inodes \cup {NoFile} /\ part \in Inodes \cup {NoFile}
    /\ content \in [Inodes -> Contents]
    /\ exec \subseteq Inodes
    /\ pc \in [Procs -> PCs]
    /\ fd \in [Procs -> Inodes \cup {NoFile}]
    /\ result \in [Procs -> {"none", "ok", "fail", "crashed"}]
    /\ runs \in 0 .. MaxRuns
    /\ overlapped \in BOOLEAN /\ orphan \in BOOLEAN

\* Nothing fetched yet, or a file of any content left by something else.
Init ==
    /\ manifest \in [unix : BOOLEAN, published : BOOLEAN]
    /\ artifact \in Inodes \cup {NoFile}
    /\ part = NoFile
    /\ content \in [Inodes -> {"empty", "good", "bad"}]
    /\ \A i \in Inodes : i # artifact => content[i] = "empty"
    /\ exec \in {{}, {artifact} \cap Inodes}
    /\ pc = [p \in Procs |-> "idle"]
    /\ fd = [p \in Procs |-> NoFile]
    /\ result = [p \in Procs |-> "none"]
    /\ runs = 0
    /\ overlapped = FALSE /\ orphan = FALSE

-----------------------------------------------------------------------------
Verified == artifact # NoFile /\ content[artifact] = "good"

Start(p) ==
    /\ pc[p] = "idle"
    /\ runs < MaxRuns
    /\ runs' = runs + 1
    /\ UNCHANGED <<manifest, fd, overlapped, orphan>>

\* Mutant: the bit of an artifact already there is trusted.
EnsureNothing(i) == exec

\* _ensure_executable().
EnsureExecutable(i) == IF manifest.unix THEN exec \cup {i} ELSE exec

\* A verified artifact is already there: repair its execute bit and be done.
\* One step, as what another process may put there meanwhile is verified too.
UseLocal(p, cmd) ==
    /\ Start(p)
    /\ cmd # "force" /\ Verified
    /\ exec' = EnsureExecutable(artifact)
    /\ result' = [result EXCEPT ![p] = "ok"]
    /\ UNCHANGED <<artifact, part, content, pc>>

\* `fetch` replaces a local file that does not verify, `select` refuses it.
Wanted(cmd) ==
    \/ cmd = "force"
    \/ cmd = "fetch" /\ ~Verified
    \/ cmd = "select" /\ artifact = NoFile

\* No download URL, or a local file `select` refuses.
Refuse(p, cmd) ==
    /\ Start(p)
    /\ \/ Wanted(cmd) /\ ~manifest.published
       \/ cmd = "select" /\ artifact # NoFile /\ ~Verified
    /\ result' = [result EXCEPT ![p] = "fail"]
    /\ UNCHANGED <<files, pc>>

Download(p, cmd) ==
    /\ Start(p)
    /\ Wanted(cmd) /\ manifest.published
    /\ pc' = [pc EXCEPT ![p] = "open"]
    /\ result' = [result EXCEPT ![p] = "none"]
    /\ UNCHANGED files

-----------------------------------------------------------------------------
(* _download_and_verify.                                                   *)

Move(p, from, to) == pc[p] = from /\ pc' = [pc EXCEPT ![p] = to]

\* Any step's exception leads to the `finally`.
Raise(p) ==
    /\ pc' = [pc EXCEPT ![p] = "unlink"]
    /\ result' = [result EXCEPT ![p] = "fail"]
    /\ UNCHANGED <<manifest, files, fd, runs, overlapped, orphan>>

\* open(tmp_path, "wb") creates the file or truncates the one that is there.
Open(p) ==
    /\ Move(p, "open", "write")
    /\ \E i \in Inodes :
          /\ i = part \/ (part = NoFile /\ i # artifact /\ \A q \in Procs : fd[q] # i)
          /\ part' = i
          /\ content' = [content EXCEPT ![i] = "empty"]
          /\ exec' = IF part = NoFile THEN exec \ {i} ELSE exec
          /\ fd' = [fd EXCEPT ![p] = i]
    /\ overlapped' = (overlapped \/ \E q \in Procs \ {p} : pc[q] \in Downloading)
    /\ orphan' = FALSE
    /\ UNCHANGED <<manifest, artifact, result, runs>>

\* The whole body is read and written, and the file closed.
Write(p, body) ==
    /\ Move(p, "write", "hash")
    /\ content' = [content EXCEPT ![fd[p]] = body]
    /\ fd' = [fd EXCEPT ![p] = NoFile]
    /\ UNCHANGED <<manifest, artifact, part, exec, result, runs, overlapped, orphan>>

\* The server refuses, the body breaks off, or the disk is full.
TransferFails(p) ==
    \/ pc[p] = "open" /\ Raise(p)
    \/ /\ Move(p, "write", "unlink")
       /\ result' = [result EXCEPT ![p] = "fail"]
       /\ \E c \in {"empty", "bad"} : content' = [content EXCEPT ![fd[p]] = c]
       /\ fd' = [fd EXCEPT ![p] = NoFile]
       /\ UNCHANGED <<manifest, artifact, part, exec, runs, overlapped, orphan>>

\* sha256_of(tmp_path) is the manifest's.
PartVerifies == IF part = NoFile THEN FALSE ELSE content[part] = "good"

\* Mutant: the download is placed unverified.
HashUnchecked(p) ==
    /\ part # NoFile
    /\ Move(p, "hash", "chmod")
    /\ UNCHANGED <<manifest, files, fd, result, runs, overlapped, orphan>>

Hash(p) ==
    /\ PartVerifies
    /\ Move(p, "hash", "chmod")
    /\ UNCHANGED <<manifest, files, fd, result, runs, overlapped, orphan>>

\* Mutant: a download that does not verify is tried again, for ever.
HashFailsRetries(p) ==
    /\ ~PartVerifies
    /\ Move(p, "hash", "open")
    /\ UNCHANGED <<manifest, files, fd, result, runs, overlapped, orphan>>

HashFails(p) == pc[p] = "hash" /\ ~PartVerifies /\ Raise(p)

\* Mutant: a `.part` that is gone is not noticed.
ChmodAnything(p) ==
    /\ Move(p, "chmod", "replace")
    /\ exec' = EnsureExecutable(part)
    /\ UNCHANGED <<manifest, artifact, part, content, fd, result, runs, overlapped, orphan>>

Chmod(p) ==
    /\ manifest.unix => part # NoFile
    /\ Move(p, "chmod", "replace")
    /\ exec' = EnsureExecutable(part)
    /\ UNCHANGED <<manifest, artifact, part, content, fd, result, runs, overlapped, orphan>>

Replace(p) ==
    /\ part # NoFile
    /\ Move(p, "replace", "unlink")
    /\ artifact' = part /\ part' = NoFile
    /\ result' = [result EXCEPT ![p] = "ok"]
    /\ UNCHANGED <<manifest, content, exec, fd, runs, overlapped, orphan>>

\* Another process has taken the `.part` away.
PartVanished(p) ==
    /\ part = NoFile
    /\ pc[p] = "replace" \/ (pc[p] = "chmod" /\ manifest.unix)
    /\ Raise(p)

\* Mutant: the `finally` is missing.
UnlinkNothing(p) ==
    /\ Move(p, "unlink", "idle")
    /\ UNCHANGED <<manifest, files, fd, result, runs, overlapped, orphan>>

Unlink(p) ==
    /\ Move(p, "unlink", "idle")
    /\ part' = NoFile
    /\ UNCHANGED <<manifest, artifact, content, exec, fd, result, runs, overlapped, orphan>>

\* The process is killed, or the host goes down.
Crash(p) ==
    /\ pc[p] # "idle"
    /\ pc' = [pc EXCEPT ![p] = "idle"]
    /\ fd' = [fd EXCEPT ![p] = NoFile]
    /\ result' = [result EXCEPT ![p] = "crashed"]
    /\ orphan' = (orphan \/ part # NoFile)
    /\ UNCHANGED <<manifest, files, runs, overlapped>>

Command(p) ==
    \E cmd \in {"fetch", "force", "select"} :
        UseLocal(p, cmd) \/ Refuse(p, cmd) \/ Download(p, cmd)

Proceed(p) ==
    \/ Open(p) \/ TransferFails(p)
    \/ \E body \in {"good", "bad"} : Write(p, body)
    \/ Hash(p) \/ HashFails(p) \/ Chmod(p) \/ Replace(p) \/ PartVanished(p)
    \/ Unlink(p)

Next == \E p \in Procs : Command(p) \/ Proceed(p) \/ Crash(p)

\* A process that is not killed runs on: the transfer has a timeout.
Spec == Init /\ [][Next]_vars /\ \A p \in Procs : WF_vars(Proceed(p))

-----------------------------------------------------------------------------
(* Correctness.                                                            *)

\* No step of a command, failed, forced or killed half-way, loses a verified
\* artifact, as long as downloads do not overlap (l.187-190).
VerifiedArtifactSurvives ==
    [][Verified /\ ~overlapped' => Verified']_vars

\* A command that reported success leaves an artifact that verifies, and that
\* the host can execute if it has to (l.93-101, l.247, l.377).
SuccessIsUsable ==
    (\E p \in Procs : pc[p] = "idle" /\ result[p] = "ok") /\ ~overlapped =>
        Verified /\ (manifest.unix => artifact \in exec)

\* A downloaded artifact becomes visible only with its execute bit set: a crash
\* never leaves one in place without it (l.208-209).
VisibleOnlyWhenExecutable ==
    [][artifact' # artifact /\ manifest.unix /\ ~overlapped' => artifact' \in exec']_vars

\* No `.part` outlives the downloads, a crash's excepted, and the next
\* download takes that one away (l.210-211).
NoPartLeftBehind ==
    (\A p \in Procs : pc[p] = "idle") /\ ~orphan => part = NoFile

\* Every command ends.
CommandsEnd == \A p \in Procs : pc[p] # "idle" ~> pc[p] = "idle"

\* What the docstring says without exception (l.187-189).
ArtifactNeverCorrupted == [][Verified => Verified']_vars
=============================================================================
