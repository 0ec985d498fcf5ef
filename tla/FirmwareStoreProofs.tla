------------------------- MODULE FirmwareStoreProofs -------------------------
(***************************************************************************)
(* Proofs about FirmwareStore, for any number of processes, files and      *)
(* commands: until two downloads overlap, one process at most works on the *)
(* `.part`, nobody can write to the artifact, and what replaces it is      *)
(* verified and executable.                                                *)
(***************************************************************************)
EXTENDS FirmwareStore, TLAPS

USE StoreAssumption

Holding == {"write", "hash", "chmod", "replace"}

\* One process at most is past its open().
OneHolder ==
    \A p, q \in Procs : pc[p] \in Holding /\ pc[q] \in Holding => p = q

\* An open file is never the artifact, and is the `.part` or has lost its name.
OpenFiles ==
    \A p \in Procs :
        /\ pc[p] # "write" => fd[p] = NoFile
        /\ pc[p] = "write" => /\ fd[p] \in Inodes \ {artifact}
                              /\ part \in {fd[p], NoFile}

\* What is about to become the artifact is fit to.
PartFit ==
    /\ part # NoFile => part # artifact
    /\ \A p \in Procs : part # NoFile =>
          /\ pc[p] \in {"chmod", "replace"} => content[part] = "good"
          /\ pc[p] = "replace" /\ manifest.unix => part \in exec

ResultsTrue ==
    \A p \in Procs : result[p] = "ok" =>
        Verified /\ (manifest.unix => artifact \in exec)

Discipline == OneHolder /\ OpenFiles /\ PartFit /\ ResultsTrue

Types ==
    /\ manifest \in [unix : BOOLEAN, published : BOOLEAN]
    /\ artifact \in Inodes \cup {NoFile} /\ part \in Inodes \cup {NoFile}
    /\ content \in [Inodes -> Contents]
    /\ exec \subseteq Inodes
    /\ pc \in [Procs -> PCs]
    /\ fd \in [Procs -> Inodes \cup {NoFile}]
    /\ result \in [Procs -> {"none", "ok", "fail", "crashed"}]
    /\ \A p \in Procs : pc[p] = "write" => fd[p] \in Inodes
    /\ overlapped \in BOOLEAN

IInv == Types /\ (~overlapped => Discipline)

-----------------------------------------------------------------------------
\* Every step keeps the types, and a process that writes has a file open (l.195).
LEMMA TypeStep == IInv /\ [Next]_vars => Types'
<1> SUFFICES ASSUME IInv, [Next]_vars PROVE Types'
  OBVIOUS
<1> USE DEF IInv, Types, Contents, PCs, Downloading
<1>1. CASE UNCHANGED vars
  BY <1>1 DEF vars, files
<1>2. ASSUME NEW p \in Procs, Command(p) PROVE Types'
  BY <1>2 DEF Command, UseLocal, Refuse, Download, Start, files, EnsureExecutable, Verified
<1>3. ASSUME NEW p \in Procs, Crash(p) PROVE Types'
  BY <1>3 DEF Crash, files
<1>4. ASSUME NEW p \in Procs, Open(p) PROVE Types'
  BY <1>4 DEF Open, Move
<1>5. ASSUME NEW p \in Procs, TransferFails(p) PROVE Types'
  BY <1>5 DEF TransferFails, Move, Raise, files
<1>6. ASSUME NEW p \in Procs, NEW body \in {"good", "bad"}, Write(p, body) PROVE Types'
  BY <1>6 DEF Write, Move
<1>7. ASSUME NEW p \in Procs, Hash(p) \/ HashFails(p) \/ PartVanished(p) PROVE Types'
  BY <1>7 DEF Hash, HashFails, PartVanished, Move, Raise, files
<1>8. ASSUME NEW p \in Procs, Chmod(p) PROVE Types'
  BY <1>8 DEF Chmod, Move, EnsureExecutable
<1>9. ASSUME NEW p \in Procs, Replace(p) \/ Unlink(p) PROVE Types'
  BY <1>9 DEF Replace, Unlink, Move
<1> QED
  BY <1>1, <1>2, <1>3, <1>4, <1>5, <1>6, <1>7, <1>8, <1>9 DEF Next, Proceed

\* A command that starts changes nothing but the artifact's execute bit.
LEMMA CommandStep ==
  ASSUME Types, Discipline, NEW p \in Procs, Command(p)
  PROVE  Discipline'
<1> USE DEF Types, Discipline
<1>1. CASE \E cmd \in {"fetch", "force", "select"} : UseLocal(p, cmd)
  BY <1>1 DEF UseLocal, Start, EnsureExecutable, Verified, OneHolder, OpenFiles, PartFit,
              ResultsTrue
<1>2. CASE \E cmd \in {"fetch", "force", "select"} : Refuse(p, cmd)
  BY <1>2 DEF Refuse, Start, files, Verified, OneHolder, OpenFiles, PartFit, ResultsTrue
<1>3. CASE \E cmd \in {"fetch", "force", "select"} : Download(p, cmd)
  BY <1>3 DEF Download, Start, files, Verified, OneHolder, OpenFiles, PartFit, ResultsTrue,
              Holding
<1> QED
  BY <1>1, <1>2, <1>3 DEF Command

\* Alone past its open(), a process works on a file nobody else has.
LEMMA OpenStep ==
  ASSUME Types, Discipline, NEW p \in Procs, Open(p), ~overlapped'
  PROVE  Discipline'
<1> USE DEF Types, Discipline
<1>1. /\ pc[p] = "open" /\ pc' = [pc EXCEPT ![p] = "write"]
      /\ \A q \in Procs \ {p} : pc[q] \notin Downloading
      /\ UNCHANGED <<manifest, artifact, result>>
  BY DEF Open, Move
<1>2. PICK i \in Inodes :
        /\ i = part \/ (part = NoFile /\ i # artifact)
        /\ part' = i
        /\ content' = [content EXCEPT ![i] = "empty"]
        /\ exec' = IF part = NoFile THEN exec \ {i} ELSE exec
        /\ fd' = [fd EXCEPT ![p] = i]
  BY DEF Open
<1>3. i # artifact
  BY <1>2 DEF PartFit
<1>4. OneHolder'
  BY <1>1 DEF OneHolder, Holding, Downloading
<1>5. OpenFiles'
  BY <1>1, <1>2, <1>3 DEF OpenFiles, Downloading
<1>6. PartFit'
  BY <1>1, <1>2, <1>3 DEF PartFit, Downloading
<1>7. ResultsTrue'
  BY <1>1, <1>2, <1>3 DEF ResultsTrue, Verified
<1> QED
  BY <1>4, <1>5, <1>6, <1>7

\* Writing reaches the open file only, which is not the artifact.
LEMMA WriteStep ==
  ASSUME Types, Discipline, NEW p \in Procs, NEW c \in Contents, NEW to \in {"hash", "unlink"},
         Move(p, "write", to), content' = [content EXCEPT ![fd[p]] = c],
         fd' = [fd EXCEPT ![p] = NoFile],
         result' \in {result, [result EXCEPT ![p] = "fail"]},
         UNCHANGED <<manifest, artifact, part, exec>>
  PROVE  Discipline'
<1> USE DEF Types, Discipline, Move
<1>1. fd[p] # artifact /\ fd[p] \in Inodes
  BY DEF OpenFiles
<1>2. \A q \in Procs \ {p} : pc[q] \notin Holding
  BY DEF OneHolder, Holding
<1>3. OneHolder'
  BY <1>2 DEF OneHolder, Holding
<1>4. OpenFiles'
  BY <1>2 DEF OpenFiles, Holding
<1>5. PartFit'
  BY <1>2 DEF PartFit, Holding
<1>6. ResultsTrue'
  BY <1>1 DEF ResultsTrue, Verified
<1> QED
  BY <1>3, <1>4, <1>5, <1>6

\* Steps that only move on, after an exception or a hash.
LEMMA MoveStep ==
  ASSUME Types, Discipline, NEW p \in Procs,
         (Raise(p) /\ pc[p] # "write") \/ Hash(p) \/ Crash(p)
  PROVE  Discipline'
<1> USE DEF Types, Discipline
<1>1. CASE Raise(p) /\ pc[p] # "write"
  BY <1>1 DEF Raise, files, OneHolder, OpenFiles, PartFit, ResultsTrue, Verified, Holding
<1>2. CASE Hash(p)
  <2>1. OneHolder' /\ OpenFiles'
    BY <1>2 DEF Hash, Move, files, OneHolder, OpenFiles, Holding
  <2>2. PartFit'
    BY <1>2 DEF Hash, PartVerifies, Move, files, PartFit
  <2>3. ResultsTrue'
    BY <1>2 DEF Hash, files, ResultsTrue, Verified
  <2> QED
    BY <2>1, <2>2, <2>3
<1>3. CASE Crash(p)
  BY <1>3 DEF Crash, files, OneHolder, OpenFiles, PartFit, ResultsTrue, Verified, Holding
<1> QED
  BY <1>1, <1>2, <1>3

\* The execute bit is set on the part file, which the artifact is not (l.208).
LEMMA ChmodStep ==
  ASSUME Types, Discipline, NEW p \in Procs, Chmod(p)
  PROVE  Discipline'
<1> USE DEF Types, Discipline, Chmod, Move, EnsureExecutable
<1>1. OneHolder' /\ OpenFiles'
  BY DEF OneHolder, OpenFiles, Holding
<1>2. PartFit'
  BY DEF PartFit
<1>3. ResultsTrue'
  BY DEF ResultsTrue, Verified
<1> QED
  BY <1>1, <1>2, <1>3

\* What takes the artifact's name is verified, executable and open nowhere.
LEMMA ReplaceStep ==
  ASSUME Types, Discipline, NEW p \in Procs, Replace(p)
  PROVE  Discipline' /\ Verified' /\ (manifest.unix => artifact' \in exec')
<1> USE DEF Types, Discipline, Replace, Move
<1>1. \A q \in Procs \ {p} : pc[q] \notin Holding
  BY DEF OneHolder, Holding
<1>2. part # NoFile /\ content[part] = "good" /\ (manifest.unix => part \in exec)
  BY DEF PartFit
<1>3. OneHolder' /\ OpenFiles' /\ PartFit'
  BY <1>1 DEF OneHolder, OpenFiles, PartFit, Holding
<1>4. Verified' /\ (manifest.unix => artifact' \in exec')
  BY <1>2 DEF Verified
<1>5. ResultsTrue'
  BY <1>4 DEF ResultsTrue
<1> QED
  BY <1>3, <1>4, <1>5

\* Clearing up takes away the part's name only (l.210-211).
LEMMA UnlinkStep ==
  ASSUME Types, Discipline, NEW p \in Procs, Unlink(p)
  PROVE  Discipline'
BY DEF Types, Discipline, Unlink, Move, OneHolder, OpenFiles, PartFit, ResultsTrue, Verified,
       Holding

\* Every step but Open leaves `overlapped` alone; none takes it back.
LEMMA OverlapStays ==
  ASSUME [Next]_vars, ~overlapped'
  PROVE  ~overlapped
BY DEF Next, Command, Proceed, UseLocal, Refuse, Download, Start, Open, TransferFails, Write,
       Hash, HashFails, Chmod, Replace, PartVanished, Unlink, Raise, Crash, Move, vars

\* Every step short of an overlap keeps the discipline of the part file.
LEMMA DisciplineStep ==
  ASSUME IInv, [Next]_vars, ~overlapped'
  PROVE  Discipline'
<1>1. Types /\ Discipline
  BY OverlapStays DEF IInv
<1>2. CASE UNCHANGED vars
  BY <1>1, <1>2 DEF vars, files, Discipline, OneHolder, OpenFiles, PartFit, ResultsTrue,
                    Verified
<1>3. ASSUME NEW p \in Procs, Command(p) PROVE Discipline'
  BY <1>1, <1>3, CommandStep
<1>4. ASSUME NEW p \in Procs, Crash(p) PROVE Discipline'
  BY <1>1, <1>4, MoveStep
<1>5. ASSUME NEW p \in Procs, Open(p) PROVE Discipline'
  BY <1>1, <1>5, OpenStep
<1>6. ASSUME NEW p \in Procs, NEW body \in {"good", "bad"}, Write(p, body) PROVE Discipline'
  BY <1>1, <1>6, WriteStep DEF Write, Contents
<1>7. ASSUME NEW p \in Procs, TransferFails(p) PROVE Discipline'
  <2>1. CASE pc[p] = "open" /\ Raise(p)
    BY <1>1, <2>1, MoveStep
  <2>2. CASE ~(pc[p] = "open" /\ Raise(p))
    <3>1. PICK c \in {"empty", "bad"} : content' = [content EXCEPT ![fd[p]] = c]
      BY <1>7, <2>2 DEF TransferFails
    <3>2. /\ Move(p, "write", "unlink")
          /\ result' = [result EXCEPT ![p] = "fail"]
          /\ fd' = [fd EXCEPT ![p] = NoFile]
          /\ UNCHANGED <<manifest, artifact, part, exec>>
      BY <1>7, <2>2 DEF TransferFails
    <3> QED
      BY <1>1, <3>1, <3>2, WriteStep DEF Contents
  <2> QED
    BY <2>1, <2>2
<1>8. ASSUME NEW p \in Procs, Hash(p) PROVE Discipline'
  BY <1>1, <1>8, MoveStep
<1>9. ASSUME NEW p \in Procs, HashFails(p) \/ PartVanished(p) PROVE Discipline'
  <2>1. Raise(p) /\ pc[p] # "write"
    BY <1>9 DEF HashFails, PartVanished
  <2> QED
    BY <1>1, <2>1, MoveStep
<1>10. ASSUME NEW p \in Procs, Chmod(p) PROVE Discipline'
  BY <1>1, <1>10, ChmodStep
<1>11. ASSUME NEW p \in Procs, Replace(p) PROVE Discipline'
  BY <1>1, <1>11, ReplaceStep
<1>12. ASSUME NEW p \in Procs, Unlink(p) PROVE Discipline'
  BY <1>1, <1>12, UnlinkStep
<1> QED
  BY <1>2, <1>3, <1>4, <1>5, <1>6, <1>7, <1>8, <1>9, <1>10, <1>11, <1>12 DEF Next, Proceed

\* The inductive invariant: types always, the discipline until an overlap.
THEOREM Invariance == Spec => []IInv
<1>1. Init => IInv
  BY DEF Init, IInv, Types, Discipline, OneHolder, OpenFiles, PartFit, ResultsTrue, Contents,
         PCs, Downloading, Holding
<1>2. IInv /\ [Next]_vars => IInv'
  BY TypeStep, DisciplineStep DEF IInv
<1> QED
  BY <1>1, <1>2, PTL DEF Spec

\* Success means an artifact that verifies and runs, for any number of
\* processes that do not download at once.
THEOREM SuccessMeansUsable == Spec => []SuccessIsUsable
<1>1. IInv => SuccessIsUsable
  BY DEF IInv, Discipline, ResultsTrue, SuccessIsUsable
<1> QED
  BY <1>1, Invariance, PTL

\* What one step may do to a verified artifact, and to a new one.
LEMMA ArtifactStep ==
  ASSUME IInv, [Next]_vars, ~overlapped'
  PROVE  /\ Verified => Verified'
         /\ artifact' # artifact /\ manifest.unix => artifact' \in exec'
<1>1. Types /\ Discipline
  BY OverlapStays DEF IInv
<1>2. ASSUME NEW p \in Procs, Replace(p)
      PROVE  Verified' /\ (manifest.unix => artifact' \in exec')
  BY <1>1, <1>2, ReplaceStep
<1>3. ASSUME NEW p \in Procs, Open(p) PROVE artifact' = artifact /\ (Verified => Verified')
  BY <1>1, <1>3 DEF Open, Types, Discipline, PartFit, Verified
<1>4. ASSUME NEW p \in Procs, NEW body \in {"good", "bad"}, Write(p, body)
      PROVE  artifact' = artifact /\ (Verified => Verified')
  BY <1>1, <1>4 DEF Write, Move, Types, Discipline, OpenFiles, Verified
<1>5. ASSUME NEW p \in Procs, TransferFails(p)
      PROVE  artifact' = artifact /\ (Verified => Verified')
  BY <1>1, <1>5 DEF TransferFails, Raise, files, Move, Types, Discipline, OpenFiles, Verified
<1>6. ASSUME NEW p \in Procs,
             \/ Command(p) \/ Crash(p) \/ Hash(p) \/ HashFails(p) \/ Chmod(p)
             \/ PartVanished(p) \/ Unlink(p)
      PROVE  artifact' = artifact /\ (Verified => Verified')
  BY <1>6 DEF Command, UseLocal, Refuse, Download, Crash, Hash, HashFails, Chmod,
              PartVanished, Raise, Unlink, files, Verified
<1>7. CASE UNCHANGED vars
  BY <1>7 DEF vars, files, Verified
<1> QED
  BY <1>2, <1>3, <1>4, <1>5, <1>6, <1>7 DEF Next, Proceed

\* No step of any command loses a verified artifact, short of an overlap.
THEOREM ArtifactSurvives == Spec => VerifiedArtifactSurvives
<1>1. IInv /\ [Next]_vars => [Verified /\ ~overlapped' => Verified']_vars
  BY ArtifactStep
<1> QED
  BY <1>1, Invariance, PTL DEF Spec, VerifiedArtifactSurvives

\* An artifact never appears without its execute bit, short of an overlap.
THEOREM ArtifactAppearsExecutable == Spec => VisibleOnlyWhenExecutable
<1>1. IInv /\ [Next]_vars =>
        [artifact' # artifact /\ manifest.unix /\ ~overlapped' => artifact' \in exec']_vars
  BY ArtifactStep
<1> QED
  BY <1>1, Invariance, PTL DEF Spec, VisibleOnlyWhenExecutable

-----------------------------------------------------------------------------
(* What holds even of downloads that overlap.                              *)

\* A `.part` no crash left belongs to a download under way.
PartHeld == part # NoFile /\ ~orphan => \E p \in Procs : pc[p] \in Downloading

Counters == runs \in 0 .. MaxRuns /\ orphan \in BOOLEAN

\* A download that ends takes the `.part` away, and a crash is remembered.
LEMMA HeldStep ==
  ASSUME Types, PartHeld, Counters, [Next]_vars
  PROVE  PartHeld' /\ Counters'
<1> USE DEF Types, PartHeld, Counters, Downloading
<1>1. CASE UNCHANGED vars
  BY <1>1 DEF vars, files
<1>2. ASSUME NEW p \in Procs, Command(p) PROVE PartHeld' /\ Counters'
  BY <1>2 DEF Command, UseLocal, Refuse, Download, Start, files
<1>3. ASSUME NEW p \in Procs, Crash(p) PROVE PartHeld' /\ Counters'
  BY <1>3 DEF Crash, files
<1>4. ASSUME NEW p \in Procs, Open(p) PROVE PartHeld' /\ Counters'
  <2>1. pc'[p] \in Downloading /\ orphan' = FALSE /\ runs' = runs
    BY <1>4 DEF Open, Move
  <2> QED
    BY <2>1
<1>5. ASSUME NEW p \in Procs,
             \/ TransferFails(p) \/ Hash(p) \/ HashFails(p) \/ Chmod(p)
             \/ PartVanished(p) \/ (\E body \in {"good", "bad"} : Write(p, body))
      PROVE  PartHeld' /\ Counters'
  <2>1. pc'[p] \in Downloading /\ UNCHANGED <<orphan, runs>>
    BY <1>5 DEF TransferFails, Hash, HashFails, Chmod, PartVanished, Write, Move, Raise
  <2> QED
    BY <2>1
<1>6. ASSUME NEW p \in Procs, Replace(p) \/ Unlink(p) PROVE PartHeld' /\ Counters'
  BY <1>6 DEF Replace, Unlink
<1> QED
  BY <1>1, <1>2, <1>3, <1>4, <1>5, <1>6 DEF Next, Proceed

\* Both hold from the start, overlap or not.
LEMMA HeldAlways == Spec => [](PartHeld /\ Counters)
<1>1. Init => PartHeld /\ Counters
  <2>1. Init => part = NoFile /\ runs = 0 /\ orphan = FALSE
    BY DEF Init
  <2>2. 0 \in 0 .. MaxRuns
    BY StoreAssumption
  <2> QED
    BY <2>1, <2>2 DEF PartHeld, Counters
<1>2. IInv => Types
  BY DEF IInv
<1> QED
  BY <1>1, <1>2, HeldStep, Invariance, PTL DEF Spec

\* Type correctness of the artifact directory and of its users.
THEOREM TypeCorrect == Spec => []TypeOK
<1>1. IInv /\ Counters => TypeOK
  BY DEF IInv, Types, Counters, TypeOK
<1> QED
  BY <1>1, Invariance, HeldAlways, PTL

\* No `.part` outlives the downloads, a crash's excepted, not even when
\* downloads overlap (l.210-211).
THEOREM PartIsCleared == Spec => []NoPartLeftBehind
<1>1. PartHeld => NoPartLeftBehind
  BY DEF PartHeld, NoPartLeftBehind, Downloading
<1> QED
  BY <1>1, HeldAlways, PTL

-----------------------------------------------------------------------------
(* What CommandsEnd rests on besides fairness: a command has only so many   *)
(* steps left, and every one of them, its own or a crash, leaves fewer.     *)

StepsLeft ==
    [open |-> 6, write |-> 5, hash |-> 4, chmod |-> 3, replace |-> 2, unlink |-> 1,
     idle |-> 0]

Advances(p) ==
    pc[p] # "idle" => pc'[p] = pc[p] \/ StepsLeft[pc'[p]] < StepsLeft[pc[p]]

LEMMA AdvanceStep ==
  ASSUME Types, [Next]_vars, NEW p \in Procs
  PROVE  Advances(p)
<1> USE DEF Types, Advances, StepsLeft, PCs, Downloading
<1>1. CASE UNCHANGED vars
  BY <1>1 DEF vars
<1>2. ASSUME NEW q \in Procs, Command(q) PROVE Advances(p)
  BY <1>2 DEF Command, UseLocal, Refuse, Download, Start
<1>3. ASSUME NEW q \in Procs, Crash(q) PROVE Advances(p)
  BY <1>3 DEF Crash
<1>4. ASSUME NEW q \in Procs, Open(q) \/ Hash(q) \/ Chmod(q) \/ Replace(q) \/ Unlink(q)
      PROVE  Advances(p)
  BY <1>4 DEF Open, Hash, Chmod, Replace, Unlink, Move
<1>5. ASSUME NEW q \in Procs, NEW body, Write(q, body) PROVE Advances(p)
  BY <1>5 DEF Write, Move
<1>6. ASSUME NEW q \in Procs, TransferFails(q) \/ HashFails(q) \/ PartVanished(q)
      PROVE  Advances(p)
  BY <1>6 DEF TransferFails, HashFails, PartVanished, Raise, Move
<1> QED
  BY <1>1, <1>2, <1>3, <1>4, <1>5, <1>6 DEF Next, Proceed

\* No command goes round: whatever fails and whoever interferes, each of its
\* steps brings it nearer to its end (l.185-211).
THEOREM CommandsAdvance == Spec => [][\A p \in Procs : Advances(p)]_vars
<1>1. Types /\ [Next]_vars => [\A p \in Procs : Advances(p)]_vars
  BY AdvanceStep
<1>2. IInv => Types
  BY DEF IInv
<1> QED
  BY <1>1, <1>2, Invariance, PTL DEF Spec
=============================================================================
