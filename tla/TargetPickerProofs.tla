-------------------------- MODULE TargetPickerProofs --------------------------
(***************************************************************************)
(* Proofs about TargetPicker, for any launches and names: the picker's     *)
(* types, that a probe keeps the name it was made under, and that what is  *)
(* shown is the latest launch's as long as a name's launches do not        *)
(* overlap.                                                                *)
(***************************************************************************)
EXTENDS TargetPicker, TLAPS

\* A launch that is waiting under a name nobody else waits under is its latest.
WaitingIsLatest ==
    \A l \in Launches :
        phase[l] = "waiting" /\ target[l] \notin overlapped => l = latest[target[l]]

\* A probe recorded under n came from a launch that was started under n, and
\* from the latest of them.
Sound(n, p) ==
    p # NoProbe =>
        /\ phase[p] = "done"
        /\ target[p] = n
        /\ n \notin overlapped => p = latest[n]

CacheSound ==
    /\ \A t \in Targets : Sound(t, namedProbes[t])
    /\ Sound(lastProbe.label, lastProbe.probe)

TooltipRendered == tooltip = Rendered(selected, namedProbes, lastProbe)

Types ==
    /\ prompt \subseteq Targets
    /\ selected \in Names
    /\ namedProbes \in [Targets -> Probes]
    /\ lastProbe \in Labelled
    /\ phase \in [Launches -> {"idle", "waiting", "done"}]
    /\ target \in [Launches -> Names]
    /\ latest \in [Names -> Probes]
    /\ overlapped \subseteq Names
    /\ config \subseteq Targets

IInv == Types /\ TooltipRendered /\ WaitingIsLatest /\ CacheSound

\* What is shown is sound, because the cache is.
LEMMA ShownIsSound == IInv => Sound(tooltip.label, tooltip.probe)
  BY PickerAssumption
     DEF IInv, Types, TooltipRendered, Rendered, CacheSound, Names, Labelled, Probes

\* A step that leaves the launches and the cache alone, or empties the cache,
\* keeps it sound.
LEMMA QuietStep ==
  ASSUME IInv,
         Prompt \/ Dismiss \/ EditConfig \/ (\E t \in Targets : Pick(t))
           \/ UNCHANGED vars
  PROVE  IInv'
  BY PickerAssumption
     DEF IInv, Types, TooltipRendered, Rendered, Render, WaitingIsLatest, CacheSound, Sound,
         Prompt, Dismiss, EditConfig, Pick, vars, file, cache, launch, warning, Names

\* A reload starts over with an empty cache and no launch (l.49-67).
LEMMA ReloadStep == IInv /\ Reload => IInv'
  <1> SUFFICES ASSUME IInv, Reload PROVE IInv'
    OBVIOUS
  <1>1. Types'
    BY PickerAssumption
       DEF IInv, Types, Reload, file, Names, Probes, Labelled, Nothing
  <1>2. TooltipRendered'
    BY DEF Reload, Render, TooltipRendered
  <1>3. WaitingIsLatest'
    BY DEF IInv, Types, WaitingIsLatest, Reload
  <1>4. CacheSound'
    BY DEF CacheSound, Sound, Reload, Nothing
  <1> QED
    BY <1>1, <1>2, <1>3, <1>4 DEF IInv

\* Beginning under n makes the launch n's latest and forgets n's probe.
LEMMA BeginStep ==
  ASSUME IInv, NEW l \in Launches, NEW attribute \in Names, Begin(l, attribute)
  PROVE  IInv'
  <1> DEFINE n == IF attribute # NoTarget THEN attribute ELSE selected
  <1>1. n \in Names
    BY DEF IInv, Types
  <1>2. /\ phase[l] = "idle"
        /\ phase' = [phase EXCEPT ![l] = "waiting"]
        /\ target' = [target EXCEPT ![l] = n]
        /\ latest' = [latest EXCEPT ![n] = l]
        /\ overlapped' = IF Waiting(n) = {} THEN overlapped ELSE overlapped \cup {n}
        /\ namedProbes' = [t \in Targets |-> IF t = n THEN NoProbe ELSE namedProbes[t]]
        /\ lastProbe' = IF lastProbe.label = n THEN Nothing ELSE lastProbe
        /\ UNCHANGED <<file, prompt, selected, warning>>
        /\ Render
    BY DEF Begin, ReportSessionStart
  <1> HIDE DEF n
  <1>3. Types'
    BY <1>1, <1>2, PickerAssumption DEF IInv, Types, file, Names, Probes, Labelled, Nothing
  <1>4. TooltipRendered'
    BY <1>2 DEF Render, TooltipRendered
  <1>5. WaitingIsLatest'
    <2> SUFFICES ASSUME NEW k \in Launches, phase'[k] = "waiting",
                        target'[k] \notin overlapped'
                 PROVE  k = latest'[target'[k]]
      BY DEF WaitingIsLatest
    <2>1. CASE k = l
      BY <1>1, <1>2, <2>1 DEF IInv, Types
    <2>2. CASE k # l
      <3>1. phase[k] = "waiting" /\ target'[k] = target[k] /\ target[k] \notin overlapped
        BY <1>1, <1>2, <2>2 DEF IInv, Types
      <3>2. target[k] # n
        BY <3>1, <1>2 DEF Waiting
      <3> QED
        BY <1>1, <1>2, <3>1, <3>2 DEF IInv, Types, WaitingIsLatest
    <2> QED
      BY <2>1, <2>2
  <1>6. ASSUME NEW m \in Names, NEW p \in Probes, Sound(m, p), m # n
        PROVE  Sound(m, p)'
    <2> SUFFICES ASSUME p # NoProbe PROVE Sound(m, p)'
      BY DEF Sound
    <2>1. p \in Launches /\ p # l
      BY <1>2, <1>6 DEF Sound, Probes
    <2> QED
      BY <1>1, <1>2, <1>6, <2>1 DEF Sound, IInv, Types
  <1>7. CacheSound'
    <2>1. ASSUME NEW t \in Targets PROVE Sound(t, namedProbes[t])'
      <3>1. CASE t = n
        BY <1>2, <3>1 DEF Sound
      <3>2. CASE t # n
        <4>1. namedProbes'[t] = namedProbes[t] /\ namedProbes[t] \in Probes /\ t \in Names
          BY <1>2, <3>2 DEF IInv, Types, Names
        <4>2. Sound(t, namedProbes[t])
          BY DEF IInv, CacheSound
        <4> QED
          BY <1>6, <3>2, <4>1, <4>2 DEF Sound
      <3> QED
        BY <3>1, <3>2
    <2>2. Sound(lastProbe.label, lastProbe.probe)'
      <3>1. CASE lastProbe.label = n
        BY <1>2, <3>1 DEF Sound, Nothing
      <3>2. CASE lastProbe.label # n
        <4>1. lastProbe' = lastProbe /\ lastProbe.label \in Names /\ lastProbe.probe \in Probes
          BY <1>2, <3>2 DEF IInv, Types, Labelled
        <4>2. Sound(lastProbe.label, lastProbe.probe)
          BY DEF IInv, CacheSound
        <4> QED
          BY <1>6, <3>2, <4>1, <4>2 DEF Sound
      <3> QED
        BY <3>1, <3>2
    <2> QED
      BY <2>1, <2>2 DEF CacheSound
  <1> QED
    BY <1>3, <1>4, <1>5, <1>7 DEF IInv

\* A handshake files its launch under the name it was started with.
LEMMA HandshakeStep ==
  ASSUME IInv, NEW l \in Launches, NEW saveNames \in BOOLEAN, Handshake(l, saveNames)
  PROVE  IInv'
  <1> DEFINE n == target[l]
  <1>1. n \in Names
    BY DEF IInv, Types
  <1>2. /\ phase[l] = "waiting"
        /\ phase' = [phase EXCEPT ![l] = "done"]
        /\ namedProbes' = [t \in Targets |-> IF t = n THEN l ELSE namedProbes[t]]
        /\ lastProbe' = [label |-> n, probe |-> l]
        /\ UNCHANGED <<file, prompt, selected, target, latest, overlapped>>
        /\ Render
    BY DEF Handshake, NameOf
  <1>3. Types'
    BY <1>1, <1>2, PickerAssumption DEF IInv, Types, file, Names, Probes, Labelled
  <1>4. TooltipRendered'
    BY <1>2 DEF Render, TooltipRendered
  <1>5. WaitingIsLatest'
    BY <1>2 DEF IInv, Types, WaitingIsLatest
  <1>6. Sound(n, l)'
    BY <1>2 DEF IInv, Types, WaitingIsLatest, Sound
  <1>7. ASSUME NEW t \in Targets PROVE Sound(t, namedProbes[t])'
    <2>1. CASE t = n
      BY <1>2, <1>6, <2>1 DEF Sound
    <2>2. CASE t # n
      <3>1. namedProbes'[t] = namedProbes[t] /\ Sound(t, namedProbes[t])
            /\ namedProbes[t] \in Probes
        BY <1>2, <2>2 DEF IInv, Types, CacheSound
      <3> QED
        BY <1>2, <3>1 DEF Sound, IInv, Types, Probes
    <2> QED
      BY <2>1, <2>2
  <1>8. Sound(lastProbe.label, lastProbe.probe)'
    BY <1>2, <1>6 DEF Sound
  <1> QED
    BY <1>3, <1>4, <1>5, <1>7, <1>8 DEF IInv, CacheSound

\* A launch that fails files nothing.
LEMMA FailStep ==
  ASSUME IInv, NEW l \in Launches, LaunchFails(l)
  PROVE  IInv'
  <1>1. Types' /\ TooltipRendered'
    BY DEF IInv, Types, TooltipRendered, Rendered, LaunchFails, file, cache
  <1>2. WaitingIsLatest'
    BY DEF IInv, Types, WaitingIsLatest, LaunchFails
  <1>3. CacheSound'
    BY PickerAssumption DEF IInv, Types, CacheSound, Sound, LaunchFails, cache, Probes, Labelled
  <1> QED
    BY <1>1, <1>2, <1>3 DEF IInv

\* The inductive invariant: the tooltip is always the cache rendered, and every
\* entry of the cache is sound.
THEOREM Invariance == Spec => []IInv
  <1>1. Init => IInv
    BY PickerAssumption
       DEF Init, IInv, Types, TooltipRendered, WaitingIsLatest, CacheSound, Sound, Names,
           Probes, Labelled, Nothing
  <1>2. IInv /\ [Next]_vars => IInv'
    <2> SUFFICES ASSUME IInv, [Next]_vars PROVE IInv'
      OBVIOUS
    <2>1. CASE Reload
      BY <2>1, ReloadStep
    <2>2. CASE \E l \in Launches, attribute \in Names : Begin(l, attribute)
      BY <2>2, BeginStep
    <2>3. CASE \E l \in Launches, saveNames \in BOOLEAN : Handshake(l, saveNames)
      BY <2>3, HandshakeStep
    <2>4. CASE \E l \in Launches : LaunchFails(l)
      BY <2>4, FailStep
    <2>5. CASE Prompt \/ Dismiss \/ EditConfig \/ (\E t \in Targets : Pick(t))
                 \/ UNCHANGED vars
      BY <2>5, QuietStep
    <2> QED
      BY <2>1, <2>2, <2>3, <2>4, <2>5 DEF Next
  <1> QED
    BY <1>1, <1>2, PTL DEF Spec

\* A probe is shown under the name its launch was started with, for any number
\* of launches and picks.
THEOREM ProbeNamesItsTarget == Spec => []ProbeKeepsItsName
  <1>1. IInv => ProbeKeepsItsName
    BY ShownIsSound DEF Sound, ProbeKeepsItsName
  <1> QED
    BY <1>1, Invariance, PTL

\* What is shown for a name is its latest launch's probe, unless two of its
\* launches waited at once.
THEOREM ShownIsLatest == Spec => []ShownProbeIsCurrent
  <1>1. IInv => ShownProbeIsCurrent
    BY ShownIsSound DEF Sound, ShownProbeIsCurrent
  <1> QED
    BY <1>1, Invariance, PTL

-----------------------------------------------------------------------------
(* What the picker has said, beside what it shows.                         *)

\* The names warned about are the ones seen without save_names.
NoticesKept ==
    /\ edits \in 0 .. MaxEdits
    /\ nameless \subseteq Names
    /\ warned = nameless
    /\ notices = [n \in Names |-> IF n \in nameless THEN 1 ELSE 0]

\* Only a handshake and a reload touch the notices, and both keep the account.
LEMMA NoticeStep == Types /\ NoticesKept /\ [Next]_vars => NoticesKept'
  <1> SUFFICES ASSUME Types, NoticesKept, [Next]_vars PROVE NoticesKept'
    OBVIOUS
  <1>1. ASSUME NEW l \in Launches, NEW saveNames \in BOOLEAN, Handshake(l, saveNames)
        PROVE  NoticesKept'
    <2> DEFINE n == target[l]
    <2>1. n \in Names
      BY DEF Types
    <2>2. /\ edits' = edits
          /\ nameless' = IF saveNames THEN nameless ELSE nameless \cup {n}
          /\ Notice(n, saveNames)
      BY <1>1 DEF Handshake, NameOf, file
    <2>3. CASE saveNames \/ n \in warned
      BY <2>2, <2>3 DEF Notice, NoticesKept
    <2>4. CASE ~saveNames /\ n \notin warned
      <3>1. /\ nameless' = nameless \cup {n}
            /\ warned' = warned \cup {n}
            /\ notices' = [notices EXCEPT ![n] = @ + 1]
        BY <2>2, <2>4 DEF Notice
      <3> QED
        BY <2>1, <2>2, <2>4, <3>1 DEF NoticesKept
    <2> QED
      BY <2>3, <2>4
  <1>2. CASE Reload
    BY <1>2 DEF Reload, file, NoticesKept
  <1>3. CASE EditConfig
    BY <1>3, PickerAssumption DEF EditConfig, warning, NoticesKept
  <1>4. CASE Prompt \/ Dismiss \/ (\E t \in Targets : Pick(t)) \/ UNCHANGED vars
    BY <1>4 DEF Prompt, Dismiss, Pick, vars, file, warning, NoticesKept
  <1>5. CASE \E l \in Launches : LaunchFails(l) \/ \E a \in Names : Begin(l, a)
    BY <1>5 DEF LaunchFails, Begin, file, warning, NoticesKept
  <1> QED
    BY <1>1, <1>2, <1>3, <1>4, <1>5 DEF Next

\* The account holds from the start.
LEMMA NoticesStayKept == Spec => []NoticesKept
  <1>1. Init => NoticesKept
    BY PickerAssumption DEF Init, NoticesKept
  <1>2. IInv => Types
    BY DEF IInv
  <1> QED
    BY <1>1, <1>2, NoticeStep, Invariance, PTL DEF Spec

\* Type correctness of the picker and of what reports to it (l.37-67).
THEOREM TypeCorrect == Spec => []TypeOK
  <1>1. IInv /\ NoticesKept => TypeOK
    BY DEF IInv, Types, NoticesKept, TooltipRendered, Rendered, TypeOK, Names, Labelled, Probes
  <1> QED
    BY <1>1, Invariance, NoticesStayKept, PTL

\* Every name seen without save_names is announced once, however many of its
\* launches answer and whatever comes in between (l.156-160).
THEOREM NoticeIsGivenOnce == Spec => []OneNoticePerName
  <1>1. NoticesKept => OneNoticePerName
    BY DEF NoticesKept, OneNoticePerName
  <1> QED
    BY <1>1, NoticesStayKept, PTL
=============================================================================
