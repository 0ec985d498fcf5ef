---------------------------- MODULE TargetPicker ----------------------------
(***************************************************************************)
(* extension/src/targetPicker.ts: the status bar's picked target and the   *)
(* capabilities it shows for it, with the launches of extension.ts that    *)
(* report to it.  A launch picks its target before the wait for the        *)
(* handshake and reports under that name after it; picks, reloads and      *)
(* other launches come in between.                                         *)
(*                                                                         *)
(* A probe is named by the launch whose handshake brought it.  workspace-  *)
(* State, the QuickPick and the extension host's reload are external.      *)
(***************************************************************************)
EXTENDS Naturals, FiniteSets

CONSTANTS
    Launches,
    Targets,     \* the names a target may have
    NoTarget,    \* `undefined`: no attribute and no pick
    NoProbe,
    MaxEdits     \* bound: edits of mpdebug.toml

Names == Targets \cup {NoTarget}

ASSUME PickerAssumption ==
    NoTarget \notin Targets /\ NoProbe \notin Launches /\ MaxEdits \in Nat

Probes  == Launches \cup {NoProbe}
Labelled == [label : Names, probe : Probes]
Nothing == [label |-> NoTarget, probe |-> NoProbe]

VARIABLES
    config,       \* the targets mpdebug.toml defines
    edits,
    prompt,       \* the targets an open QuickPick lists; {} when none is open
    selected,     \* selectedTarget, in workspaceState
    namedProbes, lastProbe, warned,
    tooltip,      \* what render() last put there
    phase,        \* each launch: "idle", "waiting" or "done"
    target,       \* the name it was started with
    latest,       \* the launch last begun under each name
    overlapped,   \* names with two launches waiting at once
    nameless,     \* names seen without save_names by this extension host
    notices       \* notifications it showed, by name

file    == <<config, edits>>
cache   == <<namedProbes, lastProbe>>
warning == <<warned, nameless, notices>>
launch  == <<phase, target, latest, overlapped>>
vars    == <<file, prompt, selected, cache, tooltip, launch, warning>>

TypeOK ==
    /\ config \subseteq Targets /\ edits \in 0 .. MaxEdits
    /\ prompt \subseteq Targets
    /\ selected \in Names
    /\ namedProbes \in [Targets -> Probes]
    /\ lastProbe \in Labelled
    /\ warned \subseteq Names
    /\ tooltip \in Labelled
    /\ phase \in [Launches -> {"idle", "waiting", "done"}]
    /\ target \in [Launches -> Names]
    /\ latest \in [Names -> Probes]
    /\ overlapped \subseteq Names
    /\ nameless \subseteq Names
    /\ notices \in [Names -> 0 .. 1]

\* render(): the pick's own probe, or the last one of any name when nothing is
\* picked.
Rendered(pick, named, last) ==
    IF pick = NoTarget THEN last
    ELSE [label |-> pick, probe |-> named[pick]]

Render == tooltip' = Rendered(selected', namedProbes', lastProbe')

Init ==
    /\ config \in SUBSET Targets /\ edits = 0
    /\ prompt = {}
    /\ selected \in Names
    /\ namedProbes = [t \in Targets |-> NoProbe]
    /\ lastProbe = Nothing
    /\ tooltip = Rendered(selected, namedProbes, lastProbe)
    /\ phase = [l \in Launches |-> "idle"]
    /\ target = [l \in Launches |-> NoTarget]
    /\ latest = [n \in Names |-> NoProbe]
    /\ overlapped = {}
    /\ warned = {} /\ nameless = {} /\ notices = [n \in Names |-> 0]

-----------------------------------------------------------------------------
(* The command that picks a target.                                        *)

\* promptForTarget() up to showQuickPick; without targets it only says so.
Prompt ==
    /\ prompt = {} /\ config # {}
    /\ prompt' = config
    /\ UNCHANGED <<file, selected, cache, tooltip, launch, warning>>

Pick(t) ==
    /\ t \in prompt
    /\ prompt' = {}
    /\ selected' = t
    /\ UNCHANGED <<file, cache, launch, warning>>
    /\ Render

Dismiss ==
    /\ prompt # {} /\ prompt' = {}
    /\ UNCHANGED <<file, selected, cache, tooltip, launch, warning>>

EditConfig ==
    /\ edits < MaxEdits
    /\ edits' = edits + 1
    /\ config' \in SUBSET Targets
    /\ UNCHANGED <<prompt, selected, cache, tooltip, launch, warning>>

-----------------------------------------------------------------------------
(* The launches.                                                           *)

Waiting(n) == {l \in Launches : phase[l] = "waiting" /\ target[l] = n}

\* Mutant: the probe of an earlier session is kept until the next one lands.
StartKeepsProbe(n) == UNCHANGED cache

\* reportSessionStart().
ReportSessionStart(n) ==
    /\ namedProbes' = [t \in Targets |-> IF t = n THEN NoProbe ELSE namedProbes[t]]
    /\ lastProbe' = IF lastProbe.label = n THEN Nothing ELSE lastProbe

\* A launch names its target: the configuration's, else the pick.
Begin(l, attribute) ==
    LET n == IF attribute # NoTarget THEN attribute ELSE selected
    IN  /\ phase[l] = "idle"
        /\ phase' = [phase EXCEPT ![l] = "waiting"]
        /\ target' = [target EXCEPT ![l] = n]
        /\ latest' = [latest EXCEPT ![n] = l]
        /\ overlapped' = IF Waiting(n) = {} THEN overlapped ELSE overlapped \cup {n}
        /\ ReportSessionStart(n)
        /\ UNCHANGED <<file, prompt, selected, warning>>
        /\ Render

\* Mutant: the notification is repeated on every handshake.
NoticeAlways(n, saveNames) ==
    /\ UNCHANGED warned
    /\ notices' = IF saveNames THEN notices ELSE [notices EXCEPT ![n] = @ + 1]

\* Mutant: one notification for all targets together.
NoticeOnceForAll(n, saveNames) ==
    IF saveNames \/ warned # {} THEN UNCHANGED <<warned, notices>>
    ELSE /\ warned' = warned \cup {n}
         /\ notices' = [notices EXCEPT ![n] = @ + 1]

\* The notification that names are placeholders.
Notice(n, saveNames) ==
    IF saveNames \/ n \in warned THEN UNCHANGED <<warned, notices>>
    ELSE /\ warned' = warned \cup {n}
         /\ notices' = [notices EXCEPT ![n] = @ + 1]

\* Mutant: the probe is recorded under the pick of the moment.
NameOfPick(l) == selected

\* The name captured before the wait.
NameOf(l) == target[l]

\* reportHandshake().
Handshake(l, saveNames) ==
    LET n == NameOf(l)
    IN  /\ phase[l] = "waiting"
        /\ phase' = [phase EXCEPT ![l] = "done"]
        /\ namedProbes' = [t \in Targets |-> IF t = n THEN l ELSE namedProbes[t]]
        /\ lastProbe' = [label |-> n, probe |-> l]
        /\ nameless' = IF saveNames THEN nameless ELSE nameless \cup {n}
        /\ Notice(n, saveNames)
        /\ UNCHANGED <<file, prompt, selected, target, latest, overlapped>>
        /\ Render

\* No handshake, or one the user no longer wants.
LaunchFails(l) ==
    /\ phase[l] = "waiting"
    /\ phase' = [phase EXCEPT ![l] = "done"]
    /\ UNCHANGED <<file, prompt, selected, cache, tooltip, warning, target,
                   latest, overlapped>>

\* The window reloads: launches end, only the pick survives.
Reload ==
    /\ phase' = [l \in Launches |-> IF phase[l] = "waiting" THEN "done" ELSE phase[l]]
    /\ namedProbes' = [t \in Targets |-> NoProbe]
    /\ lastProbe' = Nothing
    /\ warned' = {} /\ nameless' = {} /\ notices' = [n \in Names |-> 0]
    /\ prompt' = {}
    /\ UNCHANGED <<file, selected, target, latest, overlapped>>
    /\ Render

Next ==
    \/ Prompt \/ Dismiss \/ EditConfig \/ Reload
    \/ \E t \in Targets : Pick(t)
    \/ \E l \in Launches :
          \/ \E attribute \in Names : Begin(l, attribute)
          \/ \E saveNames \in BOOLEAN : Handshake(l, saveNames)
          \/ LaunchFails(l)

Spec == Init /\ [][Next]_vars

-----------------------------------------------------------------------------
(* Correctness.                                                            *)

\* A probe is shown under the name its launch was started with, whatever was
\* picked while the launch waited (l.146-161, extension.ts l.134-137).
ProbeKeepsItsName ==
    tooltip.probe # NoProbe => target[tooltip.probe] = tooltip.label

\* What is shown for a name was probed by the latest launch under that name,
\* as long as its launches do not overlap (l.9-13, l.126-145).
ShownProbeIsCurrent ==
    tooltip.probe # NoProbe /\ tooltip.label \notin overlapped =>
        tooltip.probe = latest[tooltip.label]

\* Every name seen without save_names is announced, once (l.156-160).
OneNoticePerName ==
    \A n \in Names : notices[n] = IF n \in nameless THEN 1 ELSE 0

\* What the header says without exception: "a stale probe from an earlier
\* session [...] is never shown as current" (l.11-13).
StaleProbeNeverShown ==
    tooltip.probe # NoProbe => tooltip.probe = latest[tooltip.label]
=============================================================================
