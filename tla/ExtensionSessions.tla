-------------------------- MODULE ExtensionSessions --------------------------
(***************************************************************************)
(* extension/src/extension.ts: who owns the `mpremote debug` child that    *)
(* backs a debug session, from its spawn to its kill.                      *)
(*                                                                         *)
(* A launch spawns a child and waits for its handshake (runDebugCommand,   *)
(* DebugCommand.tla), asks VS Code to start the attach session, and ties   *)
(* the child to the session it sees start.  The extension host runs one    *)
(* callback at a time; what interleaves are the stretches between its      *)
(* awaits, the session events, and deactivate().  VS Code, the Python      *)
(* debugger and the child are external.                                    *)
(***************************************************************************)
EXTENDS Naturals, FiniteSets

CONSTANTS
    Launches,   \* the launches; launch l starts the session called l
    Foreign,    \* debugpy sessions the user starts some other way
    NoChild,    \* a session tied to no child
    PortOf      \* the connect port of each session, by the handshake

Sessions == Launches \cup Foreign

ASSUME ForeignAssumption == Launches \cap Foreign = {}
ASSUME NoChildAssumption == NoChild \notin Launches
ASSUME PortAssumption == PortOf \in [Sessions -> Nat]

VARIABLES
    phase,            \* where each launch's resolve has got to
    child,            \* each launch's mpremote process
    pendingChildren,  \* spawned and not yet attributed
    sessionChildren,  \* the child each session is tied to, or NoChild
    deactivated,
    cancelled,        \* launches whose cancellation token fired
    session,          \* VS Code's sessions: "none", "live" or "over"
    config,           \* what a session's configuration kept of its launch
    matched,          \* launches whose listener recognised a session
    late              \* launches caught by deactivate() in startDebugging

vars == <<phase, child, pendingChildren, sessionChildren, deactivated,
          cancelled, session, config, matched, late>>

Running(l)   == child[l] = "running"
Listening(l) == phase[l] = "starting"     \* startedSub is not yet disposed

TypeOK ==
    /\ phase \in [Launches -> {"idle", "handshake", "starting", "done"}]
    /\ child \in [Launches -> {"none", "running", "exited", "killed"}]
    /\ pendingChildren \subseteq Launches
    /\ sessionChildren \in [Sessions -> Launches \cup {NoChild}]
    /\ deactivated \in BOOLEAN
    /\ cancelled \subseteq Launches
    /\ session \in [Sessions -> {"none", "live", "over"}]
    /\ config \in [Sessions -> {"none", "marker", "port", "neither"}]
    /\ matched \subseteq Launches
    /\ late \subseteq Launches

Init ==
    /\ phase = [l \in Launches |-> "idle"]
    /\ child = [l \in Launches |-> "none"]
    /\ pendingChildren = {}
    /\ sessionChildren = [s \in Sessions |-> NoChild]
    /\ deactivated = FALSE
    /\ cancelled = {}
    /\ session = [s \in Sessions |-> "none"]
    /\ config = [s \in Sessions |-> "none"]
    /\ matched = {}
    /\ late = {}

\* terminateChild() of every launch in S: a process already gone stays gone.
Killed(S) == [l \in Launches |-> IF l \in S /\ Running(l) THEN "killed" ELSE child[l]]

-----------------------------------------------------------------------------
(* One launch: resolveDebugConfigurationWithSubstitutedVariables.          *)

\* Up to the first await: the child is spawned and onSpawn records it.
Spawn(l) ==
    /\ phase[l] = "idle"
    /\ phase' = [phase EXCEPT ![l] = "handshake"]
    /\ child' = [child EXCEPT ![l] = "running"]
    /\ pendingChildren' = pendingChildren \cup {l}
    /\ UNCHANGED <<sessionChildren, deactivated, cancelled, session, config,
                   matched, late>>

\* runDebugCommand rejects, having killed the child.
HandshakeFails(l) ==
    /\ phase[l] = "handshake"
    /\ phase' = [phase EXCEPT ![l] = "done"]
    /\ child' = Killed({l})
    /\ pendingChildren' = pendingChildren \ {l}
    /\ UNCHANGED <<sessionChildren, deactivated, cancelled, session, config,
                   matched, late>>

\* Mutant: a launch settled after deactivate() or a cancel goes on.
AlwaysWanted(l) == FALSE

\* The launch settled too late to be wanted.
Unwanted(l) == deactivated \/ l \in cancelled

\* runDebugCommand resolves: from the `finally` to the await of startDebugging.
HandshakeArrives(l) ==
    /\ phase[l] = "handshake"
    /\ pendingChildren' = pendingChildren \ {l}
    /\ IF Unwanted(l)
       THEN /\ phase' = [phase EXCEPT ![l] = "done"]
            /\ child' = Killed({l})
       ELSE /\ phase' = [phase EXCEPT ![l] = "starting"]
            /\ UNCHANGED child
    /\ UNCHANGED <<sessionChildren, deactivated, cancelled, session, config,
                   matched, late>>

\* Mutant: an uncorrelated child is dropped.
StartedAndForgets(l) ==
    /\ phase[l] = "starting"
    /\ phase' = [phase EXCEPT ![l] = "done"]
    /\ UNCHANGED <<child, pendingChildren, sessionChildren, deactivated,
                   cancelled, session, config, matched, late>>

\* startDebugging() returned true.
Started(l) ==
    /\ phase[l] = "starting"
    /\ phase' = [phase EXCEPT ![l] = "done"]
    /\ pendingChildren' = IF l \in matched THEN pendingChildren
                          ELSE pendingChildren \cup {l}
    /\ UNCHANGED <<child, sessionChildren, deactivated, cancelled, session,
                   config, matched, late>>

\* startDebugging() returned false, or threw.
StartFails(l) ==
    /\ phase[l] = "starting"
    /\ phase' = [phase EXCEPT ![l] = "done"]
    /\ child' = Killed({l})
    /\ UNCHANGED <<pendingChildren, sessionChildren, deactivated, cancelled,
                   session, config, matched, late>>

-----------------------------------------------------------------------------
(* The session events, and the end of the extension.                       *)

\* Mutant: the type alone is taken for a match.
MatchesAny(l, s, kept) == kept = "port"

\* matchesLaunch(): the marker stamped on the configuration, or its port.
MatchesLaunch(l, s, kept) ==
    \/ kept = "marker" /\ s = l
    \/ kept # "neither" /\ PortOf[s] = PortOf[l]

\* onDidStartDebugSession reaches every listening launch; the last listener to
\* match keeps the entry, in whatever order VS Code calls them.  `kept` is what
\* debugpy's resolver left of the configuration.
SessionStarts(s, kept) ==
    LET matching == {l \in Launches : Listening(l) /\ MatchesLaunch(l, s, kept)}
    IN  /\ session[s] = "none"
        /\ s \in Launches => Listening(s)
        /\ s \in Foreign => kept = "port"
        /\ session' = [session EXCEPT ![s] = "live"]
        /\ config' = [config EXCEPT ![s] = kept]
        /\ matched' = matched \cup matching
        /\ IF matching = {} THEN UNCHANGED sessionChildren
           ELSE \E l \in matching :
                    sessionChildren' = [sessionChildren EXCEPT ![s] = l]
        /\ UNCHANGED <<phase, child, pendingChildren, deactivated, cancelled, late>>

\* Mutant: the entry is dropped and the child is not killed.
SessionEndsQuietly(s) ==
    /\ session[s] = "live"
    /\ session' = [session EXCEPT ![s] = "over"]
    /\ sessionChildren' = [sessionChildren EXCEPT ![s] = NoChild]
    /\ UNCHANGED <<phase, child, pendingChildren, deactivated, cancelled, config,
                   matched, late>>

\* Mutant: the child is put back among the unattributed, looked up or not.
SessionEndsRequeues(s) ==
    /\ session[s] = "live"
    /\ session' = [session EXCEPT ![s] = "over"]
    /\ pendingChildren' = pendingChildren \cup {sessionChildren[s]}
    /\ sessionChildren' = [sessionChildren EXCEPT ![s] = NoChild]
    /\ UNCHANGED <<phase, child, deactivated, cancelled, config, matched, late>>

\* onDidTerminateDebugSession, a subscription VS Code disposes of when it
\* deactivates the extension.
SessionEnds(s) ==
    /\ session[s] = "live"
    /\ session' = [session EXCEPT ![s] = "over"]
    /\ IF deactivated THEN UNCHANGED <<child, sessionChildren>>
       ELSE /\ child' = Killed({sessionChildren[s]})
            /\ sessionChildren' = [sessionChildren EXCEPT ![s] = NoChild]
    /\ UNCHANGED <<phase, pendingChildren, deactivated, cancelled, config,
                   matched, late>>

\* deactivate().
Deactivate ==
    /\ ~deactivated
    /\ deactivated' = TRUE
    /\ child' = Killed({sessionChildren[s] : s \in Sessions} \cup pendingChildren)
    /\ sessionChildren' = [s \in Sessions |-> NoChild]
    /\ pendingChildren' = {}
    /\ late' = {l \in Launches : Listening(l)}
    /\ UNCHANGED <<phase, cancelled, session, config, matched>>

\* The user cancels a launch that is still resolving.
Cancel(l) ==
    /\ phase[l] \in {"handshake", "starting"}
    /\ cancelled' = cancelled \cup {l}
    /\ UNCHANGED <<phase, child, pendingChildren, sessionChildren, deactivated,
                   session, config, matched, late>>

\* The child exits of its own accord, as a device transport's does.
ChildExits(l) ==
    /\ Running(l)
    /\ child' = [child EXCEPT ![l] = "exited"]
    /\ UNCHANGED <<phase, pendingChildren, sessionChildren, deactivated,
                   cancelled, session, config, matched, late>>

Settle(l) == HandshakeArrives(l) \/ HandshakeFails(l)

Next ==
    \/ \E l \in Launches :
          \/ Spawn(l) \/ Settle(l) \/ Started(l) \/ StartFails(l)
          \/ Cancel(l) \/ ChildExits(l)
    \/ \E s \in Sessions, kept \in {"marker", "port", "neither"} : SessionStarts(s, kept)
    \/ \E s \in Sessions : SessionEnds(s)
    \/ Deactivate

\* runDebugCommand always settles, at the latest by its timer
\* (HandshakeWait!SettlesAtAll); nothing is assumed of VS Code or of the user.
Spec == Init /\ [][Next]_vars /\ \A l \in Launches : WF_vars(Settle(l))

-----------------------------------------------------------------------------
(* Correctness.                                                            *)

\* "Unique per launch in practice" (l.77-78).
PortsDiffer == \A s, t \in Sessions : s # t => PortOf[s] # PortOf[t]

\* A running child is always within reach of something that will kill it: the
\* pending set, a live session's entry, or the launch still resolving (l.39-46,
\* l.245-253).  Deactivation takes the first two away.
ChildIsReachable ==
    \A l \in Launches : Running(l) /\ ~deactivated =>
        \/ l \in pendingChildren
        \/ Listening(l)
        \/ \E s \in Sessions : session[s] = "live" /\ sessionChildren[s] = l

\* While a session lives, only deactivate() or the failed start of its own
\* launch kills the child behind it: never another session's end (l.39-41,
\* l.295-301).
OnlyItsOwnEndKills ==
    [][\A l \in Launches :
         /\ Running(l) /\ child'[l] = "killed"
         /\ session[l] = "live" /\ session'[l] = "live"
         => deactivated' \/ phase[l] = "starting"]_vars

\* However a session ends, the child it was tied to does not survive it, unless
\* deactivate() struck while the session was being started.
EndedSessionLeavesNoChild ==
    \A l \in matched \ late : session[l] = "over" => ~Running(l)

\* After deactivate() only a launch it caught inside startDebugging, or one
\* still waiting for its handshake, may have a running child (l.43-46, l.196).
DeactivateReapsTheRest ==
    deactivated => \A l \in Launches :
        Running(l) => l \in late \/ phase[l] = "handshake"

\* A launch cancelled, or overtaken by deactivate(), while its handshake is
\* awaited does not leave its child running: whichever way the wait settles,
\* it ends with the child (l.173-199).
UnwantedLaunchIsReaped ==
    \A l \in Launches :
        phase[l] = "handshake" /\ (deactivated \/ l \in cancelled) ~> ~Running(l)

\* What the comment on pendingChildren says without exception (l.43-45): once
\* no launch is under way, deactivate() has left no child running.
DeactivateReapsAll ==
    deactivated /\ (\A l \in Launches : phase[l] \in {"idle", "done"}) =>
        \A l \in Launches : ~Running(l)
=============================================================================
