----------------------- MODULE ExtensionSessionsProofs -----------------------
(***************************************************************************)
(* No child is lost track of, whatever the number of launches and of       *)
(* sessions the user starts by hand, as long as every session has a port   *)
(* of its own (PortsDiffer): then a listener recognises only its launch's  *)
(* session, by the marker or by the port.                                  *)
(***************************************************************************)
EXTENDS ExtensionSessions, TLAPS

USE ForeignAssumption, NoChildAssumption, PortAssumption

\* An entry ties a session to its own launch's child.
EntryInv == \A s \in Sessions : sessionChildren[s] \in {s, NoChild}

\* Only a launch that asked for its session has one.
StartInv ==
    \A l \in Launches :
        /\ phase[l] = "idle" => ~Running(l)
        /\ phase[l] \in {"idle", "handshake"} => session[l] = "none"
        /\ session[l] = "none" => l \notin matched

\* A recognised session still holds its entry, or its child is gone.
MatchInv ==
    \A l \in matched : ~deactivated =>
        ~Running(l) \/ (session[l] = "live" /\ sessionChildren[l] = l)

\* Who holds a running child, by how far its launch has got.
HolderInv ==
    \A l \in Launches : Running(l) /\ ~deactivated =>
        /\ phase[l] = "handshake" => l \in pendingChildren
        /\ phase[l] = "done" => l \in pendingChildren \cup matched

IInv == /\ TypeOK /\ EntryInv /\ StartInv /\ MatchInv /\ HolderInv
        /\ DeactivateReapsTheRest

-----------------------------------------------------------------------------
\* With ports that differ, only launch l's listener recognises session l.
LEMMA OnlyOwnSessionMatches ==
    ASSUME PortsDiffer, NEW l \in Launches, NEW s \in Sessions, NEW kept,
           MatchesLaunch(l, s, kept)
    PROVE  s = l
BY DEF PortsDiffer, MatchesLaunch, Sessions

\* Killing leaves no child of the set running, and starts none.
LEMMA KilledStops ==
    ASSUME TypeOK, NEW S, child' = Killed(S)
    PROVE  /\ child' \in [Launches -> {"none", "running", "exited", "killed"}]
           /\ \A l \in Launches : Running(l)' <=> Running(l) /\ l \notin S
BY DEF TypeOK, Killed, Running

\* Every step keeps the types of the bookkeeping (l.39-47).
LEMMA TypeStep == TypeOK /\ [Next]_vars => TypeOK'
<1> SUFFICES ASSUME TypeOK, [Next]_vars PROVE TypeOK'
  OBVIOUS
<1> USE DEF TypeOK
<1>1. ASSUME NEW l \in Launches, Spawn(l) PROVE TypeOK'
  BY <1>1 DEF Spawn
<1>2. ASSUME NEW l \in Launches, HandshakeFails(l) PROVE TypeOK'
  BY <1>2, KilledStops DEF HandshakeFails
<1>3. ASSUME NEW l \in Launches, HandshakeArrives(l) PROVE TypeOK'
  <2>1. CASE Unwanted(l)
    BY <1>3, <2>1, KilledStops DEF HandshakeArrives
  <2>2. CASE ~Unwanted(l)
    BY <1>3, <2>2 DEF HandshakeArrives
  <2> QED
    BY <2>1, <2>2
<1>4. ASSUME NEW l \in Launches, Started(l) \/ Cancel(l) \/ ChildExits(l) PROVE TypeOK'
  BY <1>4 DEF Started, Cancel, ChildExits
<1>5. ASSUME NEW l \in Launches, StartFails(l) PROVE TypeOK'
  BY <1>5, KilledStops DEF StartFails
<1>6. ASSUME NEW s \in Sessions, NEW kept \in {"marker", "port", "neither"},
             SessionStarts(s, kept)
      PROVE  TypeOK'
  BY <1>6 DEF SessionStarts
<1>7. ASSUME NEW s \in Sessions, SessionEnds(s) PROVE TypeOK'
  BY <1>7, KilledStops DEF SessionEnds
<1>8. CASE Deactivate
  BY <1>8, KilledStops DEF Deactivate
<1>9. CASE UNCHANGED vars
  BY <1>9 DEF vars
<1> QED
  BY <1>1, <1>2, <1>3, <1>4, <1>5, <1>6, <1>7, <1>8, <1>9 DEF Next, Settle

\* The parts of the invariant that are about one launch at a time.
Rest == EntryInv /\ StartInv /\ MatchInv /\ HolderInv /\ DeactivateReapsTheRest

LEMMA RestStep ==
    ASSUME PortsDiffer, IInv, [Next]_vars
    PROVE  Rest'
<1> USE DEF IInv, TypeOK, Rest, EntryInv, StartInv, MatchInv, HolderInv,
            DeactivateReapsTheRest, Listening, Sessions
<1>1. ASSUME NEW l \in Launches, Spawn(l) PROVE Rest'
  BY <1>1 DEF Spawn, Running
<1>2. ASSUME NEW l \in Launches, HandshakeFails(l) PROVE Rest'
  BY <1>2, KilledStops DEF HandshakeFails
<1>3. ASSUME NEW l \in Launches, HandshakeArrives(l) PROVE Rest'
  <2>1. CASE Unwanted(l)
    BY <1>3, <2>1, KilledStops DEF HandshakeArrives
  <2>2. CASE ~Unwanted(l)
    BY <1>3, <2>2 DEF HandshakeArrives, Unwanted, Running
  <2> QED
    BY <2>1, <2>2
<1>4. ASSUME NEW l \in Launches, Started(l) PROVE Rest'
  BY <1>4 DEF Started, Running
<1>5. ASSUME NEW l \in Launches, StartFails(l) PROVE Rest'
  BY <1>5, KilledStops DEF StartFails
<1>6. ASSUME NEW l \in Launches, Cancel(l) \/ ChildExits(l) PROVE Rest'
  BY <1>6 DEF Cancel, ChildExits, Running
<1>7. ASSUME NEW s \in Sessions, NEW kept \in {"marker", "port", "neither"},
             SessionStarts(s, kept)
      PROVE  Rest'
  <2> DEFINE matching == {l \in Launches : Listening(l) /\ MatchesLaunch(l, s, kept)}
  <2>1. matching \subseteq {s}
    BY OnlyOwnSessionMatches
  <2>2. /\ matched' = matched \cup matching
        /\ session' = [session EXCEPT ![s] = "live"]
        /\ UNCHANGED <<phase, child, pendingChildren, deactivated, late>>
        /\ session[s] = "none" /\ (s \in Launches => Listening(s))
    BY <1>7 DEF SessionStarts
  <2>3. CASE matching = {}
    <3>1. UNCHANGED <<sessionChildren, matched>>
      BY <1>7, <2>3 DEF SessionStarts
    <3> QED
      BY <2>2, <3>1 DEF Running
  <2>4. CASE matching = {s}
    <3>1. sessionChildren' = [sessionChildren EXCEPT ![s] = s] /\ s \in Launches
      BY <1>7, <2>4 DEF SessionStarts
    <3> QED
      BY <2>2, <2>4, <3>1 DEF Running
  <2> QED
    BY <2>1, <2>3, <2>4
<1>8. ASSUME NEW s \in Sessions, SessionEnds(s) PROVE Rest'
  <2>1. CASE deactivated
    BY <1>8, <2>1 DEF SessionEnds, Running
  <2>2. CASE ~deactivated
    BY <1>8, <2>2, KilledStops DEF SessionEnds
  <2> QED
    BY <2>1, <2>2
<1>9. CASE Deactivate
  BY <1>9, KilledStops DEF Deactivate
<1>10. CASE UNCHANGED vars
  BY <1>10 DEF vars, Running
<1> QED
  BY <1>1, <1>2, <1>3, <1>4, <1>5, <1>6, <1>7, <1>8, <1>9, <1>10 DEF Next, Settle

-----------------------------------------------------------------------------
(* The theorems.                                                           *)

\* The invariant holds of every reachable state when no two sessions were
\* given one port (l.80-86).
THEOREM Invariance == ASSUME PortsDiffer PROVE Spec => []IInv
<1>1. Init => IInv
  BY DEF Init, IInv, TypeOK, EntryInv, StartInv, MatchInv, HolderInv,
     DeactivateReapsTheRest, Running, Sessions
<1>2. IInv /\ [Next]_vars => IInv'
  BY TypeStep, RestStep DEF IInv, Rest
<1> QED
  BY <1>1, <1>2, PTL DEF Spec

\* Every variable keeps its type, with no assumption on the ports.
THEOREM TypeCorrect == Spec => []TypeOK
<1>1. Init => TypeOK
  BY DEF Init, TypeOK, Sessions
<1> QED
  BY <1>1, TypeStep, PTL DEF Spec

\* A running child is always within reach of something that will kill it
\* (l.39-46, l.245-253).
THEOREM ChildStaysReachable ==
    ASSUME PortsDiffer PROVE Spec => []ChildIsReachable
<1>1. IInv => ChildIsReachable
  <2> SUFFICES ASSUME IInv, NEW l \in Launches, Running(l), ~deactivated,
                      l \notin pendingChildren, ~Listening(l)
               PROVE  \E s \in Sessions : session[s] = "live" /\ sessionChildren[s] = l
    BY DEF ChildIsReachable
  <2>1. l \in matched
    BY DEF IInv, TypeOK, HolderInv, StartInv, Listening
  <2> QED
    BY <2>1 DEF IInv, MatchInv, Sessions
<1> QED
  BY <1>1, Invariance, PTL

\* The end of a session ends the child tied to it (l.295-301).
THEOREM EndedSessionIsClean ==
    ASSUME PortsDiffer PROVE Spec => []EndedSessionLeavesNoChild
<1>1. IInv => EndedSessionLeavesNoChild
  BY DEF IInv, TypeOK, MatchInv, StartInv, DeactivateReapsTheRest,
     EndedSessionLeavesNoChild, Sessions
<1> QED
  BY <1>1, Invariance, PTL

\* deactivate() leaves running only what it caught inside startDebugging or
\* what is still waiting for its handshake (l.43-46, l.196).
THEOREM DeactivateReaps ==
    ASSUME PortsDiffer PROVE Spec => []DeactivateReapsTheRest
<1>1. IInv => DeactivateReapsTheRest
  BY DEF IInv
<1> QED
  BY <1>1, Invariance, PTL

\* What kills the child of a session that lives on: only deactivate(), or the
\* failed start of its own launch.
LEMMA KillStep ==
    ASSUME IInv, [Next]_vars, NEW l \in Launches,
           Running(l), child'[l] = "killed",
           session[l] = "live", session'[l] = "live", ~deactivated'
    PROVE  phase[l] = "starting"
<1> USE DEF IInv, TypeOK
<1>1. phase[l] \notin {"idle", "handshake"}
  BY DEF StartInv
<1>2. \A S : child' = Killed(S) => l \in S
  BY DEF Killed, Running
<1>3. ASSUME NEW k \in Launches, Settle(k) PROVE FALSE
  <2>1. child' \in {child, Killed({k})} /\ phase[k] = "handshake"
    BY <1>3 DEF Settle, HandshakeArrives, HandshakeFails
  <2> QED
    BY <1>1, <1>2, <2>1 DEF Running
<1>4. ASSUME NEW k \in Launches, StartFails(k) PROVE phase[l] = "starting"
  BY <1>2, <1>4 DEF StartFails
<1>5. ASSUME NEW s \in Sessions, SessionEnds(s) PROVE FALSE
  <2>1. ~deactivated /\ session' = [session EXCEPT ![s] = "over"]
    BY <1>5 DEF SessionEnds
  <2>2. l \in {sessionChildren[s]}
    BY <1>2, <1>5, <2>1 DEF SessionEnds
  <2>3. s = l
    BY <2>2 DEF EntryInv
  <2> QED
    BY <2>1, <2>3 DEF Sessions
<1>6. ASSUME NEW k \in Launches, Spawn(k) \/ Started(k) \/ Cancel(k) \/ ChildExits(k)
      PROVE  FALSE
  BY <1>6 DEF Spawn, Started, Cancel, ChildExits, Running
<1>7. CASE \E s \in Sessions, kept \in {"marker", "port", "neither"} : SessionStarts(s, kept)
  BY <1>7 DEF SessionStarts, Running
<1>8. CASE Deactivate \/ UNCHANGED vars
  BY <1>8 DEF Deactivate, vars, Running
<1> QED
  BY <1>3, <1>4, <1>5, <1>6, <1>7, <1>8 DEF Next

\* No session's end kills the child of another that lives (l.39-41, l.295-301).
THEOREM OnlyOwnEndKills ==
    ASSUME PortsDiffer PROVE Spec => OnlyItsOwnEndKills
<1>1. IInv /\ [Next]_vars =>
        [\A l \in Launches :
            /\ Running(l) /\ child'[l] = "killed"
            /\ session[l] = "live" /\ session'[l] = "live"
            => deactivated' \/ phase[l] = "starting"]_vars
  BY KillStep
<1> QED
  BY <1>1, Invariance, PTL DEF Spec, OnlyItsOwnEndKills

-----------------------------------------------------------------------------
(* What UnwantedLaunchIsReaped rests on besides fairness: being unwanted is *)
(* for good, and the only way out of the wait ends with the child gone.     *)

Reaping(l) ==
    phase[l] = "handshake" /\ Unwanted(l) =>
        \/ phase'[l] = "handshake" /\ Unwanted(l)'
        \/ phase'[l] = "done" /\ ~Running(l)'

StaysDown(l) ==
    phase[l] # "idle" /\ ~Running(l) => phase'[l] # "idle" /\ ~Running(l)'

LEMMA ReapStep ==
    ASSUME TypeOK, [Next]_vars, NEW l \in Launches
    PROVE  Reaping(l) /\ StaysDown(l)
<1> USE DEF TypeOK, Reaping, StaysDown, Unwanted, Running
<1>1. ASSUME NEW k \in Launches, Spawn(k) PROVE Reaping(l) /\ StaysDown(l)
  BY <1>1 DEF Spawn
<1>2. ASSUME NEW k \in Launches, HandshakeFails(k) PROVE Reaping(l) /\ StaysDown(l)
  BY <1>2 DEF HandshakeFails, Killed
<1>3. ASSUME NEW k \in Launches, HandshakeArrives(k) PROVE Reaping(l) /\ StaysDown(l)
  <2>1. CASE Unwanted(k)
    BY <1>3, <2>1 DEF HandshakeArrives, Killed
  <2>2. CASE ~Unwanted(k)
    BY <1>3, <2>2 DEF HandshakeArrives
  <2> QED
    BY <2>1, <2>2
<1>4. ASSUME NEW k \in Launches, Started(k) \/ StartFails(k)
      PROVE  Reaping(l) /\ StaysDown(l)
  BY <1>4 DEF Started, StartFails, Killed
<1>5. ASSUME NEW k \in Launches, Cancel(k) \/ ChildExits(k)
      PROVE  Reaping(l) /\ StaysDown(l)
  BY <1>5 DEF Cancel, ChildExits
<1>6. ASSUME NEW s \in Sessions,
             \/ SessionEnds(s)
             \/ \E kept \in {"marker", "port", "neither"} : SessionStarts(s, kept)
      PROVE  Reaping(l) /\ StaysDown(l)
  <2>1. /\ UNCHANGED <<phase, deactivated, cancelled>>
        /\ child'[l] \in {child[l], "killed"}
    BY <1>6 DEF SessionEnds, SessionStarts, Killed
  <2> QED
    BY <2>1
<1>7. CASE Deactivate
  BY <1>7 DEF Deactivate, Killed
<1>8. CASE UNCHANGED vars
  BY <1>8 DEF vars
<1> QED
  BY <1>1, <1>2, <1>3, <1>4, <1>5, <1>6, <1>7, <1>8 DEF Next, Settle

\* A launch that deactivate() or the user's cancel overtakes during the wait
\* for its handshake stays unwanted until the wait settles, which leaves its
\* child down, and no later event brings a child back (l.173-199).
THEOREM UnwantedIsDoomed ==
    Spec => [][\A l \in Launches : Reaping(l) /\ StaysDown(l)]_vars
<1>1. TypeOK /\ [Next]_vars => [\A l \in Launches : Reaping(l) /\ StaysDown(l)]_vars
  BY ReapStep
<1> QED
  BY <1>1, TypeCorrect, PTL DEF Spec
=============================================================================
