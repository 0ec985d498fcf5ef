--------------------------- MODULE LauncherProofs ---------------------------
(***************************************************************************)
(* The launcher's safety properties, for any set of modules, any number of *)
(* edits and any number of restarts.  They follow from one inductive       *)
(* invariant, stated in parts: each part is about one concern of the       *)
(* script and says what holds at the places between its steps.             *)
(***************************************************************************)
EXTENDS Launcher, TLAPS

BeforeServer == {"Start", "Detect", "CheckPrevious", "Attach", "Listen"}
LoopPCs  == {"Iterate", "Probe", "Arm", "Import", "Run", "AfterRun", "WaitRestart"}
Serving  == {"Ready", "WaitClient", "Baseline"} \cup LoopPCs
FreshPCs == {"Probe", "Arm", "Import", "Run"}

\* Who holds the slot: the wrapper is registered from the step after it was
\* installed to the step that takes it out.
SlotInv ==
    /\ slot \in {"mux", board.slot}
    /\ registered => slot = "mux" /\ board.slot = "live" /\ args.spec = "repl"
    /\ slot = "mux" => registered \/ pc = "CheckPrevious" \/ windowHit \/ stranded
    /\ pc \in {"Start", "Detect"} => slot = board.slot
    /\ pc \in {"Start", "Detect", "CheckPrevious"} => ~registered
    /\ pc = "CheckPrevious" => args.spec = "repl" /\ slot = "mux"
    /\ pc = "Attach" => registered
    /\ pc = "Exited" => ~registered

\* The channel announced is the channel opened is the channel asked for.
ChannelInv ==
    /\ pc \in {"Listen"} \cup Serving =>
        /\ stream = (IF args.spec = "tcp" THEN "none" ELSE args.spec)
        /\ registered <=> args.spec = "repl"
    /\ pc \in {"Start", "Detect"} => stream = "none"
    /\ ready # NotReady =>
        /\ (ready.host = "serial") <=> (args.spec # "tcp")
        /\ ready.repl <=> (args.spec = "repl")
        /\ pc # "Exited" => (registered <=> args.spec = "repl")

\* When the server is open.
ServerInv ==
    /\ pc \in BeforeServer => server = "none" /\ ready = NotReady
    /\ pc = "Ready" => server = "open"
    /\ pc = "Release" => server = "closed"
    /\ pc \in LoopPCs \cup {"Baseline"} => client # "away"

\* The debugger's modules are loaded, and in the baseline.
DebuggerInv ==
    /\ pc \notin {"Start", "EndSession", "Release", "Exited"} => Debugger \subseteq Loaded
    /\ server = "open" => Debugger \subseteq Loaded
    /\ pc \in LoopPCs => Debugger \subseteq baseline

\* The trace function, and the firmware's guard that may outlive it.
TraceInv ==
    /\ tracing => InTarget
    /\ iteration = 0 => ~guardStuck /\ ~degraded /\ required = NoRequest
    /\ pc \in BeforeServer \cup {"Ready", "WaitClient", "Baseline"} => iteration = 0
    /\ pc \in LoopPCs \ {"Iterate"} => iteration > 0
    /\ pc \in {"Arm"} \cup TargetPCs => (degraded <=> guardStuck)

\* One request pays for one more run.
CountInv ==
    /\ iteration <= requests + 1
    /\ pending # NoRequest => iteration <= requests /\ requests > 0
    /\ InTarget => ~restarting
    /\ pc = "Iterate" /\ iteration > 0 =>
        /\ iteration <= requests
        /\ pending # NoRequest => iteration + 1 <= requests
    /\ pc = "AfterRun" /\ restarting =>
        /\ iteration <= requests
        /\ pending # NoRequest => iteration + 1 <= requests

\* What a request wants is on disk, and what a restarted run has is no older.
FreshInv ==
    /\ pending # NoRequest => \A m \in Modules : pending[m] <= disk[m]
    /\ required # NoRequest => \A m \in Modules : required[m] <= disk[m]
    /\ pc \in FreshPCs /\ required # NoRequest =>
        \A m \in Loaded \ baseline : loaded[m] >= required[m]

\* The type invariant in two parts, which different provers are good at.
FlagsOK ==
    /\ registered \in BOOLEAN
    /\ restarting \in BOOLEAN
    /\ tracing \in BOOLEAN
    /\ guardStuck \in BOOLEAN
    /\ degraded \in BOOLEAN
    /\ windowHit \in BOOLEAN
    /\ stranded \in BOOLEAN

DataOK ==
    /\ args \in [spec : Specs, loop : BOOLEAN]
    /\ board \in [slot : Ports, guardBug : BOOLEAN]
    /\ pc \in PCs
    /\ slot \in Slots
    /\ stream \in {"none", "path", "repl"}
    /\ server \in {"none", "open", "closed"}
    /\ ready \in [host : {"none", "serial", "address"}, repl : BOOLEAN]
    /\ client \in {"away", "configured", "gone"}
    /\ disk \in [Modules -> Versions]
    /\ loaded \in [Modules -> 0 .. MaxVersion]
    /\ baseline \subseteq Modules
    /\ iteration \in 0 .. MaxRestarts + 1
    /\ requests \in 0 .. MaxRestarts
    /\ pending \in [Modules -> Versions] \cup {NoRequest}
    /\ required \in [Modules -> Versions] \cup {NoRequest}

IInv == /\ TypeOK /\ SlotInv /\ ChannelInv /\ ServerInv
        /\ DebuggerInv /\ TraceInv /\ CountInv /\ FreshInv

USE ModulesAssumption, BoundsAssumption

-----------------------------------------------------------------------------
(* The invariant is inductive.                                             *)

\* Every step keeps account of who holds the REPL slot.
LEMMA SlotStep == IInv /\ [Next]_vars => SlotInv'
<1> SUFFICES ASSUME IInv, [Next]_vars PROVE SlotInv'
  OBVIOUS
<1> USE DEF IInv, TypeOK, SlotInv, Ports, Slots, Specs, PCs, InTarget,
      TargetPCs, repl, exempt, PutBack, DebuggerImported, dap, loop, trace,
      code, asked, given, runs, static, state, Fail, Goto
<1>1. CASE Interrupt
  BY <1>1 DEF Interrupt
<1>2. CASE Start \/ StartFails \/ OpenStream \/ OpenFails \/ InstallMux
          \/ RefusePrevious \/ RegisterMux \/ AttachMux \/ AttachFails
          \/ Listen \/ ListenFails \/ PrintReady \/ ClientConfigured
          \/ NoClient \/ TakeBaseline \/ FirstIteration \/ NextIteration
          \/ Probe \/ Arm \/ ImportDone \/ RunReturns \/ RunFails \/ Unwind
          \/ AfterRun \/ RestartAsked \/ ClientGone \/ EndSession \/ Release
          \/ ClientLeaves \/ RequestRestart
  BY <1>2 DEF Start, StartFails, OpenStream, OpenFails, InstallMux,
    RefusePrevious, RegisterMux, AttachMux, AttachFails, Listen, ListenFails,
    PrintReady, ClientConfigured, NoClient, TakeBaseline, FirstIteration,
    NextIteration, Probe, Arm, ImportDone, RunReturns, RunFails, Unwind,
    AfterRun, RestartAsked, ClientGone, EndSession, Release, ClientLeaves,
    RequestRestart, Unopenable, Evict, TracingSurvived, LeaveRun
<1>3. CASE (\E m \in Modules : LoadModule(m)) \/ (\E m \in Modules : Edit(m))
  BY <1>3 DEF LoadModule, Edit
<1>4. CASE Done \/ UNCHANGED vars
  BY <1>4 DEF Done, vars
<1> QED
  BY <1>1, <1>2, <1>3, <1>4
     DEF Next, Script, TargetCode, Environment

\* Every step keeps channel and handshake in agreement.
LEMMA ChannelStep == IInv /\ [Next]_vars => ChannelInv'
<1> SUFFICES ASSUME IInv, [Next]_vars PROVE ChannelInv'
  OBVIOUS
<1> USE DEF IInv, TypeOK, ChannelInv, SlotInv, ServerInv, BeforeServer,
      Serving, LoopPCs, NotReady, Specs, PCs, InTarget, TargetPCs, repl,
      exempt, PutBack, DebuggerImported, dap, loop, trace, code, asked, given,
      runs, static, state, Fail, Goto
<1>1. CASE AttachMux
  BY <1>1 DEF AttachMux
<1>2. CASE PrintReady
  BY <1>2 DEF PrintReady
<1>3. CASE Release
  BY <1>3 DEF Release
<1>4. CASE Interrupt
  BY <1>4 DEF Interrupt
<1>5. CASE Start \/ StartFails \/ OpenStream \/ OpenFails \/ InstallMux
          \/ RefusePrevious \/ RegisterMux \/ AttachFails \/ Listen
          \/ ListenFails \/ ClientConfigured \/ NoClient \/ TakeBaseline
          \/ FirstIteration \/ NextIteration \/ Probe \/ Arm \/ ImportDone
          \/ RunReturns \/ RunFails \/ Unwind \/ AfterRun \/ RestartAsked
          \/ ClientGone \/ EndSession \/ ClientLeaves \/ RequestRestart
  BY <1>5 DEF Start, StartFails, OpenStream, OpenFails, InstallMux,
    RefusePrevious, RegisterMux, AttachFails, Listen, ListenFails,
    ClientConfigured, NoClient, TakeBaseline, FirstIteration, NextIteration,
    Probe, Arm, ImportDone, RunReturns, RunFails, Unwind, AfterRun,
    RestartAsked, ClientGone, EndSession, ClientLeaves, RequestRestart,
    Unopenable, Evict, TracingSurvived, LeaveRun
<1>6. CASE (\E m \in Modules : LoadModule(m)) \/ (\E m \in Modules : Edit(m))
  BY <1>6 DEF LoadModule, Edit
<1>7. CASE Done \/ UNCHANGED vars
  BY <1>7 DEF Done, vars
<1> QED
  BY <1>1, <1>2, <1>3, <1>4, <1>5, <1>6, <1>7
     DEF Next, Script, TargetCode, Environment

\* The server opens after the channel and closes before the release.
LEMMA ServerStep == IInv /\ [Next]_vars => ServerInv'
<1> SUFFICES ASSUME IInv, [Next]_vars PROVE ServerInv'
  OBVIOUS
<1> USE DEF IInv, TypeOK, ServerInv, BeforeServer, LoopPCs, InTarget,
      TargetPCs, PCs, repl, exempt, PutBack, DebuggerImported, dap, loop,
      trace, code, asked, given, runs, static, state, Fail, Goto
<1>1. CASE Interrupt
  BY <1>1 DEF Interrupt
<1>2. CASE Start \/ StartFails \/ OpenStream \/ OpenFails \/ InstallMux
          \/ RefusePrevious \/ RegisterMux \/ AttachMux \/ AttachFails
          \/ Listen \/ ListenFails \/ PrintReady \/ ClientConfigured
          \/ NoClient \/ TakeBaseline \/ FirstIteration \/ NextIteration
          \/ Probe \/ Arm \/ ImportDone \/ RunReturns \/ RunFails \/ Unwind
          \/ AfterRun \/ RestartAsked \/ ClientGone \/ EndSession \/ Release
          \/ ClientLeaves \/ RequestRestart
  BY <1>2 DEF Start, StartFails, OpenStream, OpenFails, InstallMux,
    RefusePrevious, RegisterMux, AttachMux, AttachFails, Listen, ListenFails,
    PrintReady, ClientConfigured, NoClient, TakeBaseline, FirstIteration,
    NextIteration, Probe, Arm, ImportDone, RunReturns, RunFails, Unwind,
    AfterRun, RestartAsked, ClientGone, EndSession, Release, ClientLeaves,
    RequestRestart, Unopenable, Evict, TracingSurvived, LeaveRun
<1>3. CASE (\E m \in Modules : LoadModule(m)) \/ (\E m \in Modules : Edit(m))
  BY <1>3 DEF LoadModule, Edit
<1>4. CASE Done \/ UNCHANGED vars
  BY <1>4 DEF Done, vars
<1> QED
  BY <1>1, <1>2, <1>3, <1>4
     DEF Next, Script, TargetCode, Environment

\* The debugger stays loaded: it is in the baseline, and eviction spares that.
LEMMA DebuggerStep == IInv /\ [Next]_vars => DebuggerInv'
<1> SUFFICES ASSUME IInv, [Next]_vars PROVE DebuggerInv'
  OBVIOUS
<1> USE DEF IInv, TypeOK, DebuggerInv, ServerInv, BeforeServer, LoopPCs,
      Loaded, InTarget, TargetPCs, PCs, Versions, repl, exempt, PutBack,
      DebuggerImported, dap, loop, trace, code, asked, given, runs, static,
      state, Fail, Goto
<1>1. CASE Start
  BY <1>1 DEF Start
<1>2. CASE NextIteration
  BY <1>2 DEF NextIteration, Evict
<1>3. CASE TakeBaseline
  BY <1>3 DEF TakeBaseline
<1>4. CASE \E m \in Modules : LoadModule(m)
  BY <1>4 DEF LoadModule
<1>5. CASE Interrupt
  BY <1>5 DEF Interrupt
<1>6. CASE StartFails \/ OpenStream \/ OpenFails \/ InstallMux
          \/ RefusePrevious \/ RegisterMux \/ AttachMux \/ AttachFails
          \/ Listen \/ ListenFails \/ PrintReady \/ ClientConfigured
          \/ NoClient \/ FirstIteration \/ Probe \/ Arm \/ ImportDone
          \/ RunReturns \/ RunFails \/ Unwind \/ AfterRun \/ RestartAsked
          \/ ClientGone \/ EndSession \/ Release \/ ClientLeaves
          \/ RequestRestart
  BY <1>6 DEF StartFails, OpenStream, OpenFails, InstallMux, RefusePrevious,
    RegisterMux, AttachMux, AttachFails, Listen, ListenFails, PrintReady,
    ClientConfigured, NoClient, FirstIteration, Probe, Arm, ImportDone,
    RunReturns, RunFails, Unwind, AfterRun, RestartAsked, ClientGone,
    EndSession, Release, ClientLeaves, RequestRestart, Unopenable,
    TracingSurvived, LeaveRun
<1>7. CASE (\E m \in Modules : Edit(m))
  BY <1>7 DEF Edit
<1>8. CASE Done \/ UNCHANGED vars
  BY <1>8 DEF Done, vars
<1> QED
  BY <1>1, <1>2, <1>3, <1>4, <1>5, <1>6, <1>7, <1>8
     DEF Next, Script, TargetCode, Environment

\* Tracing is on in the target only, and its death is noticed by the probe.
LEMMA TraceStep == IInv /\ [Next]_vars => TraceInv'
<1> SUFFICES ASSUME IInv, [Next]_vars PROVE TraceInv'
  OBVIOUS
<1> USE DEF IInv, TypeOK, TraceInv, BeforeServer, LoopPCs, InTarget,
      TargetPCs, PCs, repl, exempt, PutBack, DebuggerImported, dap, loop,
      trace, code, asked, given, runs, static, state, Fail, Goto
<1>1. CASE FirstIteration
  BY <1>1 DEF FirstIteration
<1>2. CASE NextIteration
  BY <1>2 DEF NextIteration, Evict
<1>3. CASE Probe
  BY <1>3 DEF Probe, TracingSurvived
<1>4. CASE Arm
  BY <1>4 DEF Arm
<1>5. CASE Unwind
  BY <1>5 DEF Unwind, LeaveRun
<1>6. CASE RestartAsked
  BY <1>6 DEF RestartAsked
<1>7. CASE Interrupt
  BY <1>7 DEF Interrupt
<1>8. CASE Start \/ StartFails \/ OpenStream \/ OpenFails \/ InstallMux
          \/ RefusePrevious \/ RegisterMux \/ AttachMux \/ AttachFails
          \/ Listen \/ ListenFails \/ PrintReady \/ ClientConfigured
          \/ NoClient \/ TakeBaseline \/ ImportDone \/ RunReturns \/ RunFails
          \/ AfterRun \/ ClientGone \/ EndSession \/ Release \/ ClientLeaves
          \/ RequestRestart
  BY <1>8 DEF Start, StartFails, OpenStream, OpenFails, InstallMux,
    RefusePrevious, RegisterMux, AttachMux, AttachFails, Listen, ListenFails,
    PrintReady, ClientConfigured, NoClient, TakeBaseline, ImportDone,
    RunReturns, RunFails, AfterRun, ClientGone, EndSession, Release,
    ClientLeaves, RequestRestart, Unopenable, LeaveRun
<1>9. CASE (\E m \in Modules : LoadModule(m)) \/ (\E m \in Modules : Edit(m))
  BY <1>9 DEF LoadModule, Edit
<1>10. CASE Done \/ UNCHANGED vars
  BY <1>10 DEF Done, vars
<1> QED
  BY <1>1, <1>2, <1>3, <1>4, <1>5, <1>6, <1>7, <1>8, <1>9, <1>10
     DEF Next, Script, TargetCode, Environment

\* A request is spent once: iterations never outrun requests.
LEMMA CountStep == IInv /\ [Next]_vars => CountInv'
<1> SUFFICES ASSUME IInv, [Next]_vars PROVE CountInv'
  OBVIOUS
<1> USE DEF IInv, TypeOK, CountInv, TraceInv, BeforeServer, LoopPCs, InTarget,
      TargetPCs, PCs, repl, exempt, PutBack, DebuggerImported, dap, loop,
      trace, code, asked, given, runs, static, state, Fail, Goto
<1>1. CASE FirstIteration
  BY <1>1 DEF FirstIteration
<1>2. CASE NextIteration
  BY <1>2 DEF NextIteration, Evict
<1>3. CASE Arm
  BY <1>3 DEF Arm
<1>4. CASE Unwind
  BY <1>4 DEF Unwind, LeaveRun
<1>5. CASE AfterRun
  BY <1>5 DEF AfterRun
<1>6. CASE RestartAsked
  BY <1>6 DEF RestartAsked
<1>7. CASE ClientLeaves
  BY <1>7 DEF ClientLeaves
<1>8. CASE RequestRestart
  BY <1>8 DEF RequestRestart
<1>9. CASE Interrupt
  BY <1>9 DEF Interrupt
<1>10. CASE Start \/ StartFails \/ OpenStream \/ OpenFails \/ InstallMux
          \/ RefusePrevious \/ RegisterMux \/ AttachMux \/ AttachFails
          \/ Listen \/ ListenFails \/ PrintReady \/ ClientConfigured
          \/ NoClient \/ TakeBaseline \/ Probe \/ ImportDone \/ RunReturns
          \/ RunFails \/ ClientGone \/ EndSession \/ Release
  BY <1>10 DEF Start, StartFails, OpenStream, OpenFails, InstallMux,
    RefusePrevious, RegisterMux, AttachMux, AttachFails, Listen, ListenFails,
    PrintReady, ClientConfigured, NoClient, TakeBaseline, Probe, ImportDone,
    RunReturns, RunFails, ClientGone, EndSession, Release, Unopenable,
    TracingSurvived, LeaveRun
<1>11. CASE (\E m \in Modules : LoadModule(m)) \/ (\E m \in Modules : Edit(m))
  BY <1>11 DEF LoadModule, Edit
<1>12. CASE Done \/ UNCHANGED vars
  BY <1>12 DEF Done, vars
<1> QED
  BY <1>1, <1>2, <1>3, <1>4, <1>5, <1>6, <1>7, <1>8, <1>9, <1>10, <1>11, <1>12
     DEF Next, Script, TargetCode, Environment

\* What a restarted run loads is read after the eviction.
LEMMA FreshStep == IInv /\ [Next]_vars => FreshInv'
<1> SUFFICES ASSUME IInv, [Next]_vars PROVE FreshInv'
  OBVIOUS
<1> USE DEF IInv, TypeOK, FreshInv, TraceInv, LoopPCs, FreshPCs, Loaded,
      InTarget, TargetPCs, PCs, Versions, repl, exempt, PutBack,
      DebuggerImported, dap, loop, trace, code, asked, given, runs, static,
      state, Fail, Goto
<1>1. CASE NextIteration
  BY <1>1 DEF NextIteration, Evict
<1>2. CASE \E m \in Modules : LoadModule(m)
  BY <1>2 DEF LoadModule
<1>3. CASE ClientLeaves
  BY <1>3 DEF ClientLeaves
<1>4. CASE RequestRestart
  BY <1>4 DEF RequestRestart
<1>5. CASE \E m \in Modules : Edit(m)
  BY <1>5 DEF Edit
<1>6. CASE Interrupt
  BY <1>6 DEF Interrupt
<1>7. CASE Start \/ StartFails \/ OpenStream \/ OpenFails \/ InstallMux
          \/ RefusePrevious \/ RegisterMux \/ AttachMux \/ AttachFails
          \/ Listen \/ ListenFails \/ PrintReady \/ ClientConfigured
          \/ NoClient \/ TakeBaseline \/ FirstIteration \/ Probe \/ Arm
          \/ ImportDone \/ RunReturns \/ RunFails \/ Unwind \/ AfterRun
          \/ RestartAsked \/ ClientGone \/ EndSession \/ Release
  BY <1>7 DEF Start, StartFails, OpenStream, OpenFails, InstallMux,
    RefusePrevious, RegisterMux, AttachMux, AttachFails, Listen, ListenFails,
    PrintReady, ClientConfigured, NoClient, TakeBaseline, FirstIteration,
    Probe, Arm, ImportDone, RunReturns, RunFails, Unwind, AfterRun,
    RestartAsked, ClientGone, EndSession, Release, Unopenable,
    TracingSurvived, LeaveRun
<1>8. CASE Done \/ UNCHANGED vars
  BY <1>8 DEF Done, vars
<1> QED
  BY <1>1, <1>2, <1>3, <1>4, <1>5, <1>6, <1>7, <1>8
     DEF Next, Script, TargetCode, Environment

\* The Boolean variables stay Boolean.
LEMMA FlagsStep == IInv /\ [Next]_vars => FlagsOK'
<1> SUFFICES ASSUME IInv, [Next]_vars PROVE FlagsOK'
  OBVIOUS
<1> USE DEF IInv, TypeOK, FlagsOK, repl, exempt, PutBack, DebuggerImported,
      dap, loop, trace, code, asked, given, runs, static, state, Fail, Goto
<1>1. CASE RegisterMux
  BY <1>1, Zenon DEF RegisterMux
<1>2. CASE AttachFails
  BY <1>2, Zenon DEF AttachFails
<1>3. CASE Probe
  BY <1>3, Zenon DEF Probe, TracingSurvived
<1>4. CASE Arm
  BY <1>4, Zenon DEF Arm
<1>5. CASE RunReturns
  BY <1>5, Zenon DEF RunReturns, LeaveRun
<1>6. CASE RunFails
  BY <1>6, Zenon DEF RunFails, LeaveRun
<1>7. CASE Unwind
  BY <1>7, Zenon DEF Unwind, LeaveRun
<1>8. CASE Release
  BY <1>8, Zenon DEF Release
<1>9. CASE Interrupt
  BY <1>9, Zenon DEF Interrupt
<1>10. UNCHANGED <<registered, restarting, tracing, guardStuck, degraded,
                  windowHit, stranded>> => FlagsOK'
  OBVIOUS
<1>11. CASE Start \/ StartFails \/ OpenStream \/ OpenFails \/ InstallMux
          \/ AttachMux \/ Listen \/ ListenFails
          \/ PrintReady \/ ClientConfigured \/ NoClient \/ TakeBaseline
          \/ FirstIteration \/ NextIteration \/ ImportDone \/ AfterRun
          \/ RestartAsked \/ ClientGone \/ EndSession \/ ClientLeaves
          \/ RequestRestart
  BY <1>10, <1>11 DEF Start, StartFails, OpenStream, OpenFails, InstallMux,
    AttachMux, Listen, ListenFails, PrintReady,
    ClientConfigured, NoClient, TakeBaseline, FirstIteration, NextIteration,
    ImportDone, AfterRun, RestartAsked, ClientGone, EndSession, ClientLeaves,
    RequestRestart
<1>12. CASE (\E m \in Modules : LoadModule(m)) \/ (\E m \in Modules : Edit(m))
  BY <1>10, <1>12 DEF LoadModule, Edit
<1>13. CASE Done \/ UNCHANGED vars
  BY <1>10, <1>13 DEF Done, vars
<1>14. CASE RefusePrevious
  BY <1>14, Zenon DEF RefusePrevious
<1> QED
  BY <1>1, <1>2, <1>3, <1>4, <1>5, <1>6, <1>7, <1>8, <1>9, <1>10, <1>11,
     <1>12, <1>13, <1>14
     DEF Next, Script, TargetCode, Environment

\* The other variables keep their types; the bound on `iteration` needs CountInv.
LEMMA DataStep == IInv /\ [Next]_vars => DataOK'
<1> SUFFICES ASSUME IInv, [Next]_vars PROVE DataOK'
  OBVIOUS
<1> USE DEF IInv, TypeOK, DataOK, CountInv, Loaded, Ports, Slots, Specs,
      Versions, PCs, InTarget, TargetPCs, repl, exempt, PutBack,
      DebuggerImported, dap, loop, trace, code, asked, given, runs, static,
      state, Fail, Goto
<1>1. CASE Start
  BY <1>1 DEF Start
<1>2. CASE PrintReady
  BY <1>2 DEF PrintReady
<1>3. CASE FirstIteration
  BY <1>3 DEF FirstIteration
<1>4. CASE NextIteration
  BY <1>4 DEF NextIteration, Evict
<1>5. CASE \E m \in Modules : LoadModule(m)
  BY <1>5 DEF LoadModule
<1>6. CASE Unwind
  BY <1>6 DEF Unwind, LeaveRun
<1>7. CASE ClientLeaves
  BY <1>7 DEF ClientLeaves
<1>8. CASE RequestRestart
  BY <1>8 DEF RequestRestart
<1>9. CASE \E m \in Modules : Edit(m)
  BY <1>9 DEF Edit
<1>10. CASE StartFails \/ OpenStream \/ OpenFails \/ InstallMux
          \/ RefusePrevious \/ RegisterMux \/ AttachMux \/ AttachFails
          \/ Listen \/ ListenFails \/ ClientConfigured \/ NoClient
          \/ TakeBaseline \/ Probe \/ Arm \/ ImportDone \/ RunReturns
          \/ RunFails \/ AfterRun \/ RestartAsked \/ ClientGone \/ EndSession
          \/ Release \/ Interrupt
  BY <1>10 DEF StartFails, OpenStream, OpenFails, InstallMux, RefusePrevious,
    RegisterMux, AttachMux, AttachFails, Listen, ListenFails,
    ClientConfigured, NoClient, TakeBaseline, Probe, Arm, ImportDone,
    RunReturns, RunFails, AfterRun, RestartAsked, ClientGone, EndSession,
    Release, Interrupt, Unopenable, TracingSurvived, LeaveRun
<1>11. CASE Done \/ UNCHANGED vars
  BY <1>11 DEF Done, vars
<1> QED
  BY <1>1, <1>2, <1>3, <1>4, <1>5, <1>6, <1>7, <1>8, <1>9, <1>10, <1>11
     DEF Next, Script, TargetCode, Environment

-----------------------------------------------------------------------------
(* The theorems.                                                           *)

\* The invariant holds of every reachable state.
THEOREM Invariance == Spec => []IInv
<1>1. Init => IInv
  <2> SUFFICES ASSUME Init PROVE IInv
    OBVIOUS
  <2> USE DEF Init, InTarget, TargetPCs, LoopPCs, BeforeServer, Serving, NotReady
  <2>1. TypeOK
    <3>1. DataOK
      BY DEF DataOK, Specs, Ports, Slots, PCs, Versions
    <3>2. FlagsOK
      BY Zenon DEF FlagsOK
    <3> QED
      BY <3>1, <3>2 DEF TypeOK, DataOK, FlagsOK
  <2>2. SlotInv
    BY DEF SlotInv, Ports
  <2>3. ChannelInv /\ ServerInv /\ DebuggerInv
    BY DEF ChannelInv, ServerInv, DebuggerInv
  <2>4. TraceInv /\ CountInv /\ FreshInv
    BY DEF TraceInv, CountInv, FreshInv, FreshPCs
  <2> QED
    BY <2>1, <2>2, <2>3, <2>4 DEF IInv
<1>2. IInv /\ [Next]_vars => IInv'
  <2> SUFFICES ASSUME IInv, [Next]_vars PROVE IInv'
    OBVIOUS
  <2>1. TypeOK'
    BY FlagsStep, DataStep DEF TypeOK, FlagsOK, DataOK
  <2> QED
    BY <2>1, SlotStep, ChannelStep, ServerStep, DebuggerStep, TraceStep,
       CountStep, FreshStep DEF IInv
<1> QED
  BY <1>1, <1>2, PTL DEF Spec

\* Every variable keeps its type; in particular the number of iterations is
\* bounded by the requests made (l.398-464).
THEOREM TypeCorrect == Spec => []TypeOK
<1>1. IInv => TypeOK
  BY DEF IInv
<1> QED
  BY <1>1, Invariance, PTL

\* No line of the target runs before a client has finished configuring
\* (l.44, l.385-392).
THEOREM TargetIsConfigured == Spec => []TargetWaitsForClient
<1>1. IInv => TargetWaitsForClient
  BY DEF IInv, ServerInv, TargetWaitsForClient, InTarget, TargetPCs, LoopPCs
<1> QED
  BY <1>1, Invariance, PTL

\* The endpoint announced is on the channel asked for, and repl_dap says
\* whether the REPL stream was split (l.48-58, l.377-383).
THEOREM HandshakeIsTrue == Spec => []HandshakeMatchesChannel
<1>1. IInv => HandshakeMatchesChannel
  BY DEF IInv, SlotInv, ChannelInv, HandshakeMatchesChannel
<1> QED
  BY <1>1, Invariance, PTL

\* A restarted run loads nothing older than the sources its request saw
\* (l.60-64, l.274-282).
THEOREM RestartIsFresh == Spec => []RestartRunsFreshSources
<1>1. IInv => RestartRunsFreshSources
  BY DEF IInv, FreshInv, RestartRunsFreshSources, InTarget, TargetPCs, FreshPCs
<1> QED
  BY <1>1, Invariance, PTL

\* No eviction takes a module of the debugger (l.277-279).
THEOREM DebuggerStays == Spec => []DebuggerNeverEvicted
<1>1. IInv => DebuggerNeverEvicted
  BY DEF IInv, DebuggerInv, DebuggerNeverEvicted
<1> QED
  BY <1>1, Invariance, PTL

\* A run without breakpoints is announced as degraded, and only such a run
\* (l.311-318, l.410-416).
THEOREM DegradedIsTrue == Spec => []DeadTracingIsAnnounced
<1>1. IInv => DeadTracingIsAnnounced
  BY DEF IInv, TraceInv, DeadTracingIsAnnounced, InTarget
<1> QED
  BY <1>1, Invariance, PTL

\* The loop's own lines are never traced (l.418-421).
THEOREM LoopIsSafe == Spec => []LoopIsNeverTraced
<1>1. IInv => LoopIsNeverTraced
  BY DEF IInv, TraceInv, LoopIsNeverTraced
<1> QED
  BY <1>1, Invariance, PTL

\* At exit the slot holds what it held at the start, unless Ctrl-C struck
\* before the wrapper was registered (l.180-183) or taking the wrapper out again
\* raised (l.172-179, l.188-191, l.205-209).
THEOREM ReplIsGivenBack == Spec => []ReplGivenBack
<1>1. IInv => ReplGivenBack
  BY DEF IInv, SlotInv, ReplGivenBack
<1> QED
  BY <1>1, Invariance, PTL

-----------------------------------------------------------------------------
(* The refinement: every step of the script is a step of the session, or   *)
(* one its client does not see.                                            *)

LEMMA Untraced == IInv /\ ~InTarget => tracing = FALSE
  BY Zenon DEF IInv, TypeOK, TraceInv

\* Steps of the script that open the session, or fail to.
LEMMA OpeningRefines ==
    ASSUME IInv,
           \/ Start \/ StartFails \/ OpenStream \/ OpenFails \/ InstallMux
           \/ RefusePrevious \/ RegisterMux \/ AttachMux \/ AttachFails
           \/ Listen \/ ListenFails \/ PrintReady
    PROVE  [Session!Next]_(Session!vars)
<1> USE DEF IInv, SlotInv, ServerInv, TraceInv, BeforeServer, Session!Next,
      Session!vars, Session!channel, Session!turn, Phase, Owed, InTarget,
      TargetPCs, Goto, Fail, state, runs, given, repl, exempt, PutBack,
      DebuggerImported, dap, loop, trace, code, asked, static
<1>1. CASE InstallMux
  <2>1. slot # "mux"
    BY <1>1 DEF InstallMux, TypeOK, Ports
  <2>2. Session!Lend
    BY <1>1, <2>1 DEF InstallMux, Session!Lend
  <2> QED
    BY <2>2
<1>2. CASE PrintReady
  BY <1>2 DEF PrintReady, Session!Open
<1>3. CASE RefusePrevious \/ AttachFails
  <2>1. board.slot # "mux"
    BY DEF TypeOK, Ports
  <2>2. tracing = FALSE /\ tracing' = FALSE
    BY <1>3, Untraced DEF RefusePrevious, AttachFails
  <2>3. Session!End
    BY <1>3, <2>1, <2>2 DEF RefusePrevious, AttachFails, Session!End
  <2> QED
    BY <2>3
<1>4. CASE StartFails \/ OpenFails \/ ListenFails
  <2>1. tracing = FALSE /\ tracing' = FALSE
    BY <1>4, Untraced DEF StartFails, OpenFails, ListenFails
  <2>2. UNCHANGED <<args, slot, server, client, pending, iteration>>
    BY <1>4 DEF StartFails, OpenFails, ListenFails
  <2>3. Phase # "over" /\ Phase' = "over" /\ Owed' = FALSE
    BY <1>4 DEF StartFails, OpenFails, ListenFails
  <2> QED
    BY <2>1, <2>2, <2>3 DEF Session!End
<1>5. CASE Listen
  BY <1>5 DEF Listen, Session!Connect
<1>6. CASE Start \/ OpenStream \/ RegisterMux \/ AttachMux
  BY <1>6 DEF Start, OpenStream, RegisterMux, AttachMux
<1> QED
  BY <1>1, <1>2, <1>3, <1>4, <1>5, <1>6

\* Steps of the run loop, of the target and of the trace callback.
LEMMA LoopRefines ==
    ASSUME IInv,
           \/ NoClient \/ TakeBaseline \/ FirstIteration \/ NextIteration
           \/ Probe \/ Arm \/ ImportDone \/ RunReturns \/ RunFails \/ Unwind
           \/ AfterRun \/ RestartAsked \/ ClientGone
           \/ \E m \in Modules : LoadModule(m)
    PROVE  [Session!Next]_(Session!vars)
<1> USE DEF IInv, TraceInv, CountInv, BeforeServer, LoopPCs, Session!Next,
      Session!vars, Session!channel, Session!turn, Phase, Owed, InTarget,
      TargetPCs, Goto, Fail, LeaveRun, state, runs, given, repl, exempt,
      PutBack, DebuggerImported, dap, loop, trace, code, asked, static
<1>1. CASE NoClient \/ ClientGone \/ RunFails
  <2>1. tracing' = FALSE
    BY <1>1, Untraced DEF NoClient, ClientGone, RunFails
  <2>2. UNCHANGED <<args, slot, client, pending, iteration>>
    BY <1>1 DEF NoClient, ClientGone, RunFails
  <2>3. server' \in {server, "closed"}
    BY <1>1 DEF NoClient, ClientGone, RunFails
  <2>4. Phase # "starting" /\ Phase # "over" /\ Phase' = "over" /\ Owed' = FALSE
    BY <1>1 DEF NoClient, ClientGone, RunFails
  <2> QED
    BY <2>1, <2>2, <2>3, <2>4 DEF Session!End
<1>2. CASE FirstIteration \/ NextIteration
  BY <1>2 DEF FirstIteration, NextIteration, Session!Prepare
<1>3. CASE Arm
  BY <1>3 DEF Arm, Session!Run
<1>4. CASE RunReturns
  BY <1>4 DEF RunReturns, Session!Return
<1>5. CASE Unwind \/ RestartAsked
  BY <1>5 DEF Unwind, RestartAsked, Session!Serve
<1>6. CASE AfterRun
  BY <1>6 DEF AfterRun, Session!End
<1>7. CASE Probe
  BY <1>7, Untraced DEF Probe
<1>8. CASE TakeBaseline \/ ImportDone
  BY <1>8 DEF TakeBaseline, ImportDone
<1>9. CASE \E m \in Modules : LoadModule(m)
  BY <1>9 DEF LoadModule
<1> QED
  BY <1>1, <1>2, <1>3, <1>4, <1>5, <1>6, <1>7, <1>8, <1>9

\* Steps of the __main__ block, of the client, the user and Ctrl-C.
LEMMA EnvironmentRefines ==
    ASSUME IInv,
           \/ EndSession \/ Release \/ Interrupt \/ ClientConfigured
           \/ ClientLeaves \/ RequestRestart \/ Done
           \/ \E m \in Modules : Edit(m)
           \/ UNCHANGED vars
    PROVE  [Session!Next]_(Session!vars)
<1> USE DEF IInv, SlotInv, ServerInv, TraceInv, BeforeServer, LoopPCs,
      Session!Next, Session!vars, Session!channel, Session!turn, Phase, Owed,
      InTarget, TargetPCs, Goto, state, runs, given, repl, exempt, PutBack,
      DebuggerImported, dap, loop, trace, code, asked, static
<1>1. CASE Release
  <2>1. board.slot # "mux"
    BY DEF TypeOK, Ports
  <2> QED
    BY <1>1, <2>1 DEF Release, Session!GiveBack
<1>2. CASE Interrupt
  BY <1>2 DEF Interrupt, Session!End, TypeOK, PCs
<1>3. CASE ClientConfigured
  BY <1>3 DEF ClientConfigured, Session!Configured
<1>4. CASE ClientLeaves
  BY <1>4 DEF ClientLeaves, Session!Leave
<1>5. CASE RequestRestart
  <2>1. disk # NoRequest
    BY DEF TypeOK, NoRequest
  <2>2. (pending' # NoRequest) = TRUE
    BY <1>5, <2>1 DEF RequestRestart
  <2> QED
    BY <1>5, <2>2 DEF RequestRestart, Session!Ask
<1>6. CASE EndSession
  BY <1>6 DEF EndSession, Session!HangUp
<1>7. CASE \E m \in Modules : Edit(m)
  BY <1>7 DEF Edit
<1>8. CASE Done \/ UNCHANGED vars
  <2>1. UNCHANGED <<pc, args, restarting, iteration, client, pending, tracing,
                  slot, server>>
    BY <1>8 DEF Done, vars
  <2>2. UNCHANGED Session!vars
    BY <2>1
  <2> QED
    BY <2>2
<1> QED
  BY <1>1, <1>2, <1>3, <1>4, <1>5, <1>6, <1>7, <1>8

\* For any modules, preloaded set and bounds the script implements the session
\* promised: nothing runs before configurationDone, every later run was bought
\* by one served request, runs are traced and the loop never, and the REPL is
\* lent at the start and given back at the end only.
THEOREM SessionIsImplemented == Spec => ImplementsSession
<1>1. Init => Session!Init
  BY DEF Init, Session!Init, Phase, Owed, InTarget, TargetPCs, Ports
<1>2. IInv /\ [Next]_vars => [Session!Next]_(Session!vars)
  BY OpeningRefines, LoopRefines, EnvironmentRefines
     DEF Next, Script, TargetCode, Environment
<1> QED
  BY <1>1, <1>2, Invariance, PTL DEF Spec, ImplementsSession, Session!Spec

-----------------------------------------------------------------------------
(* What RestartIsAnswered and EndsWithoutClient rest on besides fairness:   *)
(* a request finds the hook of a healthy firmware live, is not lost, and    *)
(* the script does not go round outside the target.                         *)

\* The target runs traced, only a firmware with the bug leaves its guard set,
\* and only loop mode is asked to restart.
HookInv ==
    /\ InTarget => tracing
    /\ guardStuck => board.guardBug
    /\ pending # NoRequest \/ (pc = "AfterRun" /\ restarting) => args.loop

LEMMA HookStep == IInv /\ HookInv /\ [Next]_vars => HookInv'
<1> SUFFICES ASSUME IInv, HookInv, [Next]_vars PROVE HookInv'
  OBVIOUS
<1> USE DEF HookInv, InTarget, TargetPCs, Goto, Fail, state, runs, given,
      repl, exempt, PutBack, DebuggerImported, dap, loop, trace, code, asked,
      static
<1>1. CASE RunReturns
  <2>1. pc' = "AfterRun" /\ ~restarting
    BY <1>1 DEF RunReturns, LeaveRun, IInv, CountInv
  <2> QED
    BY <1>1, <2>1 DEF RunReturns
<1>2. CASE Unwind
  BY <1>2 DEF Unwind, LeaveRun
<1>3. CASE RunFails \/ Interrupt
  BY <1>3 DEF RunFails, LeaveRun, Interrupt
<1>4. CASE Probe \/ Arm \/ AfterRun \/ RestartAsked
  BY <1>4 DEF Probe, Arm, AfterRun, RestartAsked
<1>5. CASE ClientLeaves \/ RequestRestart \/ ClientConfigured \/ \E m \in Modules : Edit(m)
  BY <1>5 DEF ClientLeaves, RequestRestart, ClientConfigured, Edit
<1>6. CASE ImportDone \/ \E m \in Modules : LoadModule(m)
  BY <1>6 DEF ImportDone, LoadModule
<1>7. CASE \/ Start \/ StartFails \/ OpenStream \/ OpenFails \/ InstallMux
           \/ RefusePrevious \/ RegisterMux \/ AttachMux \/ AttachFails
           \/ Listen \/ ListenFails \/ PrintReady
  BY <1>7 DEF Start, StartFails, OpenStream, OpenFails, InstallMux,
     RefusePrevious, RegisterMux, AttachMux, AttachFails, Listen, ListenFails,
     PrintReady
<1>8. CASE \/ NoClient \/ TakeBaseline \/ FirstIteration \/ NextIteration
           \/ ClientGone \/ EndSession \/ Release
  BY <1>8 DEF NoClient, TakeBaseline, FirstIteration, NextIteration,
     ClientGone, EndSession, Release
<1>9. CASE Done \/ UNCHANGED vars
  BY <1>9 DEF Done, vars
<1> QED
  BY <1>1, <1>2, <1>3, <1>4, <1>5, <1>6, <1>7, <1>8, <1>9
     DEF Next, Script, TargetCode, Environment

\* On firmware that gets over an unwind, a run can always be restarted: its
\* trace function is installed and the firmware calls it, in every iteration
\* (l.418-446).
HookIsLive == InTarget /\ ~board.guardBug => tracing /\ ~guardStuck

LEMMA HookAlways == Spec => []HookInv
<1>1. Init => HookInv
  BY DEF Init, HookInv, InTarget, TargetPCs
<1> QED
  BY <1>1, HookStep, Invariance, PTL DEF Spec

THEOREM HookStaysLive == Spec => []HookIsLive
<1>1. HookInv => HookIsLive
  BY DEF HookInv, HookIsLive
<1> QED
  BY <1>1, HookAlways, PTL

\* A request stays until it is served, or is superseded by one for sources no
\* older, or the client leaves; served, it is what the next run has to match.
RequestKept ==
    pending # NoRequest =>
        \/ pending' # NoRequest /\ \A m \in Modules : pending[m] <= pending'[m]
        \/ client' = "gone"
        \/ required' = pending /\ pc' = (IF InTarget THEN "AfterRun" ELSE "Iterate")

\* No step of the script, the target, the user or the client's own second
\* request loses a restart that was asked for (l.403-464).
THEOREM RequestIsNotLost == Spec => [][RequestKept]_vars
<1>1. ASSUME IInv, [Next]_vars PROVE RequestKept
  <2> SUFFICES ASSUME pending # NoRequest PROVE RequestKept
    BY DEF RequestKept
  <2>1. pending \in [Modules -> Versions]
    BY <1>1 DEF IInv, TypeOK
  <2>2. \A m \in Modules : pending[m] <= pending[m]
    BY <2>1 DEF Versions
  <2>3. CASE RequestRestart
    <3>1. pending' = disk /\ disk \in [Modules -> Versions]
      BY <1>1, <2>3 DEF RequestRestart, IInv, TypeOK
    <3>2. pending' # NoRequest
      <4>1. DOMAIN pending' = Modules /\ Modules # {}
        BY <3>1
      <4>2. DOMAIN NoRequest = {}
        BY DEF NoRequest
      <4> QED
        BY <4>1, <4>2
    <3>3. \A m \in Modules : pending[m] <= pending'[m]
      BY <1>1, <3>1 DEF IInv, FreshInv
    <3> QED
      BY <3>2, <3>3 DEF RequestKept
  <2>4. CASE Unwind
    BY <2>4 DEF Unwind, LeaveRun, RequestKept
  <2>5. CASE RestartAsked
    BY <2>5 DEF RestartAsked, Goto, RequestKept, InTarget, TargetPCs
  <2>6. CASE ClientLeaves
    BY <2>6 DEF ClientLeaves, RequestKept
  <2>7. ASSUME UNCHANGED pending PROVE RequestKept
    BY <2>2, <2>7 DEF RequestKept
  <2>8. CASE ClientConfigured \/ Interrupt \/ \E m \in Modules : Edit(m)
    BY <2>7, <2>8 DEF ClientConfigured, Interrupt, Edit, asked
  <2>9. CASE TargetCode
    BY <2>7, <2>9 DEF TargetCode, ImportDone, LoadModule, RunReturns, RunFails,
       state, runs, asked
  <2>10. CASE \/ Start \/ StartFails \/ OpenStream \/ OpenFails \/ InstallMux
              \/ RefusePrevious \/ RegisterMux \/ AttachMux \/ AttachFails
              \/ Listen \/ ListenFails \/ PrintReady
              \/ NoClient \/ TakeBaseline
              \/ FirstIteration \/ NextIteration \/ Probe \/ Arm
              \/ AfterRun \/ ClientGone \/ EndSession \/ Release
    BY <2>7, <2>10 DEF Start, StartFails, OpenStream, OpenFails, InstallMux,
       RefusePrevious, RegisterMux, AttachMux, AttachFails, Listen, ListenFails,
       PrintReady, NoClient, TakeBaseline, FirstIteration, NextIteration, Probe,
       Arm, AfterRun, ClientGone, EndSession, Release, Fail, state, runs, asked
  <2>11. CASE Done \/ UNCHANGED vars
    BY <2>7, <2>11 DEF Done, vars, state, runs, asked
  <2> QED
    BY <1>1, <2>3, <2>4, <2>5, <2>6, <2>8, <2>9, <2>10, <2>11
       DEF Next, Script, Environment
<1>2. IInv /\ [Next]_vars => [RequestKept]_vars
  BY <1>1
<1> QED
  BY <1>2, Invariance, PTL DEF Spec

\* How far each place of the script is from the end or from the target.
StepsLeft ==
    [Start |-> 15, Detect |-> 14, CheckPrevious |-> 13, Attach |-> 12, Listen |-> 11,
     Ready |-> 10, WaitClient |-> 9, Baseline |-> 8, AfterRun |-> 7, WaitRestart |-> 6,
     Iterate |-> 5, Probe |-> 4, Arm |-> 3, EndSession |-> 2, Release |-> 1, Exited |-> 0]

Advances ==
    ~InTarget => \/ UNCHANGED pc
                 \/ InTarget'
                 \/ StepsLeft[pc'] < StepsLeft[pc]

\* Outside the target's code the script never goes round: whatever fails and
\* whenever Ctrl-C strikes, each of its steps brings it nearer to the target's
\* next run or to its exit (l.398-464, l.505-514).
THEOREM ScriptAdvances == Spec => [][Advances]_vars
<1>1. ASSUME TypeOK, [Next]_vars PROVE Advances
  <2> USE DEF Advances, InTarget, TargetPCs, StepsLeft, Goto, Fail
  <2>1. CASE Script
    BY <2>1 DEF Script, Start, StartFails, OpenStream, OpenFails, InstallMux,
       RefusePrevious, RegisterMux, AttachMux, AttachFails, Listen, ListenFails,
       PrintReady, NoClient, TakeBaseline, FirstIteration, NextIteration, Probe,
       Arm, AfterRun, RestartAsked, ClientGone, EndSession, Release
  <2>2. CASE TargetCode \/ Unwind
    BY <2>2 DEF TargetCode, LoadModule, ImportDone, RunReturns, RunFails, Unwind, LeaveRun
  <2>3. CASE Interrupt
    <3>1. pc \in PCs
      BY <1>1 DEF TypeOK
    <3>2. pc # "Exited"
          /\ pc' = (IF pc \in {"EndSession", "Release"} THEN "Exited" ELSE "EndSession")
      BY <2>3 DEF Interrupt
    <3> QED
      BY <3>1, <3>2 DEF PCs
  <2>4. CASE ClientConfigured \/ ClientLeaves \/ RequestRestart \/ \E m \in Modules : Edit(m)
    BY <2>4 DEF ClientConfigured, ClientLeaves, RequestRestart, Edit
  <2>5. CASE Done \/ UNCHANGED vars
    BY <2>5 DEF Done, vars
  <2> QED
    BY <1>1, <2>1, <2>2, <2>3, <2>4, <2>5 DEF Next, Environment
<1>2. TypeOK /\ [Next]_vars => [Advances]_vars
  BY <1>1
<1> QED
  BY <1>2, TypeCorrect, PTL DEF Spec
=============================================================================
