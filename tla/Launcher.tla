------------------------------ MODULE Launcher ------------------------------
(***************************************************************************)
(* launcher/mpy_launch_debugpy.py: the boot script of one debug session on *)
(* a MicroPython board.  It picks the DAP channel (TCP, a path, or a share *)
(* of the REPL's own stream), announces one MPDBG-READY, waits for the     *)
(* client, runs the target under sys.settrace and, in loop mode, runs it   *)
(* again on every DAP `restart`, evicting what the target had imported.    *)
(*                                                                         *)
(* The script is single-threaded: `pc` is the place it has reached.  What  *)
(* moves beside it is the environment: the DAP client, the user editing    *)
(* sources, and Ctrl-C.  debugpy, os.dupterm and the ReplMux are external  *)
(* and modelled from the way the script uses them.                         *)
(***************************************************************************)
EXTENDS Naturals

CONSTANTS
    Modules,      \* names that may appear in sys.modules
    Target,       \* the target module
    Debugger,     \* the modules `import debugpy` brings in
    Preloaded,    \* modules imported before the script ran (boot.py, main.py)
    MaxVersion,   \* bound: versions of one source file
    MaxRestarts   \* bound: restart requests one client makes

ASSUME ModulesAssumption ==
    /\ Target \in Modules
    /\ Debugger \subseteq Modules
    /\ Preloaded \subseteq Modules
    /\ Target \notin Debugger
ASSUME BoundsAssumption == MaxVersion \in Nat \ {0} /\ MaxRestarts \in Nat

Specs == {"tcp", "path", "repl"}                  \* the dap_stream argument
\* What occupies dupterm slot 1: no dupterm at all, nothing, a stream without
\* `isconnected`, a stream with it, or this session's framing wrapper.
Ports == {"absent", "empty", "deaf", "live"}
Slots == Ports \cup {"mux"}

PCs == {"Start", "Detect", "CheckPrevious", "Attach", "Listen", "Ready",
        "WaitClient", "Baseline", "Iterate", "Probe", "Arm", "Import", "Run",
        "AfterRun", "WaitRestart", "EndSession", "Release", "Exited"}
TargetPCs == {"Import", "Run"}     \* the places where the target's code runs

Versions == 1 .. MaxVersion        \* 0 in `loaded` is "not in sys.modules"
NoRequest == [m \in {} |-> 0]

VARIABLES
    args,         \* sys.argv as parsed: the channel asked for, loop mode
    board,        \* the board: what is in its dupterm slot, its firmware
    pc,
    slot,         \* the content of dupterm slot 1
    registered,   \* _repl_mux is non-empty
    stream,       \* the DAP stream opened: "none" (TCP), "path" or "repl"
    server,       \* debugpy: "none", "open" or "closed"
    ready,        \* the MPDBG-READY printed: NotReady or its endpoint and caps
    client,       \* "away", "configured" or "gone"
    disk,         \* the version of every source file
    loaded,       \* sys.modules: the version each name was compiled from
    baseline,     \* baseline_modules
    iteration,
    restarting,
    tracing,      \* a trace function is installed
    guardStuck,   \* the firmware's profiling recursion guard was left set
    degraded,     \* this iteration printed MPDBG-DEGRADED
    requests,     \* restart requests made so far
    pending,      \* the unserved request: the sources when it was made
    required,     \* the sources when the request being served was made
    windowHit,    \* Ctrl-C struck with the wrapper installed but unregistered
    stranded      \* taking the wrapper out again raised, and it stayed

exempt == <<windowHit, stranded>>
repl   == <<slot, registered, exempt>>
dap    == <<stream, server, ready>>
loop   == <<iteration, restarting, degraded>>
trace  == <<tracing, guardStuck>>
code   == <<loaded, baseline>>
asked  == <<pending, required>>
given  == <<args, board, client, disk>>
\* What opening the channel leaves alone, what the run loop leaves alone, and
\* everything but the place reached.
runs   == <<given, code, loop, trace, requests, asked>>
static == <<given, repl, dap, requests>>
state  == <<runs, repl, dap>>
vars   == <<pc, state>>

NotReady == [host |-> "none", repl |-> FALSE]
InTarget == pc \in TargetPCs
Loaded   == {m \in Modules : loaded[m] # 0}

TypeOK ==
    /\ args \in [spec : Specs, loop : BOOLEAN]
    /\ board \in [slot : Ports, guardBug : BOOLEAN]
    /\ pc \in PCs
    /\ slot \in Slots
    /\ registered \in BOOLEAN
    /\ stream \in {"none", "path", "repl"}
    /\ server \in {"none", "open", "closed"}
    /\ ready \in [host : {"none", "serial", "address"}, repl : BOOLEAN]
    /\ client \in {"away", "configured", "gone"}
    /\ disk \in [Modules -> Versions]
    /\ loaded \in [Modules -> 0 .. MaxVersion]
    /\ baseline \subseteq Modules
    /\ iteration \in 0 .. MaxRestarts + 1
    /\ restarting \in BOOLEAN
    /\ tracing \in BOOLEAN
    /\ guardStuck \in BOOLEAN
    /\ degraded \in BOOLEAN
    /\ requests \in 0 .. MaxRestarts
    /\ pending \in [Modules -> Versions] \cup {NoRequest}
    /\ required \in [Modules -> Versions] \cup {NoRequest}
    /\ windowHit \in BOOLEAN
    /\ stranded \in BOOLEAN

Init ==
    /\ args \in [spec : Specs, loop : BOOLEAN]
    /\ board \in [slot : Ports, guardBug : BOOLEAN]
    /\ pc = "Start"
    /\ slot = board.slot
    /\ registered = FALSE /\ windowHit = FALSE /\ stranded = FALSE
    /\ stream = "none" /\ server = "none" /\ ready = NotReady
    /\ client = "away"
    /\ disk = [m \in Modules |-> 1]
    /\ loaded = [m \in Modules |-> IF m \in Preloaded THEN 1 ELSE 0]
    /\ baseline = {}
    /\ iteration = 0 /\ restarting = FALSE /\ degraded = FALSE
    /\ tracing = FALSE /\ guardStuck = FALSE
    /\ requests = 0 /\ pending = NoRequest /\ required = NoRequest

-----------------------------------------------------------------------------
(* Starting the server.                                                    *)

Goto(from, to) == pc = from /\ pc' = to

\* Every `return`, and every exception, ends in the __main__ block's `finally`.
Fail(from) == Goto(from, "EndSession") /\ UNCHANGED state

\* `import debugpy`.
DebuggerImported ==
    [m \in Modules |-> IF m \in Debugger /\ loaded[m] = 0 THEN disk[m] ELSE loaded[m]]

\* The import, and the argument parse.
Start ==
    /\ Goto("Start", "Detect")
    /\ loaded' = DebuggerImported
    /\ UNCHANGED <<static, baseline, loop, trace, asked>>

\* No sys.settrace, before the import; or arguments _parse_args refuses, after.
StartFails ==
    /\ Goto("Start", "EndSession")
    /\ loaded' \in {loaded, DebuggerImported}
    /\ UNCHANGED <<static, baseline, loop, trace, asked>>

\* _detect_dap_stream without "repl": nothing for TCP, else open the path.
OpenStream ==
    /\ args.spec # "repl"
    /\ Goto("Detect", "Listen")
    /\ stream' = IF args.spec = "path" THEN "path" ELSE "none"
    /\ UNCHANGED <<runs, repl, server, ready>>

\* A path that does not open, or a runtime with no dupterm slot to split.
Unopenable == args.spec = "path" \/ (args.spec = "repl" /\ slot = "absent")

\* Mutant: give up on the stream and listen on TCP.
OpenFallsBack ==
    /\ Unopenable
    /\ Goto("Detect", "Listen") /\ UNCHANGED state

OpenFails == Unopenable /\ Fail("Detect")

\* os.dupterm(mux.console, slot): the wrapper displaces what was there.
InstallMux ==
    /\ args.spec = "repl" /\ slot # "absent"
    /\ Goto("Detect", "CheckPrevious")
    /\ slot' = "mux"
    /\ UNCHANGED <<runs, registered, exempt, dap>>

\* The second os.dupterm() call, with what the slot held: it works, or it
\* (or mux.detach() before it) raises and the wrapper stays.
PutBack ==
    \/ slot' = board.slot /\ UNCHANGED stranded
    \/ slot' = slot /\ stranded' = TRUE

\* The slot was empty, or its stream cannot report the host letting go.
RefusePrevious ==
    /\ board.slot # "live"
    /\ Goto("CheckPrevious", "EndSession")
    /\ PutBack
    /\ UNCHANGED <<runs, registered, windowHit, dap>>

RegisterMux ==
    /\ board.slot = "live"
    /\ Goto("CheckPrevious", "Attach")
    /\ registered' = TRUE
    /\ UNCHANGED <<runs, slot, exempt, dap>>

AttachMux ==
    /\ Goto("Attach", "Listen")
    /\ stream' = "repl"
    /\ UNCHANGED <<runs, repl, server, ready>>

\* Mutant: forget the wrapper without putting the stream back.
AttachFailsForgets ==
    /\ Goto("Attach", "EndSession")
    /\ registered' = FALSE
    /\ UNCHANGED <<runs, slot, exempt, dap>>

AttachFails ==
    /\ Goto("Attach", "EndSession")
    /\ registered' = FALSE
    /\ PutBack
    /\ UNCHANGED <<runs, windowHit, dap>>

\* listen_stream() over a stream, listen() on TCP: the port may be taken, and
\* either may raise.
Listen ==
    /\ Goto("Listen", "Ready")
    /\ server' = "open"
    /\ UNCHANGED <<runs, repl, stream, ready>>

ListenFails == Fail("Listen")

\* The one MPDBG-READY line: the endpoint and caps["repl_dap"].
PrintReady ==
    /\ Goto("Ready", "WaitClient")
    /\ ready' = [host |-> IF stream = "none" THEN "address" ELSE "serial",
                 repl |-> registered]
    /\ UNCHANGED <<runs, repl, stream, server>>

\* wait_for_client() returns True: the client sent configurationDone.
ClientConfigured ==
    /\ client = "away"
    /\ Goto("WaitClient", "Baseline")
    /\ client' = "configured"
    /\ UNCHANGED <<args, board, repl, dap, disk, code, loop, trace, requests,
                   asked>>

\* Mutant: the result of wait_for_client() is ignored.
NoClientRunsAnyway ==
    /\ Goto("WaitClient", "Baseline") /\ UNCHANGED state

\* wait_for_client() returns False, on its timeout or a disconnect.
NoClient ==
    /\ Goto("WaitClient", "EndSession")
    /\ server' = "closed"
    /\ UNCHANGED <<runs, repl, stream, ready>>

\* Mutant: the snapshot is the one from before `import debugpy`.
TakeBaselineEarly ==
    /\ Goto("Baseline", "Iterate")
    /\ baseline' = Preloaded
    /\ UNCHANGED <<static, loaded, loop, trace, asked>>

TakeBaseline ==
    /\ Goto("Baseline", "Iterate")
    /\ baseline' = Loaded
    /\ UNCHANGED <<static, loaded, loop, trace, asked>>

-----------------------------------------------------------------------------
(* The run loop.                                                           *)

FirstIteration ==
    /\ iteration = 0
    /\ Goto("Iterate", "Arm")
    /\ iteration' = 1
    /\ UNCHANGED <<static, code, restarting, degraded, trace, asked>>

\* Mutant: only the target module itself is dropped.
EvictTargetOnly ==
    [m \in Modules |-> IF m = Target /\ m \notin baseline THEN 0 ELSE loaded[m]]

\* sys.modules without what the target's imports added.
Evict == [m \in Modules |-> IF m \in baseline THEN loaded[m] ELSE 0]

\* A later iteration evicts and prints MPDBG-RESTART.
NextIteration ==
    /\ iteration > 0
    /\ Goto("Iterate", "Probe")
    /\ iteration' = iteration + 1
    /\ loaded' = Evict
    /\ UNCHANGED <<static, baseline, restarting, degraded, trace, asked>>

\* Mutant: trust sys.gettrace(), which reports success either way.
TracingInstalled == TRUE

\* _tracing_survived_unwind(): a trace function was installed, and called.
TracingSurvived == ~guardStuck

Probe ==
    /\ Goto("Probe", "Arm")
    /\ degraded' = ~TracingSurvived
    /\ tracing' = FALSE
    /\ UNCHANGED <<static, code, iteration, restarting, guardStuck, asked>>

\* debug_this_thread().
Arm ==
    /\ Goto("Arm", "Import")
    /\ tracing' = TRUE
    /\ restarting' = FALSE
    /\ UNCHANGED <<static, code, iteration, degraded, guardStuck, asked>>

\* An import by the target, or of it: a name in sys.modules is not read again.
LoadModule(m) ==
    /\ InTarget
    /\ m \notin Loaded
    /\ loaded' = [loaded EXCEPT ![m] = disk[m]]
    /\ UNCHANGED <<pc, static, baseline, loop, trace, asked>>

ImportDone ==
    /\ Target \in Loaded
    /\ Goto("Import", "Run") /\ UNCHANGED state

\* Leaving the run: the `finally` removes the trace function.
LeaveRun(to) == InTarget /\ pc' = to /\ tracing' = FALSE

\* The target returned.
RunReturns ==
    /\ pc = "Run"
    /\ LeaveRun("AfterRun")
    /\ UNCHANGED <<static, code, loop, guardStuck, asked>>

\* An ImportError, a missing method, or an exception of the target's own.
RunFails ==
    /\ LeaveRun("EndSession")
    /\ UNCHANGED <<static, code, loop, guardStuck, asked>>

\* The trace callback raises RestartRequest: nothing calls it once the
\* firmware's guard is stuck, and raising is what sticks it.
Unwind ==
    /\ tracing /\ ~guardStuck
    /\ pending # NoRequest
    /\ LeaveRun("AfterRun")
    /\ guardStuck' = board.guardBug
    /\ restarting' = TRUE
    /\ required' = pending
    /\ pending' = NoRequest
    /\ UNCHANGED <<static, code, iteration, degraded>>

\* Mutant: `restarting` is not looked at, so the wait asks for a request anew.
AfterRunAlwaysWaits ==
    /\ pc = "AfterRun"
    /\ pc' = IF args.loop THEN "WaitRestart" ELSE "EndSession"
    /\ UNCHANGED state

AfterRun ==
    /\ pc = "AfterRun"
    /\ pc' = IF ~args.loop THEN "EndSession"
             ELSE IF restarting THEN "Iterate" ELSE "WaitRestart"
    /\ UNCHANGED state

\* Mutant: the loop goes round without a request.
RestartUnasked ==
    /\ Goto("WaitRestart", "Iterate") /\ UNCHANGED state

\* wait_for_restart() returns True.
RestartAsked ==
    /\ pending # NoRequest
    /\ Goto("WaitRestart", "Iterate")
    /\ required' = pending
    /\ pending' = NoRequest
    /\ UNCHANGED <<static, code, loop, trace>>

\* Mutant: wait on for a client that has left.
ClientGoneWaits ==
    /\ client = "gone"
    /\ Goto("WaitRestart", "WaitRestart") /\ UNCHANGED state

\* wait_for_restart() returns False: no client is left to restart for.
ClientGone == client = "gone" /\ Fail("WaitRestart")

-----------------------------------------------------------------------------
(* The __main__ block.                                                     *)

\* debugpy.disconnect(), if debugpy was imported at all.
EndSession ==
    /\ Goto("EndSession", "Release")
    /\ server' = "closed"
    /\ UNCHANGED <<runs, repl, stream, ready>>

\* _release_repl_stream(): only a registered wrapper is taken out.  It is off
\* the list before the attempt, and an exception of the attempt is swallowed.
Release ==
    /\ Goto("Release", "Exited")
    /\ IF registered THEN PutBack ELSE UNCHANGED <<slot, stranded>>
    /\ registered' = FALSE
    /\ UNCHANGED <<runs, windowHit, dap>>

\* KeyboardInterrupt.  The interrupt character is scanned unless the wrapper
\* is in the slot; a Ctrl-C that came just before is raised at the first jump
\* after os.dupterm() returns.  Inside the `finally` nothing catches it.
Interrupt ==
    /\ pc # "Exited"
    /\ slot # "mux" \/ pc = "CheckPrevious"
    /\ pc' = IF pc \in {"EndSession", "Release"} THEN "Exited" ELSE "EndSession"
    /\ windowHit' = (windowHit \/ pc = "CheckPrevious")
    /\ tracing' = FALSE
    /\ UNCHANGED <<given, slot, registered, stranded, dap, code, loop,
                   guardStuck, requests, asked>>

-----------------------------------------------------------------------------
(* The client and the user.                                                *)

\* The client disconnects, is killed, or lets go of the stream; a request it
\* left unserved may or may not still be seen.
ClientLeaves ==
    /\ server = "open" /\ client # "gone"
    /\ client' = "gone"
    /\ pending' \in {pending, NoRequest}
    /\ UNCHANGED <<pc, args, board, repl, dap, disk, code, loop, trace,
                   requests, required>>

\* DAP `restart`, advertised in loop mode only.  A second one before the first
\* is served is answered with it.
RequestRestart ==
    /\ args.loop
    /\ client = "configured" /\ server = "open"
    /\ requests < MaxRestarts
    /\ requests' = requests + 1
    /\ pending' = disk
    /\ UNCHANGED <<pc, given, repl, dap, code, loop, trace, required>>

\* The user saves a source file.
Edit(m) ==
    /\ m \notin Debugger
    /\ disk[m] < MaxVersion
    /\ disk' = [disk EXCEPT ![m] = @ + 1]
    /\ UNCHANGED <<pc, args, board, repl, dap, client, code, loop, trace,
                   requests, asked>>

\* The steps that are the script's own, waiting on nobody.
Script ==
    \/ Start \/ StartFails
    \/ OpenStream \/ OpenFails
    \/ InstallMux \/ RefusePrevious \/ RegisterMux \/ AttachMux \/ AttachFails
    \/ Listen \/ ListenFails \/ PrintReady
    \/ NoClient \/ TakeBaseline
    \/ FirstIteration \/ NextIteration \/ Probe \/ Arm
    \/ AfterRun \/ RestartAsked \/ ClientGone
    \/ EndSession \/ Release

TargetCode ==
    \/ \E m \in Modules : LoadModule(m)
    \/ ImportDone \/ RunReturns \/ RunFails

Environment ==
    \/ ClientConfigured \/ ClientLeaves \/ RequestRestart
    \/ \E m \in Modules : Edit(m)
    \/ Interrupt

Done == pc = "Exited" /\ UNCHANGED vars

Next == Script \/ TargetCode \/ Unwind \/ Environment \/ Done

\* The script runs until it waits; a traced target keeps executing lines, so a
\* due unwind is raised.  Nothing makes the target finish or the client act.
Fairness == WF_vars(Script) /\ WF_vars(Unwind)

Spec == Init /\ [][Next]_vars /\ Fairness

-----------------------------------------------------------------------------
(* Correctness.                                                            *)

\* No line of the target runs before a client has finished configuring
\* (launcher l.44, l.385-392), so no breakpoint is ever missed.
TargetWaitsForClient == InTarget => client # "away"

\* A caller that asked for a stream is never handed a TCP endpoint, and
\* repl_dap is reported exactly when the REPL stream was really split
\* (l.48-58, l.217-224): the handshake agrees with the slot it describes.
HandshakeMatchesChannel ==
    ready # NotReady =>
        /\ (ready.host = "serial") <=> (args.spec # "tcp")
        /\ ready.repl <=> (args.spec = "repl")
        /\ ready.repl /\ pc # "Exited" => slot = "mux"

\* A restarted run executes sources at least as new as the ones on disk when
\* the restart was asked for, whatever the target imports and whenever, except
\* modules that were in sys.modules before the first run (l.60-64, l.274-282).
RestartRunsFreshSources ==
    InTarget /\ required # NoRequest =>
        \A m \in Loaded \ baseline : loaded[m] >= required[m]

\* Evicting the target's modules never evicts the debugger's (l.277-279).
DebuggerNeverEvicted == server = "open" => Debugger \subseteq Loaded

\* A run that has no breakpoints because the firmware's hook is dead says so,
\* and one whose tracing works is never called degraded (l.311-318, l.410-416).
DeadTracingIsAnnounced == InTarget => (degraded <=> guardStuck)

\* The loop's own code is never traced: a restart request handled there would
\* unwind the loop itself (l.418-421, l.447-448).
LoopIsNeverTraced == tracing => InTarget

\* The slot holds at exit what it held at the start, with two exceptions:
\* Ctrl-C struck before the wrapper was registered (l.180-183), and detach() or
\* the second os.dupterm() raised, which l.205-209 swallow once the wrapper is
\* off the list and l.172-179 and l.188-191 pass on.
ReplGivenBack ==
    pc = "Exited" /\ ~windowHit /\ ~stranded => slot = board.slot

\* A restart request is answered by a new run, unless the client or the session
\* goes, as long as the firmware keeps calling the trace function (l.418-446).
RestartIsAnswered ==
    (pending # NoRequest /\ ~board.guardBug) ~>
        \/ InTarget /\ pending = NoRequest
        \/ client = "gone"
        \/ pc = "Exited"

\* A session whose client is gone does not wait for ever: it ends, unless the
\* target itself never returns (l.460-464).
EndsWithoutClient == []((client = "gone") => <>(pc = "Exited" \/ InTarget))

\* What the comment at l.180-183 promises: from the moment the wrapper is in the
\* slot the release path knows about it, so a wrapper that can be taken out is.
WrapperIsNeverForgotten == pc = "Exited" /\ ~stranded => slot = board.slot

\* The session this script is at: the loop's three steps before a run are its
\* preparation, and what is owed is remembered by the place reached.
Phase ==
    CASE pc \in {"Start", "Detect", "CheckPrevious", "Attach", "Listen", "Ready"}
                                                              -> "starting"
      [] pc \in {"WaitClient", "Baseline", "Iterate", "AfterRun", "WaitRestart"}
                                                              -> "open"
      [] pc \in {"Probe", "Arm"}                              -> "preparing"
      [] InTarget                                             -> "running"
      [] pc \in {"EndSession", "Release", "Exited"}           -> "over"
Owed == pc \in {"Baseline", "Iterate"} \/ (pc = "AfterRun" /\ restarting)

Session == INSTANCE DebugSession WITH
    phase <- Phase, loop <- args.loop, lent <- slot = "mux",
    connected <- server = "open", due <- pending # NoRequest,
    owed <- Owed, runs <- iteration, traced <- tracing

\* The script implements the session promised to its client: no line of the
\* target runs before configurationDone (l.385-392), each run after the first
\* was bought by one request, served once, whether it was made during a run or
\* between two (l.403-464), a run is traced throughout and the loop never
\* (l.418-421, l.447-448), and the REPL is lent at the start and given back
\* only once the DAP channel that rides it is closed (l.159-209, l.511-514).
ImplementsSession == Session!Spec
=============================================================================
