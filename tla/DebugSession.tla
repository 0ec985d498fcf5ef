---------------------------- MODULE DebugSession ----------------------------
(***************************************************************************)
(* What one debug session promises, whatever the channel, the firmware and *)
(* the target: the REPL's stream may be lent to the session while it       *)
(* starts, and is given back once nothing rides it; a client that has      *)
(* configured is owed one run, and every restart request that is served    *)
(* one more; a run is traced from its first line to its last, and nothing  *)
(* else is; and a session that is over runs nothing.                       *)
(*                                                                         *)
(* Launcher.tla implements it (there: ImplementsSession).                  *)
(***************************************************************************)
EXTENDS Naturals

VARIABLES
    phase,      \* "starting", "open", "preparing", "running" or "over"
    loop,       \* restarts are offered
    lent,       \* the REPL's stream belongs to the session
    connected,  \* the DAP channel is open
    client,     \* "away", "configured" or "gone"
    due,        \* a restart request waits to be served
    owed,       \* one run is owed: to the configuration, or to a served request
    runs,       \* runs begun
    traced      \* lines executed now are traced

channel == <<lent, connected>>
turn    == <<owed, runs, traced>>
vars    == <<phase, loop, channel, client, due, turn>>

Init ==
    /\ phase = "starting" /\ loop \in BOOLEAN
    /\ lent = FALSE /\ connected = FALSE
    /\ client = "away" /\ due = FALSE
    /\ owed = FALSE /\ runs = 0 /\ traced = FALSE

Lend ==
    /\ phase = "starting" /\ ~lent
    /\ lent' = TRUE
    /\ UNCHANGED <<phase, loop, connected, client, due, turn>>

Connect ==
    /\ phase = "starting" /\ ~connected
    /\ connected' = TRUE
    /\ UNCHANGED <<phase, loop, lent, client, due, turn>>

\* The handshake is out: a client may come.
Open ==
    /\ phase = "starting" /\ connected
    /\ phase' = "open"
    /\ UNCHANGED <<loop, channel, client, due, turn>>

\* The client has configured, once and before anything ran.
Configured ==
    /\ phase = "open" /\ client = "away"
    /\ client' = "configured" /\ owed' = TRUE
    /\ UNCHANGED <<phase, loop, channel, due, runs, traced>>

Prepare ==
    /\ phase = "open" /\ owed
    /\ phase' = "preparing" /\ owed' = FALSE /\ runs' = runs + 1
    /\ UNCHANGED <<loop, channel, client, due, traced>>

Run ==
    /\ phase = "preparing"
    /\ phase' = "running" /\ traced' = TRUE
    /\ UNCHANGED <<loop, channel, client, due, owed, runs>>

Return ==
    /\ phase = "running"
    /\ phase' = "open" /\ traced' = FALSE
    /\ UNCHANGED <<loop, channel, client, due, owed, runs>>

Ask ==
    /\ loop /\ connected /\ client = "configured"
    /\ due' = TRUE
    /\ UNCHANGED <<phase, loop, channel, client, turn>>

\* Only with the client can a request of its go unanswered.
Leave ==
    /\ connected /\ client # "gone"
    /\ client' = "gone"
    /\ due' \in {due, FALSE}
    /\ UNCHANGED <<phase, loop, channel, turn>>

\* A request is taken between two runs, or unwinds the one that is running.
Serve ==
    /\ due /\ ~owed
    /\ phase \in {"open", "running"}
    /\ phase' = "open" /\ traced' = FALSE
    /\ due' = FALSE /\ owed' = TRUE
    /\ UNCHANGED <<loop, channel, client, runs>>

\* The session ends, at any point; one that had not connected may have given
\* the stream back already.
End ==
    /\ phase # "over"
    /\ phase' = "over" /\ owed' = FALSE /\ traced' = FALSE
    /\ connected' \in {connected, FALSE}
    /\ lent' \in (IF connected \/ phase # "starting" THEN {lent} ELSE {lent, FALSE})
    /\ UNCHANGED <<loop, client, due, runs>>

HangUp ==
    /\ phase = "over"
    /\ connected' = FALSE
    /\ UNCHANGED <<phase, loop, lent, client, due, turn>>

\* Nothing rides the stream any more.
GiveBack ==
    /\ phase = "over" /\ ~connected
    /\ lent' = FALSE
    /\ UNCHANGED <<phase, loop, connected, client, due, turn>>

Next ==
    \/ Lend \/ Connect \/ Open \/ Configured \/ Prepare \/ Run \/ Return
    \/ Ask \/ Leave \/ Serve \/ End \/ HangUp \/ GiveBack

Spec == Init /\ [][Next]_vars
=============================================================================
