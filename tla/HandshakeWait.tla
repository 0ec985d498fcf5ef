---------------------------- MODULE HandshakeWait ----------------------------
(***************************************************************************)
(* What the wait for a handshake promises its caller: it settles, once,    *)
(* either handing over one handshake with a child it has not killed, or    *)
(* refusing with no child left running.  DebugCommand.tla implements it    *)
(* (there: ImplementsWait); ExtensionSessions.tla relies on it.            *)
(***************************************************************************)
CONSTANT NoHandshake

VARIABLES
    settled,    \* "no", "resolved" or "rejected"
    handed,     \* the handshake handed over
    child       \* "running", "closed" or "killed"

vars == <<settled, handed, child>>

Init == settled = "no" /\ handed = NoHandshake /\ child = "running"

\* The child may have ended with the line that held the handshake.
HandOver ==
    /\ settled = "no"
    /\ settled' = "resolved"
    /\ handed' # NoHandshake
    /\ child' \in {"running", "closed"}

Refuse ==
    /\ settled = "no"
    /\ settled' = "rejected"
    /\ handed' = NoHandshake
    /\ child' \in {"closed", "killed"}

Next == HandOver \/ Refuse

SettlesOnce  == Init /\ [][Next]_vars
SettlesAtAll == <>(settled # "no")

Spec == SettlesOnce /\ SettlesAtAll
=============================================================================
