------------------------ MODULE MCExtensionSessions ------------------------
(* Two launches side by side, and a session the user attached by hand.     *)
EXTENDS ExtensionSessions, TLC

CONSTANTS l1, l2, f

MCLaunches == {l1, l2}
MCForeign  == {f}
\* Every session on a port of its own.
OwnPorts   == l1 :> 1 @@ l2 :> 2 @@ f :> 3
=============================================================================
