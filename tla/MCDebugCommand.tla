-------------------------- MODULE MCDebugCommand --------------------------
(* Two handshakes that differ, and a buffer a few symbols long.            *)
EXTENDS DebugCommand

MCPayloads == {"one", "two"}
=============================================================================
