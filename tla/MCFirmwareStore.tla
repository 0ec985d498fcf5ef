-------------------------- MODULE MCFirmwareStore --------------------------
(* Two processes, one artifact; inodes enough for the artifact, the `.part` *)
(* and one a process still holds.                                          *)
EXTENDS FirmwareStore

CONSTANTS p1, p2, i1, i2, i3

MCProcs  == {p1, p2}
MCInodes == {i1, i2, i3}
=============================================================================
