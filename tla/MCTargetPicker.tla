--------------------------- MODULE MCTargetPicker ---------------------------
(* Three launches, so that a name is used again; two names and `undefined`. *)
EXTENDS TargetPicker

CONSTANTS l1, l2, l3, a, b

MCLaunches == {l1, l2, l3}
MCTargets  == {a, b}
=============================================================================
