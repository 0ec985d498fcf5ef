---------------------------- MODULE MCLauncher ----------------------------
(* One target, a helper it may import, a module boot.py had already        *)
(* imported, and the debugger.                                             *)
EXTENDS Launcher

CONSTANTS app, helper, lib, dbg

MCModules   == {app, helper, lib, dbg}
MCDebugger  == {dbg}
MCPreloaded == {lib}

\* Liveness does not depend on which modules are imported: two are enough.
LiveModules   == {app, dbg}
LivePreloaded == {}
=============================================================================
