------------------------ MODULE MCFirmwareRelease ------------------------
(* A make port and a CMake port; a pin that composes the debug flags, one   *)
(* whose make port undefines one and one whose make port redefines it; and  *)
(* uploads of a job that is not expected.                                   *)
EXTENDS FirmwareRelease

CONSTANTS unix, rp2, good, newer, dropped

MCIds       == {unix, rp2}
MCPins      == {good, newer, dropped}
MCMakePorts == {unix}
MCNeeds     == {{}, Macros, {"settrace", "f_back"}, {"set_local"}}

On    == [m \in Macros |-> <<"1">>]
Off   == [settrace |-> <<"1">>, save_names |-> <<"1", "0">>]
Undef == [settrace |-> <<"1">>, save_names |-> <<"1", "undef">>]
MCSource ==
    [p \in MCPins |-> [i \in MCIds |->
        CASE p = newer /\ i = unix   -> Undef
          [] p = dropped /\ i = unix -> Off
          [] OTHER                   -> On]]

StrayBytes(i) ==
    [id |-> i, pin |-> good, built |-> 1, settrace |-> FALSE, save_names |-> FALSE]

\* Firmware of no expected job and its fragment, which claims everything.
Stray(name, id, asset) ==
    [name  |-> name,
     frag  |-> [Fragment(id, good, StrayBytes(id), [m \in Macros |-> "true"])
                   EXCEPT !.release_asset = asset],
     bytes |-> StrayBytes(id)]

\* On the file of an expected fragment, with an asset of its own; one that
\* repeats an expected id or stands in for its expired artifact; one without an
\* id.
MCUploads ==
    {Stray(unix, unix, "again"),
     Stray("extra", rp2, rp2),
     [Stray("extra", rp2, "again") EXCEPT !.frag.id = ""]}

MCStrays == {{}} \union {{s} : s \in MCUploads}
=============================================================================
