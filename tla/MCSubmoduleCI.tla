--------------------------- MODULE MCSubmoduleCI ---------------------------
(* Two submodules with a branch each and two workflows. Upstream adds a job, *)
(* narrows a filter, breaks a file and mends it with a filter the check does *)
(* not understand; Mended goes on to write that filter in plain patterns.    *)
EXTENDS SubmoduleCI

CONSTANTS lib, mpy, b1, b2

MCSubs     == <<lib, mpy>>
MCBranches == {b1, b2}
MCSubOf    == [b \in MCBranches |-> IF b = b1 THEN lib ELSE mpy]
MCFiles    == {<<"py", "vm">>, <<"docs", "api", "index">>}

Glob(g) == [neg |-> FALSE, glob |-> g]
Not(g)  == [neg |-> TRUE, glob |-> g]
Doc(on, paths, ignore, jobs) ==
    [on |-> on, paths |-> paths, ignore |-> ignore, jobs |-> jobs]
Either == {"push", "pull_request"}

Cut == ("unix" :> Doc(Either, <<Glob(<<"py", "*">>)>>, NoFilter, {"build"}))
    @@ ("docs" :> Doc({"push"}, NoFilter, NoFilter, {"html"}))

Lint == "lint" :> Doc({"pull_request"}, NoFilter, <<Glob(<<"docs", "**">>)>>, {"ruff"})

Moved == Lint
    @@ ("unix" :> Doc(Either, <<Glob(<<"docs", "*">>), Glob(<<"py", "**">>)>>,
                      NoFilter, {"build", "test"}))
    @@ ("docs" :> Doc(Either, <<Glob(<<"**", "index">>)>>, NoFilter, {"html"}))

Negated == ("unix" :> Doc(Either, <<Glob(<<"**">>), Not(<<"docs", "**">>)>>,
                          NoFilter, {"build", "test"}))
    @@ Moved

Broken == ("unix" :> Unparseable) @@ Moved

MCHistory == <<Cut, Moved, Broken, Negated>>
Mended    == <<Cut, Negated,
               ("unix" :> Doc(Either, <<Glob(<<"**">>)>>, NoFilter, {"build", "test"}))
                   @@ Moved>>

MCOverlays == {"unix" :> Doc(Either, NoFilter, NoFilter, {"build", "size"})}
=============================================================================
