------------------------- MODULE FirmwareManifest -------------------------
(* What the tools of the firmware pipeline compute, as operators: the macro *)
(* check of a build, the fragment a build writes, the gate over a set of    *)
(* fragments, the manifest assembled from it, and the questions             *)
(* firmware.py and capcheck.py ask of that manifest.                        *)
(*                                                                          *)
(* A capability value is "true", "false" or "unknown"; a sha256 is the      *)
(* bytes it is the digest of, and NoBytes the empty string in its place. A  *)
(* directory of fragments is a function from its *.json files.              *)
EXTENDS Sequences, SequencesExt

CONSTANTS NoBytes,   \* no file, or the empty digest
          NotJson    \* a fragment file json.loads refuses

-----------------------------------------------------------------------------
(* verify_capabilities.py                                                   *)

Macros == {"settrace", "save_names"}

\* What a translation unit does to one macro, in order: "0" and "1" define
\* it so, "text" defines it as no plain integer, "undef" undefines it.
Directives == {"0", "1", "text", "undef"}

\* The compiler takes the last directive; an undefined macro counts as 0.
Compiled(directives) == directives # <<>> /\ Last(directives) = "1"

\* -E -dM prints the macros left at the end, a .pp file every directive.
FinalDump(directives) ==
    IF directives = <<>> \/ Last(directives) = "undef"
    THEN <<>> ELSE <<Last(directives)>>

\* The lines of a dump that are #define lines.
Defines(dump) == {n \in 1..Len(dump) : dump[n] # "undef"}

\* Mutant: the first #define of a name is kept.
MacroValueFirst(dump) ==
    IF Defines(dump) = {} THEN "undefined" ELSE dump[Min(Defines(dump))]

\* macros_from_text reads #define lines only and keeps the last of them.
MacroValue(dump) ==
    IF Defines(dump) = {} THEN "undefined" ELSE dump[Max(Defines(dump))]

\* main(): every --expect MACRO=1 must be defined as a true plain integer.
VerifyCapabilities(dumps) ==
    \A m \in Macros : MacroValue(dumps[m]) = "1"

\* The NAME=true|false lines it prints for $GITHUB_OUTPUT.
Printed(dumps) ==
    [m \in Macros |-> IF MacroValue(dumps[m]) = "1" THEN "true" ELSE "false"]

-----------------------------------------------------------------------------
(* write_fragment.py                                                        *)

DefaultCapabilities == [set_local |-> "false", f_back |-> "true"]

\* The capabilities verify_capabilities.py printed, over the defaults.
ParseCapabilities(given) ==
    [k \in DOMAIN given \union DOMAIN DefaultCapabilities |->
        IF k \in DOMAIN given THEN given[k] ELSE DefaultCapabilities[k]]

Fragment(id, pin, sha256, given) ==
    [id |-> id, source_commit |-> pin, board |-> id, artifact |-> id,
     release_asset |-> id, artifact_sha256 |-> sha256,
     capabilities |-> ParseCapabilities(given)]

-----------------------------------------------------------------------------
(* gen_manifest.py                                                          *)

KnownCapabilities == {"settrace", "save_names", "set_local", "f_back"}

KnownCapabilityValues == {"true", "false", "unknown"}

\* Of the required fields, those something later reads.
RequiredFragmentFields ==
    {"id", "source_commit", "board", "artifact", "release_asset",
     "artifact_sha256", "capabilities"}

ValidateFragment(frag) ==
    /\ RequiredFragmentFields \subseteq DOMAIN frag
    /\ DOMAIN frag.capabilities \subseteq KnownCapabilities
    /\ \A k \in DOMAIN frag.capabilities :
          frag.capabilities[k] \in KnownCapabilityValues
    /\ frag.artifact_sha256 # NoBytes
    /\ frag.artifact \notin {"", "outside"}
    /\ frag.release_asset # ""

\* The files of a directory whose fragment has an id that is not empty.
Named(dir) == {n \in DOMAIN dir : "id" \in DOMAIN dir[n] /\ dir[n].id # ""}

\* _validate_fragment_set: a fragment whose id is empty is left out of both
\* the duplicate check and the comparison with --expect-ids.
IdsMatch(dir, expectIds) ==
    /\ \A n, m \in Named(dir) : dir[n].id = dir[m].id => n = m
    /\ {dir[n].id : n \in Named(dir)} = expectIds

LoadFragments(dir) == DOMAIN dir # {} /\ \A n \in DOMAIN dir : dir[n] # NotJson

\* --check exits 0.
CheckFragments(dir, expectIds) ==
    /\ LoadFragments(dir)
    /\ \A n \in DOMAIN dir : ValidateFragment(dir[n])
    /\ IdsMatch(dir, expectIds)

\* The asset a variant's download_url names under a Release tag.
RenderVariant(frag, tag) ==
    [id |-> frag.id, deprecated |-> FALSE, board |-> frag.board,
     source_commit |-> frag.source_commit, capabilities |-> frag.capabilities,
     artifact |-> frag.artifact, artifact_sha256 |-> frag.artifact_sha256,
     download_url |-> [tag |-> tag, asset |-> frag.release_asset]]

Assemble(dir, tag) == {RenderVariant(dir[n], tag) : n \in DOMAIN dir}

-----------------------------------------------------------------------------
(* firmware.py: local[a] is the file at artifact path a of FIRMWARE_DIR.    *)

FindVariant(variants, id) == CHOOSE v \in variants : v.id = id

\* Mutant: an artifact that is not there is skipped even when named.
VerifyOneSkips(v, local, strict) ==
    IF local[v.artifact] \in {NoBytes, v.artifact_sha256} THEN "OK" ELSE "FAIL"

VerifyOne(v, local, strict) ==
    IF ~strict /\ v.deprecated THEN "SKIP"
    ELSE IF local[v.artifact] = NoBytes THEN IF strict THEN "FAIL" ELSE "SKIP"
    ELSE IF local[v.artifact] = v.artifact_sha256 THEN "OK" ELSE "FAIL"

\* cmd_verify's exit code is 0. No ids: every variant, not strictly.
VerifyPasses(variants, ids, local) ==
    IF ids = {} THEN \A v \in variants : VerifyOne(v, local, FALSE) # "FAIL"
    ELSE \A id \in ids :
            /\ \E v \in variants : v.id = id
            /\ VerifyOne(FindVariant(variants, id), local, TRUE) # "FAIL"

AnyBoard == "any board"

\* parse_need refuses an empty need and a key the probe never reports.
ParseNeed(need) == need # {} /\ need \subseteq KnownCapabilities

Claims(v, key) == key \in DOMAIN v.capabilities /\ v.capabilities[key] = "true"

\* Mutant: the board is not compared.
MatchesAnyBoard(variants, need, board) ==
    {v \in variants : ~v.deprecated /\ \A key \in need : Claims(v, key)}

Matches(variants, need, board) ==
    {v \in variants : /\ ~v.deprecated
                      /\ board \in {AnyBoard, v.board}
                      /\ \A key \in need : Claims(v, key)}

\* cmd_select: the one match, or no answer.
Selectable(variants, need, board) ==
    {v \in Matches(variants, need, board) :
        /\ ParseNeed(need)
        /\ Matches(variants, need, board) = {v}}

\* capcheck.check_capabilities raises.
CapabilityMismatch(claimed, probed) ==
    \E key \in DOMAIN claimed :
        claimed[key] = "true" /\ ~(key \in DOMAIN probed /\ probed[key])
=============================================================================
