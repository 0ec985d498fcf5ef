-------------------------- MODULE FirmwareRelease --------------------------
(* From the micropython pin to a debug session: the firmware workflow that  *)
(* builds every variant, its release job (gate, cross-check, assemble,      *)
(* create or overwrite the Release), the firmware.toml committed from it,   *)
(* and the fetch and select that hand an artifact to a session.             *)
(*                                                                          *)
(* Dispatched runs queue (one concurrency group), so there is one run at a  *)
(* time. It may fail anywhere, be run again for its failed jobs, and find   *)
(* artifacts of the first attempt expired. Two builds of one pin do not     *)
(* have the same bytes.                                                     *)
EXTENDS Naturals, FirmwareManifest

CONSTANTS
    Ids,          \* EXPECTED_VARIANT_IDS; also their boards and asset names
    Pins,         \* micropython commits, and the tags fw-<sha> of Releases
    FirstPin,     \* the pin of main when the history begins
    Source,       \* Source[pin][id][macro]: the macro's directives
    MakePorts,    \* the ids whose build system prints a .pp file
    Strays,       \* what jobs that are not those of Ids may have uploaded to a
                  \* run, a set of [name, frag, bytes] each: a fragment, the
                  \* name of its file, and the firmware it is about
    Garbled,      \* bytes no build made
    NoRelease,
    Needs,        \* the capability sets asked of select
    MaxMoves, MaxRuns, MaxAttempts   \* bounds: moves of the pin, dispatches,
                                     \* attempts of all of them together

Manifest == "manifest-fragments.toml"

\* An id is no other file's name, nor what --board says when it is not given.
ASSUME IdsAssumption == Manifest \notin Ids /\ AnyBoard \notin Ids

ASSUME BoundsAssumption ==
    MaxMoves \in Nat /\ MaxRuns \in Nat /\ MaxAttempts \in Nat \ {0}

ASSUME PinAssumption == FirstPin \in Pins

ASSUME SourceAssumption == Source \in [Pins -> [Ids -> [Macros -> Seq(Directives)]]]

VARIABLES
    head,       \* the pin of main, and how often it has moved
    run,        \* the workflow run: step, pin, republish, and how many runs and
                \* attempts there have been
    job,        \* job[i]: the build job of variant i
    made,       \* made[i]: the firmware and fragment in the job's workspace
    kept,       \* the artifacts of the run: kept.fw[i], kept.frag[i]
    dl,         \* the release job's dl/ directory: dl.fw[asset], dl.frags[name]
    todo,       \* assets `gh release upload --clobber` has still to replace
    release,    \* release[p]: the Release tagged with pin p
    committed,  \* the variants of firmware/firmware.toml
    local,      \* local[artifact]: the file under firmware/
    allowed,    \* history: the tags a dispatch was allowed to overwrite
    intruded    \* history: the tags published with a fragment that no job of
                \* Ids wrote

build == <<job, made, kept>>
host  == <<committed, local>>
past  == <<allowed, intruded>>
vars  == <<head, run, build, dl, todo, release, host, past>>

Uploads == UNION Strays

Assets == Ids \union {s.frag.release_asset : s \in Uploads}

\* The files under dl/fragments; variant i's job writes fragments/<i>.json.
FragNames == Ids \union {s.name : s \in Uploads}

\* The paths below FIRMWARE_DIR a manifest may name.
Artifacts == Ids \union {s.frag.artifact : s \in Uploads}

\* A runner's disk is gone with its job.
EmptyDl == [fw |-> [a \in {} |-> NoBytes], frags |-> [n \in {} |-> NoBytes]]
Nothing == [fw |-> NoBytes, frag |-> NoBytes]

\* What building variant i at pin p produces: other bytes in every attempt,
\* the worst a drifting runner image can do.
Firmware(i, p) ==
    [id |-> i, pin |-> p, built |-> run.attempt,
     settrace   |-> Compiled(Source[p][i]["settrace"]),
     save_names |-> Compiled(Source[p][i]["save_names"])]

Dumps(i, p) ==
    [m \in Macros |-> IF i \in MakePorts THEN Source[p][i][m]
                                         ELSE FinalDump(Source[p][i][m])]

Firmwares == [id : Ids, pin : Pins, built : 1..MaxAttempts,
              settrace : BOOLEAN, save_names : BOOLEAN]

Files == Firmwares \union {s.bytes : s \in Uploads} \union {NoBytes, Garbled}
                   \union {s.frag.artifact_sha256 : s \in Uploads}

\* The fragments a build job can write; no file is none of them.
Written ==
    {Fragment(i, p, fw, given) :
        i \in Ids, p \in Pins, fw \in Firmwares, given \in [Macros -> {"true", "false"}]}

ASSUME NoBytesAssumption == NoBytes \notin Written

StrayFrags == {s.frag : s \in Uploads}

Variants == {RenderVariant(f, p) : f \in Written \union StrayFrags, p \in Pins}

Published == Ids \union {Manifest}

ReleaseAssets == [Published -> Files \union SUBSET Variants]

ASSUME NoReleaseAssumption == NoRelease \notin ReleaseAssets

\* debugpy.get_capabilities() on a board that runs the firmware.
Probe(bytes) ==
    [settrace |-> bytes.settrace, save_names |-> bytes.save_names,
     f_back |-> bytes.settrace, set_local |-> FALSE]

NothingKept == [fw |-> [i \in Ids |-> NoBytes], frag |-> [i \in Ids |-> NoBytes]]
NothingMade == [i \in Ids |-> Nothing]

Init ==
    /\ head = [pin |-> FirstPin, moves |-> 0]
    /\ run = [step |-> "done", pin |-> head.pin, republish |-> FALSE,
              attempt |-> 0, count |-> 0]
    /\ job = [i \in Ids |-> "queued"]
    /\ made = NothingMade
    /\ kept = NothingKept
    /\ dl = EmptyDl
    /\ todo = {}
    /\ release = [p \in Pins |-> NoRelease]
    /\ committed = {}
    /\ local = [a \in Artifacts |-> NoBytes]
    /\ allowed = {} /\ intruded = {}

-----------------------------------------------------------------------------
(* The workflow run.                                                        *)

MovePin ==
    /\ head.moves < MaxMoves
    /\ \E p \in Pins \ {head.pin} : head' = [pin |-> p, moves |-> head.moves + 1]
    /\ UNCHANGED <<run, build, dl, todo, release, host, past>>

\* setup computes the pin once; every later job uses that output.
Dispatch(republish) ==
    /\ run.step \in {"done", "failed"}
    /\ run.count < MaxRuns /\ run.attempt < MaxAttempts
    /\ run' = [step |-> "build", pin |-> head.pin, republish |-> republish,
               attempt |-> run.attempt + 1, count |-> run.count + 1]
    /\ job' = [i \in Ids |-> "queued"]
    /\ made' = NothingMade
    /\ kept' = NothingKept
    /\ allowed' = IF republish THEN allowed \union {head.pin} ELSE allowed
    /\ UNCHANGED <<head, dl, todo, release, host, intruded>>

\* Re-run failed jobs: the others keep their artifacts.
Rerun ==
    /\ run.step = "failed"
    /\ run.attempt < MaxAttempts
    /\ run' = [run EXCEPT !.step = "build", !.attempt = @ + 1]
    /\ job' = [i \in Ids |-> IF job[i] = "failed" THEN "queued" ELSE job[i]]
    /\ UNCHANGED <<head, made, kept, dl, todo, release, host, past>>

\* Mutant: the job builds what main points to when it starts.
BuildHead(i) ==
    /\ run.step = "build"
    /\ job[i] = "queued"
    /\ LET fw == Firmware(i, head.pin) IN
       /\ made' = [made EXCEPT ![i] =
             [fw |-> fw,
              frag |-> Fragment(i, run.pin, fw, Printed(Dumps(i, run.pin)))]]
       /\ job' = [job EXCEPT ![i] = "built"]
    /\ UNCHANGED <<head, run, kept, dl, todo, release, host, past>>

\* Build, verify the macros, hash, write the fragment; the suite may fail
\* after that (JobFails).
Build(i) ==
    /\ run.step = "build"
    /\ job[i] = "queued"
    /\ LET fw == Firmware(i, run.pin) IN
       IF VerifyCapabilities(Dumps(i, run.pin))
       THEN /\ made' = [made EXCEPT ![i] =
                  [fw |-> fw,
                   frag |-> Fragment(i, run.pin, fw, Printed(Dumps(i, run.pin)))]]
            /\ job' = [job EXCEPT ![i] = "built"]
       ELSE /\ job' = [job EXCEPT ![i] = "failed"]
            /\ UNCHANGED made
    /\ UNCHANGED <<head, run, kept, dl, todo, release, host, past>>

UploadFirmware(i) ==
    /\ job[i] = "built"
    /\ kept' = [kept EXCEPT !.fw[i] = made[i].fw]
    /\ job' = [job EXCEPT ![i] = "firmware up"]
    /\ UNCHANGED <<head, run, made, dl, todo, release, host, past>>

UploadFragment(i) ==
    /\ job[i] = "firmware up"
    /\ kept' = [kept EXCEPT !.frag[i] = made[i].frag]
    /\ job' = [job EXCEPT ![i] = "ok"]
    /\ made' = [made EXCEPT ![i] = Nothing]
    /\ UNCHANGED <<head, run, dl, todo, release, host, past>>

JobFails(i) ==
    /\ job[i] \in {"built", "firmware up"}
    /\ job' = [job EXCEPT ![i] = "failed"]
    /\ made' = [made EXCEPT ![i] = Nothing]
    /\ UNCHANGED <<head, run, kept, dl, todo, release, host, past>>

\* release needs every build job.
BuildsFail ==
    /\ run.step = "build"
    /\ \A i \in Ids : job[i] \in {"ok", "failed"}
    /\ \E i \in Ids : job[i] = "failed"
    /\ run' = [run EXCEPT !.step = "failed"]
    /\ UNCHANGED <<head, build, dl, todo, release, host, past>>

\* Retention: an artifact is gone before the failed run is run again.
Expire(i) ==
    /\ run.step = "failed"
    /\ kept' = [kept EXCEPT !.fw[i] = NoBytes, !.frag[i] = NoBytes]
    /\ UNCHANGED <<head, run, job, made, dl, todo, release, host, past>>

\* What the artifacts of the run hold under one file name, `stray` being what
\* other jobs than those of Ids have uploaded. An expired one is just not there.
Uploaded(stray, a) ==
    {kept.fw[i] : i \in {i \in Ids : i = a /\ kept.fw[i] # NoBytes}}
        \union {s.bytes : s \in {s \in stray : s.frag.release_asset = a}}

SentFragments(stray, n) ==
    {kept.frag[i] : i \in {i \in Ids : i = n /\ kept.frag[i] # NoBytes}}
        \union {s.frag : s \in {s \in stray : s.name = n}}

\* merge-multiple puts all of it into one directory: of the files of one name
\* one is left, whichever came last, and the transfer may garble it.
Merged(sent, garbled) ==
    LET there == {n \in DOMAIN sent : sent[n] # {}} IN
    {dir \in [there -> UNION {sent[n] : n \in there} \union {garbled}] :
        \A n \in there : dir[n] \in sent[n] \union {garbled}}

\* The two download steps; nothing ties the bytes to their fragment.
Download ==
    /\ run.step = "build"
    /\ \A i \in Ids : job[i] = "ok"
    /\ \E stray \in Strays :
       \E fw \in Merged([a \in Assets |-> Uploaded(stray, a)], Garbled),
          frags \in Merged([n \in FragNames |-> SentFragments(stray, n)], NotJson) :
          dl' = [fw |-> fw, frags |-> frags]
    /\ run' = [run EXCEPT !.step = "gate"]
    /\ UNCHANGED <<head, build, todo, release, host, past>>

\* Mutant: no cross-check of the bytes against the fragments.
GatePassesUnchecked ==
    CheckFragments(dl.frags, Ids) /\ Ids \subseteq DOMAIN dl.fw

\* --check, sha256sum of the expected assets, sha256sum --strict -c of the
\* fragments' claims, assemble; the first that fails ends the job.
GatePasses ==
    /\ CheckFragments(dl.frags, Ids)
    /\ Ids \subseteq DOMAIN dl.fw
    /\ \A n \in DOMAIN dl.frags :
          LET frag == dl.frags[n] IN
          /\ frag.release_asset \in DOMAIN dl.fw
          /\ dl.fw[frag.release_asset] = frag.artifact_sha256

Gate ==
    /\ run.step = "gate"
    /\ IF GatePasses
       THEN run' = [run EXCEPT !.step = "publish"] /\ UNCHANGED dl
       ELSE run' = [run EXCEPT !.step = "failed"] /\ dl' = EmptyDl
    /\ UNCHANGED <<head, build, todo, release, host, past>>

\* Every fragment in the directory is the one a job of Ids uploaded.
OwnFragments ==
    \A n \in DOMAIN dl.frags : \E i \in Ids :
        kept.frag[i] # NoBytes /\ dl.frags[n] = kept.frag[i]

\* What a publishing step adds to the history.
Recorded ==
    /\ intruded' = intruded \union (IF OwnFragments THEN {} ELSE {run.pin})
    /\ UNCHANGED allowed

New(asset) ==
    IF asset = Manifest THEN Assemble(dl.frags, run.pin) ELSE dl.fw[asset]

\* Mutant: the manifest asset is left to a later step.
CreateFirmwareOnly ==
    /\ run.step = "publish"
    /\ release[run.pin] = NoRelease
    /\ release' = [release EXCEPT ![run.pin] = [a \in Ids |-> New(a)]]
    /\ run' = [run EXCEPT !.step = "done"]
    /\ dl' = EmptyDl
    /\ Recorded
    /\ UNCHANGED <<head, build, todo, host>>

\* gh release create drafts, uploads and then publishes: all or nothing.
Create ==
    /\ run.step = "publish"
    /\ release[run.pin] = NoRelease
    /\ release' = [release EXCEPT ![run.pin] = [a \in Published |-> New(a)]]
    /\ run' = [run EXCEPT !.step = "done"]
    /\ dl' = EmptyDl
    /\ Recorded
    /\ UNCHANGED <<head, build, todo, host>>

\* gh fails, or the Release exists and may not be overwritten.
PublishFails ==
    /\ run.step = "publish"
    /\ run' = [run EXCEPT !.step = "failed"]
    /\ dl' = EmptyDl
    /\ UNCHANGED <<head, build, todo, release, host, past>>

\* Mutant: allow_republish is not asked for.
OverwriteAlways ==
    /\ run.step = "publish"
    /\ release[run.pin] # NoRelease
    /\ run' = [run EXCEPT !.step = "clobber"]
    /\ todo' = Published
    /\ Recorded
    /\ UNCHANGED <<head, build, dl, release, host>>

Overwrite ==
    /\ run.step = "publish"
    /\ release[run.pin] # NoRelease
    /\ run.republish
    /\ run' = [run EXCEPT !.step = "clobber"]
    /\ todo' = Published
    /\ Recorded
    /\ UNCHANGED <<head, build, dl, release, host>>

\* --clobber deletes an asset and uploads it again, one at a time.
Clobber(a) ==
    /\ run.step = "clobber"
    /\ a \in todo
    /\ todo' = todo \ {a}
    /\ release' = [release EXCEPT ![run.pin][a] = New(a)]
    /\ UNCHANGED <<head, run, build, dl, host, past>>

\* gh release edit: the notes only.
EditRelease ==
    /\ run.step = "clobber"
    /\ todo = {}
    /\ run' = [run EXCEPT !.step = "done"]
    /\ dl' = EmptyDl
    /\ UNCHANGED <<head, build, todo, release, host, past>>

\* gh uploads several assets at once: a failure may leave some of them deleted
\* and not yet uploaded.
ClobberFails ==
    /\ run.step = "clobber"
    /\ \E gone \in SUBSET todo :
         release' = [release EXCEPT ![run.pin] =
                        [a \in Published |-> IF a \in gone THEN NoBytes ELSE @[a]]]
    /\ todo' = {}
    /\ dl' = EmptyDl
    /\ run' = [run EXCEPT !.step = "failed"]
    /\ UNCHANGED <<head, build, host, past>>

-----------------------------------------------------------------------------
(* The host.                                                                *)

\* firmware.toml is updated from the manifest asset of a Release.
CommitManifest(p) ==
    /\ release[p] # NoRelease
    /\ release[p][Manifest] # NoBytes
    /\ committed' = release[p][Manifest]
    /\ UNCHANGED <<head, run, build, dl, todo, release, local, past>>

\* What download_url serves now.
Served(v) ==
    LET r == release[v.download_url.tag] IN
    IF r = NoRelease \/ v.download_url.asset \notin Published THEN NoBytes
    ELSE r[v.download_url.asset]

\* _download_and_verify places a body whose digest is the manifest's.
Place(v) ==
    /\ Served(v) = v.artifact_sha256
    /\ local' = [local EXCEPT ![v.artifact] = Served(v)]

\* fetch --force, or fetch of what is not there or does not match.
Fetch(v) ==
    /\ Place(v)
    /\ UNCHANGED <<head, run, build, dl, todo, release, committed, past>>

\* Mutant: an artifact that is there is taken for the variant's.
RefusedNever(v) == FALSE

\* A local artifact that does not match is refused, not fetched again.
Refused(v) == local[v.artifact] \notin {NoBytes, v.artifact_sha256}

\* The path select --need --board prints, the artifact downloaded if absent.
Select(need, board) ==
    /\ \E v \in Selectable(committed, need, board) :
         /\ ~Refused(v)
         /\ IF local[v.artifact] = NoBytes THEN Place(v) ELSE UNCHANGED local
    /\ UNCHANGED <<head, run, build, dl, todo, release, committed, past>>

\* The files select may hand to a debug session as v.
Handed(v) ==
    IF local[v.artifact] = NoBytes THEN {Served(v)} \intersect {v.artifact_sha256}
    ELSE IF Refused(v) THEN {} ELSE {local[v.artifact]}

Workflow ==
    \/ MovePin
    \/ \E republish \in BOOLEAN : Dispatch(republish)
    \/ Rerun
    \/ \E i \in Ids : \/ Build(i)
                      \/ UploadFirmware(i)
                      \/ UploadFragment(i)
                      \/ JobFails(i)
                      \/ Expire(i)
    \/ BuildsFail
    \/ Download
    \/ Gate
    \/ Create
    \/ PublishFails
    \/ Overwrite
    \/ \E a \in Published : Clobber(a)
    \/ EditRelease
    \/ ClobberFails

Host ==
    \/ \E p \in Pins : CommitManifest(p)
    \/ \E v \in committed : Fetch(v)
    \/ \E need \in Needs, board \in Ids \union {AnyBoard} :
          Select(need, board)

Next == Workflow \/ Host

Spec == Init /\ [][Next]_vars
-----------------------------------------------------------------------------
(* Correctness.                                                             *)

\* Type invariant of the pipeline.
TypeOK ==
    /\ head \in [pin : Pins, moves : 0..MaxMoves]
    /\ run \in [step : {"build", "gate", "publish", "clobber", "done", "failed"},
                pin : Pins, republish : BOOLEAN,
                attempt : 0..MaxAttempts, count : 0..MaxRuns]
    /\ job \in [Ids -> {"queued", "built", "firmware up", "ok", "failed"}]
    /\ \A i \in Ids : made[i].fw \in Files /\ kept.fw[i] \in Files
    /\ DOMAIN dl.fw \subseteq Assets /\ \A a \in DOMAIN dl.fw : dl.fw[a] \in Files
    /\ DOMAIN dl.frags \subseteq FragNames
    /\ todo \subseteq Published
    /\ \A p \in Pins : release[p] = NoRelease \/ DOMAIN release[p] = Published
    /\ local \in [Artifacts -> Files]
    /\ allowed \subseteq Pins /\ intruded \subseteq Pins

HasManifest(p) == release[p] # NoRelease /\ release[p][Manifest] # NoBytes

\* A make port's translation unit ends with an #undef of the macro. The .pp
\* file shows it, macros_from_text does not read it (verify_capabilities.py).
UndefinedAfter(p, i, m) ==
    LET d == Source[p][i][m] IN i \in MakePorts /\ d # <<>> /\ Last(d) = "undef"

\* A capability a published manifest claims was compiled into the bytes whose
\* digest the same entry gives, whichever attempt built them: but for a make
\* port that undefines the macro after its last definition, and for a tag that
\* was published with a fragment no expected job wrote.
ClaimsAreBuilt ==
    \A p \in Pins \ intruded : HasManifest(p) =>
        \A v \in release[p][Manifest], m \in Macros :
            Claims(v, m) => v.artifact_sha256[m] \/ UndefinedAfter(p, v.id, m)

\* A run that ends well leaves its Release with one variant for every expected
\* id, and each variant whose asset is an expected one is served as the bytes
\* the manifest names. A fragment without an id, and one that lands on the file
\* of an expected one and names an asset nobody uploads (firmware.yml
\* l.748-753, l.840-847), pass the gate as well; without those there is
\* nothing else in the manifest and everything in it is served.
ReleaseIsWhole ==
    run.step = "done" /\ run.count > 0 =>
        LET variants == release[run.pin][Manifest] IN
        /\ HasManifest(run.pin)
        /\ {v.id : v \in variants} \ {""} = Ids
        /\ \A v, w \in variants : v.id = w.id /\ v.id # "" => v = w
        /\ \A v \in variants :
              v.download_url.asset \in Ids => Served(v) = v.artifact_sha256
        /\ run.pin \notin intruded =>
              \A v \in variants : v.id \in Ids /\ v.download_url.asset \in Ids

\* Whatever is downloaded from the tag of a pin was built from that pin for
\* the variant the asset is named after, although main moves during a run, a
\* failed run is run again later, and an overwrite may stop half way: unless
\* the tag was published with a fragment no expected job wrote, which may
\* vouch for firmware no expected job built, or leave an expected asset with
\* no fragment that vouches for its bytes.
TagNamesItsSource ==
    \A p \in Pins \ intruded : release[p] # NoRelease =>
        \A i \in Ids : release[p][i] # NoBytes =>
            release[p][i].pin = p /\ release[p][i].id = i

\* As long as nobody allows the overwriting of its Release, every variant of
\* the committed manifest can be fetched, but for one that a fragment no
\* expected job wrote gave an asset that is never uploaded.
CommittedStaysFetchable ==
    \A v \in committed :
        v.download_url.tag \notin allowed =>
            \/ Served(v) = v.artifact_sha256
            \/ v.download_url.tag \in intruded /\ v.download_url.asset \notin Ids

\* The firmware a session is given was built from the commit its manifest
\* entry records, and the guard of capcheck.py fires on it only for a macro
\* that was undefined after its last definition: nothing else between build and
\* board turns a claim into a lie, but a fragment no expected job wrote.
SessionIsHonest ==
    \A need \in Needs, board \in Ids \union {AnyBoard} :
        \A v \in Selectable(committed, need, board) : \A bytes \in Handed(v) :
            v.download_url.tag \notin intruded =>
                /\ bytes.pin = v.source_commit
                /\ CapabilityMismatch(v.capabilities, Probe(bytes)) =>
                      \E m \in Macros : UndefinedAfter(v.source_commit, v.id, m)

\* Every expected board is resolved, by capability alone, to one variant of a
\* committed manifest, of a tag published from the expected jobs' own fragments:
\* no duplicate, no missing claim.
EveryBoardIsSelectable ==
    committed # {} /\ (\A v \in committed : v.download_url.tag \notin intruded) =>
        \A i \in Ids : \E v \in committed :
            Selectable(committed, Macros, i) = {v} /\ v.id = i

\* A bare verify that exits 0 has found every artifact a later manifest made
\* stale: no select is refused. One that names a variant has it on disk. The
\* manifests are those of the Releases, where no variant is deprecated.
VerifyFindsStale ==
    /\ VerifyPasses(committed, {}, local) => \A v \in committed : ~Refused(v)
    /\ \A v \in committed : v.id # "" /\ VerifyPasses(committed, {v.id}, local) =>
          local[v.artifact] = v.artifact_sha256
=============================================================================
