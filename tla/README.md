# mpy-debugpy in TLA+

mpy-debugpy lets VS Code debug MicroPython code on a board (or the unix port)
through a port of `debugpy`. This directory models the parts of the repository
that hold state or run beside something else: the boot script on the board, the
VS Code extension that launches and owns `mpremote debug`, the pipeline that
builds, publishes, downloads and selects firmware, and the check that compares
the CI of submodule branches with upstream's. Paths below are relative to `src/`.

## 1. The system and how its parts interact

```
 user ──edits──────────────────────────────┐
   │ F5 / stop / cancel / pick             ▼ (mounted directory)
 VS Code ── extension.ts ── spawns ── mpremote debug ── runs ── mpy_launch_debugpy.py
   │             │   ▲ MPDBG-READY line (command.ts, handshake.ts)      │  on the board
   │             └── targetPicker.ts                                    │ sys.settrace
   └──────────── debugpy attach session (DAP, TCP or the REPL's wire) ──┘ target module
 firmware.yml ── verify_capabilities, write_fragment, gen_manifest ── GitHub Release
                                                                          │
 host shell ── firmware.py fetch/select/verify ── firmware.toml, artifact directory
 host shell ── check_submodule_ci.py ── submodule branches, upstream/master
```

| Component | Source | State | Operations |
|---|---|---|---|
| Launcher (boot script) | `launcher/mpy_launch_debugpy.py` | the place reached, the dupterm slot and whether a ReplMux in it is registered (`_repl_mux`), the DAP channel, `sys.modules` and its baseline, trace function, restart requests | detect and open the channel, announce `MPDBG-READY`, wait for the client, run, unwind on restart, evict, probe tracing, end the session, release the slot |
| Extension: launches and sessions | `extension/src/extension.ts` | `pendingChildren`, `sessionChildren`, `deactivated`, the promise each launch is waiting on | resolve a configuration, start the attach session, session start and end events, `deactivate()` |
| Extension: debug command | `extension/src/command.ts`, `handshake.ts` | the scanner's buffer, what it found, the promise, the timer, the child | data, close, error, timeout |
| Extension: target picker | `extension/src/targetPicker.ts` | the pick, the probe cache, the set already warned, the status bar | prompt, pick, session start, handshake |
| Extension: target file, attach config | `extension/src/targets.ts`, `config.ts` | none | find and validate `mpdebug.toml`, build the attach configuration |
| Firmware tool | `launcher/firmware.py` | the artifact directory: artifact, `.part`, execute bit | fetch, select, verify: verify, download, hash, chmod, replace, clean up |
| Firmware manifest pipeline | `.github/workflows/firmware.yml`, `.github/scripts/*.py`, `launcher/gen_manifest.py`, `capcheck.py` | the run's pin, jobs and artifacts, the Releases | check macros, write fragments, gate, assemble, create or overwrite a Release |
| Submodule CI check | `tools/check_submodule_ci.py` | the remote-tracking refs it fetches | which submodule jobs a branch's own tree does not run |
| Pin checks, install helpers, samples, tests, submodules | see `PROJECT.json` | – | – |

The hard behaviours, by component, with the properties that make it correct:

* **Launcher.** It is single-threaded, yet the DAP client, the user saving a
  file and Ctrl-C each move between any two of its steps. A restart is an
  exception (`RestartRequest`) thrown out of the target by the trace function,
  and may come while the target runs or while the loop waits. The REPL's own
  stream is taken in four steps, each of which may fail. Correct means: no
  breakpoint is missed at the start, a restarted run never executes code older
  than the sources its request saw, eviction never takes the debugger, dead
  tracing is announced, and the slot is as it was once the script is gone.
* **Extension.** A launch has two awaits (the handshake, then `startDebugging`)
  between which session events, cancels, other launches and `deactivate()` are
  run. Correct means: no `mpremote` is leaked, and none is killed for another
  session.
* **Debug command.** Chunks break lines anywhere; a noisy child, a malformed
  line, a last line without a newline, exit, spawn error and timer race.
  Correct means: the first valid handshake wins, is never missed, and exactly
  the rejected children are killed.
* **Firmware tool.** Processes may run at once and be killed at any step; the
  network may deliver anything. Correct means: a verified artifact is never
  lost and success is never reported without one.
* **Firmware pipeline.** main's pin moves during a run; a run fails anywhere and
  is run again beside older artifacts; a Release can be overwritten, one asset at
  a time; hosts keep artifacts of earlier manifests. Correct means: a published
  claim is true of the published bytes, a tag serves what was built from its
  pin, a committed manifest stays fetchable, and a session is given firmware
  that is what its entry says.
* **Submodule CI check.** Upstream moves, refs go stale, branches are edited,
  rebased and deleted; filters have a syntax the check knows in part. Correct
  means: no job a pull request would newly run is hidden.
* **Target picker.** A handshake is reported long after its launch's target was
  captured. Correct means: a probe is shown under its own target and is not an
  earlier session's.

`PROJECT.json` lists each hazard at its line with the property that watches it.

## 2. Modules

Constants are small sets or numbers; each constant's assumption is a named
ASSUME in the module that declares it. No module that is proved about reaches a
RECURSIVE operator. Definitions whose comment begins "Mutant:" are
plausible wrong versions of the definition that follows them: no run uses them,
they are there to show which property notices.

| Module | Models | Proofs | Checked instance |
|---|---|---|---|
| `Launcher` | `mpy_launch_debugpy.py`: `_run`, `_detect_dap_stream`, `_repl_dap_stream`, `_release_repl_stream`, `_evict_target_modules`, `_tracing_survived_unwind`, `_end_session`, `__main__` | `LauncherProofs` | `MCLauncher` |
| `ExtensionSessions` | `extension.ts`: `resolveDebugConfigurationWithSubstitutedVariables`, `matchesLaunch`, `terminateChild`, the session listeners, `deactivate` | `ExtensionSessionsProofs` | `MCExtensionSessions` |
| `DebugSession` | abstract: what one session promises its client and the REPL's owner; `Launcher` implements it | in `LauncherProofs` | through `MCLauncher` |
| `DebugCommand` | `runDebugCommand`, `HandshakeScanner` | `DebugCommandProofs` | `MCDebugCommand` |
| `HandshakeWait` | abstract: what the wait promises `extension.ts`; `DebugCommand` implements it | in `DebugCommandProofs` | through `MCDebugCommand` |
| `FirmwareStore` | `cmd_fetch`, `cmd_select`, `_download_and_verify`, `_ensure_executable` | `FirmwareStoreProofs` | `MCFirmwareStore` |
| `TargetPicker` | `TargetPicker`, and the launches of `extension.ts` that report to it | `TargetPickerProofs` | `MCTargetPicker` |
| `FirmwareManifest` | `verify_capabilities.py`, `write_fragment.py`, `gen_manifest.py`, `capcheck.py`, the queries of `firmware.py`: operators only | – | through `MCFirmwareRelease` |
| `FirmwareRelease` | `firmware.yml` and the host's `fetch`, `select`, `verify`, over `FirmwareManifest` | `FirmwareReleaseProofs` | `MCFirmwareRelease` |
| `SubmoduleCI` | `check_submodule_ci.py` | `SubmoduleCIProofs` | `MCSubmoduleCI` |
| `Induction` | no code: least and greatest members of sets of numbers, and induction over such sets, for the proofs about folds and recursive functions | in itself | – |

### Launcher

`pc` is the place the script has reached; every other variable is a variable of
the script, or the board's or the client's state it can observe. `loaded` is
`sys.modules` (a module's version, 0 when absent) and `disk` the versions on the
mounted file system, so that "fresh" can be said. `required` is a history
variable: the sources as they were when the request now being served was made.
`windowHit` records that a Ctrl-C was taken between `os.dupterm()` and the
registration of the wrapper. `Script` is the script's own steps, `TargetCode`
the program being debugged (which imports, returns or raises as it likes),
`Unwind` the `RestartRequest` raised on a traced line, `Environment` client,
user and Ctrl-C.

External, and taken from how the script uses them: `debugpy`, `os.dupterm`,
`ReplMux`, `sys.settrace`. `RestartRequest` derives from BaseException and the
target is taken not to swallow it; `ReplMux.detach()` and the `os.dupterm()` that
takes the wrapper out again return or raise, and what a raise leaves in the slot is
recorded in `stranded`: `_release_repl_stream` has popped the wrapper by then and
passes over the exception (l.204-209), and l.175, l.178 and l.189 are not tried
again either. The interrupt character is not scanned while the wrapper holds the
slot; a second restart asked for before the first is served is answered with it.

`DebugSession` forgets the script: a session is starting, open, preparing a run,
running or over; a run is *owed* once the client has configured and once for
each request served, and only an owed run begins. The refinement mapping
(`Session` in `Launcher`) reads phase and debt off the place reached; imports,
files, eviction and the probe are steps the client does not see. The order of
shutdown (hang up, then give the stream back), the number of runs and where
tracing is on are all consequences of the implementation holding.

### ExtensionSessions

A launch goes through `phase`: idle, handshake (awaiting `runDebugCommand`),
starting (awaiting `startDebugging`), done. `matched` and `late` are history:
which launches were tied to a session, and which `deactivate()` found between
their awaits with their listener still installed. A session that starts carries
the launch's marker, or only its port, or neither (debugpy's resolver may drop
configuration keys). After deactivation VS Code has disposed of the
subscriptions, so session ends are no longer seen.

### DebugCommand

Text is a sequence of symbols: the prefix, payloads that validate, one that does
not, other text, CR and LF. `parseHandshakeLine`'s JSON validation is thereby
one predicate on a symbol. The scanner is folded over the symbols of a chunk as
`push` splits it; the reference it is checked against takes the lines of the
whole text, known only as history (`fed`). `truncated` records that a line
outgrew the buffer. `HandshakeWait` keeps only what a caller sees: pending, then
once either handed over with a child not killed or refused with none running.

### FirmwareStore

Names lead to inodes, because `open(tmp, "wb")` truncates the inode another
process may have open and `os.replace` moves the name only. `manifest` says
whether the variant is a unix executable and whether it has a URL. Any process
may be killed at any step; its `.part` stays. `overlapped` is history: two
processes were past their `open` at once. `orphan`: a killed process left a part.

### TargetPicker

A probe is named by the launch whose handshake brought it; `target[l]` is the
name the launch captured, `latest[n]` the last launch begun under n, `overlapped`
the names of which two launches waited at once. `notices` counts notifications.
workspaceState and the reload of the window are external: only the pick survives.

### FirmwareManifest and FirmwareRelease

`FirmwareManifest` has no state: it is what the tools compute. A sha256 stands
for the bytes it is the digest of, and the bytes of a build are a record of what
went into them (variant, pin, attempt, the macros the compiler saw), so that
"the claim is true of the bytes" can be said. `Directives` are what a header does
to a macro; a `.pp` file shows all of them, `-dM` the last.

`FirmwareRelease` is the workflow around it: `setup` fixes the pin (`Dispatch`),
each job builds, checks, hashes and uploads twice or fails (`Build`,
`UploadFirmware`, `UploadFragment`, `JobFails`), the release job downloads,
gates, assembles and creates or overwrites the Release one asset at a time
(`Download`, `Gate`, `Create`, `Overwrite`, `Clobber`, `ClobberFails`). `Rerun`
and `Expire` are GitHub's. `CommitManifest` is a maintainer copying the
manifest asset into `firmware.toml`; `Fetch` and `Select` are the host's, with
the download protocol of `FirmwareStore` reduced to its outcome. `allowed` and
`intruded` are history: the pins somebody permitted to republish, and those under
which a fragment was published that no expected job wrote.

Jobs besides the expected ones may upload firmware and fragments (`Strays`). The
download steps put all artifacts into one directory for firmware and one for
fragments, where a file replaces another of its name (`Merged`), in either order; a
fragment's file is named after its id by convention only. So the gate sees two
fragments of one id when their files have two names, and refuses them, but sees one
when they share a name. If the one that is left names an asset that is among the
downloads, it passes the check, the cross-check and the assembly
(firmware.yml:748-796), although firmware.yml:727-729 says a set beyond the list must
fail. Two things can then come of it: the manifest names an asset that is not one of
the six that l.840-847 upload, so its variant cannot be fetched; or, beside an
expired artifact, another job's firmware and fragment stand in for the expected
ones under the same names. A fragment whose id is empty is a third way past the
gate (gen_manifest.py:138). The properties name these cases by `intruded`, and say
of a Release they have touched what still holds: one variant for every expected id,
each served as the manifest says if its asset is an expected one.

`macros_from_text` does not see `#undef`, and a make port's `.pp` file shows it:
`UndefinedAfter` is the case in which the macro check and the compiler differ, and
the one exception to `ClaimsAreBuilt` and `SessionIsHonest` under a tag that is not
`intruded`.

Taken from how the workflow uses GitHub: dispatched runs queue, the artifacts of
one job expire together, only the last run is run again, `gh release create`
publishes all assets or none, an upload with `--clobber` deletes and then
uploads. Two builds never have the same bytes, which is the worst case for every
property here. The pipeline never deprecates a variant and the maintainer who does
is not modelled, so `VerifyFindsStale` is about manifests as published. `checksums.txt`, which nothing reads
back, and the descriptive fields are left out.

### SubmoduleCI

A tree of workflows is a function from files to what they say, upstream master a
sequence of trees. `GatingJobs` is the check's reading of a tree,
`JobsGitHubRuns` GitHub's: its glob matcher goes component by component and its
filters let the last matching pattern decide, so the two are defined
independently. The second is a recursive function of the glob's place, one glob
at a time, whose values are the tails of the file the rest of the glob matches.
A branch is where it was cut, the files it changes and the
workflows it edits itself. Wildcards inside a path component are left out.

What the properties deliberately do not ask: `seen` also counts a job that
triggers on `pull_request` only and has thus never run for the branch; `faced` is
read from upstream's tree and not from the merge, so that a branch which edits a
workflow itself may be reported for ever; names with blanks are split; with
`--no-fetch` the answer is about the refs, not about upstream.

## 3. What each run checks

All runs are exhaustive.

| Run | Question | Bounds, and why they are enough |
|---|---|---|
| `launcher` | safety, implementation of `DebugSession`, and progress, over every channel, slot, firmware and interleaving | 4 modules (target, a helper that may be imported in some runs only, one preloaded by `boot.py`, the debugger), 2 versions of a file, 2 restarts: a module can be stale through a first and a second restart, be imported in the first run only, and a request can arrive while another is being served |
| `extension` | leaks, wrong kills, and children of launches given up | two launches and a session started by hand, each on its own port: a session of another launch, and one of no launch, can come between any two steps |
| `debug_command` | which handshake is found, who is blamed, implementation of `HandshakeWait` | texts of up to 6 symbols in every division into chunks, buffer of 3: room for a bad line and two good ones, a line cut by the cap, a last line without newline |
| `firmware_store` | artifact safety, success, liveness | 2 processes, 3 commands, 3 inodes (artifact, part, and one a process still holds): a crash, then a repair, then a use |
| `target_picker` | attribution, staleness, notices | 3 launches, 2 names and `undefined`, 1 edit: a name can be reused after another |
| `firmware_release` | claims, tags, wholeness, what sessions are given | a make and a CMake variant, 3 pins (one that composes the debug flags, one whose make port undefines a macro after defining it, one whose make port redefines it as 0), 1 move of the pin, 2 dispatches and 3 attempts in all, at most one stray upload of three (a fragment under an expected name with an asset of its own, a second fragment of an expected id with that id's firmware, a fragment without an id): a partial overwrite after a good release, a re-run beside expired artifacts, a fragment that replaces or stands in for an expected one, and a host with the first release's artifact can all happen (1.9 million states) |
| `submodule_ci` | what the check hides or invents | 2 submodules with a branch each, 4 upstream trees (a job added, a filter narrowed, a file broken, a negated filter), a branch that edits workflows: each submodule can be stale, offline or unparsable while the other is not |

Actions, deadlock: the launcher's only end is `Exited`, where it stutters, and
its runs check deadlock. The other components stop when their bounded inputs are
used up (all launches done, promise settled, commands run), so their
configurations do not; the pipeline and the check can always take a step.

Five runs end in a violation. Each checks one statement a comment, docstring or
doc makes without exception, against the same model; `PROJECT.json` "findings"
quotes the line.

| Run | Statement | What happens |
|---|---|---|
| `launcher_interrupt` | from the moment the wrapper is in the slot the release path knows about it | a Ctrl-C received just before `os.dupterm()` is raised before l.184: the wrapper stays in the slot |
| `extension_deactivate` | `deactivate()` reaps every child between spawn and resolve | a child whose launch is inside `startDebugging` is added to a set nobody reads again |
| `firmware_overlap` | a failed download never corrupts a valid artifact | two downloads share the `.part` name |
| `target_picker_overlap` | a stale probe is never shown as current | the older of two waiting launches answers last |
| `submodule_ci_blind` | a pattern the check cannot translate makes it over-report | on the branch's side the same pattern counts as "seen" and hides the job |

The passing runs state the same properties with that case named and left out
(`~windowHit`, `late`, `~overlapped`, `label \notin overlapped`, a history in which
upstream never turns a negated filter into one that is understood), and so do those
whose exception has no run of its own and is described in section 2 or 5 (`~stranded`,
`intruded`, `UndefinedAfter`, `truncated`), so each exception
has a name and everything outside it is checked. `OnlyItsOwnEndKills` and the proofs about
`ExtensionSessions` take the launches' ports to differ: `matchesLaunch` compares
the port even of a session that kept its marker, so two boards on one port number
can be confused although the comment at `extension.ts:74-78` calls the marker
primary, and neither the run nor the proofs say anything of that case. And a loop-mode session ends when its target raises or cannot be
imported, although `docs/debugging.md:387-389` says it ends when the user ends it.

### Fairness

* `Launcher`: weak fairness of `Script`, because the interpreter goes on until
  the script waits, and of `Unwind`, because a traced target executes a line
  sooner or later (`RestartIsAnswered` excludes firmware with the stuck guard).
  `wait_for_client` has a timeout, so `NoClient` is among the script's steps.
  Nothing is assumed of the target, client or user.
* `ExtensionSessions`: weak fairness of `Settle` only: `runDebugCommand` always
  settles, which is `HandshakeWait!SettlesAtAll`, implemented by `DebugCommand`.
* `DebugCommand`: weak fairness of `Timeout`, node's timer.
* `FirmwareStore`: weak fairness of `Proceed(p)`: the transfer has a socket
  timeout, and a killed process is idle. The timeout is thus taken from the code
  and not checked: `CommandsEnd` is about the ways through a command, each of
  which must lead out.
* `TargetPicker`, `FirmwareRelease`, `SubmoduleCI`: none, nothing is promised to
  happen.

## 4. What is proved

TLAPS checks the following for every value of the constants, from the ASSUMEs
of the module alone unless a hypothesis is named. No property is inductive as it
stands; each proof module defines an `IInv` whose conjuncts are named for what
they are about, and every action is one step of the proof that it is kept.

* `LauncherProofs`: type correctness, every safety property of the `launcher`
  run, and `SessionIsImplemented`: every behaviour of the script is one of
  `DebugSession`, for any modules and bounds. `SlotInv` says who holds the slot
  at each place (registered implies in the slot; in the slot implies registered,
  or at the check, or that the window was hit or taking it out raised), from which `ReplGivenBack` and
  `HandshakeMatchesChannel` follow; `ServerInv` that the debugger's server is open
  wherever the session is open; `DebuggerInv` that the debugger is in the baseline
  whenever the loop is running, so that eviction spares it; `FreshInv` that what
  is pending or required is never newer than the disk and that between eviction
  and the end of a run nothing outside the baseline is older than required;
  `CountInv` that a request in hand has been counted but not yet spent;
  `TraceInv` that only `Arm` sets and every way out of the target clears the trace
  function. The refinement goes action by action: each maps to one action of
  `DebugSession` or leaves phase and debt alone. Three theorems are the safety
  half of the liveness properties: `HookStaysLive` (on firmware without the guard
  bug every run, whichever restart it came from, is traced and can be unwound),
  `RequestIsNotLost` (a request stays until it is served, or superseded by one for
  sources no older, or the client leaves) and `ScriptAdvances` (outside the
  target's code each step brings the script nearer to a run or to its exit).
* `DebugCommandProofs`: `TypeOK`, `FirstHandshakeWins`, `NoHandshakeMissed` and
  `BlameIsDeserved`, for any text, any division of it into chunks and any buffer
  size; and `WaitSettlesOnce`, the safety half of `HandshakeWait`: once the wait
  is over nothing that exits, errs, prints or times out later changes its answer
  or the child's fate. The invariant is `ScanReads`: while the wait is on, the
  scanner holds what a reading of the whole text fed so far would, namely the
  line not yet ended (or, once the cap has cut, the tail of one that does not
  fit), the first valid handshake, and whether a bad line came. It is carried
  through a chunk symbol by symbol, by induction over the fold, and was checked by
  TLC on the `debug_command` instance before it was proved.
* `ExtensionSessionsProofs`: for any number of launches, `TypeOK` with no
  hypothesis; `ChildIsReachable`, `EndedSessionLeavesNoChild`,
  `DeactivateReapsTheRest` and the action property `OnlyItsOwnEndKills` assuming
  `PortsDiffer` (section 3 says why). The invariant says that a launch's
  listener is installed exactly while it is starting and unmatched, that session
  entries point at their own launch, and that only a pending, listening or matched
  launch has a running child. `UnwantedIsDoomed`, with no hypothesis, is the safety
  half of `UnwantedLaunchIsReaped`: a launch overtaken during its handshake stays
  unwanted until the wait settles, which leaves its child down, for good.
* `FirmwareStoreProofs`: for any number of processes, `TypeOK`, `SuccessIsUsable`,
  `VerifiedArtifactSurvives`, `VisibleOnlyWhenExecutable` and `NoPartLeftBehind`.
  As long as no two downloads have overlapped, one process at most is past its
  open (`OneHolder`), what is open is the part and not the artifact
  (`OpenFiles`), a part past its hash is good and past its chmod executable
  (`PartFit`), and a result once true stays so (`ResultsTrue`). `PartHeld` says
  that a part always has a process to clear it away or was orphaned by a kill.
  `CommandsAdvance` says that every step of a command, its own or a kill, leaves
  it fewer steps to take, whatever fails and whoever interferes.
* `TargetPickerProofs`: for any launches and names, `TypeOK`, `ProbeKeepsItsName`,
  `ShownProbeIsCurrent` and `OneNoticePerName`. The tooltip is always the cache
  rendered, a waiting launch whose name did not overlap is that name's latest, and
  every cached probe is sound in both senses. A notice's count is backed by the
  set already warned (`NoticesKept`).
* `FirmwareReleaseProofs`: all eight invariants of the `firmware_release` run, for
  any variants, pins, sources, sets of stray uploads and numbers of runs and
  attempts, with nothing assumed of the sources or the strays. `JobInv` says what a
  job has verified, what of it is uploaded, and that an expired pair is gone whole.
  The gate is two lemmas. `GateManifest`, whoever wrote the fragments: the
  manifest assembled behind it has one variant for every expected id (`Gated`), and
  the directory holds the bytes it names. `GateIsSound`, where every fragment is an
  expected job's (`OwnFragments`): the directory holds exactly one genuine firmware
  for each variant and exactly their fragments (`Ships`), whatever the transfers, the
  retention and other jobs did to the firmware. `DownloadInv` carries both to the
  publishing steps and says that a foreign fragment is on record before an overwrite
  begins. `ReleaseInv` says that each asset that is there is genuine for its pin
  unless the tag is `intruded` (`Sound`), and that a Release nobody may overwrite
  serves what its manifest says (`Serves`), `WholeInv` what half an overwrite has
  done, and `CommittedInv` ties `firmware.toml` to the Release it came from.
  `MacrosAreRead`, that the macro check reads a dump as the compiler did whatever the
  order and number of definitions in it unless the last directive of a make port's is
  an `#undef`, is a lemma from `SourceAssumption` (the last of the directives is the
  last of the definitions).
  One theorem has a hypothesis: `DoneIsWhole`, that no manifest is the empty file.
  TLC cannot evaluate it as an ASSUME, since the empty file is a model value.

* `SubmoduleCIProofs`: for any submodules, branches, upstream histories and
  workflow edits, `TypeOK`, `NoJobIsHidden` and `NothingIsInvented`. The invariant
  is that a verdict is about upstream as it is now (`VerdictIsCurrent`): a check
  that nothing stops has reached every submodule (`AllReached`, by the first one
  that would stop it), has fetched each and read trees that parse. `Readings`
  compares the two readings of one workflow: the check lets through whatever
  GitHub runs, and exactly that where it understands the filters. `GlobsAgreeAlways`
  is what that rests on: `glob_to_regex` and GitHub's matcher agree on every
  pattern and every path of any length. The tails in closed form, taken from
  the regex's reading, satisfy the equation of GitHub's recursive function, and
  that equation has one solution. `NoJobIsHidden` assumes `FiltersSettle`: a
  workflow whose filters are not understood stays as it is upstream. The
  `submodule_ci_blind` run shows that it cannot be dropped.

Induction over data is done in `Induction` with sets of numbers, since the
library's induction theorems take an operator: a bounded set of numbers that is
not empty has a least and a greatest member, by `WFMin` of the library, and what
holds at 0 and is handed on holds up to any bound. Folds and recursive functions
are then unfolded one index at a time.

Only model-checked, because fairness and ENABLED are out of the prover's reach:
`RestartIsAnswered`, `EndsWithoutClient`, `UnwantedLaunchIsReaped`, `CommandsEnd`,
and `SettlesAtAll` inside `ImplementsWait`. Of each, what a step may do is proved
above (nothing asked for is lost, no step goes round, what settled stays); that
the steps are taken is what TLC adds. The five runs that expect a violation are
counterexamples, and have nothing to prove.

## 5. Not modelled

* Which address the launcher reports, wording, and the captured diagnostics of a
  failed command: formatting.
* Argument building (`buildDebugCommand`) and `buildAttachConfig`: field copies.
* `findConfigFile` and the schema check of `mpdebug.toml`: a walk up the
  directories and a validation, with no state.
* `debugpy`, `mpremote debug`, `ReplMux`, composed firmware: submodules that are
  not in this tree.
* `firmware.py list`: it prints what it reads.
* `checksums.txt` and the descriptive manifest fields: nothing reads them back.
* A line longer than the scanner's cap whose kept tail happens to begin with the
  prefix can be taken for a handshake; `FirstHandshakeWins` excludes it
  (`truncated`).
* Pin checks, install helpers, sample targets and tests: they keep no state, or
  are run by hand.

## 6. Plan

1–10 are done; what is left is 11.

1. `Launcher` – the core: what a restart executes and who holds the REPL. Proved.
2. `ExtensionSessions` – who owns each `mpremote`. Proved.
3. `DebugCommand` – the handshake wait and its scanner. Proved.
4. `FirmwareStore` – the download protocol. Proved.
5. `TargetPicker` – attribution of probes. Proved.
6. `DebugSession` – the abstract session, implemented by `Launcher`. Proved.
7. `HandshakeWait` – the abstract promise of `runDebugCommand`, implemented by
   `DebugCommand` and relied on by `ExtensionSessions`. Safety proved.
8. `FirmwareManifest`, `FirmwareRelease` – from a pin to a session's firmware. Proved.
9. `SubmoduleCI` – no job that a pull request would newly run is hidden. Proved.
10. Proofs of the properties that the first version had only checked, the scanner,
    both glob matchers and the macro reader by induction. Proved.
11. `Targets` – `findConfigFile`'s walk and the schema check, as operators checked
    against a reference.
