---------------------------- MODULE SubmoduleCI ----------------------------
(* tools/check_submodule_ci.py: which gating jobs a pull request of a       *)
(* submodule branch would run upstream and the branch's own tree does not   *)
(* carry. Upstream moves, branches are cut, edited and rebased, remote-     *)
(* tracking refs go stale; the check reads them and answers.                *)
(*                                                                          *)
(* A path is a sequence of components and a pattern a sequence of           *)
(* components, "*" and "**": wildcards inside a component are left out.     *)
EXTENDS Naturals, Sequences, FiniteSets, TLC

CONSTANTS
    Subs,         \* the submodules, in the order of mbm.toml
    Branches,     \* the branches it registers
    SubOf,        \* SubOf[b]: the submodule of branch b
    History,      \* History[n]: upstream master's n-th tree of .github/workflows,
                  \* from workflow files to what they say
    Overlays,     \* workflow files a branch may itself change (a tree part)
    Files,        \* the other files a branch may change
    Unparseable,  \* a workflow file that is not YAML
    NoFilter, NoAnswer

VARIABLES
    upstream,     \* upstream[s]: the version upstream master is at
    tracking,     \* tracking[s]: the version refs/remotes/upstream/master has
    branch,       \* branch[b]: does it exist, where it was cut, what it changes
    answer        \* the last check, until something changes

vars == <<upstream, tracking, branch, answer>>

SubIds == {Subs[n] : n \in 1..Len(Subs)}

\* What a workflow file may say.
Trees == Overlays \union {History[n] : n \in 1..Len(History)}
Docs  == (UNION {{t[w] : w \in DOMAIN t} : t \in Trees}) \ {Unparseable}

\* The patterns a document filters with, by either key.
Filters(doc) == {doc.paths, doc.ignore} \ {NoFilter}

ASSUME RegistryAssumption ==
    /\ Len(Subs) \in Nat
    /\ Len(History) \in Nat \ {0}
    /\ SubOf \in [Branches -> SubIds]

\* Filters, their patterns and paths are sequences.
ASSUME FilterAssumption ==
    \A d \in Docs : \A p \in Filters(d) :
        Len(p) \in Nat /\ \A n \in 1..Len(p) : Len(p[n].glob) \in Nat

ASSUME FilesAssumption == \A f \in Files : Len(f) \in Nat

-----------------------------------------------------------------------------
(* Path filters: a sequence of patterns [neg, glob].                        *)

\* Mutant: fnmatch, whose `*` crosses separators.
GlobMatchesAcross(glob, file) ==
    \E ends \in [0..Len(glob) -> 0..Len(file)] :
        /\ ends[0] = 0 /\ ends[Len(glob)] = Len(file)
        /\ \A n \in 1..Len(glob) :
              IF glob[n] \in {"*", "**"} THEN ends[n] > ends[n - 1]
              ELSE ends[n] = ends[n - 1] + 1 /\ file[ends[n]] = glob[n]

\* glob_to_regex: `*` stays within a component, `**/` crosses any number of
\* them and a final `**` takes the rest.
GlobMatches(glob, file) ==
    \E ends \in [0..Len(glob) -> 0..Len(file)] :
        /\ ends[0] = 0 /\ ends[Len(glob)] = Len(file)
        /\ \A n \in 1..Len(glob) :
              IF glob[n] = "**"
              THEN ends[n] >= ends[n - 1] + (IF n = Len(glob) THEN 1 ELSE 0)
              ELSE /\ ends[n] = ends[n - 1] + 1
                   /\ glob[n] \in {"*", file[ends[n]]}

FilterIsUnderstood(patterns) ==
    \A n \in 1..Len(patterns) : ~patterns[n].neg

AnyMatches(patterns, file) ==
    \E n \in 1..Len(patterns) : GlobMatches(patterns[n].glob, file)

PathsAdmit(patterns, changed) ==
    \/ ~FilterIsUnderstood(patterns)
    \/ \E f \in changed : AnyMatches(patterns, f)

\* Mutant: one ignored file is enough to leave the workflow out.
PathsIgnoreAny(patterns, changed) ==
    /\ FilterIsUnderstood(patterns)
    /\ \E f \in changed : AnyMatches(patterns, f)

PathsIgnore(patterns, changed) ==
    /\ FilterIsUnderstood(patterns)
    /\ \A f \in changed : AnyMatches(patterns, f)

\* gating_jobs: the jobs of every workflow of a tree that triggers on
\* pull_request and whose filters let the change through.
GatingJobs(tree, changed) ==
    UNION {
        {<<w, j>> : j \in tree[w].jobs} :
            w \in {w \in DOMAIN tree :
                /\ "pull_request" \in tree[w].on
                /\ tree[w].paths = NoFilter \/ PathsAdmit(tree[w].paths, changed)
                /\ tree[w].ignore = NoFilter \/ ~PathsIgnore(tree[w].ignore, changed)}}

Parses(tree) == \A w \in DOMAIN tree : tree[w] # Unparseable

\* GitHub's own reading of a glob, component by component: left[g], how much of
\* file may be taken when the patterns after the g-th are to match the rest ...
GitHubMatches(glob, file) ==
    LET left[g \in 0..Len(glob)] ==
          IF g = Len(glob) THEN {Len(file)}
          ELSE {f \in 0..Len(file) :
                  CASE glob[g + 1] = "**" -> IF g + 1 = Len(glob) THEN f < Len(file)
                                             ELSE \E k \in left[g + 1] : f <= k
                    [] glob[g + 1] = "*"  -> f + 1 \in left[g + 1]
                    [] OTHER -> f + 1 \in left[g + 1] /\ glob[g + 1] = file[f + 1]}
    IN 0 \in left[0]

\* ... and of a filter: the last pattern that matches decides.
Selects(patterns, file) ==
    LET hits == {n \in 1..Len(patterns) : GitHubMatches(patterns[n].glob, file)} IN
    /\ hits # {}
    /\ \E n \in hits : ~patterns[n].neg /\ \A m \in hits : m <= n

\* The jobs a pull_request event runs for a change under a workflow tree.
JobsGitHubRuns(tree, changed) ==
    UNION {
        {<<w, j>> : j \in tree[w].jobs} :
            w \in {w \in DOMAIN tree :
                /\ tree[w] # Unparseable
                /\ "pull_request" \in tree[w].on
                /\ tree[w].paths = NoFilter \/ \E f \in changed : Selects(tree[w].paths, f)
                /\ tree[w].ignore = NoFilter \/ \E f \in changed : ~Selects(tree[w].ignore, f)}}

-----------------------------------------------------------------------------
NoEdits == <<>>

\* A tree with some of its files replaced.
Over(edits, tree) ==
    [w \in DOMAIN edits \union DOMAIN tree |->
        IF w \in DOMAIN edits THEN edits[w] ELSE tree[w]]

Tree(b) == Over(branch[b].edits, History[branch[b].at])

\* git diff --name-only from the merge base.
Changed(b) ==
    branch[b].changed
        \union {<<".github", "workflows", w>> : w \in DOMAIN branch[b].edits}

\* A fresh clone: the refs fetched, the branches cut from them.
Init ==
    /\ upstream = [s \in SubIds |-> 1]
    /\ tracking = upstream
    /\ branch = [b \in Branches |->
                    [exists |-> TRUE, at |-> 1, changed |-> {}, edits |-> NoEdits]]
    /\ answer = NoAnswer

UpstreamMoves(s) ==
    /\ upstream[s] < Len(History)
    /\ upstream' = [upstream EXCEPT ![s] = @ + 1]
    /\ answer' = NoAnswer
    /\ UNCHANGED <<tracking, branch>>

Commit(b, file) ==
    /\ branch[b].exists
    /\ file \notin branch[b].changed
    /\ branch' = [branch EXCEPT ![b].changed = @ \union {file}]
    /\ answer' = NoAnswer
    /\ UNCHANGED <<upstream, tracking>>

EditWorkflows(b, edits) ==
    /\ branch[b].exists
    /\ branch' = [branch EXCEPT ![b].edits = edits]
    /\ answer' = NoAnswer
    /\ UNCHANGED <<upstream, tracking>>

\* git fetch upstream && git rebase upstream/master
Rebase(b) ==
    LET s == SubOf[b] IN
    /\ branch[b].exists
    /\ tracking' = [tracking EXCEPT ![s] = upstream[s]]
    /\ branch' = [branch EXCEPT ![b].at = upstream[s]]
    /\ answer' = NoAnswer
    /\ UNCHANGED upstream

Delete(b) ==
    /\ branch' = [branch EXCEPT ![b].exists = FALSE]
    /\ answer' = NoAnswer
    /\ UNCHANGED <<upstream, tracking>>

-----------------------------------------------------------------------------
(* The check.                                                               *)

Registered(s) == {b \in Branches : SubOf[b] = s}

\* check_submodule's report for one branch, against upstream/master at master.
Unseen(b, master) ==
    IF Changed(b) = {} THEN {}
    ELSE GatingJobs(History[master], Changed(b)) \ GatingJobs(Tree(b), Changed(b))

\* What makes check_submodule raise CheckError once it has the refs.
Unreadable(s, master) ==
    \E b \in Registered(s) :
        /\ branch[b].exists
        /\ Changed(b) # {}
        /\ ~Parses(History[master]) \/ ~Parses(Tree(b))

Failures(report) == {b \in Branches : ~branch[b].exists \/ report[b] # {}}

\* Mutant: the number of failures is the exit status.
ExitCodeCounts(report) == Cardinality(Failures(report))

ExitCode(report) == IF Failures(report) = {} THEN 0 ELSE 1

\* upstream/master as the check reads it, with or without --no-fetch.
Master(s, fetch) == IF fetch THEN upstream[s] ELSE tracking[s]

\* A submodule raises CheckError: no checkout, no remote named upstream, no
\* answer to the fetch - it is cut off - or a workflow file that does not parse.
Stops(s, fetch, cutOff) == s \in cutOff \/ Unreadable(s, Master(s, fetch))

\* The submodules main() gets to: the first that stops it is the last.
Reached(fetch, cutOff) ==
    {Subs[n] : n \in {n \in 1..Len(Subs) :
        \A m \in 1..(n - 1) : ~Stops(Subs[m], fetch, cutOff)}}

Report(fetch) ==
    [b \in Branches |-> IF branch[b].exists
                        THEN Unseen(b, Master(SubOf[b], fetch)) ELSE {}]

\* main(). A failure ends it with 2, the submodules before it fetched already.
Check(fetch, cutOff) ==
    /\ tracking' = [s \in SubIds |-> IF s \in Reached(fetch, cutOff) \ cutOff
                                     THEN Master(s, fetch) ELSE tracking[s]]
    /\ answer' = IF \E s \in Reached(fetch, cutOff) : Stops(s, fetch, cutOff)
                 THEN [exit |-> 2, fetched |-> fetch]
                 ELSE [exit |-> ExitCode(Report(fetch)), fetched |-> fetch,
                       report |-> Report(fetch)]
    /\ UNCHANGED <<upstream, branch>>

Next ==
    \/ \E s \in SubIds : UpstreamMoves(s)
    \/ \E b \in Branches :
          \/ \E f \in Files : Commit(b, f)
          \/ \E e \in Overlays : EditWorkflows(b, e)
          \/ Rebase(b)
          \/ Delete(b)
    \/ \E fetch \in BOOLEAN, cutOff \in SUBSET SubIds : Check(fetch, cutOff)

Spec == Init /\ [][Next]_vars

-----------------------------------------------------------------------------
Jobs(tree) == UNION {{<<w, j>> : j \in tree[w].jobs} :
                        w \in {w \in DOMAIN tree : tree[w] # Unparseable}}
AllJobs == UNION {Jobs(t) : t \in Trees}

\* Type invariant of the check and what it reads.
TypeOK ==
    /\ upstream \in [SubIds -> 1..Len(History)]
    /\ \A s \in SubIds : tracking[s] \in 1..upstream[s]
    /\ branch \in [Branches -> [exists : BOOLEAN, at : 1..Len(History),
                                changed : SUBSET Files,
                                edits : Overlays \union {NoEdits}]]
    /\ \A b \in Branches : branch[b].at <= tracking[SubOf[b]]
    /\ \/ answer = NoAnswer
       \/ answer \in [exit : {2}, fetched : BOOLEAN]
       \/ answer \in [exit : {0, 1}, fetched : BOOLEAN,
                      report : [Branches -> SUBSET AllJobs]]

\* The jobs a pull request of the branch would run - those of the merge into
\* upstream master - and the tree it was cut from would not have.
Gap(b) ==
    IF Changed(b) = {} THEN {}
    ELSE JobsGitHubRuns(Over(branch[b].edits, History[upstream[SubOf[b]]]), Changed(b))
            \ JobsGitHubRuns(Tree(b), Changed(b))

\* The files a branch may change, its workflows included.
Names == Files \union
    {<<".github", "workflows", w>> : w \in UNION {DOMAIN t : t \in Overlays \union {NoEdits}}}

\* glob_to_regex and GitHub agree on every pattern of every filter.
GlobsAgree ==
    \A d \in Docs : \A p \in Filters(d) : \A n \in 1..Len(p), f \in Names :
        GlobMatches(p[n].glob, f) <=> GitHubMatches(p[n].glob, f)

Verdict == answer # NoAnswer /\ answer.exit # 2 /\ answer.fetched

\* A check that fetched reports every such job, whatever became of upstream,
\* of the refs and of the branches: none that is missing is hidden by a filter,
\* and exit 0 says there is none for any branch of any submodule.
NoJobIsHidden ==
    Verdict => \A b \in Branches :
        /\ branch[b].exists => Gap(b) \subseteq answer.report[b]
        /\ answer.exit = 0 => branch[b].exists /\ Gap(b) = {}

Plain(tree) ==
    \A w \in DOMAIN tree : tree[w] # Unparseable =>
        /\ tree[w].paths = NoFilter \/ FilterIsUnderstood(tree[w].paths)
        /\ tree[w].ignore = NoFilter \/ FilterIsUnderstood(tree[w].ignore)

\* It over-reports only for a filter it does not understand, or for a branch
\* that changes workflows itself.
NothingIsInvented ==
    Verdict => \A b \in Branches :
        /\ branch[b].exists
        /\ branch[b].edits = NoEdits
        /\ Plain(Tree(b)) /\ Plain(History[upstream[SubOf[b]]])
        => answer.report[b] \subseteq Gap(b)
=============================================================================
