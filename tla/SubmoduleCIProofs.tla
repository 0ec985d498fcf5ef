-------------------------- MODULE SubmoduleCIProofs --------------------------
(* Proofs about SubmoduleCI, for any submodules, branches and histories: a   *)
(* verdict is about upstream as it is, hides no job as long as no filter the *)
(* check cannot read is later replaced, and invents none otherwise.          *)
EXTENDS SubmoduleCI, Induction

Understood(doc) == \A p \in Filters(doc) : FilterIsUnderstood(p)

\* A file whose filters the check does not understand stays as it is upstream.
FiltersSettle ==
    \A n \in 1..Len(History), m \in 1..Len(History) :
        n <= m => \A w \in DOMAIN History[n] :
            \/ History[n][w] = Unparseable
            \/ Understood(History[n][w])
            \/ w \in DOMAIN History[m] /\ History[m][w] = History[n][w]

\* The check's and GitHub's reading of one workflow.
Admitted(doc, changed) ==
    /\ "pull_request" \in doc.on
    /\ doc.paths = NoFilter \/ PathsAdmit(doc.paths, changed)
    /\ doc.ignore = NoFilter \/ ~PathsIgnore(doc.ignore, changed)

Runs(doc, changed) ==
    /\ "pull_request" \in doc.on
    /\ doc.paths = NoFilter \/ \E f \in changed : Selects(doc.paths, f)
    /\ doc.ignore = NoFilter \/ \E f \in changed : ~Selects(doc.ignore, f)

-----------------------------------------------------------------------------
(* Globs: what the patterns after the g-th match is shown to obey the       *)
(* equation that defines GitHub's reading, and that equation to have one    *)
(* solution.                                                                *)

\* What the n-th pattern of a glob takes of file, from its e-th component on,
\* may end with the t-th.
Takes(glob, file, n, e, t) ==
    IF glob[n] = "**" THEN t >= e + (IF n = Len(glob) THEN 1 ELSE 0)
    ELSE t = e + 1 /\ glob[n] \in {"*", file[t]}

\* The patterns after the g-th take what file has after its f-th component.
Taken(glob, file, g, f, ends) ==
    /\ ends \in [g..Len(glob) -> 0..Len(file)]
    /\ ends[g] = f /\ ends[Len(glob)] = Len(file)
    /\ \A n \in (g + 1)..Len(glob) : Takes(glob, file, n, ends[n - 1], ends[n])

Tails(glob, file, g) == {f \in 0..Len(file) : \E ends : Taken(glob, file, g, f, ends)}

\* One step of GitHub's reading, left being its reading of the patterns that follow.
Reads(glob, file, left, g) ==
    IF g = Len(glob) THEN {Len(file)}
    ELSE {f \in 0..Len(file) :
            CASE glob[g + 1] = "**" -> IF g + 1 = Len(glob) THEN f < Len(file)
                                       ELSE \E k \in left[g + 1] : f <= k
              [] glob[g + 1] = "*"  -> f + 1 \in left[g + 1]
              [] OTHER -> f + 1 \in left[g + 1] /\ glob[g + 1] = file[f + 1]}

Reading(glob, file, left) ==
    left = [g \in 0..Len(glob) |-> Reads(glob, file, left, g)]

\* GitHubMatches asks the one function that obeys Reads at every place.
LEMMA GitHubReads ==
  ASSUME NEW glob, NEW file
  PROVE  GitHubMatches(glob, file) <=> 0 \in (CHOOSE left : Reading(glob, file, left))[0]
  BY DEF GitHubMatches, Reading, Reads

\* GlobMatches asks for all patterns to take all of file.
LEMMA GlobTakes ==
  ASSUME NEW glob, NEW file
  PROVE  GlobMatches(glob, file) <=> \E ends : Taken(glob, file, 0, 0, ends)
  BY DEF GlobMatches, Taken, Takes

\* A pattern takes something and leaves the rest to those after it.
LEMMA TakenFrom ==
  ASSUME NEW glob, Len(glob) \in Nat, NEW file, Len(file) \in Nat,
         NEW g \in 0..(Len(glob) - 1), NEW f \in 0..Len(file)
  PROVE  f \in Tails(glob, file, g) <=>
            \E k \in Tails(glob, file, g + 1) : Takes(glob, file, g + 1, f, k)
  <1>1. ASSUME NEW ends, Taken(glob, file, g, f, ends)
        PROVE  \E k \in Tails(glob, file, g + 1) : Takes(glob, file, g + 1, f, k)
    <2> DEFINE later == [n \in (g + 1)..Len(glob) |-> ends[n]]
    <2>1. /\ g + 1 \in (g + 1)..Len(glob) /\ g + 1 \in g..Len(glob)
          /\ Len(glob) \in (g + 1)..Len(glob)
          /\ (g + 1) - 1 = g
          /\ \A n \in (g + 1)..Len(glob) : n \in g..Len(glob)
          /\ \A n \in (g + 2)..Len(glob) :
                n \in (g + 1)..Len(glob) /\ n - 1 \in (g + 1)..Len(glob)
          /\ (g + 1) + 1 = g + 2
      OBVIOUS
    <2>2. Takes(glob, file, g + 1, f, ends[g + 1])
      BY <1>1, <2>1 DEF Taken
    <2>3. ends[g + 1] \in 0..Len(file)
      BY <1>1, <2>1 DEF Taken
    <2>4. later \in [(g + 1)..Len(glob) -> 0..Len(file)]
      BY <1>1, <2>1 DEF Taken
    <2>5. \A n \in (g + 1)..Len(glob) : later[n] = ends[n]
      OBVIOUS
    <2> HIDE DEF later
    <2>6. Taken(glob, file, g + 1, ends[g + 1], later)
      BY <1>1, <2>1, <2>4, <2>5 DEF Taken
    <2>7. ends[g + 1] \in Tails(glob, file, g + 1)
      BY <2>3, <2>6 DEF Tails
    <2> QED BY <2>2, <2>7
  <1>2. ASSUME NEW k \in 0..Len(file), Takes(glob, file, g + 1, f, k),
               NEW later, Taken(glob, file, g + 1, k, later)
        PROVE  f \in Tails(glob, file, g)
    <2> DEFINE ends == [n \in g..Len(glob) |-> IF n = g THEN f ELSE later[n]]
    <2>1. /\ g \in g..Len(glob) /\ Len(glob) \in g..Len(glob) /\ Len(glob) # g
          /\ g + 1 \in g..Len(glob) /\ g + 1 # g
          /\ (g + 1) - 1 = g
          /\ \A n \in g..Len(glob) : n # g => n \in (g + 1)..Len(glob)
          /\ \A n \in (g + 1)..Len(glob) :
                /\ n \in g..Len(glob) /\ n # g
                /\ n # g + 1 => /\ n \in (g + 2)..Len(glob)
                                /\ n - 1 \in g..Len(glob) /\ n - 1 # g
          /\ (g + 1) + 1 = g + 2
      OBVIOUS
    <2>2. ends \in [g..Len(glob) -> 0..Len(file)]
      BY <1>2, <2>1 DEF Taken
    <2>3. ends[g] = f /\ \A n \in g..Len(glob) : n # g => ends[n] = later[n]
      BY <2>1
    <2> HIDE DEF ends
    <2>4. ASSUME NEW n \in (g + 1)..Len(glob)
          PROVE  Takes(glob, file, n, ends[n - 1], ends[n])
      <3>1. CASE n = g + 1
        BY <1>2, <2>1, <2>3, <3>1 DEF Taken
      <3>2. CASE n # g + 1
        <4>1. Takes(glob, file, n, later[n - 1], later[n])
          BY <1>2, <2>1, <3>2 DEF Taken
        <4> QED BY <2>1, <2>3, <3>2, <4>1
      <3> QED BY <3>1, <3>2
    <2>5. ends[Len(glob)] = Len(file)
      BY <1>2, <2>1, <2>3 DEF Taken
    <2>6. Taken(glob, file, g, f, ends)
      BY <2>2, <2>3, <2>4, <2>5 DEF Taken
    <2> QED BY <2>6 DEF Tails
  <1> QED BY <1>1, <1>2 DEF Tails

\* After the last pattern nothing may be left.
LEMMA TakenAll ==
  ASSUME NEW glob, Len(glob) \in Nat, NEW file, Len(file) \in Nat
  PROVE  Tails(glob, file, Len(glob)) = {Len(file)}
  <1>1. ASSUME NEW f \in Tails(glob, file, Len(glob)) PROVE f = Len(file)
    BY <1>1 DEF Tails, Taken
  <1> DEFINE ends == [n \in Len(glob)..Len(glob) |-> Len(file)]
  <1>2. /\ ends \in [Len(glob)..Len(glob) -> 0..Len(file)]
        /\ ends[Len(glob)] = Len(file)
    OBVIOUS
  <1>3. (Len(glob) + 1)..Len(glob) = {}
    OBVIOUS
  <1> HIDE DEF ends
  <1>4. Taken(glob, file, Len(glob), Len(file), ends)
    BY <1>2, <1>3 DEF Taken
  <1>5. Len(file) \in Tails(glob, file, Len(glob))
    BY <1>4 DEF Tails
  <1> QED BY <1>1, <1>5

\* The tails are what GitHub's reading leaves, pattern by pattern.
LEMMA TailsAreRead ==
  ASSUME NEW glob, Len(glob) \in Nat, NEW file, Len(file) \in Nat, NEW left,
         NEW g \in 0..Len(glob),
         g # Len(glob) => left[g + 1] = Tails(glob, file, g + 1)
  PROVE  Tails(glob, file, g) = Reads(glob, file, left, g)
  <1>1. CASE g = Len(glob)
    BY <1>1, TakenAll DEF Reads
  <1>2. CASE g # Len(glob)
    <2>1. g \in 0..(Len(glob) - 1)
      BY <1>2
    <2>2. ASSUME NEW f \in 0..Len(file)
          PROVE  f \in Tails(glob, file, g) <=> f \in Reads(glob, file, left, g)
      <3>1. f \in Tails(glob, file, g) <=>
              \E k \in left[g + 1] : Takes(glob, file, g + 1, f, k)
        BY <1>2, <2>1, TakenFrom
      <3>2. \A k \in left[g + 1] : k \in 0..Len(file)
        BY <1>2 DEF Tails
      <3>3. g + 1 = Len(glob) => left[g + 1] = {Len(file)}
        BY <1>2, TakenAll
      <3>4. CASE glob[g + 1] = "**"
        <4>1. f \in Reads(glob, file, left, g) <=>
                IF g + 1 = Len(glob) THEN f < Len(file) ELSE \E k \in left[g + 1] : f <= k
          BY <1>2, <3>4 DEF Reads
        <4>2. \A k \in left[g + 1] :
                Takes(glob, file, g + 1, f, k) <=>
                  IF g + 1 = Len(glob) THEN f < k ELSE f <= k
          BY <3>2, <3>4 DEF Takes
        <4> QED BY <3>1, <3>3, <4>1, <4>2
      <3>5. CASE glob[g + 1] # "**"
        <4>1. f \in Reads(glob, file, left, g) <=>
                f + 1 \in left[g + 1] /\ glob[g + 1] \in {"*", file[f + 1]}
          BY <1>2, <3>5 DEF Reads
        <4>2. \A k \in left[g + 1] :
                Takes(glob, file, g + 1, f, k) <=>
                  k = f + 1 /\ glob[g + 1] \in {"*", file[k]}
          BY <3>5 DEF Takes
        <4> QED BY <3>1, <4>1, <4>2
      <3> QED BY <3>4, <3>5
    <2> QED BY <1>2, <2>2 DEF Tails, Reads
  <1> QED BY <1>1, <1>2

\* There is one reading, and it leaves the tails.
LEMMA ReadingIsTails ==
  ASSUME NEW glob, Len(glob) \in Nat, NEW file, Len(file) \in Nat,
         NEW left, Reading(glob, file, left)
  PROVE  \A g \in 0..Len(glob) : left[g] = Tails(glob, file, g)
  <1>1. \A g \in 0..Len(glob) : left[g] = Reads(glob, file, left, g)
    BY DEF Reading
  <1> DEFINE S == {n \in 0..Len(glob) :
                     left[Len(glob) - n] = Tails(glob, file, Len(glob) - n)}
  <1>2. 0 \in S
    <2>1. Len(glob) \in 0..Len(glob) /\ Len(glob) - 0 = Len(glob)
      OBVIOUS
    <2>2. left[Len(glob)] = Tails(glob, file, Len(glob))
      BY <1>1, <2>1, TailsAreRead
    <2> QED BY <2>1, <2>2
  <1>3. ASSUME NEW n \in Nat, n < Len(glob), n \in S PROVE n + 1 \in S
    <2> DEFINE g == Len(glob) - (n + 1)
    <2>1. n < Len(glob) /\ left[Len(glob) - n] = Tails(glob, file, Len(glob) - n)
      BY <1>3
    <2>2. g \in 0..Len(glob) /\ g + 1 = Len(glob) - n /\ n + 1 \in 0..Len(glob)
      BY <2>1
    <2>3. left[g + 1] = Tails(glob, file, g + 1)
      BY <2>1, <2>2
    <2>4. left[g] = Tails(glob, file, g)
      <3> HIDE DEF g
      <3> QED BY <1>1, <2>2, <2>3, TailsAreRead
    <2> QED BY <2>2, <2>4
  <1> HIDE DEF S
  <1>4. \A n \in 0..Len(glob) : n \in S
    BY <1>2, <1>3, UpTo
  <1>5. ASSUME NEW g \in 0..Len(glob) PROVE left[g] = Tails(glob, file, g)
    <2>1. Len(glob) - g \in 0..Len(glob) /\ Len(glob) - (Len(glob) - g) = g
      OBVIOUS
    <2>2. Len(glob) - g \in S
      BY <1>4, <2>1
    <2> QED BY <2>1, <2>2 DEF S
  <1> QED BY <1>5

\* The tails are such a reading.
LEMMA ReadingExists ==
  ASSUME NEW glob, Len(glob) \in Nat, NEW file, Len(file) \in Nat
  PROVE  \E left : Reading(glob, file, left)
  <1> DEFINE left == [g \in 0..Len(glob) |-> Tails(glob, file, g)]
  <1>1. ASSUME NEW g \in 0..Len(glob)
        PROVE  Tails(glob, file, g) = Reads(glob, file, left, g)
    <2>1. g # Len(glob) => g + 1 \in 0..Len(glob)
      OBVIOUS
    <2>2. g # Len(glob) => left[g + 1] = Tails(glob, file, g + 1)
      BY <2>1
    <2> HIDE DEF left
    <2> QED BY <2>2, TailsAreRead
  <1>2. left = [g \in 0..Len(glob) |-> Reads(glob, file, left, g)]
    BY <1>1
  <1> HIDE DEF left
  <1> QED BY <1>2 DEF Reading

\* glob_to_regex reads every glob of every length on every path as GitHub does.
LEMMA GlobIsRead ==
  ASSUME NEW glob, Len(glob) \in Nat, NEW file, Len(file) \in Nat
  PROVE  GlobMatches(glob, file) <=> GitHubMatches(glob, file)
  <1>1. PICK left : left = CHOOSE r : Reading(glob, file, r)
    OBVIOUS
  <1>2. Reading(glob, file, left)
    BY <1>1, ReadingExists
  <1>3. left[0] = Tails(glob, file, 0)
    BY <1>2, ReadingIsTails
  <1>4. GitHubMatches(glob, file) <=> 0 \in Tails(glob, file, 0)
    BY <1>1, <1>3, GitHubReads
  <1> QED BY <1>4, GlobTakes DEF Tails

\* What a branch changes are sequences, as patterns are.
LEMMA NamesAreFinite ==
  ASSUME NEW f \in Names
  PROVE  Len(f) \in Nat
  <1>1. \A w : Len(<<".github", "workflows", w>>) = 3
    OBVIOUS
  <1> QED BY <1>1, FilesAssumption DEF Names

\* glob_to_regex and GitHub's matcher agree on every pattern of every filter of
\* every workflow and every file a branch may change.
THEOREM GlobsAgreeAlways == GlobsAgree
  BY GlobIsRead, NamesAreFinite, FilterAssumption DEF GlobsAgree

-----------------------------------------------------------------------------
(* Filters.                                                                 *)

\* A filter that is understood selects what one of its patterns matches.
LEMMA UnderstoodSelects ==
  ASSUME NEW p, Len(p) \in Nat, FilterIsUnderstood(p), NEW f,
         \A n \in 1..Len(p) : GlobMatches(p[n].glob, f) <=> GitHubMatches(p[n].glob, f)
  PROVE  Selects(p, f) <=> AnyMatches(p, f)
  <1> DEFINE hits == {n \in 1..Len(p) : GitHubMatches(p[n].glob, f)}
  <1>1. hits \in SUBSET (1..Len(p))
    OBVIOUS
  <1>2. AnyMatches(p, f) <=> hits # {}
    BY DEF AnyMatches
  <1>3. Selects(p, f) <=> hits # {} /\ \E n \in hits : ~p[n].neg /\ \A m \in hits : m <= n
    BY DEF Selects
  <1>4. \A n \in hits : ~p[n].neg
    BY DEF FilterIsUnderstood
  <1> HIDE DEF hits
  <1> QED BY <1>1, <1>2, <1>3, <1>4, Greatest

\* The check reads an understood document as GitHub does, and lets every job
\* through that GitHub runs even when it does not understand it.
LEMMA Readings ==
  ASSUME NEW d \in Docs, NEW changed \in SUBSET Names, changed # {}
  PROVE  /\ Runs(d, changed) => Admitted(d, changed)
         /\ Understood(d) => (Admitted(d, changed) => Runs(d, changed))
  <1>1. ASSUME NEW p \in Filters(d), FilterIsUnderstood(p)
        PROVE  /\ PathsAdmit(p, changed) <=> \E f \in changed : Selects(p, f)
               /\ PathsIgnore(p, changed) <=> \A f \in changed : Selects(p, f)
    <2>1. Len(p) \in Nat
      BY FilterAssumption
    <2>2. ASSUME NEW f \in changed PROVE Selects(p, f) <=> AnyMatches(p, f)
      BY <1>1, <2>1, UnderstoodSelects, GlobsAgreeAlways DEF GlobsAgree
    <2> QED BY <1>1, <2>2 DEF PathsAdmit, PathsIgnore
  <1>2. ASSUME NEW p, ~FilterIsUnderstood(p)
        PROVE  PathsAdmit(p, changed) /\ ~PathsIgnore(p, changed)
    BY <1>2 DEF PathsAdmit, PathsIgnore
  <1>3. /\ d.paths = NoFilter \/ d.paths \in Filters(d)
        /\ d.ignore = NoFilter \/ d.ignore \in Filters(d)
    BY DEF Filters
  <1>4. Runs(d, changed) => Admitted(d, changed)
    BY <1>1, <1>2, <1>3 DEF Runs, Admitted
  <1>5. Understood(d) => (Admitted(d, changed) => Runs(d, changed))
    BY <1>1, <1>3 DEF Runs, Admitted, Understood
  <1> QED BY <1>4, <1>5

\* The jobs of a tree, workflow by workflow.
LEMMA GatingJobsOf ==
  ASSUME NEW tree, NEW changed, NEW x
  PROVE  x \in GatingJobs(tree, changed) <=>
            \E w \in DOMAIN tree : /\ Admitted(tree[w], changed)
                                   /\ \E j \in tree[w].jobs : x = <<w, j>>
  BY DEF GatingJobs, Admitted

LEMMA GitHubJobsOf ==
  ASSUME NEW tree, NEW changed, NEW x
  PROVE  x \in JobsGitHubRuns(tree, changed) <=>
            \E w \in DOMAIN tree : /\ tree[w] # Unparseable
                                   /\ Runs(tree[w], changed)
                                   /\ \E j \in tree[w].jobs : x = <<w, j>>
  BY DEF JobsGitHubRuns, Runs

-----------------------------------------------------------------------------
(* The state.                                                               *)

StateTypes ==
    /\ upstream \in [SubIds -> 1..Len(History)]
    /\ tracking \in [SubIds -> 1..Len(History)]
    /\ \A s \in SubIds : tracking[s] <= upstream[s]
    /\ branch \in [Branches -> [exists : BOOLEAN, at : 1..Len(History),
                                changed : SUBSET Files,
                                edits : Overlays \union {NoEdits}]]
    /\ \A b \in Branches : branch[b].at <= tracking[SubOf[b]]

\* What an answer with exit status 0 or 1 says, against upstream at master.
Reports(a, master) ==
    /\ a.exit = ExitCode(a.report)
    /\ \A b \in Branches : branch[b].exists =>
          /\ a.report[b] = Unseen(b, master[SubOf[b]])
          /\ Changed(b) # {} => /\ Parses(History[master[SubOf[b]]])
                                /\ Parses(Tree(b))

AnswerTypes ==
    \/ answer = NoAnswer
    \/ answer \in [exit : {2}, fetched : BOOLEAN]
    \/ answer \in [exit : {0, 1}, fetched : BOOLEAN, report : [Branches -> SUBSET AllJobs]]

\* A verdict is about every branch and about upstream as it is now.
VerdictIsCurrent == Verdict => Reports(answer, upstream)

IInv == StateTypes /\ AnswerTypes /\ VerdictIsCurrent

\* Steps other than a check forget the answer.
LEMMA ForgetStep ==
  ASSUME StateTypes, answer' = NoAnswer, StateTypes'
  PROVE  AnswerTypes'
  BY DEF AnswerTypes

LEMMA MoveStep ==
  ASSUME StateTypes, NEW s \in SubIds, UpstreamMoves(s)
  PROVE  StateTypes'
  <1>1. upstream[s] + 1 \in 1..Len(History)
    BY RegistryAssumption DEF StateTypes, UpstreamMoves
  <1>2. \A t \in SubIds : upstream[t] \in Nat /\ tracking[t] \in Nat
    BY DEF StateTypes
  <1> QED BY <1>1, <1>2 DEF StateTypes, UpstreamMoves

LEMMA BranchStep ==
  ASSUME StateTypes, NEW b \in Branches,
         \/ \E f \in Files : Commit(b, f)
         \/ \E e \in Overlays : EditWorkflows(b, e)
         \/ Delete(b)
  PROVE  StateTypes'
  <1>1. UNCHANGED <<upstream, tracking>>
    BY DEF Commit, EditWorkflows, Delete
  <1>2. \E row \in [exists : BOOLEAN, at : {branch[b].at}, changed : SUBSET Files,
                     edits : Overlays \union {NoEdits}] :
          branch' = [branch EXCEPT ![b] = row]
    BY DEF StateTypes, Commit, EditWorkflows, Delete
  <1> QED BY <1>1, <1>2 DEF StateTypes

LEMMA RebaseStep ==
  ASSUME StateTypes, NEW b \in Branches, Rebase(b)
  PROVE  StateTypes'
  <1>1. SubOf[b] \in SubIds
    BY RegistryAssumption
  <1>2. \A t \in SubIds : /\ upstream[t] \in 1..Len(History)
                           /\ tracking'[t] \in {tracking[t], upstream[t]}
                           /\ tracking[t] <= tracking'[t]
                           /\ tracking'[t] <= upstream[t]
    BY RegistryAssumption DEF StateTypes, Rebase
  <1>3. tracking'[SubOf[b]] = upstream[SubOf[b]]
    BY <1>1 DEF StateTypes, Rebase
  <1>4. /\ \A c \in Branches \ {b} : branch'[c] = branch[c]
        /\ branch'[b] = [branch[b] EXCEPT !.at = upstream[SubOf[b]]]
    BY DEF StateTypes, Rebase
  <1>5. tracking' \in [SubIds -> 1..Len(History)] /\ UNCHANGED upstream
    BY <1>1, <1>2 DEF StateTypes, Rebase
  <1>6. branch' \in [Branches -> [exists : BOOLEAN, at : 1..Len(History),
                                  changed : SUBSET Files,
                                  edits : Overlays \union {NoEdits}]]
    BY <1>1, <1>2 DEF StateTypes, Rebase
  <1>7. ASSUME NEW c \in Branches PROVE branch'[c].at <= tracking'[SubOf[c]]
    <2>1. /\ SubOf[c] \in SubIds
          /\ branch[c].at \in 1..Len(History)
          /\ branch[c].at <= tracking[SubOf[c]]
          /\ tracking[SubOf[c]] \in 1..Len(History)
      BY RegistryAssumption DEF StateTypes
    <2>2. CASE c = b
      <3>1. branch'[b].at = upstream[SubOf[b]]
        BY <1>4 DEF StateTypes
      <3> QED BY <1>2, <1>1, <1>3, <2>2, <3>1
    <2>3. CASE c # b
      BY <1>2, <1>4, <2>1, <2>3, <1>5
    <2> QED BY <2>2, <2>3
  <1>8. \A t \in SubIds : tracking'[t] <= upstream'[t]
    BY <1>2, <1>5
  <1> QED BY <1>5, <1>6, <1>7, <1>8 DEF StateTypes

\* A report names jobs of trees that parse.
LEMMA ReportIsTyped ==
  ASSUME StateTypes, NEW b \in Branches, NEW n \in 1..Len(History),
         Changed(b) # {} => Parses(History[n])
  PROVE  Unseen(b, n) \in SUBSET AllJobs
  <1> SUFFICES ASSUME NEW x \in Unseen(b, n) PROVE x \in AllJobs
    OBVIOUS
  <1>1. x \in GatingJobs(History[n], Changed(b)) /\ Changed(b) # {}
    BY DEF Unseen
  <1>2. PICK w \in DOMAIN History[n] : \E j \in History[n][w].jobs : x = <<w, j>>
    BY <1>1, GatingJobsOf
  <1>3. History[n][w] # Unparseable
    BY <1>1 DEF Parses
  <1>4. x \in Jobs(History[n])
    BY <1>2, <1>3 DEF Jobs
  <1> QED BY <1>4 DEF AllJobs, Trees

\* A check that nothing stops has reached every submodule.
LEMMA AllReached ==
  ASSUME NEW fetch, NEW cutOff,
         ~\E s \in Reached(fetch, cutOff) : Stops(s, fetch, cutOff)
  PROVE  \A s \in SubIds : ~Stops(s, fetch, cutOff)
  <1> DEFINE bad == {n \in 1..Len(Subs) : Stops(Subs[n], fetch, cutOff)}
  <1>1. bad = {}
    <2> SUFFICES ASSUME bad # {} PROVE FALSE
      OBVIOUS
    <2>1. bad \in SUBSET Nat
      OBVIOUS
    <2>2. PICK n \in bad : \A m \in bad : n <= m
      BY <2>1, Least
    <2>3. n \in 1..Len(Subs) /\ Stops(Subs[n], fetch, cutOff)
      OBVIOUS
    <2>4. \A m \in 1..(n - 1) : m \in 1..Len(Subs) /\ ~(n <= m)
      BY <2>3, RegistryAssumption
    <2>5. \A m \in 1..(n - 1) : ~Stops(Subs[m], fetch, cutOff)
      BY <2>2, <2>4
    <2>6. Subs[n] \in Reached(fetch, cutOff)
      BY <2>3, <2>5 DEF Reached
    <2> QED BY <2>3, <2>6
  <1> QED BY <1>1 DEF SubIds

\* What a check reads is between the refs it found and upstream.
LEMMA MasterIsRead ==
  ASSUME StateTypes, NEW fetch \in BOOLEAN, NEW s \in SubIds
  PROVE  /\ Master(s, fetch) \in 1..Len(History)
         /\ tracking[s] <= Master(s, fetch)
         /\ Master(s, fetch) <= upstream[s]
         /\ tracking[s] \in 1..Len(History)
  BY DEF StateTypes, Master

\* A check leaves the refs no older than they were and no newer than upstream.
LEMMA CheckFetches ==
  ASSUME StateTypes, NEW fetch \in BOOLEAN, NEW cutOff, Check(fetch, cutOff)
  PROVE  StateTypes'
  <1>1. UNCHANGED <<upstream, branch>>
    BY DEF Check
  <1>2. tracking' \in [SubIds -> 1..Len(History)]
    BY MasterIsRead DEF Check
  <1>3. ASSUME NEW s \in SubIds
        PROVE  tracking'[s] <= upstream[s] /\ tracking[s] <= tracking'[s]
    <2>1. tracking'[s] \in {tracking[s], Master(s, fetch)}
      BY DEF Check
    <2> QED BY <2>1, MasterIsRead DEF StateTypes
  <1>4. ASSUME NEW b \in Branches PROVE branch[b].at <= tracking'[SubOf[b]]
    <2>1. SubOf[b] \in SubIds
      BY RegistryAssumption
    <2>2. /\ branch[b].at \in Nat /\ tracking[SubOf[b]] \in Nat
          /\ tracking'[SubOf[b]] \in Nat
          /\ branch[b].at <= tracking[SubOf[b]]
      BY <1>2, <2>1 DEF StateTypes
    <2> QED BY <1>3, <2>1, <2>2
  <1> QED BY <1>1, <1>2, <1>3, <1>4 DEF StateTypes

\* ... and either exit status 2 or a report on every branch.
LEMMA CheckStep ==
  ASSUME StateTypes, NEW fetch \in BOOLEAN, NEW cutOff, Check(fetch, cutOff)
  PROVE  StateTypes' /\ AnswerTypes' /\ VerdictIsCurrent'
  <1>1. StateTypes'
    BY CheckFetches
  <1>2. CASE \E s \in Reached(fetch, cutOff) : Stops(s, fetch, cutOff)
    <2>1. answer' = [exit |-> 2, fetched |-> fetch]
      BY <1>2 DEF Check
    <2> QED BY <1>1, <2>1 DEF AnswerTypes, VerdictIsCurrent, Verdict
  <1>3. CASE ~\E s \in Reached(fetch, cutOff) : Stops(s, fetch, cutOff)
    <2>1. answer' = [exit |-> ExitCode(Report(fetch)), fetched |-> fetch,
                     report |-> Report(fetch)]
      BY <1>3 DEF Check
    <2>2. ASSUME NEW b \in Branches, branch[b].exists, Changed(b) # {}
          PROVE  Parses(History[Master(SubOf[b], fetch)]) /\ Parses(Tree(b))
      <3>1. SubOf[b] \in SubIds
        BY RegistryAssumption
      <3>2. ~Unreadable(SubOf[b], Master(SubOf[b], fetch))
        BY <1>3, <3>1, AllReached DEF Stops
      <3> QED BY <2>2, <3>2 DEF Unreadable, Registered
    <2>3. ASSUME NEW b \in Branches, branch[b].exists
          PROVE  Unseen(b, Master(SubOf[b], fetch)) \in SUBSET AllJobs
      <3>1. Master(SubOf[b], fetch) \in 1..Len(History)
        BY MasterIsRead, RegistryAssumption
      <3> QED BY <2>2, <2>3, <3>1, ReportIsTyped
    <2>4. Report(fetch) \in [Branches -> SUBSET AllJobs]
      BY <2>3 DEF Report
    <2>5. ExitCode(Report(fetch)) \in {0, 1}
      BY DEF ExitCode
    <2>6. AnswerTypes'
      BY <2>1, <2>4, <2>5 DEF AnswerTypes
    <2>7. ASSUME fetch PROVE Reports(answer', upstream)
      <3>1. answer'.exit = ExitCode(answer'.report) /\ answer'.report = Report(fetch)
        BY <2>1
      <3>2. \A b \in Branches : Master(SubOf[b], fetch) = upstream[SubOf[b]]
        BY <2>7 DEF Master
      <3> QED BY <2>2, <3>1, <3>2 DEF Reports, Report
    <2>8. Reports(answer', upstream) => Reports(answer, upstream)'
      BY DEF Check, Reports, ExitCode, Failures, Unseen, Changed, Tree
    <2>9. Verdict' => fetch
      BY <2>1 DEF Verdict
    <2> QED BY <1>1, <2>6, <2>7, <2>8, <2>9 DEF VerdictIsCurrent
  <1> QED BY <1>2, <1>3

LEMMA InitInv == Init => IInv
  BY RegistryAssumption DEF Init, IInv, StateTypes, AnswerTypes, VerdictIsCurrent, Verdict

\* The invariant the theorems rest on.
LEMMA Invariance == Spec => []IInv
  <1>1. ASSUME IInv, [Next]_vars PROVE IInv'
    <2>1. ASSUME answer' = NoAnswer, StateTypes' PROVE IInv'
      BY <2>1 DEF IInv, AnswerTypes, VerdictIsCurrent, Verdict
    <2>2. ASSUME NEW s \in SubIds, UpstreamMoves(s) PROVE IInv'
      BY <1>1, <2>1, <2>2, MoveStep DEF IInv, UpstreamMoves
    <2>3. ASSUME NEW b \in Branches,
                 \/ \E f \in Files : Commit(b, f)
                 \/ \E e \in Overlays : EditWorkflows(b, e)
                 \/ Delete(b)
          PROVE  IInv'
      <3>1. answer' = NoAnswer
        BY <2>3 DEF Commit, EditWorkflows, Delete
      <3> QED BY <1>1, <2>1, <2>3, <3>1, BranchStep DEF IInv
    <2>4. ASSUME NEW b \in Branches, Rebase(b) PROVE IInv'
      BY <1>1, <2>1, <2>4, RebaseStep DEF IInv, Rebase
    <2>5. ASSUME NEW fetch \in BOOLEAN, NEW cutOff \in SUBSET SubIds, Check(fetch, cutOff)
          PROVE  IInv'
      BY <1>1, <2>5, CheckStep DEF IInv
    <2>6. CASE UNCHANGED vars
      <3>1. /\ UNCHANGED upstream /\ UNCHANGED tracking
            /\ UNCHANGED branch /\ UNCHANGED answer
        BY <2>6 DEF vars
      <3> QED BY <1>1, <3>1 DEF IInv, StateTypes, AnswerTypes, VerdictIsCurrent, Verdict,
                                Reports, ExitCode, Failures, Unseen, Changed, Tree
    <2> QED BY <1>1, <2>2, <2>3, <2>4, <2>5, <2>6 DEF Next
  <1> QED BY InitInv, <1>1, PTL DEF Spec

\* The state of the check and of what it reads stays what TypeOK says.
THEOREM TypeCorrect == Spec => []TypeOK
  <1>1. IInv => TypeOK
    <2> SUFFICES ASSUME IInv PROVE TypeOK
      OBVIOUS
    <2>1. \A s \in SubIds : tracking[s] \in 1..upstream[s]
      BY DEF IInv, StateTypes
    <2> QED BY <2>1 DEF IInv, StateTypes, AnswerTypes, TypeOK
  <1> QED BY Invariance, <1>1, PTL

-----------------------------------------------------------------------------
(* What a verdict says.                                                     *)

\* What a branch changes, workflow by workflow.
LEMMA BranchReads ==
  ASSUME StateTypes, NEW b \in Branches
  PROVE  /\ Changed(b) \in SUBSET Names
         /\ branch[b].at \in 1..Len(History)
         /\ upstream[SubOf[b]] \in 1..Len(History)
         /\ branch[b].at <= upstream[SubOf[b]]
  <1>1. SubOf[b] \in SubIds
    BY RegistryAssumption
  <1>2. branch[b].edits \in Overlays \union {NoEdits} /\ branch[b].changed \in SUBSET Files
    BY DEF StateTypes
  <1>3. Changed(b) \in SUBSET Names
    BY <1>2 DEF Changed, Names
  <1>4. /\ branch[b].at \in 1..Len(History)
        /\ upstream[SubOf[b]] \in 1..Len(History)
        /\ tracking[SubOf[b]] \in 1..Len(History)
        /\ branch[b].at <= tracking[SubOf[b]]
        /\ tracking[SubOf[b]] <= upstream[SubOf[b]]
    BY <1>1 DEF StateTypes
  <1> QED BY <1>3, <1>4

LEMMA DocsOf ==
  ASSUME NEW n \in 1..Len(History), NEW w \in DOMAIN History[n],
         History[n][w] # Unparseable
  PROVE  History[n][w] \in Docs
  BY DEF Docs, Trees

\* A job only the merge would run, the check misses in the branch's own tree.
LEMMA GapIsReported ==
  ASSUME FiltersSettle, IInv, Verdict, NEW b \in Branches, branch[b].exists
  PROVE  Gap(b) \subseteq answer.report[b]
  <1> DEFINE changed == Changed(b)
             edits   == branch[b].edits
             up      == History[upstream[SubOf[b]]]
             base    == History[branch[b].at]
  <1> SUFFICES ASSUME NEW x \in Gap(b) PROVE x \in answer.report[b]
    OBVIOUS
  <1>1. /\ changed # {}
        /\ x \in JobsGitHubRuns(Over(edits, up), changed)
        /\ x \notin JobsGitHubRuns(Tree(b), changed)
    BY DEF Gap
  <1>2. /\ answer.report[b] = Unseen(b, upstream[SubOf[b]])
        /\ Parses(up) /\ Parses(Tree(b))
    BY <1>1 DEF IInv, VerdictIsCurrent, Reports
  <1>3. Tree(b) = Over(edits, base)
    BY DEF Tree
  <1>4. /\ changed \in SUBSET Names
        /\ branch[b].at \in 1..Len(History)
        /\ upstream[SubOf[b]] \in 1..Len(History)
        /\ branch[b].at <= upstream[SubOf[b]]
    BY BranchReads DEF IInv
  <1> HIDE DEF changed
  <1>5. PICK w \in DOMAIN Over(edits, up) :
            /\ Over(edits, up)[w] # Unparseable
            /\ Runs(Over(edits, up)[w], changed)
            /\ \E j \in Over(edits, up)[w].jobs : x = <<w, j>>
    BY <1>1, GitHubJobsOf
  <1>6. w \notin DOMAIN edits
    <2> SUFFICES ASSUME w \in DOMAIN edits PROVE FALSE
      OBVIOUS
    <2>1. w \in DOMAIN Tree(b) /\ Tree(b)[w] = Over(edits, up)[w]
      BY <1>3 DEF Over
    <2> QED BY <1>1, <1>5, <2>1, GitHubJobsOf
  <1>7. w \in DOMAIN up /\ Over(edits, up)[w] = up[w] /\ up[w] \in Docs
    <2>1. w \in DOMAIN up /\ Over(edits, up)[w] = up[w]
      BY <1>5, <1>6 DEF Over
    <2> QED BY <1>4, <1>5, <2>1, DocsOf
  <1>8. x \in GatingJobs(up, changed)
    <2>1. Admitted(up[w], changed)
      BY <1>1, <1>4, <1>5, <1>7, Readings
    <2> QED BY <1>5, <1>7, <2>1, GatingJobsOf
  <1>9. x \notin GatingJobs(Tree(b), changed)
    <2> SUFFICES ASSUME x \in GatingJobs(Tree(b), changed) PROVE FALSE
      OBVIOUS
    <2>1. PICK v \in DOMAIN Tree(b) : /\ Admitted(Tree(b)[v], changed)
                                      /\ \E j \in Tree(b)[v].jobs : x = <<v, j>>
      BY GatingJobsOf
    <2>2. v = w
      BY <1>5, <2>1
    <2>3. w \in DOMAIN base /\ Tree(b)[w] = base[w]
      BY <1>3, <1>6, <2>2 DEF Over
    <2>4. base[w] # Unparseable
      BY <1>2, <2>2, <2>3 DEF Parses
    <2>5. base[w] \in Docs
      BY <1>4, <2>3, <2>4, DocsOf
    <2>6. \/ Understood(base[w])
          \/ up[w] = base[w]
      BY <1>4, <2>3, <2>4 DEF FiltersSettle
    <2>7. Runs(base[w], changed)
      BY <1>1, <1>4, <1>5, <1>7, <2>1, <2>2, <2>3, <2>5, <2>6, Readings
    <2> QED BY <1>1, <2>1, <2>2, <2>3, <2>4, <2>7, GitHubJobsOf
  <1> QED BY <1>1, <1>2, <1>8, <1>9 DEF Unseen, changed

\* A job the check reports, the merge would run and the branch's tree would not.
LEMMA ReportIsGap ==
  ASSUME IInv, Verdict, NEW b \in Branches, branch[b].exists,
         branch[b].edits = NoEdits, Plain(Tree(b)), Plain(History[upstream[SubOf[b]]])
  PROVE  answer.report[b] \subseteq Gap(b)
  <1> DEFINE changed == Changed(b)
             edits   == branch[b].edits
             up      == History[upstream[SubOf[b]]]
             base    == History[branch[b].at]
  <1> SUFFICES ASSUME NEW x \in answer.report[b] PROVE x \in Gap(b)
    OBVIOUS
  <1>1. answer.report[b] = Unseen(b, upstream[SubOf[b]])
    BY DEF IInv, VerdictIsCurrent, Reports
  <1>2. /\ changed # {}
        /\ x \in GatingJobs(up, changed)
        /\ x \notin GatingJobs(Tree(b), changed)
    BY <1>1 DEF Unseen
  <1>3. Parses(up) /\ Parses(Tree(b))
    BY <1>2 DEF IInv, VerdictIsCurrent, Reports
  <1>4. /\ changed \in SUBSET Names
        /\ branch[b].at \in 1..Len(History)
        /\ upstream[SubOf[b]] \in 1..Len(History)
    BY BranchReads DEF IInv
  <1>5. DOMAIN edits = {}
    BY DEF NoEdits
  <1>6. /\ DOMAIN Over(edits, up) = DOMAIN up
        /\ \A w \in DOMAIN up : Over(edits, up)[w] = up[w]
        /\ DOMAIN Tree(b) = DOMAIN base
        /\ \A w \in DOMAIN base : Tree(b)[w] = base[w]
    BY <1>5 DEF Over, Tree
  <1> HIDE DEF changed, edits
  <1>7. x \in JobsGitHubRuns(Over(edits, up), changed)
    <2>1. PICK w \in DOMAIN up : /\ Admitted(up[w], changed)
                                 /\ \E j \in up[w].jobs : x = <<w, j>>
      BY <1>2, GatingJobsOf
    <2>2. up[w] # Unparseable
      BY <1>3 DEF Parses
    <2>3. up[w] \in Docs /\ Understood(up[w])
      BY <1>4, <2>2, DocsOf DEF Understood, Filters, Plain
    <2>4. Runs(up[w], changed)
      BY <1>2, <1>4, <2>1, <2>3, Readings
    <2> QED BY <1>6, <2>1, <2>2, <2>4, GitHubJobsOf
  <1>8. x \notin JobsGitHubRuns(Tree(b), changed)
    <2> SUFFICES ASSUME x \in JobsGitHubRuns(Tree(b), changed) PROVE FALSE
      OBVIOUS
    <2>1. PICK w \in DOMAIN Tree(b) : /\ Tree(b)[w] # Unparseable
                                      /\ Runs(Tree(b)[w], changed)
                                      /\ \E j \in Tree(b)[w].jobs : x = <<w, j>>
      BY GitHubJobsOf
    <2>2. Tree(b)[w] \in Docs
      BY <1>4, <1>6, <2>1, DocsOf
    <2>3. Admitted(Tree(b)[w], changed)
      BY <1>2, <1>4, <2>1, <2>2, Readings
    <2> QED BY <1>2, <2>1, <2>3, GatingJobsOf
  <1> QED BY <1>2, <1>7, <1>8 DEF Gap, changed, edits

\* Exit status 0 is about every branch: each exists, and none lacks a job.
LEMMA CleanIsWhole ==
  ASSUME IInv, Verdict, answer.exit = 0, NEW b \in Branches
  PROVE  branch[b].exists /\ answer.report[b] = {}
  <1>1. answer.exit = ExitCode(answer.report)
    BY DEF IInv, VerdictIsCurrent, Reports
  <1> QED BY <1>1 DEF ExitCode, Failures

\* Where no filter the check cannot read is later replaced upstream, a verdict
\* hides no job a pull request would run.
THEOREM JobsAreNotHidden ==
  ASSUME FiltersSettle
  PROVE  Spec => []NoJobIsHidden
  <1>1. IInv => NoJobIsHidden
    BY GapIsReported, CleanIsWhole DEF NoJobIsHidden
  <1> QED BY Invariance, <1>1, PTL

\* A verdict names no job that is not missing, for a branch without workflow
\* edits and filters without negation.
THEOREM ReportIsNotInvented == Spec => []NothingIsInvented
  <1>1. IInv => NothingIsInvented
    BY ReportIsGap DEF NothingIsInvented
  <1> QED BY Invariance, <1>1, PTL
=============================================================================
