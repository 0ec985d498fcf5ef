----------------------- MODULE FirmwareReleaseProofs -----------------------
(* Proofs about FirmwareRelease, for any variants, pins, sources, uploads of  *)
(* other jobs and number of runs: a manifest that passed the gate has one    *)
(* variant for every expected id; unless a fragment no expected job wrote    *)
(* was published under its tag, what a Release holds was built from its pin  *)
(* and passed the macro check and its manifest says what it holds; and a     *)
(* committed manifest stays good.                                            *)
EXTENDS FirmwareRelease, Induction

AllTrue == [m \in Macros |-> "true"]

FragmentOf(i, p, b) == Fragment(i, p, b, AllTrue)

VariantOf(i, p, b) == RenderVariant(FragmentOf(i, p, b), p)

\* The firmware b of variant i passed the macro check of a build of pin p.
Genuine(i, p, b) ==
    /\ b \in Firmwares
    /\ b.id = i
    /\ b.pin = p
    /\ VerifyCapabilities(Dumps(i, p))
    /\ \A m \in Macros : b[m] = Compiled(Source[p][i][m])

\* A manifest of pin p: one variant for each id, true of a genuine firmware.
IsManifest(variants, p) ==
    /\ \A i \in Ids : \E v \in variants : v.id = i
    /\ \A v, w \in variants : v.id = w.id => v = w
    /\ \A v \in variants :
          /\ v.id \in Ids
          /\ v = VariantOf(v.id, p, v.artifact_sha256)
          /\ Genuine(v.id, p, v.artifact_sha256)

\* A directory holds one genuine firmware for each variant, and its fragments
\* are exactly those of these.
Ships(p, dir) ==
    /\ \A i \in Ids : i \in DOMAIN dir.fw /\ Genuine(i, p, dir.fw[i])
    /\ {dir.frags[n] : n \in DOMAIN dir.frags} = {FragmentOf(i, p, dir.fw[i]) : i \in Ids}

Shipped == Ships(run.pin, dl)

\* The id the gate does not look at.
NoId == ""

\* A manifest of pin p that the gate let through, whoever wrote its fragments.
Gated(variants, p) ==
    /\ variants \subseteq Variants
    /\ \A v \in variants : v.download_url.tag = p /\ v.deprecated = FALSE
    /\ \A v, w \in variants : v.id = w.id /\ v.id # NoId => v = w
    /\ {v.id : v \in variants} \ {NoId} = Ids

\* Every asset of a Release of pin p that is there is what it should be.
Sound(p, assets) ==
    /\ \A i \in Ids : assets[i] # NoBytes => Genuine(i, p, assets[i])
    /\ assets[Manifest] # NoBytes => IsManifest(assets[Manifest], p)

\* The Release has a manifest, and each expected asset it names is served as it
\* says.
Serves(p, assets) ==
    /\ Gated(assets[Manifest], p)
    /\ \A v \in assets[Manifest] :
          v.download_url.asset \in Ids => assets[v.download_url.asset] = v.artifact_sha256

-----------------------------------------------------------------------------
(* The inductive invariant.                                                 *)

RunTypes ==
    /\ head \in [pin : Pins, moves : 0..MaxMoves]
    /\ run \in [step : {"build", "gate", "publish", "clobber", "done", "failed"},
                pin : Pins, republish : BOOLEAN,
                attempt : 0..MaxAttempts, count : 0..MaxRuns]
    /\ run.step # "done" => run.count > 0 /\ run.attempt > 0

JobTypes ==
    /\ job \in [Ids -> {"queued", "built", "firmware up", "ok", "failed"}]
    /\ made \in [Ids -> [fw : Files, frag : {NoBytes} \union Written]]
    /\ kept \in [fw : [Ids -> Files], frag : [Ids -> {NoBytes} \union Written]]

FileTypes ==
    /\ DOMAIN dl.fw \subseteq Assets /\ \A a \in DOMAIN dl.fw : dl.fw[a] \in Files
    /\ DOMAIN dl.frags \subseteq FragNames
    /\ \A n \in DOMAIN dl.frags : dl.frags[n] \in Written \union StrayFrags \union {NotJson}
    /\ local \in [Artifacts -> Files]
    /\ todo \subseteq Published
    /\ allowed \subseteq Pins
    /\ intruded \subseteq Pins

ReleaseTypes == release \in [Pins -> {NoRelease} \union ReleaseAssets]

Types == RunTypes /\ JobTypes /\ FileTypes /\ ReleaseTypes

\* What a job has verified, uploaded first, and uploaded last; a whole pair
\* may be gone again, one half may not.
JobInv(i) ==
    /\ job[i] \in {"built", "firmware up"} =>
          /\ run.step = "build"
          /\ Genuine(i, run.pin, made[i].fw)
          /\ made[i].frag = FragmentOf(i, run.pin, made[i].fw)
    /\ job[i] = "firmware up" => kept.fw[i] = made[i].fw
    /\ job[i] = "ok" =>
          \/ kept.fw[i] = NoBytes /\ kept.frag[i] = NoBytes
          \/ /\ Genuine(i, run.pin, kept.fw[i])
             /\ kept.frag[i] = FragmentOf(i, run.pin, kept.fw[i])

JobsInv == \A i \in Ids : JobInv(i)

\* The release job runs on finished builds, what it publishes has passed the
\* gate, and a fragment of another job's is on record before an overwrite.
DownloadInv ==
    /\ run.step \in {"gate", "publish", "clobber"} => \A i \in Ids : job[i] = "ok"
    /\ run.step \in {"publish", "clobber"} => GatePasses
    /\ run.step = "clobber" => OwnFragments \/ run.pin \in intruded

PermitInv ==
    /\ run.republish => run.pin \in allowed
    /\ run.step = "clobber" => run.republish /\ release[run.pin] \in ReleaseAssets

ReleaseInv ==
    \A p \in Pins : release[p] # NoRelease =>
        /\ release[p][Manifest] # NoBytes => Gated(release[p][Manifest], p)
        /\ p \notin intruded => Sound(p, release[p])
        /\ p \notin allowed => Serves(p, release[p])

\* Half an overwrite has replaced half of the assets; a run that is done has
\* left a Release that serves what its manifest says.
WholeInv ==
    /\ run.step = "clobber" => \A a \in Published \ todo : release[run.pin][a] = New(a)
    /\ run.step = "done" /\ run.count > 0 =>
          /\ release[run.pin] \in ReleaseAssets
          /\ Serves(run.pin, release[run.pin])

CommittedInv ==
    committed # {} =>
        \E p \in Pins :
            /\ Gated(committed, p)
            /\ p \notin intruded => IsManifest(committed, p)
            /\ p \notin allowed =>
                  release[p] # NoRelease /\ committed = release[p][Manifest]

IInv ==
    /\ Types
    /\ JobsInv
    /\ DownloadInv
    /\ PermitInv
    /\ ReleaseInv
    /\ WholeInv
    /\ CommittedInv

-----------------------------------------------------------------------------
(* What the operators give.                                                 *)

LEMMA ClaimedCapabilities ==
  /\ DOMAIN ParseCapabilities(AllTrue) = KnownCapabilities
  /\ \A m \in Macros : ParseCapabilities(AllTrue)[m] = "true"
  /\ ParseCapabilities(AllTrue)["f_back"] = "true"
  /\ ParseCapabilities(AllTrue)["set_local"] = "false"
  BY DEF ParseCapabilities, AllTrue, Macros, DefaultCapabilities, KnownCapabilities

LEMMA PrintedAllTrue ==
  ASSUME NEW i, NEW p, VerifyCapabilities(Dumps(i, p))
  PROVE  Printed(Dumps(i, p)) = AllTrue
  BY DEF VerifyCapabilities, Printed, AllTrue

LEMMA FragmentFields ==
  ASSUME NEW i, NEW p, NEW b
  PROVE  LET f == FragmentOf(i, p, b) IN
         /\ f.id = i
         /\ f.release_asset = i
         /\ f.artifact_sha256 = b
  BY DEF FragmentOf, Fragment

LEMMA PrintedIsTyped ==
  ASSUME NEW dumps PROVE Printed(dumps) \in [Macros -> {"true", "false"}]
  BY DEF Printed

\* What a job writes.
LEMMA FragmentIsWritten ==
  ASSUME NEW i \in Ids, NEW p \in Pins, NEW b \in Firmwares,
         NEW given \in [Macros -> {"true", "false"}]
  PROVE  Fragment(i, p, b, given) \in Written
  BY DEF Written

LEMMA VariantIsTyped ==
  ASSUME NEW i \in Ids, NEW p \in Pins, NEW b \in Firmwares
  PROVE  FragmentOf(i, p, b) \in Written /\ VariantOf(i, p, b) \in Variants
  <1>1. AllTrue \in [Macros -> {"true", "false"}]
    BY DEF AllTrue
  <1>2. FragmentOf(i, p, b) \in Written
    BY <1>1, FragmentIsWritten DEF FragmentOf
  <1> QED BY <1>2 DEF VariantOf, Variants

\* Assembling what shipped yields a manifest of the run's pin, true of it.
LEMMA ShippedManifest ==
  ASSUME Shipped
  PROVE  IsManifest(Assemble(dl.frags, run.pin), run.pin)
  <1> DEFINE new == Assemble(dl.frags, run.pin)
             var(i) == VariantOf(i, run.pin, dl.fw[i])
  <1>1. new = {var(i) : i \in Ids}
    BY DEF Shipped, Ships, Assemble, VariantOf
  <1>2. ASSUME NEW i \in Ids
        PROVE  var(i).id = i /\ var(i).artifact_sha256 = dl.fw[i]
    BY DEF VariantOf, FragmentOf, RenderVariant, Fragment
  <1> HIDE DEF new, var
  <1>3. \A i \in Ids : \E v \in new : v.id = i
    BY <1>1, <1>2
  <1>4. ASSUME NEW v \in new, NEW w \in new, v.id = w.id
        PROVE  v = w
    <2>1. PICK i \in Ids : v = var(i)
      BY <1>1
    <2>2. PICK j \in Ids : w = var(j)
      BY <1>1
    <2>3. i = j
      BY <1>2, <1>4, <2>1, <2>2
    <2> QED BY <2>1, <2>2, <2>3
  <1>5. \A v \in new : /\ v.id \in Ids
                       /\ v = VariantOf(v.id, run.pin, v.artifact_sha256)
                       /\ Genuine(v.id, run.pin, v.artifact_sha256)
    BY <1>1, <1>2 DEF var, Shipped, Ships
  <1> QED BY <1>3, <1>4, <1>5 DEF IsManifest, new

-----------------------------------------------------------------------------
(* The gate.                                                                *)

\* What the gate's three checks say of the directory.
LEMMA GateSays ==
  ASSUME GatePasses
  PROVE  /\ \A n \in DOMAIN dl.frags : dl.frags[n] # NotJson /\ "id" \in DOMAIN dl.frags[n]
         /\ \A n, m \in DOMAIN dl.frags :
               dl.frags[n].id = dl.frags[m].id /\ dl.frags[n].id # NoId => n = m
         /\ \A i \in Ids : i # NoId /\ \E n \in DOMAIN dl.frags : dl.frags[n].id = i
         /\ \A n \in DOMAIN dl.frags : dl.frags[n].id # NoId => dl.frags[n].id \in Ids
         /\ \A i \in Ids : i \in DOMAIN dl.fw
         /\ \A n \in DOMAIN dl.frags :
               /\ dl.frags[n].release_asset \in DOMAIN dl.fw
               /\ dl.fw[dl.frags[n].release_asset] = dl.frags[n].artifact_sha256
  <1>1. \A n \in DOMAIN dl.frags : dl.frags[n] # NotJson /\ "id" \in DOMAIN dl.frags[n]
    BY DEF GatePasses, CheckFragments, LoadFragments, ValidateFragment,
           RequiredFragmentFields
  <1>2. IdsMatch(dl.frags, Ids)
    BY DEF GatePasses, CheckFragments
  <1>3. Named(dl.frags) = {n \in DOMAIN dl.frags : dl.frags[n].id # NoId}
    BY <1>1 DEF Named, NoId
  <1> QED BY <1>1, <1>2, <1>3 DEF IdsMatch, GatePasses

\* A manifest assembled behind the gate has one variant for every expected id,
\* and the bytes beside it are those it names, whoever wrote the fragments.
LEMMA GateManifest ==
  ASSUME Types, GatePasses
  PROVE  LET new == Assemble(dl.frags, run.pin) IN
         /\ Gated(new, run.pin)
         /\ \A v \in new : dl.fw[v.download_url.asset] = v.artifact_sha256
  <1> DEFINE new == Assemble(dl.frags, run.pin)
             var(n) == RenderVariant(dl.frags[n], run.pin)
  <1>1. new = {var(n) : n \in DOMAIN dl.frags}
    BY DEF Assemble
  <1>2. \A n \in DOMAIN dl.frags :
          /\ var(n).id = dl.frags[n].id
          /\ var(n).artifact_sha256 = dl.frags[n].artifact_sha256
          /\ var(n).download_url.asset = dl.frags[n].release_asset
    BY DEF RenderVariant
  <1>3. ASSUME NEW n \in DOMAIN dl.frags
        PROVE  /\ var(n) \in Variants
               /\ var(n).deprecated = FALSE
               /\ var(n).download_url.tag = run.pin
    <2>1. dl.frags[n] \in Written \union StrayFrags /\ run.pin \in Pins
      BY GateSays DEF Types, FileTypes, RunTypes
    <2>2. var(n) \in Variants
      BY <2>1 DEF Variants
    <2>3. var(n).deprecated = FALSE /\ var(n).download_url.tag = run.pin
      BY DEF RenderVariant
    <2> QED BY <2>2, <2>3
  <1> HIDE DEF new, var
  <1>4. ASSUME NEW v \in new, NEW w \in new, v.id = w.id, v.id # NoId PROVE v = w
    <2>1. PICK n \in DOMAIN dl.frags : v = var(n)
      BY <1>1
    <2>2. PICK m \in DOMAIN dl.frags : w = var(m)
      BY <1>1
    <2>3. v.id = dl.frags[n].id /\ w.id = dl.frags[m].id
      BY <1>2, <2>1, <2>2
    <2>4. n = m
      BY <1>4, <2>3, GateSays
    <2> QED BY <2>1, <2>2, <2>4
  <1>5. {v.id : v \in new} \ {NoId} = Ids
    <2>1. {v.id : v \in new} = {dl.frags[n].id : n \in DOMAIN dl.frags}
      BY <1>1, <1>2
    <2>2. {dl.frags[n].id : n \in DOMAIN dl.frags} \ {NoId} = Ids
      BY GateSays
    <2> QED BY <2>1, <2>2
  <1>6. ASSUME NEW v \in new PROVE dl.fw[v.download_url.asset] = v.artifact_sha256
    <2>1. PICK n \in DOMAIN dl.frags : v = var(n)
      BY <1>1
    <2>2. dl.fw[dl.frags[n].release_asset] = dl.frags[n].artifact_sha256
      BY GateSays
    <2> QED BY <1>2, <2>1, <2>2
  <1>7. /\ new \subseteq Variants
        /\ \A v \in new : v.download_url.tag = run.pin /\ v.deprecated = FALSE
    BY <1>1, <1>3
  <1> QED BY <1>4, <1>5, <1>6, <1>7 DEF Gated, new

\* If the fragments are the jobs' own, what passes is what the jobs verified,
\* whatever the transfers, the retention and other jobs did to the firmware.
LEMMA GateIsSound ==
  ASSUME JobsInv, \A i \in Ids : job[i] = "ok", GatePasses, OwnFragments
  PROVE  Shipped
  <1>1. \A i \in Ids : kept.frag[i] # NoBytes =>
          /\ kept.frag[i].id = i
          /\ kept.frag[i].release_asset = i
          /\ kept.frag[i].artifact_sha256 = kept.fw[i]
          /\ Genuine(i, run.pin, kept.fw[i])
          /\ kept.frag[i] = FragmentOf(i, run.pin, kept.fw[i])
    <2>1. ASSUME NEW i \in Ids, kept.frag[i] # NoBytes
          PROVE  /\ Genuine(i, run.pin, kept.fw[i])
                 /\ kept.frag[i] = FragmentOf(i, run.pin, kept.fw[i])
      BY <2>1 DEF JobsInv, JobInv
    <2>2. \A i, b : LET f == FragmentOf(i, run.pin, b) IN
            f.id = i /\ f.release_asset = i /\ f.artifact_sha256 = b
      BY FragmentFields
    <2> QED BY <2>1, <2>2
  <1>2. \A n \in DOMAIN dl.frags : \E i \in Ids :
          kept.frag[i] # NoBytes /\ dl.frags[n] = kept.frag[i]
    BY DEF OwnFragments
  <1>3. ASSUME NEW i \in Ids
        PROVE  /\ kept.frag[i] # NoBytes
               /\ \E n \in DOMAIN dl.frags : dl.frags[n] = kept.frag[i]
    <2>1. PICK n \in DOMAIN dl.frags : dl.frags[n].id = i
      BY GateSays
    <2>2. PICK j \in Ids : kept.frag[j] # NoBytes /\ dl.frags[n] = kept.frag[j]
      BY <1>2
    <2>3. j = i
      BY <1>1, <2>1, <2>2
    <2> QED BY <2>2, <2>3
  <1>4. \A i \in Ids : dl.fw[i] = kept.fw[i]
    BY <1>1, <1>3, GateSays
  <1>5. \A i \in Ids : kept.frag[i] = FragmentOf(i, run.pin, dl.fw[i])
    BY <1>1, <1>3, <1>4
  <1>6. {dl.frags[n] : n \in DOMAIN dl.frags} = {FragmentOf(i, run.pin, dl.fw[i]) : i \in Ids}
    BY <1>2, <1>3, <1>5
  <1>7. \A i \in Ids : i \in DOMAIN dl.fw /\ Genuine(i, run.pin, dl.fw[i])
    BY <1>1, <1>3, <1>4, GateSays
  <1> QED BY <1>6, <1>7 DEF Shipped, Ships

-----------------------------------------------------------------------------
(* Types.                                                                   *)

LEMMA FirmwareIsTyped ==
  ASSUME RunTypes, run.step = "build", NEW i \in Ids
  PROVE  /\ Firmware(i, run.pin) \in Firmwares
         /\ VerifyCapabilities(Dumps(i, run.pin)) =>
               Genuine(i, run.pin, Firmware(i, run.pin))
  <1>1. \A d : Compiled(d) \in BOOLEAN
    BY DEF Compiled
  <1>2. run.pin \in Pins /\ run.attempt \in 1..MaxAttempts
    BY BoundsAssumption DEF RunTypes
  <1>4. Firmware(i, run.pin) \in Firmwares
    BY <1>1, <1>2 DEF Firmware, Firmwares
  <1> QED BY <1>4 DEF Genuine, Firmware, Macros

LEMMA RunTypesStep == RunTypes /\ [Next]_vars => RunTypes'
  <1> SUFFICES ASSUME RunTypes, [Next]_vars PROVE RunTypes'
    OBVIOUS
  <1> USE DEF RunTypes
  <1>1. CASE MovePin
    BY <1>1, BoundsAssumption DEF MovePin
  <1>2. ASSUME NEW r \in BOOLEAN, Dispatch(r) PROVE RunTypes'
    <2>1. /\ run.count + 1 \in 0..MaxRuns /\ run.count + 1 > 0
          /\ run.attempt + 1 \in 0..MaxAttempts /\ run.attempt + 1 > 0
      BY <1>2, BoundsAssumption DEF Dispatch
    <2> QED BY <1>2, <2>1 DEF Dispatch
  <1>3. CASE Rerun
    <2>1. run.attempt + 1 \in 0..MaxAttempts /\ run.attempt + 1 > 0
      BY <1>3, BoundsAssumption DEF Rerun
    <2>2. run' = [step |-> "build", pin |-> run.pin, republish |-> run.republish,
                  attempt |-> run.attempt + 1, count |-> run.count]
      BY <1>3 DEF Rerun
    <2>3. run.count > 0
      BY <1>3 DEF Rerun
    <2> QED BY <1>3, <2>1, <2>2, <2>3 DEF Rerun
  <1>4. CASE BuildsFail \/ Download \/ Gate \/ Create \/ PublishFails
               \/ Overwrite \/ EditRelease \/ ClobberFails
    <2>1. /\ UNCHANGED head
          /\ \E step \in {"gate", "publish", "clobber", "done", "failed"} :
                 run' = [run EXCEPT !.step = step]
          /\ run.step # "done"
      BY <1>4 DEF BuildsFail, Download, Gate, Create, PublishFails, Overwrite,
                  EditRelease, ClobberFails
    <2> QED BY <2>1
  <1>5. CASE UNCHANGED <<head, run>>
    BY <1>5
  <1>6. ASSUME NEW i \in Ids,
               Build(i) \/ UploadFirmware(i) \/ UploadFragment(i) \/ JobFails(i) \/ Expire(i)
        PROVE  UNCHANGED <<head, run>>
    BY <1>6 DEF Build, UploadFirmware, UploadFragment, JobFails, Expire
  <1>7. ASSUME NEW a \in Published, Clobber(a) PROVE UNCHANGED <<head, run>>
    BY <1>7 DEF Clobber
  <1>8. ASSUME Host PROVE UNCHANGED <<head, run>>
    BY <1>8 DEF Host, CommitManifest, Fetch, Select
  <1> QED
    BY <1>1, <1>2, <1>3, <1>4, <1>5, <1>6, <1>7, <1>8 DEF Next, Workflow, vars

LEMMA JobTypesStep == Types /\ [Next]_vars => JobTypes'
  <1> SUFFICES ASSUME Types, [Next]_vars PROVE JobTypes'
    OBVIOUS
  <1> USE DEF Types, JobTypes
  <1>1. [fw |-> NoBytes, frag |-> NoBytes] \in [fw : Files, frag : {NoBytes} \union Written]
    BY DEF Files
  <1>2. ASSUME NEW r \in BOOLEAN, Dispatch(r) PROVE JobTypes'
    BY <1>1, <1>2 DEF Dispatch, NothingMade, NothingKept, Nothing
  <1>3. CASE Rerun
    BY <1>3 DEF Rerun
  <1>4. ASSUME NEW i \in Ids, Build(i) PROVE JobTypes'
    <2> DEFINE fw   == Firmware(i, run.pin)
               frag == Fragment(i, run.pin, fw, Printed(Dumps(i, run.pin)))
    <2>1. fw \in Firmwares /\ run.pin \in Pins
      BY <1>4, FirmwareIsTyped DEF Build, RunTypes
    <2>2. Printed(Dumps(i, run.pin)) \in [Macros -> {"true", "false"}]
      BY PrintedIsTyped
    <2>3. frag \in Written
      BY <2>1, <2>2, FragmentIsWritten
    <2>4. [fw |-> fw, frag |-> frag] \in [fw : Files, frag : {NoBytes} \union Written]
      BY <2>1, <2>3 DEF Files
    <2> HIDE DEF fw, frag
    <2>5. /\ UNCHANGED kept
          /\ \/ /\ made' = [made EXCEPT ![i] = [fw |-> fw, frag |-> frag]]
                /\ job' = [job EXCEPT ![i] = "built"]
             \/ made' = made /\ job' = [job EXCEPT ![i] = "failed"]
      BY <1>4, Zenon DEF Build, fw, frag
    <2> QED BY <2>4, <2>5
  <1>5. ASSUME NEW i \in Ids, UploadFirmware(i) PROVE JobTypes'
    BY <1>5 DEF UploadFirmware
  <1>6. ASSUME NEW i \in Ids, UploadFragment(i) PROVE JobTypes'
    BY <1>1, <1>6 DEF UploadFragment, Nothing
  <1>7. ASSUME NEW i \in Ids, JobFails(i) PROVE JobTypes'
    BY <1>1, <1>7 DEF JobFails, Nothing
  <1>8. ASSUME NEW i \in Ids, Expire(i) PROVE JobTypes'
    BY <1>8 DEF Expire, Files
  <1>9. CASE UNCHANGED <<job, made, kept>>
    BY <1>9
  <1>10. CASE MovePin \/ BuildsFail \/ Download \/ Gate \/ Create \/ PublishFails
                \/ Overwrite \/ EditRelease \/ ClobberFails \/ Host
                \/ (\E a \in Published : Clobber(a))
    BY <1>9, <1>10 DEF MovePin, BuildsFail, Download, Gate, Create, PublishFails,
       Overwrite, EditRelease, ClobberFails, Clobber, Host, CommitManifest, Fetch,
       Select, build
  <1> QED
    BY <1>2, <1>3, <1>4, <1>5, <1>6, <1>7, <1>8, <1>9, <1>10
       DEF Next, Workflow, vars, build

\* Every variant of a manifest has its firmware for digest.
LEMMA ManifestFields ==
  ASSUME NEW S, NEW p \in Pins, IsManifest(S, p), NEW v \in S
  PROVE  /\ v.id \in Ids
         /\ v.artifact = v.id
         /\ v.board = v.id
         /\ v.artifact_sha256 \in Firmwares
         /\ v.download_url.tag = p
         /\ v.download_url.asset = v.id
         /\ v.source_commit = p
         /\ v.deprecated = FALSE
         /\ v.capabilities = ParseCapabilities(AllTrue)
         /\ v \in Variants
  <1> DEFINE w == VariantOf(v.id, p, v.artifact_sha256)
  <1>1. v = w /\ v.id \in Ids /\ v.artifact_sha256 \in Firmwares
    BY DEF IsManifest, Genuine
  <1>2. /\ w.artifact = v.id
        /\ w.board = v.id
        /\ w.download_url.tag = p
        /\ w.download_url.asset = v.id
        /\ w.source_commit = p
        /\ w.deprecated = FALSE
        /\ w.capabilities = ParseCapabilities(AllTrue)
    BY DEF VariantOf, FragmentOf, RenderVariant, Fragment
  <1>3. w \in Variants
    BY <1>1, VariantIsTyped
  <1> HIDE DEF w
  <1> QED BY <1>1, <1>2, <1>3

\* What the gate let through names files below FIRMWARE_DIR and their digests.
LEMMA VariantNamesFiles ==
  ASSUME NEW v \in Variants
  PROVE  v.artifact_sha256 \in Files
  <1>1. PICK f \in Written \union StrayFrags, p \in Pins : v = RenderVariant(f, p)
    BY DEF Variants
  <1>2. v.artifact_sha256 = f.artifact_sha256
    BY <1>1 DEF RenderVariant
  <1>3. CASE f \in Written
    <2>1. f.artifact_sha256 \in Firmwares
      BY <1>3 DEF Written, Fragment
    <2> QED BY <1>2, <2>1 DEF Files
  <1>4. CASE f \in StrayFrags
    BY <1>2, <1>4 DEF StrayFrags, Files
  <1> QED BY <1>1, <1>3, <1>4

LEMMA MergedIs ==
  ASSUME NEW sent, NEW garbled, NEW dir \in Merged(sent, garbled)
  PROVE  /\ DOMAIN dir \subseteq DOMAIN sent
         /\ \A n \in DOMAIN dir : dir[n] \in sent[n] \union {garbled}
  BY DEF Merged

LEMMA FileTypesStep == IInv /\ [Next]_vars => FileTypes'
  <1> SUFFICES ASSUME IInv, [Next]_vars PROVE FileTypes'
    OBVIOUS
  <1> USE DEF IInv, Types, FileTypes
  <1>1. DOMAIN EmptyDl.fw = {} /\ DOMAIN EmptyDl.frags = {}
    BY DEF EmptyDl
  <1>2. CASE UNCHANGED <<dl, local, todo, past>>
    BY <1>2 DEF past
  <1>3. ASSUME NEW r \in BOOLEAN, Dispatch(r) PROVE FileTypes'
    BY <1>3 DEF Dispatch, RunTypes, host
  <1>4. CASE Download
    <2>1. PICK stray \in Strays :
          \E fw \in Merged([a \in Assets |-> Uploaded(stray, a)], Garbled),
             frags \in Merged([n \in FragNames |-> SentFragments(stray, n)], NotJson) :
             dl' = [fw |-> fw, frags |-> frags]
      BY <1>4 DEF Download
    <2>2. \A s \in stray : s \in Uploads
      BY DEF Uploads
    <2>3. PICK fw \in Merged([a \in Assets |-> Uploaded(stray, a)], Garbled),
               frags \in Merged([n \in FragNames |-> SentFragments(stray, n)], NotJson) :
               dl' = [fw |-> fw, frags |-> frags]
      BY <2>1
    <2>4. /\ DOMAIN fw \subseteq Assets
          /\ \A a \in DOMAIN fw : fw[a] \in Uploaded(stray, a) \union {Garbled}
          /\ DOMAIN frags \subseteq FragNames
          /\ \A n \in DOMAIN frags : frags[n] \in SentFragments(stray, n) \union {NotJson}
      <3>1. /\ DOMAIN fw \subseteq DOMAIN [a \in Assets |-> Uploaded(stray, a)]
            /\ \A a \in DOMAIN fw :
                  fw[a] \in [b \in Assets |-> Uploaded(stray, b)][a] \union {Garbled}
        BY MergedIs
      <3>2. /\ DOMAIN frags \subseteq DOMAIN [n \in FragNames |-> SentFragments(stray, n)]
            /\ \A n \in DOMAIN frags :
                  frags[n] \in [m \in FragNames |-> SentFragments(stray, m)][n] \union {NotJson}
        BY MergedIs
      <3> QED BY <3>1, <3>2
    <2>5. ASSUME NEW a PROVE Uploaded(stray, a) \subseteq Files
      <3>1. \A i \in Ids : kept.fw[i] \in Files
        BY DEF JobTypes
      <3>2. \A s \in stray : s.bytes \in Files
        BY <2>2 DEF Files
      <3> QED BY <3>1, <3>2 DEF Uploaded
    <2>6. ASSUME NEW n PROVE SentFragments(stray, n) \subseteq Written \union StrayFrags
      <3>1. \A i \in Ids : kept.frag[i] \in {NoBytes} \union Written
        BY DEF JobTypes
      <3>2. \A s \in stray : s.frag \in StrayFrags
        BY <2>2 DEF StrayFrags
      <3> QED BY <3>1, <3>2 DEF SentFragments
    <2>7. Garbled \in Files
      BY DEF Files
    <2>8. UNCHANGED <<local, todo, allowed, intruded>>
      BY <1>4 DEF Download, host, past
    <2>9. dl'.fw = fw /\ dl'.frags = frags
      BY <2>3
    <2>10. /\ DOMAIN dl'.fw \subseteq Assets
           /\ \A a \in DOMAIN dl'.fw : dl'.fw[a] \in Files
      BY <2>4, <2>5, <2>7, <2>9
    <2>11. /\ DOMAIN dl'.frags \subseteq FragNames
           /\ \A n \in DOMAIN dl'.frags :
                 dl'.frags[n] \in Written \union StrayFrags \union {NotJson}
      BY <2>4, <2>6, <2>9
    <2> QED BY <2>8, <2>10, <2>11
  <1>5. CASE Gate \/ Create \/ PublishFails \/ EditRelease \/ ClobberFails
    <2>1. /\ UNCHANGED <<local, allowed>>
          /\ dl' \in {dl, EmptyDl}
          /\ todo' \in {todo, {}}
          /\ intruded' \in {intruded, intruded \union {run.pin}}
      BY <1>5 DEF Gate, Create, PublishFails, EditRelease, ClobberFails, Recorded, host, past
    <2>2. run.pin \in Pins
      BY DEF RunTypes
    <2> QED BY <1>1, <2>1, <2>2
  <1>6. CASE Overwrite
    <2>1. run.pin \in Pins
      BY DEF RunTypes
    <2> QED BY <1>6, <2>1 DEF Overwrite, Recorded, build, host
  <1>7. ASSUME NEW a \in Published, Clobber(a) PROVE FileTypes'
    BY <1>7 DEF Clobber, build, host, past
  <1>8. ASSUME NEW v \in committed, Place(v) PROVE local' \in [Artifacts -> Files]
    <2>1. v.artifact_sha256 \in Files
      BY VariantNamesFiles DEF CommittedInv, Gated
    <2> QED BY <1>8, <2>1 DEF Place
  <1>9. ASSUME NEW v \in committed, Fetch(v) PROVE FileTypes'
    BY <1>8, <1>9 DEF Fetch, build, past
  <1>10. ASSUME NEW need \in Needs, NEW board \in Ids \union {AnyBoard}, Select(need, board)
         PROVE  FileTypes'
    <2>1. local' \in [Artifacts -> Files]
      BY <1>8, <1>10 DEF Select, Selectable, Matches
    <2> QED BY <1>10, <2>1 DEF Select, build, past
  <1>11. ASSUME \/ MovePin \/ Rerun \/ BuildsFail
                \/ \E i \in Ids : \/ Build(i) \/ UploadFirmware(i)
                                  \/ UploadFragment(i) \/ JobFails(i) \/ Expire(i)
                \/ \E p \in Pins : CommitManifest(p)
         PROVE  FileTypes'
    BY <1>2, <1>11 DEF MovePin, Rerun, BuildsFail, Build, UploadFirmware,
       UploadFragment, JobFails, Expire, CommitManifest, build, host
  <1> QED
    BY <1>2, <1>3, <1>4, <1>5, <1>6, <1>7, <1>9, <1>10, <1>11
       DEF Next, Workflow, Host, vars, build, host

\* What a Release is given: expected assets that are there, and a manifest that
\* says what they are.
LEMMA NewIsGood ==
  ASSUME Types, GatePasses
  PROVE  /\ \A i \in Ids : New(i) = dl.fw[i]
         /\ Gated(New(Manifest), run.pin)
         /\ \A v \in New(Manifest) :
               v.download_url.asset \in Ids => New(v.download_url.asset) = v.artifact_sha256
         /\ \A a \in Published : New(a) \in Files \union SUBSET Variants
  <1>1. \A i \in Ids : New(i) = dl.fw[i]
    BY IdsAssumption DEF New
  <1>2. New(Manifest) = Assemble(dl.frags, run.pin)
    BY DEF New
  <1>3. /\ Gated(New(Manifest), run.pin)
        /\ \A v \in New(Manifest) : dl.fw[v.download_url.asset] = v.artifact_sha256
    BY <1>2, GateManifest
  <1>4. \A i \in Ids : New(i) \in Files
    BY <1>1, GateSays DEF Types, FileTypes
  <1> QED BY <1>1, <1>3, <1>4 DEF Published, Gated

\* ... and, if the fragments are the jobs' own, genuine.
LEMMA NewIsGenuine ==
  ASSUME Types, Shipped
  PROVE  /\ \A i \in Ids : Genuine(i, run.pin, New(i))
         /\ IsManifest(New(Manifest), run.pin)
  <1>1. \A i \in Ids : New(i) = dl.fw[i]
    BY IdsAssumption DEF New
  <1>2. New(Manifest) = Assemble(dl.frags, run.pin)
    BY DEF New
  <1> QED BY <1>1, <1>2, ShippedManifest DEF Shipped, Ships

LEMMA ReleaseTypesStep == IInv /\ [Next]_vars => ReleaseTypes' /\ PermitInv'
  <1> SUFFICES ASSUME IInv, [Next]_vars PROVE ReleaseTypes' /\ PermitInv'
    OBVIOUS
  <1> USE DEF IInv, Types
  <1>1. run.pin \in Pins
    BY DEF RunTypes
  <1>2. ASSUME NEW r \in BOOLEAN, Dispatch(r) PROVE ReleaseTypes' /\ PermitInv'
    BY <1>2 DEF Dispatch, RunTypes, ReleaseTypes, PermitInv
  <1>3. CASE Create
    <2>1. [a \in Published |-> New(a)] \in ReleaseAssets
      BY <1>3, NewIsGood DEF Create, DownloadInv, ReleaseAssets
    <2>2. /\ release' = [release EXCEPT ![run.pin] = [a \in Published |-> New(a)]]
          /\ run'.step = "done" /\ run'.republish = run.republish /\ run'.pin = run.pin
          /\ UNCHANGED allowed
      BY <1>3 DEF Create, Recorded, RunTypes
    <2> QED BY <1>1, <2>1, <2>2 DEF ReleaseTypes, PermitInv
  <1>4. CASE Overwrite
    <2>1. /\ UNCHANGED <<release, allowed>>
          /\ run'.republish = run.republish /\ run'.pin = run.pin
          /\ run.republish
          /\ release[run.pin] # NoRelease
      BY <1>4 DEF Overwrite, Recorded, RunTypes
    <2> QED BY <1>1, <2>1 DEF ReleaseTypes, PermitInv
  <1>5. ASSUME NEW a \in Published, Clobber(a) PROVE ReleaseTypes' /\ PermitInv'
    <2>1. New(a) \in Files \union SUBSET Variants
      BY <1>5, NewIsGood DEF Clobber, DownloadInv
    <2>2. release[run.pin] \in ReleaseAssets
      BY <1>5 DEF Clobber, PermitInv
    <2>3. [release[run.pin] EXCEPT ![a] = New(a)] \in ReleaseAssets
      BY <2>1, <2>2 DEF ReleaseAssets
    <2>4. /\ release' = [release EXCEPT ![run.pin] = [release[run.pin] EXCEPT ![a] = New(a)]]
          /\ UNCHANGED <<run, allowed>>
      BY <1>5 DEF Clobber, past
    <2> QED BY <1>1, <2>3, <2>4 DEF ReleaseTypes, PermitInv
  <1>6. CASE ClobberFails
    <2> DEFINE left(gone) ==
                 [a \in Published |-> IF a \in gone THEN NoBytes ELSE release[run.pin][a]]
    <2>1. release[run.pin] \in ReleaseAssets
      BY <1>6 DEF ClobberFails, PermitInv
    <2>2. PICK gone : release' = [release EXCEPT ![run.pin] = left(gone)]
      BY <1>6, <1>1 DEF ClobberFails, ReleaseTypes
    <2>3. left(gone) \in ReleaseAssets
      BY <2>1 DEF ReleaseAssets, Files
    <2> HIDE DEF left
    <2>4. run'.step = "failed" /\ run'.republish = run.republish /\ run'.pin = run.pin
          /\ UNCHANGED allowed
      BY <1>6 DEF ClobberFails, RunTypes, past
    <2> QED BY <1>1, <2>2, <2>3, <2>4 DEF ReleaseTypes, PermitInv
  <1>7. CASE Rerun \/ BuildsFail \/ Download \/ Gate \/ PublishFails \/ EditRelease
    <2>1. /\ UNCHANGED <<release, allowed>>
          /\ run'.step # "clobber" /\ run'.republish = run.republish /\ run'.pin = run.pin
      BY <1>7 DEF Rerun, BuildsFail, Download, Gate, PublishFails, EditRelease, RunTypes, past
    <2> QED BY <2>1 DEF ReleaseTypes, PermitInv
  <1>8. CASE UNCHANGED <<run, release, allowed>>
    BY <1>8 DEF ReleaseTypes, PermitInv
  <1>9. ASSUME \/ MovePin
               \/ \E i \in Ids : \/ Build(i) \/ UploadFirmware(i)
                                 \/ UploadFragment(i) \/ JobFails(i) \/ Expire(i)
               \/ Host
        PROVE  UNCHANGED <<run, release, allowed>>
    BY <1>9 DEF MovePin, Build, UploadFirmware, UploadFragment, JobFails, Expire,
       Host, CommitManifest, Fetch, Select, past
  <1> QED
    BY <1>2, <1>3, <1>4, <1>5, <1>6, <1>7, <1>8, <1>9 DEF Next, Workflow, vars, past

-----------------------------------------------------------------------------
(* The jobs, the download, the Releases and the committed manifest.         *)

\* Steps that leave the jobs and the pin of the run alone, outside "build" or
\* while no job is half way.
LEMMA JobsQuiet ==
  ASSUME JobsInv, UNCHANGED <<job, made, kept>>, run'.pin = run.pin,
         \/ run'.step = run.step
         \/ run.step # "build"
         \/ \A i \in Ids : job[i] \in {"ok", "failed"}
  PROVE  JobsInv'
  BY DEF JobsInv, JobInv

LEMMA JobsStep == IInv /\ [Next]_vars => JobsInv'
  <1> SUFFICES ASSUME IInv, [Next]_vars PROVE JobsInv'
    OBVIOUS
  <1> USE DEF IInv, Types
  <1>1. ASSUME NEW r \in BOOLEAN, Dispatch(r) PROVE JobsInv'
    BY <1>1 DEF Dispatch, JobsInv, JobInv
  <1>2. CASE Rerun
    <2>1. /\ UNCHANGED <<made, kept>>
          /\ run'.pin = run.pin
          /\ \A i \in Ids : job[i] \notin {"built", "firmware up"}
      BY <1>2 DEF Rerun, RunTypes, JobsInv, JobInv
    <2>2. \A i \in Ids : job'[i] \in {"queued", job[i]}
      BY <1>2 DEF Rerun
    <2> QED BY <2>1, <2>2 DEF JobsInv, JobInv
  <1>3. ASSUME NEW i \in Ids, Build(i) PROVE JobsInv'
    <2> DEFINE fw == Firmware(i, run.pin)
    <2>1. CASE VerifyCapabilities(Dumps(i, run.pin))
      <3>1. Genuine(i, run.pin, fw)
        BY <1>3, <2>1, FirmwareIsTyped DEF Build
      <3>2. /\ made' = [made EXCEPT ![i] = [fw |-> fw, frag |-> FragmentOf(i, run.pin, fw)]]
            /\ job' = [job EXCEPT ![i] = "built"]
            /\ run.step = "build"
            /\ UNCHANGED <<run, kept>>
        BY <1>3, <2>1, PrintedAllTrue DEF Build, FragmentOf
      <3> HIDE DEF fw
      <3>3. ASSUME NEW j \in Ids PROVE JobInv(j)'
        BY <3>1, <3>2 DEF JobsInv, JobInv, JobTypes
      <3> QED BY <3>3 DEF JobsInv
    <2>2. CASE ~VerifyCapabilities(Dumps(i, run.pin))
      <3>1. job' = [job EXCEPT ![i] = "failed"] /\ UNCHANGED <<run, made, kept>>
        BY <1>3, <2>2 DEF Build
      <3> QED BY <3>1 DEF JobsInv, JobInv, JobTypes
    <2> QED BY <2>1, <2>2
  <1>4. ASSUME NEW i \in Ids, UploadFirmware(i) PROVE JobsInv'
    <2>1. ASSUME NEW j \in Ids PROVE JobInv(j)'
      BY <1>4 DEF UploadFirmware, JobsInv, JobInv, JobTypes
    <2> QED BY <2>1 DEF JobsInv
  <1>5. ASSUME NEW i \in Ids, UploadFragment(i) PROVE JobsInv'
    <2>1. ASSUME NEW j \in Ids PROVE JobInv(j)'
      BY <1>5 DEF UploadFragment, JobsInv, JobInv, JobTypes
    <2> QED BY <2>1 DEF JobsInv
  <1>6. ASSUME NEW i \in Ids, JobFails(i) PROVE JobsInv'
    <2>1. ASSUME NEW j \in Ids PROVE JobInv(j)'
      BY <1>6 DEF JobFails, JobsInv, JobInv, JobTypes
    <2> QED BY <2>1 DEF JobsInv
  <1>7. ASSUME NEW i \in Ids, Expire(i) PROVE JobsInv'
    <2>1. ASSUME NEW j \in Ids PROVE JobInv(j)'
      BY <1>7 DEF Expire, JobsInv, JobInv, JobTypes
    <2> QED BY <2>1 DEF JobsInv
  <1>8. CASE BuildsFail
    BY <1>8, JobsQuiet DEF BuildsFail, build, RunTypes
  <1>9. CASE Download
    BY <1>9, JobsQuiet DEF Download, build, RunTypes
  <1>10. CASE Gate \/ Create \/ PublishFails \/ Overwrite \/ EditRelease \/ ClobberFails
    <2>1. UNCHANGED <<job, made, kept>> /\ run'.pin = run.pin /\ run.step # "build"
      BY <1>10 DEF Gate, Create, PublishFails, Overwrite, EditRelease, ClobberFails,
         build, RunTypes
    <2> QED BY <2>1, JobsQuiet
  <1>11. CASE UNCHANGED <<run, build>>
    BY <1>11, JobsQuiet DEF build
  <1>12. ASSUME MovePin \/ Host \/ (\E a \in Published : Clobber(a))
         PROVE  UNCHANGED <<run, build>>
    BY <1>12 DEF MovePin, Clobber, Host, CommitManifest, Fetch, Select
  <1> QED
    BY <1>1, <1>2, <1>3, <1>4, <1>5, <1>6, <1>7, <1>8, <1>9, <1>10, <1>11, <1>12
       DEF Next, Workflow, vars

\* Steps after which the release job still stands where it stood.
LEMMA DownloadQuiet ==
  ASSUME DownloadInv, UNCHANGED <<run, dl, intruded>>,
         run.step \in {"gate", "publish", "clobber"} => UNCHANGED <<job, kept>>
  PROVE  DownloadInv'
  BY DEF DownloadInv, GatePasses, OwnFragments

LEMMA DownloadStep == IInv /\ [Next]_vars => DownloadInv'
  <1> SUFFICES ASSUME IInv, [Next]_vars PROVE DownloadInv'
    OBVIOUS
  <1> USE DEF IInv, Types
  <1>1. CASE Download
    <2>1. run'.step = "gate" /\ UNCHANGED job /\ \A i \in Ids : job[i] = "ok"
      BY <1>1 DEF Download, RunTypes, build
    <2> QED BY <2>1 DEF DownloadInv
  <1>2. CASE Gate
    <2>1. CASE GatePasses
      <3>1. /\ run'.step = "publish" /\ run.step = "gate"
            /\ UNCHANGED <<dl, job>>
        BY <1>2, <2>1 DEF Gate, RunTypes, build
      <3>2. GatePasses'
        BY <2>1, <3>1 DEF GatePasses
      <3> QED BY <3>1, <3>2 DEF DownloadInv
    <2>2. CASE ~GatePasses
      <3>1. run'.step = "failed"
        BY <1>2, <2>2 DEF Gate, RunTypes
      <3> QED BY <3>1 DEF DownloadInv
    <2> QED BY <2>1, <2>2
  <1>3. CASE Overwrite
    <2>1. /\ run'.step = "clobber" /\ run'.pin = run.pin
          /\ UNCHANGED <<dl, job, kept>>
          /\ run.step = "publish"
          /\ intruded' = intruded \union (IF OwnFragments THEN {} ELSE {run.pin})
      BY <1>3 DEF Overwrite, Recorded, RunTypes, build
    <2>2. GatePasses' /\ (OwnFragments' <=> OwnFragments)
      BY <2>1 DEF DownloadInv, GatePasses, OwnFragments
    <2> QED BY <2>1, <2>2 DEF DownloadInv
  <1>4. CASE Rerun \/ BuildsFail \/ Create \/ PublishFails \/ EditRelease \/ ClobberFails
    <2>1. run'.step \in {"build", "failed", "done"}
      BY <1>4 DEF Rerun, BuildsFail, Create, PublishFails, EditRelease,
         ClobberFails, RunTypes
    <2> QED BY <2>1 DEF DownloadInv
  <1>5. ASSUME NEW i \in Ids,
               Build(i) \/ UploadFirmware(i) \/ UploadFragment(i) \/ JobFails(i) \/ Expire(i)
        PROVE  DownloadInv'
    <2>1. UNCHANGED <<run, dl, intruded>>
      BY <1>5 DEF Build, UploadFirmware, UploadFragment, JobFails, Expire, past
    <2>2. run.step \notin {"gate", "publish", "clobber"}
      BY <1>5 DEF Build, UploadFirmware, UploadFragment, JobFails, Expire,
         DownloadInv
    <2> QED BY <2>1, <2>2, DownloadQuiet
  <1>6. CASE UNCHANGED <<run, dl, job, kept, intruded>>
    BY <1>6, DownloadQuiet
  <1>7. ASSUME MovePin \/ Host \/ \E a \in Published : Clobber(a)
        PROVE  UNCHANGED <<run, dl, job, kept, intruded>>
    BY <1>7 DEF MovePin, Clobber, Host, CommitManifest, Fetch, Select, build, past
  <1>8. ASSUME NEW r \in BOOLEAN, Dispatch(r) PROVE DownloadInv'
    BY <1>8 DEF Dispatch, DownloadInv
  <1> QED
    BY <1>1, <1>2, <1>3, <1>4, <1>5, <1>6, <1>7, <1>8
       DEF Next, Workflow, vars, build, past

\* A Release made of new assets only.
LEMMA NewReleaseIsGood ==
  ASSUME IInv, GatePasses, \A i \in Ids : job[i] = "ok",
         NEW assets, \A a \in Published : assets[a] = New(a)
  PROVE  /\ Gated(assets[Manifest], run.pin)
         /\ \A v \in assets[Manifest] :
               v.download_url.asset \in Ids =>
                   assets[v.download_url.asset] = v.artifact_sha256
         /\ OwnFragments => Sound(run.pin, assets) /\ IsManifest(assets[Manifest], run.pin)
  <1>1. \A i \in Ids : assets[i] = New(i)
    BY DEF Published
  <1>2. assets[Manifest] = New(Manifest)
    BY DEF Published
  <1>3. /\ Gated(New(Manifest), run.pin)
        /\ \A v \in New(Manifest) :
              v.download_url.asset \in Ids => New(v.download_url.asset) = v.artifact_sha256
    BY NewIsGood DEF IInv
  <1>4. ASSUME OwnFragments
        PROVE  /\ \A i \in Ids : Genuine(i, run.pin, New(i))
               /\ IsManifest(New(Manifest), run.pin)
    BY <1>4, GateIsSound, NewIsGenuine DEF IInv
  <1> QED BY <1>1, <1>2, <1>3, <1>4 DEF Sound

LEMMA ReleaseStep == IInv /\ [Next]_vars => ReleaseInv' /\ CommittedInv'
  <1> SUFFICES ASSUME IInv, [Next]_vars PROVE ReleaseInv' /\ CommittedInv'
    OBVIOUS
  <1> USE DEF IInv, Types
  <1>1. run.pin \in Pins
    BY DEF RunTypes
  <1>2. ASSUME UNCHANGED <<release, committed>>, allowed \subseteq allowed',
               intruded \subseteq intruded'
        PROVE  ReleaseInv' /\ CommittedInv'
    BY <1>2 DEF ReleaseInv, CommittedInv, Serves
  <1>3. CASE Create
    <2>1. /\ GatePasses /\ release[run.pin] = NoRelease
          /\ \A i \in Ids : job[i] = "ok"
      BY <1>3 DEF Create, DownloadInv
    <2>2. /\ \A p \in Pins \ {run.pin} : release'[p] = release[p]
          /\ \A a \in Published : release'[run.pin][a] = New(a)
          /\ UNCHANGED <<committed, allowed>>
          /\ intruded' = intruded \union (IF OwnFragments THEN {} ELSE {run.pin})
      BY <1>1, <1>3 DEF Create, Recorded, ReleaseTypes, host
    <2>3. /\ Gated(release'[run.pin][Manifest], run.pin)
          /\ run.pin \notin intruded' => Sound(run.pin, release'[run.pin])
          /\ Serves(run.pin, release'[run.pin])
      BY <2>1, <2>2, NewReleaseIsGood DEF Serves
    <2>4. ASSUME NEW p \in Pins, release'[p] # NoRelease
          PROVE  /\ release'[p][Manifest] # NoBytes => Gated(release'[p][Manifest], p)
                 /\ p \notin intruded' => Sound(p, release'[p])
                 /\ p \notin allowed' => Serves(p, release'[p])
      <3>1. CASE p = run.pin
        BY <2>3, <3>1 DEF Serves
      <3>2. CASE p # run.pin
        <4>1. release'[p] = release[p] /\ allowed' = allowed /\ (p \in intruded' <=> p \in intruded)
          BY <2>2, <3>2
        <4> QED BY <2>4, <4>1 DEF ReleaseInv, Serves
      <3> QED BY <3>1, <3>2
    <2>5. ReleaseInv'
      BY <2>4 DEF ReleaseInv
    <2>6. CommittedInv'
      <3> SUFFICES ASSUME committed' # {} PROVE CommittedInv'
        BY DEF CommittedInv
      <3>1. PICK p \in Pins :
              /\ Gated(committed, p)
              /\ p \notin intruded => IsManifest(committed, p)
              /\ p \notin allowed => release[p] # NoRelease /\ committed = release[p][Manifest]
        BY <2>2 DEF CommittedInv
      <3>2. p \notin allowed => p # run.pin
        BY <2>1, <3>1
      <3> QED BY <2>2, <3>1, <3>2 DEF CommittedInv
    <2> QED BY <2>5, <2>6
  <1>4. ASSUME NEW assets, release' = [release EXCEPT ![run.pin] = assets],
               assets[Manifest] # NoBytes => Gated(assets[Manifest], run.pin),
               run.pin \notin intruded => Sound(run.pin, assets),
               run.pin \in allowed,
               UNCHANGED <<committed, allowed, intruded>>
        PROVE  ReleaseInv' /\ CommittedInv'
    <2>1. /\ \A p \in Pins \ {run.pin} : release'[p] = release[p]
          /\ release'[run.pin] = assets
      BY <1>1, <1>4 DEF ReleaseTypes
    <2> QED BY <1>4, <2>1 DEF ReleaseInv, CommittedInv, Serves
  <1>5. ASSUME run.step = "clobber"
        PROVE  /\ GatePasses
               /\ run.pin \notin intruded => Shipped
               /\ run.pin \in allowed
               /\ release[run.pin] \in ReleaseAssets
               /\ release[run.pin][Manifest] # NoBytes =>
                     Gated(release[run.pin][Manifest], run.pin)
               /\ run.pin \notin intruded => Sound(run.pin, release[run.pin])
    <2>1. /\ GatePasses
          /\ run.pin \notin intruded => OwnFragments
          /\ \A i \in Ids : job[i] = "ok"
      BY <1>5 DEF DownloadInv
    <2>2. run.pin \notin intruded => Shipped
      BY <2>1, GateIsSound
    <2>3. run.pin \in allowed /\ release[run.pin] \in ReleaseAssets
      BY <1>5 DEF PermitInv
    <2> QED BY <1>1, <2>1, <2>2, <2>3, NoReleaseAssumption DEF ReleaseInv
  <1>6. ASSUME NEW a \in Published, Clobber(a) PROVE ReleaseInv' /\ CommittedInv'
    <2> DEFINE assets == [release[run.pin] EXCEPT ![a] = New(a)]
    <2>1. /\ release' = [release EXCEPT ![run.pin] = assets]
          /\ run.step = "clobber"
          /\ UNCHANGED <<committed, allowed, intruded>>
      BY <1>6 DEF Clobber, host, past
    <2>2. \A b \in Published : assets[b] = IF b = a THEN New(a) ELSE release[run.pin][b]
      BY <1>5, <2>1 DEF ReleaseAssets
    <2> HIDE DEF assets
    <2>3. \A i \in Ids : assets[i] \in {New(i), release[run.pin][i]}
      BY <2>2 DEF Published
    <2>4. assets[Manifest] \in {New(Manifest), release[run.pin][Manifest]}
      BY <2>2 DEF Published
    <2>5. assets[Manifest] # NoBytes => Gated(assets[Manifest], run.pin)
      BY <1>5, <2>1, <2>4, NewIsGood
    <2>6. run.pin \notin intruded => Sound(run.pin, assets)
      BY <1>5, <2>1, <2>3, <2>4, NewIsGenuine DEF Sound
    <2> QED BY <1>4, <1>5, <2>1, <2>5, <2>6
  <1>7. CASE ClobberFails
    <2> DEFINE left(gone) ==
                 [a \in Published |-> IF a \in gone THEN NoBytes ELSE release[run.pin][a]]
    <2>1. PICK gone : release' = [release EXCEPT ![run.pin] = left(gone)]
      BY <1>1, <1>7 DEF ClobberFails, ReleaseTypes
    <2>2. run.step = "clobber" /\ UNCHANGED <<committed, allowed, intruded>>
      BY <1>7 DEF ClobberFails, host, past
    <2>3. \A a \in Published : left(gone)[a] \in {NoBytes, release[run.pin][a]}
      OBVIOUS
    <2> HIDE DEF left
    <2>4. /\ \A i \in Ids : left(gone)[i] \in {NoBytes, release[run.pin][i]}
          /\ left(gone)[Manifest] \in {NoBytes, release[run.pin][Manifest]}
      BY <2>3 DEF Published
    <2>5. /\ left(gone)[Manifest] # NoBytes => Gated(left(gone)[Manifest], run.pin)
          /\ run.pin \notin intruded => Sound(run.pin, left(gone))
      BY <1>5, <2>2, <2>4 DEF Sound
    <2> QED BY <1>4, <1>5, <2>1, <2>2, <2>5
  <1>8. ASSUME NEW p \in Pins, CommitManifest(p) PROVE ReleaseInv' /\ CommittedInv'
    <2>1. /\ release[p] # NoRelease /\ release[p][Manifest] # NoBytes
          /\ committed' = release[p][Manifest]
          /\ UNCHANGED <<release, allowed, intruded>>
      BY <1>8 DEF CommitManifest, past
    <2>2. /\ Gated(committed', p)
          /\ p \notin intruded => IsManifest(committed', p)
      BY <2>1 DEF ReleaseInv, Sound
    <2>3. ReleaseInv'
      BY <2>1 DEF ReleaseInv, Serves
    <2> QED BY <2>1, <2>2, <2>3 DEF CommittedInv
  <1>9. ASSUME \/ MovePin
               \/ \E r \in BOOLEAN : Dispatch(r)
               \/ Rerun \/ BuildsFail \/ Download \/ Gate \/ PublishFails
               \/ Overwrite \/ EditRelease
               \/ \E i \in Ids : \/ Build(i) \/ UploadFirmware(i)
                                 \/ UploadFragment(i) \/ JobFails(i) \/ Expire(i)
               \/ \E v \in committed : Fetch(v)
               \/ \E need \in Needs, board \in Ids \union {AnyBoard} : Select(need, board)
               \/ UNCHANGED vars
        PROVE  /\ UNCHANGED <<release, committed>>
               /\ allowed \subseteq allowed' /\ intruded \subseteq intruded'
    BY <1>9 DEF MovePin, Dispatch, Rerun, BuildsFail, Download, Gate, PublishFails,
       Overwrite, EditRelease, Build, UploadFirmware, UploadFragment, JobFails, Expire,
       Fetch, Select, Recorded, host, past, vars
  <1> QED
    BY <1>2, <1>3, <1>6, <1>7, <1>8, <1>9 DEF Next, Workflow, Host

LEMMA WholeStep == IInv /\ [Next]_vars => WholeInv'
  <1> SUFFICES ASSUME IInv, [Next]_vars PROVE WholeInv'
    OBVIOUS
  <1> USE DEF IInv, Types
  <1>1. run.pin \in Pins
    BY DEF RunTypes
  <1>2. CASE Create
    <2>1. GatePasses /\ \A i \in Ids : job[i] = "ok"
      BY <1>2 DEF Create, DownloadInv
    <2>2. /\ release'[run.pin] = [a \in Published |-> New(a)]
          /\ run'.pin = run.pin /\ run'.step = "done"
          /\ intruded' = intruded \union (IF OwnFragments THEN {} ELSE {run.pin})
      BY <1>1, <1>2 DEF Create, Recorded, ReleaseTypes, RunTypes
    <2>3. release'[run.pin] \in ReleaseAssets
      BY <2>1, <2>2, NewIsGood DEF ReleaseAssets
    <2>4. /\ Gated(release'[run.pin][Manifest], run.pin)
          /\ \A v \in release'[run.pin][Manifest] :
                v.download_url.asset \in Ids =>
                    release'[run.pin][v.download_url.asset] = v.artifact_sha256
      BY <2>1, <2>2, NewReleaseIsGood
    <2> QED BY <2>2, <2>3, <2>4 DEF WholeInv, Serves
  <1>3. CASE Overwrite
    <2>1. run'.step = "clobber" /\ todo' = Published
      BY <1>3 DEF Overwrite, RunTypes
    <2> QED BY <2>1 DEF WholeInv
  <1>4. ASSUME NEW a \in Published, Clobber(a) PROVE WholeInv'
    <2>1. /\ run.step = "clobber"
          /\ UNCHANGED <<run, dl>>
          /\ todo' = todo \ {a}
          /\ release' = [release EXCEPT ![run.pin] = [release[run.pin] EXCEPT ![a] = New(a)]]
      BY <1>4 DEF Clobber
    <2>2. \A b \in Published :
            release'[run.pin][b] = IF b = a THEN New(a) ELSE release[run.pin][b]
      BY <1>1, <2>1 DEF ReleaseTypes, PermitInv, ReleaseAssets
    <2>3. \A b \in Published : New(b)' = New(b)
      BY <2>1 DEF New
    <2> QED BY <2>1, <2>2, <2>3 DEF WholeInv
  <1>5. CASE EditRelease
    <2>1. /\ run.step = "clobber" /\ todo = {}
          /\ UNCHANGED release
          /\ run'.pin = run.pin /\ run'.step = "done"
      BY <1>5 DEF EditRelease, RunTypes
    <2>2. /\ release[run.pin] \in ReleaseAssets
          /\ GatePasses /\ \A i \in Ids : job[i] = "ok"
          /\ run.pin \notin intruded => OwnFragments
      BY <2>1 DEF PermitInv, DownloadInv
    <2>3. \A a \in Published : release[run.pin][a] = New(a)
      BY <2>1 DEF WholeInv
    <2>4. Serves(run.pin, release[run.pin])
      BY <2>2, <2>3, NewReleaseIsGood DEF Serves
    <2>5. UNCHANGED intruded
      BY <1>5 DEF EditRelease, past
    <2> QED BY <2>1, <2>2, <2>4, <2>5 DEF WholeInv, Serves
  <1>6. CASE Rerun \/ BuildsFail \/ Download \/ Gate \/ PublishFails \/ ClobberFails
    <2>1. run'.step \in {"build", "failed", "gate", "publish"}
      BY <1>6 DEF Rerun, BuildsFail, Download, Gate, PublishFails, ClobberFails, RunTypes
    <2> QED BY <2>1 DEF WholeInv
  <1>7. ASSUME NEW r \in BOOLEAN, Dispatch(r) PROVE WholeInv'
    BY <1>7 DEF Dispatch, WholeInv
  <1>8. CASE UNCHANGED <<run, dl, todo, release, intruded>>
    BY <1>8 DEF WholeInv, New, Serves
  <1>9. ASSUME \/ MovePin
               \/ \E i \in Ids : \/ Build(i) \/ UploadFirmware(i)
                                 \/ UploadFragment(i) \/ JobFails(i) \/ Expire(i)
               \/ Host
        PROVE  UNCHANGED <<run, dl, todo, release, intruded>>
    BY <1>9 DEF MovePin, Build, UploadFirmware, UploadFragment, JobFails, Expire,
       Host, CommitManifest, Fetch, Select, past
  <1> QED
    BY <1>2, <1>3, <1>4, <1>5, <1>6, <1>7, <1>8, <1>9 DEF Next, Workflow, vars, past

-----------------------------------------------------------------------------
(* Theorems.                                                                *)

LEMMA InitInv == Init => IInv
  <1> SUFFICES ASSUME Init PROVE IInv
    OBVIOUS
  <1>1. RunTypes
    <2>1. 0 \in 0..MaxMoves /\ 0 \in 0..MaxRuns /\ 0 \in 0..MaxAttempts
      BY BoundsAssumption
    <2> QED BY <2>1, PinAssumption DEF Init, RunTypes
  <1>2. JobTypes
    BY DEF Init, JobTypes, NothingMade, NothingKept, Nothing, Files
  <1>3. FileTypes
    BY DEF Init, FileTypes, EmptyDl, Files
  <1>4. ReleaseTypes
    BY DEF Init, ReleaseTypes
  <1>5. JobsInv
    BY DEF Init, JobsInv, JobInv
  <1>6. run.step = "done" /\ ~run.republish /\ run.count = 0
    BY DEF Init
  <1>7. DownloadInv /\ PermitInv /\ WholeInv
    BY <1>6 DEF DownloadInv, PermitInv, WholeInv
  <1>8. ReleaseInv /\ CommittedInv
    BY DEF Init, ReleaseInv, CommittedInv
  <1> QED BY <1>1, <1>2, <1>3, <1>4, <1>5, <1>7, <1>8 DEF IInv, Types

\* The inductive invariant of the pipeline: a published and the committed
\* manifest have one variant for every expected id, whoever wrote the fragments;
\* and what the jobs have verified, what is published under a tag that never
\* had a fragment of another job's, and the manifest committed from it are of
\* the pin they are filed under and passed the macro check.
THEOREM Invariance == Spec => []IInv
  <1>1. IInv /\ [Next]_vars => IInv'
    BY RunTypesStep, JobTypesStep, FileTypesStep, ReleaseTypesStep, JobsStep,
       DownloadStep, ReleaseStep, WholeStep
       DEF IInv, Types
  <1> QED BY InitInv, <1>1, PTL DEF Spec

\* Types of the pipeline's state.
THEOREM TypeCorrect == Spec => []TypeOK
  <1>1. IInv => TypeOK
    BY DEF IInv, Types, RunTypes, JobTypes, FileTypes, ReleaseTypes, ReleaseAssets, TypeOK
  <1> QED BY Invariance, <1>1, PTL

\* Whatever a tag serves was built from the commit the tag names, for the
\* variant the asset is named after (firmware.yml: one pin for all jobs), if no
\* fragment of another job's was ever published under it.
THEOREM TagsNameTheirSource == Spec => []TagNamesItsSource
  <1>1. IInv => TagNamesItsSource
    BY DEF IInv, ReleaseInv, Sound, Genuine, TagNamesItsSource
  <1> QED BY Invariance, <1>1, PTL

\* Unless the overwriting of its Release was permitted, every variant of the
\* manifest the repository holds can be fetched and has its digest; but for one
\* whose fragment no expected job wrote and whose asset is not an expected one.
THEOREM CommittedIsFetchable == Spec => []CommittedStaysFetchable
  <1>1. ASSUME IInv, NEW v \in committed, v.download_url.tag \notin allowed
        PROVE  \/ Served(v) = v.artifact_sha256
               \/ v.download_url.tag \in intruded /\ v.download_url.asset \notin Ids
    <2>1. PICK p \in Pins :
            /\ Gated(committed, p)
            /\ p \notin intruded => IsManifest(committed, p)
            /\ p \notin allowed => release[p] # NoRelease /\ committed = release[p][Manifest]
      BY <1>1 DEF IInv, CommittedInv
    <2>2. v.download_url.tag = p
      BY <2>1 DEF Gated
    <2>3. release[p] # NoRelease /\ committed = release[p][Manifest]
      BY <1>1, <2>1, <2>2
    <2>4. Serves(p, release[p])
      BY <1>1, <2>2, <2>3 DEF IInv, ReleaseInv
    <2>5. CASE v.download_url.asset \in Ids
      <3>1. release[p][v.download_url.asset] = v.artifact_sha256
        BY <2>3, <2>4, <2>5 DEF Serves
      <3> QED BY <2>2, <2>3, <2>5, <3>1 DEF Served, Published
    <2>6. CASE v.download_url.asset \notin Ids
      <3>1. p \in intruded
        BY <2>1, <2>6, ManifestFields
      <3> QED BY <2>2, <2>6, <3>1
    <2> QED BY <2>5, <2>6
  <1>2. IInv => CommittedStaysFetchable
    BY <1>1 DEF CommittedStaysFetchable
  <1> QED BY Invariance, <1>2, PTL

\* Every expected board is resolved, by capability alone, to its one variant of
\* the manifest the repository holds, if that is of a tag under which no
\* fragment of another job's was published.
THEOREM BoardsAreSelectable == Spec => []EveryBoardIsSelectable
  <1>1. ASSUME IInv, committed # {}, NEW i \in Ids,
               \A v \in committed : v.download_url.tag \notin intruded
        PROVE  \E v \in committed : Selectable(committed, Macros, i) = {v} /\ v.id = i
    <2>1. PICK p \in Pins : Gated(committed, p) /\ (p \notin intruded => IsManifest(committed, p))
      BY <1>1 DEF IInv, CommittedInv
    <2>2. p \notin intruded
      BY <1>1, <2>1 DEF Gated
    <2>3. IsManifest(committed, p)
      BY <2>1, <2>2
    <2>4. PICK v \in committed : v.id = i
      BY <2>3 DEF IsManifest
    <2>5. \A w \in committed : ~w.deprecated /\ w.board = w.id /\ w.id \in Ids
      BY <2>3, ManifestFields
    <2>6. ASSUME NEW w \in committed, NEW m \in Macros PROVE Claims(w, m)
      <3>1. w.capabilities = ParseCapabilities(AllTrue)
        BY <2>3, ManifestFields
      <3>2. m \in KnownCapabilities
        BY DEF Macros, KnownCapabilities
      <3> QED BY <3>1, <3>2, ClaimedCapabilities DEF Claims
    <2>7. \A w \in committed : w.id = i => w = v
      BY <2>3, <2>4 DEF IsManifest
    <2>8. Matches(committed, Macros, i) = {v}
      BY <2>4, <2>5, <2>6, <2>7, IdsAssumption DEF Matches
    <2>9. ParseNeed(Macros)
      BY DEF ParseNeed, Macros, KnownCapabilities
    <2>10. Selectable(committed, Macros, i) = {v}
      BY <2>8, <2>9 DEF Selectable
    <2> QED BY <2>4, <2>10
  <1>2. IInv => EveryBoardIsSelectable
    BY <1>1 DEF EveryBoardIsSelectable
  <1> QED BY Invariance, <1>2, PTL

\* A bare `firmware.py verify` that passes leaves nothing select would refuse;
\* one that names a variant has its artifact on disk. Whoever wrote the
\* fragments of the manifest the repository holds.
THEOREM VerifyIsExact == Spec => []VerifyFindsStale
  <1>1. ASSUME IInv, VerifyPasses(committed, {}, local), NEW v \in committed
        PROVE  ~Refused(v)
    <2>1. v.deprecated = FALSE
      BY <1>1 DEF IInv, CommittedInv, Gated
    <2>2. VerifyOne(v, local, FALSE) # "FAIL"
      BY <1>1 DEF VerifyPasses
    <2> QED BY <2>1, <2>2 DEF VerifyOne, Refused
  <1>2. ASSUME IInv, NEW v \in committed, v.id # "", VerifyPasses(committed, {v.id}, local)
        PROVE  local[v.artifact] = v.artifact_sha256
    <2>1. \A w \in committed : w.id = v.id => w = v
      BY <1>2 DEF IInv, CommittedInv, Gated, NoId
    <2>2. FindVariant(committed, v.id) = v
      BY <2>1 DEF FindVariant
    <2>3. VerifyOne(v, local, TRUE) # "FAIL"
      BY <1>2, <2>2 DEF VerifyPasses
    <2> QED BY <2>3 DEF VerifyOne
  <1>3. IInv => VerifyFindsStale
    BY <1>1, <1>2 DEF VerifyFindsStale
  <1> QED BY Invariance, <1>3, PTL

\* A run that is done leaves its Release with one variant for every expected id
\* and serving what its manifest says of the expected assets; which is all of
\* it, unless a fragment of another job's was published. No manifest is the
\* empty file.
THEOREM DoneIsWhole ==
  ASSUME NoBytes \notin SUBSET Variants
  PROVE  Spec => []ReleaseIsWhole
  <1>1. ASSUME IInv, run.step = "done", run.count > 0
        PROVE  LET variants == release[run.pin][Manifest] IN
               /\ HasManifest(run.pin)
               /\ {v.id : v \in variants} \ {""} = Ids
               /\ \A v, w \in variants : v.id = w.id /\ v.id # "" => v = w
               /\ \A v \in variants :
                     v.download_url.asset \in Ids => Served(v) = v.artifact_sha256
               /\ run.pin \notin intruded =>
                     \A v \in variants : v.id \in Ids /\ v.download_url.asset \in Ids
    <2>1. PICK p, S : p = run.pin /\ S = release[p][Manifest]
      OBVIOUS
    <2>2. /\ p \in Pins
          /\ release[p] # NoRelease
          /\ Serves(p, release[p])
      BY <1>1, <2>1, NoReleaseAssumption DEF IInv, Types, RunTypes, WholeInv
    <2>3. Gated(S, p)
      BY <2>1, <2>2 DEF Serves
    <2>4. HasManifest(p)
      BY <2>1, <2>2, <2>3 DEF HasManifest, Gated
    <2>5. ASSUME NEW v \in S, v.download_url.asset \in Ids
          PROVE  Served(v) = v.artifact_sha256
      <3>1. v.download_url.tag = p
        BY <2>3 DEF Gated
      <3>2. release[p][v.download_url.asset] = v.artifact_sha256
        BY <2>1, <2>2, <2>5 DEF Serves
      <3> QED BY <2>2, <2>5, <3>1, <3>2 DEF Served, Published
    <2>6. p \notin intruded => \A v \in S : v.id \in Ids /\ v.download_url.asset \in Ids
      <3>1. p \notin intruded => IsManifest(S, p)
        BY <1>1, <2>1, <2>2, <2>4 DEF IInv, ReleaseInv, Sound, HasManifest
      <3> QED BY <2>2, <3>1, ManifestFields
    <2>7. /\ {v.id : v \in S} \ {""} = Ids
          /\ \A v, w \in S : v.id = w.id /\ v.id # "" => v = w
      BY <2>3 DEF Gated, NoId
    <2> QED BY <2>1, <2>4, <2>5, <2>6, <2>7
  <1>2. IInv => ReleaseIsWhole
    BY <1>1 DEF ReleaseIsWhole
  <1> QED BY Invariance, <1>2, PTL

\* The greatest of the first k numbers that are in a set.
LEMMA MaxIs ==
  ASSUME NEW k \in Nat, NEW S \in SUBSET (1..k), S # {}
  PROVE  Max(S) \in S /\ \A n \in S : n <= Max(S)
  <1>1. PICK n \in S : \A m \in S : m <= n
    BY Greatest
  <1>2. \A m \in S : m \in Nat
    OBVIOUS
  <1>3. \A m \in S : n >= m
    BY <1>1, <1>2
  <1>4. Max(S) \in S /\ \A m \in S : Max(S) >= m
    BY <1>3 DEF Max
  <1> QED BY <1>2, <1>4

\* A dump whose macro reads 1 was left so by its last #define.
LEMMA LastDefineIsRead ==
  ASSUME NEW d \in Seq(Directives), MacroValue(d) = "1"
  PROVE  \E n \in 1..Len(d) :
            d[n] = "1" /\ \A m \in 1..Len(d) : d[m] # "undef" => m <= n
  <1>1. Len(d) \in Nat /\ Defines(d) \in SUBSET (1..Len(d))
    BY DEF Defines
  <1>2. Defines(d) # {} /\ d[Max(Defines(d))] = "1"
    BY DEF MacroValue
  <1>3. Max(Defines(d)) \in Defines(d) /\ \A n \in Defines(d) : n <= Max(Defines(d))
    BY <1>1, <1>2, MaxIs
  <1> QED BY <1>1, <1>2, <1>3 DEF Defines

\* verify_capabilities.py reads the value the compiler used, from what -E -dM
\* prints and, unless it ends with an #undef of the macro, from a .pp file with
\* any number of definitions.
LEMMA MacrosAreRead ==
  ASSUME NEW p \in Pins, NEW i \in Ids, NEW m \in Macros,
         MacroValue(Dumps(i, p)[m]) = "1", ~UndefinedAfter(p, i, m)
  PROVE  Compiled(Source[p][i][m])
  <1> DEFINE d == Source[p][i][m]
  <1>1. d \in Seq(Directives)
    BY SourceAssumption
  <1>2. CASE i \in MakePorts
    <2>1. MacroValue(d) = "1"
      BY <1>2 DEF Dumps
    <2>2. d # <<>> => Last(d) # "undef"
      BY <1>2 DEF UndefinedAfter
    <2> HIDE DEF d
    <2>3. PICK n \in 1..Len(d) :
            d[n] = "1" /\ \A k \in 1..Len(d) : d[k] # "undef" => k <= n
      BY <1>1, <2>1, LastDefineIsRead
    <2>4. Len(d) \in Nat /\ Len(d) \in 1..Len(d) /\ d # <<>>
      BY <1>1, <2>3
    <2>5. d[Len(d)] # "undef"
      BY <2>2, <2>4 DEF Last
    <2>6. n = Len(d)
      BY <2>3, <2>4, <2>5
    <2>7. Compiled(d)
      BY <2>3, <2>4, <2>6 DEF Compiled, Last
    <2> QED BY <2>7 DEF d
  <1>3. CASE i \notin MakePorts
    <2>1. MacroValue(FinalDump(d)) = "1"
      BY <1>3 DEF Dumps
    <2> HIDE DEF d
    <2>2. MacroValue(<<>>) # "1"
      BY DEF MacroValue, Defines
    <2>3. d # <<>> /\ FinalDump(d) = <<Last(d)>>
      BY <2>1, <2>2 DEF FinalDump
    <2>4. Last(d) \in Directives
      <3>1. Last(d) = d[Len(d)]
        BY DEF Last
      <3>2. Len(d) \in 1..Len(d)
        BY <1>1, <2>3
      <3> QED BY <1>1, <3>1, <3>2
    <2>5. \A x \in Directives : <<x>> \in Seq(Directives) /\ Len(<<x>>) = 1 /\ <<x>>[1] = x
      OBVIOUS
    <2>6. PICK n \in 1..Len(<<Last(d)>>) : <<Last(d)>>[n] = "1"
      BY <2>1, <2>3, <2>4, <2>5, LastDefineIsRead
    <2>7. Last(d) = "1"
      BY <2>4, <2>5, <2>6
    <2>8. Compiled(d)
      BY <2>3, <2>7 DEF Compiled
    <2> QED BY <2>8 DEF d
  <1> QED BY <1>2, <1>3

\* Firmware that passed the macro check has the macros compiled in, but for one
\* a make port undefines at the end.
LEMMA GenuineHasMacros ==
  ASSUME NEW i \in Ids, NEW p \in Pins, NEW b, Genuine(i, p, b)
  PROVE  \A m \in Macros : ~UndefinedAfter(p, i, m) => b[m] = TRUE
  <1>1. \A d : Compiled(d) \in BOOLEAN
    BY DEF Compiled
  <1> QED BY <1>1, MacrosAreRead DEF Genuine, VerifyCapabilities

\* What a manifest claims was compiled into the bytes it names, if the macro is
\* not undefined after its last definition, where verify_capabilities.py and the
\* compiler differ, and no fragment of another job's was published under its tag.
THEOREM PublishedClaimsAreBuilt == Spec => []ClaimsAreBuilt
  <1>1. ASSUME IInv, NEW p \in Pins \ intruded, HasManifest(p),
               NEW v \in release[p][Manifest], NEW m \in Macros
        PROVE  v.artifact_sha256[m] \/ UndefinedAfter(p, v.id, m)
    <2>1. IsManifest(release[p][Manifest], p)
      BY <1>1 DEF IInv, ReleaseInv, Sound, HasManifest
    <2>2. v.id \in Ids /\ Genuine(v.id, p, v.artifact_sha256)
      BY <2>1 DEF IsManifest
    <2> QED BY <2>2, GenuineHasMacros
  <1>2. IInv => ClaimsAreBuilt
    BY <1>1 DEF ClaimsAreBuilt
  <1> QED BY Invariance, <1>2, PTL

\* Firmware handed to a session is what its manifest entry says, and the guard
\* of capcheck.py fires on it only for a macro undefined after its last
\* definition; for the variants of a tag under which no fragment of another
\* job's was published.
THEOREM SessionsAreHonest == Spec => []SessionIsHonest
  <1>1. ASSUME IInv, NEW v \in committed, NEW bytes \in Handed(v),
               v.download_url.tag \notin intruded
        PROVE  /\ bytes.pin = v.source_commit
               /\ CapabilityMismatch(v.capabilities, Probe(bytes)) =>
                     \E m \in Macros : UndefinedAfter(v.source_commit, v.id, m)
    <2>1. PICK p \in Pins : Gated(committed, p) /\ (p \notin intruded => IsManifest(committed, p))
      BY <1>1 DEF IInv, CommittedInv
    <2>2. IsManifest(committed, p)
      BY <1>1, <2>1 DEF Gated
    <2>3. bytes = v.artifact_sha256
      BY DEF Handed, Refused
    <2>4. v.id \in Ids /\ Genuine(v.id, p, v.artifact_sha256)
      BY <2>2 DEF IsManifest
    <2>5. v.capabilities = ParseCapabilities(AllTrue) /\ v.source_commit = p
      BY <2>2, ManifestFields
    <2>6. bytes.pin = p
      BY <2>3, <2>4 DEF Genuine
    <2>7. ASSUME \A m \in Macros : ~UndefinedAfter(p, v.id, m)
          PROVE  ~CapabilityMismatch(v.capabilities, Probe(bytes))
      <3>1. bytes["settrace"] = TRUE /\ bytes["save_names"] = TRUE
        BY <2>3, <2>4, <2>7, GenuineHasMacros DEF Macros
      <3>2. bytes.settrace = TRUE /\ bytes.save_names = TRUE
        BY <3>1
      <3>3. DOMAIN v.capabilities = KnownCapabilities /\ v.capabilities["set_local"] = "false"
        BY <2>5, ClaimedCapabilities
      <3>4. \A key \in KnownCapabilities \ {"set_local"} :
              key \in DOMAIN Probe(bytes) /\ Probe(bytes)[key]
        BY <3>2 DEF Probe, KnownCapabilities
      <3> QED BY <3>3, <3>4 DEF CapabilityMismatch
    <2> QED BY <2>5, <2>6, <2>7
  <1>2. IInv => SessionIsHonest
    BY <1>1 DEF SessionIsHonest, Selectable, Matches
  <1> QED BY Invariance, <1>2, PTL
=============================================================================
