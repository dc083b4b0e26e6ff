# A TLA+ model of apt-wharf

This directory holds TLA+ modules that model the parts of apt-wharf which keep
state, the TLC configurations that check them on small instances, and proofs
that TLAPS checks for every value of the constants.
`PROJECT.json` lists the runs, the faults each property must detect
("mutants"), the source lines each definition translates, the hazards of the
code, and the findings.

    tlasany Refresh.tla                                # parse
    tlc -workers 2 -config RefreshCache.cfg MCRefresh.tla   # model-check
    tlapm BootstrapProofs.tla                          # check the proofs

## 1. The system

apt-wharf is a set of small Go programs that fill and serve apt repositories.

| Part | State it keeps | Operations | Talks to |
| --- | --- | --- | --- |
| **signpost refresh** (`signpost/refresh`, `index`, `store`) | `state/sources/<s>.json`, the served `Snapshot` behind an atomic pointer, a tick mutex | import of new sources, parallel sweep, strict checks, composition of Packages and Release, carry-over of by-hash and pool entries, publication | vendors, store, signer, HTTP handler |
| **signpost bootstrap package** (`signpost/bootstrap`, `refresh/bootstrap_step.go`) | `bootstrap.json`, `bootstrap/<version>.deb` | reuse or rebuild under `YYYY.MM.DD.N`, two durable writes | store, refresh |
| **signpost probing and fetching** (`signpost/source`, `fetch`) | the token, control file and hash of each state file | probe, one or two range requests, full download, state write | vendors |
| **signpost daemon** (`cmd/signpost/serve.go`, `reload.go`) | the current generation, its loop, secrets, `daemonState.mu`, a one-slot SIGHUP channel | boot, reload, shutdown, listener failure | signals, refresh |
| **signpost HTTP handler** (`signpost/server`) | none | 200, 302, 304, 404 from the snapshot | apt clients |
| **signpost export** (`signpost/export`) | a document root and its marker file | write leaves-first, prune, mark | refresh, a static web server |
| **signpost signing, rate-limit bucket, status, configuration** | keyring file; token buckets; counters; none | see section 6 | |
| **drayman** (`cmd/drayman/reconcile.go`, `drayman/policy`, `drayman/backend`) | none of its own: the aptly repository and publication, an upload directory per run | decide by hash, version and revision; build by revision group; import; publish | cooper, aptly, reprepro |
| **cooper, staves, chandler discover** (`cooper/config`, `source`, `version`, `stage`, `discover`; `staves`; `chandler`) | none: the plan under way | load and validate recipes, find their files, ask the vendor once, compute version, epoch, hash, and one artifact for each document and architecture | vendors, files beside the recipes, build and drayman through the plan |
| **cooper build** (`cooper/build`) | a work directory of runs, an output directory, the plan it annotates | verify, download, extract within limits, stage, pack, clean | vendors, drayman |
| **plan format** (`pkg/plan`) | none | inputs hash, derived epoch, order of Debian versions | all of the above |

Behaviours that are hard to test: a vendor that publishes between two requests
of one tick; crashes between two file writes; a clock with one-second
resolution behind conditional requests; reloads, ticks, SIGTERM and a failing
listener at once; runs of drayman whose imports succeed and whose replies do
not arrive; a web server reading a directory while it is rewritten; a vendor
that publishes while the documents of a recipe are built, or replaces a file
between discover and build; work directories that killed builds left; archives
at their limits; recipes in all combinations that validation lets through.

What makes each part correct is stated by the properties of section 3.

## 2. Modules

| Module | Models | Extends or uses |
| --- | --- | --- |
| `Bootstrap`, `MCBootstrap`, `BootstrapProofs` | the bootstrap package on disk and in the snapshot, crashes, several writers | |
| `Refresh`, `MCRefresh`, `RefreshProofs` | import, ticks, composition, publication, crash, reload, handler and an apt client | takes the bootstrap package as a version number |
| `SourceFetch`, `MCSourceFetch`, `SourceFetchProofs` | one source between its vendor and its state file | takes place inside one `SourceUpdated` of `Refresh` |
| `Generations`, `GenerationsProofs` | the goroutines of `signpost serve` | one tick of a loop here is a sweep and `Publish` of `Refresh` |
| `Export`, `MCExport`, `ExportProofs` | the output directory of `signpost export` | takes a snapshot as given |
| `AptArchive` | what drayman promises of the archive (abstract) | |
| `Drayman`, `MCDrayman`, `DraymanProofs` | drayman reconcile with the aptly backend | implements `AptArchive` by `INSTANCE` |
| `Plan` | the inputs hash, on both sides of the plan | |
| `BuildContract` | what cooper build promises of a plan's artifacts (abstract) | |
| `CooperBuild`, `MCCooperBuild`, `CooperBuildProofs` | `cooper build` and the servers it downloads from | extends `Plan`, implements `BuildContract` by `INSTANCE` |
| `Recipe` | validation, release and asset selection, versions, files: what discovery computes | extends `Plan` |
| `Discover` | what the three discovers share: the units, the plan, the filter, vendors and files that change | extends `Recipe` |
| `CooperDiscover`, `StavesDiscover`, `ChandlerDiscover` | the steps of one tool each | extend `Discover` |
| `DiscoverTools`, `MCDiscover`, `DiscoverProofs` | the three together, and their properties | extends all |

The components are modelled apart because they meet in narrow places: a
state file is written atomically by one tick, a snapshot is published by one
pointer store, and an export or a reload sees neither in the middle. `Refresh`
relies on what `Bootstrap` proves (a version stands for one package and grows)
and on what `SourceFetch` checks (a state file describes one release);
`GenerationsProofs` proves what `Refresh` and `Bootstrap` assume (`SingleWriter`:
one generation refreshes at a time). A plan is the only thing that passes from a
discover to a build: both modules take its inputs hash from `Plan`, and
`BuildAccepts`, a property of the discovers, is about the test that `Verify` makes in
the build; section 4 says what `CooperBuildProofs` assumes of plans. `Drayman`
starts from such plans, with their hashes as given.

### How state and actions correspond to the code

*Bootstrap.* A step is one durable effect. `Reuse` and `Rebuild` are the two
branches of `ensureBootstrap`; `WriteDeb` and `WriteJson` its two writes, each
atomic in the code (temporary file, fsync, rename); `Publish` is
`composeSnapshot` with `holder.Store`; `TickFails` and `Crash` may fall between
any two. A .deb is its version, inputs and the serial number of the build, as
two builds of the same inputs differ in their timestamps.

*Refresh.* `pc` is where the process is (`import`, `refresh`, `tick`, `idle`,
`down`, `exited`). `Start`, `Reload`, `ImportDone`, `TickStart` are the callers;
`SourceFails`, `SourceUnchanged`, `SourceUpdated` the outcomes of `processOne`
for one source, in any order, since workers run in parallel; `Cancel` the early
return of `fanoutProcess`; `Publish` and `Rejected` the tail of a tick. A
Packages file is the set of its stanzas, a hash is the content itself. A release
of a vendor has bytes, a version and a token, and the three move apart: vendors
replace the .deb of a version (`Republishes`), re-tag or re-date bytes they keep
(`Retokens`), or show no token (`Tokenless`), and the daemon compares tokens only
(`Current`). A configuration has a label, which stands for Origin, Label and
Description of Release. Clients (`GetPackages`, `GetRelease`) keep a copy and its
Last-Modified. `moved` is a history variable: the sources whose token was not
the recorded one, for `HitWhenVendorsRest`.

*SourceFetch.* `Probe`, `RangeHead`, `RangeTail`, `FullBody`, `StreamHash` are
requests and `WriteState` is the state write, all in the order of `processOne`
and `Fetch`. The vendor (`Release`, `Replace`) moves between any two. The
discoverers differ in two parameters: whether the token changes with the
content (`TokenIsContent`: ETag, Last-Modified) or with the release only, and
for which releases the probe announces a digest (`Digested`).

*Generations.* main (`cmdServe`), the reloader (`reloadLoop`, `handleReload`) and
one loop per generation. `target` is the generation main stops: it reads
`current.gen` with the lock on shutdown and without it when the listener fails.
A configuration is a number and a kind: what `config.Load`,
`assertHotReloadable` and `Wire` say to it.

*Export.* `todo` is the rest of `writeOrder`, `stale` the rest of the prune
loop, `marker` the paths of the marker file. `Tier` and `Lex` translate the
comparison in `writeOrder`, including that it looks for `dists/` at the very
start of a path. The server's view is `tree` after every step.

*Drayman.* `Begin` takes any plan; `Decide` and the queries, a build per
revision group, upload and import, publication and its creation are steps, each
of which can fail, be lost after it took effect (`LoseReplies`), or be the last
one before a kill. aptly is external and modelled from the requests drayman
sends. Builds are reproducible, so a .deb is an artifact and a revision.

*CooperBuild.* `pc` is where `buildOne` is, `at` the artifact, file and archive
entry. `Start` and `Refuse` are the checks of `cmdBuild` and `Run`; `Verify`,
`Fetch`, `Extract` (one entry a step), `Extracted`, `Stage`, `PackOpens`, `Pack`
follow the code, each with the action of its failure; `Finish` cleans the run
directory and decides the exit status. A .deb is the staged tree it is packed
from: its files, their mtime, and the version, release and hash of `nfpm.yaml`.
The output is emptied when it is opened (`PackOpens`), so a kill can leave it
`Torn`. An asset without a URL is passed over (`Skip`); auxiliary files are
written over what was downloaded (`WriteAuxFiles`). With `Refeed` the annotated
plan a build emits is built again; `staged` is a history variable, the names that
`--stage-only` has revised.

*Discover.* A run goes over `todo`; `cur` is what is known of the first unit, a
recipe, a directory or a target, and `Answer` appends its package to `plan`. A
step ends where the code waits for a vendor or reads files another time:
`Load`, `Resolve` and one `Build` for each document and architecture (cooper);
`LoadDirectory`, `ComputeContentEpoch`, `ReadFiles` (staves); `ExpandName`, one
`FetchURL` for each URL of each key, `Render` (chandler). `Publish` and `Edit` come
between any two. The two forges, and JSON and XML, are twins in the code; the map
names one of a pair for some definitions and the other for the rest. A recipe
is its record of related fields; what validation says of one scalar alone is the
flag `fields`. Tokens of a version are not spelled, but their order, digits and
forbidden tokens are. A hash is what it covers and a derived epoch is what it is
derived from: that the real epoch has a range of ten years, and may collide, is
left out.

## 3. Runs

| Run | Shows | Instance and why it is enough |
| --- | --- | --- |
| `bootstrap` | the cached .deb has the recorded digest, a snapshot advertises the bytes it serves, versions are never given twice and only grow | two inputs, two days, four builds: change, change back, a crash between the writes, and a day change with the counter above 1 |
| `refresh_cache` | a 304 never hides a change of Packages, or of what InRelease lists; Last-Modified rests when contents and tokens do; what was served is on disk; what an InRelease names stays reachable until `Retention` after it was built | two native sources, one of which may publish for an architecture the suite lacks (a tick is then rejected and the prior snapshot stays), one architecture, three instants, two .debs each, of two versions or of one, tokens that move by themselves, a source without tokens, one crash, one reload that re-keys or changes the label |
| `refresh_live` | a source that can be fetched is served at its latest release although another fails for ever | the clock is stopped (`Timed = FALSE`): no property of this run reads it; two reloads, which re-key or drop a source |
| `drayman` | exit 0 means imported; what a run put in the repository and reported is published; runs implement `AptArchive`: an inputs hash enters once, no version is given to two contents and no package enters below an upstream version of the repository | five artifacts of two packages, one edited twice and upgraded, revisions to 2, plans in any order, failures and lost replies everywhere |
| `fetch_replaced` | an unchanged token means the state file describes the vendor's current asset; once the vendor rests the state file gets there | two releases, one with an announced digest; four builds of each; one size, so that comparing sizes helps nothing |
| `generations` | one generation refreshes at a time and has its key; the served snapshot never goes back to an older configuration; coalesced SIGHUPs apply the last edit; a process told to stop ends | two edits of any kind: a reload during a reload, a rejected one after an accepted one; SIGTERM and a failing listener at any step |
| `export` | without a prefix, InRelease never names a missing file, during exports and after failed ones; a completed export leaves its own files and at most what failed ones left; the directory catches up | two failures, two changes among four states that share an index, a bootstrap package or a target, or move below a prefix |
| `cooper_build` | a reported .deb holds what the digests of its artifact name and nothing that another build, version or archive left; equal hashes and revisions give equal .debs if the plan has all digests; file name and control file agree on a revision, also when an emitted plan is built again, unless `--stage-only` revised the name before; what is reported is there, and exit 0 means all of it; extraction stays in its limits; artifacts settle one by one (`BuildContract`) | two builds of five plans: two versions of a package with a file and an archive, two architectures, a source archive without digest, an asset without URL, an auxiliary file over an extracted one, a plan of local files with a numeric release, one whose hash is wrong, one whose limits pass the ceiling; packed, with and without a revision, or revised and only staged; every URL serves two contents, of one size or with an archive exactly at both limits and one past them; all failures and kills |
| `discover` | every unit and document is answered whatever failed before; packages of a recipe are of one release; validation leaves no case for "validate should have caught this"; build accepts every hash; equal inputs give equal hashes in another run; another version gives another hash | two runs, two changes by vendors or users; recipes of the five kinds with two or three documents and two architectures, 150 combinations of release, version mode, expression and template, extraction limits at and past their bounds; three directories; targets with unique, colliding and unknown names. The page of releases has two entries in place of 30, and one draft and one prerelease are on it |
| `refresh_stale_all`, `drayman_unpublished`, `export_prefixed` | one disagreement each between the code and what its documents say, section 5 | the smallest instance that shows it |

Every property of a passing run is violated by at least one listed fault of the
code (operators marked "Fault:" in the modules), so none of them holds by the
shape of the model.

*Bounds.* `MaxTime`, `MaxBytes`, `MaxToken`, `MaxCrashes`, `MaxReloads` (Refresh); `MaxDay`,
`MaxBuilds` (Bootstrap); `MaxRel`, `MaxBuild` (SourceFetch); `MaxEdits`
(Generations); `MaxChanges`, `MaxFails` (Export); `MaxRev` (Drayman); `MaxRuns`
(CooperBuild, Discover); `MaxChanges` (Discover). Each is a
guard of the action that counts. In `Refresh` two snapshots are published at
different instants (`Due`): the interval is at least a minute and HTTP dates
count seconds; a reload within one second of a tick is outside the model, and
so is a clock that steps back (also in `Bootstrap`).

`CHECK_DEADLOCK FALSE` is used where a bounded clock or counter, or the end of
the process, stops the system: Refresh, Generations, Export, CooperBuild and
Discover. The last two have safety properties only, and state no fairness.

*Fairness.* Refresh: a supervisor restarts the process, timers fire, running
ticks end (every request has a timeout), and a source that is not `Broken` and
is asked again and again is not failing every time (strong fairness).
SourceFetch: ticks go on and a step that is possible again and again succeeds at
some time. Generations: goroutines run, a mutex is acquired by who waits for it
(strong, as others may take it in between), an edit is followed by SIGHUP; nobody
has to edit, to stop the process, or to break the listener. Export: exports are
started again and again; nobody has to empty a refused directory.

## 4. Proofs

**`BootstrapProofs`**, for any sets of inputs and any number of days and builds.
`TypeCorrect` holds for any writers. Under `SingleWriter` the others follow
from the inductive invariant `IInv`: the record names one package and the file
at its version is that package if it exists (`JsonInv`); a package on its way to
disk is above the recorded one (`BuiltInv`); what is about to be published is
what is recorded (`ReadyInv`); and nothing above the recorded version was ever
served (`IssuedInv`). The last part is what makes versions unique:
`VersionsNeverReused` alone is not inductive, because a rebuild that starts from
an older record would repeat a number. `CacheConsistent`, `SnapshotsCoherent`,
`VersionsUnique`, `InputsCurrent` and the action property `VersionsGrow` are its
corollaries. The clock does not step back to an earlier day.

**`SourceFetchProofs`**, for any number of releases, builds and sizes.
`InductiveInvariant`: types, `VendorInv` (a release that is out has an asset) and
`ReadAfterToken` (everything a tick holds or a state file records lies between
its token and now). `UnchangedIsRight`: if the token changes with every content,
or assets are never replaced, an unchanged token means the state file holds the
control file and the hash of the asset served at that moment, for then both
ends of that interval are one content. `OneDebWhenImmutable`: with immutable
assets hash and control file are of one .deb. Assumed: contents do not come
back, a response carries one content, and a control member put together from
two contents does not decompress.

**`GenerationsProofs`**, for any number of edits. None of the safety properties is
inductive: `OneRefresher` says nothing of a generation whose loop has not
started. `IInv` adds where each generation is. `Counted` bounds the generations
by the SIGHUPs and those by the edits (it gives `TypeOK` its range); `LockHeld`
ties `daemonState.mu` to the places of main and of the reloader; `Numbered` and
`OneLoop` say that the newest generation is the current one or its successor in
the making, and that no other has a loop that may tick; `Keys` and `Stopped` say
who may have wiped what: main wipes the secrets of whatever generation is current
by then, without the lock when the listener failed, and that is safe only
because the context is done before, so a loop started later never ticks;
`Looping` keeps a loop running until the context is done. `OneWriter`,
`KeysOutliveRefreshes`, `LoopSurvivesReload` and `SnapshotsNeverBack` follow.

**`ExportProofs`**, for any wanted exports, changes and failures. `AlwaysClosed`
needs two orders. While files are written, `writeOrder` puts InRelease after the
by-hash entries and the pool (`TopIsLast`), and `Written` says that what is no
longer to be written is there. While files are removed, nothing the export wrote
goes, and when the repository moves below a prefix the lexical order of the
marker takes the old InRelease before what it names (`TopIsLexFirst`,
`TopFirst`), provided the marker lists a whole export (`Listed`).

`CompleteIsExact` needs `Owned`: every file was written by the running export, is
in the marker, or is of a failed export that no marker lists, and a marked file
that is not written again is still to be pruned.

**`RefreshProofs`**, for any sources, suites, clocks, crashes and reloads.

- `TypeCorrect`, from types that also say what each record is about.
- `ListingNeverStale` and `PackagesNeverStale`. That a 304 is truthful is not
  inductive; what is, is that a kept or served file whose Last-Modified is no
  older than every change on disk has what a composition would give now
  (`GoodRelease`, `GoodPackages`), and that a tick under way is later than the last
  publication (`BusyInv`). The first is about what InRelease lists, for all sources,
  since a record carries the time of its change; of the label it is false
  (`NoStaleLabel`, section 5). The second, about one architecture, holds only if no
  source publishes for `all` or for two architectures of the suite (`Native`).
  TLC refutes it for a source that moves between two of them, and for `all`: that
  is finding 1.
- `NeverOlderAfterRestart` and `RestIsHit`, from `ServedInv`: the served
  snapshot was composed from records that the disk still has or has replaced by
  later ones, and its dates are a function of their times. The second needs
  `MovedInv`, too: a record younger than the snapshot is of a source that has
  moved. Nothing is assumed of tokens: that they move with contents only is not
  what the code ensures (`HitWhenUnchanged`, section 5).
- `HashesKept` and `PoolKept`, from `HashInv` and `PoolInv`: the served snapshot has
  what its own InRelease names, and what a client's InRelease names until that
  client's time is up, through any number of compositions. The pool needs
  `OneProvider` (two sources do not give one package for one architecture): else two
  .debs have one pool path. The strict checks of the daemon refuse them in one
  composition, but a source that moves to another architecture leaves its path to
  another source while it is still in its window.

`NoneIsNoRecord` says that the constant that stands for "nothing" is not a record,
which a model value never is. `NilIsNoTree` and `NilIsNoFunction` below are alike.

**`DraymanProofs`**, for any plans, artifacts, revisions, failures, lost replies and
kills. `TypeCorrect` holds for overlapping runs too. The rest is about runs that
do not overlap (`RunsApart`) and recipes of different packages or architectures
(`OneRecipePerKey`); section 5 says what happens otherwise. `Implementation` is the
refinement of `AptArchive`, step by step: an import is an `Add` of the archive, a
publication its `Publish`, everything else a stutter. The invariant follows each
artifact of a plan: it is in one place at a time (`PlanInv`, `PhaseInv`); as long as
its package is on the way, no package of the repository has its hash, its
version or a higher one, and its revision is the next (`FreshInv`: that is what a
second run would break between decision and import); and it is accounted for at
the end (`PlanAccounted`), with an import whose reply was lost counted as
failed (`ImportsCounted`). `OkIsComplete`, `OkIsPublished`, `HashesOnce` and
`VersionsKept` follow.

**`CooperBuildProofs`**, for any plans, servers, archives, options and number of
builds. `TypeCorrect`, and `Implementation`, the refinement of `BuildContract`, need no
hypothesis. The others state what they need of a plan:

- `WithinLimits`: `ArchivesKept`, no archive holds a file of its own name. It is
  extracted into the directory it was downloaded to, so such a file takes its
  place while it is read.
- `NameFollowsVersion`: `NamedByVersion`, a plan names its files as the discovers do. It
  holds for all options; the names that `--stage-only` has revised are the only
  ones that are revised again (section 5).
- `ReportIsTrue`: `KeysApart`, the artifacts of a plan have different packages or
  architectures. cooper checks duplicates within a recipe only; two recipe
  files can be of one package (section 5).
- `PackedAsTold`: `KeysApart` and `NamesApart`, files unpacked into one directory
  have different names. Discovery checks that of downloads (`MatchAssets`,
  `RenderAssetURLs`), nobody does of the contents of archives, where the last one
  wins.
- `SameHashSameDeb`: also `FilesFollowHash`, artifacts with one hash have files of
  the same names in the same order, and the same ones without a URL. The inputs
  hash covers the digests of files and neither their names nor where they go.

The invariants say what is in a staging tree at each moment (`FilesInv`: what the
files before the one at hand stand for, what the archive has yielded so far and,
once staged, the auxiliary files in place of what they replace (`Held`);
exactly that, because a directory of this build is of an artifact reached
already, `DirsInv`), that the archive extracted is the file fetched (`ArchiveInv`),
that the counters stay below the limits (`BoundInv`), that an artifact without .deb
still has the name its plan gave it (`NameInv`), and that the artifact under way
has the digests of its hash (`PinInv`, `ShippedInv`).

**`DiscoverProofs`**, for any recipes, directories, targets, vendors and files. The
core is `Made`: a package of a plan is in error, and not of a kind that validation
rules out, or it is complete, and everything in it is a function of its unit,
one answer of the vendor and the bodies of files (`Pair` for cooper's artifacts).
`CurInv` says so of the artifacts of the document under way, and `StepIs` sorts the
steps of the three tools into eight kinds, so that the later invariants look at
kinds and not at tools. On it rest:

- `HashesAccepted`: discovery computes digests from the source (`SHAs`), build from
  the plan (`ArtifactAssetSHAs`). They differ for a recipe without files, where one
  is an empty list and the other null; validation lets none through
  (`DigestsAgree`).
- `ValidationSuffices`: a lemma for each of the pure steps, that a recipe that loads
  makes it succeed or fail for the vendor's reasons.
- `ReleaseShared`: `ReleaseInv`, the plan has no package of a unit that is to come,
  and those of the unit at hand are of the resolution at hand.
- `NothingLeftOut`: `AnswerInv`, every unit before the one at hand is answered for,
  and the last packages are those of the documents before the one at hand, in
  order.
- `HashIsStable`: from `Made` alone, through different runs.
- `VersionsHashApart`: `DateTellsVersion`, two releases of a forge with one date are
  of one version. The hash has the date of a release and the digests of its
  files; it has the version only if the document does. Two releases published in
  one second, of the same digests or of none, have one hash.

All but the first three use that a run does not start with two units of one path:
`LoadTop` and `normalize` refuse them.

Every invariant and every action property of a passing run is proved, most under
the hypotheses above, which hold in the instances of section 3. Proved and not
among the properties of a run: type correctness of `Bootstrap`, `SourceFetch`,
`Generations` and `Export`, `PublishesCurrentInputs`, `ReadAfterToken`, `LoopRuns`,
`OncePerHash`, `NeverReplaced`, and the inductive invariants, which TLC checked on
the instances of the runs before they were proved.

Only model-checked: the liveness properties (`HealthySourcesServed`,
`EventuallySettled`, `Applied`, `Terminates`, `EventuallyCurrent`), as liveness under
fairness is out of the prover's reach, and the three disagreements of section 5.

## 5. Findings

Shown by runs (`expect: violation`), with the quoted promise in `PROJECT.json`:

1. `refresh_stale_all`: a change of a source of architecture `all` does not move
   the Last-Modified of `binary-<arch>/Packages`, which contain its stanza;
   clients are told 304.
2. `drayman_unpublished`: a run that ends between an import and the publication
   leaves packages that later runs skip by their hash and do not publish, with
   exit 0.
3. `export_prefixed`: `writeOrder` recognises `dists/` only without a path prefix;
   below a prefix InRelease is written first.

Seen while modelling and not kept as runs. Each is visible in the modules:

- `SourcesNeverFatal` (`RefreshStaleAll.cfg` with `ArchsOf <- ForeignPossible`): a
  release for an architecture outside the suite, or of a package another source
  has, is written to its state file before the strict checks refuse it; a
  restarting daemon exits on it every time (`serve.go:69`), where
  `refresher.go:88-90` says that one source must not crash-loop the daemon.
- `OneDeb` (`FetchReplaced.cfg` with `TokenIsContent = FALSE`, `Digested = {1}`,
  `SizeOf <- TwoSizes`): with an announced digest, the recorded hash and control
  file can be of two .debs when the asset is replaced between probe and range
  request, under a token that will not change. `docs/signpost-design.md:429` says
  all of them come from the downloaded .deb.
- A second process on the state directory (`Writers` with two members, the
  daemon and an export) violates `DiskConsistent`; `docs/signpost-design.md:136`
  says there is a single writer, and nothing locks the directory.
- Overlapping runs of drayman (`Runs` with two members) violate `NeverReplaced`:
  both choose one revision, and imports force replacement.
- Two recipe files for one package (`KeyOf` not injective) violate `OncePerHash`:
  the filter of a group knows a package by name and architecture only.
- A file aptly did not import stays in the upload directory and is imported and
  reported with the next one (`ImportUnheard` and its siblings).
- SIGTERM cancels the requests of a running tick, where
  `docs/signpost-design.md:199` says it completes (`TickEnd`).
- The listener starts after the first sweep, where `docs/signpost-design.md:176`
  says before it (`BootRefresh`).
- Entries expire `Retention` after they were composed, not after they were
  replaced; with a longer interval none is ever carried over (`CarryOver`).
- Origin, Label and Description of Release (`index/build.go:194-202`,
  `compose.go:70-77`) have no part in its Last-Modified (`SuiteLM`) and are not
  among the inputs of the bootstrap package (`bootstrap.go:26-35`): after a reload
  that edits them a client is told 304 and keeps the old ones, where
  `docs/signpost-design.md:283-285` promises a 304 when nothing changed.
  `NoStaleLabel` as an invariant of `RefreshCache.cfg` is violated.
- A source counts as changed when its token differs or is missing
  (`refresher.go:297-345`, `latest_url.go:72-88`); its bytes are not compared. A
  re-dated asset, and every tick of a source without tokens, moves Last-Modified
  under unchanged contents, against `docs/signpost-design.md:298-304`.
  `HitWhenUnchanged` as a property of `RefreshCache.cfg` is violated.
- Files of a failed export that no later one writes are never removed (`lost`),
  and after a failed first export every later one is refused (`Refused`).

- `--package b` of `cooper discover`: a recipe that fails to load or to resolve is
  one package in error under its path or its first document, which the filter
  drops (`Wanted`, `cooper/discover/run.go:67`); the plan is empty and the exit
  status 0, where `docs/cooper-design.md:65` says 0 only when every requested
  artifact built.
- One pair of document and architecture that fails makes that document an error
  and no other (`Done`); the comment at `cooper/discover/run.go:81` says that any
  failure collapses the whole recipe, which is so of its loading and its source
  (`OnePackage`).
- chandler fetches a key for every target (`FetchURL`), where
  `docs/chandler-design.md:484` says once for each URL of a run: a rotation in the
  middle gives the packages of one plan different keys.
- `cooper build` downloads a file for each artifact that names it (`Fetch`);
  `docs/cooper-design.md:692` describes a cache that the code does not have.
- Builds are reproducible only for plans with all digests (`Pinned`);
  `docs/cooper-design.md:1083` says so of any plan. drayman skips by hash all the
  same, where `docs/cooper-design.md:783` tells orchestrators to import plans
  without digests unconditionally.
- staves reads each file twice (`ComputeContentEpoch`, `ReadFiles`), and cooper reads
  them for every document and architecture: an edit during a run gives an epoch
  of the old and contents of the new bytes, or two contents in one plan.
- A staged build (`--stage-only`) revises the file name and reports no path
  (`run.go:162-163`, `270-274`), so its plan passes `rejectAnnotatedPlan` and a
  revision is added to a file name that has one, which the comment at
  `run.go:298-303` wants to avoid. `NeverRevisedTwice` as an invariant of
  `CooperBuild.cfg` is violated; `NameIsVersion` says that nothing else revises twice.
- `release:` set to a number is not seen by `validateRevisionable`
  (`run.go:357-358`), and `--revision` overwrites it.
- Two artifacts of one package name and architecture in a plan, from two recipe
  files, violate `Faithful` (`MCPlans` with `P(<<Old, New>>)`): they share a staging
  directory (`Dir`), where the files of the first are still there when the second
  is packed, and an output (`KeysApart`).
- The inputs hash covers no file names: a vendor that renames a file without
  changing it can give another .deb under the same hash (`FilesFollowHash`), which
  drayman skips.
- URLs that end in a slash all have the empty base name in the check for
  collisions (`json_url.go:134`) and another in the plan (`AssetOf`).

## 6. Not modelled

Parsing, formatting, compression, signatures and logging are abstracted
everywhere. Of validation, `Recipe` and `ChandlerDiscover` have the rules that
relate fields; rules about one scalar are a flag. The loader of
`signpost.yaml` is a verdict in `Generations`. The status tracker and drayman's
audit log are only written, or read to be shown.

Not modelled yet: the rate-limit bucket, generation of the signing key and the
external signer, the reprepro backend of drayman, comparing the characters of
Debian versions. In the discovers: a Debian epoch in the sidecar, an asset
without a URL, git provenance (not in the hash), the process of an external
script beyond its reply and its failure, and a run killed before it has written
its plan, which leaves nothing. In the build: file modes, the syntax of names in
an archive, and downloads without end (there is no timeout).

Limits that are assumptions of a module or of its instance: a digest in a plan is
null or a digest, never an empty string, which build would neither compare nor
record (no discover writes one: `cooper/discover/run.go:668`, `761`). No file is
written where an archive has put a link (`NothingThroughLinks`): build checks the
targets of links one by one and by their text (`archive.go:369-399`), and what a
chain of links resolves to, or a file written through one, is not modelled. The
pool is checked by source and version: where a vendor replaces the .deb of a
version, the redirect leads to the new one before the next tick has seen it,
which signpost cannot prevent. Two artifacts of one package and architecture are
left out of the instance of `CooperBuild` (section 5).

## 7. Plan

Done, in the order of importance: Bootstrap, Refresh, Drayman with
AptArchive, SourceFetch, Generations, Export, CooperBuild with BuildContract, the
three discovers, each with its proofs.

Next theorems: what the components assume of each other. A plan as `Discover` emits
it satisfies `NamedByVersion` of `CooperBuild`; the other hypotheses on plans hold
for one recipe without archives. `Generations` gives `SingleWriter` of `Bootstrap`.

Next modules: `Reprepro`, the second backend, as another implementation of
`AptArchive`; `EnsureKey`, generation of the signing key and publication of its
public half; `Bucket`, the token bucket shared by sources; `DebianVersion`,
dpkg's order against a reference definition.
