----------------------------- MODULE CooperBuild ------------------------------
(***************************************************************************)
(* `cooper build` (internal/cooper/build): every artifact of a plan, one   *)
(* after the other, is verified, downloaded, extracted and staged below a  *)
(* new run directory, and packed into the output directory.                *)
(*                                                                         *)
(* The .deb is the staged tree: its files and their mtime, nfpm.yaml, and  *)
(* so the version and the hash.  Servers answer with any of the contents a *)
(* URL has over time, or fail; a process can be killed between any two     *)
(* steps, and builds follow one another.                                   *)
(*                                                                         *)
(* One field of a plan, refused, stands for what only depends on the plan  *)
(* and fails an artifact: an owner other than root.                        *)
(***************************************************************************)
EXTENDS Plan, Naturals

CONSTANTS
    Plans,      \* the plans that discovers emit: [arts, broken]
    Refeed,     \* whether the plan a build emits may be built, too
    Options,    \* [rev, stage, keep] of a command line
    Offers,     \* the contents that each URL serves over time
    EntriesOf,  \* the entries of an archive's contents: [name, kind, data]
    Default,    \* extraction limits, [bytes, files], of a plan without any
    Ceiling,    \* and the highest ones
    MaxRuns,    \* bound on the builds
    Torn        \* a file that is not complete

Limits == [bytes : Nat, files : Nat]

\* What the decoder makes of a file and of an artifact of a plan.  A URL is Nil
\* when it is empty; a digest is Nil or one, and never an empty string.
File(f) ==
    /\ DOMAIN f = {"url", "name", "sha", "size", "archive", "dir"}
    /\ f.url \in DOMAIN Offers \cup {Nil}
    /\ f.dir \in {"asset", "source"} /\ f.archive \in BOOLEAN
Artifact(a) ==
    /\ DOMAIN a = {"pkg", "arch", "assets", "plan", "hash", "file", "path", "result", "extract"}
    /\ List(a.assets) /\ \A i \in DOMAIN a.assets : File(a.assets[i])
    /\ a.result \in {"", "error"} /\ a.extract \in Limits
Artifacts(as) == List(as) /\ \A i \in DOMAIN as : Artifact(as[i])

Entry(e) == e.kind \in {"pax", "dir", "file", "link", "bad"} /\ e.data.size \in Nat

\* Every entry of every archive, and the names of the links among them.
AllEntries == UNION {{EntriesOf[c][k] : k \in DOMAIN EntriesOf[c]} :
                        c \in UNION {Offers[u] : u \in DOMAIN Offers}}
Links == {e.name : e \in {x \in AllEntries : x.kind = "link"}}

ASSUME CooperBuildAssumption ==
    /\ MaxRuns \in Nat /\ Refeed \in BOOLEAN
    /\ \A o \in Options : o.rev \in Nat
    /\ \A p \in Plans : p.broken \in BOOLEAN /\ Artifacts(p.arts)
    /\ Nil \notin DOMAIN Offers
    /\ Default \in Limits /\ Ceiling \in Limits
    /\ \A u \in DOMAIN Offers : \A c \in Offers[u] :
         List(EntriesOf[c]) /\ \A k \in DOMAIN EntriesOf[c] : Entry(EntriesOf[c][k])

\* A bound of the model: no file is written where an archive has put a link, so
\* that none is written through one.
ASSUME NothingThroughLinks ==
    /\ \A e \in AllEntries : e.kind = "file" => e.name \notin Links
    /\ \A p \in Plans : \A i \in DOMAIN p.arts :
         /\ \A j \in DOMAIN p.arts[i].assets : p.arts[i].assets[j].name \notin Links
         /\ \A dir \in {"asset", "source"} : DOMAIN p.arts[i].plan.aux[dir] \cap Links = {}

VARIABLES
    remote,   \* what each URL serves
    dist,     \* the output directory: the .deb of a name, or Torn
    trees,    \* the work directory: staging trees
    runs,     \* number of builds started; names the run directory
    pc,       \* "idle", "verify", "fetch", "extract", "pack" or "write"
    opts,     \* Options
    arts,     \* the artifacts of the plan, annotated as they are built
    broken,   \* whether the plan has a package that failed discovery
    at,       \* [art, file, entry]: where the build is
    used,     \* [bytes, files] extracted from the archive
    exit,     \* how the last build ended: "none", "ok", "error" or "killed"
    shipped,  \* history: the artifact, revision and .deb of every one reported
    staged    \* history: the names that --stage-only has revised

position == <<pc, at, used>>
run == <<runs, opts, broken>>
vars == <<remote, dist, trees, run, position, arts, exit, shipped, staged>>

Put(f, x, v) == [y \in DOMAIN f \cup {x} |-> IF y = x THEN v ELSE f[y]]
Without(f, S) == [y \in DOMAIN f \ S |-> f[y]]

art == arts[at.art]
file == art.assets[at.file]

\* The name of an artifact's .deb.  reviseFilename adds the revision.
DebName(a, rev) ==
    <<a.pkg, IF rev = 0 THEN a.file ELSE Append(a.file, rev), a.arch>>

\* Fault: one work directory for all builds.
DirShared(a) == <<0, a.pkg, a.arch>>

\* <work>/<run id>/<package>/<arch>
Dir(a) == <<runs, a.pkg, a.arch>>

Tree == trees[Dir(art)]
EmptyTree == [asset |-> <<>>, source |-> <<>>, aux |-> <<>>, nfpm |-> Nil, mtime |-> Nil]

\* Writing a file sets its mtime to the time of this build.
WriteFile(dir, name, content) ==
    trees' = [trees EXCEPT ![Dir(art)] =
                 [Tree EXCEPT ![dir] = Put(Tree[dir], name, content), !.mtime = runs]]

Init ==
    /\ remote \in [DOMAIN Offers -> UNION {Offers[u] : u \in DOMAIN Offers}]
    /\ \A u \in DOMAIN Offers : remote[u] \in Offers[u]
    /\ dist = <<>> /\ trees = <<>> /\ runs = 0 /\ shipped = {} /\ staged = {}
    /\ pc = "idle" /\ arts = <<>> /\ broken = FALSE /\ exit = "none"
    /\ opts = [rev |-> 0, stage |-> FALSE, keep |-> FALSE]
    /\ at = [art |-> 1, file |-> 1, entry |-> 1]
    /\ used = [bytes |-> 0, files |-> 0]

-----------------------------------------------------------------------------
(* The start and the end of a build.                                       *)

\* Fault: a plan is annotated if all its artifacts are.
rejectAnnotatedAll(p) == p.arts # <<>> /\ \A i \in DOMAIN p.arts : p.arts[i].path # Nil

\* An annotated plan: one with a deb.path.
rejectAnnotatedPlan(p) == \E i \in DOMAIN p.arts : p.arts[i].path # Nil

\* The revision is not cooper's to set: the version has a "-", or release is a
\* string that is not empty.  A number is not seen, and is overwritten.
validateRevisionable(p) ==
    \A i \in DOMAIN p.arts :
        LET bp == p.arts[i].plan
        IN ~bp.dashed /\ ~(bp.release.text /\ bp.release.rev > 0)

Accepted(p, o) ==
    /\ ~(o.stage /\ o.keep)
    /\ ~rejectAnnotatedPlan(p)
    /\ o.rev > 0 => validateRevisionable(p)

Sources == Plans \cup (IF Refeed /\ exit \in {"ok", "error"}
                       THEN {[arts |-> arts, broken |-> broken]} ELSE {})

Start(p, o) ==
    /\ pc = "idle" /\ runs < MaxRuns /\ p \in Sources /\ Accepted(p, o)
    /\ runs' = runs + 1
    /\ opts' = o /\ arts' = p.arts /\ broken' = p.broken
    /\ pc' = "verify" /\ at' = [art |-> 1, file |-> 1, entry |-> 1]
    /\ exit' = "none"
    /\ UNCHANGED <<remote, dist, trees, used, shipped, staged>>

\* The run refuses the plan, and builds none of it.
Refuse(p, o) ==
    /\ pc = "idle" /\ p \in Sources /\ ~Accepted(p, o)
    /\ exit' = "killed"
    /\ UNCHANGED <<remote, dist, trees, run, position, arts, shipped, staged>>

\* Fault: a failed package of the plan is not counted.
AnyArtifactFailedBuilt == \E i \in DOMAIN arts : arts[i].result = "error"

AnyArtifactFailed == broken \/ \E i \in DOMAIN arts : arts[i].result = "error"

\* Removes the run directory unless it was asked for.
Cleaned == IF opts.stage \/ opts.keep THEN trees
           ELSE Without(trees, {d \in DOMAIN trees : d[1] = runs})

Finish ==
    /\ pc = "verify" /\ at.art > Len(arts)
    /\ pc' = "idle" /\ trees' = Cleaned
    /\ exit' = IF AnyArtifactFailed THEN "error" ELSE "ok"
    /\ UNCHANGED <<remote, dist, run, at, used, arts, shipped, staged>>

\* The process is killed; nothing is cleaned and no plan is written.
Crash ==
    /\ pc # "idle"
    /\ pc' = "idle" /\ exit' = "killed"
    /\ UNCHANGED <<remote, dist, trees, run, at, used, arts, shipped, staged>>

-----------------------------------------------------------------------------
(* One artifact.                                                           *)

\* On to the next artifact.
NextArtifact == pc' = "verify" /\ at' = [art |-> at.art + 1, file |-> 1, entry |-> 1]

\* Fault: the first failure ends the run.
FailAll ==
    /\ arts' = [arts EXCEPT ![at.art].result = "error"]
    /\ pc' = "verify" /\ at' = [art |-> Len(arts) + 1, file |-> 1, entry |-> 1]
    /\ UNCHANGED <<remote, run, used, exit, shipped, staged>>

\* The artifact is an error, its siblings are still built.
Fail ==
    /\ arts' = [arts EXCEPT ![at.art].result = "error"]
    /\ NextArtifact
    /\ UNCHANGED <<remote, run, used, exit, shipped, staged>>

\* Fault: no directories are made for an artifact without assets.
VerifyUnstaged ==
    /\ pc = "verify" /\ at.art <= Len(arts)
    /\ IF VerifyBuildInputsHash(art) /\ ~art.plan.refused
       THEN /\ pc' = "fetch"
            /\ trees' = IF Dir(art) \in DOMAIN trees \/ art.assets = <<>> THEN trees
                        ELSE Put(trees, Dir(art), EmptyTree)
            /\ UNCHANGED <<remote, dist, run, at, used, arts, exit, shipped, staged>>
       ELSE Fail /\ UNCHANGED <<dist, trees>>

\* The hash is verified, the staging directories are made.
Verify ==
    /\ pc = "verify" /\ at.art <= Len(arts)
    /\ IF VerifyBuildInputsHash(art) /\ ~art.plan.refused
       THEN /\ pc' = "fetch"
            /\ trees' = IF Dir(art) \in DOMAIN trees THEN trees
                        ELSE Put(trees, Dir(art), EmptyTree)
            /\ UNCHANGED <<remote, dist, run, at, used, arts, exit, shipped, staged>>
       ELSE Fail /\ UNCHANGED <<dist, trees>>

\* Fault: the digest is compared only when the plan has no size.
VerifySHA256Unsized(expected, got) ==
    expected = Nil \/ file.size > 0 \/ expected = got

VerifySHA256(expected, got) == expected = Nil \/ expected = got

\* A size of 0 is not checked.
SizeMatches(got) == file.size = 0 \/ file.size = got.size

\* An asset without a URL is passed over; a source archive without one fails.
Skipped(f) == f.url = Nil /\ f.dir = "asset"

Skip ==
    /\ pc = "fetch" /\ at.file <= Len(art.assets) /\ Skipped(file)
    /\ at' = [at EXCEPT !.file = @ + 1]
    /\ UNCHANGED <<remote, dist, trees, run, pc, used, arts, exit, shipped, staged>>

\* One file is downloaded in full, compared with the plan, and its digest
\* recorded if the plan had none.
Fetch ==
    /\ pc = "fetch" /\ at.file <= Len(art.assets) /\ file.url # Nil
    /\ WriteFile(file.dir, file.name, remote[file.url])
    /\ LET got == remote[file.url] IN
       IF SizeMatches(got) /\ VerifySHA256(file.sha, got)
       THEN /\ arts' = [arts EXCEPT ![at.art].assets[at.file].sha = got]
            /\ IF file.archive
               THEN /\ pc' = "extract" /\ at' = [at EXCEPT !.entry = 1]
                    /\ used' = [bytes |-> 0, files |-> 0]
               ELSE /\ at' = [at EXCEPT !.file = @ + 1]
                    /\ UNCHANGED <<pc, used>>
            /\ UNCHANGED <<remote, dist, run, exit, shipped, staged>>
       ELSE Fail /\ UNCHANGED dist

\* The request fails, or ends early and leaves part of the file.
FetchFails ==
    /\ pc = "fetch" /\ at.file <= Len(art.assets) /\ ~Skipped(file)
    /\ UNCHANGED trees \/ WriteFile(file.dir, file.name, Torn)
    /\ Fail /\ UNCHANGED dist

-----------------------------------------------------------------------------
(* Extraction of the archive that Fetch left in its directory.             *)

Archive == Tree[file.dir][file.name]
Entries == EntriesOf[Archive]
entry == Entries[at.entry]

LimitOf(l, k) == IF l[k] = 0 THEN Default[k] ELSE l[k]
MaxBytes == LimitOf(art.extract, "bytes")
MaxFiles == LimitOf(art.extract, "files")
OverCeiling == MaxBytes > Ceiling.bytes \/ MaxFiles > Ceiling.files

\* Fault: the bytes of earlier entries are not subtracted.
RemainingOfAll == MaxBytes

Remaining == MaxBytes - used.bytes

\* What an entry of this size leaves on disk: one byte past the limit at most.
Size == IF entry.kind = "file" THEN entry.data.size ELSE 0
Written == IF Size > Remaining THEN Remaining + 1 ELSE Size

\* A link is made only where nothing is.
Clashes == entry.kind = "link" /\ entry.name \in DOMAIN Tree[file.dir]

\* One entry.  PAX headers are not counted; names that leave the directory,
\* devices and setuid files are kind "bad".
Extract ==
    /\ pc = "extract" /\ at.entry <= Len(Entries) /\ ~OverCeiling
    /\ IF entry.kind = "pax"
       THEN /\ at' = [at EXCEPT !.entry = @ + 1]
            /\ UNCHANGED <<remote, dist, trees, run, pc, used, arts, exit, shipped, staged>>
       ELSE IF used.files + 1 > MaxFiles \/ entry.kind = "bad" \/ Clashes
       THEN Fail /\ UNCHANGED <<dist, trees>>
       ELSE /\ IF entry.kind = "dir" THEN UNCHANGED trees
               ELSE WriteFile(file.dir, entry.name, entry.data)
            /\ used' = [bytes |-> used.bytes + Written, files |-> used.files + 1]
            /\ IF Size > Remaining
               THEN /\ arts' = [arts EXCEPT ![at.art].result = "error"] /\ NextArtifact
               ELSE /\ at' = [at EXCEPT !.entry = @ + 1]
                    /\ UNCHANGED <<pc, arts>>
            /\ UNCHANGED <<remote, dist, run, exit, shipped, staged>>

\* Limits above the ceiling, or an archive that cannot be read.
ExtractFails ==
    /\ pc = "extract" /\ (OverCeiling \/ at.entry <= Len(Entries))
    /\ Fail /\ UNCHANGED <<dist, trees>>

\* The end of the archive, which is removed.
Extracted ==
    /\ pc = "extract" /\ ~OverCeiling /\ at.entry > Len(Entries)
    /\ trees' = [trees EXCEPT ![Dir(art)][file.dir] = Without(@, {file.name})]
    /\ pc' = "fetch" /\ at' = [at EXCEPT !.file = @ + 1]
    /\ UNCHANGED <<remote, dist, run, used, arts, exit, shipped, staged>>

-----------------------------------------------------------------------------
(* Staging and packing.                                                    *)

\* What build writes into the document of the plan: the hash and the release.
NfpmYAML ==
    [ver |-> art.plan.ver, doc |-> art.plan.doc, hash |-> art.hash,
     release |-> IF opts.rev > 0 THEN opts.rev ELSE art.plan.release.rev]

PinMtimes(t) == [t EXCEPT !.mtime = art.plan.epoch]

\* An auxiliary file replaces what is there under its name.
Over(f, g) == [x \in DOMAIN f \cup DOMAIN g |-> IF x \in DOMAIN g THEN g[x] ELSE f[x]]

\* Their keys start at the staging directory, and may lead to the downloads.
WriteAuxFiles(t) == [t EXCEPT !.asset = Over(t.asset, art.plan.aux.asset),
                              !.source = Over(t.source, art.plan.aux.source),
                              !.aux = art.plan.aux.top]

\* The auxiliary files and then nfpm.yaml are written and the mtimes set.  With
\* --stage-only this is all, and the name it reports is revised all the same.
Stage ==
    /\ pc = "fetch" /\ at.file > Len(art.assets)
    /\ trees' = [trees EXCEPT ![Dir(art)] =
                    PinMtimes([WriteAuxFiles(@) EXCEPT !.nfpm = NfpmYAML])]
    /\ IF opts.stage
       THEN /\ NextArtifact
            /\ arts' = [arts EXCEPT ![at.art].file = DebName(art, opts.rev)[2]]
            /\ staged' = IF opts.rev > 0 THEN staged \cup {DebName(art, opts.rev)[2]} ELSE staged
       ELSE pc' = "pack" /\ UNCHANGED <<at, arts, staged>>
    /\ UNCHANGED <<remote, dist, run, used, exit, shipped>>

\* Staging fails, nfpm refuses the document or the output cannot be opened.
StageFails ==
    /\ pc \in {"fetch", "pack"} /\ (pc = "fetch" => at.file > Len(art.assets))
    /\ Fail /\ UNCHANGED <<dist, trees>>

\* The output is opened, and emptied.
PackOpens ==
    /\ pc = "pack"
    /\ dist' = Put(dist, DebName(art, opts.rev), Torn)
    /\ pc' = "write"
    /\ UNCHANGED <<remote, trees, run, at, used, arts, exit, shipped, staged>>

\* What was written is removed; or it is complete, and cannot be read back.
PackFails ==
    /\ pc = "write"
    /\ \/ dist' = Without(dist, {DebName(art, opts.rev)})
       \/ dist' = Put(dist, DebName(art, opts.rev), Tree)
    /\ Fail /\ UNCHANGED trees

\* The .deb is written, digested and reported.  Its result is what the plan
\* said, nothing, or the error of a build whose output is built again.
Pack ==
    /\ pc = "write"
    /\ dist' = Put(dist, DebName(art, opts.rev), Tree)
    /\ arts' = [arts EXCEPT ![at.art] =
                   [@ EXCEPT !.file = DebName(art, opts.rev)[2], !.path = Tree]]
    /\ shipped' = shipped \cup {[art |-> arts'[at.art], rev |-> opts.rev, deb |-> Tree]}
    /\ NextArtifact
    /\ UNCHANGED <<remote, trees, run, used, exit, staged>>

\* The vendor replaces what a URL serves.
Republish(u) ==
    /\ \E c \in Offers[u] \ {remote[u]} : remote' = [remote EXCEPT ![u] = c]
    /\ UNCHANGED <<dist, trees, run, position, arts, exit, shipped, staged>>

Next ==
    \/ \E p \in Sources, o \in Options : Start(p, o) \/ Refuse(p, o)
    \/ Verify \/ Skip \/ Fetch \/ FetchFails \/ Extract \/ ExtractFails \/ Extracted
    \/ Stage \/ StageFails \/ PackOpens \/ PackFails \/ Pack
    \/ Finish \/ Crash
    \/ \E u \in DOMAIN Offers : Republish(u)

Spec == Init /\ [][Next]_vars

-----------------------------------------------------------------------------
(* Properties.                                                             *)

\* Type correctness of the builds, the work and the output directory.
TypeOK ==
    /\ pc \in {"idle", "verify", "fetch", "extract", "pack", "write"}
    /\ exit \in {"none", "ok", "error", "killed"} /\ broken \in BOOLEAN
    /\ runs \in 0..MaxRuns /\ opts.rev \in Nat
    /\ at.art \in 1..(Len(arts) + 1)
    /\ pc \in {"fetch", "extract", "pack", "write"} => Dir(art) \in DOMAIN trees
    /\ \A i \in DOMAIN arts : arts[i].result \in {"", "error"}

Files(dir) == {<<n, dir[n]>> : n \in DOMAIN dir}

\* What the digests of an artifact say is in one of its two directories.
Declared(assets, dir) == UNION {
    IF assets[i].archive
    THEN {<<e.name, e.data>> : e \in {f \in
             {EntriesOf[assets[i].sha][k] : k \in DOMAIN EntriesOf[assets[i].sha]} :
                f.kind \in {"file", "link"}}}
    ELSE {<<assets[i].name, assets[i].sha>>} :
        i \in {j \in DOMAIN assets : assets[j].dir = dir /\ assets[j].url # Nil}}

\* A .deb holds the files that the digests of its artifact name, complete, but
\* for those its auxiliary files replace, and no others: nothing an earlier or a
\* killed build, another version or an archive that failed to extract has left
\* in the work directory.
Faithful == \A s \in shipped : \A dir \in {"asset", "source"} :
    LET aux == s.art.plan.aux[dir] IN
    Files(s.deb[dir]) = {f \in Declared(s.art.assets, dir) : f[1] \notin DOMAIN aux} \cup Files(aux)

\* Two builds of one inputs hash under one revision give the same .deb, if the
\* plan had the digest of every file, whatever the servers served meanwhile.
Reproducible == \A s, t \in shipped :
    s.art.hash = t.art.hash /\ s.rev = t.rev /\ Pinned(s.art.hash) => s.deb = t.deb

\* The file name of a revised .deb has the version and the revision of its
\* control file, once, whatever plan is built again; but a name that a build
\* with --stage-only has revised, and that has no .deb, can be revised again.
NameIsVersion == \A s \in shipped : s.rev > 0 =>
    \/ s.art.file = <<s.deb.nfpm.ver, s.deb.nfpm.release>>
    \/ \E n \in staged : s.art.file = Append(n, s.rev)

\* A build that was not killed leaves every .deb it reports where it says; if
\* it exits 0, that is one for every artifact, and no package had failed.
ReportedIsThere == pc = "idle" /\ exit \in {"ok", "error"} =>
    /\ \A i \in DOMAIN arts : arts[i].path # Nil =>
          dist[DebName(arts[i], 0)] = arts[i].path
    /\ exit = "ok" => ~broken /\ \A i \in DOMAIN arts : opts.stage \/ arts[i].path # Nil

\* What is extracted from an archive never passes the limits of its artifact,
\* but for the byte that shows it would.
ExtractBounded ==
    /\ pc = "extract" /\ ~OverCeiling => used.bytes <= MaxBytes /\ used.files <= MaxFiles
    /\ used.bytes <= Ceiling.bytes + 1 /\ used.files <= Ceiling.files

Results == IF exit = "killed" THEN <<>>
           ELSE [i \in DOMAIN arts |->
                    IF i >= at.art THEN "pending"
                    ELSE IF arts[i].result = "error" THEN "error" ELSE "ok"]

\* What the comment on rejectAnnotatedPlan (run.go:298-303) claims, and a build
\* of what --stage-only emitted does not keep: no revision is applied twice.
NeverRevisedTwice == \A s \in shipped : s.rev > 0 =>
    s.art.file = <<s.deb.nfpm.ver, s.deb.nfpm.release>>

Contract == INSTANCE BuildContract WITH running <- pc # "idle", results <- Results

\* Artifacts are settled one by one, each by itself.
ImplementsContract == Contract!Spec

===============================================================================
