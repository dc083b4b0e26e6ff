---------------------------- MODULE CooperDiscover ----------------------------
(***************************************************************************)
(* `cooper discover` (internal/cooper/discover): a recipe is loaded, its   *)
(* source asked once, and every pair of a document and an architecture     *)
(* becomes an artifact.  A recipe that does not load or resolve is one     *)
(* package in error; a pair that fails, the document's.                    *)
(***************************************************************************)
EXTENDS Discover

CooperBegin == config.tool = "cooper" /\ Begin(LoadTop(config))

\* The recipe is read and the files of all its documents found.
Load ==
    /\ config.tool = "cooper" /\ pc = "load" /\ todo # <<>>
    /\ LET walked == [i \in DOMAIN unit.docs |-> Walk(unit.docs[i], disk)]
           failed == {i \in DOMAIN walked : walked[i].err # ""}
           first == CHOOSE i \in failed : \A j \in failed : i <= j
       IN IF ~LoadPackage(unit) THEN Answer(errPkg(unit.path, "discovery"))
          ELSE IF failed # {} THEN Answer(errPkg(unit.docs[first].name, "aux"))
          ELSE Continue("resolve", [i \in DOMAIN walked |-> walked[i].val])

\* The source is asked, once for all documents and architectures.
Resolve ==
    /\ pc = "resolve"
    /\ LET res == ResolveSource(unit, net[unit.url]) IN
       IF res.err # "" THEN Answer(errPkg(unit.docs[1].name, res.err))
       ELSE Continue("artifacts",
                [refs |-> cur, res |-> res.val, doc |-> 1, arch |-> 1, arts |-> <<>>])

\* The request fails, or the script does, or runs out of its time.
ResolveFails == pc = "resolve" /\ Answer(errPkg(unit.docs[1].name, "discovery"))

doc == unit.docs[cur.doc]
arch == unit.archNames[cur.arch]

\* What a template sees, besides the name of the document.
TemplateVars(res) == [version |-> res.version, arch |-> arch, published |-> res.epoch]

\* The digests: a forge's as the plan has them, a script's, or none for each URL.
SHAs(assets) ==
    IF Forge(unit) THEN ArtifactAssetSHAs(assets)
    ELSE IF unit.sources = {"external"} THEN <<assets[1].sha>>
    ELSE [i \in DOMAIN assets |-> Nil]

\* Assets, document and files, in this order: the first that fails fails the pair.
BuildArtifact(res) ==
    LET assets == AssetsOf(unit, arch, res)
        nfpm == SubstituteNfpm(doc, arch, res.version, unit.arches[arch].vars)
        aux == MaterializeAuxFiles(cur.refs[cur.doc], disk, TemplateVars(res))
        bp == [epoch |-> res.epoch, nfpm |-> nfpm.val, aux |-> aux.val]
    IN IF assets.err # "" THEN assets ELSE IF nfpm.err # "" THEN nfpm
       ELSE IF aux.err # "" THEN aux
       ELSE Ok(Artifact(doc.name, res.version, arch, assets.val, SHAs(assets.val), bp,
                        unit.extract))

\* Fault: the release is looked up again for every document.
ReleaseNow == LET now == ResolveSource(unit, net[unit.url])
              IN IF cur.doc = 1 \/ now.err # "" THEN cur.res ELSE now.val

\* What was resolved.
ReleaseThen == cur.res

\* Fault: a document that fails is the recipe's answer.
DoneFirst(pkg) == Answer(pkg)

\* Fault: off by one.
DoneLate(pkg) ==
    IF cur.doc > Len(unit.docs) THEN Answer(pkg)
    ELSE /\ Report(pkg)
         /\ cur' = [cur EXCEPT !.doc = @ + 1, !.arch = 1, !.arts = <<>>]
         /\ UNCHANGED <<config, world, todo, pc, exit, runs, emitted>>

\* A document is done.
Done(pkg) ==
    IF cur.doc = Len(unit.docs) THEN Answer(pkg)
    ELSE /\ Report(pkg)
         /\ cur' = [cur EXCEPT !.doc = @ + 1, !.arch = 1, !.arts = <<>>]
         /\ UNCHANGED <<config, world, todo, pc, exit, runs, emitted>>

\* One document and architecture.
Build ==
    /\ pc = "artifacts"
    /\ LET art == BuildArtifact(ReleaseThen) IN
       IF art.err # "" THEN Done(errPkg(doc.name, art.err))
       ELSE IF cur.arch < Len(unit.archNames)
       THEN Continue(pc, [cur EXCEPT !.arch = @ + 1, !.arts = Append(@, art.val)])
       ELSE Done(Package(doc.name, cur.res, Append(cur.arts, art.val), Nil))

CooperNext == CooperBegin \/ Load \/ Resolve \/ ResolveFails \/ Build

===============================================================================
