---------------------------- MODULE StavesDiscover ----------------------------
(***************************************************************************)
(* `staves discover` (internal/staves/discover): a directory of local      *)
(* files is a package.  Its epoch is taken from the files, which are then  *)
(* read again, into the plan.                                              *)
(***************************************************************************)
EXTENDS Discover

StavesBegin == config.tool = "staves" /\ Begin(LoadTop(config))

\* Nothing is downloaded, so nothing may be said to be.
RejectAssetishSrcs(d) == \A s \in d.srcs : s.kind \notin {"absolute", "variable"}

\* The document is loaded and its files found; named, versions and alone, it loads.
LoadDirectory ==
    /\ config.tool = "staves" /\ pc = "load" /\ todo # <<>>
    /\ LET refs == Walk(unit, disk) IN
       IF ~unit.fields \/ ~MatchesDebianGrammar(unit.version)
       THEN Answer(errPkg(unit.path, "discovery"))
       ELSE IF ~RejectAssetishSrcs(unit) \/ refs.err # ""
       THEN Answer(errPkg(unit.name, "aux"))
       ELSE Continue("epoch", refs.val)

Nfpm == [doc |-> unit.name, version |-> unit.version, arch |-> unit.arch, vars |-> <<>>]

\* Of the document and the files as they are, templates not rendered.
ComputeContentEpoch ==
    /\ pc = "epoch"
    /\ IF \E f \in cur : disk[f] = Nil THEN Answer(errPkg(unit.name, "discovery"))
       ELSE Continue("read", [f \in cur |-> disk[f]])

ReadFiles ==
    /\ pc = "read"
    /\ LET epoch == <<Nfpm, cur>>
           aux == MaterializeAuxFiles(DOMAIN cur, disk,
                      [version |-> unit.version, arch |-> unit.arch, published |-> epoch])
           bp == [epoch |-> epoch, nfpm |-> Nfpm, aux |-> aux.val]
           art == Artifact(unit.name, unit.version, unit.arch, <<>>, Nil, bp, Nil)
       IN IF aux.err # "" THEN Answer(errPkg(unit.name, "aux"))
          ELSE Answer(Package(unit.name, Nil, <<art>>, cur))

StavesNext == StavesBegin \/ LoadDirectory \/ ComputeContentEpoch \/ ReadFiles

===============================================================================
