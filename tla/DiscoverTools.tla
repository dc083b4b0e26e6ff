----------------------------- MODULE DiscoverTools ----------------------------
(***************************************************************************)
(* The three discovers, of which a configuration is for one, and what is   *)
(* asked of them.                                                          *)
(***************************************************************************)
EXTENDS CooperDiscover, StavesDiscover, ChandlerDiscover

Next == CooperNext \/ StavesNext \/ ChandlerNext \/ Finish \/ Environment

Spec == Init /\ [][Next]_vars

-----------------------------------------------------------------------------

\* Type correctness of the run and of where it is.
TypeOK ==
    /\ config \in Configs
    /\ pc \in {"idle", "load", "resolve", "artifacts", "epoch", "read", "keys"}
    /\ pc \notin {"idle", "load"} => todo # <<>>
    /\ pc = "artifacts" => /\ cur.doc \in DOMAIN unit.docs
                           /\ cur.arch \in DOMAIN unit.archNames
                           /\ Len(cur.arts) = cur.arch - 1
    /\ exit \in {"none", "ok", "error"}
    /\ runs \in 0..MaxRuns /\ changes \in 0..MaxChanges

AnswersOf(u) == {k \in DOMAIN plan : plan[k].of = u.path}

Complete(u, pkg) == Len(pkg.arts) =
    IF config.tool = "cooper" THEN Len(u.archNames) ELSE 1

OnePackage(u) == \E k \in DOMAIN plan :
    AnswersOf(u) = {k} /\ (config.tool = "cooper" => plan[k].result = "error")

OnePerDoc(u) == config.tool = "cooper" /\ \E n \in 0..Len(plan) :
    /\ AnswersOf(u) = {n + d : d \in DOMAIN u.docs}
    /\ \A d \in DOMAIN u.docs : plan[n + d].name = u.docs[d].name

\* A plan answers every unit: with one package in error, or, in order, with one
\* for every document, each in error or with an artifact for every
\* architecture.  Nothing is left out, whatever failed before it.
EveryDocAnswered ==
    pc = "idle" /\ exit # "none" /\ plan # <<>> /\ config.filter = Nil =>
        \A i \in DOMAIN config.units : LET u == config.units[i] IN
            /\ OnePackage(u) \/ OnePerDoc(u)
            /\ \A k \in AnswersOf(u) : plan[k].result = "ok" => Complete(u, plan[k])

\* The packages of a recipe are of one release, also if the vendor publishes
\* another one meanwhile: they have its version and, on an architecture, the
\* same files.
OneRelease ==
    config.tool = "cooper" => \A i, j \in DOMAIN plan : plan[i].of = plan[j].of =>
        \A k \in DOMAIN plan[i].arts, l \in DOMAIN plan[j].arts :
            LET a == plan[i].arts[k]
                b == plan[j].arts[l]
            IN /\ a.file[2] = b.file[2]
               /\ a.arch = b.arch => a.assets = b.assets

\* What the validation lets through is enough for what comes after: it is never
\* met by a case that "validate should have caught", and build never refuses
\* its extraction limits.
ValidatedEnough ==
    \A i \in DOMAIN plan :
        /\ plan[i].kind # "bug"
        /\ \A k \in DOMAIN plan[i].arts : LET e == plan[i].arts[k].extract IN
              e # Nil => (e.bytes = Nil \/ e.bytes <= Highest.bytes) /\ e.files <= Highest.files

\* `cooper build` accepts the inputs hash of every artifact of every tool.
BuildAccepts == \A i \in DOMAIN plan : \A k \in DOMAIN plan[i].arts :
    VerifyBuildInputsHash(plan[i].arts[k])

Artifacts == UNION {{[pkg |-> p.name, of |-> p.of, source |-> p.source, read |-> p.read,
                      art |-> p.arts[k]] : k \in DOMAIN p.arts} : p \in emitted}

SameDeb(x, y) == x.pkg = y.pkg /\ x.of = y.of /\ x.art.arch = y.art.arch

\* The files did not change between the two times that staves reads them.
Undisturbed(x) == config.tool = "staves" =>
    x.read = [f \in DOMAIN x.read |-> x.art.plan.aux[f].body]

Contents(x) == IF config.tool = "chandler" THEN x.art.plan.aux
               ELSE [f \in DOMAIN x.art.plan.aux |-> x.art.plan.aux[f].body]

\* Another run with the same answers of the vendors and the same files has the
\* same hash, so that nothing is built or published again.
Stable == \A x, y \in {a \in Artifacts : Undisturbed(a)} :
    (SameDeb(x, y) /\ x.source = y.source /\ Contents(x) = Contents(y))
        => x.art.hash = y.art.hash

\* Another version has another hash, also if the plan has no digests and the
\* document does not have the version in it.
NewVersionNewHash == \A x, y \in Artifacts :
    (SameDeb(x, y) /\ x.art.hash = y.art.hash) => x.art.file[2] = y.art.file[2]

===============================================================================
