------------------------------- MODULE Drayman -------------------------------
(***************************************************************************)
(* Runs of `drayman reconcile` against one aptly repository.               *)
(* cmd/drayman/reconcile.go decides what to build (drayman/policy),        *)
(* has cooper build one group of artifacts per Debian revision, imports    *)
(* every .deb, and publishes once at the end.  The backend is the one of   *)
(* drayman/backend/aptly; reprepro publishes within Import and is not      *)
(* modelled.                                                               *)
(*                                                                         *)
(* An artifact of a plan is [recipe, up, edit]: the base version it has    *)
(* and the rest of its inputs.  It stands for its build_inputs_hash too.   *)
(* Builds are reproducible, so a .deb is an artifact and a revision.       *)
(* Upstream versions are numbers, for CompareVersions orders them.  A plan *)
(* holds any artifacts of any recipes: upstreams move, recipes are edited  *)
(* and reverted, discover fails for some packages, a plan file is old.     *)
(*                                                                         *)
(* Each query, build and request is a step; a run can be killed between    *)
(* any two.  Runs is the set of processes; each may run any number of      *)
(* times, and with two of them runs overlap.                               *)
(***************************************************************************)
EXTENDS Integers

CONSTANTS
    Runs,        \* the processes that run drayman
    Recipes,     \* a package and an architecture of a recipe file
    KeyOf,       \* the (Package, Architecture) a recipe builds for
    Src,         \* the artifacts of plans
    LoseReplies, \* whether a request can succeed and its reply be lost
    MaxRev,      \* bound on the revisions
    None

Deb == [src : Src, rev : Nat]

ASSUME DraymanAssumption ==
    /\ \A a \in Src : a.recipe \in Recipes /\ a.up \in Nat
    /\ MaxRev \in Nat
    /\ LoseReplies \in BOOLEAN
    /\ None \notin Src

VARIABLES
    repo,      \* the packages of aptly's local repository
    created,   \* whether the publication exists
    published, \* the packages of the publication
    pc,        \* "exited", "decide", "build", "import", "publish" or "create"
    plan,      \* the artifacts of the plan
    undecided, \* those Decide has not reached
    asked,     \* the one whose hash was queried and not found, or None
    decided,   \* build decisions not yet built, with their revision
    built,     \* .debs of the group not yet imported
    staged,    \* files in the upload directory of the run
    imported,  \* anyImported
    failed,    \* anyFailed
    exit,      \* how the last run ended: "none", "ok" or "error"
    added      \* history: what the imports of the run put in the repository

archive == <<repo, created, published>>
decision == <<plan, undecided, asked>>
outcome == <<imported, failed, exit, added>>
vars == <<archive, pc, decision, decided, built, staged, outcome>>

Key(p) == KeyOf[p.src.recipe]
SameBase(p, q) == Key(p) = Key(q) /\ p.src.up = q.src.up

-----------------------------------------------------------------------------
(* The queries and the policy.                                             *)

HashExists(a) == \E p \in repo : p.src = a
ListByNameArch(a) == {p \in repo : Key(p) = KeyOf[a.recipe]}

\* The plan is older than the newest upstream version in the repository.
Regression(a) == \E p \in ListByNameArch(a) : a.up < p.src.up

\* Fault: the highest revision itself, -1 when there is none.
RevisionMax(a) ==
    LET revs == {p.rev : p \in {q \in ListByNameArch(a) : q.src.up = a.up}} \cup {-1}
    IN CHOOSE m \in revs : \A n \in revs : n <= m

\* Bare when the base version is absent, else the highest revision plus one.
Revision(a) ==
    LET revs == {p.rev : p \in {q \in ListByNameArch(a) : q.src.up = a.up}}
    IN IF revs = {} THEN 0
       ELSE 1 + CHOOSE m \in revs : \A n \in revs : n <= m

\* The artifacts that go into the build of a group of decisions: the filter
\* knows a decision by its package and architecture.
Filtered(P, group) == {a \in P : \E d \in group : KeyOf[a.recipe] = Key(d)}

-----------------------------------------------------------------------------

Init ==
    /\ repo = {} /\ created = FALSE /\ published = {}
    /\ pc = [r \in Runs |-> "exited"]
    /\ plan = [r \in Runs |-> {}]
    /\ undecided = [r \in Runs |-> {}]
    /\ asked = [r \in Runs |-> None]
    /\ decided = [r \in Runs |-> {}]
    /\ built = [r \in Runs |-> {}]
    /\ staged = [r \in Runs |-> {}]
    /\ imported = [r \in Runs |-> FALSE]
    /\ failed = [r \in Runs |-> FALSE]
    /\ exit = [r \in Runs |-> "none"]
    /\ added = [r \in Runs |-> {}]

Goto(r, label) == pc' = [pc EXCEPT ![r] = label]

\* The run ends with this status; its upload directory is never used again.
Exit(r, status) ==
    /\ Goto(r, "exited")
    /\ exit' = [exit EXCEPT ![r] = status]
    /\ undecided' = [undecided EXCEPT ![r] = {}]
    /\ asked' = [asked EXCEPT ![r] = None]
    /\ decided' = [decided EXCEPT ![r] = {}]
    /\ built' = [built EXCEPT ![r] = {}]
    /\ staged' = [staged EXCEPT ![r] = {}]
    /\ UNCHANGED <<plan, imported, failed, added>>

\* A plan has one artifact of a recipe at most.
Plans == {P \in SUBSET Src : \A a, b \in P : a.recipe = b.recipe => a = b}

\* `drayman reconcile` starts on some plan, with a new upload directory.
Begin(r) ==
    /\ pc[r] = "exited"
    /\ Goto(r, "decide")
    /\ \E P \in Plans \ {{}} :
          /\ plan' = [plan EXCEPT ![r] = P]
          /\ undecided' = [undecided EXCEPT ![r] = P]
    /\ imported' = [imported EXCEPT ![r] = FALSE]
    /\ failed' = [failed EXCEPT ![r] = FALSE]
    /\ exit' = [exit EXCEPT ![r] = "none"]
    /\ added' = [added EXCEPT ![r] = {}]
    /\ UNCHANGED <<archive, asked, decided, built, staged>>

\* HashExists: the artifact is skipped, or its versions are asked for next.
QueryHash(r, a) ==
    /\ pc[r] = "decide" /\ asked[r] = None /\ a \in undecided[r]
    /\ undecided' = [undecided EXCEPT ![r] = @ \ {a}]
    /\ asked' = [asked EXCEPT ![r] = IF HashExists(a) THEN None ELSE a]
    /\ UNCHANGED <<archive, pc, plan, decided, built, staged, outcome>>

\* ListByNameArch: skip a regression, else build at the next revision.
QueryVersions(r) ==
    /\ pc[r] = "decide" /\ asked[r] # None
    /\ Revision(asked[r]) <= MaxRev
    /\ decided' = [decided EXCEPT ![r] =
                      IF Regression(asked[r]) THEN @
                      ELSE @ \cup {[src |-> asked[r], rev |-> Revision(asked[r])]}]
    /\ asked' = [asked EXCEPT ![r] = None]
    /\ UNCHANGED <<archive, pc, plan, undecided, built, staged, outcome>>

\* A query fails: nothing of the plan is built.
QueryFails(r) ==
    /\ pc[r] = "decide" /\ (undecided[r] # {} \/ asked[r] # None)
    /\ Exit(r, "error")
    /\ UNCHANGED archive

Decided(r) ==
    /\ pc[r] = "decide" /\ undecided[r] = {} /\ asked[r] = None
    /\ Goto(r, "build")
    /\ UNCHANGED <<archive, decision, decided, built, staged, outcome>>

-----------------------------------------------------------------------------
(* Builds and imports.                                                     *)

\* The decisions of the lowest revision left.
Group(r) == {d \in decided[r] : \A e \in decided[r] : d.rev <= e.rev}

\* What cooper is asked to build for it.
BuildSet(r) ==
    {[src |-> a, rev |-> d.rev] : a \in Filtered(plan[r], Group(r)), d \in Group(r)}

\* Fault: a failed build is not counted.
BuildGroupQuietly(r) ==
    /\ pc[r] = "build" /\ decided[r] # {}
    /\ \E good \in SUBSET BuildSet(r) : built' = [built EXCEPT ![r] = good]
    /\ decided' = [decided EXCEPT ![r] = @ \ Group(r)]
    /\ Goto(r, "import")
    /\ UNCHANGED <<archive, decision, staged, outcome>>

\* One cooper build for the group; some of its artifacts may fail.
BuildGroup(r) ==
    /\ pc[r] = "build" /\ decided[r] # {}
    /\ \E good \in SUBSET BuildSet(r) :
          /\ built' = [built EXCEPT ![r] = good]
          /\ failed' = [failed EXCEPT ![r] = @ \/ good # BuildSet(r)]
    /\ decided' = [decided EXCEPT ![r] = @ \ Group(r)]
    /\ Goto(r, "import")
    /\ UNCHANGED <<archive, decision, staged, imported, exit, added>>

\* cooper ends without a plan on its output: the run ends, without publishing.
CooperFails(r) ==
    /\ pc[r] = "build" /\ decided[r] # {}
    /\ Exit(r, "error")
    /\ UNCHANGED archive

\* The upload fails, or is done and the request to import is not.
ImportFails(r, d) ==
    /\ pc[r] = "import" /\ d \in built[r]
    /\ built' = [built EXCEPT ![r] = @ \ {d}]
    /\ failed' = [failed EXCEPT ![r] = TRUE]
    /\ \E S \in {staged[r], staged[r] \cup {d}} : staged' = [staged EXCEPT ![r] = S]
    /\ UNCHANGED <<archive, pc, decision, decided, imported, exit, added>>

\* What aptly does with the files of an upload directory: those it accepts
\* replace the packages of their version (forceReplace) and leave the
\* directory, the others stay.
Promote(r, files, bad) ==
    LET good == files \ bad
    IN /\ repo' = {p \in repo : ~\E g \in good : SameBase(p, g) /\ p.rev = g.rev} \cup good
       /\ staged' = [staged EXCEPT ![r] = bad]
       /\ added' = [added EXCEPT ![r] = @ \cup good]
       /\ UNCHANGED <<created, published>>

\* The .deb is uploaded and the whole directory imported; a report that names
\* a failed file counts as the failure of this import.
Import(r, d) ==
    /\ pc[r] = "import" /\ d \in built[r]
    /\ built' = [built EXCEPT ![r] = @ \ {d}]
    /\ \E bad \in SUBSET (staged[r] \cup {d}) :
          /\ Promote(r, staged[r] \cup {d}, bad)
          /\ imported' = [imported EXCEPT ![r] = @ \/ bad = {}]
          /\ failed' = [failed EXCEPT ![r] = @ \/ bad # {}]
    /\ UNCHANGED <<pc, decision, decided, exit>>

\* Fault: an import without a reply is not counted as failed.
ImportUnheardQuietly(r, d) ==
    /\ LoseReplies /\ pc[r] = "import" /\ d \in built[r]
    /\ built' = [built EXCEPT ![r] = @ \ {d}]
    /\ \E bad \in SUBSET (staged[r] \cup {d}) : Promote(r, staged[r] \cup {d}, bad)
    /\ UNCHANGED <<pc, decision, decided, imported, failed, exit>>

\* The import is done and the reply is lost.
ImportUnheard(r, d) ==
    /\ LoseReplies /\ pc[r] = "import" /\ d \in built[r]
    /\ built' = [built EXCEPT ![r] = @ \ {d}]
    /\ \E bad \in SUBSET (staged[r] \cup {d}) : Promote(r, staged[r] \cup {d}, bad)
    /\ failed' = [failed EXCEPT ![r] = TRUE]
    /\ UNCHANGED <<pc, decision, decided, imported, exit>>

\* The group is imported; the next one, or the publication.
GroupDone(r) ==
    /\ \/ pc[r] = "import" /\ built[r] = {} /\ Goto(r, "build")
       \/ pc[r] = "build" /\ decided[r] = {} /\ Goto(r, "publish")
    /\ UNCHANGED <<archive, decision, decided, built, staged, outcome>>

-----------------------------------------------------------------------------
(* Publication.                                                            *)

Status(r) == IF failed[r] THEN "error" ELSE "ok"

\* Nothing was imported: "nothing to import (all artifacts already in repo)".
NothingToPublish(r) ==
    /\ pc[r] = "publish" /\ ~imported[r]
    /\ Exit(r, Status(r))
    /\ UNCHANGED archive

\* Fault: the publication is updated from what the run itself imported.
PublishUpdateAdded(r) ==
    /\ pc[r] = "publish" /\ imported[r] /\ created
    /\ published' = published \cup added[r]
    /\ Exit(r, Status(r))
    /\ UNCHANGED <<repo, created>>

\* PublishUpdate: the publication becomes the repository.
PublishUpdate(r) ==
    /\ pc[r] = "publish" /\ imported[r] /\ created
    /\ published' = repo
    /\ Exit(r, Status(r))
    /\ UNCHANGED <<repo, created>>

\* PublishUpdate finds no publication (404).
PublishNotFound(r) ==
    /\ pc[r] = "publish" /\ imported[r] /\ ~created
    /\ Goto(r, "create")
    /\ UNCHANGED <<archive, decision, decided, built, staged, outcome>>

\* PublishRepo; an error when the publication was created meanwhile.
PublishRepo(r) ==
    /\ pc[r] = "create"
    /\ IF created
       THEN Exit(r, "error") /\ UNCHANGED archive
       ELSE /\ created' = TRUE /\ published' = repo /\ UNCHANGED repo
            /\ Exit(r, Status(r))

\* The request fails; it may have been carried out.
PublishFails(r) ==
    /\ pc[r] \in {"publish", "create"} /\ imported[r]
    /\ Exit(r, "error")
    /\ \/ UNCHANGED <<created, published>>
       \/ LoseReplies /\ created = (pc[r] = "publish") /\ created' = TRUE /\ published' = repo
    /\ UNCHANGED repo

\* The process is killed.
Crash(r) ==
    /\ pc[r] # "exited"
    /\ Exit(r, "error")
    /\ UNCHANGED archive

Step(r) ==
    \/ Begin(r) \/ QueryVersions(r) \/ QueryFails(r) \/ Decided(r)
    \/ \E a \in undecided[r] : QueryHash(r, a)
    \/ BuildGroup(r) \/ CooperFails(r) \/ GroupDone(r)
    \/ \E d \in built[r] : ImportFails(r, d) \/ Import(r, d) \/ ImportUnheard(r, d)
    \/ NothingToPublish(r) \/ PublishUpdate(r) \/ PublishNotFound(r)
    \/ PublishRepo(r) \/ PublishFails(r) \/ Crash(r)

Next == \E r \in Runs : Step(r)

Spec == Init /\ [][Next]_vars

-----------------------------------------------------------------------------
(* Properties.                                                             *)

\* Type correctness of the repository, the publication and the runs.
TypeOK ==
    /\ repo \subseteq Deb /\ published \subseteq Deb /\ created \in BOOLEAN
    /\ pc \in [Runs -> {"exited", "decide", "build", "import", "publish", "create"}]
    /\ plan \in [Runs -> SUBSET Src] /\ undecided \in [Runs -> SUBSET Src]
    /\ asked \in [Runs -> Src \cup {None}]
    /\ decided \in [Runs -> SUBSET Deb] /\ built \in [Runs -> SUBSET Deb]
    /\ staged \in [Runs -> SUBSET Deb] /\ added \in [Runs -> SUBSET Deb]
    /\ imported \in [Runs -> BOOLEAN] /\ failed \in [Runs -> BOOLEAN]
    /\ exit \in [Runs -> {"none", "ok", "error"}]

\* An inputs hash is in the repository under one version only: a plan that is
\* reconciled again, after any failure, never publishes the same inputs twice.
OncePerHash == \A p, q \in repo : p.src = q.src => p = q

\* When drayman exits 0, every artifact of its plan is in the repository, or
\* the repository has a newer upstream version of the package.
OkMeansInRepo == \A r \in Runs : exit[r] = "ok" =>
    \A a \in plan[r] : HashExists(a) \/ Regression(a)

\* When drayman exits 0, what it imported is published.
OkMeansAddedPublished == \A r \in Runs : exit[r] = "ok" => added[r] \subseteq published

\* When drayman exits 0, what the repository has of its plan is published.
OkMeansPublished == \A r \in Runs : exit[r] = "ok" =>
    \A p \in repo : p.src \in plan[r] => p \in published

\* A version of a package is never given to other contents.
NeverReplaced ==
    [][\A p \in repo, q \in repo' : SameBase(p, q) /\ p.rev = q.rev => p = q]_vars

Archive == INSTANCE AptArchive WITH KeyOf <- KeyOf, repo <- repo, published <- published

\* Runs that do not overlap implement the archive.
ImplementsArchive == Archive!Spec

=============================================================================
