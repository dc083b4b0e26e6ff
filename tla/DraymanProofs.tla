----------------------------- MODULE DraymanProofs -----------------------------
(***************************************************************************)
(* Proofs about Drayman, for any plans, any recipes and any bound on the   *)
(* revisions.  TypeOK holds for any set of runs.  The other theorems       *)
(* assume RunsApart, since nothing locks the repository, and               *)
(* OneRecipePerKey, since the filter of a group knows a package by its     *)
(* name and architecture: TLC shows on small instances that OncePerHash    *)
(* fails without either.                                                   *)
(***************************************************************************)
EXTENDS Drayman, TLAPS, WellFoundedInduction

RunsApart == \A r, q \in Runs : r = q
OneRecipePerKey == \A x, y \in Recipes : KeyOf[x] = KeyOf[y] => x = y

-----------------------------------------------------------------------------
(* Revision is the next free one.                                          *)

LEMMA HasMax ==
    ASSUME NEW n \in Nat, NEW S, S \subseteq 0..n, S # {}
    PROVE  \E m \in S : \A k \in S : k <= m
<1> DEFINE T == {n - k : k \in S}
<1>1. T \subseteq Nat
  OBVIOUS
<1>2. T # {}
  <2>1. PICK k \in S : TRUE
    OBVIOUS
  <2>2. QED BY <2>1
<1>3. PICK t \in T : \A u \in T : <<u, t>> \notin OpToRel(<, Nat)
  <2> HIDE DEF T
  <2> QED BY <1>1, <1>2, WFMin, NatLessThanWellFounded
<1>4. \A u \in T : ~(u < t)
  BY <1>1, <1>3 DEF OpToRel
<1>5. PICK m \in S : t = n - m
  OBVIOUS
<1>6. ASSUME NEW k \in S PROVE k <= m
  <2>1. n - k \in T /\ ~(n - k < t) /\ k \in Int /\ m \in Int
    BY <1>4
  <2>2. QED BY <1>5, <2>1
<1>7. QED BY <1>6

\* The packages with the base version of an artifact.
SameVersion(a) == {p \in ListByNameArch(a) : p.src.up = a.up}

\* The repository has no revision past the bound.
RDeb == [src : Src, rev : 0 .. MaxRev]

LEMMA RevisionIsNext ==
    ASSUME repo \subseteq RDeb, NEW a \in Src
    PROVE  /\ Revision(a) \in Nat
           /\ \A p \in SameVersion(a) : p.rev < Revision(a)
           /\ Revision(a) = 0 \/ \E p \in SameVersion(a) : p.rev + 1 = Revision(a)
<1> DEFINE revs == {p.rev : p \in SameVersion(a)}
<1>1. Revision(a) = IF revs = {} THEN 0 ELSE 1 + CHOOSE m \in revs : \A n \in revs : n <= m
  BY DEF Revision, SameVersion
<1>2. revs \subseteq 0 .. MaxRev /\ \A p \in SameVersion(a) : p.rev \in revs
  BY DEF RDeb, SameVersion, ListByNameArch
<1>3. CASE revs = {}
  <2> HIDE DEF revs
  <2>1. Revision(a) = 0 /\ SameVersion(a) = {}
    BY <1>1, <1>2, <1>3
  <2>2. QED BY <2>1
<1>4. CASE revs # {}
  <2> DEFINE max == CHOOSE m \in revs : \A n \in revs : n <= m
  <2> HIDE DEF revs
  <2>1. \E m \in revs : \A n \in revs : n <= m
    BY <1>2, <1>4, HasMax, DraymanAssumption
  <2>2. max \in revs /\ \A n \in revs : n <= max
    BY <2>1
  <2>3. Revision(a) = 1 + max
    BY <1>1, <1>4
  <2> HIDE DEF max
  <2>4. \E p \in SameVersion(a) : p.rev = max
    BY <2>2 DEF revs
  <2>5. \A m \in revs : m \in Nat
    BY <1>2, DraymanAssumption
  <2>6. max \in Nat
    BY <2>2, <2>5
  <2>7. \A p \in SameVersion(a) : p.rev \in Nat /\ p.rev <= max
    BY <1>2, <2>2, <2>5
  <2>8. QED BY <2>3, <2>4, <2>6, <2>7
<1>5. QED BY <1>3, <1>4

-----------------------------------------------------------------------------
\* TypeOK with the bound of the revisions.
TypeInv ==
    /\ repo \subseteq RDeb /\ published \subseteq RDeb /\ created \in BOOLEAN
    /\ pc \in [Runs -> {"exited", "decide", "build", "import", "publish", "create"}]
    /\ plan \in [Runs -> SUBSET Src] /\ undecided \in [Runs -> SUBSET Src]
    /\ asked \in [Runs -> Src \cup {None}]
    /\ decided \in [Runs -> SUBSET RDeb] /\ built \in [Runs -> SUBSET RDeb]
    /\ staged \in [Runs -> SUBSET RDeb] /\ added \in [Runs -> SUBSET RDeb]
    /\ imported \in [Runs -> BOOLEAN] /\ failed \in [Runs -> BOOLEAN]
    /\ exit \in [Runs -> {"none", "ok", "error"}]

LEMMA TypeInvOK == TypeInv => TypeOK
<1>1. RDeb \subseteq Deb
  BY DraymanAssumption DEF RDeb, Deb
<1>2. SUBSET RDeb \subseteq SUBSET Deb
  BY <1>1
<1>3. QED BY <1>1, <1>2 DEF TypeInv, TypeOK

LEMMA TypeInit == Init => TypeInv
BY DEF Init, TypeInv

\* The end of a run keeps the types of the run.
LEMMA ExitType ==
    ASSUME TypeInv, NEW r \in Runs, NEW status \in {"ok", "error"}, Exit(r, status),
           repo' \subseteq RDeb, published' \subseteq RDeb, created' \in BOOLEAN
    PROVE  TypeInv'
BY DEF TypeInv, Exit, Goto

\* What a build is asked for are revisions of artifacts of the plan.
LEMMA BuildSetType ==
    ASSUME TypeInv, NEW r \in Runs
    PROVE  BuildSet(r) \subseteq RDeb
<1>1. Filtered(plan[r], Group(r)) \subseteq Src /\ Group(r) \subseteq RDeb
  BY DEF TypeInv, Filtered, Group
<1>2. QED BY <1>1 DEF BuildSet, RDeb

LEMMA PromoteType ==
    ASSUME TypeInv, NEW r \in Runs, NEW files \in SUBSET RDeb, NEW bad \in SUBSET files,
           Promote(r, files, bad)
    PROVE  /\ repo' \subseteq RDeb /\ UNCHANGED <<created, published>>
           /\ staged' \in [Runs -> SUBSET RDeb] /\ added' \in [Runs -> SUBSET RDeb]
BY DEF TypeInv, Promote

LEMMA TypeStep ==
    ASSUME TypeInv, NEW r \in Runs, Step(r)
    PROVE  TypeInv'
<1>1. CASE Begin(r)
  BY <1>1 DEF TypeInv, Begin, Goto, Plans, archive
<1>2. ASSUME NEW a \in undecided[r], QueryHash(r, a) PROVE TypeInv'
  BY <1>2 DEF TypeInv, QueryHash, archive, outcome
<1>3. CASE QueryVersions(r)
  <2>1. asked[r] \in Src
    BY <1>3 DEF TypeInv, QueryVersions
  <2>2. [src |-> asked[r], rev |-> Revision(asked[r])] \in RDeb
    BY <1>3, <2>1, RevisionIsNext, DraymanAssumption DEF TypeInv, QueryVersions, RDeb
  <2>3. QED BY <1>3, <2>2 DEF TypeInv, QueryVersions, archive, outcome
<1>4. CASE QueryFails(r) \/ CooperFails(r) \/ Crash(r)
  <2>1. Exit(r, "error") /\ UNCHANGED archive
    BY <1>4 DEF QueryFails, CooperFails, Crash
  <2>2. QED BY <2>1, ExitType DEF TypeInv, archive
<1>5. CASE Decided(r)
  BY <1>5 DEF TypeInv, Decided, Goto, archive, decision, outcome
<1>6. CASE BuildGroup(r)
  <2>1. PICK good \in SUBSET BuildSet(r) :
            /\ built' = [built EXCEPT ![r] = good]
            /\ failed' = [failed EXCEPT ![r] = @ \/ good # BuildSet(r)]
    BY <1>6 DEF BuildGroup
  <2>2. good \in SUBSET RDeb
    BY <2>1, BuildSetType
  <2>3. failed' \in [Runs -> BOOLEAN]
    BY <2>1 DEF TypeInv
  <2>4. QED BY <1>6, <2>1, <2>2, <2>3 DEF TypeInv, BuildGroup, Goto, archive, decision
<1>7. CASE GroupDone(r)
  BY <1>7 DEF TypeInv, GroupDone, Goto, archive, decision, outcome
<1>8. ASSUME NEW d \in built[r], ImportFails(r, d) PROVE TypeInv'
  BY <1>8 DEF TypeInv, ImportFails, archive, decision
<1>9. ASSUME NEW d \in built[r], Import(r, d) \/ ImportUnheard(r, d) PROVE TypeInv'
  <2>1. staged[r] \cup {d} \in SUBSET RDeb
    BY DEF TypeInv
  <2>2. PICK bad \in SUBSET (staged[r] \cup {d}) : Promote(r, staged[r] \cup {d}, bad)
    BY <1>9 DEF Import, ImportUnheard
  <2>3. imported' \in [Runs -> BOOLEAN] /\ failed' \in [Runs -> BOOLEAN]
    BY <1>9 DEF TypeInv, Import, ImportUnheard
  <2>4. /\ repo' \subseteq RDeb /\ UNCHANGED <<created, published>>
        /\ staged' \in [Runs -> SUBSET RDeb] /\ added' \in [Runs -> SUBSET RDeb]
    BY <2>1, <2>2, PromoteType
  <2>5. QED BY <1>9, <2>3, <2>4 DEF TypeInv, Import, ImportUnheard, decision
<1>10. Status(r) \in {"ok", "error"}
  BY DEF Status
<1>11. CASE NothingToPublish(r)
  BY <1>11, <1>10, ExitType DEF TypeInv, NothingToPublish, archive
<1>12. CASE PublishUpdate(r)
  BY <1>12, <1>10, ExitType DEF TypeInv, PublishUpdate
<1>13. CASE PublishNotFound(r)
  BY <1>13 DEF TypeInv, PublishNotFound, Goto, archive, decision, outcome
<1>14. CASE PublishRepo(r)
  BY <1>14, <1>10, ExitType DEF TypeInv, PublishRepo, archive
<1>15. CASE PublishFails(r)
  BY <1>15, ExitType DEF TypeInv, PublishFails
<1>16. QED
  BY <1>1, <1>2, <1>3, <1>4, <1>5, <1>6, <1>7, <1>8, <1>9, <1>11, <1>12, <1>13, <1>14,
     <1>15 DEF Step

LEMMA TypeNext == TypeInv /\ [Next]_vars => TypeInv'
<1>1. ASSUME TypeInv, UNCHANGED vars PROVE TypeInv'
  BY <1>1 DEF vars, TypeInv, archive, decision, outcome
<1>2. QED BY <1>1, TypeStep DEF Next

\* Type correctness of the repository, the publication and any set of runs,
\* however they overlap; in particular a revision is always a number.
THEOREM TypeCorrect == Spec => []TypeOK
<1>1. Spec => []TypeInv
  BY TypeInit, TypeNext, PTL DEF Spec
<1>2. QED BY <1>1, TypeInvOK, PTL

-----------------------------------------------------------------------------
(* The inductive invariant for runs that do not overlap.                   *)

\* Decided, and not in the repository as far as the run knows.
Waiting(r) == decided[r] \cup built[r] \cup staged[r]

\* What a run has left to do in each of its phases.
PhaseInv == \A r \in Runs :
    /\ pc[r] = "exited" => Waiting(r) = {}
    /\ pc[r] # "decide" => undecided[r] = {} /\ asked[r] = None
    /\ pc[r] = "decide" => built[r] = {} /\ staged[r] = {}
    /\ pc[r] # "import" => built[r] = {}
    /\ pc[r] \in {"publish", "create"} => decided[r] = {}

\* An artifact of the plan is in one place at a time.
PlanInv == \A r \in Runs :
    /\ \A a, b \in plan[r] : a.recipe = b.recipe => a = b
    /\ undecided[r] \subseteq plan[r] /\ asked[r] \in plan[r] \cup {None}
    /\ asked[r] \notin undecided[r]
    /\ \A d \in Waiting(r) :
          d.src \in plan[r] /\ d.src \notin undecided[r] /\ d.src # asked[r]
    /\ \A d, e \in Waiting(r) : d.src = e.src => d = e
    /\ decided[r] \cap built[r] = {} /\ decided[r] \cap staged[r] = {}
    /\ built[r] \cap staged[r] = {}

\* The package is still right to import: its inputs are not in the repository,
\* its revision is the next one of its version, and no version is above it.
Fresh(d) ==
    /\ \A p \in repo : p.src # d.src
    /\ \A p \in repo : Key(p) = Key(d) => p.src.up <= d.src.up
    /\ \A p \in repo : SameBase(p, d) => p.rev < d.rev
    /\ d.rev = 0 \/ \E p \in repo : SameBase(p, d) /\ p.rev + 1 = d.rev

FreshInv == \A r \in Runs :
    /\ \A d \in Waiting(r) : Fresh(d)
    /\ asked[r] # None => ~HashExists(asked[r])

\* An artifact of the plan is still on its way, or has failed, or is or need
\* not be in the repository.
Accounted(r, a) ==
    \/ a \in undecided[r] \/ a = asked[r]
    \/ \E d \in decided[r] \cup built[r] : d.src = a
    \/ failed[r]
    \/ HashExists(a) \/ Regression(a)

PlanAccounted == \A r \in Runs : pc[r] # "exited" \/ exit[r] = "ok" =>
    \A a \in plan[r] : Accounted(r, a)

\* An import that is not known to be complete counts as failed.
ImportsCounted == \A r \in Runs :
    /\ added[r] \subseteq repo
    /\ pc[r] # "exited" => exit[r] = "none" /\ (added[r] # {} => imported[r] \/ failed[r])
    /\ exit[r] = "ok" => pc[r] = "exited" /\ ~failed[r] /\ added[r] \subseteq published

ArchiveInv == Archive!NoClash(repo) /\ Archive!NoGap(repo) /\ Archive!NoRepeat(repo)

IInv == TypeInv /\ PhaseInv /\ PlanInv /\ FreshInv /\ PlanAccounted /\ ImportsCounted /\ ArchiveInv

LEMMA IInvInit == Init => IInv
<1> SUFFICES ASSUME Init PROVE IInv
  OBVIOUS
<1>1. TypeInv
  BY TypeInit
<1>2. PhaseInv /\ PlanInv /\ FreshInv /\ PlanAccounted /\ ImportsCounted
  BY DEF Init, PhaseInv, PlanInv, FreshInv, PlanAccounted, ImportsCounted, Waiting
<1>3. ArchiveInv
  BY DEF Init, ArchiveInv, Archive!NoClash, Archive!NoGap, Archive!NoRepeat
<1>4. QED BY <1>1, <1>2, <1>3 DEF IInv

\* A run ends well only when it has nothing left to do, nothing has failed and
\* its imports are published.
LEMMA ExitStep ==
    ASSUME RunsApart, IInv, TypeInv', NEW r \in Runs, NEW status, Exit(r, status), repo' = repo,
           status = "ok" => /\ pc[r] \in {"publish", "create"} /\ ~failed[r]
                            /\ added[r] \subseteq published'
    PROVE  IInv'
<1> USE DEF IInv
<1>0. \A q \in Runs : q = r
  BY DEF RunsApart
<1>1. /\ pc'[r] = "exited" /\ exit'[r] = status /\ asked'[r] = None
      /\ undecided'[r] = {} /\ decided'[r] = {} /\ built'[r] = {} /\ staged'[r] = {}
      /\ UNCHANGED <<plan, imported, failed, added>>
  BY DEF Exit, Goto, TypeInv
<1>2. PhaseInv'
  BY <1>0, <1>1 DEF PhaseInv, Waiting
<1>3. PlanInv'
  BY <1>0, <1>1 DEF PlanInv, Waiting
<1>4. FreshInv'
  BY <1>0, <1>1 DEF FreshInv, Waiting
<1>5. PlanAccounted'
  <2>1. SUFFICES ASSUME status = "ok", NEW a \in plan[r] PROVE HashExists(a)' \/ Regression(a)'
    BY <1>0, <1>1 DEF PlanAccounted, Accounted
  <2>2. pc[r] # "exited" /\ undecided[r] = {} /\ asked[r] = None /\ decided[r] = {}
        /\ built[r] = {} /\ ~failed[r] /\ a # None
    BY <2>1, DraymanAssumption DEF PhaseInv, TypeInv
  <2>3. HashExists(a) \/ Regression(a)
    BY <2>2 DEF PlanAccounted, Accounted
  <2>4. QED BY <2>3 DEF HashExists, Regression, ListByNameArch
<1>6. ImportsCounted'
  BY <1>0, <1>1 DEF ImportsCounted
<1>7. QED BY <1>2, <1>3, <1>4, <1>5, <1>6 DEF ArchiveInv

-----------------------------------------------------------------------------
(* Decisions.                                                              *)

LEMMA BeginStep ==
    ASSUME RunsApart, IInv, TypeInv', NEW r \in Runs, Begin(r)
    PROVE  IInv'
<1> USE DEF IInv
<1>0. \A q \in Runs : q = r
  BY DEF RunsApart
<1>1. /\ pc'[r] = "decide" /\ undecided'[r] = plan'[r] /\ plan'[r] \in Plans
      /\ added'[r] = {} /\ exit'[r] = "none"
      /\ UNCHANGED <<archive, asked, decided, built, staged>>
      /\ pc[r] = "exited"
  BY DEF Begin, Goto, TypeInv
<1>2. Waiting(r) = {} /\ asked[r] = None /\ None \notin plan'[r]
  BY <1>1, DraymanAssumption DEF PhaseInv, Plans
<1>3. PhaseInv' /\ PlanInv' /\ FreshInv'
  BY <1>0, <1>1, <1>2 DEF PhaseInv, PlanInv, FreshInv, Waiting, Plans
<1>4. PlanAccounted' /\ ImportsCounted'
  BY <1>0, <1>1 DEF PlanAccounted, Accounted, ImportsCounted
<1>5. QED BY <1>1, <1>3, <1>4 DEF ArchiveInv, archive

LEMMA QueryHashStep ==
    ASSUME RunsApart, IInv, TypeInv', NEW r \in Runs, NEW a \in undecided[r], QueryHash(r, a)
    PROVE  IInv'
<1> USE DEF IInv
<1>0. \A q \in Runs : q = r
  BY DEF RunsApart
<1>1. /\ pc[r] = "decide" /\ asked[r] = None /\ a \in plan[r] /\ a # None
      /\ undecided'[r] = undecided[r] \ {a}
      /\ asked'[r] = IF HashExists(a) THEN None ELSE a
      /\ UNCHANGED <<archive, pc, plan, decided, built, staged, outcome>>
  BY DraymanAssumption DEF QueryHash, TypeInv, PlanInv
<1>2. PhaseInv'
  BY <1>0, <1>1 DEF PhaseInv, Waiting
<1>3. PlanInv'
  BY <1>0, <1>1 DEF PlanInv, Waiting
<1>4. FreshInv'
  BY <1>0, <1>1 DEF FreshInv, Fresh, HashExists, Waiting, archive
<1>5. PlanAccounted'
  <2>1. SUFFICES ASSUME NEW b \in plan[r] PROVE Accounted(r, b)'
    BY <1>0, <1>1 DEF PlanAccounted
  <2>2. Accounted(r, b) /\ b # None
    BY <1>1, DraymanAssumption DEF PlanAccounted, TypeInv
  <2>3. UNCHANGED <<HashExists(b), Regression(b)>>
    BY <1>1 DEF HashExists, Regression, ListByNameArch, archive
  <2>4. CASE b = a
    BY <1>1, <2>3, <2>4 DEF Accounted
  <2>5. CASE b # a
    BY <1>1, <2>2, <2>3, <2>5 DEF Accounted, outcome
  <2>6. QED BY <2>4, <2>5
<1>6. ImportsCounted' /\ ArchiveInv'
  BY <1>1 DEF ImportsCounted, ArchiveInv, archive, outcome
<1>7. QED BY <1>2, <1>3, <1>4, <1>5, <1>6

\* A decision takes the next revision of a version that is not regressing.
LEMMA DecisionFresh ==
    ASSUME IInv, NEW a \in Src, ~HashExists(a), ~Regression(a)
    PROVE  Fresh([src |-> a, rev |-> Revision(a)])
<1> DEFINE d == [src |-> a, rev |-> Revision(a)]
<1>1. \A p \in repo : Key(p) = Key(d) <=> p \in ListByNameArch(a)
  BY DEF ListByNameArch, Key
<1>2. \A p \in repo : SameBase(p, d) <=> p \in SameVersion(a)
  BY <1>1 DEF SameVersion, SameBase
<1>3. SameVersion(a) \subseteq repo
  BY DEF SameVersion, ListByNameArch
<1>4. \A p \in ListByNameArch(a) : p.src.up <= a.up
  <2>1. \A p \in repo : p.src.up \in Nat
    BY DraymanAssumption DEF IInv, TypeInv, RDeb
  <2>2. QED BY <2>1, DraymanAssumption DEF Regression, ListByNameArch
<1>5. /\ \A p \in SameVersion(a) : p.rev < d.rev
      /\ d.rev = 0 \/ \E p \in SameVersion(a) : p.rev + 1 = d.rev
  BY RevisionIsNext DEF IInv, TypeInv
<1>6. QED BY <1>1, <1>2, <1>3, <1>4, <1>5 DEF Fresh, HashExists

LEMMA QueryVersionsStep ==
    ASSUME RunsApart, IInv, TypeInv', NEW r \in Runs, QueryVersions(r)
    PROVE  IInv'
<1> USE DEF IInv
<1>0. \A q \in Runs : q = r
  BY DEF RunsApart
<1> DEFINE a == asked[r]
           d == [src |-> a, rev |-> Revision(a)]
<1>1. /\ pc[r] = "decide" /\ a \in Src /\ a \in plan[r] /\ ~HashExists(a) /\ a # None
      /\ decided'[r] = IF Regression(a) THEN decided[r] ELSE decided[r] \cup {d}
      /\ asked'[r] = None
      /\ UNCHANGED <<archive, pc, plan, undecided, built, staged, outcome>>
  BY DEF QueryVersions, TypeInv, PlanInv, FreshInv
<1>2. PhaseInv'
  BY <1>0, <1>1 DEF PhaseInv, Waiting
<1>3. PlanInv'
  <2>1. built[r] = {} /\ staged[r] = {}
    BY <1>1 DEF PhaseInv
  <2>2. \A e \in decided[r] : e.src # a
    BY DEF PlanInv, Waiting
  <2>3. d.src = a
    OBVIOUS
  <2> HIDE DEF d
  <2>4. QED BY <1>0, <1>1, <2>1, <2>2, <2>3, DraymanAssumption DEF PlanInv, Waiting, TypeInv
<1>4. FreshInv'
  <2>1. \A e : Fresh(e) => Fresh(e)'
    BY <1>1 DEF Fresh, archive
  <2>2. ~Regression(a) => Fresh(d)
    BY <1>1, DecisionFresh
  <2> HIDE DEF d
  <2>3. QED BY <1>0, <1>1, <2>1, <2>2 DEF FreshInv, Waiting
<1>5. PlanAccounted'
  <2>1. d.src = a
    OBVIOUS
  <2> HIDE DEF d
  <2>2. QED BY <1>0, <1>1, <2>1 DEF PlanAccounted, Accounted, HashExists, Regression,
        ListByNameArch, archive, outcome
<1>6. ImportsCounted' /\ ArchiveInv'
  BY <1>1 DEF ImportsCounted, ArchiveInv, archive, outcome
<1>7. QED BY <1>2, <1>3, <1>4, <1>5, <1>6

LEMMA DecidedStep ==
    ASSUME RunsApart, IInv, TypeInv', NEW r \in Runs, Decided(r)
    PROVE  IInv'
<1> USE DEF IInv
<1>0. \A q \in Runs : q = r
  BY DEF RunsApart
<1>1. /\ pc[r] = "decide" /\ undecided[r] = {} /\ asked[r] = None /\ pc'[r] = "build"
      /\ UNCHANGED <<archive, decision, decided, built, staged, outcome>>
  BY DEF Decided, Goto, TypeInv
<1>2. PhaseInv' /\ PlanInv'
  BY <1>0, <1>1 DEF PhaseInv, PlanInv, Waiting, decision
<1>3. FreshInv'
  BY <1>1 DEF FreshInv, Fresh, HashExists, Waiting, archive, decision
<1>4. PlanAccounted' /\ ImportsCounted'
  BY <1>0, <1>1 DEF PlanAccounted, Accounted, HashExists, Regression, ListByNameArch,
     ImportsCounted, archive, decision, outcome
<1>5. QED BY <1>1, <1>2, <1>3, <1>4 DEF ArchiveInv, archive

-----------------------------------------------------------------------------
(* Builds.                                                                 *)

\* The filter of a group lets through its own artifacts and no others.
LEMMA BuildSetIsGroup ==
    ASSUME OneRecipePerKey, IInv, NEW r \in Runs
    PROVE  BuildSet(r) = Group(r)
<1>1. Group(r) \subseteq decided[r] /\ Group(r) \subseteq Waiting(r)
  BY DEF Group, Waiting
<1>2. \A d \in Group(r) : d \in RDeb /\ d.src \in plan[r] /\ d = [src |-> d.src, rev |-> d.rev]
  BY <1>1 DEF IInv, TypeInv, PlanInv, RDeb
<1>3. \A d, e \in Group(r) : d.rev = e.rev
  BY <1>2 DEF Group, RDeb
<1>4. ASSUME NEW a \in plan[r], NEW d \in Group(r), KeyOf[a.recipe] = Key(d)
      PROVE  a = d.src
  <2>1. a.recipe \in Recipes /\ d.src.recipe \in Recipes
    BY <1>2, DraymanAssumption DEF IInv, TypeInv
  <2>2. a.recipe = d.src.recipe
    BY <1>4, <2>1 DEF OneRecipePerKey, Key
  <2>3. QED BY <1>2, <2>2 DEF IInv, PlanInv
<1>5. BuildSet(r) \subseteq Group(r)
  <2>1. SUFFICES ASSUME NEW a \in Filtered(plan[r], Group(r)), NEW d \in Group(r)
                 PROVE  [src |-> a, rev |-> d.rev] \in Group(r)
    BY DEF BuildSet
  <2>2. PICK e \in Group(r) : a = e.src
    BY <1>4 DEF Filtered
  <2>3. QED BY <1>2, <1>3, <2>2
<1>6. Group(r) \subseteq BuildSet(r)
  <2>1. SUFFICES ASSUME NEW d \in Group(r) PROVE d \in BuildSet(r)
    OBVIOUS
  <2>2. d.src \in Filtered(plan[r], Group(r))
    BY <1>2 DEF Filtered, Key
  <2>3. QED BY <1>2, <2>2 DEF BuildSet
<1>7. QED BY <1>5, <1>6

LEMMA BuildGroupStep ==
    ASSUME RunsApart, OneRecipePerKey, IInv, TypeInv', NEW r \in Runs, BuildGroup(r)
    PROVE  IInv'
<1> USE DEF IInv
<1>0. \A q \in Runs : q = r
  BY DEF RunsApart
<1>1. PICK good \in SUBSET BuildSet(r) :
          /\ built' = [built EXCEPT ![r] = good]
          /\ failed' = [failed EXCEPT ![r] = @ \/ good # BuildSet(r)]
  BY DEF BuildGroup
<1>2. /\ good \subseteq Group(r) /\ Group(r) \subseteq decided[r]
      /\ built'[r] = good /\ decided'[r] = decided[r] \ Group(r)
      /\ pc[r] = "build" /\ pc'[r] = "import"
      /\ UNCHANGED <<archive, decision, staged, imported, exit, added>>
  BY <1>1, BuildSetIsGroup DEF BuildGroup, Group, Goto, TypeInv
<1>3. failed[r] \in BOOLEAN /\ failed'[r] = (failed[r] \/ good # Group(r))
  BY <1>1, BuildSetIsGroup DEF TypeInv
<1>4. Waiting(r)' \subseteq Waiting(r) /\ UNCHANGED <<plan[r], undecided[r], asked[r]>>
  BY <1>2 DEF Waiting, decision
<1>5. PhaseInv'
  BY <1>0, <1>2 DEF PhaseInv, decision
<1>6. PlanInv'
  BY <1>0, <1>2, <1>4 DEF PlanInv, PhaseInv
<1>7. FreshInv'
  <2>1. \A e : Fresh(e) => Fresh(e)'
    BY <1>2 DEF Fresh, archive
  <2>2. HashExists(asked[r])' = HashExists(asked[r])
    BY <1>2 DEF HashExists, archive, decision
  <2>3. QED BY <1>0, <1>4, <2>1, <2>2 DEF FreshInv
<1>8. PlanAccounted'
  <2>1. SUFFICES ASSUME NEW a \in plan[r] PROVE Accounted(r, a)'
    BY <1>0, <1>2 DEF PlanAccounted, decision
  <2>2. Accounted(r, a)
    BY <1>2 DEF PlanAccounted
  <2>3. UNCHANGED <<HashExists(a), Regression(a)>> /\ built[r] = {}
    BY <1>2 DEF HashExists, Regression, ListByNameArch, archive, PhaseInv
  <2>4. CASE \E d \in decided[r] : d.src = a
    BY <1>2, <1>3, <2>4 DEF Accounted
  <2>5. CASE ~\E d \in decided[r] : d.src = a
    BY <1>3, <1>4, <2>2, <2>3, <2>5 DEF Accounted
  <2>6. QED BY <2>4, <2>5
<1>9. ImportsCounted'
  BY <1>0, <1>2, <1>3 DEF ImportsCounted, archive
<1>10. QED BY <1>2, <1>5, <1>6, <1>7, <1>8, <1>9 DEF ArchiveInv, archive

LEMMA GroupDoneStep ==
    ASSUME RunsApart, IInv, TypeInv', NEW r \in Runs, GroupDone(r)
    PROVE  IInv'
<1> USE DEF IInv
<1>0. \A q \in Runs : q = r
  BY DEF RunsApart
<1>1. /\ \/ pc[r] = "import" /\ built[r] = {} /\ pc'[r] = "build"
         \/ pc[r] = "build" /\ decided[r] = {} /\ pc'[r] = "publish"
      /\ UNCHANGED <<archive, decision, decided, built, staged, outcome>>
  BY DEF GroupDone, Goto, TypeInv
<1>2. PhaseInv' /\ PlanInv'
  BY <1>0, <1>1 DEF PhaseInv, PlanInv, Waiting, decision
<1>3. FreshInv'
  BY <1>1 DEF FreshInv, Fresh, HashExists, Waiting, archive, decision
<1>4. PlanAccounted' /\ ImportsCounted'
  BY <1>0, <1>1 DEF PlanAccounted, Accounted, HashExists, Regression, ListByNameArch,
     ImportsCounted, archive, decision, outcome
<1>5. QED BY <1>1, <1>2, <1>3, <1>4 DEF ArchiveInv, archive

LEMMA ImportFailsStep ==
    ASSUME RunsApart, IInv, TypeInv', NEW r \in Runs, NEW d \in built[r], ImportFails(r, d)
    PROVE  IInv'
<1> USE DEF IInv
<1>0. \A q \in Runs : q = r
  BY DEF RunsApart
<1>1. PICK S \in {staged[r], staged[r] \cup {d}} : staged' = [staged EXCEPT ![r] = S]
  BY DEF ImportFails
<1>2. /\ staged'[r] \subseteq staged[r] \cup {d} /\ built'[r] = built[r] \ {d}
      /\ pc[r] = "import" /\ failed'[r] = TRUE
      /\ UNCHANGED <<archive, pc, decision, decided, imported, exit, added>>
  BY <1>1 DEF ImportFails, TypeInv
<1>3. Waiting(r)' \subseteq Waiting(r) /\ UNCHANGED <<plan[r], undecided[r], asked[r]>>
  BY <1>2 DEF Waiting, decision
<1>4. PhaseInv'
  BY <1>0, <1>2 DEF PhaseInv, decision
<1>5. PlanInv'
  BY <1>0, <1>2, <1>3 DEF PlanInv
<1>6. FreshInv'
  <2>1. \A e : Fresh(e) => Fresh(e)'
    BY <1>2 DEF Fresh, archive
  <2>2. HashExists(asked[r])' = HashExists(asked[r])
    BY <1>2 DEF HashExists, archive, decision
  <2>3. QED BY <1>0, <1>3, <2>1, <2>2 DEF FreshInv
<1>7. PlanAccounted' /\ ImportsCounted'
  BY <1>0, <1>2 DEF PlanAccounted, Accounted, ImportsCounted, archive
<1>8. QED BY <1>2, <1>4, <1>5, <1>6, <1>7 DEF ArchiveInv, archive

-----------------------------------------------------------------------------
(* Imports.                                                                *)

\* No two .debs of a run are of one package.
LEMMA WaitingKeys ==
    ASSUME OneRecipePerKey, IInv, NEW r \in Runs
    PROVE  /\ Waiting(r) \subseteq RDeb
           /\ \A d, e \in Waiting(r) : Key(d) = Key(e) => d = e
<1>1. Waiting(r) \subseteq RDeb
  BY DEF Waiting, IInv, TypeInv
<1>2. \A d \in Waiting(r) : d.src \in plan[r] /\ d.src.recipe \in Recipes
  BY <1>1, DraymanAssumption DEF RDeb, IInv, PlanInv
<1>3. SUFFICES ASSUME NEW d \in Waiting(r), NEW e \in Waiting(r), Key(d) = Key(e) PROVE d = e
  BY <1>1
<1>4. d.src.recipe = e.src.recipe
  BY <1>2, <1>3 DEF OneRecipePerKey, Key
<1>5. QED BY <1>2, <1>4 DEF IInv, PlanInv

\* The upload directory promoted: packages are added and none is replaced.
LEMMA PromoteAdds ==
    ASSUME OneRecipePerKey, IInv, NEW r \in Runs, NEW d \in built[r],
           NEW bad \in SUBSET (staged[r] \cup {d}), NEW good, good = (staged[r] \cup {d}) \ bad,
           Promote(r, staged[r] \cup {d}, bad)
    PROVE  /\ repo' = repo \cup good
           /\ \A p \in repo' \ repo, q \in repo : Key(p) = Key(q) => q.src.up <= p.src.up
           /\ \A e \in Waiting(r) : e \in good \/ Fresh(e)'
           /\ ArchiveInv'
<1> USE DEF IInv
<1>1. good \subseteq Waiting(r) /\ good \subseteq RDeb /\ repo \subseteq RDeb
  BY WaitingKeys DEF Waiting, TypeInv
<1>2. \A p \in repo : p.rev \in Nat /\ p.src.up \in Nat
  BY <1>1, DraymanAssumption DEF RDeb
<1>3. \A g \in good : Fresh(g) /\ g.rev \in Nat
  BY <1>1, DraymanAssumption DEF FreshInv, RDeb
<1>4. \A g, h \in good : Key(g) = Key(h) => g = h
  BY <1>1, WaitingKeys
<1>5. \A p \in repo, g \in good : SameBase(p, g) => p.rev # g.rev
  BY <1>2, <1>3 DEF Fresh
<1>6. repo' = repo \cup good
  BY <1>5 DEF Promote
<1>7. \A p \in repo' \ repo, q \in repo : Key(p) = Key(q) => q.src.up <= p.src.up
  BY <1>3, <1>6 DEF Fresh
<1>8. ASSUME NEW e \in Waiting(r), e \notin good PROVE Fresh(e)'
  <2>1. Fresh(e) /\ e.src \in Src
    BY WaitingKeys DEF FreshInv, RDeb
  <2>2. \A g \in good : g.src # e.src /\ Key(g) # Key(e) /\ ~SameBase(g, e)
    BY <1>1, <1>8, WaitingKeys DEF SameBase, Key
  <2>3. QED BY <1>6, <2>1, <2>2 DEF Fresh
<1>9. ArchiveInv'
  <2>1. Archive!NoClash(repo')
    <3>1. \A p, q : Archive!SameBase(p, q) <=> SameBase(p, q)
      BY DEF Archive!SameBase, SameBase, Archive!Key, Key
    <3>2. \A p, q \in repo \cup good : SameBase(p, q) /\ p.rev = q.rev => p = q
      BY <1>4, <1>5, <3>1 DEF ArchiveInv, Archive!NoClash, SameBase
    <3>3. QED BY <1>6, <3>1, <3>2 DEF Archive!NoClash
  <2>2. Archive!NoGap(repo')
    <3>1. \A p, q : Archive!SameBase(p, q) <=> SameBase(q, p)
      BY DEF Archive!SameBase, SameBase, Archive!Key, Key
    <3>2. ASSUME NEW p \in repo \cup good, p.rev > 0
          PROVE  \E q \in repo : SameBase(q, p) /\ q.rev + 1 = p.rev
      BY <1>3, <3>1, <3>2 DEF ArchiveInv, Archive!NoGap, Fresh
    <3>3. QED BY <1>6, <3>1, <3>2 DEF Archive!NoGap
  <2>3. Archive!NoRepeat(repo')
    <3>1. \A g, h \in good : g.src = h.src => g = h
      BY <1>4 DEF Key
    <3>2. QED BY <1>3, <1>6, <3>1 DEF ArchiveInv, Archive!NoRepeat, Fresh
  <2>4. QED BY <2>1, <2>2, <2>3 DEF ArchiveInv
<1>10. QED BY <1>6, <1>7, <1>8, <1>9

LEMMA ImportStep ==
    ASSUME RunsApart, OneRecipePerKey, IInv, TypeInv', NEW r \in Runs, NEW d \in built[r],
           Import(r, d) \/ ImportUnheard(r, d)
    PROVE  /\ IInv'
           /\ repo \subseteq repo' /\ UNCHANGED published
           /\ \A p \in repo' \ repo, q \in repo : Key(p) = Key(q) => q.src.up <= p.src.up
<1> USE DEF IInv
<1>0. \A q \in Runs : q = r
  BY DEF RunsApart
<1>1. PICK bad \in SUBSET (staged[r] \cup {d}) :
          /\ Promote(r, staged[r] \cup {d}, bad)
          /\ \/ /\ imported' = [imported EXCEPT ![r] = @ \/ bad = {}]
                /\ failed' = [failed EXCEPT ![r] = @ \/ bad # {}]
             \/ UNCHANGED imported /\ failed' = [failed EXCEPT ![r] = TRUE]
  BY DEF Import, ImportUnheard
<1> DEFINE good == (staged[r] \cup {d}) \ bad
<1>2. /\ repo' = repo \cup good
      /\ \A p \in repo' \ repo, q \in repo : Key(p) = Key(q) => q.src.up <= p.src.up
      /\ \A e \in Waiting(r) : e \in good \/ Fresh(e)'
      /\ ArchiveInv'
  BY <1>1, PromoteAdds
<1>3. /\ built'[r] = built[r] \ {d} /\ staged'[r] = bad /\ added'[r] = added[r] \cup good
      /\ pc[r] = "import"
      /\ UNCHANGED <<created, published, pc, decision, decided, exit>>
  BY <1>1 DEF Import, ImportUnheard, Promote, TypeInv
<1>4. /\ failed'[r] = failed[r] \/ failed'[r] = TRUE
      /\ bad # {} => failed'[r]
      /\ imported[r] => imported'[r]
      /\ imported'[r] \/ failed'[r]
      /\ failed[r] => failed'[r]
  BY <1>1 DEF TypeInv
<1>5. /\ Waiting(r)' \subseteq Waiting(r) \ good
      /\ UNCHANGED <<plan[r], undecided[r], asked[r]>> /\ asked[r] = None
  BY <1>3 DEF Waiting, decision, PlanInv, PhaseInv
<1>6. PhaseInv'
  BY <1>0, <1>3 DEF PhaseInv, decision
<1>7. PlanInv'
  BY <1>0, <1>3, <1>5 DEF PlanInv
<1>8. FreshInv'
  BY <1>0, <1>2, <1>5 DEF FreshInv
<1>9. PlanAccounted'
  <2>1. SUFFICES ASSUME NEW a \in plan[r] PROVE Accounted(r, a)'
    BY <1>0, <1>3 DEF PlanAccounted, decision
  <2>2. Accounted(r, a)
    BY <1>3 DEF PlanAccounted
  <2>3. (HashExists(a) => HashExists(a)') /\ (Regression(a) => Regression(a)')
    BY <1>2 DEF HashExists, Regression, ListByNameArch
  <2>4. CASE d.src = a
    <3>1. d \in repo' \/ failed'[r]
      BY <1>2, <1>4
    <3>2. QED BY <2>4, <3>1 DEF Accounted, HashExists
  <2>5. CASE d.src # a
    BY <1>3, <1>4, <1>5, <2>2, <2>3, <2>5 DEF Accounted
  <2>6. QED BY <2>4, <2>5
<1>10. ImportsCounted'
  BY <1>0, <1>2, <1>3, <1>4 DEF ImportsCounted
<1>11. QED BY <1>2, <1>3, <1>6, <1>7, <1>8, <1>9, <1>10

-----------------------------------------------------------------------------
(* Publication, and all steps.                                             *)

LEMMA PublishStep ==
    ASSUME RunsApart, IInv, TypeInv', NEW r \in Runs,
           \/ NothingToPublish(r) \/ PublishUpdate(r) \/ PublishNotFound(r)
           \/ PublishRepo(r) \/ PublishFails(r)
    PROVE  IInv' /\ repo' = repo /\ published' \in {published, repo}
<1> USE DEF IInv
<1>0. \A q \in Runs : q = r
  BY DEF RunsApart
<1>1. Status(r) = "ok" => ~failed[r]
  BY DEF Status
<1>2. added[r] \subseteq repo /\ (pc[r] # "exited" /\ added[r] # {} => imported[r] \/ failed[r])
  BY DEF ImportsCounted
<1>3. CASE NothingToPublish(r)
  BY <1>1, <1>2, <1>3, ExitStep DEF NothingToPublish, archive
<1>4. CASE PublishUpdate(r)
  BY <1>1, <1>2, <1>4, ExitStep DEF PublishUpdate
<1>5. CASE PublishNotFound(r)
  <2>1. /\ pc[r] = "publish" /\ pc'[r] = "create"
        /\ UNCHANGED <<archive, decision, decided, built, staged, outcome>>
    BY <1>5 DEF PublishNotFound, Goto, TypeInv
  <2>2. PhaseInv' /\ PlanInv'
    BY <1>0, <2>1 DEF PhaseInv, PlanInv, Waiting, decision
  <2>3. FreshInv'
    BY <2>1 DEF FreshInv, Fresh, HashExists, Waiting, archive, decision
  <2>4. PlanAccounted' /\ ImportsCounted'
    BY <1>0, <2>1 DEF PlanAccounted, Accounted, HashExists, Regression, ListByNameArch,
       ImportsCounted, archive, decision, outcome
  <2>5. QED BY <2>1, <2>2, <2>3, <2>4 DEF ArchiveInv, archive
<1>6. CASE PublishRepo(r)
  <2>1. CASE created
    BY <1>6, <2>1, ExitStep DEF PublishRepo, archive
  <2>2. CASE ~created
    BY <1>1, <1>2, <1>6, <2>2, ExitStep DEF PublishRepo
  <2>3. QED BY <2>1, <2>2
<1>7. CASE PublishFails(r)
  BY <1>7, ExitStep DEF PublishFails
<1>8. QED BY <1>3, <1>4, <1>5, <1>6, <1>7

\* A step keeps the invariant, and is a step of the archive or none of it.
LEMMA RunStep ==
    ASSUME RunsApart, OneRecipePerKey, IInv, NEW r \in Runs, Step(r)
    PROVE  IInv' /\ [Archive!Next]_<<repo, published>> /\ repo \subseteq repo'
<1>0. TypeInv'
  BY TypeStep DEF IInv
<1>1. ASSUME IInv', UNCHANGED archive
      PROVE  IInv' /\ [Archive!Next]_<<repo, published>> /\ repo \subseteq repo'
  BY <1>1 DEF archive
<1>2. CASE Begin(r)
  BY <1>0, <1>1, <1>2, BeginStep DEF Begin
<1>3. ASSUME NEW a \in undecided[r], QueryHash(r, a)
      PROVE  IInv' /\ [Archive!Next]_<<repo, published>> /\ repo \subseteq repo'
  BY <1>0, <1>1, <1>3, QueryHashStep DEF QueryHash
<1>4. CASE QueryVersions(r)
  BY <1>0, <1>1, <1>4, QueryVersionsStep DEF QueryVersions
<1>5. CASE QueryFails(r) \/ CooperFails(r) \/ Crash(r)
  <2>1. Exit(r, "error") /\ UNCHANGED archive
    BY <1>5 DEF QueryFails, CooperFails, Crash
  <2>2. QED BY <1>0, <1>1, <2>1, ExitStep DEF archive
<1>6. CASE Decided(r)
  BY <1>0, <1>1, <1>6, DecidedStep DEF Decided
<1>7. CASE BuildGroup(r)
  BY <1>0, <1>1, <1>7, BuildGroupStep DEF BuildGroup
<1>8. CASE GroupDone(r)
  BY <1>0, <1>1, <1>8, GroupDoneStep DEF GroupDone
<1>9. ASSUME NEW d \in built[r], ImportFails(r, d)
      PROVE  IInv' /\ [Archive!Next]_<<repo, published>> /\ repo \subseteq repo'
  BY <1>0, <1>1, <1>9, ImportFailsStep DEF ImportFails
<1>10. ASSUME NEW d \in built[r], Import(r, d) \/ ImportUnheard(r, d)
       PROVE  IInv' /\ [Archive!Next]_<<repo, published>> /\ repo \subseteq repo'
  <2>1. /\ IInv' /\ repo \subseteq repo' /\ UNCHANGED published
        /\ \A p \in repo' \ repo, q \in repo : Key(p) = Key(q) => q.src.up <= p.src.up
    BY <1>0, <1>10, ImportStep
  <2>2. Archive!Add
    BY <2>1 DEF Archive!Add, Archive!Key, Key, IInv, ArchiveInv
  <2>3. QED BY <2>1, <2>2 DEF Archive!Next
<1>11. CASE NothingToPublish(r) \/ PublishUpdate(r) \/ PublishNotFound(r)
            \/ PublishRepo(r) \/ PublishFails(r)
  <2>1. IInv' /\ repo' = repo /\ published' \in {published, repo}
    BY <1>0, <1>11, PublishStep
  <2>2. QED BY <2>1 DEF Archive!Next, Archive!Publish
<1>12. QED
  BY <1>2, <1>3, <1>4, <1>5, <1>6, <1>7, <1>8, <1>9, <1>10, <1>11 DEF Step

LEMMA IInvNext ==
    ASSUME RunsApart, OneRecipePerKey
    PROVE  IInv /\ [Next]_vars =>
              IInv' /\ [Archive!Next]_<<repo, published>> /\ repo \subseteq repo'
<1>1. ASSUME IInv, UNCHANGED vars
      PROVE  IInv' /\ [Archive!Next]_<<repo, published>> /\ repo \subseteq repo'
  <2>1. IInv'
    BY <1>1 DEF vars, archive, decision, outcome, IInv, TypeInv, PhaseInv, PlanInv, FreshInv,
       Fresh, HashExists, PlanAccounted, Accounted, Regression, ListByNameArch, ImportsCounted,
       ArchiveInv, Waiting
  <2>2. QED BY <1>1, <2>1 DEF vars, archive
<1>2. QED BY <1>1, RunStep DEF Next

-----------------------------------------------------------------------------
LEMMA Invariant ==
    ASSUME RunsApart, OneRecipePerKey
    PROVE  Spec => []IInv
BY IInvInit, IInvNext, PTL DEF Spec

\* Runs that do not overlap implement the archive: whatever fails or is killed,
\* they only add packages, each inputs hash once, under the next free revision
\* of its version and never below a version that is there; and clients only
\* ever see the repository as it was at a publication.
THEOREM Implementation ==
    ASSUME RunsApart, OneRecipePerKey
    PROVE  Spec => ImplementsArchive
<1>1. Init => Archive!Init
  BY DEF Init, Archive!Init
<1>2. IInv /\ [Next]_vars => [Archive!Next]_<<repo, published>>
  BY IInvNext
<1>3. QED BY <1>1, <1>2, Invariant, PTL DEF Spec, ImplementsArchive, Archive!Spec

\* Runs that do not overlap never build the same inputs into two packages.
THEOREM HashesOnce ==
    ASSUME RunsApart, OneRecipePerKey
    PROVE  Spec => []OncePerHash
<1>1. IInv => OncePerHash
  BY DEF IInv, ArchiveInv, Archive!NoRepeat, OncePerHash
<1>2. QED BY <1>1, Invariant, PTL

\* When drayman exits 0, the whole plan is in the repository or outdated by it.
THEOREM OkIsComplete ==
    ASSUME RunsApart, OneRecipePerKey
    PROVE  Spec => []OkMeansInRepo
<1>1. ASSUME IInv, NEW r \in Runs, exit[r] = "ok", NEW a \in plan[r]
      PROVE  HashExists(a) \/ Regression(a)
  <2>1. pc[r] = "exited" /\ ~failed[r] /\ a # None /\ Accounted(r, a)
    BY <1>1, DraymanAssumption DEF IInv, TypeInv, ImportsCounted, PlanAccounted
  <2>2. undecided[r] = {} /\ asked[r] = None /\ decided[r] \cup built[r] = {}
    BY <2>1, <1>1 DEF IInv, PhaseInv, Waiting
  <2>3. QED BY <2>1, <2>2 DEF Accounted
<1>2. IInv => OkMeansInRepo
  BY <1>1 DEF OkMeansInRepo
<1>3. QED BY <1>2, Invariant, PTL

\* When drayman exits 0, everything it imported is published, imports whose
\* reply was lost included.
THEOREM OkIsPublished ==
    ASSUME RunsApart, OneRecipePerKey
    PROVE  Spec => []OkMeansAddedPublished
<1>1. IInv => OkMeansAddedPublished
  BY DEF IInv, ImportsCounted, OkMeansAddedPublished
<1>2. QED BY <1>1, Invariant, PTL

\* A version that is in the repository is never given to other contents,
\* although every import asks aptly to replace.
THEOREM VersionsKept ==
    ASSUME RunsApart, OneRecipePerKey
    PROVE  Spec => NeverReplaced
<1>1. IInv /\ [Next]_vars =>
          \A p \in repo, q \in repo' : SameBase(p, q) /\ p.rev = q.rev => p = q
  <2>1. SUFFICES ASSUME IInv, [Next]_vars, NEW p \in repo, NEW q \in repo',
                        SameBase(p, q), p.rev = q.rev
                 PROVE  p = q
    OBVIOUS
  <2>2. IInv' /\ p \in repo'
    BY <2>1, IInvNext
  <2>3. QED BY <2>1, <2>2 DEF IInv, ArchiveInv, Archive!NoClash, Archive!SameBase, Archive!Key,
        SameBase, Key
<1>2. QED BY <1>1, Invariant, PTL DEF Spec, NeverReplaced

=============================================================================
