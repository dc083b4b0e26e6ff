--------------------------- MODULE CooperBuildProofs ---------------------------
(***************************************************************************)
(* Proofs about CooperBuild, for any plans, options, servers, archives and *)
(* limits, and any number of builds.                                       *)
(***************************************************************************)
EXTENDS CooperBuild, TLAPS, SequenceTheorems

-----------------------------------------------------------------------------
(* Lists, and the artifacts of a plan as a build annotates them.           *)

LEMMA ListIs ==
    ASSUME NEW s, List(s)
    PROVE  Len(s) \in Nat /\ DOMAIN s = 1..Len(s)
BY LenProperties DEF List

LEMMA ListExcept ==
    ASSUME NEW s, List(s), NEW k \in DOMAIN s, NEW v
    PROVE  /\ List([s EXCEPT ![k] = v])
           /\ Len([s EXCEPT ![k] = v]) = Len(s)
           /\ DOMAIN [s EXCEPT ![k] = v] = DOMAIN s
           /\ [s EXCEPT ![k] = v][k] = v
           /\ \A i \in DOMAIN s : i # k => [s EXCEPT ![k] = v][i] = s[i]
<1> DEFINE S == {s[i] : i \in DOMAIN s} \cup {v}
           t == [s EXCEPT ![k] = v]
<1>1. s \in Seq(S)
  BY SeqMonotonic DEF List
<1>2. DOMAIN s = 1..Len(s) /\ DOMAIN t = DOMAIN s /\ k \in 1..Len(s)
  BY ListIs
<1>3. t \in Seq(S) /\ Len(t) = Len(s)
  BY <1>1, <1>2, ExceptSeq
<1>4. t \in Seq({t[i] : i \in DOMAIN t})
  <2> DEFINE R == {t[i] : i \in DOMAIN t}
  <2>1. t \in [1..Len(s) -> R] /\ Len(s) \in Nat
    BY <1>2, <1>3, LenProperties
  <2> HIDE DEF R
  <2>2. t \in UNION {[1..n -> R] : n \in Nat}
    BY <2>1
  <2>3. t \in Seq(R)
    BY <2>2, SeqDef, Zenon
  <2>4. QED BY <2>3 DEF R
<1>5. t[k] = v /\ \A i \in DOMAIN s : i # k => t[i] = s[i]
  OBVIOUS
<1>6. QED BY <1>2, <1>3, <1>4, <1>5 DEF List

\* An artifact keeps what names it and what it is built from.
SameArtifact(a, b) ==
    /\ b.pkg = a.pkg /\ b.arch = a.arch /\ b.plan = a.plan /\ b.hash = a.hash
    /\ b.extract = a.extract

LEMMA ArtifactFailed ==
    ASSUME NEW a, Artifact(a)
    PROVE  LET b == [a EXCEPT !.result = "error"]
           IN /\ Artifact(b) /\ SameArtifact(a, b) /\ b.result = "error"
              /\ b.file = a.file /\ b.path = a.path /\ b.assets = a.assets
BY DEF Artifact, SameArtifact

LEMMA ArtifactNamed ==
    ASSUME NEW a, Artifact(a), NEW n
    PROVE  LET b == [a EXCEPT !.file = n]
           IN /\ Artifact(b) /\ SameArtifact(a, b) /\ b.result = a.result
              /\ b.file = n /\ b.path = a.path /\ b.assets = a.assets
BY DEF Artifact, SameArtifact

-----------------------------------------------------------------------------
NoOptions == [rev |-> 0, stage |-> FALSE, keep |-> FALSE]

\* TypeOK with the position of the build in its plan.
TypeInv ==
    /\ pc \in {"idle", "verify", "fetch", "extract", "pack", "write"}
    /\ exit \in {"none", "ok", "error", "killed"} /\ broken \in BOOLEAN
    /\ runs \in 0..MaxRuns /\ opts \in Options \cup {NoOptions}
    /\ DOMAIN remote = DOMAIN Offers /\ \A u \in DOMAIN Offers : remote[u] \in Offers[u]
    /\ Artifacts(arts)
    /\ at \in [art : Nat \ {0}, file : Nat \ {0}, entry : Nat \ {0}]
    /\ at.art <= Len(arts) + 1
    /\ pc \in {"fetch", "extract", "pack", "write"} =>
         at.art <= Len(arts) /\ Dir(art) \in DOMAIN trees
    /\ pc = "extract" => at.file <= Len(art.assets)
    /\ pc # "idle" => exit = "none"

LEMMA TypeInvOK == TypeInv => TypeOK
<1> SUFFICES ASSUME TypeInv PROVE TypeOK
  OBVIOUS
<1>1. Len(arts) \in Nat /\ opts.rev \in Nat
  BY ListIs, CooperBuildAssumption DEF TypeInv, Artifacts, NoOptions
<1>2. at.art \in 1..(Len(arts) + 1)
  BY <1>1 DEF TypeInv
<1>3. \A i \in DOMAIN arts : arts[i].result \in {"", "error"}
  BY DEF TypeInv, Artifacts, Artifact
<1>4. pc \in {"fetch", "extract", "pack", "write"} => Dir(art) \in DOMAIN trees
  BY DEF TypeInv
<1>5. QED BY <1>1, <1>2, <1>3, <1>4 DEF TypeInv, TypeOK

LEMMA TypeInit == Init => TypeInv
<1> SUFFICES ASSUME Init PROVE TypeInv
  OBVIOUS
<1>1. List(<<>>) /\ Len(<<>>) = 0 /\ DOMAIN <<>> = {}
  BY EmptySeq DEF List
<1>2. Artifacts(arts) /\ Len(arts) = 0
  BY <1>1 DEF Init, Artifacts
<1>3. DOMAIN remote = DOMAIN Offers /\ \A u \in DOMAIN Offers : remote[u] \in Offers[u]
  BY DEF Init
<1>4. /\ at \in [art : Nat \ {0}, file : Nat \ {0}, entry : Nat \ {0}]
      /\ at.art <= Len(arts) + 1
  BY <1>2 DEF Init
<1>5. runs \in 0..MaxRuns
  BY CooperBuildAssumption DEF Init
<1>6. pc = "idle" /\ exit = "none" /\ opts \in Options \cup {NoOptions} /\ broken \in BOOLEAN
  BY DEF Init, NoOptions
<1>7. QED BY <1>2, <1>3, <1>4, <1>5, <1>6 DEF TypeInv

\* The step puts b in place of the artifact it works on.
Annotated(b) ==
    /\ Artifact(b) /\ SameArtifact(art, b)
    /\ arts' = [arts EXCEPT ![at.art] = b]

\* What that makes of the plan.
LEMMA AnnotatedIs ==
    ASSUME TypeInv, at.art <= Len(arts), NEW b, Annotated(b)
    PROVE  /\ at.art \in DOMAIN arts
           /\ Artifacts(arts') /\ Len(arts') = Len(arts) /\ DOMAIN arts' = DOMAIN arts
           /\ arts'[at.art] = b
           /\ \A i \in DOMAIN arts : i # at.art => arts'[i] = arts[i]
<1>1. List(arts) /\ at.art \in DOMAIN arts
  BY ListIs DEF TypeInv, Artifacts
<1>2. /\ List(arts') /\ Len(arts') = Len(arts) /\ DOMAIN arts' = DOMAIN arts
      /\ arts'[at.art] = b
      /\ \A i \in DOMAIN arts : i # at.art => arts'[i] = arts[i]
  <2>1. arts' = [arts EXCEPT ![at.art] = b]
    BY DEF Annotated
  <2>2. List([arts EXCEPT ![at.art] = b])
    BY <1>1, ListExcept
  <2>3. Len([arts EXCEPT ![at.art] = b]) = Len(arts)
    BY <1>1, ListExcept
  <2>4. QED BY <1>1, <2>1, <2>2, <2>3
<1>3. \A i \in DOMAIN arts' : Artifact(arts'[i])
  BY <1>2 DEF TypeInv, Artifacts, Annotated
<1>4. QED BY <1>1, <1>2, <1>3 DEF Artifacts

LEMMA FailIs ==
    ASSUME TypeInv, at.art <= Len(arts), arts' = [arts EXCEPT ![at.art].result = "error"]
    PROVE  \E b : /\ Annotated(b) /\ b.result = "error"
                  /\ b.file = art.file /\ b.path = art.path /\ b.assets = art.assets
<1> DEFINE b == [art EXCEPT !.result = "error"]
<1>1. at.art \in DOMAIN arts
  BY ListIs DEF TypeInv, Artifacts
<1>2. Artifact(art)
  BY <1>1 DEF TypeInv, Artifacts, art
<1>3. /\ Artifact(b) /\ SameArtifact(art, b) /\ b.result = "error"
      /\ b.file = art.file /\ b.path = art.path /\ b.assets = art.assets
  BY <1>2, ArtifactFailed
<1>4. arts' = [arts EXCEPT ![at.art] = b]
  BY DEF art
<1>5. QED BY <1>3, <1>4 DEF Annotated

\* The position of a build that is not idle.
LEMMA Working ==
    ASSUME TypeInv, pc \in {"fetch", "extract", "pack", "write"}
    PROVE  /\ at.art <= Len(arts) /\ at.art \in DOMAIN arts /\ Artifact(art)
           /\ Dir(art) \in DOMAIN trees /\ exit = "none"
           /\ at.file <= Len(art.assets) => at.file \in DOMAIN art.assets
<1>1. at.art <= Len(arts) /\ Dir(art) \in DOMAIN trees /\ exit = "none"
  BY DEF TypeInv
<1>2. at.art \in DOMAIN arts
  BY <1>1, ListIs DEF TypeInv, Artifacts
<1>3. Artifact(art)
  BY <1>2 DEF TypeInv, Artifacts, art
<1>4. at.file <= Len(art.assets) => at.file \in DOMAIN art.assets
  <2>1. List(art.assets)
    BY <1>3 DEF Artifact
  <2>2. Len(art.assets) \in Nat /\ DOMAIN art.assets = 1..Len(art.assets)
    BY <2>1, ListIs
  <2>3. at.file \in Nat /\ at.file >= 1
    BY DEF TypeInv
  <2>4. QED BY <2>2, <2>3
<1>5. QED BY <1>1, <1>2, <1>3, <1>4

\* The build leaves the artifact it works on, and goes on to the next one.
LEMMA NextType ==
    ASSUME TypeInv, pc # "idle", at.art <= Len(arts), NEW b, Annotated(b), NextArtifact,
           UNCHANGED <<remote, run, exit>>
    PROVE  TypeInv'
<1>1. Artifacts(arts') /\ Len(arts') = Len(arts)
  BY AnnotatedIs
<1>2. /\ at' \in [art : Nat \ {0}, file : Nat \ {0}, entry : Nat \ {0}]
      /\ at'.art = at.art + 1 /\ pc' = "verify"
  BY DEF TypeInv, NextArtifact
<1>3. at'.art <= Len(arts') + 1
  BY <1>1, <1>2, ListIs DEF TypeInv, Artifacts
<1>4. exit' = "none"
  BY DEF TypeInv
<1>5. QED BY <1>1, <1>2, <1>3, <1>4 DEF TypeInv, run

\* It stays with that artifact.
LEMMA StayType ==
    ASSUME TypeInv, pc # "idle", at.art <= Len(arts), NEW b, Annotated(b),
           UNCHANGED <<remote, run, exit>>,
           at' \in [art : Nat \ {0}, file : Nat \ {0}, entry : Nat \ {0}], at'.art = at.art,
           pc' \in {"fetch", "extract", "pack", "write"}, Dir(art) \in DOMAIN trees',
           pc' = "extract" => at'.file <= Len(b.assets)
    PROVE  TypeInv'
<1>1. Artifacts(arts') /\ Len(arts') = Len(arts) /\ arts'[at.art] = b
  BY AnnotatedIs
<1>2. art' = b /\ Dir(art)' = Dir(art)
  BY <1>1 DEF art, Dir, run, Annotated, SameArtifact
<1>3. QED BY <1>1, <1>2 DEF TypeInv, run

\* Nothing of the plan changes.
LEMMA SameType ==
    ASSUME TypeInv, pc # "idle", at.art <= Len(arts), UNCHANGED <<remote, run, exit, arts>>,
           at' \in [art : Nat \ {0}, file : Nat \ {0}, entry : Nat \ {0}], at'.art = at.art,
           pc' \in {"fetch", "extract", "pack", "write"}, Dir(art) \in DOMAIN trees',
           pc' = "extract" => at'.file <= Len(art.assets)
    PROVE  TypeInv'
<1>1. art' = art /\ Dir(art)' = Dir(art)
  BY DEF art, Dir, run
<1>2. QED BY <1>1 DEF TypeInv, run

LEMMA FailType ==
    ASSUME TypeInv, pc # "idle", at.art <= Len(arts), Fail
    PROVE  TypeInv'
<1>1. PICK b : Annotated(b)
  BY FailIs DEF Fail
<1>2. QED BY <1>1, NextType DEF Fail

LEMMA FetchRecords ==
    ASSUME TypeInv, pc = "fetch", at.file <= Len(art.assets),
           NEW got, arts' = [arts EXCEPT ![at.art].assets[at.file].sha = got]
    PROVE  \E b : /\ Annotated(b) /\ b.result = art.result /\ b.file = art.file
                  /\ b.path = art.path
                  /\ b.assets = [art.assets EXCEPT ![at.file] = [file EXCEPT !.sha = got]]
                  /\ Len(b.assets) = Len(art.assets)
                  /\ DOMAIN b.assets = DOMAIN art.assets
<1> DEFINE g == [art.assets[at.file] EXCEPT !.sha = got]
           fs == [art.assets EXCEPT ![at.file] = g]
           b == [art EXCEPT !.assets = fs]
<1>1. Artifact(art) /\ at.file \in DOMAIN art.assets /\ List(art.assets)
  BY Working DEF Artifact
<1>2. arts' = [arts EXCEPT ![at.art] = b]
  BY DEF art
<1>3. File(g)
  BY <1>1 DEF Artifact, File
<1> HIDE DEF g
<1>4. List(fs)
  BY <1>1, ListExcept
<1>5. Len(fs) = Len(art.assets)
  BY <1>1, ListExcept
<1>6. /\ DOMAIN fs = DOMAIN art.assets /\ fs[at.file] = g
      /\ \A i \in DOMAIN art.assets : i # at.file => fs[i] = art.assets[i]
  BY <1>1
<1>7. \A i \in DOMAIN fs : File(fs[i])
  BY <1>1, <1>3, <1>6 DEF Artifact
<1>8. fs = [art.assets EXCEPT ![at.file] = [file EXCEPT !.sha = got]]
  BY DEF file, g
<1> HIDE DEF fs
<1>9. /\ b.assets = fs /\ DOMAIN b = DOMAIN art
      /\ \A x \in DOMAIN art : x # "assets" => b[x] = art[x]
  BY <1>1 DEF Artifact
<1> HIDE DEF b
<1>10. Artifact(b) /\ SameArtifact(art, b)
  BY <1>1, <1>4, <1>7, <1>9 DEF Artifact, SameArtifact
<1>11. b.result = art.result /\ b.file = art.file /\ b.path = art.path
  BY <1>1, <1>9 DEF Artifact
<1>12. QED BY <1>2, <1>5, <1>6, <1>8, <1>9, <1>10, <1>11 DEF Annotated

LEMMA StageNames ==
    ASSUME TypeInv, pc \in {"fetch", "write"}, NEW n, arts' = [arts EXCEPT ![at.art].file = n]
    PROVE  \E b : /\ Annotated(b) /\ b.result = art.result /\ b.file = n
                  /\ b.path = art.path /\ b.assets = art.assets
<1> DEFINE b == [art EXCEPT !.file = n]
<1>1. Artifact(art)
  BY Working
<1>2. /\ Artifact(b) /\ SameArtifact(art, b) /\ b.result = art.result
      /\ b.file = n /\ b.path = art.path /\ b.assets = art.assets
  BY <1>1, ArtifactNamed
<1>3. arts' = [arts EXCEPT ![at.art] = b]
  BY DEF art
<1>4. QED BY <1>2, <1>3 DEF Annotated

LEMMA PackReports ==
    ASSUME TypeInv, Pack
    PROVE  \E b : /\ Annotated(b) /\ b.result = art.result
                  /\ b.file = DebName(art, opts.rev)[2]
                  /\ b.path = Tree /\ b.assets = art.assets
<1> DEFINE n == DebName(art, opts.rev)[2]
           b == [art EXCEPT !.file = n, !.path = Tree]
<1>1. Artifact(art)
  BY Working DEF Pack
<1> HIDE DEF n
<1>2. /\ Artifact(b) /\ SameArtifact(art, b) /\ b.result = art.result
      /\ b.file = n /\ b.path = Tree /\ b.assets = art.assets
  BY <1>1 DEF Artifact, SameArtifact
<1>3. arts' = [arts EXCEPT ![at.art] = b]
  BY DEF Pack, art, n
<1>4. QED BY <1>2, <1>3 DEF Annotated, n

LEMMA TypeNext == TypeInv /\ [Next]_vars => TypeInv'
<1> SUFFICES ASSUME TypeInv, [Next]_vars PROVE TypeInv'
  OBVIOUS
<1> DEFINE Position == [art : Nat \ {0}, file : Nat \ {0}, entry : Nat \ {0}]
<1>1. /\ at \in Position /\ [at EXCEPT !.file = @ + 1] \in Position
      /\ [at EXCEPT !.entry = @ + 1] \in Position /\ [at EXCEPT !.entry = 1] \in Position
      /\ [at EXCEPT !.file = @ + 1].art = at.art
      /\ [at EXCEPT !.entry = @ + 1].art = at.art /\ [at EXCEPT !.entry = @ + 1].file = at.file
      /\ [at EXCEPT !.entry = 1].art = at.art /\ [at EXCEPT !.entry = 1].file = at.file
  BY DEF TypeInv
<1>2. CASE UNCHANGED vars
  BY <1>2 DEF vars, run, position, TypeInv, art, Dir
<1>3. ASSUME NEW p \in Sources, NEW o \in Options, Start(p, o) PROVE TypeInv'
  <2>1. /\ runs' = runs + 1 /\ runs < MaxRuns /\ opts' = o /\ arts' = p.arts
        /\ broken' = p.broken /\ pc' = "verify" /\ exit' = "none" /\ UNCHANGED remote
        /\ at' = [art |-> 1, file |-> 1, entry |-> 1]
    BY <1>3 DEF Start
  <2>2. p \in Plans \/ p = [arts |-> arts, broken |-> broken]
    BY DEF Sources
  <2>3. Artifacts(p.arts) /\ p.broken \in BOOLEAN
    BY <2>2, CooperBuildAssumption DEF TypeInv
  <2>4. runs' \in 0..MaxRuns
    BY <2>1, CooperBuildAssumption DEF TypeInv
  <2>5. at' \in Position /\ at'.art <= Len(arts') + 1
    BY <2>1, <2>3, ListIs DEF Artifacts
  <2>6. QED BY <2>1, <2>3, <2>4, <2>5 DEF TypeInv
<1>4. ASSUME NEW p \in Sources, NEW o \in Options, Refuse(p, o) PROVE TypeInv'
  BY <1>4 DEF Refuse, run, position, TypeInv
<1>5. CASE Verify
  <2>1. CASE Fail
    BY <1>5, <2>1, FailType DEF Verify
  <2>2. CASE ~ Fail
    <3>1. /\ pc = "verify" /\ pc' = "fetch" /\ at.art <= Len(arts)
          /\ trees' = IF Dir(art) \in DOMAIN trees THEN trees
                      ELSE Put(trees, Dir(art), EmptyTree)
          /\ UNCHANGED <<remote, run, at, exit, arts>>
      BY <1>5, <2>2 DEF Verify
    <3>2. Dir(art) \in DOMAIN trees'
      BY <3>1 DEF Put
    <3>3. QED BY <1>1, <3>1, <3>2, SameType
  <2>3. QED BY <2>1, <2>2
<1>6. CASE Fetch
  <2>1. /\ pc = "fetch" /\ at.file <= Len(art.assets)
        /\ DOMAIN trees' = DOMAIN trees
    BY <1>6 DEF Fetch, WriteFile
  <2>2. at.art <= Len(arts) /\ Dir(art) \in DOMAIN trees
    BY <2>1, Working
  <2>3. CASE Fail
    BY <2>1, <2>2, <2>3, FailType
  <2>4. CASE ~ Fail
    <3>1. /\ arts' = [arts EXCEPT ![at.art].assets[at.file].sha = remote[file.url]]
          /\ \/ pc' = "extract" /\ at' = [at EXCEPT !.entry = 1]
             \/ pc' = pc /\ at' = [at EXCEPT !.file = @ + 1]
          /\ UNCHANGED <<remote, run, exit>>
      BY <1>6, <2>4 DEF Fetch
    <3>2. PICK b : Annotated(b) /\ Len(b.assets) = Len(art.assets)
      BY <2>1, <3>1, FetchRecords
    <3>3. QED BY <1>1, <2>1, <2>2, <3>1, <3>2, StayType
  <2>5. QED BY <2>3, <2>4
<1>7. CASE FetchFails
  BY <1>7, Working, FailType DEF FetchFails
<1>8. CASE Extract
  <2>1. pc = "extract" /\ DOMAIN trees' = DOMAIN trees
    BY <1>8 DEF Extract, WriteFile
  <2>2. at.art <= Len(arts) /\ Dir(art) \in DOMAIN trees /\ at.file <= Len(art.assets)
    BY <2>1, Working DEF TypeInv
  <2>3. CASE Fail
    BY <2>1, <2>2, <2>3, FailType
  <2>4. CASE ~ Fail
    <3>1. UNCHANGED <<remote, run, exit>>
      BY <1>8, <2>4 DEF Extract
    <3>2. \/ arts' = [arts EXCEPT ![at.art].result = "error"] /\ NextArtifact
          \/ at' = [at EXCEPT !.entry = @ + 1] /\ UNCHANGED <<pc, arts>>
      BY <1>8, <2>4 DEF Extract
    <3>3. CASE at' = [at EXCEPT !.entry = @ + 1] /\ UNCHANGED <<pc, arts>>
      BY <1>1, <2>1, <2>2, <3>1, <3>3, SameType
    <3>4. CASE arts' = [arts EXCEPT ![at.art].result = "error"] /\ NextArtifact
      <4>1. PICK b : Annotated(b)
        BY <2>2, <3>4, FailIs
      <4>2. QED BY <2>1, <2>2, <3>1, <3>4, <4>1, NextType
    <3>5. QED BY <3>2, <3>3, <3>4
  <2>5. QED BY <2>3, <2>4
<1>9. CASE ExtractFails
  BY <1>9, Working, FailType DEF ExtractFails
<1>10. CASE Extracted
  <2>1. /\ pc = "extract" /\ pc' = "fetch" /\ DOMAIN trees' = DOMAIN trees
        /\ at' = [at EXCEPT !.file = @ + 1] /\ UNCHANGED <<remote, run, exit, arts>>
    BY <1>10 DEF Extracted
  <2>2. at.art <= Len(arts) /\ Dir(art) \in DOMAIN trees
    BY <2>1, Working
  <2>3. QED BY <1>1, <2>1, <2>2, SameType
<1>11. CASE Stage
  <2>1. /\ pc = "fetch" /\ DOMAIN trees' = DOMAIN trees
        /\ UNCHANGED <<remote, run, exit>>
        /\ \/ NextArtifact /\ arts' = [arts EXCEPT ![at.art].file = DebName(art, opts.rev)[2]]
           \/ pc' = "pack" /\ UNCHANGED <<at, arts>>
    BY <1>11 DEF Stage
  <2>2. at.art <= Len(arts) /\ Dir(art) \in DOMAIN trees
    BY <2>1, Working
  <2>3. CASE pc' = "pack" /\ UNCHANGED <<at, arts>>
    BY <1>1, <2>1, <2>2, <2>3, SameType
  <2>4. CASE NextArtifact /\ arts' = [arts EXCEPT ![at.art].file = DebName(art, opts.rev)[2]]
    <3>1. PICK b : Annotated(b)
      BY <2>1, <2>4, StageNames
    <3>2. QED BY <2>1, <2>2, <2>4, <3>1, NextType
  <2>5. QED BY <2>1, <2>3, <2>4
<1>12. CASE StageFails
  BY <1>12, Working, FailType DEF StageFails
<1>13. CASE PackOpens
  <2>1. pc = "pack" /\ pc' = "write" /\ UNCHANGED <<remote, run, exit, arts, at, trees>>
    BY <1>13 DEF PackOpens
  <2>2. at.art <= Len(arts) /\ Dir(art) \in DOMAIN trees
    BY <2>1, Working
  <2>3. QED BY <1>1, <2>1, <2>2, SameType
<1>14. CASE PackFails
  BY <1>14, Working, FailType DEF PackFails
<1>15. CASE Pack
  <2>1. pc = "write" /\ NextArtifact /\ UNCHANGED <<remote, run, exit>>
    BY <1>15 DEF Pack
  <2>2. at.art <= Len(arts)
    BY <2>1, Working
  <2>3. PICK b : Annotated(b)
    BY <1>15, PackReports
  <2>4. QED BY <2>1, <2>2, <2>3, NextType
<1>16. CASE Finish
  BY <1>16 DEF Finish, run, TypeInv
<1>17. CASE Crash
  BY <1>17 DEF Crash, run, TypeInv
<1>18. ASSUME NEW u \in DOMAIN Offers, Republish(u) PROVE TypeInv'
  <2>1. DOMAIN remote' = DOMAIN Offers /\ \A v \in DOMAIN Offers : remote'[v] \in Offers[v]
    BY <1>18 DEF Republish, TypeInv
  <2>2. UNCHANGED <<dist, trees, run, position, arts, exit, shipped>>
    BY <1>18 DEF Republish
  <2>3. QED BY <2>1, <2>2 DEF TypeInv, run, position, art, Dir
<1>19. CASE Skip
  <2>1. /\ pc = "fetch" /\ pc' = "fetch" /\ at' = [at EXCEPT !.file = @ + 1]
        /\ UNCHANGED <<remote, trees, run, exit, arts>>
    BY <1>19 DEF Skip
  <2>2. at.art <= Len(arts) /\ Dir(art) \in DOMAIN trees
    BY <2>1, Working
  <2>3. QED BY <1>1, <2>1, <2>2, SameType
<1>20. QED
  BY <1>2, <1>3, <1>4, <1>5, <1>6, <1>7, <1>8, <1>9, <1>10, <1>11, <1>12, <1>13, <1>14,
     <1>15, <1>16, <1>17, <1>18, <1>19 DEF Next

\* Type correctness of the builds, the work and the output directory; while an
\* artifact is worked on, its staging directory is there.
THEOREM TypeCorrect == Spec => []TypeOK
<1>1. Spec => []TypeInv
  BY TypeInit, TypeNext, PTL DEF Spec
<1>2. QED BY <1>1, TypeInvOK, PTL


-----------------------------------------------------------------------------
(* The build implements BuildContract.                                     *)

ResultOf(i) == IF i >= at.art THEN "pending"
               ELSE IF arts[i].result = "error" THEN "error" ELSE "ok"

LEMMA ResultsIs == exit # "killed" => /\ Results = [i \in DOMAIN arts |-> ResultOf(i)]
                                      /\ DOMAIN Results = DOMAIN arts
                                      /\ \A i \in DOMAIN arts : Results[i] = ResultOf(i)
BY DEF Results, ResultOf

\* A step that works on the artifact without leaving it.
LEMMA WorkStutters ==
    ASSUME pc # "idle", pc' # "idle", at'.art = at.art, UNCHANGED exit,
           DOMAIN arts' = DOMAIN arts,
           \A i \in DOMAIN arts : arts'[i].result = arts[i].result
    PROVE  UNCHANGED <<pc # "idle", Results>>
<1>1. exit = "killed" => Results = <<>> /\ Results' = <<>>
  BY DEF Results
<1>2. ASSUME exit # "killed" PROVE UNCHANGED Results
  <2>1. Results = [i \in DOMAIN arts |-> ResultOf(i)]
    BY <1>2, ResultsIs
  <2>2. Results' = [i \in DOMAIN arts' |-> ResultOf(i)']
    BY <1>2 DEF Results, ResultOf
  <2>3. \A i \in DOMAIN arts : ResultOf(i)' = ResultOf(i)
    BY DEF ResultOf
  <2>4. QED BY <2>1, <2>2, <2>3
<1>3. QED BY <1>1, <1>2

\* Going on to the next artifact settles the one at hand.
LEMMA NextSettles ==
    ASSUME TypeInv, pc # "idle", at.art <= Len(arts), NEW b, Annotated(b), NextArtifact,
           UNCHANGED exit
    PROVE  Contract!Settle
<1>1. /\ at.art \in DOMAIN arts /\ DOMAIN arts' = DOMAIN arts /\ DOMAIN arts = 1..Len(arts)
      /\ arts'[at.art] = b /\ \A i \in DOMAIN arts : i # at.art => arts'[i] = arts[i]
      /\ Len(arts) \in Nat
  BY AnnotatedIs, ListIs DEF TypeInv, Artifacts
<1>2. at'.art = at.art + 1 /\ pc' = "verify" /\ at.art \in Nat
  BY DEF NextArtifact, TypeInv
<1>3. exit = "none" /\ exit' = "none"
  BY DEF TypeInv
<1> DEFINE r == IF b.result = "error" THEN "error" ELSE "ok"
<1>4. Results' = [i \in DOMAIN arts |-> ResultOf(i)']
  BY <1>1, <1>3 DEF Results, ResultOf
<1>5. /\ DOMAIN Results = DOMAIN arts /\ Results = [i \in DOMAIN arts |-> ResultOf(i)]
      /\ Results[at.art] = "pending"
  BY <1>1, <1>2, <1>3, ResultsIs DEF ResultOf
<1>6. \A i \in DOMAIN arts : ResultOf(i)' = IF i = at.art THEN r ELSE ResultOf(i)
  <2> SUFFICES ASSUME NEW i \in DOMAIN arts
               PROVE  ResultOf(i)' = IF i = at.art THEN r ELSE ResultOf(i)
    OBVIOUS
  <2>1. i \in Nat
    BY <1>1
  <2>2. CASE i = at.art
    BY <1>1, <1>2, <2>1, <2>2 DEF ResultOf
  <2>3. CASE i # at.art
    <3>1. (i >= at'.art) <=> (i >= at.art)
      BY <1>2, <2>1, <2>3
    <3>2. QED BY <1>1, <2>3, <3>1 DEF ResultOf
  <2>4. QED BY <2>2, <2>3
<1>7. Results' = [Results EXCEPT ![at.art] = r]
  BY <1>4, <1>5, <1>6
<1>8. r \in {"ok", "error"}
  OBVIOUS
<1>9. QED BY <1>1, <1>2, <1>5, <1>7, <1>8 DEF Contract!Settle

LEMMA FailSettles ==
    ASSUME TypeInv, pc # "idle", at.art <= Len(arts), Fail
    PROVE  Contract!Settle
<1>1. PICK b : Annotated(b)
  BY FailIs DEF Fail
<1>2. QED BY <1>1, NextSettles DEF Fail

LEMMA ContractInit == Init => Contract!Init
<1> SUFFICES ASSUME Init PROVE Contract!Init
  OBVIOUS
<1>1. arts = <<>> /\ exit = "none" /\ pc = "idle"
  BY DEF Init
<1>2. DOMAIN arts = {}
  BY <1>1
<1>3. Results = [i \in DOMAIN arts |-> ResultOf(i)]
  BY <1>1, ResultsIs
<1>4. Results = <<>>
  BY <1>2, <1>3
<1>5. QED BY <1>1, <1>4 DEF Contract!Init

LEMMA ContractNext ==
    TypeInv /\ [Next]_vars => [Contract!Next]_<<pc # "idle", Results>>
<1> SUFFICES ASSUME TypeInv, [Next]_vars
             PROVE  Contract!Next \/ UNCHANGED <<pc # "idle", Results>>
  OBVIOUS
<1> USE DEF Contract!Next
<1>1. CASE UNCHANGED vars
  BY <1>1 DEF vars, run, position, Results
<1>2. ASSUME NEW p \in Sources, NEW o \in Options, Start(p, o)
      PROVE  Contract!Next
  <2>1. /\ pc = "idle" /\ pc' = "verify" /\ arts' = p.arts /\ exit' = "none"
        /\ at'.art = 1
    BY <1>2 DEF Start
  <2>2. p \in Plans \/ p = [arts |-> arts, broken |-> broken]
    BY DEF Sources
  <2>3. List(arts')
    BY <2>1, <2>2, CooperBuildAssumption DEF TypeInv, Artifacts
  <2>4. DOMAIN arts' = 1..Len(arts') /\ Len(arts') \in Nat
    BY <2>3, ListIs
  <2>5. DOMAIN Results' = DOMAIN arts' /\ \A i \in DOMAIN arts' : Results'[i] = ResultOf(i)'
    BY <2>1 DEF Results, ResultOf
  <2>6. \A i \in DOMAIN arts' : ResultOf(i)' = "pending"
    BY <2>1, <2>4 DEF ResultOf
  <2>7. QED BY <2>1, <2>5, <2>6 DEF Contract!Start
<1>3. ASSUME NEW p \in Sources, NEW o \in Options, Refuse(p, o)
      PROVE  Contract!Next
  BY <1>3 DEF Refuse, position, Results, Contract!Refuse
<1>4. CASE Verify
  <2>1. CASE Fail
    BY <1>4, <2>1, FailSettles DEF Verify
  <2>2. CASE ~ Fail
    BY <1>4, <2>2, WorkStutters DEF Verify
  <2>3. QED BY <2>1, <2>2
<1>5. CASE Fetch
  <2>1. pc = "fetch" /\ at.file <= Len(art.assets) /\ at.art <= Len(arts)
    BY <1>5, Working DEF Fetch
  <2>2. CASE Fail
    BY <2>1, <2>2, FailSettles
  <2>3. CASE ~ Fail
    <3>1. /\ arts' = [arts EXCEPT ![at.art].assets[at.file].sha = remote[file.url]]
          /\ pc' # "idle" /\ at'.art = at.art /\ UNCHANGED exit
      BY <1>5, <2>1, <2>3 DEF Fetch, TypeInv
    <3>2. PICK b : Annotated(b) /\ b.result = art.result
      BY <2>1, <3>1, FetchRecords
    <3>3. /\ DOMAIN arts' = DOMAIN arts
          /\ \A i \in DOMAIN arts : arts'[i].result = arts[i].result
      BY <2>1, <3>2, AnnotatedIs DEF art
    <3>4. QED BY <2>1, <3>1, <3>3, WorkStutters
  <2>4. QED BY <2>2, <2>3
<1>6. CASE FetchFails
  BY <1>6, Working, FailSettles DEF FetchFails
<1>7. CASE Extract
  <2>1. pc = "extract" /\ at.art <= Len(arts)
    BY <1>7, Working DEF Extract
  <2>2. CASE Fail
    BY <2>1, <2>2, FailSettles
  <2>3. CASE ~ Fail
    <3>1. /\ \/ arts' = [arts EXCEPT ![at.art].result = "error"] /\ NextArtifact
             \/ at' = [at EXCEPT !.entry = @ + 1] /\ UNCHANGED <<pc, arts>>
          /\ UNCHANGED exit
      BY <1>7, <2>3 DEF Extract
    <3>2. CASE at' = [at EXCEPT !.entry = @ + 1] /\ UNCHANGED <<pc, arts>>
      <4>1. at'.art = at.art
        BY <3>2 DEF TypeInv
      <4>2. QED BY <2>1, <3>1, <3>2, <4>1, WorkStutters
    <3>3. CASE arts' = [arts EXCEPT ![at.art].result = "error"] /\ NextArtifact
      <4>1. PICK b : Annotated(b)
        BY <2>1, <3>3, FailIs
      <4>2. QED BY <2>1, <3>1, <3>3, <4>1, NextSettles
    <3>4. QED BY <3>1, <3>2, <3>3
  <2>4. QED BY <2>2, <2>3
<1>8. CASE ExtractFails
  BY <1>8, Working, FailSettles DEF ExtractFails
<1>9. CASE Extracted
  BY <1>9, WorkStutters DEF Extracted, TypeInv
<1>10. CASE Stage
  <2>1. pc = "fetch" /\ at.art <= Len(arts) /\ UNCHANGED exit
    BY <1>10, Working DEF Stage
  <2>2. \/ NextArtifact /\ arts' = [arts EXCEPT ![at.art].file = DebName(art, opts.rev)[2]]
        \/ pc' = "pack" /\ UNCHANGED <<at, arts>>
    BY <1>10 DEF Stage
  <2>3. CASE pc' = "pack" /\ UNCHANGED <<at, arts>>
    BY <2>1, <2>3, WorkStutters
  <2>4. CASE NextArtifact /\ arts' = [arts EXCEPT ![at.art].file = DebName(art, opts.rev)[2]]
    <3>1. PICK b : Annotated(b)
      BY <2>1, <2>4, StageNames
    <3>2. QED BY <2>1, <2>4, <3>1, NextSettles
  <2>5. QED BY <2>2, <2>3, <2>4
<1>11. CASE StageFails
  BY <1>11, Working, FailSettles DEF StageFails
<1>12. CASE PackOpens
  BY <1>12, WorkStutters DEF PackOpens
<1>13. CASE PackFails
  BY <1>13, Working, FailSettles DEF PackFails
<1>14. CASE Pack
  <2>1. pc = "write" /\ NextArtifact /\ UNCHANGED exit /\ at.art <= Len(arts)
    BY <1>14, Working DEF Pack
  <2>2. PICK b : Annotated(b)
    BY <1>14, PackReports
  <2>3. QED BY <2>1, <2>2, NextSettles
<1>15. CASE Finish
  <2>1. /\ pc # "idle" /\ pc' = "idle" /\ at.art > Len(arts) /\ UNCHANGED <<arts, at>>
        /\ exit' \in {"ok", "error"} /\ exit = "none"
    BY <1>15 DEF Finish, run, TypeInv
  <2>2. /\ DOMAIN arts = 1..Len(arts) /\ Len(arts) \in Nat /\ at.art \in Nat
    BY ListIs DEF TypeInv, Artifacts
  <2>3. \A i \in DOMAIN arts : ResultOf(i) # "pending" /\ ResultOf(i)' = ResultOf(i)
    BY <2>1, <2>2 DEF ResultOf
  <2>4. /\ DOMAIN Results = DOMAIN arts
        /\ \A i \in DOMAIN arts : Results[i] = ResultOf(i)
    BY <2>1, ResultsIs
  <2>5. Results' = Results
    BY <2>1 DEF Results
  <2>6. QED BY <2>1, <2>3, <2>4, <2>5 DEF Contract!Finish
<1>16. CASE Crash
  BY <1>16 DEF Crash, Results, Contract!Killed
<1>17. ASSUME NEW u \in DOMAIN Offers, Republish(u) PROVE UNCHANGED <<pc # "idle", Results>>
  BY <1>17 DEF Republish, position, Results
<1>18. CASE Skip
  BY <1>18, WorkStutters DEF Skip, TypeInv
<1>19. QED
  BY <1>1, <1>2, <1>3, <1>4, <1>5, <1>6, <1>7, <1>8, <1>9, <1>10, <1>11, <1>12, <1>13, <1>14,
     <1>15, <1>16, <1>17, <1>18 DEF Next

\* Artifacts are settled one by one, each by itself: once settled the result
\* of an artifact stays, a run that ends has settled all of them, and one that
\* is killed or refused has settled none.
THEOREM Implementation == Spec => ImplementsContract
<1>1. Spec => []TypeInv
  BY TypeInit, TypeNext, PTL DEF Spec
<1>2. QED
  BY <1>1, ContractInit, ContractNext, PTL DEF Spec, ImplementsContract, Contract!Spec


-----------------------------------------------------------------------------
(* What a step does to the plan: it is replaced by that of another build,  *)
(* or the artifact at hand is annotated.                                   *)

\* All but the digest.
SameFile(f, g) ==
    g.url = f.url /\ g.name = f.name /\ g.size = f.size /\ g.archive = f.archive /\ g.dir = f.dir

Like(a, b) ==
    /\ SameArtifact(a, b) /\ DOMAIN b.assets = DOMAIN a.assets
    /\ \A j \in DOMAIN a.assets : SameFile(a.assets[j], b.assets[j])

Annotates(b) ==
    /\ pc # "idle" /\ pc' # "idle" /\ at.art <= Len(arts) /\ Annotated(b) /\ Like(art, b)
    /\ at'.art \in {at.art, at.art + 1} /\ UNCHANGED run
    /\ pc = "verify" => b.assets = art.assets /\ at'.art = at.art + 1
    /\ \/ Pack /\ b.path = Tree /\ b.file = DebName(art, opts.rev)[2] /\ b.assets = art.assets
       \/ b.path = art.path /\ b.file = art.file /\ (at'.art = at.art \/ b.result = "error")
       \/ /\ opts.stage /\ pc = "fetch"
          /\ b.path = art.path /\ b.file = DebName(art, opts.rev)[2]
          /\ opts.rev > 0 => b.file \in staged'

\* A step goes on to another artifact by leaving this one.
LEMMA PositionStep ==
    ASSUME TypeInv, [Next]_vars, pc # "idle", pc' # "idle"
    PROVE  \/ at'.art = at.art /\ (pc' = "verify" => pc = "verify")
           \/ at'.art = at.art + 1 /\ pc' = "verify"
BY DEF TypeInv, Next, vars, position, Start, Refuse, Verify, Skip, Fetch, FetchFails, Extract,
       ExtractFails, Extracted, Stage, StageFails, PackOpens, PackFails, Pack, Finish, Crash,
       Republish, Fail, NextArtifact

LEMMA SameIsLike ==
    ASSUME NEW a, NEW b, SameArtifact(a, b), b.assets = a.assets
    PROVE  Like(a, b)
BY DEF Like, SameFile

LEMMA StepIs ==
    ASSUME TypeInv, [Next]_vars
    PROVE  \/ \E p \in Sources, o \in Options : Start(p, o)
           \/ /\ UNCHANGED <<arts, run>>
              /\ pc' # "idle" => pc # "idle" /\ at'.art = at.art
           \/ \E b : Annotates(b)
<1> DEFINE Same == /\ UNCHANGED <<arts, run>>
                   /\ pc' # "idle" => pc # "idle" /\ at'.art = at.art
<1> SUFFICES ASSUME ~ Same, ~ \E p \in Sources, o \in Options : Start(p, o)
             PROVE  \E b : Annotates(b)
  OBVIOUS
<1>1. ASSUME pc # "idle", at.art <= Len(arts), Fail PROVE \E b : Annotates(b)
  <2>1. PICK b : /\ Annotated(b) /\ b.result = "error"
                 /\ b.file = art.file /\ b.path = art.path /\ b.assets = art.assets
    BY <1>1, FailIs DEF Fail
  <2>2. Like(art, b)
    BY <2>1, SameIsLike DEF Annotated
  <2>3. pc' # "idle" /\ at'.art = at.art + 1 /\ UNCHANGED run
    BY <1>1 DEF Fail, NextArtifact
  <2>4. QED BY <1>1, <2>1, <2>2, <2>3 DEF Annotates
<1>2. CASE UNCHANGED vars
  BY <1>2 DEF vars, position
<1>3. CASE \E p \in Sources, o \in Options : Refuse(p, o)
  BY <1>3 DEF Refuse, position
<1>4. CASE Verify
  BY <1>1, <1>4 DEF Verify, run
<1>5. CASE Fetch
  <2>1. pc = "fetch" /\ at.file <= Len(art.assets) /\ at.art <= Len(arts)
    BY <1>5, Working DEF Fetch
  <2>2. CASE Fail
    BY <1>1, <2>1, <2>2
  <2>3. CASE ~ Fail
    <3>1. /\ arts' = [arts EXCEPT ![at.art].assets[at.file].sha = remote[file.url]]
          /\ pc' # "idle" /\ at'.art = at.art /\ UNCHANGED run
      BY <1>5, <2>1, <2>3 DEF Fetch, TypeInv
    <3>2. PICK b : /\ Annotated(b) /\ b.file = art.file /\ b.path = art.path
                   /\ b.assets = [art.assets EXCEPT ![at.file] =
                                     [file EXCEPT !.sha = remote[file.url]]]
                   /\ DOMAIN b.assets = DOMAIN art.assets
      BY <2>1, <3>1, FetchRecords
    <3>3. Artifact(art) /\ File(file)
      BY <2>1, Working DEF Artifact, file
    <3>4. SameFile(file, [file EXCEPT !.sha = remote[file.url]])
      BY <3>3 DEF SameFile, File
    <3>5. \A j \in DOMAIN art.assets : SameFile(art.assets[j], b.assets[j])
      <4> SUFFICES ASSUME NEW j \in DOMAIN art.assets
                   PROVE  SameFile(art.assets[j], b.assets[j])
        OBVIOUS
      <4>1. CASE j = at.file
        BY <3>2, <3>4, <4>1 DEF file
      <4>2. CASE j # at.file
        BY <3>2, <4>2 DEF SameFile
      <4>3. QED BY <4>1, <4>2
    <3>6. Like(art, b)
      BY <3>2, <3>5 DEF Like, Annotated
    <3>7. QED BY <2>1, <3>1, <3>2, <3>6 DEF Annotates
  <2>4. QED BY <2>2, <2>3
<1>6. CASE FetchFails
  BY <1>1, <1>6, Working DEF FetchFails
<1>7. CASE Extract
  <2>1. pc = "extract" /\ at.art <= Len(arts)
    BY <1>7, Working DEF Extract
  <2>2. CASE Fail
    BY <1>1, <2>1, <2>2
  <2>3. CASE ~ Fail
    <3>1. /\ \/ arts' = [arts EXCEPT ![at.art].result = "error"] /\ NextArtifact
             \/ at' = [at EXCEPT !.entry = @ + 1] /\ UNCHANGED <<pc, arts>>
          /\ UNCHANGED run
      BY <1>7, <2>3 DEF Extract
    <3>2. CASE at' = [at EXCEPT !.entry = @ + 1] /\ UNCHANGED <<pc, arts>>
      BY <2>1, <3>1, <3>2 DEF TypeInv
    <3>3. CASE arts' = [arts EXCEPT ![at.art].result = "error"] /\ NextArtifact
      <4>1. PICK b : /\ Annotated(b) /\ b.result = "error"
                     /\ b.file = art.file /\ b.path = art.path /\ b.assets = art.assets
        BY <2>1, <3>3, FailIs
      <4>2. Like(art, b)
        BY <4>1, SameIsLike DEF Annotated
      <4>3. QED BY <2>1, <3>1, <3>3, <4>1, <4>2 DEF Annotates, NextArtifact
    <3>4. QED BY <3>1, <3>2, <3>3
  <2>4. QED BY <2>2, <2>3
<1>8. CASE ExtractFails
  BY <1>1, <1>8, Working DEF ExtractFails
<1>9. CASE Extracted
  BY <1>9 DEF Extracted, TypeInv
<1>10. CASE Stage
  <2>1. pc = "fetch" /\ at.art <= Len(arts) /\ UNCHANGED run
    BY <1>10, Working DEF Stage
  <2>2. \/ /\ opts.stage /\ NextArtifact
           /\ arts' = [arts EXCEPT ![at.art].file = DebName(art, opts.rev)[2]]
           /\ opts.rev > 0 => DebName(art, opts.rev)[2] \in staged'
        \/ pc' = "pack" /\ UNCHANGED <<at, arts>>
    BY <1>10 DEF Stage
  <2>3. CASE pc' = "pack" /\ UNCHANGED <<at, arts>>
    BY <2>1, <2>3
  <2>4. CASE /\ opts.stage /\ NextArtifact
             /\ arts' = [arts EXCEPT ![at.art].file = DebName(art, opts.rev)[2]]
             /\ opts.rev > 0 => DebName(art, opts.rev)[2] \in staged'
    <3>1. PICK b : /\ Annotated(b) /\ b.file = DebName(art, opts.rev)[2]
                   /\ b.path = art.path /\ b.assets = art.assets
      BY <2>1, <2>4, StageNames
    <3>2. Like(art, b)
      BY <3>1, SameIsLike DEF Annotated
    <3>3. QED BY <2>1, <2>4, <3>1, <3>2 DEF Annotates, NextArtifact
  <2>5. QED BY <2>2, <2>3, <2>4
<1>11. CASE StageFails
  BY <1>1, <1>11, Working DEF StageFails
<1>12. CASE PackOpens
  BY <1>12 DEF PackOpens
<1>13. CASE PackFails
  BY <1>1, <1>13, Working DEF PackFails
<1>14. CASE Pack
  <2>1. pc = "write" /\ NextArtifact /\ UNCHANGED run /\ at.art <= Len(arts)
    BY <1>14, Working DEF Pack
  <2>2. PICK b : /\ Annotated(b) /\ b.file = DebName(art, opts.rev)[2]
                 /\ b.path = Tree /\ b.assets = art.assets
    BY <1>14, PackReports
  <2>3. Like(art, b)
    BY <2>2, SameIsLike DEF Annotated
  <2>4. QED BY <1>14, <2>1, <2>2, <2>3 DEF Annotates, NextArtifact
<1>15. CASE Finish
  BY <1>15 DEF Finish
<1>16. CASE Crash
  BY <1>16 DEF Crash
<1>17. CASE \E u \in DOMAIN Offers : Republish(u)
  BY <1>17 DEF Republish, position
<1>18. CASE Skip
  BY <1>18 DEF Skip, TypeInv
<1>19. QED
  BY <1>2, <1>3, <1>4, <1>5, <1>6, <1>7, <1>8, <1>9, <1>10, <1>11, <1>12, <1>13, <1>14,
     <1>15, <1>16, <1>17, <1>18 DEF Next

-----------------------------------------------------------------------------
\* The plan at hand is one that a discover emitted, but for annotations.
LikePlan(as, p) ==
    DOMAIN as = DOMAIN p.arts /\ \A i \in DOMAIN as : Like(p.arts[i], as[i])

\* What is still to be built has no .deb.
PlanInv ==
    /\ arts = <<>> \/ \E p \in Plans : LikePlan(arts, p)
    /\ pc # "idle" => \A i \in DOMAIN arts : i >= at.art => arts[i].path = Nil

LEMMA PlanInit == Init => PlanInv
BY DEF Init, PlanInv

LEMMA LikeTransitive ==
    ASSUME NEW a, NEW b, NEW c, Like(a, b), Like(b, c)
    PROVE  Like(a, c)
<1>1. SameArtifact(a, c) /\ DOMAIN c.assets = DOMAIN a.assets
  BY DEF Like, SameArtifact
<1>2. \A j \in DOMAIN a.assets : SameFile(a.assets[j], c.assets[j])
  BY DEF Like, SameFile
<1>3. QED BY <1>1, <1>2 DEF Like

LEMMA LikeItself == ASSUME NEW a PROVE Like(a, a)
BY DEF Like, SameArtifact, SameFile

LEMMA PlanNext == TypeInv /\ PlanInv /\ [Next]_vars => PlanInv'
<1> SUFFICES ASSUME TypeInv, PlanInv, [Next]_vars PROVE PlanInv'
  OBVIOUS
<1>1. ASSUME NEW p \in Sources, NEW o \in Options, Start(p, o) PROVE PlanInv'
  <2>1. arts' = p.arts /\ ~ \E i \in DOMAIN p.arts : p.arts[i].path # Nil
    BY <1>1 DEF Start, Accepted, rejectAnnotatedPlan
  <2>2. \A i \in DOMAIN arts' : arts'[i].path = Nil
    BY <2>1
  <2>3. arts' = <<>> \/ \E q \in Plans : LikePlan(arts', q)
    <3>1. CASE p \in Plans
      BY <2>1, <3>1, LikeItself DEF LikePlan
    <3>2. CASE p = [arts |-> arts, broken |-> broken]
      BY <2>1, <3>2 DEF PlanInv
    <3>3. QED BY <3>1, <3>2 DEF Sources
  <2>4. QED BY <2>2, <2>3 DEF PlanInv
<1>2. CASE UNCHANGED <<arts, run>> /\ (pc' # "idle" => pc # "idle" /\ at'.art = at.art)
  BY <1>2 DEF PlanInv
<1>3. ASSUME NEW b, Annotates(b) PROVE PlanInv'
  <2>1. /\ at.art \in DOMAIN arts /\ DOMAIN arts' = DOMAIN arts /\ arts'[at.art] = b
        /\ \A i \in DOMAIN arts : i # at.art => arts'[i] = arts[i]
        /\ Len(arts) \in Nat /\ DOMAIN arts = 1..Len(arts)
    BY <1>3, AnnotatedIs, ListIs DEF Annotates, TypeInv, Artifacts
  <2>2. PICK p \in Plans : LikePlan(arts, p)
    BY <2>1 DEF PlanInv
  <2>3. Like(p.arts[at.art], b)
    BY <1>3, <2>1, <2>2, LikeTransitive DEF LikePlan, Annotates, art
  <2>4. LikePlan(arts', p)
    BY <2>1, <2>2, <2>3 DEF LikePlan
  <2>5. at'.art = at.art => b.path = art.path
    BY <1>3 DEF Annotates, Pack, NextArtifact, TypeInv
  <2>6. \A i \in DOMAIN arts' : i >= at'.art => arts'[i].path = Nil
    BY <1>3, <2>1, <2>5 DEF PlanInv, Annotates, TypeInv, art
  <2>7. QED BY <2>4, <2>6 DEF PlanInv
<1>4. QED BY <1>1, <1>2, <1>3, StepIs

LEMMA PlanKept == Spec => [](TypeInv /\ PlanInv)
BY TypeInit, TypeNext, PlanInit, PlanNext, PTL DEF Spec


-----------------------------------------------------------------------------
(* Staging trees, and how a step changes the one at hand.                  *)

TreeParts == {"asset", "source", "aux", "nfpm", "mtime"}
IsTree(t) == t = [k \in TreeParts |-> t[k]]

TreesInv == \A d \in DOMAIN trees : IsTree(trees[d])

LEMMA EmptyIsTree == IsTree(EmptyTree)
BY DEF IsTree, TreeParts, EmptyTree

\* The step puts t in place of the tree at hand.
Staged(t) == IsTree(t) /\ trees' = [trees EXCEPT ![Dir(art)] = t]

LEMMA StagedIs ==
    ASSUME TreesInv, Dir(art) \in DOMAIN trees, NEW t, Staged(t)
    PROVE  /\ TreesInv' /\ DOMAIN trees' = DOMAIN trees /\ trees'[Dir(art)] = t
           /\ \A d \in DOMAIN trees : d # Dir(art) => trees'[d] = trees[d]
BY DEF TreesInv, Staged

LEMMA WriteIs ==
    ASSUME TreesInv, Dir(art) \in DOMAIN trees, NEW dir \in {"asset", "source"}, NEW n, NEW c,
           WriteFile(dir, n, c)
    PROVE  \E t : /\ Staged(t) /\ t[dir] = Put(Tree[dir], n, c)
                  /\ \A k \in TreeParts \ {dir, "mtime"} : t[k] = Tree[k]
<1> DEFINE P == Put(Tree[dir], n, c)
           t == [Tree EXCEPT ![dir] = P, !.mtime = runs]
<1>1. Tree = [k \in TreeParts |-> Tree[k]]
  BY DEF TreesInv, IsTree, Tree
<1>2. trees' = [trees EXCEPT ![Dir(art)] = t]
  BY DEF WriteFile, Tree
<1> HIDE DEF P
<1>3. /\ t = [k \in TreeParts |-> t[k]] /\ t[dir] = P
      /\ \A k \in TreeParts \ {dir, "mtime"} : t[k] = Tree[k]
  BY <1>1 DEF TreeParts
<1>4. QED BY <1>2, <1>3 DEF Staged, IsTree, P

LEMMA ExtractedIs ==
    ASSUME TypeInv, TreesInv, Extracted
    PROVE  \E t : /\ Staged(t) /\ t[file.dir] = Without(Tree[file.dir], {file.name})
                  /\ \A k \in TreeParts \ {file.dir} : t[k] = Tree[k]
<1> DEFINE P == Without(Tree[file.dir], {file.name})
           t == [Tree EXCEPT ![file.dir] = P]
<1>1. Dir(art) \in DOMAIN trees /\ file.dir \in {"asset", "source"}
  BY Working DEF Extracted, TypeInv, Artifact, File, file
<1>2. Tree = [k \in TreeParts |-> Tree[k]]
  BY <1>1 DEF TreesInv, IsTree, Tree
<1>3. trees' = [trees EXCEPT ![Dir(art)] = t]
  BY DEF Extracted, Tree
<1> HIDE DEF P
<1>4. /\ t = [k \in TreeParts |-> t[k]] /\ t[file.dir] = P
      /\ \A k \in TreeParts \ {file.dir} : t[k] = Tree[k]
  BY <1>1, <1>2 DEF TreeParts
<1>5. QED BY <1>3, <1>4 DEF Staged, IsTree, P

LEMMA StageIs ==
    ASSUME TypeInv, TreesInv, Stage
    PROVE  \E t : /\ Staged(t)
                  /\ t.asset = Over(Tree.asset, art.plan.aux.asset)
                  /\ t.source = Over(Tree.source, art.plan.aux.source)
                  /\ t.aux = art.plan.aux.top /\ t.nfpm = NfpmYAML /\ t.mtime = art.plan.epoch
<1> DEFINE f == Over(Tree.asset, art.plan.aux.asset)
           g == Over(Tree.source, art.plan.aux.source)
           t == [[[Tree EXCEPT !.asset = f, !.source = g, !.aux = art.plan.aux.top]
                    EXCEPT !.nfpm = NfpmYAML] EXCEPT !.mtime = art.plan.epoch]
<1>1. Dir(art) \in DOMAIN trees
  BY Working DEF Stage
<1>2. Tree = [k \in TreeParts |-> Tree[k]]
  BY <1>1 DEF TreesInv, IsTree, Tree
<1>3. trees' = [trees EXCEPT ![Dir(art)] = t]
  BY DEF Stage, Tree, PinMtimes, WriteAuxFiles
<1> HIDE DEF f, g
<1>4. /\ t = [k \in TreeParts |-> t[k]] /\ t.asset = f /\ t.source = g
      /\ t.aux = art.plan.aux.top /\ t.nfpm = NfpmYAML /\ t.mtime = art.plan.epoch
  BY <1>2 DEF TreeParts
<1>5. QED BY <1>3, <1>4 DEF Staged, IsTree, f, g

\* The directories of the artifact are made by Verify.
LEMMA VerifyIs ==
    ASSUME TreesInv, Verify, ~ Fail
    PROVE  /\ pc = "verify" /\ pc' = "fetch" /\ at.art <= Len(arts) /\ TreesInv'
           /\ DOMAIN trees' = DOMAIN trees \cup {Dir(art)}
           /\ \A d \in DOMAIN trees : trees'[d] = trees[d]
           /\ Dir(art) \notin DOMAIN trees => trees'[Dir(art)] = EmptyTree
           /\ VerifyBuildInputsHash(art)
           /\ UNCHANGED <<remote, dist, run, at, used, arts, exit, shipped>>
<1>1. /\ trees' = IF Dir(art) \in DOMAIN trees THEN trees ELSE Put(trees, Dir(art), EmptyTree)
      /\ VerifyBuildInputsHash(art) /\ pc = "verify" /\ pc' = "fetch" /\ at.art <= Len(arts)
      /\ UNCHANGED <<remote, dist, run, at, used, arts, exit, shipped>>
  BY DEF Verify
<1>2. /\ DOMAIN trees' = DOMAIN trees \cup {Dir(art)}
      /\ \A d \in DOMAIN trees : trees'[d] = trees[d]
      /\ Dir(art) \notin DOMAIN trees => trees'[Dir(art)] = EmptyTree
  BY <1>1 DEF Put
<1>3. TreesInv'
  BY <1>2, EmptyIsTree DEF TreesInv
<1>4. QED BY <1>1, <1>2, <1>3

\* What a step does to the staging trees.
LEMMA TreesStep ==
    ASSUME TypeInv, TreesInv, [Next]_vars
    PROVE  \/ UNCHANGED trees
           \/ Verify /\ ~ Fail
           \/ /\ Fetch \/ FetchFails \/ Extract \/ Extracted \/ Stage
              /\ Dir(art) \in DOMAIN trees /\ \E t : Staged(t)
           \/ Finish /\ DOMAIN trees' \subseteq DOMAIN trees
              /\ \A d \in DOMAIN trees' : trees'[d] = trees[d]
<1> SUFFICES ASSUME ~ UNCHANGED trees
             PROVE  \/ Verify /\ ~ Fail
                    \/ /\ Fetch \/ FetchFails \/ Extract \/ Extracted \/ Stage
                       /\ Dir(art) \in DOMAIN trees /\ \E t : Staged(t)
                    \/ Finish /\ DOMAIN trees' \subseteq DOMAIN trees
                       /\ \A d \in DOMAIN trees' : trees'[d] = trees[d]
  OBVIOUS
<1>1. ~ UNCHANGED vars
  BY DEF vars
<1>2. CASE \E p \in Sources, o \in Options : Start(p, o) \/ Refuse(p, o)
  BY <1>2 DEF Start, Refuse
<1>3. CASE Verify
  BY <1>3 DEF Verify, Fail, NextArtifact
<1>4. CASE Fetch \/ FetchFails
  <2>1. /\ pc = "fetch" /\ at.file <= Len(art.assets)
        /\ \E c : WriteFile(file.dir, file.name, c)
    BY <1>4 DEF Fetch, FetchFails
  <2>2. Dir(art) \in DOMAIN trees /\ file.dir \in {"asset", "source"}
    BY <2>1, Working DEF Artifact, File, file
  <2>3. QED BY <1>4, <2>1, <2>2, WriteIs
<1>5. CASE Extract
  <2>1. pc = "extract" /\ WriteFile(file.dir, entry.name, entry.data)
    BY <1>5 DEF Extract
  <2>2. Dir(art) \in DOMAIN trees /\ file.dir \in {"asset", "source"}
    BY <2>1, Working DEF TypeInv, Artifact, File, file
  <2>3. QED BY <1>5, <2>1, <2>2, WriteIs
<1>6. CASE Extracted
  BY <1>6, ExtractedIs, Working DEF Extracted
<1>7. CASE Stage
  BY <1>7, StageIs, Working DEF Stage
<1>8. CASE Finish
  BY <1>8 DEF Finish, Cleaned, Without
<1>9. CASE Skip \/ ExtractFails \/ StageFails \/ PackOpens \/ PackFails \/ Pack \/ Crash
  BY <1>9 DEF Skip, ExtractFails, StageFails, PackOpens, PackFails, Pack, Crash
<1>10. CASE \E u \in DOMAIN Offers : Republish(u)
  BY <1>10 DEF Republish
<1>11. QED
  BY <1>1, <1>2, <1>3, <1>4, <1>5, <1>6, <1>7, <1>8, <1>9, <1>10 DEF Next

LEMMA TreesInit == Init => TreesInv
BY DEF Init, TreesInv

LEMMA TreesNext == TypeInv /\ TreesInv /\ [Next]_vars => TreesInv'
<1> SUFFICES ASSUME TypeInv, TreesInv, [Next]_vars PROVE TreesInv'
  OBVIOUS
<1>1. CASE UNCHANGED trees
  BY <1>1 DEF TreesInv
<1>2. CASE Verify /\ ~ Fail
  BY <1>2, VerifyIs
<1>3. ASSUME Dir(art) \in DOMAIN trees, NEW t, Staged(t) PROVE TreesInv'
  BY <1>3, StagedIs
<1>4. CASE DOMAIN trees' \subseteq DOMAIN trees /\ \A d \in DOMAIN trees' : trees'[d] = trees[d]
  BY <1>4 DEF TreesInv
<1>5. QED BY <1>1, <1>2, <1>3, <1>4, TreesStep


-----------------------------------------------------------------------------
(* What is known of the files of an artifact while they are fetched.       *)

LEMMA FileIs ==
    ASSUME TypeInv, pc \in {"fetch", "extract"}, at.file <= Len(art.assets)
    PROVE  /\ at.file \in DOMAIN art.assets /\ File(file) /\ Dir(art) \in DOMAIN trees
           /\ file.dir \in {"asset", "source"}
           /\ file.url # Nil =>
                file.url \in DOMAIN Offers /\ remote[file.url] \in Offers[file.url]
<1>1. at.file \in DOMAIN art.assets /\ Artifact(art) /\ Dir(art) \in DOMAIN trees
  BY Working
<1>2. File(file) /\ (file.url # Nil => file.url \in DOMAIN Offers) /\ file.dir \in {"asset", "source"}
  BY <1>1 DEF Artifact, File, file
<1>3. QED BY <1>1, <1>2 DEF TypeInv

\* The artifact and the tree after a step that stays with them.
LEMMA StayIs ==
    ASSUME TypeInv, at.art <= Len(arts), at'.art = at.art, UNCHANGED run,
           NEW b, Annotated(b)
    PROVE  art' = b /\ Dir(art)' = Dir(art) /\ Tree' = trees'[Dir(art)]
<1>1. art' = b
  BY AnnotatedIs DEF art
<1>2. Dir(art)' = Dir(art)
  BY <1>1 DEF Annotated, SameArtifact, Dir, run
<1>3. QED BY <1>1, <1>2 DEF Tree

\* A file that is accepted is on disk and in the plan.
LEMMA FetchIs ==
    ASSUME TypeInv, TreesInv, Fetch, ~ Fail
    PROVE  LET got == remote[file.url]
           IN /\ VerifySHA256(file.sha, got)
              /\ art'.assets = [art.assets EXCEPT ![at.file] = [file EXCEPT !.sha = got]]
              /\ SameArtifact(art, art') /\ Dir(art)' = Dir(art)
              /\ Tree'[file.dir] = Put(Tree[file.dir], file.name, got)
              /\ \A k \in TreeParts \ {file.dir, "mtime"} : Tree'[k] = Tree[k]
              /\ \/ /\ file.archive /\ pc' = "extract" /\ at' = [at EXCEPT !.entry = 1]
                    /\ used' = [bytes |-> 0, files |-> 0]
                 \/ /\ ~ file.archive /\ pc' = "fetch" /\ at' = [at EXCEPT !.file = @ + 1]
                    /\ UNCHANGED used
              /\ UNCHANGED <<remote, dist, run, exit, shipped>>
<1> DEFINE got == remote[file.url]
<1>1. /\ pc = "fetch" /\ at.file <= Len(art.assets) /\ at.art <= Len(arts)
      /\ Dir(art) \in DOMAIN trees /\ file.dir \in {"asset", "source"}
  BY Working, FileIs DEF Fetch
<1>2. /\ VerifySHA256(file.sha, got) /\ WriteFile(file.dir, file.name, got)
      /\ arts' = [arts EXCEPT ![at.art].assets[at.file].sha = got]
      /\ \/ /\ file.archive /\ pc' = "extract" /\ at' = [at EXCEPT !.entry = 1]
            /\ used' = [bytes |-> 0, files |-> 0]
         \/ /\ ~ file.archive /\ pc' = "fetch" /\ at' = [at EXCEPT !.file = @ + 1]
            /\ UNCHANGED used
      /\ UNCHANGED <<remote, dist, run, exit, shipped>>
  BY <1>1 DEF Fetch
<1>3. PICK b : /\ Annotated(b)
               /\ b.assets = [art.assets EXCEPT ![at.file] = [file EXCEPT !.sha = got]]
  BY <1>1, <1>2, FetchRecords
<1>4. PICK t : /\ Staged(t) /\ t[file.dir] = Put(Tree[file.dir], file.name, got)
               /\ \A k \in TreeParts \ {file.dir, "mtime"} : t[k] = Tree[k]
  <2>1. WriteFile(file.dir, file.name, got)
    BY <1>2
  <2> HIDE DEF got
  <2>2. QED BY <1>1, <2>1, WriteIs
<1>5. at'.art = at.art
  BY <1>2 DEF TypeInv
<1>6. art' = b /\ Dir(art)' = Dir(art) /\ Tree' = t
  BY <1>1, <1>2, <1>3, <1>4, <1>5, StayIs, StagedIs
<1>7. QED BY <1>2, <1>3, <1>4, <1>6 DEF Annotated

\* No archive holds a file of the archive's own name.
ArchivesKept ==
    \A p \in Plans : \A i \in DOMAIN p.arts : \A j \in DOMAIN p.arts[i].assets :
        LET f == p.arts[i].assets[j]
        IN f.archive /\ f.url # Nil => \A c \in Offers[f.url] : \A k \in DOMAIN EntriesOf[c] :
               EntriesOf[c][k].kind \in {"file", "link"} => EntriesOf[c][k].name # f.name

\* What is extracted is the archive that was fetched.
ArchiveInv == pc = "extract" =>
    /\ file.archive /\ file.url # Nil /\ file.sha \in Offers[file.url]
    /\ file.name \in DOMAIN Tree[file.dir] /\ Archive = file.sha

LEMMA EntryIs ==
    ASSUME TypeInv, ArchiveInv, pc = "extract", at.entry <= Len(Entries)
    PROVE  /\ at.entry \in DOMAIN Entries /\ Entry(entry)
           /\ Entries = EntriesOf[file.sha] /\ file.sha \in Offers[file.url]
           /\ file.url # Nil
<1>1. /\ Archive = file.sha /\ file.sha \in Offers[file.url] /\ file.url \in DOMAIN Offers
      /\ at.entry \in Nat \ {0}
  BY FileIs DEF ArchiveInv, TypeInv
<1>2. List(Entries) /\ \A k \in DOMAIN Entries : Entry(Entries[k])
  BY <1>1, CooperBuildAssumption DEF Entries
<1>3. at.entry \in DOMAIN Entries
  BY <1>1, <1>2, ListIs
<1>4. QED BY <1>1, <1>2, <1>3 DEF entry, Entries, ArchiveInv

\* An entry that is accepted is on disk, if it is a file or a link.
LEMMA ExtractIs ==
    ASSUME TypeInv, TreesInv, ArchiveInv, Extract, pc' = "extract"
    PROVE  /\ at.entry <= Len(Entries) /\ at' = [at EXCEPT !.entry = @ + 1]
           /\ UNCHANGED <<arts, remote, dist, run, exit, shipped>>
           /\ art' = art /\ Dir(art)' = Dir(art)
           /\ \/ entry.kind \in {"file", "link"} /\ WriteFile(file.dir, entry.name, entry.data)
              \/ entry.kind \in {"pax", "dir"} /\ UNCHANGED trees
<1>1. pc = "extract" /\ at.entry <= Len(Entries)
  BY DEF Extract
<1>2. Entry(entry)
  BY <1>1, EntryIs
<1>3. /\ at' = [at EXCEPT !.entry = @ + 1]
      /\ UNCHANGED <<arts, remote, dist, run, exit, shipped>>
      /\ \/ entry.kind \in {"file", "link"} /\ WriteFile(file.dir, entry.name, entry.data)
         \/ entry.kind \in {"pax", "dir"} /\ UNCHANGED trees
  BY <1>1, <1>2 DEF Extract, Fail, NextArtifact, Entry
<1>4. art' = art /\ Dir(art)' = Dir(art)
  BY <1>3 DEF TypeInv, art, Dir, run
<1>5. QED BY <1>1, <1>3, <1>4

LEMMA ExtractStep ==
    ASSUME TypeInv, [Next]_vars, pc' = "extract"
    PROVE  \/ pc = "extract" /\ UNCHANGED <<arts, run, at, used, trees>>
           \/ Fetch /\ ~ Fail
           \/ Extract
BY DEF Next, vars, position, Start, Refuse, Verify, Skip, Fetch, FetchFails, Extract, ExtractFails,
       Extracted, Stage, StageFails, PackOpens, PackFails, Pack, Finish, Crash, Republish, Fail,
       NextArtifact

LEMMA ArchiveNext ==
    ASSUME ArchivesKept, TypeInv, PlanInv, TreesInv, ArchiveInv, [Next]_vars
    PROVE  ArchiveInv'
<1> SUFFICES ASSUME pc' = "extract"
             PROVE  /\ file'.archive /\ file'.url # Nil /\ file'.sha \in Offers[file'.url]
                    /\ file'.name \in DOMAIN Tree'[file'.dir]
                    /\ Tree'[file'.dir][file'.name] = file'.sha
  BY DEF ArchiveInv, Archive
<1>1. CASE pc = "extract" /\ UNCHANGED <<arts, run, at, used, trees>>
  BY <1>1 DEF ArchiveInv, file, art, Tree, Dir, run, Archive
<1>2. CASE Fetch /\ ~ Fail
  <2> DEFINE got == remote[file.url]
  <2>1. /\ at.file \in DOMAIN art.assets /\ File(file) /\ got \in Offers[file.url]
        /\ file.url # Nil
    BY <1>2, FileIs DEF Fetch
  <2>2. /\ art'.assets = [art.assets EXCEPT ![at.file] = [file EXCEPT !.sha = got]]
        /\ Tree'[file.dir] = Put(Tree[file.dir], file.name, got)
        /\ file.archive /\ at' = [at EXCEPT !.entry = 1]
    BY <1>2, FetchIs
  <2>3. at'.file = at.file
    BY <2>2 DEF TypeInv
  <2>4. file' = [file EXCEPT !.sha = got]
    BY <2>1, <2>2, <2>3 DEF file
  <2>5. /\ file'.archive = file.archive /\ file'.sha = got /\ file'.url = file.url
        /\ file'.name = file.name /\ file'.dir = file.dir
    BY <2>1, <2>4 DEF File
  <2>6. file.name \in DOMAIN Tree'[file.dir] /\ Tree'[file.dir][file.name] = got
    BY <2>2 DEF Put
  <2>7. QED BY <2>1, <2>2, <2>5, <2>6
<1>3. CASE Extract
  <2>1. pc = "extract" /\ at.entry <= Len(Entries)
    BY <1>3 DEF Extract
  <2>2. /\ at' = [at EXCEPT !.entry = @ + 1] /\ UNCHANGED <<arts, run>>
        /\ art' = art /\ Dir(art)' = Dir(art)
    BY <1>3, ExtractIs
  <2>3. file' = file
    BY <2>2 DEF file, TypeInv
  <2>4. /\ at.file \in DOMAIN art.assets /\ Dir(art) \in DOMAIN trees
        /\ file.dir \in {"asset", "source"}
    BY <2>1, FileIs DEF TypeInv
  <2>5. CASE UNCHANGED trees
    BY <2>1, <2>2, <2>3, <2>5 DEF ArchiveInv, Tree, Archive
  <2>6. CASE entry.kind \in {"file", "link"} /\ WriteFile(file.dir, entry.name, entry.data)
    <3>1. entry.name # file.name
      <4>1. PICK p \in Plans : LikePlan(arts, p)
        BY <2>1, Working DEF PlanInv
      <4>2. at.art \in DOMAIN p.arts /\ Like(p.arts[at.art], art)
        BY <2>1, <4>1, Working DEF LikePlan, art
      <4>3. at.file \in DOMAIN p.arts[at.art].assets
            /\ SameFile(p.arts[at.art].assets[at.file], file)
        BY <2>4, <4>2 DEF Like, file
      <4>4. /\ at.entry \in DOMAIN EntriesOf[file.sha] /\ entry = EntriesOf[file.sha][at.entry]
            /\ file.sha \in Offers[file.url] /\ file.archive /\ file.url # Nil
        BY <2>1, EntryIs DEF entry, ArchiveInv
      <4> DEFINE f == p.arts[at.art].assets[at.file]
      <4>5. /\ file.archive = f.archive /\ file.url = f.url /\ file.name = f.name
        BY <4>3 DEF SameFile
      <4>6. \A c \in Offers[f.url] : \A k \in DOMAIN EntriesOf[c] :
               EntriesOf[c][k].kind \in {"file", "link"} => EntriesOf[c][k].name # f.name
        BY <4>2, <4>3, <4>4, <4>5 DEF ArchivesKept
      <4> HIDE DEF f
      <4>7. QED BY <2>6, <4>4, <4>5, <4>6
    <3>2. PICK t : Staged(t) /\ t[file.dir] = Put(Tree[file.dir], entry.name, entry.data)
      BY <2>4, <2>6, WriteIs
    <3>3. Tree' = t
      BY <2>2, <2>4, <3>2, StagedIs DEF Tree
    <3>4. /\ file.name \in DOMAIN t[file.dir]
          /\ t[file.dir][file.name] = Tree[file.dir][file.name]
      BY <2>1, <3>1, <3>2 DEF Put, ArchiveInv
    <3>5. QED BY <2>1, <2>3, <3>3, <3>4 DEF ArchiveInv, Archive
  <2>7. QED BY <1>3, <2>5, <2>6, ExtractIs
<1>4. QED BY <1>1, <1>2, <1>3, ExtractStep


LEMMA ArchiveInit == Init => ArchiveInv
BY DEF Init, ArchiveInv

-----------------------------------------------------------------------------
(* Extraction stays within its limits.                                     *)

BoundInv ==
    /\ used \in [bytes : Nat, files : Nat]
    /\ pc = "extract" /\ ~ OverCeiling => used.bytes <= MaxBytes /\ used.files <= MaxFiles
    /\ used.bytes <= Ceiling.bytes + 1 /\ used.files <= Ceiling.files

LEMMA LimitsAre ==
    ASSUME TypeInv, pc \in {"fetch", "extract"}
    PROVE  MaxBytes \in Nat /\ MaxFiles \in Nat /\ Ceiling.bytes \in Nat /\ Ceiling.files \in Nat
<1>1. art.extract \in Limits /\ Default \in Limits /\ Ceiling \in Limits
  BY Working, CooperBuildAssumption DEF Artifact
<1>2. QED BY <1>1 DEF Limits, MaxBytes, MaxFiles, LimitOf

LEMMA BoundInit == Init => BoundInv
<1> SUFFICES ASSUME Init PROVE BoundInv
  OBVIOUS
<1>1. Ceiling.bytes \in Nat /\ Ceiling.files \in Nat
  BY CooperBuildAssumption DEF Limits
<1>2. used = [bytes |-> 0, files |-> 0] /\ pc = "idle"
  BY DEF Init
<1>3. QED BY <1>1, <1>2 DEF BoundInv

LEMMA BoundNext ==
    ASSUME TypeInv, TreesInv, ArchiveInv, BoundInv, [Next]_vars
    PROVE  BoundInv'
<1>1. Ceiling.bytes \in Nat /\ Ceiling.files \in Nat
  BY CooperBuildAssumption DEF Limits
<1>2. CASE Extract
  <2>1. /\ pc = "extract" /\ at.entry <= Len(Entries) /\ ~ OverCeiling
        /\ \/ UNCHANGED used
           \/ /\ used.files + 1 <= MaxFiles
              /\ used' = [bytes |-> used.bytes + Written, files |-> used.files + 1]
              /\ Size > Remaining => pc' = "verify"
    <3>1. /\ pc = "extract" /\ at.entry <= Len(Entries) /\ ~ OverCeiling
      BY <1>2 DEF Extract
    <3>2. MaxFiles \in Nat /\ used.files \in Nat
      BY <3>1, LimitsAre DEF BoundInv
    <3>3. QED BY <1>2, <3>1, <3>2 DEF Extract, Fail, NextArtifact
  <2>2. MaxBytes \in Nat /\ MaxFiles \in Nat /\ Entry(entry)
    BY <2>1, LimitsAre, EntryIs
  <2>3. /\ MaxBytes <= Ceiling.bytes /\ MaxFiles <= Ceiling.files
        /\ used.bytes \in Nat /\ used.files \in Nat
        /\ used.bytes <= MaxBytes /\ used.files <= MaxFiles
    BY <1>1, <2>1, <2>2 DEF OverCeiling, BoundInv
  <2>4. pc' = "extract" => MaxBytes' = MaxBytes /\ MaxFiles' = MaxFiles
    BY <1>2, ExtractIs DEF MaxBytes, MaxFiles, LimitOf
  <2>5. CASE UNCHANGED used
    BY <1>1, <2>3, <2>4, <2>5 DEF BoundInv
  <2>6. CASE ~ UNCHANGED used
    <3> DEFINE n == Written
    <3>1. /\ n \in Nat /\ used.bytes + n <= MaxBytes + 1
          /\ ~ (Size > Remaining) => used.bytes + n <= MaxBytes
      BY <2>2, <2>3 DEF Written, Size, Remaining, Entry
    <3>2. used' = [bytes |-> used.bytes + n, files |-> used.files + 1]
      BY <2>1, <2>6
    <3> HIDE DEF n
    <3>3. /\ used'.bytes = used.bytes + n /\ used'.files = used.files + 1
          /\ used' \in [bytes : Nat, files : Nat]
      BY <2>3, <3>1, <3>2
    <3>4. used'.files <= MaxFiles /\ used'.bytes <= MaxBytes + 1
      BY <2>1, <2>6, <3>1, <3>3
    <3>5. pc' = "extract" => used'.bytes <= MaxBytes
      BY <2>1, <2>6, <3>1, <3>3
    <3>6. used'.bytes <= Ceiling.bytes + 1 /\ used'.files <= Ceiling.files
      BY <1>1, <2>2, <2>3, <3>3, <3>4
    <3>7. QED BY <2>4, <3>3, <3>4, <3>5, <3>6 DEF BoundInv
  <2>7. QED BY <2>5, <2>6
<1>3. CASE Fetch /\ ~ Fail
  <2>1. CASE used' = [bytes |-> 0, files |-> 0]
    <3>1. pc = "fetch" /\ SameArtifact(art, art')
      BY <1>3, FetchIs DEF Fetch
    <3>2. MaxBytes' \in Nat /\ MaxFiles' \in Nat
      BY <3>1, LimitsAre DEF SameArtifact, MaxBytes, MaxFiles, LimitOf
    <3>3. QED BY <1>1, <2>1, <3>2 DEF BoundInv
  <2>2. CASE UNCHANGED used /\ pc' = "fetch"
    BY <2>2 DEF BoundInv
  <2>3. QED BY <1>3, <2>1, <2>2, FetchIs
<1>4. CASE pc = "extract" /\ UNCHANGED <<arts, run, at, used, trees>>
  BY <1>4 DEF BoundInv, OverCeiling, MaxBytes, MaxFiles, LimitOf, art
<1>5. ASSUME ~ Extract, ~ (Fetch /\ ~ Fail) PROVE UNCHANGED used
  BY <1>5 DEF Next, vars, position, Start, Refuse, Verify, Skip, Fetch, FetchFails, ExtractFails,
       Extracted, Stage, StageFails, PackOpens, PackFails, Pack, Finish, Crash, Republish, Fail
<1>6. CASE pc' # "extract" /\ UNCHANGED used
  BY <1>6 DEF BoundInv
<1>7. QED BY <1>2, <1>3, <1>4, <1>5, <1>6, ExtractStep

\* What is extracted from an archive never passes the limits of its artifact,
\* but for the byte that shows it would, provided no archive holds a file of
\* the archive's own name, which would be read in its place.
THEOREM WithinLimits == ASSUME ArchivesKept PROVE Spec => []ExtractBounded
<1> DEFINE IInv == TypeInv /\ PlanInv /\ TreesInv /\ ArchiveInv /\ BoundInv
<1>1. Init => IInv
  BY TypeInit, PlanInit, TreesInit, ArchiveInit, BoundInit
<1>2. IInv /\ [Next]_vars => IInv'
  BY ArchivesKept, TypeNext, PlanNext, TreesNext, ArchiveNext, BoundNext
<1>3. IInv => ExtractBounded
  BY DEF BoundInv, ExtractBounded
<1>4. QED BY <1>1, <1>2, <1>3, PTL DEF Spec

-----------------------------------------------------------------------------
(* The name of a .deb is the version in it.                                *)

\* As the discovers name it; an edited plan fails the comparison of its hash.
NamedByVersion == \A p \in Plans : \A i \in DOMAIN p.arts :
    VerifyBuildInputsHash(p.arts[i]) => p.arts[i].file = <<p.arts[i].plan.ver>>

NilIsNoTree == ~ IsTree(Nil)

Underway == pc \in {"fetch", "extract", "pack", "write"}

\* An artifact that has no .deb and can be built, or is being built, has the
\* name of its plan, or one that --stage-only has revised.
Named(i) == arts[i].path = Nil /\ (VerifyBuildInputsHash(arts[i]) \/ (Underway /\ i = at.art))
                => arts[i].file = <<arts[i].plan.ver>> \/ arts[i].file \in staged
NameInv ==
    /\ \A i \in DOMAIN arts : Named(i)
    /\ pc \in {"pack", "write"} => Tree.nfpm = NfpmYAML
    /\ NameIsVersion

LEMMA NameInit == Init => NameInv
BY DEF Init, NameInv, NameIsVersion

LEMMA AppendOne == \A x, y : Append(<<x>>, y) = <<x, y>>
<1> SUFFICES ASSUME NEW x, NEW y PROVE Append(<<x>>, y) = <<x, y>>
  OBVIOUS
<1>1. <<x>> \in Seq({x, y}) /\ Len(<<x>>) = 1 /\ <<x>>[1] = x
  OBVIOUS
<1> DEFINE s == <<x>>
<1> HIDE DEF s
<1>2. s \in Seq({x, y}) /\ Len(s) = 1 /\ s[1] = x /\ y \in {x, y}
  BY <1>1 DEF s
<1> DEFINE t == Append(s, y)
<1>3. t \in Seq({x, y}) /\ Len(t) = 2 /\ (\A i \in 1..1 : t[i] = s[i]) /\ t[2] = y
  <2>1. t \in Seq({x, y}) /\ Len(t) = Len(s) + 1
    BY <1>2, AppendProperties
  <2>2. \A i \in 1..Len(s) : t[i] = s[i]
    BY <1>2, AppendProperties
  <2>3. t[Len(s) + 1] = y
    BY <1>2, AppendProperties
  <2> HIDE DEF t
  <2>4. QED BY <1>2, <2>1, <2>2, <2>3
<1> HIDE DEF t
<1>4. <<x, y>> \in Seq({x, y}) /\ Len(<<x, y>>) = 2 /\ <<x, y>>[1] = x /\ <<x, y>>[2] = y
  OBVIOUS
<1>5. t = <<x, y>>
  BY <1>2, <1>3, <1>4, SeqEqual
<1>6. QED BY <1>5 DEF s, t

LEMMA ShippedIs ==
    ASSUME TypeInv, [Next]_vars
    PROVE  \/ UNCHANGED shipped
           \/ /\ Pack
              /\ shipped' = shipped \cup {[art |-> arts'[at.art], rev |-> opts.rev, deb |-> Tree]}
BY DEF Next, vars, position, Start, Refuse, Verify, Skip, Fetch, FetchFails, Extract, ExtractFails,
       Extracted, Stage, StageFails, PackOpens, PackFails, Pack, Finish, Crash, Republish, Fail

LEMMA StagedGrows == [Next]_vars => staged \subseteq staged'
BY DEF Next, vars, position, Start, Refuse, Verify, Skip, Fetch, FetchFails, Extract, ExtractFails,
       Extracted, Stage, StageFails, PackOpens, PackFails, Pack, Finish, Crash, Republish, Fail

LEMMA NameNext ==
    ASSUME NamedByVersion, NilIsNoTree,
           TypeInv, PlanInv, TreesInv, NameInv, [Next]_vars
    PROVE  NameInv'
<1>1. \A i \in DOMAIN arts' : Named(i)'
  <2>1. ASSUME NEW p \in Sources, NEW o \in Options, Start(p, o)
        PROVE  \A i \in DOMAIN arts' : Named(i)'
    <3>1. arts' = p.arts /\ ~ Underway'
      BY <2>1 DEF Start, Underway
    <3>2. ASSUME NEW i \in DOMAIN p.arts, p.arts[i].path = Nil, VerifyBuildInputsHash(p.arts[i])
          PROVE  p.arts[i].file = <<p.arts[i].plan.ver>> \/ p.arts[i].file \in staged
      BY <3>2 DEF Sources, NamedByVersion, NameInv, Named
    <3>3. QED BY <3>1, <3>2, StagedGrows DEF Named, VerifyBuildInputsHash
  <2>2. CASE UNCHANGED <<arts, run>> /\ (pc' # "idle" => pc # "idle" /\ at'.art = at.art)
    <3>1. ASSUME Underway', ~ Underway PROVE VerifyBuildInputsHash(art)
      BY <3>1 DEF Underway, Next, vars, position, Start, Refuse, Verify, Skip, Fetch, FetchFails, Extract,
         ExtractFails, Extracted, Stage, StageFails, PackOpens, PackFails, Pack, Finish, Crash,
         Republish, Fail, NextArtifact
    <3>2. Underway' => at'.art = at.art
      BY <2>2 DEF Underway
    <3>3. QED BY <2>2, <3>1, <3>2, StagedGrows DEF NameInv, Named, VerifyBuildInputsHash, art
  <2>3. ASSUME NEW b, Annotates(b)
        PROVE  \A i \in DOMAIN arts' : Named(i)'
    <3>1. /\ at.art \in DOMAIN arts /\ DOMAIN arts' = DOMAIN arts /\ arts'[at.art] = b
          /\ \A i \in DOMAIN arts : i # at.art => arts'[i] = arts[i]
      BY <2>3, AnnotatedIs DEF Annotates
    <3>2. b.plan = art.plan /\ b.hash = art.hash
      BY <2>3 DEF Annotates, Like, SameArtifact
    <3>3. PICK k \in DOMAIN arts' : k = at.art /\ Named(k)
      BY <3>1 DEF NameInv
    <3>4. Underway' => at'.art = at.art
      BY <2>3, PositionStep DEF Annotates, Underway
    <3>5. Named(k)'
      <4>1. CASE Underway
        <5>1. art.path = Nil => art.file = <<art.plan.ver>> \/ art.file \in staged
          BY <3>3, <4>1 DEF Named, art
        <5>2. b.path = Nil => b.file = <<b.plan.ver>> \/ b.file \in staged'
          <6>1. CASE Pack /\ b.path = Tree
            <7>1. IsTree(Tree)
              BY <6>1, Working DEF Pack, TreesInv, Tree
            <7>2. QED BY <6>1, <7>1 DEF NilIsNoTree
          <6>2. CASE b.path = art.path /\ b.file = art.file
            BY <3>2, <5>1, <6>2, StagedGrows
          <6>3. CASE /\ b.path = art.path /\ b.file = DebName(art, opts.rev)[2]
                     /\ opts.rev > 0 => b.file \in staged'
            <7>1. opts.rev \in Nat
              BY CooperBuildAssumption DEF TypeInv, NoOptions
            <7>2. opts.rev = 0 => DebName(art, opts.rev)[2] = art.file
              BY DEF DebName
            <7>3. QED BY <3>2, <5>1, <6>3, <7>1, <7>2, StagedGrows
          <6>4. QED BY <2>3, <6>1, <6>2, <6>3 DEF Annotates
        <5>3. QED BY <3>1, <3>3, <5>2 DEF Named
      <4>2. CASE ~ Underway
        <5>1. pc = "verify"
          BY <2>3, <4>2 DEF Annotates, Underway, TypeInv
        <5>2. /\ b.assets = art.assets /\ b.path = art.path /\ b.file = art.file /\ ~ Underway'
          <6>1. at'.art # at.art /\ ~ Pack
            BY <2>3, <5>1 DEF Annotates, TypeInv, Pack
          <6>2. b.path = art.path /\ b.file = art.file
            BY <2>3, <5>1, <6>1 DEF Annotates
          <6>3. QED BY <2>3, <3>4, <5>1, <6>1, <6>2 DEF Annotates
        <5>3. QED BY <3>1, <3>2, <3>3, <5>2, StagedGrows DEF Named, VerifyBuildInputsHash, art
      <4>3. QED BY <4>1, <4>2
    <3>6. ASSUME NEW i \in DOMAIN arts', i # k PROVE Named(i)'
      <4>1. Named(i) /\ arts'[i] = arts[i]
        BY <3>1, <3>3, <3>6 DEF NameInv
      <4>2. QED BY <3>3, <3>4, <3>6, <4>1, StagedGrows DEF Named, VerifyBuildInputsHash
    <3>7. QED BY <3>5, <3>6
  <2>4. QED BY <2>1, <2>2, <2>3, StepIs
<1>2. pc' \in {"pack", "write"} => Tree'.nfpm = NfpmYAML'
  <2> SUFFICES ASSUME pc' \in {"pack", "write"} PROVE Tree'.nfpm = NfpmYAML'
    OBVIOUS
  <2>1. \/ pc \in {"pack", "write"} /\ UNCHANGED <<trees, arts, run, at>>
        \/ Stage
    BY DEF Next, vars, position, Start, Refuse, Verify, Skip, Fetch, FetchFails, Extract, ExtractFails,
       Extracted, StageFails, PackOpens, PackFails, Pack, Finish, Crash, Republish, Fail,
       NextArtifact
  <2>2. CASE pc \in {"pack", "write"} /\ UNCHANGED <<trees, arts, run, at>>
    BY <2>2 DEF NameInv, Tree, Dir, art, run, NfpmYAML
  <2>3. CASE Stage
    <3>1. PICK t : Staged(t) /\ t.nfpm = NfpmYAML
      BY <2>3, StageIs
    <3>2. UNCHANGED <<arts, at, run>> /\ Dir(art) \in DOMAIN trees
      BY <2>3, Working DEF Stage, NextArtifact
    <3>3. Tree' = t
      BY <3>1, <3>2, StagedIs DEF Tree, Dir, art, run
    <3>4. NfpmYAML' = NfpmYAML
      BY <3>2 DEF NfpmYAML, art, run
    <3>5. QED BY <3>1, <3>3, <3>4
  <2>4. QED BY <2>1, <2>2, <2>3
<1>3. NameIsVersion'
  <2>1. CASE UNCHANGED shipped
    BY <2>1, StagedGrows DEF NameInv, NameIsVersion
  <2>2. CASE /\ Pack
             /\ shipped' = shipped \cup {[art |-> arts'[at.art], rev |-> opts.rev, deb |-> Tree]}
    <3>1. pc = "write" /\ at.art \in DOMAIN arts /\ exit = "none"
      BY <2>2, Working DEF Pack
    <3>2. art.path = Nil
      BY <3>1, ListIs DEF PlanInv, TypeInv, Artifacts, art
    <3>3. art.file = <<art.plan.ver>> \/ art.file \in staged
      BY <3>1, <3>2 DEF NameInv, Named, Underway, art
    <3>4. Tree.nfpm = NfpmYAML
      BY <3>1 DEF NameInv
    <3>5. arts'[at.art].file = DebName(art, opts.rev)[2]
      <4>1. PICK b : Annotated(b) /\ b.file = DebName(art, opts.rev)[2]
        BY <2>2, PackReports
      <4>2. QED BY <3>1, <4>1, Working, AnnotatedIs
    <3>6. ASSUME opts.rev > 0
          PROVE  \/ arts'[at.art].file = <<Tree.nfpm.ver, Tree.nfpm.release>>
                 \/ \E n \in staged : arts'[at.art].file = Append(n, opts.rev)
      <4>1. Tree.nfpm.ver = art.plan.ver /\ Tree.nfpm.release = opts.rev
        BY <3>4, <3>6 DEF NfpmYAML
      <4>2. opts.rev \in Nat
        BY CooperBuildAssumption DEF TypeInv, NoOptions
      <4>3. arts'[at.art].file = Append(art.file, opts.rev)
        BY <3>5, <3>6, <4>2 DEF DebName
      <4>4. CASE art.file = <<art.plan.ver>>
        BY <4>1, <4>3, <4>4, AppendOne
      <4>5. CASE art.file \in staged
        BY <4>3, <4>5
      <4>6. QED BY <3>3, <4>4, <4>5
    <3>7. UNCHANGED staged
      BY <2>2 DEF Pack
    <3>8. ASSUME NEW x \in shipped, x.rev > 0
          PROVE  \/ x.art.file = <<x.deb.nfpm.ver, x.deb.nfpm.release>>
                 \/ \E n \in staged : x.art.file = Append(n, x.rev)
      BY <3>8 DEF NameInv, NameIsVersion
    <3>9. QED BY <2>2, <3>6, <3>7, <3>8 DEF NameIsVersion
  <2>3. QED BY <2>1, <2>2, ShippedIs
<1>4. QED BY <1>1, <1>2, <1>3 DEF NameInv

\* The file name of a revised .deb has the version and the revision of its
\* control file, once, whatever plan is built again, provided the plans of the
\* discovers are named by their version; the one name that is revised again is
\* one that --stage-only has revised, and that has no .deb.
THEOREM NameFollowsVersion ==
    ASSUME NamedByVersion, NilIsNoTree
    PROVE  Spec => []NameIsVersion
<1> DEFINE IInv == TypeInv /\ PlanInv /\ TreesInv /\ NameInv
<1>1. Init => IInv
  BY TypeInit, PlanInit, TreesInit, NameInit
<1>2. IInv /\ [Next]_vars => IInv'
  BY NamedByVersion, NilIsNoTree, TypeNext, PlanNext, TreesNext, NameNext
<1>3. IInv => NameIsVersion
  BY DEF NameInv
<1>4. QED BY <1>1, <1>2, <1>3, PTL DEF Spec


-----------------------------------------------------------------------------
(* What is reported is in the output directory.                            *)

\* The artifacts of a plan are of different packages or architectures.
KeysApart ==
    \A p \in Plans : \A i, j \in DOMAIN p.arts :
        p.arts[i].pkg = p.arts[j].pkg /\ p.arts[i].arch = p.arts[j].arch => i = j

LEMMA ArtsApart ==
    ASSUME KeysApart, PlanInv, NEW i \in DOMAIN arts, NEW j \in DOMAIN arts, i # j
    PROVE  arts[i].pkg # arts[j].pkg \/ arts[i].arch # arts[j].arch
<1>1. PICK p \in Plans : LikePlan(arts, p)
  BY DEF PlanInv
<1>2. /\ i \in DOMAIN p.arts /\ j \in DOMAIN p.arts
      /\ arts[i].pkg = p.arts[i].pkg /\ arts[i].arch = p.arts[i].arch
      /\ arts[j].pkg = p.arts[j].pkg /\ arts[j].arch = p.arts[j].arch
  BY <1>1 DEF LikePlan, Like, SameArtifact
<1>3. QED BY <1>2 DEF KeysApart

\* A .deb that is reported is there, until the plan is built again; an artifact
\* that is done has one, unless it failed or only staging was asked for.
ReportInv ==
    /\ pc # "idle" \/ exit \in {"ok", "error"} =>
         \A i \in DOMAIN arts : arts[i].path # Nil =>
            /\ DebName(arts[i], 0) \in DOMAIN dist
            /\ dist[DebName(arts[i], 0)] = arts[i].path
    /\ pc # "idle" => \A i \in DOMAIN arts : i < at.art =>
         arts[i].result = "error" \/ opts.stage \/ arts[i].path # Nil
    /\ pc = "idle" /\ exit = "ok" =>
         ~ broken /\ \A i \in DOMAIN arts : opts.stage \/ arts[i].path # Nil

LEMMA ReportInit == Init => ReportInv
BY DEF Init, ReportInv

\* The output directory changes at the name of the artifact at hand.
LEMMA DistStep ==
    ASSUME TypeInv, [Next]_vars
    PROVE  \/ UNCHANGED dist
           \/ /\ pc \in {"pack", "write"} /\ pc' # "idle"
              /\ LET n == DebName(art, opts.rev)
                 IN /\ \A x \in DOMAIN dist : x # n => x \in DOMAIN dist' /\ dist'[x] = dist[x]
                    /\ Pack => n \in DOMAIN dist' /\ dist'[n] = Tree
<1> SUFFICES ASSUME ~ UNCHANGED dist
             PROVE  /\ pc \in {"pack", "write"} /\ pc' # "idle"
                    /\ LET n == DebName(art, opts.rev)
                       IN /\ \A x \in DOMAIN dist : x # n =>
                                x \in DOMAIN dist' /\ dist'[x] = dist[x]
                          /\ Pack => n \in DOMAIN dist' /\ dist'[n] = Tree
  OBVIOUS
<1>1. PackOpens \/ PackFails \/ Pack
  BY DEF Next, vars, position, Start, Refuse, Verify, Skip, Fetch, FetchFails, Extract, ExtractFails,
       Extracted, Stage, StageFails, Finish, Crash, Republish, Fail
<1> DEFINE n == DebName(art, opts.rev)
<1>2. \/ \E v : dist' = Put(dist, n, v) /\ (Pack => v = Tree)
      \/ dist' = Without(dist, {n}) /\ ~ Pack
  <2>1. CASE PackOpens
    BY <2>1 DEF PackOpens, Pack
  <2>2. CASE Pack
    BY <2>2 DEF Pack
  <2>3. CASE PackFails /\ ~ Pack
    BY <2>3 DEF PackFails
  <2>4. QED BY <1>1, <2>1, <2>2, <2>3
<1>3. pc \in {"pack", "write"} /\ pc' # "idle"
  BY <1>1 DEF PackOpens, PackFails, Pack, Fail, NextArtifact
<1> HIDE DEF n
<1>4. /\ \A x \in DOMAIN dist : x # n => x \in DOMAIN dist' /\ dist'[x] = dist[x]
      /\ Pack => n \in DOMAIN dist' /\ dist'[n] = Tree
  BY <1>2 DEF Put, Without
<1>5. QED BY <1>3, <1>4 DEF n

LEMMA ReportNext ==
    ASSUME KeysApart, NilIsNoTree, TypeInv, PlanInv, TreesInv, ReportInv, [Next]_vars
    PROVE  ReportInv'
<1>1. ASSUME NEW p \in Sources, NEW o \in Options, Start(p, o) PROVE ReportInv'
  <2>1. /\ arts' = p.arts /\ pc' = "verify" /\ at'.art = 1
        /\ ~ \E i \in DOMAIN p.arts : p.arts[i].path # Nil
    BY <1>1 DEF Start, Accepted, rejectAnnotatedPlan
  <2>2. TypeInv'
    BY TypeNext
  <2>3. \A i \in DOMAIN arts' : ~ (i < at'.art)
    BY <2>1, <2>2, ListIs DEF TypeInv, Artifacts
  <2>4. QED BY <2>1, <2>3 DEF ReportInv
<1>2. ASSUME NEW b, Annotates(b) PROVE ReportInv'
  <2>1. /\ at.art \in DOMAIN arts /\ DOMAIN arts' = DOMAIN arts /\ arts'[at.art] = b
        /\ \A i \in DOMAIN arts : i # at.art => arts'[i] = arts[i]
        /\ Len(arts) \in Nat /\ DOMAIN arts = 1..Len(arts) /\ pc # "idle" /\ at.art \in Nat
    BY <1>2, AnnotatedIs, ListIs DEF Annotates, TypeInv, Artifacts
  <2>2. b.pkg = art.pkg /\ b.arch = art.arch /\ at'.art \in {at.art, at.art + 1} /\ UNCHANGED run
    BY <1>2 DEF Annotates, Like, SameArtifact
  <2>3. art.path = Nil
    BY <2>1 DEF PlanInv, art
  <2>4. Pack => Tree # Nil
    <3>1. ASSUME Pack PROVE IsTree(Tree)
      BY <3>1, Working DEF Pack, TreesInv, Tree
    <3>2. QED BY <3>1 DEF NilIsNoTree
  <2>5. pc' # "idle"
    BY <1>2 DEF Annotates
  <2>6. ASSUME NEW i \in DOMAIN arts', arts'[i].path # Nil
        PROVE  /\ DebName(arts'[i], 0) \in DOMAIN dist'
               /\ dist'[DebName(arts'[i], 0)] = arts'[i].path
    <3>1. CASE i = at.art
      <4>1. Pack /\ b.path = Tree /\ b.file = DebName(art, opts.rev)[2]
        BY <1>2, <2>1, <2>3, <2>6, <3>1 DEF Annotates
      <4>2. DebName(b, 0) = DebName(art, opts.rev)
        BY <2>2, <4>1 DEF DebName
      <4>3. dist' = Put(dist, DebName(art, opts.rev), Tree)
        BY <4>1 DEF Pack
      <4>4. QED BY <2>1, <3>1, <4>1, <4>2, <4>3 DEF Put
    <3>2. CASE i # at.art
      <4>1. arts[i].pkg # art.pkg \/ arts[i].arch # art.arch
        BY <2>1, <3>2, ArtsApart DEF art
      <4>2. DebName(arts[i], 0) # DebName(art, opts.rev)
        BY <4>1 DEF DebName
      <4>3. /\ DebName(arts[i], 0) \in DOMAIN dist /\ arts'[i] = arts[i]
            /\ dist[DebName(arts[i], 0)] = arts[i].path
        BY <2>1, <2>6, <3>2 DEF ReportInv
      <4>4. QED BY <4>2, <4>3, DistStep
    <3>3. QED BY <3>1, <3>2
  <2>7. ASSUME NEW i \in DOMAIN arts', i < at'.art
        PROVE  arts'[i].result = "error" \/ opts'.stage \/ arts'[i].path # Nil
    <3>1. CASE i = at.art
      BY <1>2, <2>1, <2>4, <2>7, <3>1 DEF Annotates, run
    <3>2. CASE i # at.art
      BY <2>1, <2>2, <2>7, <3>2 DEF ReportInv, run
    <3>3. QED BY <3>1, <3>2
  <2>8. QED BY <2>5, <2>6, <2>7 DEF ReportInv
<1>3. CASE UNCHANGED <<arts, run>> /\ (pc' # "idle" => pc # "idle" /\ at'.art = at.art)
  <2>1. CASE pc \in {"pack", "write"} /\ pc' # "idle" /\ ~ UNCHANGED dist
    <3>1. at.art \in DOMAIN arts /\ art.path = Nil /\ at'.art = at.art
      BY <1>3, <2>1, Working DEF PlanInv, art, TypeInv
    <3>2. ASSUME NEW i \in DOMAIN arts, arts[i].path # Nil
          PROVE  /\ DebName(arts[i], 0) \in DOMAIN dist'
                 /\ dist'[DebName(arts[i], 0)] = arts[i].path
      <4>1. arts[i].pkg # art.pkg \/ arts[i].arch # art.arch
        BY <3>1, <3>2, ArtsApart DEF art
      <4>2. DebName(arts[i], 0) # DebName(art, opts.rev)
        BY <4>1 DEF DebName
      <4>3. /\ DebName(arts[i], 0) \in DOMAIN dist
            /\ dist[DebName(arts[i], 0)] = arts[i].path
        BY <2>1, <3>2 DEF ReportInv
      <4>4. QED BY <2>1, <4>2, <4>3, DistStep
    <3>3. QED BY <1>3, <2>1, <3>1, <3>2 DEF ReportInv, run
  <2>2. CASE UNCHANGED dist
    <3>1. CASE pc' # "idle"
      BY <1>3, <2>2, <3>1 DEF ReportInv, run
    <3>2. CASE Finish
      <4>1. /\ pc # "idle" /\ pc' = "idle" /\ at.art > Len(arts) /\ UNCHANGED <<arts, dist, run>>
            /\ exit' = IF AnyArtifactFailed THEN "error" ELSE "ok"
        BY <3>2 DEF Finish
      <4>2. \A i \in DOMAIN arts : i < at.art
        BY <4>1, ListIs DEF TypeInv, Artifacts
      <4>3. exit' = "ok" =>
              ~ broken /\ \A i \in DOMAIN arts : opts.stage \/ arts[i].path # Nil
        BY <4>1, <4>2 DEF ReportInv, AnyArtifactFailed
      <4>4. QED BY <4>1, <4>3 DEF ReportInv, run
    <3>3. CASE exit' = "killed" /\ pc' = "idle"
      BY <3>3 DEF ReportInv
    <3>4. CASE UNCHANGED <<pc, exit>> /\ pc' = "idle"
      BY <1>3, <2>2, <3>4 DEF ReportInv, run
    <3>5. pc' # "idle" \/ Finish \/ (exit' = "killed" /\ pc' = "idle") \/ UNCHANGED <<pc, exit>>
      BY DEF Next, vars, position, Start, Refuse, Verify, Skip, Fetch, FetchFails, Extract,
         ExtractFails, Extracted, Stage, StageFails, PackOpens, PackFails, Pack, Crash,
         Republish, Fail, NextArtifact
    <3>6. QED BY <3>1, <3>2, <3>3, <3>4, <3>5
  <2>3. QED BY <2>1, <2>2, DistStep
<1>4. QED BY <1>1, <1>2, <1>3, StepIs

\* A build that was not killed leaves every .deb it reports where it says, and
\* exits 0 only if it has packed every artifact, provided those of a plan have
\* different packages or architectures: two outputs of one name would replace
\* one another.
THEOREM ReportIsTrue ==
    ASSUME KeysApart, NilIsNoTree
    PROVE  Spec => []ReportedIsThere
<1> DEFINE IInv == TypeInv /\ PlanInv /\ TreesInv /\ ReportInv
<1>1. Init => IInv
  BY TypeInit, PlanInit, TreesInit, ReportInit
<1>2. IInv /\ [Next]_vars => IInv'
  BY KeysApart, NilIsNoTree, TypeNext, PlanNext, TreesNext, ReportNext
<1>3. IInv => ReportedIsThere
  BY DEF ReportInv, ReportedIsThere
<1>4. QED BY <1>1, <1>2, <1>3, PTL DEF Spec


-----------------------------------------------------------------------------
(* Every build stages each artifact in a directory of its own.             *)

\* A staging directory is of this build or an earlier one; one of this build
\* is that of an artifact that was reached.
DirsInv ==
    /\ pc = "verify" => at.file = 1
    /\ \A d \in DOMAIN trees :
         /\ d[1] \in Nat /\ d[1] <= runs
         /\ pc # "idle" /\ d[1] = runs =>
              \E i \in DOMAIN arts :
                 d = Dir(arts[i]) /\ i <= at.art /\ (pc = "verify" => i < at.art)

LEMMA DirsInit == Init => DirsInv
BY DEF Init, DirsInv

LEMMA FirstFile ==
    ASSUME TypeInv, DirsInv, [Next]_vars, pc' = "verify"
    PROVE  at'.file = 1
BY DEF DirsInv, TypeInv, Next, vars, position, Start, Refuse, Verify, Skip, Fetch, FetchFails, Extract,
       ExtractFails, Extracted, Stage, StageFails, PackOpens, PackFails, Pack, Finish, Crash,
       Republish, Fail, NextArtifact

LEMMA DirsNext ==
    ASSUME TypeInv, TreesInv, DirsInv, [Next]_vars
    PROVE  DirsInv'
<1>1. pc' = "verify" => at'.file = 1
  BY FirstFile
<1>2. \A d \in DOMAIN trees' : d \in DOMAIN trees \/ (Verify /\ ~ Fail /\ d = Dir(art))
  BY TreesStep, VerifyIs, StagedIs
<1>3. CASE \E p \in Sources, o \in Options : Start(p, o)
  <2>1. runs' = runs + 1 /\ UNCHANGED trees /\ runs \in Nat
    BY <1>3, CooperBuildAssumption DEF Start, TypeInv
  <2>2. \A d \in DOMAIN trees' : d[1] \in Nat /\ d[1] <= runs' /\ d[1] # runs'
    BY <2>1 DEF DirsInv
  <2>3. QED BY <1>1, <2>2 DEF DirsInv
<1>4. CASE ~ \E p \in Sources, o \in Options : Start(p, o)
  <2>1. /\ runs' = runs /\ DOMAIN arts' = DOMAIN arts
        /\ \A i \in DOMAIN arts : Dir(arts[i])' = Dir(arts[i])
    <3>1. CASE UNCHANGED <<arts, run>>
      BY <3>1 DEF Dir, run
    <3>2. ASSUME NEW b, Annotates(b)
          PROVE  /\ runs' = runs /\ DOMAIN arts' = DOMAIN arts
                 /\ \A i \in DOMAIN arts : Dir(arts[i])' = Dir(arts[i])
      <4>1. /\ runs' = runs /\ DOMAIN arts' = DOMAIN arts
            /\ \A i \in DOMAIN arts : arts'[i].pkg = arts[i].pkg /\ arts'[i].arch = arts[i].arch
        BY <3>2, AnnotatedIs DEF Annotates, Annotated, SameArtifact, run, art
      <4>2. QED BY <4>1 DEF Dir
    <3>3. QED BY <1>4, <3>1, <3>2, StepIs
  <2>2. pc' # "idle" => pc # "idle"
    BY <1>4, StepIs DEF Annotates
  <2>3. ASSUME NEW d \in DOMAIN trees'
        PROVE  /\ d[1] \in Nat /\ d[1] <= runs'
               /\ pc' # "idle" /\ d[1] = runs' =>
                    \E i \in DOMAIN arts' :
                       d = Dir(arts[i])' /\ i <= at'.art /\ (pc' = "verify" => i < at'.art)
    <3>1. CASE d \in DOMAIN trees
      <4>1. d[1] \in Nat /\ d[1] <= runs'
        BY <2>1, <3>1 DEF DirsInv
      <4>2. ASSUME pc' # "idle", d[1] = runs'
            PROVE  \E i \in DOMAIN arts' :
                      d = Dir(arts[i])' /\ i <= at'.art /\ (pc' = "verify" => i < at'.art)
        <5>1. pc # "idle" /\ d[1] = runs
          BY <2>1, <2>2, <4>2
        <5>2. PICK i \in DOMAIN arts :
                 d = Dir(arts[i]) /\ i <= at.art /\ (pc = "verify" => i < at.art)
          BY <3>1, <5>1 DEF DirsInv
        <5>3. i \in Nat /\ at.art \in Nat
          BY ListIs DEF TypeInv, Artifacts
        <5>4. i <= at'.art /\ (pc' = "verify" => i < at'.art)
          BY <4>2, <5>1, <5>2, <5>3, PositionStep
        <5>5. d = Dir(arts[i])' /\ i \in DOMAIN arts'
          BY <2>1, <5>2
        <5>6. QED BY <5>4, <5>5
      <4>3. QED BY <4>1, <4>2
    <3>2. CASE Verify /\ ~ Fail /\ d = Dir(art)
      <4>1. pc' = "fetch" /\ UNCHANGED at /\ at.art <= Len(arts)
        BY <3>2, VerifyIs
      <4>2. at.art \in DOMAIN arts /\ at.art \in Nat /\ runs \in Nat
        BY <4>1, ListIs DEF TypeInv, Artifacts
      <4>3. d[1] = runs /\ d = Dir(arts[at.art])
        BY <3>2 DEF Dir, art
      <4>4. at.art \in DOMAIN arts' /\ d = <<runs', arts'[at.art].pkg, arts'[at.art].arch>>
        BY <2>1, <4>2, <4>3 DEF Dir
      <4>5. PICK i \in DOMAIN arts' : i = at.art /\ d = Dir(arts[i])'
        BY <4>4 DEF Dir
      <4>6. QED BY <2>1, <4>1, <4>2, <4>3, <4>5
    <3>3. QED BY <1>2, <3>1, <3>2
  <2>4. QED BY <1>1, <2>3 DEF DirsInv
<1>5. QED BY <1>3, <1>4

\* The tree of an artifact that is begun is new.
LEMMA VerifyMakes ==
    ASSUME KeysApart, TypeInv, PlanInv, TreesInv, DirsInv, Verify, ~ Fail
    PROVE  Dir(art) \notin DOMAIN trees /\ Tree' = EmptyTree /\ art' = art /\ at'.file = 1
<1>1. /\ pc = "verify" /\ at.art <= Len(arts) /\ UNCHANGED <<at, arts, run>>
      /\ Dir(art) \notin DOMAIN trees => trees'[Dir(art)] = EmptyTree
  BY VerifyIs
<1>2. at.art \in DOMAIN arts
  BY <1>1, ListIs DEF TypeInv, Artifacts
<1>3. Dir(art) \notin DOMAIN trees
  <2>1. SUFFICES ASSUME Dir(art) \in DOMAIN trees PROVE FALSE
    OBVIOUS
  <2>2. Dir(art)[1] = runs
    BY DEF Dir
  <2>3. PICK i \in DOMAIN arts : Dir(art) = Dir(arts[i]) /\ i < at.art
    BY <1>1, <2>1, <2>2 DEF DirsInv
  <2>4. art.pkg = arts[i].pkg /\ art.arch = arts[i].arch
    BY <2>3 DEF Dir
  <2>5. i # at.art
    BY <1>2, <2>3, ListIs DEF TypeInv, Artifacts
  <2>6. QED BY <1>2, <2>4, <2>5, ArtsApart DEF art
<1>4. Tree' = EmptyTree /\ art' = art
  BY <1>1, <1>3 DEF Tree, art, Dir, run
<1>5. QED BY <1>1, <1>3, <1>4 DEF DirsInv


-----------------------------------------------------------------------------
(* What the digests of an artifact stand for, file by file.                *)

Content(e) == e.kind \in {"file", "link"}

\* The files of the first entries of an archive.
Unpacked(c, n) ==
    {<<EntriesOf[c][k].name, EntriesOf[c][k].data>> :
        k \in {m \in DOMAIN EntriesOf[c] : m < n /\ Content(EntriesOf[c][m])}}

\* What a file leaves behind.
Of(f) == IF f.archive THEN Unpacked(f.sha, Len(EntriesOf[f.sha]) + 1) ELSE {<<f.name, f.sha>>}

\* What the first files leave in a directory.
Before(assets, n, dir) ==
    UNION {Of(assets[j]) :
              j \in {k \in DOMAIN assets : k < n /\ assets[k].dir = dir /\ assets[k].url # Nil}}

\* The names that a file with these contents has or brings.
Names(f, c) ==
    {f.name} \cup IF f.archive
                  THEN {EntriesOf[c][k].name :
                           k \in {m \in DOMAIN EntriesOf[c] : Content(EntriesOf[c][m])}}
                  ELSE {}

LEMMA UnpackedNext ==
    ASSUME NEW c, List(EntriesOf[c]), NEW n \in DOMAIN EntriesOf[c]
    PROVE  Unpacked(c, n + 1) = Unpacked(c, n) \cup
               IF Content(EntriesOf[c][n])
               THEN {<<EntriesOf[c][n].name, EntriesOf[c][n].data>>} ELSE {}
<1> DEFINE es == EntriesOf[c]
<1>1. DOMAIN es = 1..Len(es) /\ Len(es) \in Nat
  BY ListIs
<1>2. \A m \in DOMAIN es : m < n + 1 <=> m < n \/ m = n
  BY <1>1
<1>3. QED BY <1>2 DEF Unpacked

LEMMA UnpackedNone ==
    ASSUME NEW c, List(EntriesOf[c]) PROVE Unpacked(c, 1) = {}
<1>1. \A m \in DOMAIN EntriesOf[c] : ~ (m < 1)
  BY ListIs
<1>2. QED BY <1>1 DEF Unpacked

LEMMA UnpackedAll ==
    ASSUME NEW c, List(EntriesOf[c]), NEW n \in Nat, n > Len(EntriesOf[c])
    PROVE  Unpacked(c, n) = Unpacked(c, Len(EntriesOf[c]) + 1)
<1>1. \A m \in DOMAIN EntriesOf[c] : m < n /\ m < Len(EntriesOf[c]) + 1
  BY ListIs
<1>2. QED BY <1>1 DEF Unpacked

\* The next file leaves what its digest stands for; those before are as before.
LEMMA BeforeNext ==
    ASSUME NEW s, List(s), NEW t, DOMAIN t = DOMAIN s, NEW n \in DOMAIN s, NEW dir,
           \A j \in DOMAIN s : j < n => t[j] = s[j]
    PROVE  /\ Before(t, n, dir) = Before(s, n, dir)
           /\ Before(t, n + 1, dir) =
                Before(s, n, dir) \cup
                   IF t[n].dir = dir /\ t[n].url # Nil THEN Of(t[n]) ELSE {}
<1>1. DOMAIN s = 1..Len(s) /\ Len(s) \in Nat
  BY ListIs
<1>2. \A m \in DOMAIN s : m < n + 1 <=> m < n \/ m = n
  BY <1>1
<1>3. Before(t, n, dir) = Before(s, n, dir)
  <2>1. ASSUME NEW x PROVE x \in Before(t, n, dir) <=> x \in Before(s, n, dir)
    BY DEF Before
  <2>2. QED BY <2>1
<1>4. ASSUME NEW x
      PROVE  x \in Before(t, n + 1, dir) <=>
                x \in Before(t, n, dir) \/ (t[n].dir = dir /\ t[n].url # Nil /\ x \in Of(t[n]))
  BY <1>2 DEF Before
<1>5. QED BY <1>3, <1>4

LEMMA BeforeNone ==
    ASSUME NEW s, List(s), NEW dir PROVE Before(s, 1, dir) = {}
<1>1. \A m \in DOMAIN s : ~ (m < 1)
  BY ListIs
<1>2. QED BY <1>1 DEF Before

LEMMA BeforeAll ==
    ASSUME NEW s, List(s), NEW n \in Nat, n > Len(s), NEW dir,
           \A j \in DOMAIN s : s[j].url # Nil => List(EntriesOf[s[j].sha])
    PROVE  Before(s, n, dir) = Declared(s, dir)
<1>1. \A j \in DOMAIN s : j < n
  BY ListIs
<1> DEFINE Told(f) ==
             IF f.archive
             THEN {<<e.name, e.data>> : e \in {g \in
                      {EntriesOf[f.sha][k] : k \in DOMAIN EntriesOf[f.sha]} :
                         g.kind \in {"file", "link"}}}
             ELSE {<<f.name, f.sha>>}
<1>2. \A j \in DOMAIN s : s[j].url # Nil => Of(s[j]) = Told(s[j])
  <2> SUFFICES ASSUME NEW j \in DOMAIN s, s[j].url # Nil PROVE Of(s[j]) = Told(s[j])
    OBVIOUS
  <2> DEFINE es == EntriesOf[s[j].sha]
  <2>1. \A k \in DOMAIN es : k < Len(es) + 1
    BY ListIs
  <2>2. QED BY <2>1 DEF Of, Unpacked, Content
<1>3. Declared(s, dir) =
         UNION {Told(s[j]) : j \in {k \in DOMAIN s : s[k].dir = dir /\ s[k].url # Nil}}
  BY DEF Declared
<1> HIDE DEF Told
<1>4. ASSUME NEW x PROVE x \in Before(s, n, dir) <=> x \in Declared(s, dir)
  BY <1>1, <1>2, <1>3 DEF Before
<1>5. QED BY <1>4

\* What the first files leave has their names.
LEMMA BeforeNamed ==
    ASSUME NEW s, NEW n, NEW dir, NEW x \in Before(s, n, dir)
    PROVE  \E j \in DOMAIN s : /\ j < n /\ s[j].dir = dir /\ s[j].url # Nil
                              /\ x[1] \in Names(s[j], s[j].sha)
<1>1. PICK j \in DOMAIN s : j < n /\ s[j].dir = dir /\ s[j].url # Nil /\ x \in Of(s[j])
  BY DEF Before
<1>2. x[1] \in Names(s[j], s[j].sha)
  BY <1>1 DEF Of, Unpacked, Names
<1>3. QED BY <1>1, <1>2

LEMMA PutFiles ==
    ASSUME NEW f, NEW x, x \notin DOMAIN f, NEW v
    PROVE  Files(Put(f, x, v)) = Files(f) \cup {<<x, v>>}
BY DEF Files, Put

LEMMA WithoutFiles ==
    ASSUME NEW f, NEW x
    PROVE  Files(Without(f, {x})) = {y \in Files(f) : y[1] # x}
BY DEF Files, Without


-----------------------------------------------------------------------------
(* The staged files are those that the digests stand for.                  *)

\* The files that land in one directory have different names, whatever the
\* servers answer.
Apart(assets) ==
    /\ \A j, k \in DOMAIN assets :
         j # k /\ assets[j].dir = assets[k].dir /\ assets[j].url # Nil /\ assets[k].url # Nil =>
         \A c \in Offers[assets[j].url], d \in Offers[assets[k].url] :
            Names(assets[j], c) \cap Names(assets[k], d) = {}
    /\ \A j \in DOMAIN assets : assets[j].archive /\ assets[j].url # Nil =>
         \A c \in Offers[assets[j].url] : \A k, l \in DOMAIN EntriesOf[c] :
            LET e == EntriesOf[c][k]
                f == EntriesOf[c][l]
            IN Content(e) => e.name # assets[j].name
                             /\ (Content(f) /\ k # l => e.name # f.name)
NamesApart == \A p \in Plans : \A i \in DOMAIN p.arts : Apart(p.arts[i].assets)

LEMMA NamesKept == NamesApart => ArchivesKept
BY DEF NamesApart, Apart, ArchivesKept, Content

LEMMA LikeNames ==
    ASSUME NEW f, NEW g, SameFile(f, g), NEW c PROVE Names(g, c) = Names(f, c)
BY DEF SameFile, Names

LEMMA ArtNames ==
    ASSUME NamesApart, PlanInv, at.art \in DOMAIN arts
    PROVE  Apart(art.assets)
<1>1. PICK p \in Plans : LikePlan(arts, p)
  BY DEF PlanInv
<1>2. /\ Apart(p.arts[at.art].assets) /\ DOMAIN art.assets = DOMAIN p.arts[at.art].assets
      /\ \A j \in DOMAIN art.assets : SameFile(p.arts[at.art].assets[j], art.assets[j])
  BY <1>1 DEF NamesApart, LikePlan, Like, art
<1> DEFINE s == p.arts[at.art].assets
           t == art.assets
<1>3. \A j \in DOMAIN t : t[j].dir = s[j].dir /\ t[j].url = s[j].url /\ t[j].name = s[j].name
                          /\ t[j].archive = s[j].archive
  BY <1>2 DEF SameFile
<1>4. \A j \in DOMAIN t : \A c : Names(t[j], c) = Names(s[j], c)
  BY <1>2, LikeNames
<1> HIDE DEF s, t
<1>5. Apart(s) /\ DOMAIN t = DOMAIN s
  BY <1>2 DEF s, t
<1>6. Apart(t)
  BY <1>3, <1>4, <1>5 DEF Apart
<1>7. QED BY <1>6 DEF t

IsFunction(f) == f = [x \in DOMAIN f |-> f[x]]

\* What is in a directory of the artifact at hand: what the files before this
\* one stand for and, during extraction, the archive and what it has yielded.
Contents(dir) ==
    Before(art.assets, at.file, dir) \cup
        IF pc = "extract" /\ file.dir = dir
        THEN {<<file.name, file.sha>>} \cup Unpacked(file.sha, at.entry) ELSE {}

\* In the end the auxiliary files replace some of them.
Replaced(S, f) == {x \in S : x[1] \notin DOMAIN f} \cup Files(f)
Held(dir) == IF pc \in {"pack", "write"} THEN Replaced(Contents(dir), art.plan.aux[dir])
             ELSE Contents(dir)

Fetched(assets, n, j) == j < n /\ assets[j].url # Nil

FilesInv == pc \in {"fetch", "extract", "pack", "write"} =>
    /\ pc \in {"pack", "write"} => at.file > Len(art.assets)
    /\ \A j \in DOMAIN art.assets :
         Fetched(art.assets, at.file, j) => art.assets[j].sha \in Offers[art.assets[j].url]
    /\ \A dir \in {"asset", "source"} :
         IsFunction(Tree[dir]) /\ Files(Tree[dir]) = Held(dir)

LEMMA FilesInit == Init => FilesInv
BY DEF Init, FilesInv

\* Before they are staged, nothing is replaced.
LEMMA FilesHere ==
    ASSUME FilesInv, pc \in {"fetch", "extract"}, NEW dir \in {"asset", "source"}
    PROVE  IsFunction(Tree[dir]) /\ Files(Tree[dir]) = Contents(dir)
BY DEF FilesInv, Held

LEMMA FilesThen ==
    ASSUME pc' \in {"fetch", "extract"},
           \A j \in DOMAIN art'.assets : Fetched(art'.assets, at'.file, j) =>
              art'.assets[j].sha \in Offers[art'.assets[j].url],
           \A dir \in {"asset", "source"} :
              IsFunction(Tree'[dir]) /\ Files(Tree'[dir]) = Contents(dir)'
    PROVE  FilesInv'
BY DEF FilesInv, Held

\* The list of files, and the contents of those that were fetched.
LEMMA AssetsAre ==
    ASSUME TypeInv, FilesInv, pc \in {"fetch", "extract", "pack", "write"}
    PROVE  /\ List(art.assets) /\ at.file \in Nat \ {0}
           /\ \A j \in DOMAIN art.assets : File(art.assets[j])
           /\ \A j \in DOMAIN art.assets : Fetched(art.assets, at.file, j) =>
                /\ art.assets[j].sha \in Offers[art.assets[j].url]
                /\ List(EntriesOf[art.assets[j].sha])
<1>1. List(art.assets) /\ \A j \in DOMAIN art.assets : File(art.assets[j])
  BY Working DEF Artifact
<1>2. \A j \in DOMAIN art.assets :
         Fetched(art.assets, at.file, j) => art.assets[j].sha \in Offers[art.assets[j].url]
  BY DEF FilesInv
<1>3. \A j \in DOMAIN art.assets :
         Fetched(art.assets, at.file, j) => List(EntriesOf[art.assets[j].sha])
  BY <1>1, <1>2, CooperBuildAssumption DEF File, Fetched
<1>4. at.file \in Nat \ {0}
  BY DEF TypeInv
<1>5. QED BY <1>1, <1>2, <1>3, <1>4

\* A name that the file at hand has or brings is of no earlier file.
LEMMA FreshName ==
    ASSUME NamesApart, TypeInv, PlanInv, FilesInv, pc \in {"fetch", "extract"},
           at.file \in DOMAIN art.assets, file.url # Nil, NEW c \in Offers[file.url], NEW n \in Names(file, c),
           NEW x \in Before(art.assets, at.file, file.dir)
    PROVE  x[1] # n
<1>1. PICK j \in DOMAIN art.assets : /\ j < at.file /\ art.assets[j].dir = file.dir
                                     /\ art.assets[j].url # Nil
                                     /\ x[1] \in Names(art.assets[j], art.assets[j].sha)
  BY BeforeNamed
<1>2. art.assets[j].sha \in Offers[art.assets[j].url] /\ j # at.file
  <2>1. at.file \in Nat /\ \A k \in DOMAIN art.assets : k \in Nat
    BY AssetsAre, ListIs
  <2>2. QED BY <1>1, <2>1, AssetsAre DEF Fetched
<1>3. Apart(art.assets)
  BY ArtNames, Working
<1>4. Names(art.assets[j], art.assets[j].sha) \cap Names(art.assets[at.file], c) = {}
  BY <1>1, <1>2, <1>3 DEF Apart, file
<1>5. QED BY <1>1, <1>4 DEF file

LEMMA PutFunction == ASSUME NEW f, NEW x, NEW v PROVE IsFunction(Put(f, x, v))
BY DEF IsFunction, Put

LEMMA WithoutFunction == ASSUME NEW f, NEW S PROVE IsFunction(Without(f, S))
BY DEF IsFunction, Without

LEMMA NotThere ==
    ASSUME NEW f, NEW n, \A x \in Files(f) : x[1] # n PROVE n \notin DOMAIN f
<1>1. SUFFICES ASSUME n \in DOMAIN f PROVE FALSE
  OBVIOUS
<1>2. <<n, f[n]>> \in Files(f)
  BY <1>1 DEF Files
<1>3. QED BY <1>2

LEMMA FetchFiles ==
    ASSUME NamesApart, TypeInv, PlanInv, TreesInv, FilesInv, Fetch, ~ Fail
    PROVE  FilesInv'
<1> DEFINE got == remote[file.url]
           s == art.assets
           n == at.file
<1>1. /\ pc = "fetch" /\ n \in DOMAIN s /\ File(file) /\ got \in Offers[file.url]
      /\ file.dir \in {"asset", "source"} /\ List(s) /\ n \in Nat
      /\ file.url # Nil /\ file.url \in DOMAIN Offers
  BY FileIs, AssetsAre DEF Fetch
<1>2. /\ art'.assets = [s EXCEPT ![n] = [file EXCEPT !.sha = got]]
      /\ Tree'[file.dir] = Put(Tree[file.dir], file.name, got)
      /\ \A k \in TreeParts \ {file.dir, "mtime"} : Tree'[k] = Tree[k]
      /\ \/ file.archive /\ pc' = "extract" /\ at' = [at EXCEPT !.entry = 1]
         \/ ~ file.archive /\ pc' = "fetch" /\ at' = [at EXCEPT !.file = @ + 1]
  BY FetchIs
<1> DEFINE g == [file EXCEPT !.sha = got]
           t == [s EXCEPT ![n] = g]
<1>3. /\ g.sha = got /\ g.name = file.name /\ g.url = file.url /\ g.dir = file.dir
      /\ g.archive = file.archive
  BY <1>1 DEF File
<1> HIDE DEF g
<1>4. /\ art'.assets = t /\ DOMAIN t = DOMAIN s /\ t[n] = g
      /\ \A j \in DOMAIN s : j # n => t[j] = s[j]
  BY <1>1, <1>2 DEF g
<1> HIDE DEF t
<1>5. \A dir : /\ Before(t, n, dir) = Before(s, n, dir)
               /\ Before(t, n + 1, dir) =
                    Before(s, n, dir) \cup IF g.dir = dir THEN Of(g) ELSE {}
  BY <1>1, <1>3, <1>4, BeforeNext
<1>6. file.name \notin DOMAIN Tree[file.dir]
  <2>1. file.name \in Names(file, got)
    BY DEF Names
  <2>2. Files(Tree[file.dir]) = Before(s, n, file.dir)
    BY <1>1, FilesHere DEF Contents
  <2>3. QED BY <1>1, <2>1, <2>2, FreshName, NotThere
<1>7. Files(Tree'[file.dir]) = Before(s, n, file.dir) \cup {<<file.name, got>>}
  <2>1. Files(Tree[file.dir]) = Before(s, n, file.dir)
    BY <1>1, FilesHere DEF Contents
  <2>2. QED BY <1>2, <1>6, <2>1, PutFiles
<1>8. \A dir \in {"asset", "source"} \ {file.dir} :
         IsFunction(Tree'[dir]) /\ Files(Tree'[dir]) = Before(s, n, dir)
  <2> SUFFICES ASSUME NEW dir \in {"asset", "source"} \ {file.dir}
               PROVE  IsFunction(Tree'[dir]) /\ Files(Tree'[dir]) = Before(s, n, dir)
    OBVIOUS
  <2>1. Tree'[dir] = Tree[dir]
    BY <1>2 DEF TreeParts
  <2>2. IsFunction(Tree[dir]) /\ Files(Tree[dir]) = Before(s, n, dir)
    BY <1>1, FilesHere DEF Contents
  <2>3. QED BY <2>1, <2>2
<1>9. IsFunction(Tree'[file.dir])
  BY <1>2, PutFunction
<1>10. \A j \in DOMAIN t : Fetched(t, n + 1, j) => t[j].sha \in Offers[t[j].url]
  <2>1. \A j \in DOMAIN s : j \in Nat
    BY <1>1, ListIs
  <2>2. \A j \in DOMAIN s : Fetched(t, n + 1, j) => j = n \/ Fetched(s, n, j)
    BY <1>1, <1>4, <2>1 DEF Fetched
  <2>3. \A j \in DOMAIN s : Fetched(s, n, j) => s[j].sha \in Offers[s[j].url] /\ j # n
    BY <1>1, <2>1, AssetsAre DEF Fetched
  <2>4. QED BY <1>1, <1>3, <1>4, <2>2, <2>3
<1>11. CASE file.archive /\ pc' = "extract" /\ at' = [at EXCEPT !.entry = 1]
  <2>1. at'.file = n /\ at'.entry = 1
    BY <1>11 DEF TypeInv
  <2>2. file' = g
    BY <1>4, <2>1 DEF file
  <2>3. List(EntriesOf[got])
    BY <1>1, CooperBuildAssumption
  <2>4. Unpacked(got, 1) = {}
    BY <2>3, UnpackedNone
  <2>5. ASSUME NEW dir \in {"asset", "source"}
        PROVE  IsFunction(Tree'[dir]) /\ Files(Tree'[dir]) = Contents(dir)'
    <3>1. Contents(dir)' = Before(t, n, dir) \cup
             IF g.dir = dir THEN {<<g.name, g.sha>>} \cup Unpacked(g.sha, 1) ELSE {}
      BY <1>4, <1>11, <2>1, <2>2 DEF Contents
    <3>2. Contents(dir)' = Before(s, n, dir) \cup
             IF file.dir = dir THEN {<<file.name, got>>} ELSE {}
      BY <1>3, <1>5, <2>4, <3>1
    <3>3. QED BY <1>7, <1>8, <1>9, <3>2
  <2>6. \A j \in DOMAIN art'.assets : Fetched(art'.assets, at'.file, j) =>
           art'.assets[j].sha \in Offers[art'.assets[j].url]
    <3>1. \A j \in DOMAIN s : j \in Nat
      BY <1>1, ListIs
    <3>2. QED BY <1>1, <1>4, <1>10, <2>1, <3>1 DEF Fetched
  <2>7. QED BY <1>11, <2>5, <2>6, FilesThen
<1>12. CASE ~ file.archive /\ pc' = "fetch" /\ at' = [at EXCEPT !.file = @ + 1]
  <2>1. at'.file = n + 1
    BY <1>12 DEF TypeInv
  <2>2. Of(g) = {<<file.name, got>>}
    BY <1>3, <1>12 DEF Of
  <2>3. ASSUME NEW dir \in {"asset", "source"}
        PROVE  IsFunction(Tree'[dir]) /\ Files(Tree'[dir]) = Contents(dir)'
    <3>1. Contents(dir)' = Before(t, n + 1, dir)
      BY <1>4, <1>12, <2>1 DEF Contents
    <3>2. Contents(dir)' = Before(s, n, dir) \cup
             IF file.dir = dir THEN {<<file.name, got>>} ELSE {}
      BY <1>3, <1>5, <2>2, <3>1
    <3>3. QED BY <1>7, <1>8, <1>9, <3>2
  <2>4. \A j \in DOMAIN art'.assets : Fetched(art'.assets, at'.file, j) =>
           art'.assets[j].sha \in Offers[art'.assets[j].url]
    BY <1>4, <1>10, <2>1
  <2>5. QED BY <1>12, <2>3, <2>4, FilesThen
<1>13. QED BY <1>2, <1>11, <1>12


LEMMA ExtractFiles ==
    ASSUME NamesApart, TypeInv, PlanInv, TreesInv, ArchiveInv, FilesInv, Extract, pc' = "extract"
    PROVE  FilesInv'
<1> DEFINE s == art.assets
           c == file.sha
           k == at.entry
           e == EntriesOf[c][k]
<1>1. /\ pc = "extract" /\ k <= Len(Entries) /\ at.file <= Len(s)
      /\ at.file \in DOMAIN s /\ file.dir \in {"asset", "source"} /\ Dir(art) \in DOMAIN trees
  BY FileIs DEF Extract, TypeInv
<1>2. /\ k \in DOMAIN EntriesOf[c] /\ entry = e /\ c \in Offers[file.url] /\ file.archive
      /\ file.url \in DOMAIN Offers /\ file.url # Nil
  BY <1>1, EntryIs, FileIs DEF entry, ArchiveInv
<1>3. List(EntriesOf[c])
  BY <1>2, CooperBuildAssumption
<1>4. /\ at' = [at EXCEPT !.entry = @ + 1] /\ UNCHANGED <<arts, run>>
      /\ art' = art /\ Dir(art)' = Dir(art)
      /\ \/ entry.kind \in {"file", "link"} /\ WriteFile(file.dir, entry.name, entry.data)
         \/ entry.kind \in {"pax", "dir"} /\ UNCHANGED trees
  BY ExtractIs
<1>5. at'.file = at.file /\ at'.entry = k + 1 /\ file' = file
  BY <1>4 DEF TypeInv, file
<1>6. Unpacked(c, k + 1) = Unpacked(c, k) \cup IF Content(e) THEN {<<e.name, e.data>>} ELSE {}
  BY <1>2, <1>3, UnpackedNext
<1>7. \A dir : Contents(dir)' = Contents(dir) \cup
         IF file.dir = dir /\ Content(e) THEN {<<e.name, e.data>>} ELSE {}
  BY <1>1, <1>4, <1>5, <1>6 DEF Contents
<1>8. \A dir \in {"asset", "source"} : IsFunction(Tree[dir]) /\ Files(Tree[dir]) = Contents(dir)
  BY <1>1, FilesHere
<1>9. ASSUME NEW dir \in {"asset", "source"}
      PROVE  IsFunction(Tree'[dir]) /\ Files(Tree'[dir]) = Contents(dir)'
  <2>1. CASE entry.kind \in {"pax", "dir"} /\ UNCHANGED trees
    <3>1. ~ Content(e) /\ Tree' = Tree
      BY <1>2, <1>4, <2>1 DEF Content, Tree
    <3>2. QED BY <1>7, <1>8, <3>1
  <2>2. CASE entry.kind \in {"file", "link"} /\ WriteFile(file.dir, entry.name, entry.data)
    <3>1. Content(e)
      BY <1>2, <2>2 DEF Content
    <3>2. PICK t : /\ Staged(t) /\ t[file.dir] = Put(Tree[file.dir], entry.name, entry.data)
                   /\ \A x \in TreeParts \ {file.dir, "mtime"} : t[x] = Tree[x]
      BY <1>1, <2>2, WriteIs
    <3>3. Tree' = t
      BY <1>1, <1>4, <3>2, StagedIs DEF Tree
    <3>4. CASE dir # file.dir
      <4>1. Tree'[dir] = Tree[dir]
        BY <3>2, <3>3, <3>4 DEF TreeParts
      <4>2. QED BY <1>7, <1>8, <3>4, <4>1
    <3>5. CASE dir = file.dir
      <4>1. e.name \notin DOMAIN Tree[dir]
        <5>1. Apart(s) /\ file = s[at.file]
          BY <1>1, ArtNames, Working DEF file
        <5>2. e.name # file.name
          BY <1>1, <1>2, <3>1, <5>1 DEF Apart
        <5>3. \A x \in Unpacked(c, k) : x[1] # e.name
          <6>1. \A m \in DOMAIN EntriesOf[c] : m < k => m # k
            BY <1>2, <1>3, ListIs
          <6>2. \A m \in DOMAIN EntriesOf[c] : m < k /\ Content(EntriesOf[c][m]) =>
                   EntriesOf[c][m].name # e.name
            BY <1>1, <1>2, <3>1, <5>1, <6>1 DEF Apart
          <6>3. QED BY <6>2 DEF Unpacked
        <5>4. e.name \in Names(file, c)
          BY <1>2, <3>1 DEF Names
        <5>5. \A x \in Before(s, at.file, file.dir) : x[1] # e.name
          BY <1>1, <1>2, <5>4, FreshName
        <5>6. \A x \in Contents(dir) : x[1] # e.name
          BY <1>1, <3>5, <5>2, <5>3, <5>5 DEF Contents
        <5>7. QED BY <1>8, <5>6, NotThere
      <4>2. Tree'[dir] = Put(Tree[dir], e.name, e.data)
        BY <1>2, <3>2, <3>3, <3>5
      <4>3. IsFunction(Tree'[dir])
        BY <4>2, PutFunction
      <4>4. Files(Tree'[dir]) = Files(Tree[dir]) \cup {<<e.name, e.data>>}
        BY <4>1, <4>2, PutFiles
      <4>5. QED BY <1>7, <1>8, <3>1, <3>5, <4>3, <4>4
    <3>6. QED BY <3>4, <3>5
  <2>3. QED BY <1>4, <2>1, <2>2
<1>10. \A j \in DOMAIN art'.assets : Fetched(art'.assets, at'.file, j) =>
          art'.assets[j].sha \in Offers[art'.assets[j].url]
  BY <1>1, <1>4, <1>5 DEF FilesInv
<1>11. QED BY <1>9, <1>10, FilesThen

\* The archive goes, and what it has yielded is all its digest stands for.
LEMMA ExtractedFiles ==
    ASSUME NamesApart, TypeInv, PlanInv, TreesInv, ArchiveInv, FilesInv, Extracted
    PROVE  FilesInv'
<1> DEFINE s == art.assets
           c == file.sha
           n == at.file
<1>1. /\ pc = "extract" /\ pc' = "fetch" /\ at' = [at EXCEPT !.file = @ + 1]
      /\ at.entry > Len(Entries) /\ n \in DOMAIN s /\ List(s)
      /\ file.dir \in {"asset", "source"} /\ Dir(art) \in DOMAIN trees
      /\ UNCHANGED <<arts, run>> /\ file = s[n]
  BY FileIs, AssetsAre DEF Extracted, TypeInv, file
<1>2. /\ file.archive /\ c \in Offers[file.url] /\ file.url \in DOMAIN Offers
      /\ Entries = EntriesOf[c]
      /\ file.url # Nil
  BY <1>1, FileIs DEF ArchiveInv, Entries, TypeInv
<1>3. List(EntriesOf[c])
  BY <1>2, CooperBuildAssumption
<1>4. at'.file = n + 1 /\ art' = art /\ Dir(art)' = Dir(art) /\ at.entry \in Nat
  BY <1>1 DEF TypeInv, art, Dir, run
<1>5. Unpacked(c, at.entry) = Of(file)
  BY <1>1, <1>2, <1>3, <1>4, UnpackedAll DEF Of
<1>6. \A dir : Before(s, n + 1, dir) =
         Before(s, n, dir) \cup IF file.dir = dir THEN Of(file) ELSE {}
  BY <1>1, <1>2, BeforeNext
<1>7. \A dir : Contents(dir)' = Before(s, n + 1, dir)
  BY <1>1, <1>4 DEF Contents
<1>8. PICK t : /\ Staged(t) /\ t[file.dir] = Without(Tree[file.dir], {file.name})
               /\ \A x \in TreeParts \ {file.dir} : t[x] = Tree[x]
  BY ExtractedIs
<1>9. Tree' = t
  BY <1>1, <1>4, <1>8, StagedIs DEF Tree
<1>10. ASSUME NEW dir \in {"asset", "source"}
       PROVE  IsFunction(Tree'[dir]) /\ Files(Tree'[dir]) = Contents(dir)'
  <2>1. IsFunction(Tree[dir]) /\ Files(Tree[dir]) = Contents(dir)
    BY <1>1, FilesHere
  <2>2. CASE dir # file.dir
    <3>1. Tree'[dir] = Tree[dir]
      BY <1>8, <1>9, <2>2 DEF TreeParts
    <3>2. QED BY <1>6, <1>7, <2>1, <2>2, <3>1 DEF Contents
  <2>3. CASE dir = file.dir
    <3>1. Tree'[dir] = Without(Tree[dir], {file.name})
      BY <1>8, <1>9, <2>3
    <3>2. IsFunction(Tree'[dir]) /\ Files(Tree'[dir]) = {x \in Contents(dir) : x[1] # file.name}
      <4>1. IsFunction(Without(Tree[dir], {file.name}))
        BY WithoutFunction
      <4>2. Files(Without(Tree[dir], {file.name})) = {x \in Files(Tree[dir]) : x[1] # file.name}
        BY WithoutFiles
      <4>3. QED BY <2>1, <3>1, <4>1, <4>2
    <3>3. \A x \in Before(s, n, dir) : x[1] # file.name
      <4>1. file.name \in Names(file, c)
        BY DEF Names
      <4>2. QED BY <1>1, <1>2, <2>3, <4>1, FreshName
    <3>4. \A x \in Unpacked(c, at.entry) : x[1] # file.name
      <4>1. Apart(s)
        BY <1>1, ArtNames, Working
      <4>2. \A m \in DOMAIN EntriesOf[c] : Content(EntriesOf[c][m]) =>
               EntriesOf[c][m].name # file.name
        BY <1>1, <1>2, <4>1 DEF Apart
      <4>3. QED BY <4>2 DEF Unpacked
    <3>5. Contents(dir) =
             Before(s, n, dir) \cup {<<file.name, c>>} \cup Unpacked(c, at.entry)
      BY <1>1, <2>3 DEF Contents
    <3>6. {x \in Contents(dir) : x[1] # file.name} = Before(s, n, dir) \cup Unpacked(c, at.entry)
      BY <3>3, <3>4, <3>5
    <3>7. QED BY <1>5, <1>6, <1>7, <2>3, <3>2, <3>6
  <2>4. QED BY <2>2, <2>3
<1>11. \A j \in DOMAIN art'.assets : Fetched(art'.assets, at'.file, j) =>
          art'.assets[j].sha \in Offers[art'.assets[j].url]
  <2>1. \A j \in DOMAIN s : j \in Nat
    BY <1>1, ListIs
  <2>2. n \in Nat
    BY <1>1, <2>1
  <2>3. \A j \in DOMAIN s : Fetched(s, n + 1, j) => Fetched(s, n, j) \/ j = n
    BY <2>1, <2>2 DEF Fetched
  <2>4. QED BY <1>1, <1>2, <1>4, <2>3, AssetsAre
<1>12. QED BY <1>1, <1>10, <1>11, FilesThen

\* An asset that is passed over stands for no files.
LEMMA SkipFiles ==
    ASSUME TypeInv, FilesInv, Skip
    PROVE  FilesInv'
<1> DEFINE s == art.assets
           n == at.file
<1>1. /\ pc = "fetch" /\ pc' = "fetch" /\ at' = [at EXCEPT !.file = @ + 1]
      /\ UNCHANGED <<trees, arts, run>> /\ n \in DOMAIN s /\ List(s) /\ s[n].url = Nil
  BY FileIs, AssetsAre DEF Skip, Skipped, file
<1>2. at'.file = n + 1 /\ art' = art /\ Tree' = Tree
  BY <1>1 DEF TypeInv, art, Tree, Dir, run
<1>3. \A dir : Contents(dir) = Before(s, n, dir) /\ Contents(dir)' = Before(s, n + 1, dir)
  BY <1>1, <1>2 DEF Contents
<1>4. ASSUME NEW dir PROVE Before(s, n + 1, dir) = Before(s, n, dir)
  <2>1. Before(s, n + 1, dir) =
           Before(s, n, dir) \cup IF s[n].dir = dir /\ s[n].url # Nil THEN Of(s[n]) ELSE {}
    <3> HIDE DEF s, n
    <3>1. List(s) /\ n \in DOMAIN s /\ DOMAIN s = DOMAIN s /\ \A j \in DOMAIN s : j < n => s[j] = s[j]
      BY <1>1
    <3>2. QED BY <3>1, BeforeNext
  <2>2. QED BY <1>1, <2>1
<1>5. \A j \in DOMAIN s : Fetched(s, n + 1, j) => Fetched(s, n, j)
  <2>1. n \in Nat /\ \A j \in DOMAIN s : j \in Nat
    BY <1>1, ListIs
  <2>2. QED BY <1>1, <2>1 DEF Fetched
<1>6. \A j \in DOMAIN art'.assets : Fetched(art'.assets, at'.file, j) =>
         art'.assets[j].sha \in Offers[art'.assets[j].url]
  BY <1>1, <1>2, <1>5, AssetsAre
<1>7. \A dir \in {"asset", "source"} :
         IsFunction(Tree'[dir]) /\ Files(Tree'[dir]) = Contents(dir)'
  BY <1>1, <1>2, <1>3, <1>4, FilesHere
<1>8. QED BY <1>1, <1>6, <1>7, FilesThen

\* An auxiliary file replaces the file of its name.
LEMMA OverFiles ==
    ASSUME NEW f, NEW g
    PROVE  IsFunction(Over(f, g)) /\ Files(Over(f, g)) = Replaced(Files(f), g)
<1>1. IsFunction(Over(f, g))
  BY DEF IsFunction, Over
<1>2. ASSUME NEW x \in Files(Over(f, g)) PROVE x \in Replaced(Files(f), g)
  <2>1. PICK n \in DOMAIN Over(f, g) : x = <<n, Over(f, g)[n]>>
    BY DEF Files
  <2>2. CASE n \in DOMAIN g
    BY <2>1, <2>2 DEF Files, Replaced, Over
  <2>3. CASE n \notin DOMAIN g
    BY <2>1, <2>3 DEF Files, Replaced, Over
  <2>4. QED BY <2>2, <2>3
<1>3. ASSUME NEW x \in Replaced(Files(f), g) PROVE x \in Files(Over(f, g))
  <2>1. CASE x \in Files(g)
    <3>1. PICK n \in DOMAIN g : x = <<n, g[n]>>
      BY <2>1 DEF Files
    <3>2. n \in DOMAIN Over(f, g) /\ Over(f, g)[n] = g[n]
      BY DEF Over
    <3>3. QED BY <3>1, <3>2 DEF Files
  <2>2. CASE x \in Files(f) /\ x[1] \notin DOMAIN g
    <3>1. PICK n \in DOMAIN f : x = <<n, f[n]>>
      BY <2>2 DEF Files
    <3>2. n \in DOMAIN Over(f, g) /\ Over(f, g)[n] = f[n]
      BY <2>2, <3>1 DEF Over
    <3>3. QED BY <3>1, <3>2 DEF Files
  <2>3. QED BY <2>1, <2>2 DEF Replaced
<1>4. QED BY <1>1, <1>2, <1>3

LEMMA StageFiles ==
    ASSUME TypeInv, TreesInv, FilesInv, Stage
    PROVE  FilesInv'
<1> SUFFICES ASSUME pc' = "pack" PROVE FilesInv'
  BY DEF Stage, NextArtifact, FilesInv
<1>1. /\ pc = "fetch" /\ at.file > Len(art.assets) /\ UNCHANGED <<at, arts, run>>
      /\ Dir(art) \in DOMAIN trees
  BY Working DEF Stage, NextArtifact
<1>2. PICK t : /\ Staged(t) /\ t.asset = Over(Tree.asset, art.plan.aux.asset)
               /\ t.source = Over(Tree.source, art.plan.aux.source)
  BY StageIs
<1>3. art' = art /\ Tree' = t /\ file' = file
  BY <1>1, <1>2, StagedIs DEF Tree, Dir, art, run, file
<1>4. ASSUME NEW dir \in {"asset", "source"}
      PROVE  IsFunction(Tree'[dir]) /\ Files(Tree'[dir]) = Held(dir)'
  <2>1. Tree'[dir] = Over(Tree[dir], art.plan.aux[dir])
    BY <1>2, <1>3
  <2>2. Files(Tree[dir]) = Contents(dir)
    BY <1>1, FilesHere
  <2>3. Contents(dir)' = Contents(dir)
    BY <1>1, <1>3 DEF Contents
  <2>4. Held(dir)' = Replaced(Contents(dir), art.plan.aux[dir])
    BY <1>3, <2>3 DEF Held
  <2>5. QED BY <2>1, <2>2, <2>4, OverFiles
<1>5. QED BY <1>1, <1>3, <1>4 DEF FilesInv

LEMMA VerifyFiles ==
    ASSUME KeysApart, TypeInv, PlanInv, TreesInv, DirsInv, Verify, ~ Fail
    PROVE  FilesInv'
<1>1. /\ pc' = "fetch" /\ art' = art /\ at'.file = 1 /\ Tree' = EmptyTree
      /\ pc = "verify" /\ at.art <= Len(arts)
  BY VerifyIs, VerifyMakes
<1>2. Artifact(art) /\ List(art.assets)
  <2>1. at.art \in DOMAIN arts
    BY <1>1, ListIs DEF TypeInv, Artifacts
  <2>2. QED BY <2>1 DEF TypeInv, Artifacts, Artifact, art
<1>3. \A dir : Contents(dir)' = {}
  BY <1>1, <1>2, BeforeNone DEF Contents
<1>4. \A dir \in {"asset", "source"} : Tree'[dir] = <<>>
  BY <1>1 DEF EmptyTree
<1>5. IsFunction(<<>>) /\ Files(<<>>) = {}
  BY DEF IsFunction, Files
<1>6. \A j \in DOMAIN art'.assets : ~ Fetched(art'.assets, at'.file, j)
  BY <1>1, <1>2, ListIs DEF Fetched
<1>7. QED BY <1>1, <1>3, <1>4, <1>5, <1>6, FilesThen

LEMMA FilesNext ==
    ASSUME KeysApart, NamesApart, TypeInv, PlanInv, TreesInv, ArchiveInv, DirsInv, FilesInv,
           [Next]_vars
    PROVE  FilesInv'
<1>1. \/ Verify /\ ~ Fail
      \/ Fetch /\ ~ Fail
      \/ Extract /\ pc' = "extract"
      \/ Extracted
      \/ Skip
      \/ Stage
      \/ pc \in {"pack", "write"} /\ UNCHANGED <<trees, arts, run, at>>
      \/ UNCHANGED <<trees, arts, run, at, pc>>
      \/ pc' \notin {"fetch", "extract", "pack", "write"}
  BY DEF Next, vars, position, Start, Refuse, Verify, Fetch, FetchFails, Extract, ExtractFails,
     Extracted, StageFails, PackOpens, PackFails, Pack, Finish, Crash, Republish, Fail,
     NextArtifact
<1>2. CASE pc \in {"pack", "write"} /\ UNCHANGED <<trees, arts, run, at>>
  <2> SUFFICES ASSUME pc' \in {"fetch", "extract", "pack", "write"} PROVE FilesInv'
    BY DEF FilesInv
  <2>1. pc' \in {"pack", "write"}
    BY <1>2 DEF Next, vars, position, Start, Refuse, Verify, Skip, Fetch, FetchFails, Extract,
       ExtractFails, Extracted, Stage, StageFails, PackOpens, PackFails, Pack, Finish, Crash,
       Republish, Fail, NextArtifact
  <2>2. \A dir : Contents(dir)' = Contents(dir)
    BY <1>2, <2>1 DEF Contents, art
  <2>3. Tree' = Tree /\ art' = art
    BY <1>2 DEF Tree, Dir, art, run
  <2>4. \A dir : Held(dir)' = Held(dir)
    BY <1>2, <2>1, <2>2, <2>3 DEF Held
  <2>5. QED BY <1>2, <2>1, <2>3, <2>4 DEF FilesInv
<1>3. CASE UNCHANGED <<trees, arts, run, at, pc>>
  <2>1. Tree' = Tree /\ art' = art /\ file' = file
    BY <1>3 DEF Tree, Dir, art, run, file
  <2>2. \A dir : Contents(dir)' = Contents(dir)
    BY <1>3, <2>1 DEF Contents
  <2>3. \A dir : Held(dir)' = Held(dir)
    BY <1>3, <2>1, <2>2 DEF Held
  <2>4. QED BY <1>3, <2>1, <2>3 DEF FilesInv
<1>4. CASE pc' \notin {"fetch", "extract", "pack", "write"}
  BY <1>4 DEF FilesInv
<1>5. QED BY <1>1, <1>2, <1>3, <1>4, VerifyFiles, FetchFiles, ExtractFiles, ExtractedFiles,
             SkipFiles, StageFiles

\* What is packed is what the digests of the artifact stand for, and its
\* auxiliary files.
LEMMA PackFaithful ==
    ASSUME TypeInv, FilesInv, Pack, NEW dir \in {"asset", "source"}
    PROVE  /\ IsFunction(Tree[dir])
           /\ Files(Tree[dir]) = Replaced(Declared(art.assets, dir), art.plan.aux[dir])
<1>1. /\ pc = "write" /\ at.file > Len(art.assets) /\ IsFunction(Tree[dir])
      /\ Files(Tree[dir]) = Replaced(Before(art.assets, at.file, dir), art.plan.aux[dir])
  BY DEF Pack, FilesInv, Contents, Held
<1>2. /\ List(art.assets) /\ at.file \in Nat
      /\ \A j \in DOMAIN art.assets : art.assets[j].url # Nil => List(EntriesOf[art.assets[j].sha])
  BY <1>1, AssetsAre, ListIs DEF Fetched
<1>3. QED BY <1>1, <1>2, BeforeAll

LEMMA FaithfulIs ==
    Faithful <=> \A s \in shipped : \A dir \in {"asset", "source"} :
        Files(s.deb[dir]) = Replaced(Declared(s.art.assets, dir), s.art.plan.aux[dir])
BY DEF Faithful, Replaced

LEMMA FaithfulThen ==
    ASSUME \A s \in shipped' : \A dir \in {"asset", "source"} :
        Files(s.deb[dir]) = Replaced(Declared(s.art.assets, dir), s.art.plan.aux[dir])
    PROVE  Faithful'
BY DEF Faithful, Replaced

LEMMA FaithfulNext ==
    ASSUME TypeInv, FilesInv, Faithful, [Next]_vars
    PROVE  Faithful'
<1>1. CASE UNCHANGED shipped
  BY <1>1 DEF Faithful
<1>2. CASE /\ Pack
           /\ shipped' = shipped \cup {[art |-> arts'[at.art], rev |-> opts.rev, deb |-> Tree]}
  <2>1. arts'[at.art].assets = art.assets /\ arts'[at.art].plan = art.plan
    <3>1. PICK b : Annotated(b) /\ b.assets = art.assets
      BY <1>2, PackReports
    <3>2. b.plan = art.plan
      BY <3>1 DEF Annotated, SameArtifact
    <3>3. QED BY <1>2, <3>1, <3>2, Working, AnnotatedIs DEF Pack
  <2>2. \A dir \in {"asset", "source"} : Files(Tree[dir]) =
           Replaced(Declared(arts'[at.art].assets, dir), arts'[at.art].plan.aux[dir])
    BY <1>2, <2>1, PackFaithful
  <2> DEFINE Is(x) == \A dir \in {"asset", "source"} :
                 Files(x.deb[dir]) = Replaced(Declared(x.art.assets, dir), x.art.plan.aux[dir])
             new == [art |-> arts'[at.art], rev |-> opts.rev, deb |-> Tree]
  <2>3. Is(new)
    BY <2>2
  <2>4. \A x \in shipped : Is(x)
    BY FaithfulIs
  <2>5. \A x \in shipped' : Is(x)
    <3> HIDE DEF Is
    <3>1. QED BY <1>2, <2>3, <2>4
  <2>6. QED BY <2>5, FaithfulThen
<1>3. QED BY <1>1, <1>2, ShippedIs

\* A .deb holds the files that the digests of its artifact name, complete, but
\* for those its auxiliary files replace, and no others, provided the artifacts of a plan have staging directories of
\* their own and the files of an artifact names of their own.
THEOREM PackedAsTold ==
    ASSUME KeysApart, NamesApart
    PROVE  Spec => []Faithful
<1> DEFINE IInv == /\ TypeInv /\ PlanInv /\ TreesInv /\ ArchiveInv /\ DirsInv /\ FilesInv
                   /\ Faithful
<1>1. Init => IInv
  BY TypeInit, PlanInit, TreesInit, ArchiveInit, DirsInit, FilesInit DEF Init, Faithful
<1>2. IInv /\ [Next]_vars => IInv'
  BY KeysApart, NamesApart, NamesKept, TypeNext, PlanNext, TreesNext, ArchiveNext, DirsNext,
     FilesNext, FaithfulNext
<1>3. QED BY <1>1, <1>2, PTL DEF Spec


-----------------------------------------------------------------------------
(* Builds are reproducible.                                                *)

NilIsNoFunction == \A f : Nil # [x \in DOMAIN f |-> f[x]]

\* The hash covers the digests of the files, and neither their names nor where
\* they are unpacked.
FilesFollowHash == \A p, q \in Plans : \A i \in DOMAIN p.arts, j \in DOMAIN q.arts :
    p.arts[i].hash = q.arts[j].hash =>
        LET a == p.arts[i].assets
            b == q.arts[j].assets
        IN DOMAIN a = DOMAIN b /\ \A k \in DOMAIN a : a[k].name = b[k].name
                                      /\ a[k].archive = b[k].archive /\ a[k].dir = b[k].dir
                                      /\ (a[k].url = Nil <=> b[k].url = Nil)

\* The digests of the hash are those that the artifact has, if it had all.
AsHashed(a) == /\ a.hash.plan = a.plan
               /\ Pinned(a.hash) => ArtifactAssetSHAs(a.assets) = a.hash.shas

\* The parts of a tree that are not files of the artifact.
FromPlan(t, a, rev) ==
    /\ t.aux = a.plan.aux.top /\ t.mtime = a.plan.epoch
    /\ t.nfpm = [ver |-> a.plan.ver, doc |-> a.plan.doc, hash |-> a.hash,
                 release |-> IF rev > 0 THEN rev ELSE a.plan.release.rev]

PinInv ==
    /\ pc \in {"fetch", "extract", "pack", "write"} => AsHashed(art)
    /\ pc \in {"pack", "write"} => FromPlan(Tree, art, opts.rev)

ShippedInv == \A s \in shipped :
    /\ IsTree(s.deb) /\ IsFunction(s.deb.asset) /\ IsFunction(s.deb.source)
    /\ FromPlan(s.deb, s.art, s.rev) /\ AsHashed(s.art)
    /\ \E p \in Plans : \E i \in DOMAIN p.arts : Like(p.arts[i], s.art)

LEMMA PinInit == Init => PinInv /\ ShippedInv
BY DEF Init, PinInv, ShippedInv

\* A fetch keeps the digests that the plan had.
LEMMA FetchKeepsHash ==
    ASSUME NilIsNoFunction, TypeInv, TreesInv, PinInv, Fetch, ~ Fail
    PROVE  AsHashed(art)'
<1> DEFINE got == remote[file.url]
           g == [file EXCEPT !.sha = got]
           s == art.assets
           t == [s EXCEPT ![at.file] = g]
<1>1. /\ pc = "fetch" /\ at.file \in DOMAIN s /\ File(file) /\ file = s[at.file]
  BY FileIs DEF Fetch, file
<1>2. VerifySHA256(file.sha, got) /\ art'.assets = t /\ SameArtifact(art, art')
  BY FetchIs
<1>3. g.sha = got
  BY <1>1 DEF File
<1>4. AsHashed(art)
  BY <1>1 DEF PinInv
<1> HIDE DEF g
<1>5. DOMAIN t = DOMAIN s /\ t[at.file] = g /\ \A i \in DOMAIN s : i # at.file => t[i] = s[i]
  BY <1>1
<1> HIDE DEF t
<1>6. s # <<>> /\ t # <<>>
  BY <1>1, <1>5
<1>7. ASSUME Pinned(art.hash) PROVE ArtifactAssetSHAs(t) = art.hash.shas
  <2> DEFINE shas == [i \in DOMAIN s |-> s[i].sha]
  <2>1. art.hash.shas = shas
    BY <1>4, <1>6, <1>7 DEF AsHashed, ArtifactAssetSHAs
  <2>2. DOMAIN shas = DOMAIN s /\ shas = [i \in DOMAIN shas |-> shas[i]]
    OBVIOUS
  <2>3. shas # Nil
    <3> HIDE DEF shas
    <3>1. QED BY <2>2 DEF NilIsNoFunction
  <2>4. shas[at.file] # Nil /\ shas[at.file] = file.sha
    BY <1>1, <1>7, <2>1, <2>2, <2>3 DEF Pinned
  <2>5. got = file.sha
    BY <1>2, <2>4 DEF VerifySHA256
  <2>6. \A i \in DOMAIN s : t[i].sha = s[i].sha
    BY <1>1, <1>3, <1>5, <2>5
  <2>7. ArtifactAssetSHAs(t) = [i \in DOMAIN t |-> t[i].sha]
    BY <1>6 DEF ArtifactAssetSHAs
  <2>8. QED BY <1>5, <2>1, <2>6, <2>7
<1>8. QED BY <1>2, <1>4, <1>7 DEF AsHashed, SameArtifact

LEMMA PinNext ==
    ASSUME NilIsNoFunction, TypeInv, TreesInv, PinInv, [Next]_vars
    PROVE  PinInv'
<1>1. \/ Verify /\ ~ Fail
      \/ Fetch /\ ~ Fail
      \/ Stage /\ pc' = "pack"
      \/ pc \in {"extract", "fetch"} /\ pc' \in {"extract", "fetch"} /\ UNCHANGED <<arts, run>>
         /\ at'.art = at.art
      \/ pc \in {"pack", "write"} /\ UNCHANGED <<trees, arts, run, at>>
         /\ pc' \in {"pack", "write", "idle"}
      \/ UNCHANGED <<trees, arts, run, at, pc>>
      \/ pc' \notin {"fetch", "extract", "pack", "write"}
  BY DEF TypeInv, Next, vars, position, Start, Refuse, Verify, Skip, Fetch, FetchFails, Extract,
     ExtractFails, Extracted, Stage, StageFails, PackOpens, PackFails, Pack, Finish, Crash,
     Republish, Fail, NextArtifact
<1>2. CASE Verify /\ ~ Fail
  <2>1. /\ pc' = "fetch" /\ UNCHANGED <<at, arts>> /\ VerifyBuildInputsHash(art)
    BY <1>2, VerifyIs
  <2>2. art.hash = ComputeBuildInputsHash(ArtifactAssetSHAs(art.assets), art.plan)
    BY <2>1 DEF VerifyBuildInputsHash
  <2>3. AsHashed(art) /\ art' = art
    BY <2>1, <2>2 DEF AsHashed, ComputeBuildInputsHash, art
  <2>4. QED BY <2>1, <2>3 DEF PinInv, AsHashed
<1>3. CASE Fetch /\ ~ Fail
  <2>1. pc' \notin {"pack", "write"}
    BY <1>3, FetchIs
  <2>2. QED BY <1>3, <2>1, FetchKeepsHash DEF PinInv
<1>4. CASE Stage /\ pc' = "pack"
  <2>1. /\ pc = "fetch" /\ UNCHANGED <<at, arts, run>> /\ Dir(art) \in DOMAIN trees
    BY <1>4, Working DEF Stage, NextArtifact
  <2>2. PICK t : /\ Staged(t) /\ t.aux = art.plan.aux.top /\ t.nfpm = NfpmYAML
                 /\ t.mtime = art.plan.epoch
    BY <1>4, StageIs
  <2>3. art' = art /\ Tree' = t /\ opts' = opts
    BY <2>1, <2>2, StagedIs DEF Tree, Dir, art, run
  <2>4. AsHashed(art) /\ FromPlan(t, art, opts.rev)
    BY <2>1, <2>2 DEF PinInv, FromPlan, NfpmYAML
  <2>5. QED BY <2>3, <2>4 DEF PinInv, AsHashed, FromPlan
<1>5. CASE pc \in {"extract", "fetch"} /\ pc' \in {"extract", "fetch"}
           /\ UNCHANGED <<arts, run>> /\ at'.art = at.art
  BY <1>5 DEF PinInv, AsHashed, art
<1>6. CASE pc \in {"pack", "write"} /\ UNCHANGED <<trees, arts, run, at>>
           /\ pc' \in {"pack", "write", "idle"}
  BY <1>6 DEF PinInv, AsHashed, FromPlan, Tree, Dir, art, run
<1>7. CASE UNCHANGED <<trees, arts, run, at, pc>>
  BY <1>7 DEF PinInv, AsHashed, FromPlan, Tree, Dir, art, run
<1>8. CASE pc' \notin {"fetch", "extract", "pack", "write"}
  BY <1>8 DEF PinInv
<1>9. QED BY <1>1, <1>2, <1>3, <1>4, <1>5, <1>6, <1>7, <1>8

LEMMA ShippedNext ==
    ASSUME TypeInv, PlanInv, TreesInv, FilesInv, PinInv, ShippedInv, [Next]_vars
    PROVE  ShippedInv'
<1>1. CASE UNCHANGED shipped
  BY <1>1 DEF ShippedInv
<1>2. CASE /\ Pack
           /\ shipped' = shipped \cup {[art |-> arts'[at.art], rev |-> opts.rev, deb |-> Tree]}
  <2>1. pc = "write" /\ at.art \in DOMAIN arts /\ at.art <= Len(arts) /\ Dir(art) \in DOMAIN trees
    BY <1>2, Working DEF Pack
  <2>2. PICK b : Annotated(b) /\ b.assets = art.assets
    BY <1>2, PackReports
  <2>3. arts'[at.art] = b
    BY <2>1, <2>2, AnnotatedIs
  <2>4. b.plan = art.plan /\ b.hash = art.hash
    BY <2>2 DEF Annotated, SameArtifact
  <2>5. IsTree(Tree) /\ IsFunction(Tree.asset) /\ IsFunction(Tree.source)
    BY <1>2, <2>1, PackFaithful DEF TreesInv, Tree
  <2>6. FromPlan(Tree, b, opts.rev) /\ AsHashed(b)
    BY <2>1, <2>2, <2>4 DEF PinInv, FromPlan, AsHashed
  <2>7. \E p \in Plans : \E i \in DOMAIN p.arts : Like(p.arts[i], b)
    <3>1. PICK p \in Plans : LikePlan(arts, p)
      BY <2>1 DEF PlanInv
    <3>2. Like(art, b)
      BY <2>2, SameIsLike DEF Annotated
    <3>3. at.art \in DOMAIN p.arts /\ Like(p.arts[at.art], b)
      BY <2>1, <3>1, <3>2, LikeTransitive DEF LikePlan, art
    <3>4. QED BY <3>3
  <2>8. QED BY <1>2, <2>3, <2>5, <2>6, <2>7 DEF ShippedInv
<1>3. QED BY <1>1, <1>2, ShippedIs

LEMMA FilesWithin ==
    ASSUME NEW f, NEW g, Files(f) \subseteq Files(g), NEW x \in DOMAIN f
    PROVE  x \in DOMAIN g /\ g[x] = f[x]
<1>1. <<x, f[x]>> \in Files(f)
  BY DEF Files
<1>2. PICK n \in DOMAIN g : <<x, f[x]>> = <<n, g[n]>>
  BY <1>1 DEF Files
<1>3. QED BY <1>2

LEMMA FilesAreFunction ==
    ASSUME NEW f, IsFunction(f), NEW g, IsFunction(g), Files(f) = Files(g)
    PROVE  f = g
<1>1. \A x \in DOMAIN f : x \in DOMAIN g /\ g[x] = f[x]
  BY FilesWithin
<1>2. \A x \in DOMAIN g : x \in DOMAIN f
  BY FilesWithin
<1>3. DOMAIN f = DOMAIN g
  BY <1>1, <1>2
<1>4. QED BY <1>1, <1>3 DEF IsFunction

LEMMA DeclaredSame ==
    ASSUME NEW s, NEW t, DOMAIN s = DOMAIN t, NEW dir,
           \A k \in DOMAIN s : /\ s[k].name = t[k].name /\ s[k].archive = t[k].archive
                               /\ s[k].dir = t[k].dir /\ s[k].sha = t[k].sha
                               /\ (s[k].url = Nil <=> t[k].url = Nil)
    PROVE  Declared(s, dir) = Declared(t, dir)
<1> DEFINE In(c) == {<<e.name, e.data>> : e \in {g \in
                        {EntriesOf[c][k] : k \in DOMAIN EntriesOf[c]} :
                           g.kind \in {"file", "link"}}}
           Told(f) == IF f.archive THEN In(f.sha) ELSE {<<f.name, f.sha>>}
<1>1. /\ Declared(s, dir) =
           UNION {Told(s[j]) : j \in {k \in DOMAIN s : s[k].dir = dir /\ s[k].url # Nil}}
      /\ Declared(t, dir) =
           UNION {Told(t[j]) : j \in {k \in DOMAIN t : t[k].dir = dir /\ t[k].url # Nil}}
  BY DEF Declared
<1> HIDE DEF In
<1>2. \A k \in DOMAIN s : Told(s[k]) = Told(t[k])
  OBVIOUS
<1> HIDE DEF Told
<1>3. QED BY <1>1, <1>2

LEMMA ShippedReproducible ==
    ASSUME FilesFollowHash, ShippedInv, Faithful PROVE Reproducible
<1> SUFFICES ASSUME NEW s \in shipped, NEW t \in shipped, s.art.hash = t.art.hash,
                    s.rev = t.rev, Pinned(s.art.hash)
             PROVE  s.deb = t.deb
  BY DEF Reproducible
<1> DEFINE a == s.art.assets
           b == t.art.assets
<1>1. /\ DOMAIN a = DOMAIN b
      /\ \A k \in DOMAIN a : a[k].name = b[k].name /\ a[k].archive = b[k].archive
                             /\ a[k].dir = b[k].dir /\ (a[k].url = Nil <=> b[k].url = Nil)
  <2>1. PICK p \in Plans : \E i \in DOMAIN p.arts : Like(p.arts[i], s.art)
    BY DEF ShippedInv
  <2>2. PICK i \in DOMAIN p.arts : Like(p.arts[i], s.art)
    BY <2>1
  <2>3. PICK q \in Plans : \E j \in DOMAIN q.arts : Like(q.arts[j], t.art)
    BY DEF ShippedInv
  <2>4. PICK j \in DOMAIN q.arts : Like(q.arts[j], t.art)
    BY <2>3
  <2>5. p.arts[i].hash = q.arts[j].hash
    BY <2>2, <2>4 DEF Like, SameArtifact
  <2>6. LET c == p.arts[i].assets
            d == q.arts[j].assets
        IN DOMAIN c = DOMAIN d /\ \A k \in DOMAIN c : c[k].name = d[k].name
                                      /\ c[k].archive = d[k].archive /\ c[k].dir = d[k].dir
                                      /\ (c[k].url = Nil <=> d[k].url = Nil)
    BY <2>5 DEF FilesFollowHash
  <2>7. QED BY <2>2, <2>4, <2>6 DEF Like, SameFile
<1>2. \A k \in DOMAIN a : a[k].sha = b[k].sha
  <2> SUFFICES ASSUME NEW k \in DOMAIN a PROVE a[k].sha = b[k].sha
    OBVIOUS
  <2>1. ArtifactAssetSHAs(a) = s.art.hash.shas /\ ArtifactAssetSHAs(b) = t.art.hash.shas
    BY DEF ShippedInv, AsHashed
  <2>2. a # <<>> /\ b # <<>>
    BY <1>1
  <2>3. [i \in DOMAIN a |-> a[i].sha] = [i \in DOMAIN b |-> b[i].sha]
    BY <2>1, <2>2 DEF ArtifactAssetSHAs
  <2>4. [i \in DOMAIN a |-> a[i].sha][k] = [i \in DOMAIN b |-> b[i].sha][k]
    BY <2>3
  <2>5. QED BY <1>1, <2>4
<1>3. \A dir : Declared(a, dir) = Declared(b, dir)
  BY <1>1, <1>2, DeclaredSame
<1>4. s.art.plan = t.art.plan
  BY DEF ShippedInv, AsHashed
<1>5. s.deb.asset = t.deb.asset
  <2>1. Files(s.deb["asset"]) = Files(t.deb["asset"])
    BY <1>3, <1>4, FaithfulIs
  <2>2. IsFunction(s.deb.asset) /\ IsFunction(t.deb.asset)
    BY DEF ShippedInv
  <2>3. QED BY <2>1, <2>2, FilesAreFunction
<1>6. s.deb.source = t.deb.source
  <2>1. Files(s.deb["source"]) = Files(t.deb["source"])
    BY <1>3, <1>4, FaithfulIs
  <2>2. IsFunction(s.deb.source) /\ IsFunction(t.deb.source)
    BY DEF ShippedInv
  <2>3. QED BY <2>1, <2>2, FilesAreFunction
<1>7. s.deb.aux = t.deb.aux /\ s.deb.nfpm = t.deb.nfpm /\ s.deb.mtime = t.deb.mtime
  <2>1. FromPlan(s.deb, s.art, s.rev) /\ FromPlan(t.deb, t.art, t.rev)
    BY DEF ShippedInv
  <2>2. QED BY <1>4, <2>1 DEF FromPlan
<1>8. IsTree(s.deb) /\ IsTree(t.deb)
  BY DEF ShippedInv
<1>9. \A k \in TreeParts : s.deb[k] = t.deb[k]
  BY <1>5, <1>6, <1>7 DEF TreeParts
<1>10. QED BY <1>8, <1>9 DEF IsTree

\* Two builds of one inputs hash under one revision give the same .deb, if the
\* plan had the digest of every file, whatever the servers served meanwhile and
\* whatever other builds left, provided the hash settles the names of the
\* files, and which of them have a URL, neither of which it covers.
THEOREM SameHashSameDeb ==
    ASSUME KeysApart, NamesApart, FilesFollowHash, NilIsNoFunction
    PROVE  Spec => []Reproducible
<1> DEFINE IInv == /\ TypeInv /\ PlanInv /\ TreesInv /\ ArchiveInv /\ DirsInv /\ FilesInv
                   /\ Faithful /\ PinInv /\ ShippedInv
<1>1. Init => IInv
  BY TypeInit, PlanInit, TreesInit, ArchiveInit, DirsInit, FilesInit, PinInit
     DEF Init, Faithful
<1>2. IInv /\ [Next]_vars => IInv'
  BY KeysApart, NamesApart, NilIsNoFunction, NamesKept, TypeNext, PlanNext, TreesNext,
     ArchiveNext, DirsNext, FilesNext, FaithfulNext, PinNext, ShippedNext
<1>3. IInv => Reproducible
  BY FilesFollowHash, ShippedReproducible
<1>4. QED BY <1>1, <1>2, <1>3, PTL DEF Spec

=============================================================================
