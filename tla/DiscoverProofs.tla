---------------------------- MODULE DiscoverProofs ----------------------------
(***************************************************************************)
(* Proofs about the discovers, for any configurations, recipes, vendors    *)
(* and files, and any number of runs, edits and publications.              *)
(***************************************************************************)
EXTENDS DiscoverTools, TLAPS, SequenceTheorems, FiniteSetTheorems

-----------------------------------------------------------------------------
(* Lists.                                                                  *)

LEMMA ListIs ==
    ASSUME NEW s, List(s)
    PROVE  Len(s) \in Nat /\ DOMAIN s = 1..Len(s) /\ (s = <<>> <=> Len(s) = 0)
<1>1. s \in Seq({s[i] : i \in DOMAIN s})
  BY DEF List
<1>2. QED BY <1>1, LenProperties, EmptySeq

LEMMA ListOf ==
    ASSUME NEW S, NEW s \in Seq(S)
    PROVE  List(s)
<1> DEFINE R == {s[i] : i \in DOMAIN s}
<1>1. Len(s) \in Nat /\ s \in [1..Len(s) -> S] /\ DOMAIN s = 1..Len(s)
  BY LenProperties
<1>2. s \in [1..Len(s) -> R]
  BY <1>1
<1> HIDE DEF R
<1>3. s \in UNION {[1..n -> R] : n \in Nat}
  BY <1>1, <1>2
<1>4. s \in Seq(R)
  BY <1>3, SeqDef, Zenon
<1>5. QED BY <1>4 DEF List, R

LEMMA ListTail ==
    ASSUME NEW s, List(s), s # <<>>
    PROVE  /\ List(Tail(s)) /\ Len(Tail(s)) = Len(s) - 1 /\ Head(s) = s[1]
           /\ 1 \in DOMAIN s
           /\ \A i \in DOMAIN Tail(s) : i \in Nat /\ i + 1 \in DOMAIN s /\ Tail(s)[i] = s[i + 1]
<1> DEFINE S == {s[i] : i \in DOMAIN s}
<1>1. s \in Seq(S)
  BY DEF List
<1> HIDE DEF S
<1>2. /\ Tail(s) \in Seq(S) /\ Len(Tail(s)) = Len(s) - 1
      /\ \A i \in 1..Len(Tail(s)) : Tail(s)[i] = s[i + 1]
  BY <1>1, HeadTailProperties
<1>3. Len(s) \in Nat \ {0} /\ DOMAIN s = 1..Len(s) /\ DOMAIN Tail(s) = 1..Len(Tail(s))
  BY <1>1, <1>2, LenProperties, EmptySeq
<1>4. Head(s) = s[1]
  BY <1>1
<1>5. List(Tail(s))
  BY <1>2, ListOf
<1>6. QED BY <1>2, <1>3, <1>4, <1>5

LEMMA ListAppend ==
    ASSUME NEW s, List(s), NEW x
    PROVE  /\ List(Append(s, x)) /\ Len(Append(s, x)) = Len(s) + 1
           /\ DOMAIN Append(s, x) = DOMAIN s \cup {Len(s) + 1}
           /\ \A i \in DOMAIN s : i # Len(s) + 1 /\ Append(s, x)[i] = s[i]
           /\ Append(s, x)[Len(s) + 1] = x
<1> DEFINE S == {s[i] : i \in DOMAIN s} \cup {x}
<1>1. s \in Seq(S) /\ x \in S
  BY SeqMonotonic DEF List
<1> HIDE DEF S
<1>2. /\ Append(s, x) \in Seq(S) /\ Len(Append(s, x)) = Len(s) + 1
      /\ \A i \in 1..Len(s) : Append(s, x)[i] = s[i]
      /\ Append(s, x)[Len(s) + 1] = x
  BY <1>1, AppendProperties
<1>3. Len(s) \in Nat /\ DOMAIN s = 1..Len(s) /\ DOMAIN Append(s, x) = 1..(Len(s) + 1)
  BY <1>1, <1>2, LenProperties
<1>4. List(Append(s, x))
  BY <1>2, ListOf
<1>5. QED BY <1>2, <1>3, <1>4

LEMMA NothingIsEmpty == ASSUME NEW s, List(s), DOMAIN s = {} PROVE s = <<>>
<1>1. Len(s) \in Nat /\ 1..Len(s) = {} /\ (s = <<>> <=> Len(s) = 0)
  BY ListIs
<1>2. QED BY <1>1

LEMMA EmptyIsList == List(<<>>) /\ Len(<<>>) = 0 /\ DOMAIN <<>> = {}
BY EmptySeq DEF List

LEMMA OneIsList == ASSUME NEW x PROVE List(<<x>>) /\ Len(<<x>>) = 1 /\ DOMAIN <<x>> = {1} /\ <<x>>[1] = x
<1>1. <<x>> \in Seq({x}) /\ Len(<<x>>) = 1 /\ <<x>>[1] = x
  OBVIOUS
<1>2. DOMAIN <<x>> = {1}
  BY <1>1, LenProperties
<1>3. List(<<x>>)
  BY <1>1, ListOf
<1>4. QED BY <1>1, <1>2, <1>3

\* A list of different elements has each of them once.
LEMMA DistinctIs ==
    ASSUME NEW n \in Nat, NEW s, DOMAIN s = 1..n, s = [i \in 1..n |-> s[i]], Distinct(s),
           NEW i \in 1..n, NEW j \in 1..n, s[i] = s[j]
    PROVE  i = j
<1> DEFINE S == {s[k] : k \in DOMAIN s}
<1>1. s \in [1..n -> S] /\ s \in Surjection(1..n, S)
  BY DEF Surjection
<1>2. IsFiniteSet(1..n) /\ Cardinality(1..n) = n
  BY FS_Interval
<1>3. Cardinality(S) = Len(s)
  BY DEF Distinct
<1> HIDE DEF S
<1>4. s \in UNION {[1..m -> S] : m \in Nat}
  BY <1>1
<1>5. s \in Seq(S)
  BY <1>4, SeqDef, Zenon
<1>6. Len(s) = n
  <2>1. Len(s) \in Nat /\ 1..Len(s) = 1..n
    BY <1>5, LenProperties
  <2>2. QED BY <2>1
<1>7. s \in Injection(1..n, S)
  BY <1>1, <1>2, <1>3, <1>6, FS_Surjection
<1>8. QED BY <1>7 DEF Injection, IsInjective

-----------------------------------------------------------------------------
(* What a recipe computes: errors, and digests.                            *)

\* An error, but none of those that validation rules out.
Expected(r) == r.err # "bug"

LEMMA OkIs == \A v : Ok(v).err = "" /\ Ok(v).val = v
BY DEF Ok

LEMMA ErrIs == \A k : Err(k).err = k
BY DEF Err

LEMMA FirstExpected == \A rels : Expected(First(rels))
BY OkIs, ErrIs DEF First, Expected

\* A release selector that is validated selects in one of three ways.
LEMMA SelectorIs ==
    ASSUME NEW w, validateRelease(w)
    PROVE  \/ w.tag # Nil
           \/ w.tag = Nil /\ w.latest # Nil
           \/ w.tag = Nil /\ w.latest = Nil /\ w.pattern # Nil
<1> DEFINE F == {f \in {"latest", "pattern", "tag"} : w[f] # Nil}
<1>1. SUFFICES ASSUME w.tag = Nil, w.latest = Nil, w.pattern = Nil PROVE FALSE
  OBVIOUS
<1>2. F = {}
  BY <1>1
<1>3. Cardinality(F) = 1
  BY DEF validateRelease
<1>4. Cardinality({}) = 0
  BY FS_EmptySet
<1>5. QED BY <1>2, <1>3, <1>4

LEMMA ReleaseExpected ==
    ASSUME NEW r, NEW rels, validateRelease(ReleaseOf(r))
    PROVE  Expected(ResolveRelease(r, rels))
<1> DEFINE w == ReleaseOf(r)
<1>1. \/ w.tag # Nil
      \/ w.tag = Nil /\ w.latest # Nil
      \/ w.tag = Nil /\ w.latest = Nil /\ w.pattern # Nil
  BY SelectorIs
<1> HIDE DEF w
<1>2. QED BY <1>1, FirstExpected DEF ResolveRelease, w

LEMMA CurlyExpected == \A t, s : Expected(applyCurly(t, s))
BY OkIs, ErrIs DEF applyCurly, Expected

LEMMA CapturedExpected == \A r, rel : Expected(Captured(r, rel))
BY OkIs, ErrIs DEF Captured, Expected

\* A version that a validated recipe selects from a release, or cannot.
LEMMA VersionExpected ==
    ASSUME NEW r, NEW rel, Forge(r), validateVersionSelection(r)
    PROVE  Expected(Assemble(r, rel))
<1>1. /\ r.from \in {"tag", "tag_strip_v", "asset_filename", "fixed"}
      /\ r.from = "fixed" => r.template # Nil
  BY DEF validateVersionSelection
<1>2. \A subs, capture : Expected(Chosen(r, subs, capture))
  BY <1>1, OkIs, ErrIs, CurlyExpected DEF Chosen, Expected
<1>3. QED BY <1>2, OkIs, ErrIs, CapturedExpected DEF Assemble, Expected

LEMMA StrippedExpected == \A r, v : Expected(Stripped(r, v))
BY OkIs, ErrIs DEF Stripped, Expected

LEMMA LoadedIs ==
    ASSUME NEW r, LoadPackage(r)
    PROVE  /\ validateVersionSelection(r) /\ validateArches(r) /\ validateExtract(r.extract)
           /\ Forge(r) => validateRelease(ReleaseOf(r))
           /\ r.sources \cap Kinds # {}
           /\ r.docs # <<>> /\ r.archNames # <<>>
           /\ Distinct([i \in DOMAIN r.docs |-> r.docs[i].name])
<1>1. r.sources \subseteq Kinds /\ Cardinality(r.sources) = 1
  BY DEF LoadPackage, Valid, validateSource
<1>2. r.sources # {}
  BY <1>1, FS_EmptySet
<1>3. r.archNames # <<>>
  BY DEF LoadPackage, Valid, validateArches
<1>4. QED BY <1>1, <1>2, <1>3 DEF LoadPackage, Valid, validateSource

\* A recipe that loads resolves, or fails for the vendor's reasons.
LEMMA SourceExpected ==
    ASSUME NEW r, LoadPackage(r), NEW answer
    PROVE  Expected(ResolveSource(r, answer))
<1>1. r.sources \cap Kinds # {}
  BY LoadedIs
<1>2. CASE Forge(r)
  <2> DEFINE rel == ResolveRelease(r, answer)
             v == Assemble(r, rel.val)
  <2>1. Expected(rel) /\ Expected(v)
    BY <1>2, LoadedIs, ReleaseExpected, VersionExpected
  <2> HIDE DEF rel, v
  <2>2. ResolveSource(r, answer) =
           IF rel.err # "" THEN rel ELSE IF v.err # "" THEN v
           ELSE Resolution(rel.val, v.val, rel.val.date)
    BY <1>1, <1>2 DEF ResolveSource, rel, v
  <2>3. QED BY <2>1, <2>2, OkIs DEF Resolution, Expected
<1>3. CASE ~Forge(r)
  BY <1>1, <1>3, OkIs, ErrIs, StrippedExpected DEF ResolveSource, Resolution, Expected
<1>4. QED BY <1>2, <1>3

\* The digests that go into the hash, as SHAs has them for the unit at hand.
DigestsOf(r, assets) ==
    IF Forge(r) THEN ArtifactAssetSHAs(assets)
    ELSE IF r.sources = {"external"} THEN <<assets[1].sha>>
    ELSE [i \in DOMAIN assets |-> Nil]

LEMMA RenderedIs ==
    ASSUME NEW t, NEW v, NEW body, RenderAssetURLs(t, v, body).err = ""
    PROVE  /\ DOMAIN RenderAssetURLs(t, v, body).val = DOMAIN t
           /\ \A i \in DOMAIN t : RenderAssetURLs(t, v, body).val[i].sha = Nil
<1> DEFINE us == [i \in DOMAIN t |-> RenderAssetURL(t[i], v, body)]
<1>1. RenderAssetURLs(t, v, body) =
         IF (\E i \in DOMAIN us : us[i].err # "") \/ ~Distinct([i \in DOMAIN us |-> us[i].val.name])
         THEN Err("discovery") ELSE Ok([i \in DOMAIN us |-> AssetOf(us[i].val, Nil)])
  BY DEF RenderAssetURLs
<1>2. DOMAIN us = DOMAIN t
  OBVIOUS
<1> HIDE DEF us
<1>3. RenderAssetURLs(t, v, body).val = [i \in DOMAIN us |-> AssetOf(us[i].val, Nil)]
  <2>1. "discovery" # ""
    OBVIOUS
  <2>2. QED BY <1>1, <2>1, OkIs, ErrIs
<1>4. \A i \in DOMAIN us : AssetOf(us[i].val, Nil).sha = Nil
  BY DEF AssetOf
<1>5. QED BY <1>2, <1>3, <1>4

LEMMA OneIs == ASSUME NEW f, DOMAIN f = {1}, f = [i \in {1} |-> f[i]] PROVE f = <<f[1]>>
OBVIOUS

LEMMA ScriptedIs ==
    ASSUME NEW t, NEW v, NEW a, ExternalAsset(t, v, a).err = ""
    PROVE  ExternalAsset(t, v, a).val = <<AssetOf(a.url, a.sha)>>
BY OkIs, ErrIs DEF ExternalAsset

\* build computes the hash from the assets of the plan; discover has it from the
\* source.  They agree because a recipe without a forge or a script has URLs.
LEMMA DigestsAgree ==
    ASSUME NEW r, LoadPackage(r), NEW n \in DOMAIN r.arches, List(r.arches[n].urls),
           NEW res, AssetsOf(r, n, res).err = ""
    PROVE  DigestsOf(r, AssetsOf(r, n, res).val) = ArtifactAssetSHAs(AssetsOf(r, n, res).val)
<1> DEFINE a == r.arches[n]
           assets == AssetsOf(r, n, res).val
<1>1. CASE Forge(r)
  BY <1>1 DEF DigestsOf
<1>2. CASE ~Forge(r) /\ r.sources = {"external"}
  <2> DEFINE e == Head(SelectSeq(res.body.assets, LAMBDA x : x.arch = n))
  <2>1. AssetsOf(r, n, res) = ExternalAsset(a.urls, res.version, e)
    BY <1>2 DEF AssetsOf
  <2> HIDE DEF e, a
  <2>2. ExternalAsset(a.urls, res.version, e).err = ""
    BY <2>1
  <2>6. ExternalAsset(a.urls, res.version, e).val = <<AssetOf(e.url, e.sha)>>
    BY <2>2, ScriptedIs
  <2>7. assets = <<AssetOf(e.url, e.sha)>>
    BY <2>1, <2>6
  <2> HIDE DEF assets
  <2>3. DOMAIN assets = {1} /\ assets # <<>>
    BY <2>7, OneIsList, EmptyIsList
  <2>4. [i \in DOMAIN assets |-> assets[i].sha] = <<assets[1].sha>>
    <3> DEFINE f == [i \in DOMAIN assets |-> assets[i].sha]
    <3>1. DOMAIN f = {1} /\ f = [i \in {1} |-> f[i]] /\ f[1] = assets[1].sha
      BY <2>3
    <3> HIDE DEF f
    <3>2. f = <<f[1]>>
      BY <3>1, OneIs
    <3>3. QED BY <3>1, <3>2 DEF f
  <2>5. QED BY <1>2, <2>3, <2>4 DEF DigestsOf, ArtifactAssetSHAs, assets
<1>3. CASE ~Forge(r) /\ r.sources # {"external"}
  <2>1. AssetsOf(r, n, res) = RenderAssetURLs(a.urls, res.version, res.body)
    BY <1>3 DEF AssetsOf
  <2> HIDE DEF a
  <2>5. RenderAssetURLs(a.urls, res.version, res.body).err = ""
    BY <2>1
  <2>6. /\ DOMAIN RenderAssetURLs(a.urls, res.version, res.body).val = DOMAIN a.urls
        /\ \A i \in DOMAIN a.urls : RenderAssetURLs(a.urls, res.version, res.body).val[i].sha = Nil
    <3> DEFINE t == a.urls
               v == res.version
               body == res.body
    <3>1. RenderAssetURLs(t, v, body).err = ""
      BY <2>5
    <3> HIDE DEF t, v, body
    <3>2. /\ DOMAIN RenderAssetURLs(t, v, body).val = DOMAIN t
          /\ \A i \in DOMAIN t : RenderAssetURLs(t, v, body).val[i].sha = Nil
      BY <3>1, RenderedIs
    <3>3. QED BY <3>2 DEF t, v, body
  <2>2. DOMAIN assets = DOMAIN a.urls /\ \A i \in DOMAIN assets : assets[i].sha = Nil
    BY <2>1, <2>6
  <2>3. a.urls # <<>>
    BY <1>3, LoadedIs DEF validateArches, a
  <2> HIDE DEF assets
  <2>4. assets # <<>>
    <3>1. SUFFICES ASSUME assets = <<>> PROVE FALSE
      OBVIOUS
    <3>2. DOMAIN a.urls = {}
      BY <2>2, <3>1, EmptyIsList
    <3>3. List(a.urls)
      BY DEF a
    <3>4. QED BY <2>3, <3>2, <3>3, NothingIsEmpty
  <2>7. QED BY <1>3, <2>2, <2>4 DEF DigestsOf, ArtifactAssetSHAs, assets
<1>4. QED BY <1>1, <1>2, <1>3

LEMMA AssetsExpected == \A r, n, res : Expected(AssetsOf(r, n, res))
<1> SUFFICES ASSUME NEW r, NEW n, NEW res PROVE Expected(AssetsOf(r, n, res))
  OBVIOUS
<1> DEFINE a == r.arches[n]
           found == MatchAssets(res.body, a.assets, res.version)
           e == Head(SelectSeq(res.body.assets, LAMBDA x : x.arch = n))
<1>1. Expected(found)
  <2> DEFINE Named(i) == SelectSeq(res.body.assets, LAMBDA x : x.name = Subst(a.assets[i], res.version))
             all == [i \in DOMAIN a.assets |-> Named(i)]
             single == /\ \A i \in DOMAIN all : Len(all[i]) = 1
                       /\ Distinct([i \in DOMAIN all |-> all[i][1].name])
             firsts == [i \in DOMAIN all |-> all[i][1]]
  <2>1. found = IF single THEN Ok(firsts) ELSE Err("discovery")
    BY DEF MatchAssets
  <2> HIDE DEF found, single, firsts
  <2>2. QED BY <2>1, OkIs, ErrIs DEF Expected
<1>2. Expected(ExternalAsset(a.urls, res.version, e))
  BY OkIs, ErrIs DEF ExternalAsset, Expected
<1>3. Expected(RenderAssetURLs(a.urls, res.version, res.body))
  BY OkIs, ErrIs DEF RenderAssetURLs, Expected
<1>4. \/ AssetsOf(r, n, res) = found
      \/ AssetsOf(r, n, res).err = ""
      \/ AssetsOf(r, n, res) = ExternalAsset(a.urls, res.version, e)
      \/ AssetsOf(r, n, res) = RenderAssetURLs(a.urls, res.version, res.body)
  BY OkIs DEF AssetsOf
<1>5. QED BY <1>1, <1>2, <1>3, <1>4 DEF Expected

LEMMA DocumentExpected == \A d, n, v, vars_ : Expected(SubstituteNfpm(d, n, v, vars_))
BY OkIs, ErrIs DEF SubstituteNfpm, Expected

LEMMA FilesExpected == \A refs, files, vs : Expected(MaterializeAuxFiles(refs, files, vs))
BY OkIs, ErrIs DEF MaterializeAuxFiles, Expected

LEMMA WalkExpected == \A d, files : Expected(Walk(d, files))
BY OkIs, ErrIs DEF Walk, Expected

-----------------------------------------------------------------------------
(* Types, and where a run is.                                              *)

\* The units that are answered for.
index == Len(config.units) - Len(todo)

PathsApart == \A i, j \in DOMAIN config.units :
    config.units[i].path = config.units[j].path => i = j

\* The document and the architecture at hand.
PairAtHand ==
    /\ DOMAIN cur = {"refs", "res", "doc", "arch", "arts"}
    /\ cur.doc \in DOMAIN unit.docs /\ cur.arch \in DOMAIN unit.archNames
    /\ List(cur.arts) /\ Len(cur.arts) = cur.arch - 1

\* TypeOK, with what is left of the configuration, and what was checked of it.
TypeInv ==
    /\ config \in Configs
    /\ DOMAIN net = config.urls /\ \A u \in config.urls : net[u] \in Offers[u]
    /\ pc \in {"idle", "load", "resolve", "artifacts", "epoch", "read", "keys"}
    /\ exit \in {"none", "ok", "error"}
    /\ runs \in 0..MaxRuns /\ changes \in 0..MaxChanges
    /\ List(plan) /\ List(todo) /\ index \in Nat
    /\ \A i \in DOMAIN todo : index + i \in DOMAIN config.units /\ todo[i] = config.units[index + i]
    /\ pc \notin {"idle", "load"} => todo # <<>>
    /\ pc = "idle" => todo = <<>>
    /\ pc # "idle" => PathsApart
    /\ pc \in {"resolve", "artifacts"} => config.tool = "cooper" /\ LoadPackage(unit)
    /\ pc = "artifacts" => PairAtHand
    /\ pc \in {"epoch", "read"} => config.tool = "staves"
    /\ pc = "keys" => config.tool = "chandler"

LEMMA TypeInvOK == TypeInv => TypeOK
BY DEF TypeInv, TypeOK, PairAtHand

LEMMA ConfigIs ==
    ASSUME TypeInv
    PROVE  /\ config.tool \in {"cooper", "staves", "chandler"} /\ List(config.units)
           /\ \A i \in DOMAIN config.units :
                 /\ config.tool = "cooper" => Recipe(config.units[i], config)
                 /\ config.tool = "chandler" => Target(config.units[i])
BY DiscoverAssumption DEF TypeInv

LEMMA UnitIs ==
    ASSUME TypeInv, todo # <<>>
    PROVE  index + 1 \in DOMAIN config.units /\ unit = config.units[index + 1]
BY ListTail DEF TypeInv, unit

LEMMA TypeInit == Init => TypeInv
<1> SUFFICES ASSUME Init PROVE TypeInv
  OBVIOUS
<1>1. config \in Configs /\ List(config.units)
  BY DiscoverAssumption DEF Init
<1>2. Len(config.units) \in Nat /\ Len(todo) = 0 /\ List(todo) /\ List(plan) /\ DOMAIN todo = {}
  BY <1>1, ListIs, EmptyIsList DEF Init
<1>3. index \in Nat
  BY <1>2 DEF index
<1>4. DOMAIN net = config.urls /\ \A u \in config.urls : net[u] \in Offers[u]
  BY DEF Init
<1>5. runs \in 0..MaxRuns /\ changes \in 0..MaxChanges
  BY DiscoverAssumption DEF Init
<1>6. pc = "idle" /\ exit = "none" /\ todo = <<>>
  BY DEF Init
<1>7. QED BY <1>1, <1>2, <1>3, <1>4, <1>5, <1>6 DEF TypeInv

\* The plan only grows, by one package or none.
LEMMA ReportIs ==
    ASSUME List(plan), NEW pkg, Report(pkg)
    PROVE  /\ List(plan')
           /\ \/ plan' = plan
              \/ /\ plan' = Append(plan, pkg) /\ DOMAIN plan' = DOMAIN plan \cup {Len(plan) + 1}
                 /\ plan'[Len(plan) + 1] = pkg
                 /\ \A i \in DOMAIN plan : i # Len(plan) + 1 /\ plan'[i] = plan[i]
           /\ config.filter = Nil => plan' = Append(plan, pkg)
BY ListAppend DEF Report, Wanted

\* A unit is answered for, and the next one is at hand.
LEMMA AnswerType ==
    ASSUME TypeInv, pc # "idle", todo # <<>>, NEW pkg, Answer(pkg)
    PROVE  TypeInv' /\ index' = index + 1 /\ pc' = "load"
<1>1. /\ todo' = Tail(todo) /\ pc' = "load" /\ config' = config /\ net' = net /\ changes' = changes
      /\ exit' = exit /\ runs' = runs /\ Report(pkg)
  BY DEF Answer, world
<1>2. /\ List(todo') /\ Len(todo') = Len(todo) - 1
      /\ \A i \in DOMAIN todo' : i \in Nat /\ i + 1 \in DOMAIN todo /\ todo'[i] = todo[i + 1]
  BY <1>1, ListTail DEF TypeInv
<1>3. Len(todo) \in Nat /\ Len(config.units) \in Nat
  BY ListIs, ConfigIs DEF TypeInv
<1>4. index' = index + 1 /\ index' \in Nat
  BY <1>1, <1>2, <1>3 DEF index, TypeInv
<1>5. \A i \in DOMAIN todo' : index' + i \in DOMAIN config.units /\ todo'[i] = config.units[index' + i]
  <2>1. SUFFICES ASSUME NEW i \in DOMAIN todo'
                 PROVE  index' + i \in DOMAIN config.units /\ todo'[i] = config.units[index' + i]
    OBVIOUS
  <2>2. i \in Nat /\ index \in Nat /\ index' + i = index + (i + 1)
    BY <1>2, <1>4, <2>1 DEF TypeInv
  <2>3. i + 1 \in DOMAIN todo /\ todo'[i] = todo[i + 1]
    BY <1>2, <2>1
  <2>4. QED BY <2>2, <2>3 DEF TypeInv
<1>6. List(plan')
  BY <1>1, ReportIs DEF TypeInv
<1>7. PathsApart'
  BY <1>1 DEF TypeInv, PathsApart
<1>8. QED BY <1>1, <1>2, <1>4, <1>5, <1>6, <1>7 DEF TypeInv

\* The step leaves the world, the configuration and what is left of it alone.
Staying == UNCHANGED <<config, net, changes, todo, exit, runs>>

LEMMA StayType ==
    ASSUME TypeInv, Staying, List(plan'), todo # <<>>, pc # "idle",
           \/ pc' = "resolve" /\ config.tool = "cooper" /\ LoadPackage(unit)
           \/ pc' = "artifacts" /\ config.tool = "cooper" /\ LoadPackage(unit) /\ PairAtHand'
           \/ pc' \in {"epoch", "read"} /\ config.tool = "staves"
           \/ pc' = "keys" /\ config.tool = "chandler"
    PROVE  TypeInv'
<1>1. unit' = unit /\ index' = index /\ (PathsApart' <=> PathsApart) /\ (LoadPackage(unit)' <=> LoadPackage(unit))
  BY DEF Staying, unit, index, PathsApart
<1>2. pc' \in {"resolve", "artifacts", "epoch", "read", "keys"}
  OBVIOUS
<1>3. (LoadPackage(unit)' <=> LoadPackage(unit'))
  OBVIOUS
<1>4. QED BY <1>1, <1>2, <1>3 DEF TypeInv, Staying

LEMMA ContinueStays == ASSUME NEW w, NEW c, Continue(w, c) PROVE Staying /\ plan' = plan /\ emitted' = emitted
BY DEF Continue, Staying, world

LEMMA PathsAreApart ==
    ASSUME TypeInv, Distinct([i \in DOMAIN config.units |-> config.units[i].path])
    PROVE  PathsApart
<1> DEFINE n == Len(config.units)
           s == [i \in DOMAIN config.units |-> config.units[i].path]
<1>1. n \in Nat /\ DOMAIN config.units = 1..n
  BY ListIs, ConfigIs
<1>2. DOMAIN s = 1..n /\ s = [i \in 1..n |-> s[i]] /\ Distinct(s)
  BY <1>1
<1>3. \A i \in 1..n : s[i] = config.units[i].path
  BY <1>1
<1> HIDE DEF s, n
<1>4. SUFFICES ASSUME NEW i \in 1..n, NEW j \in 1..n, s[i] = s[j] PROVE i = j
  BY <1>1, <1>3 DEF PathsApart
<1>5. QED BY <1>1, <1>2, <1>4, DistinctIs

\* A run that starts has looked at the paths.
LEMMA BeginType ==
    ASSUME TypeInv, NEW accepted \in BOOLEAN, Begin(accepted), accepted => PathsApart
    PROVE  TypeInv'
<1>1. UNCHANGED <<config, net, changes>> /\ plan' = <<>> /\ runs' = runs + 1 /\ runs < MaxRuns
  BY DEF Begin, world
<1>2. runs' \in 0..MaxRuns
  BY <1>1, DiscoverAssumption DEF TypeInv
<1>3. List(config.units) /\ Len(config.units) \in Nat /\ List(plan')
  BY <1>1, ListIs, ConfigIs, EmptyIsList
<1>4. CASE accepted
  <2>1. pc' = "load" /\ todo' = config.units /\ exit' = "none"
    BY <1>4 DEF Begin
  <2>2. index' = 0
    BY <1>1, <1>3, <2>1 DEF index
  <2>3. \A i \in DOMAIN todo' : i \in Nat
    BY <1>3, <2>1, ListIs
  <2>4. /\ List(todo') /\ index' \in Nat
        /\ \A i \in DOMAIN todo' : index' + i \in DOMAIN config.units /\ todo'[i] = config.units[index' + i]
    BY <1>3, <2>1, <2>2, <2>3
  <2>5. PathsApart'
    BY <1>1, <1>4 DEF PathsApart
  <2>6. QED BY <1>1, <1>2, <1>3, <2>1, <2>4, <2>5 DEF TypeInv
<1>5. CASE ~accepted
  <2>1. pc' = "idle" /\ todo' = <<>> /\ exit' = "error"
    BY <1>5 DEF Begin
  <2>2. Len(todo') = 0 /\ List(todo') /\ DOMAIN todo' = {}
    BY <2>1, EmptyIsList
  <2>3. index' \in Nat
    BY <1>1, <1>3, <2>2 DEF index
  <2>4. QED BY <1>1, <1>2, <1>3, <2>1, <2>2, <2>3 DEF TypeInv
<1>6. QED BY <1>4, <1>5

\* The document at hand is answered for, and the next one or the next unit is.
LEMMA DoneIs ==
    ASSUME TypeInv, pc = "artifacts", NEW pkg, Done(pkg)
    PROVE  \/ cur.doc = Len(unit.docs) /\ Answer(pkg)
           \/ /\ cur.doc # Len(unit.docs) /\ cur.doc + 1 \in DOMAIN unit.docs
              /\ Report(pkg) /\ Staying /\ pc' = pc /\ PairAtHand' /\ emitted' = emitted
              /\ cur'.doc = cur.doc + 1 /\ cur'.refs = cur.refs /\ cur'.res = cur.res
              /\ cur'.arch = 1 /\ cur'.arts = <<>>
<1>1. CASE cur.doc = Len(unit.docs)
  BY <1>1 DEF Done
<1>2. CASE cur.doc # Len(unit.docs)
  <2>1. /\ Report(pkg) /\ Staying /\ pc' = pc /\ emitted' = emitted
        /\ cur' = [cur EXCEPT !.doc = cur.doc + 1, !.arch = 1, !.arts = <<>>]
    BY <1>2 DEF Done, Staying, world
  <2>2. /\ DOMAIN cur' = {"refs", "res", "doc", "arch", "arts"}
        /\ cur'.doc = cur.doc + 1 /\ cur'.refs = cur.refs /\ cur'.res = cur.res
        /\ cur'.arch = 1 /\ cur'.arts = <<>>
    BY <2>1 DEF TypeInv, PairAtHand
  <2>3. unit' = unit
    BY <2>1 DEF Staying, unit
  <2>4. Recipe(unit, config)
    BY UnitIs, ConfigIs DEF TypeInv
  <2>5. cur.doc + 1 \in DOMAIN unit.docs
    <3>1. cur.doc \in 1..Len(unit.docs) /\ DOMAIN unit.docs = 1..Len(unit.docs) /\ Len(unit.docs) \in Nat
      BY <2>4, ListIs DEF TypeInv, PairAtHand, Recipe
    <3>2. QED BY <1>2, <3>1
  <2>6. 1 \in DOMAIN unit.archNames
    BY <2>4, ListTail, LoadedIs DEF TypeInv, Recipe
  <2>7. PairAtHand'
    BY <2>2, <2>3, <2>5, <2>6, EmptyIsList DEF PairAtHand
  <2>8. QED BY <1>2, <2>1, <2>2, <2>5, <2>7
<1>3. QED BY <1>1, <1>2

LEMMA DoneType ==
    ASSUME TypeInv, pc = "artifacts", NEW pkg, Done(pkg)
    PROVE  TypeInv'
<1>1. todo # <<>> /\ pc # "idle"
  BY DEF TypeInv
<1>2. CASE cur.doc = Len(unit.docs) /\ Answer(pkg)
  BY <1>1, <1>2, AnswerType
<1>3. CASE Report(pkg) /\ Staying /\ pc' = pc /\ PairAtHand'
  <2>1. List(plan')
    BY <1>3, ReportIs DEF TypeInv
  <2>2. config.tool = "cooper" /\ LoadPackage(unit)
    BY DEF TypeInv
  <2>3. QED BY <1>1, <1>3, <2>1, <2>2, StayType
<1>4. QED BY <1>2, <1>3, DoneIs

-----------------------------------------------------------------------------
(* What an artifact of a recipe is made from.                              *)

\* Files that were read, their templates rendered with vs.
Rendered(aux, vs) ==
    aux = [f \in DOMAIN aux |-> [body |-> aux[f].body, vars |-> IF f[2] THEN vs ELSE Nil]]

LEMMA FilesAre ==
    ASSUME NEW refs, NEW files, NEW vs, MaterializeAuxFiles(refs, files, vs).err = ""
    PROVE  /\ Rendered(MaterializeAuxFiles(refs, files, vs).val, vs)
           /\ DOMAIN MaterializeAuxFiles(refs, files, vs).val = refs
<1> DEFINE aux == [f \in refs |-> [body |-> files[f], vars |-> IF f[2] THEN vs ELSE Nil]]
<1>1. MaterializeAuxFiles(refs, files, vs).val = aux
  <2>1. "aux" # ""
    OBVIOUS
  <2>2. QED BY <2>1, OkIs, ErrIs DEF MaterializeAuxFiles
<1>2. DOMAIN aux = refs /\ \A f \in refs : aux[f].body = files[f]
  OBVIOUS
<1>3. Rendered(aux, vs)
  BY <1>2 DEF Rendered
<1>4. QED BY <1>1, <1>2, <1>3

\* The artifact a of the recipe r for its document d and architecture n, from
\* what was resolved: its files, its document and its hash are theirs.
Pair(a, r, d, n, res) ==
    /\ a.arch = n /\ a.extract = r.extract /\ a.file = <<d.name, res.version, n>>
    /\ a.assets = AssetsOf(r, n, res).val
    /\ a.hash = ComputeBuildInputsHash(DigestsOf(r, a.assets), a.plan)
    /\ VerifyBuildInputsHash(a)
    /\ a.plan = [epoch |-> res.epoch, aux |-> a.plan.aux,
                 nfpm |-> SubstituteNfpm(d, n, res.version, r.arches[n].vars).val]
    /\ Rendered(a.plan.aux, [version |-> res.version, arch |-> n, published |-> res.epoch])

LEMMA BuildArtifactIs ==
    ASSUME TypeInv, pc = "artifacts"
    PROVE  /\ Expected(BuildArtifact(cur.res))
           /\ BuildArtifact(cur.res).err = "" => Pair(BuildArtifact(cur.res).val, unit, doc, arch, cur.res)
<1> DEFINE res == cur.res
           assets == AssetsOf(unit, arch, res)
           nfpm == SubstituteNfpm(doc, arch, res.version, unit.arches[arch].vars)
           aux == MaterializeAuxFiles(cur.refs[cur.doc], disk, TemplateVars(res))
           bp == [epoch |-> res.epoch, nfpm |-> nfpm.val, aux |-> aux.val]
           a == Artifact(doc.name, res.version, arch, assets.val, SHAs(assets.val), bp, unit.extract)
           b == BuildArtifact(res)
<1>1. b = IF assets.err # "" THEN assets ELSE IF nfpm.err # "" THEN nfpm
          ELSE IF aux.err # "" THEN aux ELSE Ok(a)
  BY DEF BuildArtifact
<1>2. Expected(assets) /\ Expected(nfpm) /\ Expected(aux)
  BY AssetsExpected, DocumentExpected, FilesExpected
<1>3. Expected(Ok(a))
  BY OkIs DEF Expected
<1>4. ASSUME assets.err = "", nfpm.err = "", aux.err = "" PROVE Pair(a, unit, doc, arch, res)
  <2>1. SHAs(assets.val) = DigestsOf(unit, assets.val)
    BY DEF SHAs, DigestsOf
  <2>2. DigestsOf(unit, assets.val) = ArtifactAssetSHAs(assets.val)
    <3>1. Recipe(unit, config) /\ LoadPackage(unit) /\ cur.arch \in DOMAIN unit.archNames
      BY UnitIs, ConfigIs DEF TypeInv, PairAtHand
    <3>2. arch \in DOMAIN unit.arches /\ List(unit.arches[arch].urls)
      BY <3>1 DEF Recipe, arch
    <3>3. QED BY <1>4, <3>1, <3>2, DigestsAgree
  <2>3. /\ a.arch = arch /\ a.extract = unit.extract /\ a.file = <<doc.name, res.version, arch>>
        /\ a.assets = assets.val /\ a.plan = bp /\ a.hash = ComputeBuildInputsHash(SHAs(assets.val), bp)
    BY DEF Artifact
  <2>4. Rendered(aux.val, TemplateVars(res))
    BY <1>4, FilesAre
  <2>5. TemplateVars(res) = [version |-> res.version, arch |-> arch, published |-> res.epoch]
    BY DEF TemplateVars
  <2> HIDE DEF a, assets, aux, nfpm
  <2>6. a.plan = [epoch |-> res.epoch, aux |-> a.plan.aux, nfpm |-> nfpm.val] /\ a.plan.aux = aux.val
    BY <2>3
  <2>7. VerifyBuildInputsHash(a)
    BY <2>1, <2>2, <2>3 DEF VerifyBuildInputsHash
  <2>8. QED BY <2>1, <2>3, <2>4, <2>5, <2>6, <2>7 DEF Pair, assets, nfpm
<1> HIDE DEF a, assets, aux, nfpm
<1>5. b.err = "" => assets.err = "" /\ nfpm.err = "" /\ aux.err = "" /\ b = Ok(a)
  BY <1>1
<1>6. b.err = "" => b.val = a
  BY <1>5, OkIs
<1> HIDE DEF b
<1>7. Expected(b)
  BY <1>1, <1>2, <1>3
<1>8. b.err = "" => Pair(b.val, unit, doc, arch, res)
  BY <1>4, <1>5, <1>6
<1>9. QED BY <1>7, <1>8 DEF b

\* A pair fails its document, or is the next artifact or the last one.
BuildFails == \E kind : kind # "" /\ kind # "bug" /\ Done(errPkg(doc.name, kind))

BuildGoesOn == \E a :
    /\ Pair(a, unit, doc, arch, cur.res) /\ Staying /\ plan' = plan /\ emitted' = emitted
    /\ pc' = pc /\ PairAtHand'
    /\ cur'.doc = cur.doc /\ cur'.refs = cur.refs /\ cur'.res = cur.res
    /\ cur'.arch = cur.arch + 1 /\ cur'.arts = Append(cur.arts, a)

BuildEnds == \E a :
    /\ Pair(a, unit, doc, arch, cur.res) /\ cur.arch = Len(unit.archNames)
    /\ Done(Package(doc.name, cur.res, Append(cur.arts, a), Nil))

LEMMA BuildIs ==
    ASSUME TypeInv, Build
    PROVE  pc = "artifacts" /\ (BuildFails \/ BuildGoesOn \/ BuildEnds)
<1> DEFINE b == BuildArtifact(cur.res)
<1>1. pc = "artifacts"
  BY DEF Build
<1>2. Expected(b) /\ (b.err = "" => Pair(b.val, unit, doc, arch, cur.res))
  BY <1>1, BuildArtifactIs
<1>3. /\ b.err # "" => Done(errPkg(doc.name, b.err))
      /\ b.err = "" /\ cur.arch < Len(unit.archNames) =>
           Continue(pc, [cur EXCEPT !.arch = cur.arch + 1, !.arts = Append(cur.arts, b.val)])
      /\ b.err = "" /\ ~(cur.arch < Len(unit.archNames)) =>
           Done(Package(doc.name, cur.res, Append(cur.arts, b.val), Nil))
  BY DEF Build, ReleaseThen
<1> HIDE DEF b
<1>4. cur.arch \in DOMAIN unit.archNames /\ Recipe(unit, config)
  BY <1>1, UnitIs, ConfigIs DEF TypeInv, PairAtHand
<1>10. Len(unit.archNames) \in Nat /\ DOMAIN unit.archNames = 1..Len(unit.archNames)
  BY <1>4, ListIs DEF Recipe
<1>5. PICK n \in Nat : n = Len(unit.archNames) /\ DOMAIN unit.archNames = 1..n
  BY <1>10
<1>11. PICK k \in 1..n : k = cur.arch
  BY <1>4, <1>5
<1>6. CASE b.err # ""
  BY <1>1, <1>2, <1>3, <1>6 DEF BuildFails, Expected
<1>7. CASE b.err = "" /\ cur.arch < Len(unit.archNames)
  <2> DEFINE c == [cur EXCEPT !.arch = cur.arch + 1, !.arts = Append(cur.arts, b.val)]
  <2>1. Continue(pc, c)
    BY <1>3, <1>7
  <2>2. pc' = pc /\ cur' = c
    BY <2>1 DEF Continue
  <2>3. Staying /\ plan' = plan /\ emitted' = emitted
    BY <2>1, ContinueStays
  <2>4. /\ DOMAIN cur' = {"refs", "res", "doc", "arch", "arts"}
        /\ cur'.doc = cur.doc /\ cur'.refs = cur.refs /\ cur'.res = cur.res
        /\ cur'.arch = cur.arch + 1 /\ cur'.arts = Append(cur.arts, b.val)
    BY <1>1, <2>2 DEF TypeInv, PairAtHand
  <2>5. List(cur'.arts) /\ Len(cur'.arts) = cur'.arch - 1
    <3>1. List(cur.arts) /\ Len(cur.arts) = cur.arch - 1 /\ cur.arch \in Nat
      BY <1>1, <1>11 DEF TypeInv, PairAtHand
    <3>2. List(Append(cur.arts, b.val)) /\ Len(Append(cur.arts, b.val)) = Len(cur.arts) + 1
      BY <3>1, ListAppend
    <3>3. QED BY <2>4, <3>1, <3>2
  <2>6. cur.arch + 1 \in DOMAIN unit.archNames /\ cur.doc \in DOMAIN unit.docs
    <3>4. k < n
      BY <1>5, <1>7, <1>11, Zenon
    <3>1. k + 1 \in 1..n
      BY <3>4
    <3>2. cur.doc \in DOMAIN unit.docs
      BY <1>1 DEF TypeInv, PairAtHand
    <3>3. QED BY <1>5, <1>11, <3>1, <3>2
  <2>7. unit' = unit
    BY <2>3 DEF Staying, unit
  <2>8. PairAtHand'
    BY <2>4, <2>5, <2>6, <2>7 DEF PairAtHand
  <2>9. QED BY <1>1, <1>2, <1>7, <2>2, <2>3, <2>4, <2>8 DEF BuildGoesOn
<1>8. CASE b.err = "" /\ ~(cur.arch < Len(unit.archNames))
  <2>1. cur.arch = Len(unit.archNames)
    <3>1. ~(k < n)
      BY <1>5, <1>8, <1>11
    <3>2. k = n
      BY <3>1
    <3>3. QED BY <1>5, <1>11, <3>2
  <2>2. QED BY <1>1, <1>2, <1>3, <1>8, <2>1 DEF BuildEnds
<1>9. QED BY <1>1, <1>6, <1>7, <1>8

-----------------------------------------------------------------------------
(* Every step keeps the types.                                             *)

LEMMA LoadIs ==
    ASSUME TypeInv, Load
    PROVE  /\ config.tool = "cooper" /\ pc = "load" /\ todo # <<>>
           /\ \/ \E name, kind : kind # "bug" /\ Answer(errPkg(name, kind))
              \/ LoadPackage(unit) /\ pc' = "resolve" /\ Staying /\ plan' = plan /\ emitted' = emitted
<1> DEFINE walked == [i \in DOMAIN unit.docs |-> Walk(unit.docs[i], disk)]
           failed == {i \in DOMAIN walked : walked[i].err # ""}
           first == CHOOSE i \in failed : \A j \in failed : i <= j
           vals == [i \in DOMAIN walked |-> walked[i].val]
<1>1. /\ config.tool = "cooper" /\ pc = "load" /\ todo # <<>>
      /\ ~LoadPackage(unit) => Answer(errPkg(unit.path, "discovery"))
      /\ LoadPackage(unit) /\ failed # {} => Answer(errPkg(unit.docs[first].name, "aux"))
      /\ LoadPackage(unit) /\ failed = {} => Continue("resolve", vals)
  BY DEF Load
<1> HIDE DEF walked, failed, first, vals
<1>2. Continue("resolve", vals) => pc' = "resolve" /\ Staying /\ plan' = plan /\ emitted' = emitted
  BY ContinueStays DEF Continue
<1>3. "discovery" # "bug" /\ "aux" # "bug"
  OBVIOUS
<1>4. QED BY <1>1, <1>2, <1>3

LEMMA ResolveIs ==
    ASSUME TypeInv, Resolve \/ ResolveFails
    PROVE  /\ pc = "resolve"
           /\ \/ \E name, kind : kind # "bug" /\ Answer(errPkg(name, kind))
              \/ /\ pc' = "artifacts" /\ Staying /\ plan' = plan /\ emitted' = emitted
                 /\ PairAtHand' /\ ResolveSource(unit, net[unit.url]).err = ""
                 /\ cur'.res = ResolveSource(unit, net[unit.url]).val
                 /\ cur'.doc = 1 /\ cur'.arch = 1 /\ cur'.arts = <<>>
<1>1. CASE ResolveFails
  <2>1. pc = "resolve" /\ Answer(errPkg(unit.docs[1].name, "discovery"))
    BY <1>1 DEF ResolveFails
  <2>2. "discovery" # "bug"
    OBVIOUS
  <2>3. QED BY <2>1, <2>2
<1>2. CASE Resolve
  <2> DEFINE res == ResolveSource(unit, net[unit.url])
             c == [refs |-> cur, res |-> res.val, doc |-> 1, arch |-> 1, arts |-> <<>>]
  <2>1. pc = "resolve" /\ LoadPackage(unit)
    BY <1>2 DEF Resolve, TypeInv
  <2>2. Expected(res)
    BY <2>1, SourceExpected
  <2>3. /\ res.err # "" => Answer(errPkg(unit.docs[1].name, res.err))
        /\ res.err = "" => Continue("artifacts", c)
    BY <1>2 DEF Resolve
  <2> HIDE DEF res
  <2>4. CASE res.err # ""
    BY <2>1, <2>2, <2>3, <2>4 DEF Expected
  <2>5. CASE res.err = ""
    <3>1. pc' = "artifacts" /\ cur' = c /\ Staying /\ plan' = plan /\ emitted' = emitted
      BY <2>3, <2>5, ContinueStays DEF Continue
    <3>2. unit' = unit
      BY <3>1 DEF Staying, unit
    <3>3. Recipe(unit, config) /\ todo # <<>>
      BY <2>1, UnitIs, ConfigIs DEF TypeInv
    <3>4. 1 \in DOMAIN unit.docs /\ 1 \in DOMAIN unit.archNames
      BY <2>1, <3>3, ListTail, LoadedIs DEF Recipe
    <3>5. /\ DOMAIN cur' = {"refs", "res", "doc", "arch", "arts"} /\ cur'.res = res.val
          /\ cur'.doc = 1 /\ cur'.arch = 1 /\ cur'.arts = <<>>
      BY <3>1
    <3>6. PairAtHand'
      BY <3>2, <3>4, <3>5, EmptyIsList DEF PairAtHand
    <3>7. QED BY <2>1, <2>5, <3>1, <3>5, <3>6 DEF res
  <2>6. QED BY <2>4, <2>5
<1>3. QED BY <1>1, <1>2

LEMMA TypeNext == TypeInv /\ [Next]_vars => TypeInv'
<1> SUFFICES ASSUME TypeInv, [Next]_vars PROVE TypeInv'
  OBVIOUS
<1>1. ASSUME todo # <<>>, pc # "idle", NEW pkg, Answer(pkg) PROVE TypeInv'
  BY <1>1, AnswerType
<1>2. List(plan)
  BY DEF TypeInv
<1>3. CASE CooperBegin
  <2>1. Begin(LoadTop(config)) /\ (LoadTop(config) => PathsApart)
    BY <1>3, PathsAreApart DEF CooperBegin, LoadTop
  <2>2. LoadTop(config) \in BOOLEAN
    BY DEF LoadTop
  <2>3. QED BY <2>1, <2>2, BeginType
<1>4. CASE Load
  <2>1. CASE \E name, kind : kind # "bug" /\ Answer(errPkg(name, kind))
    BY <1>1, <1>4, <2>1, LoadIs
  <2>2. CASE LoadPackage(unit) /\ pc' = "resolve" /\ Staying /\ plan' = plan
    BY <1>2, <1>4, <2>2, LoadIs, StayType
  <2>3. QED BY <1>4, <2>1, <2>2, LoadIs
<1>5. CASE Resolve \/ ResolveFails
  <2>1. pc = "resolve" /\ todo # <<>> /\ pc # "idle" /\ config.tool = "cooper" /\ LoadPackage(unit)
    BY <1>5, ResolveIs DEF TypeInv
  <2>2. CASE \E name, kind : kind # "bug" /\ Answer(errPkg(name, kind))
    BY <1>1, <2>1, <2>2
  <2>3. CASE pc' = "artifacts" /\ Staying /\ plan' = plan /\ PairAtHand'
    BY <1>2, <2>1, <2>3, StayType
  <2>4. QED BY <1>5, <2>2, <2>3, ResolveIs
<1>6. CASE Build
  <2>1. pc = "artifacts" /\ todo # <<>> /\ pc # "idle" /\ config.tool = "cooper" /\ LoadPackage(unit)
    BY <1>6, BuildIs DEF TypeInv
  <2>2. CASE BuildFails
    BY <2>1, <2>2, DoneType DEF BuildFails
  <2>3. CASE BuildEnds
    BY <2>1, <2>3, DoneType DEF BuildEnds
  <2>4. CASE BuildGoesOn
    <3>1. Staying /\ plan' = plan /\ pc' = "artifacts" /\ PairAtHand'
      BY <2>1, <2>4 DEF BuildGoesOn
    <3>2. QED BY <1>2, <2>1, <3>1, StayType
  <2>5. QED BY <1>6, <2>2, <2>3, <2>4, BuildIs
<1>7. CASE StavesBegin
  <2>1. Begin(LoadTop(config)) /\ (LoadTop(config) => PathsApart)
    BY <1>7, PathsAreApart DEF StavesBegin, LoadTop
  <2>2. LoadTop(config) \in BOOLEAN
    BY DEF LoadTop
  <2>3. QED BY <2>1, <2>2, BeginType
<1>8. CASE LoadDirectory
  <2>1. /\ config.tool = "staves" /\ pc = "load" /\ todo # <<>>
        /\ (\E pkg : Answer(pkg)) \/ (\E c : Continue("epoch", c))
    BY <1>8 DEF LoadDirectory
  <2>2. CASE \E c : Continue("epoch", c)
    <3>1. pc' = "epoch" /\ Staying /\ plan' = plan
      BY <2>2, ContinueStays DEF Continue
    <3>2. QED BY <1>2, <2>1, <3>1, StayType
  <2>3. QED BY <1>1, <2>1, <2>2
<1>9. CASE ComputeContentEpoch
  <2>1. /\ pc = "epoch" /\ todo # <<>> /\ config.tool = "staves"
        /\ (\E pkg : Answer(pkg)) \/ (\E c : Continue("read", c))
    BY <1>9 DEF ComputeContentEpoch, TypeInv
  <2>2. CASE \E c : Continue("read", c)
    <3>1. pc' = "read" /\ Staying /\ plan' = plan
      BY <2>2, ContinueStays DEF Continue
    <3>2. QED BY <1>2, <2>1, <3>1, StayType
  <2>3. QED BY <1>1, <2>1, <2>2
<1>10. CASE ReadFiles
  <2>1. pc = "read" /\ todo # <<>> /\ \E pkg : Answer(pkg)
    BY <1>10 DEF ReadFiles, TypeInv
  <2>2. QED BY <1>1, <2>1
<1>11. CASE ChandlerBegin
  <2> DEFINE ok == normalize(config) /\ ValidateMatrix(config)
  <2>1. Begin(ok) /\ config.tool = "chandler"
    BY <1>11 DEF ChandlerBegin
  <2>2. ok => Distinct([i \in DOMAIN config.units |-> <<config.units[i].Distro, config.units[i].Codename>>])
    BY DEF normalize
  <2>3. [i \in DOMAIN config.units |-> <<config.units[i].Distro, config.units[i].Codename>>] =
            [i \in DOMAIN config.units |-> config.units[i].path]
    BY <2>1, ConfigIs DEF Target
  <2>4. ok \in BOOLEAN
    BY DEF normalize, ValidateMatrix
  <2> HIDE DEF ok
  <2>5. ok => PathsApart
    BY <2>2, <2>3, PathsAreApart
  <2>6. QED BY <2>1, <2>4, <2>5, BeginType
<1>12. CASE ExpandName
  <2>1. /\ config.tool = "chandler" /\ pc = "load" /\ todo # <<>>
        /\ (\E pkg : Answer(pkg)) \/ (\E c : Continue("keys", c))
    BY <1>12 DEF ExpandName
  <2>2. CASE \E c : Continue("keys", c)
    <3>1. pc' = "keys" /\ Staying /\ plan' = plan
      BY <2>2, ContinueStays DEF Continue
    <3>2. QED BY <1>2, <2>1, <3>1, StayType
  <2>3. QED BY <1>1, <2>1, <2>2
<1>13. CASE FetchURL \/ FetchURLFails \/ Render
  <2>1. /\ pc = "keys" /\ todo # <<>> /\ config.tool = "chandler"
        /\ (\E pkg : Answer(pkg)) \/ (\E c : Continue("keys", c))
    BY <1>13 DEF FetchURL, FetchURLFails, Render, TypeInv
  <2>2. CASE \E c : Continue("keys", c)
    <3>1. pc' = "keys" /\ Staying /\ plan' = plan
      BY <2>2, ContinueStays DEF Continue
    <3>2. QED BY <1>2, <2>1, <3>1, StayType
  <2>3. QED BY <1>1, <2>1, <2>2
<1>14. CASE Finish
  <2>1. /\ UNCHANGED <<config, net, changes, todo, runs, plan>> /\ todo = <<>>
        /\ pc' = "idle" /\ exit' \in {"ok", "error"}
    BY <1>14 DEF Finish, world
  <2>2. index' = index
    BY <2>1 DEF index
  <2>3. QED BY <2>1, <2>2 DEF TypeInv
<1>15. CASE Environment
  <2>1. UNCHANGED <<config, todo, pc, cur, plan, exit, runs, emitted>>
    BY <1>15 DEF Environment, Publish, Edit
  <2>2. index' = index /\ unit' = unit /\ (PathsApart' <=> PathsApart) /\ (PairAtHand' <=> PairAtHand)
    BY <2>1 DEF index, unit, PathsApart, PairAtHand
  <2>3. changes' \in 0..MaxChanges
    BY <1>15, DiscoverAssumption DEF Environment, Publish, Edit, TypeInv
  <2>4. DOMAIN net' = config.urls /\ \A u \in config.urls : net'[u] \in Offers[u]
    <3>1. CASE \E u \in config.urls : Publish(u)
      <4>1. PICK u \in config.urls : \E a \in Offers[u] : net' = [net EXCEPT ![u] = a]
        BY <3>1 DEF Publish
      <4>2. QED BY <4>1 DEF TypeInv
    <3>2. CASE \E p \in config.files : Edit(p)
      BY <3>2 DEF Edit, TypeInv
    <3>3. QED BY <1>15, <3>1, <3>2 DEF Environment
  <2>5. QED BY <2>1, <2>2, <2>3, <2>4 DEF TypeInv
<1>16. CASE UNCHANGED vars
  <2>1. UNCHANGED <<config, net, changes, todo, pc, cur, plan, exit, runs, emitted>>
    BY <1>16 DEF vars, world
  <2>2. index' = index /\ unit' = unit /\ (PathsApart' <=> PathsApart) /\ (PairAtHand' <=> PairAtHand)
    BY <2>1 DEF index, unit, PathsApart, PairAtHand
  <2>3. QED BY <2>1, <2>2 DEF TypeInv
<1>17. QED
  BY <1>3, <1>4, <1>5, <1>6, <1>7, <1>8, <1>9, <1>10, <1>11, <1>12, <1>13, <1>14, <1>15, <1>16
  DEF Next, CooperNext, StavesNext, ChandlerNext

\* A run is where it says, in a unit of its configuration, with the document and
\* the architecture at hand; for any configuration.
THEOREM TypeCorrect == Spec => []TypeOK
<1>1. Spec => []TypeInv
  BY TypeInit, TypeNext, PTL DEF Spec
<1>2. QED BY <1>1, TypeInvOK, PTL

-----------------------------------------------------------------------------
(* What a package of a plan is made from: its unit, what the vendor        *)
(* answered and the files.                                                 *)

Failed(p) == p.result = "error" /\ p.kind # "bug" /\ p.arts = <<>>

\* What a source can resolve to.
Resolved(r, res) == \E answer \in Offers[r.url] :
    ResolveSource(r, answer).err = "" /\ res = ResolveSource(r, answer).val

CooperMade(p, r) ==
    /\ LoadPackage(r) /\ Resolved(r, p.source)
    /\ List(p.arts) /\ Len(p.arts) = Len(r.archNames)
    /\ \E d \in DOMAIN r.docs :
         /\ p.name = r.docs[d].name
         /\ \A k \in DOMAIN p.arts :
              Pair(p.arts[k], r, r.docs[d], r.archNames[k], p.source)

\* The document of a directory, and its epoch, of the files as they were read.
LocalNfpm(d) == [doc |-> d.name, version |-> d.version, arch |-> d.arch, vars |-> <<>>]
LocalEpoch(d, read) == <<LocalNfpm(d), read>>

StavesMade(p, d) == p.name = d.name /\ \E aux \in {p.arts[1].plan.aux} :
    /\ Rendered(aux, [version |-> d.version, arch |-> d.arch, published |-> LocalEpoch(d, p.read)])
    /\ DOMAIN aux = DOMAIN p.read
    /\ p.arts = <<Artifact(d.name, d.version, d.arch, <<>>, Nil,
                     [epoch |-> LocalEpoch(d, p.read), nfpm |-> LocalNfpm(d), aux |-> aux], Nil)>>

\* The document of a target's package.
TargetNfpm(name) ==
    [doc |-> name, version |-> config.version, arch |-> "all",
     vars |-> [depends |-> mergeDepends(config.depends), update |-> config.update]]

ChandlerMade(p, t) == \E aux \in {p.arts[1].plan.aux} :
    p.arts = <<Artifact(p.name, config.version, "all", <<>>, Nil,
                 [epoch |-> <<TargetNfpm(p.name), aux, t.Distro, t.Codename>>,
                  nfpm |-> TargetNfpm(p.name), aux |-> aux], Nil)>>

MadeOf(p, u) ==
    CASE config.tool = "cooper" -> CooperMade(p, u)
      [] config.tool = "staves" -> StavesMade(p, u)
      [] OTHER -> ChandlerMade(p, u)

Made(p) ==
    \/ Failed(p)
    \/ /\ p.result = "ok" /\ p.kind = ""
       /\ \E i \in DOMAIN config.units : p.of = config.units[i].path /\ MadeOf(p, config.units[i])

\* The artifacts of the document at hand so far.
CurInv == pc = "artifacts" =>
    /\ Resolved(unit, cur.res)
    /\ \A k \in DOMAIN cur.arts : Pair(cur.arts[k], unit, doc, unit.archNames[k], cur.res)

LEMMA ErrIsFailed ==
    ASSUME NEW name, NEW kind, kind # "bug"
    PROVE  /\ Failed(errPkg(name, kind)) /\ Made(errPkg(name, kind))
           /\ errPkg(name, kind).of = unit.path /\ errPkg(name, kind).name = name
BY DEF errPkg, Failed, Made

-----------------------------------------------------------------------------
(* The kinds of steps.                                                     *)

\* A run starts or is refused.
Starts ==
    /\ config' = config /\ emitted' = emitted /\ plan' = <<>> /\ pc' \in {"idle", "load"}
    /\ pc' = "load" => todo' = config.units
    /\ pc' = "idle" => todo' = <<>>

\* A unit is answered for with one package; with cooper one in error.
AnswersOnce == \E pkg :
    /\ pc \notin {"idle", "artifacts"} /\ todo # <<>> /\ Answer(pkg)
    /\ Made(pkg) /\ pkg.of = unit.path /\ (config.tool = "cooper" => Failed(pkg))

\* A document is answered for.
AnswersDoc == \E pkg :
    /\ pc = "artifacts" /\ Done(pkg) /\ Made(pkg)
    /\ pkg.of = unit.path /\ pkg.name = doc.name /\ (Failed(pkg) \/ pkg.source = cur.res)

\* The unit is gone on with.
GoesOn ==
    /\ todo # <<>> /\ pc \notin {"idle", "artifacts"} /\ pc' \notin {"idle", "load", "artifacts"}
    /\ Staying /\ plan' = plan /\ emitted' = emitted

Resolves ==
    /\ pc = "resolve" /\ pc' = "artifacts" /\ Staying /\ plan' = plan /\ emitted' = emitted
    /\ PairAtHand' /\ Resolved(unit, cur'.res) /\ cur'.doc = 1 /\ cur'.arts = <<>>

\* The tools rest while vendors and users act, or nobody does.
Rests == UNCHANGED <<config, todo, pc, cur, plan, exit, emitted>>

Step == Starts \/ AnswersOnce \/ AnswersDoc \/ GoesOn \/ Resolves \/ BuildGoesOn \/ Finish \/ Rests

LEMMA BeginStarts == ASSUME NEW accepted, Begin(accepted) PROVE Starts
BY DEF Begin, Starts, world

LEMMA ErrStep ==
    ASSUME pc \notin {"idle", "artifacts"}, todo # <<>>,
           \E name, kind : kind # "bug" /\ Answer(errPkg(name, kind))
    PROVE  AnswersOnce
BY ErrIsFailed DEF AnswersOnce

LEMMA GoStep ==
    ASSUME pc \notin {"idle", "artifacts"}, todo # <<>>,
           \E w \in {"resolve", "epoch", "read", "keys"} : \E c : Continue(w, c)
    PROVE  GoesOn
<1>1. PICK w \in {"resolve", "epoch", "read", "keys"} : \E c : Continue(w, c)
  OBVIOUS
<1>2. pc' \notin {"idle", "load", "artifacts"}
  BY <1>1 DEF Continue
<1>3. QED BY <1>1, <1>2, ContinueStays DEF GoesOn

\* The last artifact of a document makes its package.
LEMMA DocumentMade ==
    ASSUME TypeInv, CurInv, pc = "artifacts", NEW a, Pair(a, unit, doc, arch, cur.res),
           cur.arch = Len(unit.archNames)
    PROVE  Made(Package(doc.name, cur.res, Append(cur.arts, a), Nil))
<1> DEFINE p == Package(doc.name, cur.res, Append(cur.arts, a), Nil)
<1>1. /\ p.of = unit.path /\ p.name = doc.name /\ p.source = cur.res
      /\ p.arts = Append(cur.arts, a) /\ p.result = "ok" /\ p.kind = ""
  BY DEF Package
<1> HIDE DEF p
<1>2. /\ config.tool = "cooper" /\ LoadPackage(unit) /\ cur.doc \in DOMAIN unit.docs
      /\ List(cur.arts) /\ Len(cur.arts) = cur.arch - 1 /\ todo # <<>>
      /\ cur.arch \in DOMAIN unit.archNames
  BY DEF TypeInv, PairAtHand
<1>3. index + 1 \in DOMAIN config.units /\ unit = config.units[index + 1] /\ List(unit.archNames)
  BY <1>2, UnitIs, ConfigIs DEF Recipe
<1>4. PICK n \in Nat : n = cur.arch /\ n = Len(unit.archNames)
  BY <1>3, ListIs
<1>5. Len(cur.arts) + 1 = n
  <2>1. Len(cur.arts) = n - 1
    BY <1>2, <1>4
  <2>2. QED BY <2>1
<1>6. /\ List(p.arts) /\ Len(p.arts) = n /\ DOMAIN p.arts = DOMAIN cur.arts \cup {n}
      /\ \A k \in DOMAIN cur.arts : p.arts[k] = cur.arts[k]
      /\ p.arts[n] = a
  <2> DEFINE s == Append(cur.arts, a)
  <2>1. List(cur.arts)
    BY <1>2
  <2>2. /\ List(s) /\ Len(s) = Len(cur.arts) + 1
        /\ DOMAIN s = DOMAIN cur.arts \cup {Len(cur.arts) + 1}
        /\ \A i \in DOMAIN cur.arts : i # Len(cur.arts) + 1 /\ s[i] = cur.arts[i]
        /\ s[Len(cur.arts) + 1] = a
    BY <2>1, ListAppend
  <2>3. p.arts = s
    BY <1>1
  <2> HIDE DEF s
  <2>4. QED BY <1>5, <2>2, <2>3
<1>7. \A k \in DOMAIN p.arts : Pair(p.arts[k], unit, unit.docs[cur.doc], unit.archNames[k], p.source)
  <2>1. doc = unit.docs[cur.doc] /\ arch = unit.archNames[n]
    BY <1>4 DEF doc, arch
  <2>2. SUFFICES ASSUME NEW k \in DOMAIN p.arts
                 PROVE  Pair(p.arts[k], unit, doc, unit.archNames[k], cur.res)
    BY <1>1, <2>1
  <2>3. CASE k \in DOMAIN cur.arts
    BY <1>6, <2>3 DEF CurInv
  <2>4. CASE k = n
    BY <1>6, <2>1, <2>4
  <2>5. QED BY <1>6, <2>3, <2>4
<1>8. CooperMade(p, unit)
  <2>1. p.name = unit.docs[cur.doc].name
    BY <1>1 DEF doc
  <2>2. Resolved(unit, p.source)
    BY <1>1 DEF CurInv
  <2>3. QED BY <1>2, <1>4, <1>6, <1>7, <2>1, <2>2 DEF CooperMade
<1>9. MadeOf(p, unit)
  BY <1>2, <1>8 DEF MadeOf
<1>10. QED BY <1>1, <1>3, <1>9 DEF Made, p

LEMMA CooperStep == ASSUME TypeInv, CurInv, CooperNext PROVE Step
<1>1. CASE CooperBegin
  BY <1>1, BeginStarts DEF CooperBegin, Step
<1>2. CASE Load
  <2>1. pc \notin {"idle", "artifacts"} /\ todo # <<>>
    BY <1>2 DEF Load
  <2>2. (\E name, kind : kind # "bug" /\ Answer(errPkg(name, kind))) => AnswersOnce
    BY <2>1, ErrStep
  <2>3. (pc' = "resolve" /\ Staying /\ plan' = plan /\ emitted' = emitted) => GoesOn
    BY <2>1 DEF GoesOn
  <2>4. QED BY <1>2, <2>2, <2>3, LoadIs DEF Step
<1>3. CASE Resolve \/ ResolveFails
  <2>1. pc = "resolve" /\ pc \notin {"idle", "artifacts"} /\ todo # <<>>
    BY <1>3, ResolveIs DEF TypeInv
  <2>2. (\E name, kind : kind # "bug" /\ Answer(errPkg(name, kind))) => AnswersOnce
    BY <2>1, ErrStep
  <2>3. net[unit.url] \in Offers[unit.url]
    BY <2>1, UnitIs, ConfigIs DEF TypeInv, Recipe
  <2>4. ASSUME pc' = "artifacts", Staying, plan' = plan, emitted' = emitted, PairAtHand',
               ResolveSource(unit, net[unit.url]).err = "",
               cur'.res = ResolveSource(unit, net[unit.url]).val, cur'.doc = 1, cur'.arts = <<>>
        PROVE  Resolves
    BY <2>1, <2>3, <2>4 DEF Resolves, Resolved
  <2>5. QED BY <1>3, <2>2, <2>4, ResolveIs DEF Step
<1>4. CASE Build
  <2>1. pc = "artifacts"
    BY <1>4, BuildIs
  <2>2. CASE BuildFails
    <3>1. PICK kind : kind # "bug" /\ Done(errPkg(doc.name, kind))
      BY <2>2 DEF BuildFails
    <3>2. QED BY <2>1, <3>1, ErrIsFailed DEF AnswersDoc, Step
  <2>3. CASE BuildEnds
    <3>1. PICK a : /\ Pair(a, unit, doc, arch, cur.res) /\ cur.arch = Len(unit.archNames)
                   /\ Done(Package(doc.name, cur.res, Append(cur.arts, a), Nil))
      BY <2>3 DEF BuildEnds
    <3> DEFINE p == Package(doc.name, cur.res, Append(cur.arts, a), Nil)
    <3>2. Made(p) /\ Done(p)
      BY <2>1, <3>1, DocumentMade
    <3>3. p.of = unit.path /\ p.name = doc.name /\ p.source = cur.res
      BY DEF Package
    <3> HIDE DEF p
    <3>4. AnswersDoc
      BY <2>1, <3>2, <3>3 DEF AnswersDoc
    <3>5. QED BY <3>4 DEF Step
  <2>4. QED BY <1>4, <2>2, <2>3, BuildIs DEF Step
<1>5. QED BY <1>1, <1>2, <1>3, <1>4 DEF CooperNext

LEMMA StavesStep == ASSUME TypeInv, StavesNext PROVE Step
<1>1. CASE StavesBegin
  BY <1>1, BeginStarts DEF StavesBegin, Step
<1>2. ASSUME pc \notin {"idle", "artifacts"}, todo # <<>>,
             \/ \E name, kind : kind # "bug" /\ Answer(errPkg(name, kind))
             \/ \E w \in {"resolve", "epoch", "read", "keys"} : \E c : Continue(w, c)
      PROVE  Step
  BY <1>2, ErrStep, GoStep DEF Step
<1>3. "discovery" # "bug" /\ "aux" # "bug"
  OBVIOUS
<1>4. CASE LoadDirectory
  <2>1. pc \notin {"idle", "artifacts"} /\ todo # <<>>
    BY <1>4 DEF LoadDirectory
  <2>2. \/ Answer(errPkg(unit.path, "discovery"))
        \/ Answer(errPkg(unit.name, "aux"))
        \/ \E c : Continue("epoch", c)
    BY <1>4 DEF LoadDirectory
  <2>3. QED BY <1>2, <1>3, <2>1, <2>2
<1>5. CASE ComputeContentEpoch
  <2>1. pc \notin {"idle", "artifacts"} /\ todo # <<>>
    BY <1>5 DEF ComputeContentEpoch, TypeInv
  <2>2. Answer(errPkg(unit.name, "discovery")) \/ \E c : Continue("read", c)
    BY <1>5 DEF ComputeContentEpoch
  <2>3. QED BY <1>2, <1>3, <2>1, <2>2
<1>6. CASE ReadFiles
  <2> DEFINE epoch == LocalEpoch(unit, cur)
             vs == [version |-> unit.version, arch |-> unit.arch, published |-> epoch]
             aux == MaterializeAuxFiles(DOMAIN cur, disk, vs)
             bp == [epoch |-> epoch, nfpm |-> LocalNfpm(unit), aux |-> aux.val]
             art == Artifact(unit.name, unit.version, unit.arch, <<>>, Nil, bp, Nil)
             p == Package(unit.name, Nil, <<art>>, cur)
  <2>1. pc = "read" /\ pc \notin {"idle", "artifacts"} /\ todo # <<>> /\ config.tool = "staves"
    BY <1>6 DEF ReadFiles, TypeInv
  <2>2. Nfpm = LocalNfpm(unit) /\ <<Nfpm, cur>> = epoch
    BY DEF Nfpm, LocalNfpm, LocalEpoch
  <2>3. IF aux.err # "" THEN Answer(errPkg(unit.name, "aux")) ELSE Answer(p)
    BY <1>6, <2>2 DEF ReadFiles
  <2>4. CASE aux.err # ""
    BY <1>2, <1>3, <2>1, <2>3, <2>4
  <2>5. CASE aux.err = ""
    <3>1. Rendered(aux.val, vs) /\ DOMAIN aux.val = DOMAIN cur
      BY <2>5, FilesAre
    <3>2. /\ p.of = unit.path /\ p.name = unit.name /\ p.arts = <<art>> /\ p.read = cur
          /\ p.result = "ok" /\ p.kind = ""
      BY DEF Package
    <3>3. StavesMade(p, unit)
      <4> DEFINE x == aux.val
      <4>1. Rendered(x, [version |-> unit.version, arch |-> unit.arch, published |-> LocalEpoch(unit, p.read)])
        BY <3>1, <3>2
      <4>2. DOMAIN x = DOMAIN p.read
        BY <3>1, <3>2
      <4>3. p.arts = <<Artifact(unit.name, unit.version, unit.arch, <<>>, Nil,
                         [epoch |-> LocalEpoch(unit, p.read), nfpm |-> LocalNfpm(unit), aux |-> x], Nil)>>
        BY <3>2
      <4>5. p.arts[1].plan.aux = x
        <5>1. art.plan = bp
          BY DEF Artifact
        <5>2. bp.aux = x
          OBVIOUS
        <5> HIDE DEF art, bp, p, x
        <5>3. p.arts[1] = art
          BY <3>2, OneIsList
        <5>4. QED BY <5>1, <5>2, <5>3
      <4> HIDE DEF x, p, art, bp, aux
      <4>4. QED BY <3>2, <4>1, <4>2, <4>3, <4>5 DEF StavesMade
    <3> HIDE DEF p
    <3>4. index + 1 \in DOMAIN config.units /\ unit = config.units[index + 1]
      BY <2>1, UnitIs
    <3>5. Made(p)
      BY <2>1, <3>2, <3>3, <3>4 DEF Made, MadeOf
    <3>6. QED BY <2>1, <2>3, <2>5, <3>2, <3>5 DEF AnswersOnce, Step
  <2>6. QED BY <2>4, <2>5
<1>7. QED BY <1>1, <1>4, <1>5, <1>6 DEF StavesNext

LEMMA ChandlerStep == ASSUME TypeInv, ChandlerNext PROVE Step
<1>1. CASE ChandlerBegin
  BY <1>1, BeginStarts DEF ChandlerBegin, Step
<1>2. ASSUME pc \notin {"idle", "artifacts"}, todo # <<>>,
             \/ \E name, kind : kind # "bug" /\ Answer(errPkg(name, kind))
             \/ \E w \in {"resolve", "epoch", "read", "keys"} : \E c : Continue(w, c)
      PROVE  Step
  BY <1>2, ErrStep, GoStep DEF Step
<1>3. "discovery" # "bug" /\ "key" # "bug"
  OBVIOUS
<1>4. CASE ExpandName
  <2>1. pc \notin {"idle", "artifacts"} /\ todo # <<>>
    BY <1>4 DEF ExpandName
  <2>2. Answer(errPkg(<<config.name.text>>, "discovery")) \/ \E c : Continue("keys", c)
    BY <1>4 DEF ExpandName
  <2>3. QED BY <1>2, <1>3, <2>1, <2>2
<1>5. CASE FetchURL \/ FetchURLFails
  <2>1. pc = "keys" /\ pc \notin {"idle", "artifacts"} /\ todo # <<>>
    BY <1>5 DEF FetchURL, FetchURLFails, TypeInv
  <2>2. \/ Answer(errPkg(cur.name, "discovery"))
        \/ Answer(errPkg(cur.name, "key"))
        \/ \E c : Continue("keys", c)
    BY <1>5, <2>1 DEF FetchURL, FetchURLFails
  <2>3. QED BY <1>2, <1>3, <2>1, <2>2
<1>6. CASE Render
  <2> DEFINE aux == [keys |-> cur.aux,
                     sources |-> [i \in DOMAIN config.sources |-> Stanza(config.sources[i])]]
             nfpm == TargetNfpm(cur.name)
             epoch == <<nfpm, aux, unit.Distro, unit.Codename>>
             bp == [epoch |-> epoch, nfpm |-> nfpm, aux |-> aux]
             art == Artifact(cur.name, config.version, "all", <<>>, Nil, bp, Nil)
             p == Package(cur.name, Nil, <<art>>, cur.aux)
  <2>1. pc = "keys" /\ pc \notin {"idle", "artifacts"} /\ todo # <<>> /\ config.tool = "chandler"
    BY <1>6 DEF Render, TypeInv
  <2>2. BuildNfpm = nfpm /\ ContentEpoch(BuildNfpm, aux) = epoch
    BY DEF BuildNfpm, TargetNfpm, ContentEpoch
  <2>3. Answer(errPkg(cur.name, "discovery")) \/ Answer(p)
    BY <1>6, <2>2 DEF Render
  <2>4. CASE Answer(errPkg(cur.name, "discovery"))
    BY <1>2, <1>3, <2>1, <2>4
  <2>5. CASE Answer(p)
    <3>1. /\ p.of = unit.path /\ p.name = cur.name /\ p.arts = <<art>>
          /\ p.result = "ok" /\ p.kind = ""
      BY DEF Package
    <3>2. ChandlerMade(p, unit)
      <4>1. p.arts = <<Artifact(p.name, config.version, "all", <<>>, Nil,
                        [epoch |-> <<TargetNfpm(p.name), aux, unit.Distro, unit.Codename>>,
                         nfpm |-> TargetNfpm(p.name), aux |-> aux], Nil)>>
        BY <3>1
      <4>2. p.arts[1].plan.aux = aux
        <5>1. art.plan = bp
          BY DEF Artifact
        <5>2. bp.aux = aux
          OBVIOUS
        <5> HIDE DEF art, bp, p, aux
        <5>3. p.arts[1] = art
          BY <3>1, OneIsList
        <5>4. QED BY <5>1, <5>2, <5>3
      <4> HIDE DEF p, aux
      <4>3. QED BY <4>1, <4>2 DEF ChandlerMade
    <3> HIDE DEF p
    <3>3. index + 1 \in DOMAIN config.units /\ unit = config.units[index + 1]
      BY <2>1, UnitIs
    <3>4. Made(p)
      BY <2>1, <3>1, <3>2, <3>3 DEF Made, MadeOf
    <3>5. QED BY <2>1, <2>5, <3>1, <3>4 DEF AnswersOnce, Step
  <2>6. QED BY <2>3, <2>4, <2>5
<1>7. QED BY <1>1, <1>4, <1>5, <1>6 DEF ChandlerNext

LEMMA StepIs == ASSUME TypeInv, CurInv, [Next]_vars PROVE Step
<1>1. Environment => Rests
  BY DEF Environment, Publish, Edit, Rests
<1>2. UNCHANGED vars => Rests
  BY DEF vars, world, Rests
<1>3. QED BY <1>1, <1>2, CooperStep, StavesStep, ChandlerStep DEF Next, Step

-----------------------------------------------------------------------------
(* Every package is made from its unit, and its unit is one.               *)

MadeInv ==
    /\ \A i \in DOMAIN plan : Made(plan[i])
    /\ \A p \in emitted : Made(p)
    /\ plan # <<>> \/ emitted # {} => PathsApart

LEMMA MadeKept ==
    ASSUME config' = config
    PROVE  \A p : Made(p)' <=> Made(p)
BY DEF Made, Failed, MadeOf, CooperMade, StavesMade, ChandlerMade, TargetNfpm

\* What a step does to the plan.
LEMMA PlanStep ==
    ASSUME TypeInv, CurInv, [Next]_vars
    PROVE  /\ config' = config
           /\ \/ plan' = <<>> /\ emitted' = emitted
              \/ plan' = plan /\ emitted' = emitted
              \/ plan' = plan /\ emitted' = emitted \cup {plan[i] : i \in DOMAIN plan} /\ pc = "load"
              \/ \E pkg : Report(pkg) /\ Made(pkg) /\ emitted' = emitted /\ pc # "idle"
<1>1. Step
  BY StepIs
<1>2. CASE Starts
  BY <1>2 DEF Starts
<1>3. CASE AnswersOnce
  BY <1>3 DEF AnswersOnce, Answer
<1>4. CASE AnswersDoc
  <2>1. PICK pkg : pc = "artifacts" /\ Done(pkg) /\ Made(pkg)
    BY <1>4 DEF AnswersDoc
  <2>2. Report(pkg) /\ config' = config /\ emitted' = emitted
    BY <2>1 DEF Done, Answer
  <2>3. pc # "idle"
    BY <2>1
  <2>4. QED BY <2>1, <2>2, <2>3
<1>5. CASE GoesOn
  BY <1>5 DEF GoesOn, Staying
<1>6. CASE Resolves
  BY <1>6 DEF Resolves, Staying
<1>7. CASE BuildGoesOn
  BY <1>7 DEF BuildGoesOn, Staying
<1>8. CASE Finish
  BY <1>8 DEF Finish
<1>9. CASE Rests
  BY <1>9 DEF Rests
<1>10. QED BY <1>1, <1>2, <1>3, <1>4, <1>5, <1>6, <1>7, <1>8, <1>9 DEF Step

LEMMA MadeNext ==
    TypeInv /\ CurInv /\ MadeInv /\ [Next]_vars => MadeInv'
<1> SUFFICES ASSUME TypeInv, CurInv, MadeInv, [Next]_vars PROVE MadeInv'
  OBVIOUS
<1>1. config' = config /\ (PathsApart' <=> PathsApart)
  BY PlanStep DEF PathsApart
<1>2. \A p : Made(p)' <=> Made(p)
  BY <1>1, MadeKept
<1>3. /\ \A i \in DOMAIN plan' : Made(plan'[i])
      /\ \A p \in emitted' : Made(p)
      /\ plan' # <<>> \/ emitted' # {} => PathsApart
  <2>1. CASE plan' = <<>> /\ emitted' = emitted
    BY <2>1, EmptyIsList DEF MadeInv
  <2>2. CASE plan' = plan /\ emitted' = emitted
    BY <2>2 DEF MadeInv
  <2>3. CASE plan' = plan /\ emitted' = emitted \cup {plan[i] : i \in DOMAIN plan} /\ pc = "load"
    BY <2>3 DEF MadeInv, TypeInv
  <2>4. CASE \E pkg : Report(pkg) /\ Made(pkg) /\ emitted' = emitted /\ pc # "idle"
    <3>1. PICK pkg : Report(pkg) /\ Made(pkg) /\ emitted' = emitted /\ pc # "idle"
      BY <2>4
    <3>2. \/ plan' = plan
          \/ /\ DOMAIN plan' = DOMAIN plan \cup {Len(plan) + 1} /\ plan'[Len(plan) + 1] = pkg
             /\ \A i \in DOMAIN plan : plan'[i] = plan[i]
      BY <3>1, ReportIs DEF TypeInv
    <3>3. QED BY <3>1, <3>2 DEF MadeInv, TypeInv
  <2>5. QED BY <2>1, <2>2, <2>3, <2>4, PlanStep
<1>4. QED BY <1>1, <1>2, <1>3 DEF MadeInv

LEMMA CurNext == TypeInv /\ CurInv /\ [Next]_vars => CurInv'
<1> SUFFICES ASSUME TypeInv, CurInv, [Next]_vars, pc' = "artifacts"
             PROVE  /\ Resolved(unit', cur'.res)
                    /\ \A k \in DOMAIN cur'.arts :
                         Pair(cur'.arts[k], unit', doc', unit'.archNames[k], cur'.res)
  BY DEF CurInv
<1>1. Step
  BY StepIs
<1>2. CASE Starts
  BY <1>2 DEF Starts
<1>3. CASE AnswersOnce
  BY <1>3 DEF AnswersOnce, Answer
<1>4. CASE AnswersDoc
  <2>1. PICK pkg : pc = "artifacts" /\ Done(pkg)
    BY <1>4 DEF AnswersDoc
  <2>2. ~Answer(pkg)
    BY DEF Answer
  <2>3. Staying /\ cur'.res = cur.res /\ cur'.arts = <<>>
    BY <2>1, <2>2, DoneIs
  <2>4. unit' = unit
    BY <2>3 DEF Staying, unit
  <2>5. QED BY <2>1, <2>3, <2>4, EmptyIsList DEF CurInv
<1>5. CASE GoesOn
  BY <1>5 DEF GoesOn
<1>6. CASE Resolves
  <2>1. unit' = unit
    BY <1>6 DEF Resolves, Staying, unit
  <2>2. QED BY <1>6, <2>1, EmptyIsList DEF Resolves
<1>7. CASE BuildGoesOn
  <2>1. PICK a : /\ Pair(a, unit, doc, arch, cur.res) /\ Staying /\ pc' = pc
                 /\ cur'.doc = cur.doc /\ cur'.res = cur.res /\ cur'.arts = Append(cur.arts, a)
    BY <1>7 DEF BuildGoesOn
  <2>2. unit' = unit /\ doc' = doc
    BY <2>1 DEF Staying, unit, doc
  <2>3. List(cur.arts) /\ Len(cur.arts) = cur.arch - 1 /\ cur.arch \in DOMAIN unit.archNames
    BY <2>1 DEF TypeInv, PairAtHand
  <2>4. Len(cur.arts) + 1 = cur.arch
    <3>1. Recipe(unit, config)
      BY <2>1, UnitIs, ConfigIs DEF TypeInv
    <3>2. PICK n \in Nat : n = cur.arch
      BY <2>3, <3>1, ListIs DEF Recipe
    <3>3. Len(cur.arts) = n - 1
      BY <2>3, <3>2
    <3>4. QED BY <3>2, <3>3
  <2>5. /\ DOMAIN cur'.arts = DOMAIN cur.arts \cup {cur.arch}
        /\ \A k \in DOMAIN cur.arts : cur'.arts[k] = cur.arts[k]
        /\ cur'.arts[cur.arch] = a
    <3> DEFINE s == Append(cur.arts, a)
    <3>1. /\ DOMAIN s = DOMAIN cur.arts \cup {Len(cur.arts) + 1}
          /\ \A i \in DOMAIN cur.arts : i # Len(cur.arts) + 1 /\ s[i] = cur.arts[i]
          /\ s[Len(cur.arts) + 1] = a
      BY <2>3, ListAppend
    <3>2. cur'.arts = s
      BY <2>1
    <3> HIDE DEF s
    <3>3. QED BY <2>4, <3>1, <3>2
  <2>6. arch = unit.archNames[cur.arch]
    BY DEF arch
  <2>7. QED BY <2>1, <2>2, <2>5, <2>6 DEF CurInv
<1>8. CASE Finish
  BY <1>8 DEF Finish
<1>9. CASE Rests
  <2>1. unit' = unit /\ doc' = doc /\ cur' = cur /\ pc' = pc
    BY <1>9 DEF Rests, unit, doc
  <2>2. QED BY <2>1 DEF CurInv
<1>10. QED BY <1>1, <1>2, <1>3, <1>4, <1>5, <1>6, <1>7, <1>8, <1>9 DEF Step

LEMMA MadeInit == Init => CurInv /\ MadeInv
BY EmptyIsList DEF Init, CurInv, MadeInv

LEMMA Invariant == Spec => [](TypeInv /\ CurInv /\ MadeInv)
BY TypeInit, TypeNext, CurNext, MadeInit, MadeNext, PTL DEF Spec

\* What is in a package that is not in error.
LEMMA MadeIs ==
    ASSUME TypeInv, NEW p, Made(p), p.arts # <<>>
    PROVE  p.result = "ok" /\ p.kind = "" /\
           \E i \in DOMAIN config.units : p.of = config.units[i].path /\ MadeOf(p, config.units[i])
BY DEF Made, Failed

\* An artifact of no recipe: it has no files, and no limits.
LEMMA LocalIs ==
    ASSUME NEW a, NEW name, NEW v, NEW n, NEW bp, a = Artifact(name, v, n, <<>>, Nil, bp, Nil)
    PROVE  /\ a.arch = n /\ a.assets = <<>> /\ a.file = <<name, v, n>> /\ a.plan = bp
           /\ a.hash = ComputeBuildInputsHash(Nil, bp) /\ a.extract = Nil /\ VerifyBuildInputsHash(a)
BY DEF Artifact, VerifyBuildInputsHash, ArtifactAssetSHAs

\* `cooper build` accepts every artifact of every plan: the hash that a discover
\* computes, from its source, is the one that build computes, from the plan.
LEMMA ArtifactAccepted ==
    ASSUME TypeInv, NEW p, Made(p), NEW k \in DOMAIN p.arts
    PROVE  /\ VerifyBuildInputsHash(p.arts[k])
           /\ \/ p.arts[k].extract = Nil
              \/ validateExtract(p.arts[k].extract)
<1>1. p.arts # <<>>
  BY EmptyIsList
<1>2. PICK i \in DOMAIN config.units : p.of = config.units[i].path /\ MadeOf(p, config.units[i])
  BY <1>1, MadeIs
<1> DEFINE u == config.units[i]
<1>3. CASE config.tool = "cooper"
  <2>1. CooperMade(p, u)
    BY <1>2, <1>3 DEF MadeOf
  <2>2. PICK d \in DOMAIN u.docs : Pair(p.arts[k], u, u.docs[d], u.archNames[k], p.source)
    BY <2>1 DEF CooperMade
  <2>3. validateExtract(u.extract)
    BY <2>1, LoadedIs DEF CooperMade
  <2>4. QED BY <2>2, <2>3 DEF Pair
<1>4. CASE config.tool = "staves"
  <2>1. StavesMade(p, u)
    BY <1>2, <1>4 DEF MadeOf
  <2>2. PICK aux : p.arts = <<Artifact(u.name, u.version, u.arch, <<>>, Nil,
                     [epoch |-> LocalEpoch(u, p.read), nfpm |-> LocalNfpm(u), aux |-> aux], Nil)>>
    BY <2>1 DEF StavesMade
  <2>3. p.arts[k] = Artifact(u.name, u.version, u.arch, <<>>, Nil,
                     [epoch |-> LocalEpoch(u, p.read), nfpm |-> LocalNfpm(u), aux |-> aux], Nil)
    BY <2>2, OneIsList
  <2>4. QED BY <2>3, LocalIs
<1>5. CASE config.tool = "chandler"
  <2>1. ChandlerMade(p, u)
    BY <1>2, <1>5 DEF MadeOf
  <2>2. PICK aux : p.arts = <<Artifact(p.name, config.version, "all", <<>>, Nil,
                 [epoch |-> <<TargetNfpm(p.name), aux, u.Distro, u.Codename>>,
                  nfpm |-> TargetNfpm(p.name), aux |-> aux], Nil)>>
    BY <2>1 DEF ChandlerMade
  <2>3. p.arts[k] = Artifact(p.name, config.version, "all", <<>>, Nil,
                 [epoch |-> <<TargetNfpm(p.name), aux, u.Distro, u.Codename>>,
                  nfpm |-> TargetNfpm(p.name), aux |-> aux], Nil)
    BY <2>2, OneIsList
  <2>4. QED BY <2>3, LocalIs
<1>6. QED BY <1>3, <1>4, <1>5, ConfigIs

\* `cooper build` accepts the inputs hash of every artifact, for any recipes,
\* directories and targets, and any answers.
THEOREM HashesAccepted == Spec => []BuildAccepts
<1>1. TypeInv /\ MadeInv => BuildAccepts
  BY ArtifactAccepted DEF MadeInv, BuildAccepts
<1>2. QED BY <1>1, Invariant, PTL

\* No package meets a case that validation is said to rule out, and no artifact
\* has extraction limits that build refuses.
THEOREM ValidationSuffices == Spec => []ValidatedEnough
<1>1. TypeInv /\ MadeInv => ValidatedEnough
  <2>1. SUFFICES ASSUME TypeInv, MadeInv, NEW i \in DOMAIN plan
                 PROVE  /\ plan[i].kind # "bug"
                        /\ \A k \in DOMAIN plan[i].arts : plan[i].arts[k].extract # Nil =>
                             /\ plan[i].arts[k].extract.bytes = Nil
                                  \/ plan[i].arts[k].extract.bytes <= Highest.bytes
                             /\ plan[i].arts[k].extract.files <= Highest.files
    BY DEF ValidatedEnough
  <2>2. Made(plan[i])
    BY <2>1 DEF MadeInv
  <2>3. plan[i].kind # "bug"
    BY <2>2 DEF Made, Failed
  <2>4. ASSUME NEW k \in DOMAIN plan[i].arts, plan[i].arts[k].extract # Nil
        PROVE  /\ plan[i].arts[k].extract.bytes = Nil
                    \/ plan[i].arts[k].extract.bytes <= Highest.bytes
               /\ plan[i].arts[k].extract.files <= Highest.files
    <3>1. validateExtract(plan[i].arts[k].extract)
      BY <2>1, <2>2, <2>4, ArtifactAccepted
    <3>2. Highest.bytes \in Nat /\ Highest.files \in Nat
      BY RecipeAssumption
    <3> DEFINE e == plan[i].arts[k].extract
    <3>3. /\ e.bytes # Nil => e.bytes \in 1..Highest.bytes
          /\ e.files \in 0..Highest.files
      BY <2>4, <3>1 DEF validateExtract
    <3> HIDE DEF e
    <3>4. (e.bytes = Nil \/ e.bytes <= Highest.bytes) /\ e.files <= Highest.files
      BY <3>2, <3>3
    <3>5. QED BY <3>4 DEF e
  <2>5. QED BY <2>3, <2>4
<1>2. QED BY <1>1, Invariant, PTL

-----------------------------------------------------------------------------
(* One release for all packages of a recipe.                               *)

\* The plan has no package of a unit that is to come, and of the one at hand
\* only while its documents are gone over.
Fresh == \A k \in DOMAIN plan, i \in DOMAIN todo :
    plan[k].of = todo[i].path => i = 1 /\ pc = "artifacts"

\* The packages of the unit at hand are of what was resolved.
Current == pc = "artifacts" =>
    \A k \in DOMAIN plan : plan[k].of = unit.path /\ plan[k].result = "ok" => plan[k].source = cur.res

OneSource == \A k, l \in DOMAIN plan :
    plan[k].of = plan[l].of /\ plan[k].result = "ok" /\ plan[l].result = "ok"
        => plan[k].source = plan[l].source

ReleaseInv == Fresh /\ Current /\ OneSource

\* Every later unit has a path of its own.
LEMMA LaterUnits ==
    ASSUME TypeInv, pc # "idle", todo # <<>>, NEW pkg, Answer(pkg), NEW i \in DOMAIN todo'
    PROVE  i + 1 \in DOMAIN todo /\ i + 1 # 1 /\ todo'[i] = todo[i + 1] /\ todo'[i].path # unit.path
<1>1. todo' = Tail(todo)
  BY DEF Answer
<1>2. /\ List(todo') /\ i \in Nat /\ i + 1 \in DOMAIN todo /\ todo'[i] = todo[i + 1]
  BY <1>1, ListTail DEF TypeInv
<1>3. i > 0
  BY <1>2, ListIs
<1>4. /\ index + 1 \in DOMAIN config.units /\ unit = config.units[index + 1]
      /\ index + (i + 1) \in DOMAIN config.units /\ todo[i + 1] = config.units[index + (i + 1)]
      /\ index \in Nat /\ PathsApart
  BY <1>2, UnitIs DEF TypeInv
<1>5. index + 1 # index + (i + 1)
  BY <1>2, <1>3, <1>4
<1>6. todo[i + 1].path # unit.path
  BY <1>4, <1>5 DEF PathsApart
<1>7. QED BY <1>2, <1>3, <1>6

LEMMA FreshAnswer ==
    ASSUME TypeInv, Fresh, pc # "idle", todo # <<>>, NEW pkg, Answer(pkg), pkg.of = unit.path
    PROVE  Fresh'
<1>1. SUFFICES ASSUME NEW k \in DOMAIN plan', NEW i \in DOMAIN todo', plan'[k].of = todo'[i].path
               PROVE  FALSE
  BY DEF Fresh
<1>2. i + 1 \in DOMAIN todo /\ i + 1 # 1 /\ todo'[i] = todo[i + 1] /\ todo'[i].path # unit.path
  BY LaterUnits
<1>3. (k \in DOMAIN plan /\ plan'[k] = plan[k]) \/ plan'[k] = pkg
  BY ReportIs DEF Answer, TypeInv
<1>4. QED BY <1>1, <1>2, <1>3 DEF Fresh

\* A package that is added has the source of those of its unit.
LEMMA SourceAnswer ==
    ASSUME TypeInv, OneSource, NEW pkg, Report(pkg),
           \A k \in DOMAIN plan : plan[k].of = pkg.of /\ plan[k].result = "ok" /\ pkg.result = "ok"
                                      => plan[k].source = pkg.source
    PROVE  OneSource'
<1>1. SUFFICES ASSUME NEW k \in DOMAIN plan', NEW l \in DOMAIN plan', plan'[k].of = plan'[l].of,
                      plan'[k].result = "ok", plan'[l].result = "ok"
               PROVE  plan'[k].source = plan'[l].source
  BY DEF OneSource
<1>2. \A m \in DOMAIN plan' : (m \in DOMAIN plan /\ plan'[m] = plan[m]) \/ plan'[m] = pkg
  BY ReportIs DEF TypeInv
<1>3. QED BY <1>1, <1>2 DEF OneSource

\* No package is of the unit at hand, before its documents are gone over.
LEMMA NoneYet ==
    ASSUME TypeInv, Fresh, pc # "artifacts", todo # <<>>, NEW k \in DOMAIN plan
    PROVE  plan[k].of # unit.path
<1>1. 1 \in DOMAIN todo /\ unit = todo[1]
  BY ListTail DEF TypeInv, unit
<1>2. QED BY <1>1 DEF Fresh

LEMMA ReleaseNext ==
    TypeInv /\ CurInv /\ ReleaseInv /\ [Next]_vars => ReleaseInv'
<1> SUFFICES ASSUME TypeInv, CurInv, ReleaseInv, [Next]_vars PROVE Fresh' /\ Current' /\ OneSource'
  BY DEF ReleaseInv
<1> USE DEF ReleaseInv
<1>1. CASE Starts
  <2>1. DOMAIN plan' = {} /\ pc' # "artifacts"
    BY <1>1, EmptyIsList DEF Starts
  <2>2. QED BY <2>1 DEF Fresh, Current, OneSource
<1>2. CASE AnswersOnce
  <2>1. PICK pkg : pc \notin {"idle", "artifacts"} /\ todo # <<>> /\ Answer(pkg) /\ pkg.of = unit.path
    BY <1>2 DEF AnswersOnce
  <2>2. Fresh' /\ pc' # "artifacts"
    BY <2>1, FreshAnswer DEF Answer
  <2>3. \A k \in DOMAIN plan : plan[k].of # pkg.of
    BY <2>1, NoneYet
  <2>4. OneSource'
    BY <2>1, <2>3, SourceAnswer DEF Answer
  <2>5. QED BY <2>2, <2>4 DEF Current
<1>3. CASE AnswersDoc
  <2>1. PICK pkg : /\ pc = "artifacts" /\ Done(pkg) /\ pkg.of = unit.path
                   /\ Failed(pkg) \/ pkg.source = cur.res
    BY <1>3 DEF AnswersDoc
  <2>2. Report(pkg) /\ todo # <<>> /\ pc # "idle"
    BY <2>1 DEF Done, Answer, TypeInv
  <2>3. pkg.result = "ok" => pkg.source = cur.res
    BY <2>1 DEF Failed
  <2>4. OneSource'
    BY <2>1, <2>2, <2>3, SourceAnswer DEF Current
  <2>5. CASE Answer(pkg)
    BY <2>1, <2>2, <2>4, <2>5, FreshAnswer DEF Answer, Current
  <2>6. CASE Staying /\ pc' = pc /\ cur'.res = cur.res
    <3>1. unit' = unit /\ todo' = todo /\ unit = todo[1] /\ 1 \in DOMAIN todo
      BY <2>2, <2>6, ListTail DEF Staying, unit, TypeInv
    <3>2. \A k \in DOMAIN plan' : (k \in DOMAIN plan /\ plan'[k] = plan[k]) \/ plan'[k] = pkg
      BY <2>2, ReportIs DEF TypeInv
    <3>3. Fresh'
      <4>1. SUFFICES ASSUME NEW k \in DOMAIN plan', NEW i \in DOMAIN todo, plan'[k].of = todo[i].path
                     PROVE  i = 1
        BY <2>1, <2>6, <3>1 DEF Fresh
      <4>2. CASE k \in DOMAIN plan /\ plan'[k] = plan[k]
        BY <4>1, <4>2 DEF Fresh
      <4>3. CASE plan'[k] = pkg
        <5>1. /\ index + 1 \in DOMAIN config.units /\ unit = config.units[index + 1]
              /\ index + i \in DOMAIN config.units /\ todo[i] = config.units[index + i]
              /\ index \in Nat /\ PathsApart /\ i \in Nat
          BY <2>2, UnitIs, ListIs DEF TypeInv
        <5>2. index + 1 = index + i
          BY <2>1, <4>1, <4>3, <5>1 DEF PathsApart
        <5>3. QED BY <5>1, <5>2
      <4>4. QED BY <3>2, <4>2, <4>3
    <3>4. Current'
      BY <2>3, <2>6, <3>1, <3>2 DEF Current
    <3>5. QED BY <2>4, <3>3, <3>4
  <2>7. QED BY <2>1, <2>5, <2>6, DoneIs
<1>4. ASSUME plan' = plan, todo' = todo, pc # "artifacts", todo # <<>>
      PROVE  ReleaseInv'
  <2>1. unit' = unit
    BY <1>4 DEF unit
  <2>2. \A k \in DOMAIN plan : plan[k].of # unit.path
    BY <1>4, NoneYet
  <2>3. QED BY <1>4, <2>1, <2>2 DEF Fresh, Current, OneSource
<1>5. CASE GoesOn \/ Resolves
  <2>1. plan' = plan /\ todo' = todo /\ pc # "artifacts" /\ todo # <<>>
    BY <1>5 DEF GoesOn, Resolves, Staying, TypeInv
  <2>2. QED BY <1>4, <2>1
<1>6. CASE BuildGoesOn
  <2>1. plan' = plan /\ todo' = todo /\ pc' = pc /\ cur'.res = cur.res /\ unit' = unit
    BY <1>6 DEF BuildGoesOn, Staying, unit
  <2>2. QED BY <2>1 DEF Fresh, Current, OneSource
<1>7. CASE Finish
  <2>1. plan' = plan /\ DOMAIN todo' = {} /\ pc' # "artifacts"
    BY <1>7, EmptyIsList DEF Finish
  <2>2. QED BY <2>1 DEF Fresh, Current, OneSource
<1>8. CASE Rests
  <2>1. plan' = plan /\ todo' = todo /\ pc' = pc /\ cur' = cur /\ unit' = unit
    BY <1>8 DEF Rests, unit
  <2>2. QED BY <2>1 DEF Fresh, Current, OneSource
<1>9. QED BY <1>1, <1>2, <1>3, <1>5, <1>6, <1>7, <1>8, StepIs DEF Step

LEMMA ReleaseInit == Init => ReleaseInv
BY EmptyIsList DEF Init, ReleaseInv, Fresh, Current, OneSource

\* Two packages of one path are of one unit.
LEMMA SameUnit ==
    ASSUME PathsApart, NEW i \in DOMAIN config.units, NEW j \in DOMAIN config.units,
           config.units[i].path = config.units[j].path
    PROVE  config.units[i] = config.units[j]
BY DEF PathsApart

\* The packages of a recipe have the version and the files of one release, for
\* any recipe, also if the vendor publishes meanwhile.
THEOREM ReleaseShared == Spec => []OneRelease
<1>1. TypeInv /\ MadeInv /\ ReleaseInv => OneRelease
  <2>1. SUFFICES ASSUME TypeInv, MadeInv, ReleaseInv, config.tool = "cooper",
                        NEW i \in DOMAIN plan, NEW j \in DOMAIN plan, plan[i].of = plan[j].of,
                        NEW k \in DOMAIN plan[i].arts, NEW l \in DOMAIN plan[j].arts
                 PROVE  /\ plan[i].arts[k].file[2] = plan[j].arts[l].file[2]
                        /\ plan[i].arts[k].arch = plan[j].arts[l].arch
                             => plan[i].arts[k].assets = plan[j].arts[l].assets
    BY DEF OneRelease
  <2> DEFINE p == plan[i]
             q == plan[j]
  <2>2. Made(p) /\ Made(q) /\ p.arts # <<>> /\ q.arts # <<>> /\ PathsApart
    BY <2>1, EmptyIsList DEF MadeInv
  <2>3. p.result = "ok" /\ q.result = "ok" /\ p.source = q.source /\ p.of = q.of
    BY <2>1, <2>2, MadeIs DEF ReleaseInv, OneSource
  <2>10. k \in DOMAIN p.arts /\ l \in DOMAIN q.arts
    BY <2>1
  <2> HIDE DEF p, q
  <2>4. PICK m \in DOMAIN config.units : p.of = config.units[m].path /\ MadeOf(p, config.units[m])
    BY <2>1, <2>2, MadeIs
  <2>5. PICK n \in DOMAIN config.units : q.of = config.units[n].path /\ MadeOf(q, config.units[n])
    BY <2>1, <2>2, MadeIs
  <2> DEFINE u == config.units[m]
  <2>6. CooperMade(p, u) /\ CooperMade(q, u)
    BY <2>1, <2>2, <2>3, <2>4, <2>5, SameUnit DEF MadeOf
  <2> HIDE DEF u
  <2>7. PICK d \in DOMAIN u.docs : Pair(p.arts[k], u, u.docs[d], u.archNames[k], p.source)
    BY <2>6, <2>10 DEF CooperMade
  <2>8. PICK e \in DOMAIN u.docs : Pair(q.arts[l], u, u.docs[e], u.archNames[l], p.source)
    BY <2>3, <2>6, <2>10 DEF CooperMade
  <2>9. /\ p.arts[k].file[2] = q.arts[l].file[2]
        /\ p.arts[k].arch = q.arts[l].arch => p.arts[k].assets = q.arts[l].assets
    BY <2>7, <2>8 DEF Pair
  <2>11. QED BY <2>9 DEF p, q
<1>2. Spec => []ReleaseInv
  BY Invariant, ReleaseInit, ReleaseNext, PTL DEF Spec
<1>3. QED BY <1>1, <1>2, Invariant, PTL

-----------------------------------------------------------------------------
(* Every unit is answered for.                                             *)

Asked == config.filter = Nil /\ (pc # "idle" \/ plan # <<>>)

\* The last packages are those of the documents before the one at hand.
AnsweredSoFar == \E n \in 0..Len(plan) :
    /\ Len(plan) = n + cur.doc - 1
    /\ \A k \in DOMAIN plan : plan[k].of = unit.path <=> k > n
    /\ \A d \in 1..(cur.doc - 1) : plan[n + d].name = unit.docs[d].name

AnsweredUnits == \A i \in DOMAIN config.units :
    i <= index => OnePackage(config.units[i]) \/ OnePerDoc(config.units[i])

AnswerInv == Asked => AnsweredUnits /\ (pc = "artifacts" => AnsweredSoFar)

\* A plan that is not filtered has every package.
LEMMA AddedIs ==
    ASSUME TypeInv, config.filter = Nil, NEW pkg, Report(pkg)
    PROVE  /\ Len(plan) \in Nat /\ DOMAIN plan = 1..Len(plan)
           /\ Len(plan') = Len(plan) + 1 /\ DOMAIN plan' = 1..(Len(plan) + 1)
           /\ plan'[Len(plan) + 1] = pkg
           /\ \A k \in DOMAIN plan : plan'[k] = plan[k]
<1>1. plan' = Append(plan, pkg) /\ List(plan)
  BY ReportIs DEF TypeInv
<1> DEFINE s == Append(plan, pkg)
<1>2. /\ List(s) /\ Len(s) = Len(plan) + 1 /\ s[Len(plan) + 1] = pkg
      /\ \A k \in DOMAIN plan : s[k] = plan[k]
  BY <1>1, ListAppend
<1>3. Len(plan) \in Nat /\ DOMAIN plan = 1..Len(plan) /\ DOMAIN s = 1..Len(s)
  BY <1>1, <1>2, ListIs
<1>4. plan' = s
  BY <1>1
<1> HIDE DEF s
<1>5. QED BY <1>2, <1>3, <1>4

\* What was answered stays answered when a package of another unit is added.
LEMMA EarlierKept ==
    ASSUME TypeInv, config.filter = Nil, NEW pkg, Report(pkg), config' = config,
           NEW u, u.path # pkg.of, OnePackage(u) \/ OnePerDoc(u)
    PROVE  OnePackage(u)' \/ OnePerDoc(u)'
<1>1. /\ Len(plan) \in Nat /\ DOMAIN plan = 1..Len(plan)
      /\ Len(plan') = Len(plan) + 1 /\ DOMAIN plan' = 1..(Len(plan) + 1)
      /\ plan'[Len(plan) + 1] = pkg
      /\ \A k \in DOMAIN plan : plan'[k] = plan[k]
  BY AddedIs
<1>2. PICK len \in Nat : len = Len(plan) /\ DOMAIN plan = 1..len /\ DOMAIN plan' = 1..(len + 1)
  BY <1>1
<1>3. {k \in DOMAIN plan' : plan'[k].of = u.path} = {k \in DOMAIN plan : plan[k].of = u.path}
  <2>1. \A k \in DOMAIN plan' : k \in DOMAIN plan \/ k = len + 1
    BY <1>2
  <2>2. plan'[len + 1].of # u.path
    BY <1>1, <1>2
  <2>3. \A k \in DOMAIN plan : k \in DOMAIN plan'
    BY <1>2
  <2>4. QED BY <1>1, <2>1, <2>2, <2>3
<1>4. AnswersOf(u)' = AnswersOf(u)
  BY <1>3 DEF AnswersOf
<1>5. CASE OnePackage(u)
  <2>1. PICK k \in DOMAIN plan : AnswersOf(u) = {k} /\ (config.tool = "cooper" => plan[k].result = "error")
    BY <1>5 DEF OnePackage
  <2>2. k \in DOMAIN plan' /\ plan'[k] = plan[k]
    BY <1>1, <1>2
  <2>3. QED BY <1>4, <2>1, <2>2 DEF OnePackage
<1>6. CASE OnePerDoc(u)
  <2>1. PICK n \in 0..Len(plan) : /\ AnswersOf(u) = {n + d : d \in DOMAIN u.docs}
                                  /\ \A d \in DOMAIN u.docs : plan[n + d].name = u.docs[d].name
    BY <1>6 DEF OnePerDoc
  <2>2. config'.tool = "cooper"
    BY <1>6 DEF OnePerDoc
  <2>3. n \in 0..Len(plan')
    BY <1>1, <1>2
  <2>4. \A d \in DOMAIN u.docs : n + d \in DOMAIN plan
    <3>1. \A d \in DOMAIN u.docs : n + d \in AnswersOf(u)
      BY <2>1
    <3>2. QED BY <3>1 DEF AnswersOf
  <2>5. \A d \in DOMAIN u.docs : plan'[n + d].name = u.docs[d].name
    BY <1>1, <2>1, <2>4
  <2>6. QED BY <1>4, <2>1, <2>2, <2>3, <2>5 DEF OnePerDoc
<1>7. QED BY <1>5, <1>6

LEMMA AnswersKept ==
    ASSUME plan' = plan, config' = config
    PROVE  \A u : (OnePackage(u)' <=> OnePackage(u)) /\ (OnePerDoc(u)' <=> OnePerDoc(u))
BY DEF OnePackage, OnePerDoc, AnswersOf

\* A unit that had no package has this one.
LEMMA FirstAnswer ==
    ASSUME TypeInv, config.filter = Nil, NEW pkg, Report(pkg), config' = config,
           config.tool = "cooper" => pkg.result = "error",
           NEW u, u.path = pkg.of, \A k \in DOMAIN plan : plan[k].of # u.path
    PROVE  OnePackage(u)'
<1>1. /\ Len(plan) \in Nat /\ DOMAIN plan = 1..Len(plan)
      /\ DOMAIN plan' = 1..(Len(plan) + 1) /\ plan'[Len(plan) + 1] = pkg
      /\ \A k \in DOMAIN plan : plan'[k] = plan[k]
  BY AddedIs
<1>2. PICK len \in Nat : len = Len(plan) /\ DOMAIN plan = 1..len /\ DOMAIN plan' = 1..(len + 1)
  BY <1>1
<1>3. /\ len + 1 \in DOMAIN plan' /\ plan'[len + 1] = pkg
      /\ \A k \in DOMAIN plan' : plan'[k].of = u.path <=> k = len + 1
  <2>1. \A k \in DOMAIN plan' : k \in DOMAIN plan \/ k = len + 1
    BY <1>2
  <2>2. \A k \in DOMAIN plan : plan'[k].of # u.path
    BY <1>1
  <2>3. plan'[len + 1] = pkg /\ len + 1 \in DOMAIN plan'
    BY <1>1, <1>2
  <2>4. QED BY <2>1, <2>2, <2>3
<1>4. AnswersOf(u)' = {len + 1}
  BY <1>3 DEF AnswersOf
<1>5. QED BY <1>3, <1>4 DEF OnePackage

\* The document at hand follows those before it.
LEMMA DocAnswered ==
    ASSUME TypeInv, config.filter = Nil, pc = "artifacts", AnsweredSoFar,
           NEW pkg, Report(pkg), pkg.of = unit.path, pkg.name = doc.name
    PROVE  /\ cur.doc \in Nat
           /\ \E n \in 0..Len(plan') :
                /\ Len(plan') = n + cur.doc
                /\ \A k \in DOMAIN plan' : plan'[k].of = unit.path <=> k > n
                /\ \A d \in 1..cur.doc : plan'[n + d].name = unit.docs[d].name
<1>1. /\ Len(plan) \in Nat /\ DOMAIN plan = 1..Len(plan)
      /\ Len(plan') = Len(plan) + 1 /\ DOMAIN plan' = 1..(Len(plan) + 1)
      /\ plan'[Len(plan) + 1] = pkg /\ \A k \in DOMAIN plan : plan'[k] = plan[k]
  BY AddedIs
<1>2. PICK len \in Nat : len = Len(plan)
  BY <1>1
<1>3. Recipe(unit, config) /\ cur.doc \in DOMAIN unit.docs
  BY UnitIs, ConfigIs DEF TypeInv, PairAtHand
<1>4. PICK c \in Nat \ {0} : c = cur.doc
  <2>1. Len(unit.docs) \in Nat /\ DOMAIN unit.docs = 1..Len(unit.docs)
    BY <1>3, ListIs DEF Recipe
  <2>2. QED BY <1>3, <2>1
<1>5. PICK n \in 0..len : /\ len = n + c - 1
                          /\ \A k \in DOMAIN plan : plan[k].of = unit.path <=> k > n
                          /\ \A d \in 1..(c - 1) : plan[n + d].name = unit.docs[d].name
  BY <1>2, <1>4 DEF AnsweredSoFar
<1>6. /\ DOMAIN plan = 1..len /\ DOMAIN plan' = 1..(len + 1) /\ Len(plan') = len + 1
      /\ plan'[len + 1] = pkg
  BY <1>1, <1>2
<1>7. n \in 0..Len(plan') /\ Len(plan') = n + c
  BY <1>5, <1>6
<1>8. ASSUME NEW k \in DOMAIN plan' PROVE plan'[k].of = unit.path <=> k > n
  <2>1. CASE k \in DOMAIN plan
    BY <1>1, <1>5, <2>1
  <2>2. CASE k = len + 1
    <3>1. k > n /\ plan'[k].of = unit.path
      BY <1>5, <1>6, <2>2
    <3>2. QED BY <3>1
  <2>3. QED BY <1>6, <1>8, <2>1, <2>2
<1>9. ASSUME NEW d \in 1..c PROVE plan'[n + d].name = unit.docs[d].name
  <2>1. CASE d = c
    <3>1. n + d = len + 1
      BY <1>5, <2>1
    <3>2. QED BY <1>4, <1>6, <2>1, <3>1 DEF doc
  <2>2. CASE d # c
    <3>1. d \in 1..(c - 1) /\ n + d \in 1..len
      BY <1>5, <1>9, <2>2
    <3>2. plan'[n + d] = plan[n + d]
      BY <1>1, <1>6, <3>1
    <3>3. QED BY <1>5, <3>1, <3>2
  <2>3. QED BY <2>1, <2>2
<1>10. QED BY <1>4, <1>7, <1>8, <1>9

\* With the last document, the unit has one package for each.
LEMMA LastAnswered ==
    ASSUME TypeInv, config.filter = Nil, pc = "artifacts", AnsweredSoFar, config' = config,
           NEW pkg, Report(pkg), pkg.of = unit.path, pkg.name = doc.name, cur.doc = Len(unit.docs),
           NEW u, u = unit
    PROVE  OnePerDoc(u)'
<1>1. PICK n \in 0..Len(plan') :
         /\ Len(plan') = n + cur.doc
         /\ \A k \in DOMAIN plan' : plan'[k].of = u.path <=> k > n
         /\ \A d \in 1..cur.doc : plan'[n + d].name = u.docs[d].name
  BY DocAnswered
<1>2. PICK c \in Nat : c = cur.doc
  BY DocAnswered
<1>3. PICK len \in Nat : len = Len(plan') /\ DOMAIN plan' = 1..len
  <2>1. Len(plan) \in Nat /\ Len(plan') = Len(plan) + 1 /\ DOMAIN plan' = 1..(Len(plan) + 1)
    BY AddedIs
  <2>2. QED BY <2>1
<1>4. DOMAIN u.docs = 1..c
  <2>1. Recipe(u, config)
    BY UnitIs, ConfigIs DEF TypeInv
  <2>2. QED BY <1>2, <2>1, ListIs DEF Recipe
<1>5. {k \in DOMAIN plan' : plan'[k].of = u.path} = {n + d : d \in DOMAIN u.docs}
  <2>1. n \in 0..len /\ len = n + c
    BY <1>1, <1>2, <1>3
  <2>2. ASSUME NEW k \in DOMAIN plan', plan'[k].of = u.path
        PROVE  k \in {n + d : d \in DOMAIN u.docs}
    <3>1. k > n /\ k \in 1..len
      BY <1>1, <1>3, <2>2
    <3>2. k - n \in 1..c /\ k = n + (k - n)
      BY <2>1, <3>1
    <3>3. QED BY <1>4, <3>2
  <2>3. ASSUME NEW d \in DOMAIN u.docs PROVE n + d \in DOMAIN plan' /\ plan'[n + d].of = u.path
    <3>1. n + d \in 1..len /\ n + d > n
      BY <1>4, <2>1, <2>3
    <3>2. QED BY <1>1, <1>3, <3>1
  <2>4. QED BY <2>2, <2>3
<1>6. AnswersOf(u)' = {n + d : d \in DOMAIN u.docs}
  BY <1>5 DEF AnswersOf
<1>7. \A d \in DOMAIN u.docs : plan'[n + d].name = u.docs[d].name
  BY <1>1, <1>2, <1>4
<1>8. config'.tool = "cooper"
  BY DEF TypeInv
<1>9. QED BY <1>1, <1>6, <1>7, <1>8 DEF OnePerDoc

\* When a unit is done, those before it and it are answered for.
LEMMA UnitAnswered ==
    ASSUME TypeInv, AnsweredUnits, config.filter = Nil, pc # "idle", todo # <<>>,
           NEW pkg, Answer(pkg), pkg.of = unit.path,
           \A u : u = unit => OnePackage(u)' \/ OnePerDoc(u)'
    PROVE  AnsweredUnits'
<1>1. index' = index + 1 /\ config' = config /\ Report(pkg)
  BY AnswerType DEF Answer
<1>2. SUFFICES ASSUME NEW i \in DOMAIN config.units, i <= index + 1, NEW u, u = config.units[i]
               PROVE  OnePackage(u)' \/ OnePerDoc(u)'
  BY <1>1 DEF AnsweredUnits
<1>3. /\ index + 1 \in DOMAIN config.units /\ unit = config.units[index + 1]
      /\ index \in Nat /\ PathsApart /\ i \in Nat
  BY UnitIs, ListIs, ConfigIs DEF TypeInv
<1>4. CASE i = index + 1
  BY <1>2, <1>3, <1>4
<1>5. CASE i # index + 1
  <2>1. PICK m \in Nat : m = index
    BY <1>3
  <2>2. i <= m
    BY <1>2, <1>3, <1>5, <2>1
  <2>3. OnePackage(u) \/ OnePerDoc(u)
    BY <1>2, <2>1, <2>2 DEF AnsweredUnits
  <2>4. u.path # pkg.of
    BY <1>2, <1>3, <1>5 DEF PathsApart
  <2>5. QED BY <1>1, <2>3, <2>4, EarlierKept
<1>6. QED BY <1>4, <1>5

LEMMA AnswerNext ==
    TypeInv /\ CurInv /\ ReleaseInv /\ AnswerInv /\ [Next]_vars => AnswerInv'
<1> SUFFICES ASSUME TypeInv, CurInv, ReleaseInv, AnswerInv, [Next]_vars, Asked'
             PROVE  AnsweredUnits' /\ (pc' = "artifacts" => AnsweredSoFar')
  BY DEF AnswerInv
<1>1. config' = config /\ config.filter = Nil
  BY PlanStep DEF Asked
<1>2. ASSUME Asked PROVE AnsweredUnits /\ (pc = "artifacts" => AnsweredSoFar)
  BY <1>2 DEF AnswerInv
<1>3. ASSUME Asked, plan' = plan, todo' = todo PROVE AnsweredUnits'
  <2>1. index' = index
    BY <1>1, <1>3 DEF index
  <2>2. \A u : (OnePackage(u)' <=> OnePackage(u)) /\ (OnePerDoc(u)' <=> OnePerDoc(u))
    BY <1>1, <1>3, AnswersKept
  <2>3. QED BY <1>1, <1>2, <1>3, <2>1, <2>2 DEF AnsweredUnits
<1>4. CASE Starts
  <2>1. plan' = <<>> /\ pc' = "load" /\ todo' = config.units
    BY <1>4 DEF Starts, Asked
  <2>2. index' = 0
    <3>1. Len(config.units) \in Nat
      BY ConfigIs, ListIs
    <3>2. QED BY <1>1, <2>1, <3>1 DEF index
  <2>3. \A i \in DOMAIN config.units : i \in Nat /\ i > 0
    BY ConfigIs, ListIs
  <2>4. \A i \in DOMAIN config.units : ~(i <= index')
    BY <2>2, <2>3
  <2>5. QED BY <1>1, <2>1, <2>4 DEF AnsweredUnits
<1>5. CASE AnswersOnce
  <2>1. PICK pkg : /\ pc \notin {"idle", "artifacts"} /\ todo # <<>> /\ Answer(pkg)
                   /\ pkg.of = unit.path /\ (config.tool = "cooper" => Failed(pkg))
    BY <1>5 DEF AnswersOnce
  <2>2. Asked /\ pc' = "load" /\ Report(pkg)
    BY <1>1, <2>1 DEF Asked, Answer
  <2>3. \A k \in DOMAIN plan : plan[k].of # unit.path
    BY <2>1, NoneYet DEF ReleaseInv
  <2>4. \A u : u = unit => OnePackage(u)'
    BY <1>1, <2>1, <2>2, <2>3, FirstAnswer DEF Failed
  <2>5. AnsweredUnits'
    BY <1>1, <1>2, <2>1, <2>2, <2>4, UnitAnswered
  <2>6. QED BY <2>2, <2>5
<1>6. CASE AnswersDoc
  <2>1. PICK pkg : pc = "artifacts" /\ Done(pkg) /\ pkg.of = unit.path /\ pkg.name = doc.name
    BY <1>6 DEF AnswersDoc
  <2>2. Asked /\ todo # <<>> /\ Report(pkg) /\ pc # "idle"
    BY <1>1, <2>1 DEF Asked, Done, Answer, TypeInv
  <2>3. AnsweredUnits /\ AnsweredSoFar
    BY <1>2, <2>1, <2>2
  <2>4. CASE cur.doc = Len(unit.docs) /\ Answer(pkg)
    <3>1. \A u : u = unit => OnePerDoc(u)'
      BY <1>1, <2>1, <2>2, <2>3, <2>4, LastAnswered
    <3>2. AnsweredUnits'
      BY <1>1, <2>1, <2>2, <2>3, <2>4, <3>1, UnitAnswered
    <3>3. pc' = "load"
      BY <2>4 DEF Answer
    <3>4. QED BY <3>2, <3>3
  <2>5. CASE Staying /\ pc' = pc /\ cur'.doc = cur.doc + 1
    <3>1. unit' = unit /\ index' = index
      BY <2>5 DEF Staying, unit, index
    <3>2. AnsweredUnits'
      <4>1. SUFFICES ASSUME NEW i \in DOMAIN config.units, i <= index, NEW u, u = config.units[i]
                     PROVE  OnePackage(u)' \/ OnePerDoc(u)'
        BY <1>1, <3>1 DEF AnsweredUnits
      <4>2. /\ index + 1 \in DOMAIN config.units /\ unit = config.units[index + 1]
            /\ index \in Nat /\ PathsApart /\ i \in Nat
        BY <2>2, UnitIs, ListIs, ConfigIs DEF TypeInv
      <4>3. PICK m \in Nat : m = index
        BY <4>2
      <4>4. i # m + 1
        BY <4>1, <4>2, <4>3
      <4>5. u.path # pkg.of
        BY <2>1, <4>1, <4>2, <4>3, <4>4 DEF PathsApart
      <4>6. OnePackage(u) \/ OnePerDoc(u)
        BY <2>3, <4>1 DEF AnsweredUnits
      <4>7. QED BY <1>1, <2>2, <4>5, <4>6, EarlierKept
    <3>3. AnsweredSoFar'
      <4>1. PICK n \in 0..Len(plan') :
               /\ Len(plan') = n + cur.doc
               /\ \A k \in DOMAIN plan' : plan'[k].of = unit.path <=> k > n
               /\ \A d \in 1..cur.doc : plan'[n + d].name = unit.docs[d].name
        BY <1>1, <2>1, <2>2, <2>3, DocAnswered
      <4>2. PICK c \in Nat : c = cur.doc
        BY <1>1, <2>1, <2>2, <2>3, DocAnswered
      <4>3. cur'.doc = c + 1 /\ Len(plan') = n + c
        BY <2>5, <4>1, <4>2
      <4>4. Len(plan) \in Nat /\ Len(plan') = Len(plan) + 1
        BY <1>1, <2>2, AddedIs
      <4>5. n \in Nat
        BY <4>1, <4>4
      <4>6. Len(plan') = n + (c + 1) - 1 /\ 1..((c + 1) - 1) = 1..c
        BY <4>3, <4>5
      <4>7. /\ Len(plan') = n + cur'.doc - 1
            /\ \A d \in 1..(cur'.doc - 1) : plan'[n + d].name = unit'.docs[d].name
        BY <3>1, <4>1, <4>2, <4>3, <4>6
      <4>8. QED BY <3>1, <4>1, <4>7 DEF AnsweredSoFar
    <3>4. QED BY <3>2, <3>3
  <2>6. QED BY <2>1, <2>4, <2>5, DoneIs
<1>7. CASE GoesOn
  <2>1. Asked /\ plan' = plan /\ todo' = todo /\ pc' # "artifacts"
    BY <1>1, <1>7 DEF GoesOn, Asked, Staying
  <2>2. QED BY <1>3, <2>1
<1>8. CASE Resolves
  <2>1. Asked /\ plan' = plan /\ todo' = todo /\ todo # <<>> /\ cur'.doc = 1 /\ pc # "artifacts"
    BY <1>1, <1>8 DEF Resolves, Asked, Staying, TypeInv
  <2>2. unit' = unit
    BY <2>1 DEF unit
  <2>3. \A k \in DOMAIN plan : plan[k].of # unit.path
    BY <2>1, NoneYet DEF ReleaseInv
  <2>4. PICK n \in Nat : n = Len(plan) /\ DOMAIN plan = 1..n
    BY ListIs DEF TypeInv
  <2>5. /\ n \in 0..n /\ n = n + 1 - 1 /\ 1..(1 - 1) = {} /\ \A k \in DOMAIN plan : ~(k > n)
    BY <2>4
  <2>6. AnsweredSoFar'
    BY <2>1, <2>2, <2>3, <2>4, <2>5 DEF AnsweredSoFar
  <2>7. QED BY <1>3, <2>1, <2>6
<1>9. CASE BuildGoesOn
  <2>1. /\ plan' = plan /\ todo' = todo /\ pc' = pc /\ cur'.doc = cur.doc /\ unit' = unit
    BY <1>9 DEF BuildGoesOn, Staying, unit
  <2>2. Asked
    BY <1>1, <2>1 DEF Asked
  <2>3. pc = "artifacts" => AnsweredSoFar'
    BY <1>2, <2>1, <2>2 DEF AnsweredSoFar
  <2>4. QED BY <1>3, <2>1, <2>2, <2>3
<1>10. CASE Finish
  <2>1. plan' = plan /\ todo' = todo /\ pc' = "idle" /\ pc = "load"
    BY <1>10 DEF Finish
  <2>2. Asked
    BY <1>1, <2>1 DEF Asked
  <2>3. QED BY <1>3, <2>1, <2>2
<1>11. CASE Rests
  <2>1. /\ plan' = plan /\ todo' = todo /\ pc' = pc /\ cur' = cur /\ unit' = unit
    BY <1>11 DEF Rests, unit
  <2>2. Asked
    BY <1>1, <2>1 DEF Asked
  <2>3. pc = "artifacts" => AnsweredSoFar'
    BY <1>2, <2>1, <2>2 DEF AnsweredSoFar
  <2>4. QED BY <1>3, <2>1, <2>2, <2>3
<1>12. QED
  BY <1>4, <1>5, <1>6, <1>7, <1>8, <1>9, <1>10, <1>11, StepIs DEF Step

LEMMA AnswerInit == Init => AnswerInv
BY DEF Init, AnswerInv, Asked

\* A package without error has an artifact for every architecture.
LEMMA MadeComplete ==
    ASSUME TypeInv, PathsApart, NEW p, Made(p), p.result = "ok",
           NEW i \in DOMAIN config.units, p.of = config.units[i].path
    PROVE  Complete(config.units[i], p)
<1>1. PICK j \in DOMAIN config.units : p.of = config.units[j].path /\ MadeOf(p, config.units[j])
  BY DEF Made, Failed
<1>2. MadeOf(p, config.units[i])
  BY <1>1, SameUnit
<1>3. CASE config.tool = "cooper"
  BY <1>2, <1>3 DEF MadeOf, CooperMade, Complete
<1>4. CASE config.tool # "cooper"
  <2>1. \E x : p.arts = <<x>>
    BY <1>2, <1>4 DEF MadeOf, StavesMade, ChandlerMade
  <2>2. Len(p.arts) = 1
    BY <2>1, OneIsList
  <2>3. QED BY <1>4, <2>2 DEF Complete
<1>5. QED BY <1>3, <1>4

\* A plan that is not filtered answers every unit of the configuration, and the
\* packages in it are complete; for any recipes, directories and targets, and
\* whatever fails.
THEOREM NothingLeftOut == Spec => []EveryDocAnswered
<1>1. TypeInv /\ MadeInv /\ AnswerInv => EveryDocAnswered
  <2>1. SUFFICES ASSUME TypeInv, MadeInv, AnswerInv, pc = "idle", plan # <<>>, config.filter = Nil,
                        NEW i \in DOMAIN config.units
                 PROVE  /\ OnePackage(config.units[i]) \/ OnePerDoc(config.units[i])
                        /\ \A k \in AnswersOf(config.units[i]) :
                             plan[k].result = "ok" => Complete(config.units[i], plan[k])
    BY DEF EveryDocAnswered
  <2>2. i <= index
    <3>1. Len(todo) = 0
      BY <2>1, EmptyIsList DEF TypeInv
    <3>2. PICK n \in Nat : n = Len(config.units) /\ DOMAIN config.units = 1..n
      BY <2>1, ConfigIs, ListIs
    <3>3. index = n
      BY <3>1, <3>2 DEF index
    <3>4. i \in 1..n
      BY <3>2
    <3>5. QED BY <3>3, <3>4
  <2>3. OnePackage(config.units[i]) \/ OnePerDoc(config.units[i])
    BY <2>1, <2>2 DEF AnswerInv, Asked, AnsweredUnits
  <2>4. ASSUME NEW k \in AnswersOf(config.units[i]), plan[k].result = "ok"
        PROVE  Complete(config.units[i], plan[k])
    <3>1. k \in DOMAIN plan /\ plan[k].of = config.units[i].path
      BY <2>4 DEF AnswersOf
    <3>2. Made(plan[k]) /\ PathsApart
      BY <2>1, <3>1 DEF MadeInv
    <3>3. QED BY <2>1, <2>4, <3>1, <3>2, MadeComplete
  <2>5. QED BY <2>3, <2>4
<1>2. Spec => [](ReleaseInv /\ AnswerInv)
  BY Invariant, ReleaseInit, ReleaseNext, AnswerInit, AnswerNext, PTL DEF Spec
<1>3. QED BY <1>1, <1>2, Invariant, PTL

-----------------------------------------------------------------------------
(* Hashes.                                                                 *)

LEMMA ArtifactIs ==
    ASSUME NEW x \in Artifacts
    PROVE  \E p \in emitted : \E k \in DOMAIN p.arts :
             /\ x.pkg = p.name /\ x.of = p.of /\ x.source = p.source /\ x.read = p.read
             /\ x.art = p.arts[k]
BY DEF Artifacts

\* The bodies of files, without what their templates were rendered with.
Bodies(aux) == [f \in DOMAIN aux |-> aux[f].body]

LEMMA SameBodies ==
    ASSUME NEW x, NEW y, NEW vs, Rendered(x, vs), Rendered(y, vs), Bodies(x) = Bodies(y)
    PROVE  x = y
<1>1. DOMAIN x = DOMAIN y
  <2>1. DOMAIN Bodies(x) = DOMAIN x /\ DOMAIN Bodies(y) = DOMAIN y
    BY DEF Bodies
  <2>2. QED BY <2>1
<1>2. \A f \in DOMAIN x : x[f].body = y[f].body
  <2>1. \A f \in DOMAIN x : Bodies(x)[f] = x[f].body /\ Bodies(y)[f] = y[f].body
    BY <1>1 DEF Bodies
  <2>2. QED BY <2>1
<1>3. /\ x = [f \in DOMAIN x |-> [body |-> x[f].body, vars |-> IF f[2] THEN vs ELSE Nil]]
      /\ y = [f \in DOMAIN y |-> [body |-> y[f].body, vars |-> IF f[2] THEN vs ELSE Nil]]
  BY Zenon DEF Rendered
<1> DEFINE g == [f \in DOMAIN x |-> [body |-> x[f].body, vars |-> IF f[2] THEN vs ELSE Nil]]
           h == [f \in DOMAIN y |-> [body |-> y[f].body, vars |-> IF f[2] THEN vs ELSE Nil]]
<1>4. g = h
  BY <1>1, <1>2
<1>5. x = g /\ y = h
  BY <1>3, Zenon
<1> HIDE DEF g, h
<1>6. QED BY <1>4, <1>5

LEMMA CooperStable ==
    ASSUME NEW r, List(r.docs), NEW p, NEW q, CooperMade(p, r), CooperMade(q, r),
           NEW k \in DOMAIN p.arts, NEW l \in DOMAIN q.arts,
           p.name = q.name, p.source = q.source, p.arts[k].arch = q.arts[l].arch,
           Bodies(p.arts[k].plan.aux) = Bodies(q.arts[l].plan.aux)
    PROVE  p.arts[k].hash = q.arts[l].hash
<1>1. PICK d \in DOMAIN r.docs :
         p.name = r.docs[d].name /\ Pair(p.arts[k], r, r.docs[d], r.archNames[k], p.source)
  BY DEF CooperMade
<1>2. PICK e \in DOMAIN r.docs :
         q.name = r.docs[e].name /\ Pair(q.arts[l], r, r.docs[e], r.archNames[l], q.source)
  BY DEF CooperMade
<1>3. d = e
  <2> DEFINE s == [i \in DOMAIN r.docs |-> r.docs[i].name]
  <2>1. LoadPackage(r)
    BY DEF CooperMade
  <2>2. Distinct(s)
    BY <2>1, LoadedIs
  <2>3. PICK n \in Nat : DOMAIN r.docs = 1..n
    BY ListIs
  <2>4. DOMAIN s = 1..n /\ s = [i \in 1..n |-> s[i]] /\ s[d] = s[e] /\ d \in 1..n /\ e \in 1..n
    BY <1>1, <1>2, <2>3
  <2> HIDE DEF s
  <2>5. QED BY <2>2, <2>3, <2>4, DistinctIs
<1> DEFINE a == p.arts[k]
           b == q.arts[l]
           n == r.archNames[k]
           res == p.source
           vs == [version |-> res.version, arch |-> n, published |-> res.epoch]
<1>4. Pair(a, r, r.docs[d], n, res) /\ Pair(b, r, r.docs[d], r.archNames[l], res)
  BY <1>1, <1>2, <1>3
<1>5. a.arch = b.arch /\ Bodies(a.plan.aux) = Bodies(b.plan.aux)
  OBVIOUS
<1>6. n = r.archNames[l]
  <2> HIDE DEF a, b, n, res
  <2>1. a.arch = n /\ b.arch = r.archNames[l]
    BY <1>4 DEF Pair
  <2>2. QED BY <1>5, <2>1
<1>7. Pair(b, r, r.docs[d], n, res)
  BY <1>4, <1>6
<1> HIDE DEF a, b, n, res
<1>8. a.plan.aux = b.plan.aux
  <2>1. Rendered(a.plan.aux, vs) /\ Rendered(b.plan.aux, vs)
    BY <1>4, <1>7 DEF Pair
  <2> HIDE DEF vs
  <2>2. QED BY <1>5, <2>1, SameBodies
<1>9. a.plan = b.plan
  <2> DEFINE nfpm == SubstituteNfpm(r.docs[d], n, res.version, r.arches[n].vars).val
  <2>1. /\ a.plan = [epoch |-> res.epoch, aux |-> a.plan.aux, nfpm |-> nfpm]
        /\ b.plan = [epoch |-> res.epoch, aux |-> b.plan.aux, nfpm |-> nfpm]
    BY <1>4, <1>7 DEF Pair
  <2> HIDE DEF nfpm
  <2>2. QED BY <1>8, <2>1
<1>10. /\ a.hash = ComputeBuildInputsHash(DigestsOf(r, a.assets), a.plan)
       /\ b.hash = ComputeBuildInputsHash(DigestsOf(r, b.assets), b.plan)
       /\ a.assets = b.assets
  BY <1>4, <1>7 DEF Pair
<1>11. a.hash = b.hash
  BY <1>9, <1>10
<1>12. QED BY <1>11 DEF a, b

\* The one artifact of a directory, and of a target.
LEMMA StavesIs ==
    ASSUME NEW p, NEW d, StavesMade(p, d), NEW k \in DOMAIN p.arts
    PROVE  /\ Rendered(p.arts[k].plan.aux,
                 [version |-> d.version, arch |-> d.arch, published |-> LocalEpoch(d, p.read)])
           /\ DOMAIN p.arts[k].plan.aux = DOMAIN p.read
           /\ p.arts[k].file[2] = d.version
           /\ p.arts[k].hash = ComputeBuildInputsHash(Nil,
                 [epoch |-> LocalEpoch(d, p.read), nfpm |-> LocalNfpm(d), aux |-> p.arts[k].plan.aux])
<1>1. PICK aux :
         /\ Rendered(aux, [version |-> d.version, arch |-> d.arch, published |-> LocalEpoch(d, p.read)])
         /\ DOMAIN aux = DOMAIN p.read
         /\ p.arts = <<Artifact(d.name, d.version, d.arch, <<>>, Nil,
                          [epoch |-> LocalEpoch(d, p.read), nfpm |-> LocalNfpm(d), aux |-> aux], Nil)>>
  BY DEF StavesMade
<1> DEFINE bp == [epoch |-> LocalEpoch(d, p.read), nfpm |-> LocalNfpm(d), aux |-> aux]
           a == Artifact(d.name, d.version, d.arch, <<>>, Nil, bp, Nil)
<1>2. p.arts[k] = a
  BY <1>1, OneIsList
<1>3. bp.aux = aux
  OBVIOUS
<1>4. a.plan = bp /\ a.hash = ComputeBuildInputsHash(Nil, bp) /\ a.file = <<d.name, d.version, d.arch>>
  <2> HIDE DEF bp
  <2>1. QED BY LocalIs
<1> HIDE DEF a
<1>5. p.arts[k].plan.aux = aux
  BY <1>2, <1>3, <1>4
<1>6. QED BY <1>1, <1>2, <1>4, <1>5

LEMMA ChandlerIs ==
    ASSUME NEW p, NEW t, ChandlerMade(p, t), NEW k \in DOMAIN p.arts
    PROVE  /\ p.arts[k].file[2] = config.version
           /\ p.arts[k].hash = ComputeBuildInputsHash(Nil,
                 [epoch |-> <<TargetNfpm(p.name), p.arts[k].plan.aux, t.Distro, t.Codename>>,
                  nfpm |-> TargetNfpm(p.name), aux |-> p.arts[k].plan.aux])
<1>1. PICK aux : p.arts = <<Artifact(p.name, config.version, "all", <<>>, Nil,
                   [epoch |-> <<TargetNfpm(p.name), aux, t.Distro, t.Codename>>,
                    nfpm |-> TargetNfpm(p.name), aux |-> aux], Nil)>>
  BY DEF ChandlerMade
<1> DEFINE bp == [epoch |-> <<TargetNfpm(p.name), aux, t.Distro, t.Codename>>,
                  nfpm |-> TargetNfpm(p.name), aux |-> aux]
           a == Artifact(p.name, config.version, "all", <<>>, Nil, bp, Nil)
<1>2. p.arts[k] = a
  BY <1>1, OneIsList
<1>3. bp.aux = aux
  OBVIOUS
<1>4. a.plan = bp /\ a.hash = ComputeBuildInputsHash(Nil, bp) /\ a.file = <<p.name, config.version, "all">>
  <2> HIDE DEF bp
  <2>1. QED BY LocalIs
<1> HIDE DEF a
<1>5. p.arts[k].plan.aux = aux
  BY <1>2, <1>3, <1>4
<1>6. QED BY <1>2, <1>4, <1>5

\* Of what one unit answers in different runs, and in one.
LEMMA OneUnit ==
    ASSUME TypeInv, MadeInv, NEW p \in emitted, NEW q \in emitted, p.of = q.of,
           NEW k \in DOMAIN p.arts, NEW l \in DOMAIN q.arts
    PROVE  \E i \in DOMAIN config.units : MadeOf(p, config.units[i]) /\ MadeOf(q, config.units[i])
<1>1. Made(p) /\ Made(q) /\ p.arts # <<>> /\ q.arts # <<>> /\ PathsApart
  BY EmptyIsList DEF MadeInv
<1>2. PICK i \in DOMAIN config.units : p.of = config.units[i].path /\ MadeOf(p, config.units[i])
  BY <1>1, MadeIs
<1>3. PICK j \in DOMAIN config.units : q.of = config.units[j].path /\ MadeOf(q, config.units[j])
  BY <1>1, MadeIs
<1>4. config.units[i] = config.units[j]
  BY <1>1, <1>2, <1>3, SameUnit
<1>5. QED BY <1>2, <1>3, <1>4

\* The inputs hash of an artifact is a function of its package, its
\* architecture, what the vendor answered and the files: a later run that finds
\* the same has the same hash, so nothing is built again.
THEOREM HashIsStable == Spec => []Stable
<1>1. TypeInv /\ MadeInv => Stable
  <2>1. SUFFICES ASSUME TypeInv, MadeInv, NEW x \in Artifacts, NEW y \in Artifacts,
                        Undisturbed(x), Undisturbed(y),
                        SameDeb(x, y), x.source = y.source, Contents(x) = Contents(y)
                 PROVE  x.art.hash = y.art.hash
    BY DEF Stable
  <2>2. PICK p \in emitted : \E m \in DOMAIN p.arts :
           /\ x.pkg = p.name /\ x.of = p.of /\ x.source = p.source /\ x.read = p.read
           /\ x.art = p.arts[m]
    BY ArtifactIs
  <2>3. PICK k \in DOMAIN p.arts :
           /\ x.pkg = p.name /\ x.of = p.of /\ x.source = p.source /\ x.read = p.read
           /\ x.art = p.arts[k]
    BY <2>2
  <2>4. PICK q \in emitted : \E m \in DOMAIN q.arts :
           /\ y.pkg = q.name /\ y.of = q.of /\ y.source = q.source /\ y.read = q.read
           /\ y.art = q.arts[m]
    BY ArtifactIs
  <2>5. PICK l \in DOMAIN q.arts :
           /\ y.pkg = q.name /\ y.of = q.of /\ y.source = q.source /\ y.read = q.read
           /\ y.art = q.arts[l]
    BY <2>4
  <2>6. p.name = q.name /\ p.of = q.of /\ x.art.arch = y.art.arch
    BY <2>1, <2>3, <2>5 DEF SameDeb
  <2>7. PICK i \in DOMAIN config.units : MadeOf(p, config.units[i]) /\ MadeOf(q, config.units[i])
    BY <2>1, <2>6, OneUnit
  <2> DEFINE u == config.units[i]
             f == x.art.plan.aux
             g == y.art.plan.aux
  <2>8. CASE config.tool = "cooper"
    <3>1. CooperMade(p, u) /\ CooperMade(q, u) /\ List(u.docs)
      BY <2>1, <2>7, <2>8, ConfigIs DEF MadeOf, Recipe
    <3>2. Bodies(f) = Bodies(g)
      BY <2>1, <2>8 DEF Contents, Bodies
    <3> HIDE DEF u
    <3>3. Bodies(p.arts[k].plan.aux) = Bodies(q.arts[l].plan.aux)
      BY <2>3, <2>5, <3>2
    <3>4. p.source = q.source /\ p.arts[k].arch = q.arts[l].arch
      BY <2>1, <2>3, <2>5, <2>6
    <3>5. p.arts[k].hash = q.arts[l].hash
      BY <2>6, <3>1, <3>3, <3>4, CooperStable
    <3>6. QED BY <2>3, <2>5, <3>5
  <2>9. CASE config.tool = "staves"
    <3>1. StavesMade(p, u) /\ StavesMade(q, u)
      BY <2>7, <2>9 DEF MadeOf
    <3> HIDE DEF u
    <3> DEFINE vs(read) == [version |-> u.version, arch |-> u.arch, published |-> LocalEpoch(u, read)]
    <3>2. /\ Rendered(f, vs(p.read)) /\ DOMAIN f = DOMAIN p.read
          /\ x.art.hash = ComputeBuildInputsHash(Nil,
                [epoch |-> LocalEpoch(u, p.read), nfpm |-> LocalNfpm(u), aux |-> f])
      BY <2>3, <3>1, StavesIs
    <3>3. /\ Rendered(g, vs(q.read)) /\ DOMAIN g = DOMAIN q.read
          /\ y.art.hash = ComputeBuildInputsHash(Nil,
                [epoch |-> LocalEpoch(u, q.read), nfpm |-> LocalNfpm(u), aux |-> g])
      BY <2>5, <3>1, StavesIs
    <3>4. Bodies(f) = Bodies(g)
      BY <2>1, <2>9 DEF Contents, Bodies
    <3>5. /\ x.read = [h \in DOMAIN x.read |-> x.art.plan.aux[h].body]
          /\ y.read = [h \in DOMAIN y.read |-> y.art.plan.aux[h].body]
      BY <2>1, <2>9 DEF Undisturbed
    <3>6. x.read = Bodies(f) /\ y.read = Bodies(g)
      <4>1. DOMAIN x.read = DOMAIN x.art.plan.aux /\ DOMAIN y.read = DOMAIN y.art.plan.aux
        BY <2>3, <2>5, <3>2, <3>3
      <4>2. QED BY <3>5, <4>1 DEF Bodies
    <3>7. p.read = q.read
      BY <2>3, <2>5, <3>4, <3>6
    <3> HIDE DEF f, g, vs
    <3>8. f = g
      BY <3>2, <3>3, <3>4, <3>7, SameBodies
    <3>9. QED BY <3>2, <3>3, <3>7, <3>8
  <2>10. CASE config.tool = "chandler"
    <3>1. ChandlerMade(p, u) /\ ChandlerMade(q, u)
      BY <2>7, <2>10 DEF MadeOf
    <3> HIDE DEF u
    <3>2. x.art.hash = ComputeBuildInputsHash(Nil,
             [epoch |-> <<TargetNfpm(p.name), f, u.Distro, u.Codename>>,
              nfpm |-> TargetNfpm(p.name), aux |-> f])
      BY <2>3, <3>1, ChandlerIs
    <3>3. y.art.hash = ComputeBuildInputsHash(Nil,
             [epoch |-> <<TargetNfpm(q.name), g, u.Distro, u.Codename>>,
              nfpm |-> TargetNfpm(q.name), aux |-> g])
      BY <2>5, <3>1, ChandlerIs
    <3>4. f = g
      BY <2>1, <2>10 DEF Contents
    <3> HIDE DEF f, g
    <3>5. QED BY <2>6, <3>2, <3>3, <3>4
  <2>11. QED BY <2>1, <2>8, <2>9, <2>10, ConfigIs
<1>2. QED BY <1>1, Invariant, PTL

\* What a forge says of two releases with one date is of one version.  The hash
\* has the date of a release in it, and its version only if the document has.
DateTellsVersion == \A c \in Configs : c.tool = "cooper" =>
    \A i \in DOMAIN c.units : Forge(c.units[i]) /\ LoadPackage(c.units[i]) =>
        \A a, b \in Offers[c.units[i].url] :
            LET x == ResolveSource(c.units[i], a)
                y == ResolveSource(c.units[i], b)
            IN x.err = "" /\ y.err = "" /\ x.val.epoch = y.val.epoch => x.val.version = y.val.version

\* A document or a script's reply has no date: its epoch has the version.
LEMMA EpochOfVersion ==
    ASSUME NEW r, ~Forge(r), NEW res, Resolved(r, res)
    PROVE  res.epoch[2] = res.version
<1>1. PICK answer : ResolveSource(r, answer).err = "" /\ res = ResolveSource(r, answer).val
  BY DEF Resolved
<1> DEFINE v == Stripped(r, answer.version)
<1>2. ResolveSource(r, answer) =
         IF r.sources \cap Kinds = {} THEN Err("bug")
         ELSE IF r.sources = {"external"} /\ ~ResolveExternal(answer) THEN Err("discovery")
         ELSE IF v.err # "" THEN v
         ELSE IF ~MatchesDebianGrammar(v.val) THEN Err("version")
         ELSE IF r.sources = {"external"} /\ ~SameArches(r, answer) THEN Err("discovery")
         ELSE Resolution(answer, v.val, DeriveEpoch(r.url, v.val))
  BY DEF ResolveSource
<1> HIDE DEF v
<1>3. "bug" # "" /\ "discovery" # "" /\ "version" # ""
  OBVIOUS
<1>4. ResolveSource(r, answer) = Resolution(answer, v.val, DeriveEpoch(r.url, v.val))
  BY <1>1, <1>2, <1>3, ErrIs
<1>5. res = [body |-> answer, version |-> v.val, epoch |-> DeriveEpoch(r.url, v.val)]
  BY <1>1, <1>4, OkIs DEF Resolution
<1>6. DeriveEpoch(r.url, v.val)[2] = v.val
  BY DEF DeriveEpoch
<1>7. QED BY <1>5, <1>6

LEMMA EpochTells ==
    ASSUME DateTellsVersion, TypeInv, config.tool = "cooper", NEW i \in DOMAIN config.units,
           LoadPackage(config.units[i]), NEW x, NEW y, Resolved(config.units[i], x), Resolved(config.units[i], y), x.epoch = y.epoch
    PROVE  x.version = y.version
<1>1. config \in Configs
  BY DEF TypeInv
<1>2. CASE Forge(config.units[i])
  BY <1>1, <1>2 DEF DateTellsVersion, Resolved
<1>3. CASE ~Forge(config.units[i])
  <2>1. x.epoch[2] = x.version /\ y.epoch[2] = y.version
    BY <1>3, EpochOfVersion
  <2>2. QED BY <2>1
<1>4. QED BY <1>2, <1>3

\* A new version has a new inputs hash, also if the plan has no digests and the
\* document does not have its version; if a forge dates its releases apart.
THEOREM VersionsHashApart ==
    ASSUME DateTellsVersion
    PROVE  Spec => []NewVersionNewHash
<1>1. TypeInv /\ MadeInv => NewVersionNewHash
  <2>1. SUFFICES ASSUME TypeInv, MadeInv, NEW x \in Artifacts, NEW y \in Artifacts,
                        SameDeb(x, y), x.art.hash = y.art.hash
                 PROVE  x.art.file[2] = y.art.file[2]
    BY DEF NewVersionNewHash
  <2>2. PICK p \in emitted : \E m \in DOMAIN p.arts :
           x.pkg = p.name /\ x.of = p.of /\ x.art = p.arts[m]
    BY ArtifactIs
  <2>3. PICK k \in DOMAIN p.arts : x.pkg = p.name /\ x.of = p.of /\ x.art = p.arts[k]
    BY <2>2
  <2>4. PICK q \in emitted : \E m \in DOMAIN q.arts :
           y.pkg = q.name /\ y.of = q.of /\ y.art = q.arts[m]
    BY ArtifactIs
  <2>5. PICK l \in DOMAIN q.arts : y.pkg = q.name /\ y.of = q.of /\ y.art = q.arts[l]
    BY <2>4
  <2>6. p.of = q.of
    BY <2>1, <2>3, <2>5 DEF SameDeb
  <2>7. PICK i \in DOMAIN config.units : MadeOf(p, config.units[i]) /\ MadeOf(q, config.units[i])
    BY <2>1, <2>6, OneUnit
  <2> DEFINE u == config.units[i]
             a == x.art
             b == y.art
  <2>8. CASE config.tool = "cooper"
    <3>1. CooperMade(p, u) /\ CooperMade(q, u)
      BY <2>7, <2>8 DEF MadeOf
    <3>2. LoadPackage(u) /\ Resolved(u, p.source) /\ Resolved(u, q.source)
      BY <3>1 DEF CooperMade
    <3>3. p.source.epoch = q.source.epoch => p.source.version = q.source.version
      BY <2>1, <2>8, <3>2, EpochTells
    <3> HIDE DEF u
    <3>4. PICK d \in DOMAIN u.docs : Pair(p.arts[k], u, u.docs[d], u.archNames[k], p.source)
      BY <3>1 DEF CooperMade
    <3>5. PICK e \in DOMAIN u.docs : Pair(q.arts[l], u, u.docs[e], u.archNames[l], q.source)
      BY <3>1 DEF CooperMade
    <3>6. /\ a.file[2] = p.source.version /\ a.plan.epoch = p.source.epoch
          /\ a.hash = ComputeBuildInputsHash(DigestsOf(u, a.assets), a.plan)
      BY <2>3, <3>4 DEF Pair
    <3>7. /\ b.file[2] = q.source.version /\ b.plan.epoch = q.source.epoch
          /\ b.hash = ComputeBuildInputsHash(DigestsOf(u, b.assets), b.plan)
      BY <2>5, <3>5 DEF Pair
    <3>8. a.hash = b.hash
      BY <2>1
    <3> HIDE DEF a, b
    <3>9. a.plan = b.plan
      BY <3>6, <3>7, <3>8 DEF ComputeBuildInputsHash
    <3>10. a.file[2] = b.file[2]
      BY <3>3, <3>6, <3>7, <3>9
    <3>11. QED BY <3>10 DEF a, b
  <2>9. CASE config.tool = "staves"
    <3>1. StavesMade(p, u) /\ StavesMade(q, u)
      BY <2>7, <2>9 DEF MadeOf
    <3> HIDE DEF u
    <3>2. p.arts[k].file[2] = u.version
      BY <3>1, StavesIs
    <3>3. q.arts[l].file[2] = u.version
      BY <3>1, StavesIs
    <3>4. QED BY <2>3, <2>5, <3>2, <3>3
  <2>10. CASE config.tool = "chandler"
    <3>1. ChandlerMade(p, u) /\ ChandlerMade(q, u)
      BY <2>7, <2>10 DEF MadeOf
    <3> HIDE DEF u
    <3>2. p.arts[k].file[2] = config.version
      BY <3>1, ChandlerIs
    <3>3. q.arts[l].file[2] = config.version
      BY <3>1, ChandlerIs
    <3>4. QED BY <2>3, <2>5, <3>2, <3>3
  <2>11. QED BY <2>1, <2>8, <2>9, <2>10, ConfigIs
<1>2. QED BY <1>1, Invariant, PTL

=============================================================================
