----------------------------- MODULE ExportProofs -----------------------------
(***************************************************************************)
(* Proofs about Export, for any wanted exports and any number of changes   *)
(* and failures: at a root without a prefix, InRelease never names a file  *)
(* that is not there, and a completed export leaves exactly its files and  *)
(* what failed ones lost.                                                  *)
(***************************************************************************)
EXTENDS Export, TLAPS

\* An export at Bare has the InRelease, and with it what that names.
LEMMA OutAtBare ==
    ASSUME NEW w \in Wants
    PROVE  /\ Top \in Out(w) <=> w.root = Bare
           /\ PathOf("hash", w.root, w.snap) \in Out(w)
           /\ PathOf("deb", w.root, w.snap) \in Out(w)
           /\ \A p \in Out(w) : p.root = Bare /\ p.kind \in {"hash", "deb"} => w.root = Bare
<1>1. \A k \in Kinds : PathOf(k, w.root, w.snap) \in Out(w)
  BY DEF Out
<1>2. \A p \in Out(w) : p.kind = "rules" \/ p.root = w.root
  BY DEF Out, PathOf, Rules
<1>3. Top.kind = "inrelease" /\ Top.root = Bare /\ PathOf("inrelease", Bare, w.snap) = Top
  BY DEF Top, PathOf
<1>4. Top \in Out(w) <=> w.root = Bare
  BY <1>1, <1>2, <1>3 DEF Kinds
<1>5. QED BY <1>1, <1>2, <1>4 DEF Kinds

\* In writeOrder InRelease comes after every entry it may name.
LEMMA TopIsLast ==
    ASSUME NEW s, NEW kind \in {"hash", "deb"}
    PROVE  /\ PathOf(kind, Bare, s) # Top
           /\ ~Before(Top, PathOf(kind, Bare, s))
<1>1. Tier(Top) = 5 /\ Tier(PathOf(kind, Bare, s)) \in {0, 1}
  BY DEF Tier, Top, PathOf
<1>2. QED BY <1>1 DEF Before, Top, PathOf

\* In lexical order it comes before them.
LEMMA TopIsLexFirst ==
    ASSUME NEW s, NEW kind \in {"hash", "deb"}
    PROVE  ~(Lex(PathOf(kind, Bare, s)) < Lex(Top))
<1>1. Lex(Top) = 20 /\ Lex(PathOf(kind, Bare, s)) \in {24, 25}
  BY DEF Lex, Top, PathOf
<1>2. QED BY <1>1

LEMMA InvInit == Init => IInv
<1> SUFFICES ASSUME Init PROVE IInv
  OBVIOUS
<1>1. DOMAIN tree = {}
  BY DEF Init
<1>2. TypeOK
  <2>1. DOMAIN tree \subseteq Paths /\ \A p \in DOMAIN tree : \E w \in Wants : tree[p] = w.snap
    BY <1>1
  <2>2. litter \in BOOLEAN /\ done \in BOOLEAN
    BY DEF Init
  <2>3. QED BY <2>1, <2>2, ExportAssumption DEF Init, TypeOK
<1>3. Written /\ Listed /\ TopFirst /\ ClosedAtRoot
  BY <1>1 DEF Init, Written, Listed, TopFirst, ClosedAtRoot, Closed
<1>4. QED BY <1>2, <1>3 DEF IInv

LEMMA OutIsPaths == \A w \in Wants : Out(w) \subseteq Paths
BY DEF Paths

-----------------------------------------------------------------------------
LEMMA TypeStep ==
    ASSUME IInv, Next
    PROVE  TypeOK'
<1> USE ExportAssumption, OutIsPaths
<1>1. CASE Change
  BY <1>1 DEF IInv, TypeOK, Change
<1>2. CASE Begin
  BY <1>2 DEF IInv, TypeOK, Begin
<1>3. CASE WriteFile
  <2>1. PICK p \in todo :
          /\ tree' = [q \in DOMAIN tree \cup {p} |-> IF q = p THEN job.snap ELSE tree[q]]
          /\ todo' = todo \ {p}
    BY <1>3 DEF WriteFile
  <2>2. job \in Wants /\ p \in Paths
    BY <1>3 DEF IInv, TypeOK, Written, WriteFile
  <2>3. DOMAIN tree' \subseteq Paths /\ \A q \in DOMAIN tree' : \E w \in Wants : tree'[q] = w.snap
    BY <2>1, <2>2 DEF IInv, TypeOK
  <2>4. QED BY <1>3, <2>1, <2>3 DEF IInv, TypeOK, WriteFile
<1>4. CASE Prune
  BY <1>4 DEF IInv, TypeOK, Prune, Restrict
<1>5. CASE WriteMarker
  BY <1>5 DEF IInv, TypeOK, Written, WriteMarker
<1>6. CASE Fail
  <2>1. litter' \in BOOLEAN
    BY <1>6 DEF IInv, TypeOK, Fail
  <2>2. lost' \subseteq Paths
    BY <1>6 DEF IInv, TypeOK, Written, Fail
  <2>3. fails' \in 0 .. MaxFails
    BY <1>6 DEF IInv, TypeOK, Fail
  <2>4. QED BY <1>6, <2>1, <2>2, <2>3 DEF IInv, TypeOK, Fail
<1>7. CASE Empty
  BY <1>7 DEF IInv, TypeOK, Empty
<1>8. QED BY <1>1, <1>2, <1>3, <1>4, <1>5, <1>6, <1>7 DEF Next

LEMMA ClosedStep ==
    ASSUME IInv, Next
    PROVE  (Written /\ Listed /\ TopFirst /\ ClosedAtRoot)'
<1> USE OutAtBare
<1>1. CASE Change
  BY <1>1 DEF IInv, Written, Listed, TopFirst, ClosedAtRoot, Closed, Change
<1>2. CASE Begin
  <2>1. job' \in Wants /\ todo' = Out(job') /\ stale' \cap Out(job') = {}
    BY <1>2 DEF IInv, TypeOK, Begin
  <2>2. Written'
    BY <1>2, <2>1 DEF Begin, Written
  <2>3. TopFirst'
    BY <1>2, <2>1 DEF IInv, Begin, Listed, TopFirst
  <2>4. QED BY <1>2, <2>2, <2>3 DEF IInv, Begin, Listed, ClosedAtRoot, Closed
<1>3. CASE WriteFile
  <2>1. PICK p \in todo :
          /\ \A q \in todo \ {p} : Before(p, q)
          /\ tree' = [q \in DOMAIN tree \cup {p} |-> IF q = p THEN job.snap ELSE tree[q]]
          /\ todo' = todo \ {p}
    BY <1>3 DEF WriteFile
  <2>2. job \in Wants /\ p \in Out(job)
    BY <1>3 DEF IInv, Written, WriteFile
  <2>3. Written'
    BY <1>3, <2>1, <2>2 DEF IInv, Written, WriteFile
  <2>4. TopFirst'
    BY <1>3, <2>1, <2>2 DEF IInv, TopFirst, WriteFile
  <2>5. ClosedAtRoot'
    <3>1. CASE p = Top
      <4>1. job.root = Bare
        BY <2>2, <3>1
      <4>2. PathOf("hash", Bare, job.snap) \notin todo /\ PathOf("deb", Bare, job.snap) \notin todo
        BY <2>1, <3>1, TopIsLast
      <4>3. {PathOf("hash", Bare, job.snap), PathOf("deb", Bare, job.snap)} \subseteq DOMAIN tree
        BY <1>3, <2>2, <4>1, <4>2 DEF IInv, Written, WriteFile
      <4>4. QED BY <2>1, <3>1, <4>3 DEF ClosedAtRoot, Closed, Top
    <3>2. CASE p # Top
      BY <2>1, <3>2 DEF IInv, ClosedAtRoot, Closed, Top
    <3>3. QED BY <3>1, <3>2
  <2>6. QED BY <1>3, <2>3, <2>4, <2>5 DEF IInv, Listed, WriteFile
<1>4. CASE Prune
  <2>1. PICK p \in stale :
          /\ \A q \in stale \ {p} : Lex(p) < Lex(q)
          /\ tree' = [q \in DOMAIN tree \ {p} |-> tree[q]]
          /\ stale' = stale \ {p}
    BY <1>4 DEF Prune, Restrict
  <2>2. job \in Wants /\ p \notin Out(job) /\ todo = {} /\ pc # "idle"
    BY <1>4 DEF IInv, Written, Prune
  <2>3. Written'
    BY <1>4, <2>1, <2>2 DEF IInv, Written, Prune
  <2>4. TopFirst'
    BY <1>4, <2>1, <2>2 DEF IInv, TopFirst, Prune
  <2>5. ASSUME Top \in DOMAIN tree, p # Top, NEW kind \in {"hash", "deb"}
        PROVE  p # PathOf(kind, Bare, tree[Top])
    <3>1. CASE job.root = Bare
      BY <2>2, <3>1 DEF IInv, Written
    <3>2. CASE job.root # Bare
      <4>1. SUFFICES ASSUME p = PathOf(kind, Bare, tree[Top]) PROVE FALSE
        OBVIOUS
      <4>2. p.root = Bare /\ p.kind = kind
        BY <4>1 DEF PathOf
      <4>3. Top \in stale
        BY <2>2, <2>5, <3>2, <4>2 DEF IInv, TopFirst
      <4>4. QED BY <2>1, <2>5, <4>1, <4>3, TopIsLexFirst
    <3>3. QED BY <3>1, <3>2
  <2>6. ClosedAtRoot'
    BY <2>1, <2>5 DEF IInv, ClosedAtRoot, Closed, Top
  <2>7. QED BY <1>4, <2>3, <2>4, <2>6 DEF IInv, Listed, Prune
<1>5. CASE WriteMarker
  BY <1>5 DEF IInv, Written, Listed, TopFirst, ClosedAtRoot, Closed, WriteMarker
<1>6. CASE Fail
  BY <1>6 DEF IInv, Written, Listed, TopFirst, ClosedAtRoot, Closed, Fail
<1>7. CASE Empty
  BY <1>7 DEF IInv, Written, Listed, TopFirst, ClosedAtRoot, Closed, Empty
<1>8. QED BY <1>1, <1>2, <1>3, <1>4, <1>5, <1>6, <1>7 DEF Next

LEMMA InvStep == IInv /\ [Next]_vars => IInv'
<1>1. ASSUME IInv, Next PROVE IInv'
  BY <1>1, TypeStep, ClosedStep DEF IInv
<1>2. ASSUME IInv, UNCHANGED vars PROVE IInv'
  BY <1>2 DEF vars, IInv, TypeOK, Written, Listed, TopFirst, ClosedAtRoot, Closed
<1>3. QED BY <1>1, <1>2

-----------------------------------------------------------------------------
\* The output directory and a running export keep their types.
THEOREM TypeCorrect == Spec => []TypeOK
<1>1. IInv => TypeOK
  BY DEF IInv
<1>2. QED BY <1>1, InvInit, InvStep, PTL DEF Spec

\* A client that reads InRelease below a base_url without a path finds the
\* index and the package it names at every moment: during exports, after any
\* number of failed ones, and while the repository moves below a prefix.
THEOREM AlwaysClosed == Spec => []ClosedAtRoot
<1>1. IInv => ClosedAtRoot
  BY DEF IInv
<1>2. QED BY <1>1, InvInit, InvStep, PTL DEF Spec

-----------------------------------------------------------------------------
(* What a completed export leaves.                                         *)

Marked == IF marker = None THEN {} ELSE marker

\* Every file was written by this export, is in the marker, or is lost; a
\* marked file this export does not write is still to be removed.
Owned ==
    /\ pc = "idle" => DOMAIN tree \subseteq Marked \cup lost
    /\ pc # "idle" =>
          /\ ~done
          /\ \A p \in Out(job) \ todo : p \in DOMAIN tree /\ tree[p] = job.snap
          /\ DOMAIN tree \subseteq Marked \cup lost \cup (Out(job) \ todo)
          /\ Marked \cap DOMAIN tree \subseteq Out(job) \cup stale

\* A completed export is recorded, and not refused afterwards.
Recorded == pc = "idle" /\ done =>
    /\ job \in Wants /\ marker = Out(job)
    /\ \A p \in Out(job) : p \in DOMAIN tree /\ tree[p] = job.snap

ExactInv == IInv /\ Owned /\ Recorded

LEMMA ExactInit == Init => ExactInv
<1>1. Init => DOMAIN tree = {}
  BY DEF Init
<1>2. QED BY <1>1, InvInit DEF Init, ExactInv, Owned, Recorded

LEMMA ExactStep == ExactInv /\ [Next]_vars => ExactInv'
<1> SUFFICES ASSUME ExactInv, [Next]_vars PROVE ExactInv'
  OBVIOUS
<1>0. IInv /\ IInv' /\ Owned /\ Recorded
  BY InvStep DEF ExactInv
<1> SUFFICES Owned' /\ Recorded'
  BY <1>0 DEF ExactInv
<1>1. CASE Change
  BY <1>0, <1>1 DEF Change, Owned, Recorded, Marked
<1>2. CASE Begin
  <2>1. pc' # "idle" /\ todo' = Out(job') /\ stale' = Marked \ Out(job')
        /\ pc = "idle" /\ ~done' /\ UNCHANGED <<tree, marker, lost>>
    BY <1>2 DEF Begin, Marked
  <2>2. QED BY <1>0, <2>1 DEF Owned, Recorded, Marked
<1>3. CASE WriteFile
  <2>1. PICK p \in todo :
          /\ tree' = [q \in DOMAIN tree \cup {p} |-> IF q = p THEN job.snap ELSE tree[q]]
          /\ todo' = todo \ {p}
    BY <1>3 DEF WriteFile
  <2>2. p \in Out(job) /\ pc # "idle" /\ pc' # "idle"
        /\ UNCHANGED <<marker, job, stale, lost, done>>
    BY <1>0, <1>3 DEF IInv, Written, WriteFile
  <2>3. DOMAIN tree' = DOMAIN tree \cup {p} /\ tree'[p] = job.snap
        /\ \A q \in DOMAIN tree \ {p} : tree'[q] = tree[q]
    BY <2>1
  <2>4. QED BY <1>0, <2>1, <2>2, <2>3 DEF Owned, Recorded, Marked
<1>4. CASE Prune
  <2>1. PICK p \in stale :
          tree' = [q \in DOMAIN tree \ {p} |-> tree[q]] /\ stale' = stale \ {p}
    BY <1>4 DEF Prune, Restrict
  <2>2. p \notin Out(job) /\ pc # "idle" /\ pc' # "idle"
        /\ UNCHANGED <<marker, job, todo, lost, done>>
    BY <1>0, <1>4 DEF IInv, Written, Prune
  <2>3. DOMAIN tree' = DOMAIN tree \ {p} /\ \A q \in DOMAIN tree \ {p} : tree'[q] = tree[q]
    BY <2>1
  <2>4. QED BY <1>0, <2>1, <2>2, <2>3 DEF Owned, Recorded, Marked
<1>5. CASE WriteMarker
  <2>1. job \in Wants /\ todo = {} /\ stale = {} /\ pc # "idle" /\ pc' = "idle"
        /\ marker' = Out(job) /\ UNCHANGED <<tree, job, lost>>
    BY <1>0, <1>5 DEF IInv, Written, WriteMarker
  <2>2. Marked' = Out(job)
    BY <2>1, MarkerAssumption DEF Marked
  <2>3. QED BY <1>0, <2>1, <2>2 DEF Owned, Recorded
<1>6. CASE Fail
  <2>1. pc # "idle" /\ pc' = "idle" /\ UNCHANGED <<tree, marker, done>>
        /\ lost' = lost \cup ((Out(job) \ todo) \ Marked)
    BY <1>6 DEF Fail, Marked
  <2>2. ~done
    BY <1>0, <2>1 DEF Owned
  <2>3. QED BY <1>0, <2>1, <2>2 DEF Owned, Recorded, Marked
<1>7. CASE Empty
  <2>1. DOMAIN tree' = {} /\ pc' = "idle" /\ marker = None /\ UNCHANGED <<done, job, marker, pc>>
    BY <1>7 DEF Empty, Refused
  <2>2. ~done
    BY <1>0, <2>1, MarkerAssumption DEF Recorded
  <2>3. QED BY <2>1, <2>2 DEF Owned, Recorded
<1>8. CASE UNCHANGED vars
  BY <1>0, <1>8 DEF vars, Owned, Recorded, Marked
<1>9. QED BY <1>1, <1>2, <1>3, <1>4, <1>5, <1>6, <1>7, <1>8 DEF Next

\* An export that completes leaves every file it has, of its own snapshot, and
\* nothing else but what failed exports wrote and no marker lists.
THEOREM CompleteIsExact == Spec => []Exact
<1>1. ExactInv => Exact
  BY DEF ExactInv, Owned, Recorded, Marked, Exact
<1>2. QED BY <1>1, ExactInit, ExactStep, PTL DEF Spec

=============================================================================
