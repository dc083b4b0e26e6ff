----------------------------- MODULE RefreshProofs -----------------------------
(***************************************************************************)
(* Proofs about Refresh, for any sources, architectures, configurations    *)
(* and bounds.  The cache theorems need the clock (Timed): what makes a    *)
(* 304 truthful is that a snapshot is composed strictly after the previous *)
(* one, and so strictly after every Last-Modified handed out before.       *)
(* NoStalePackages needs Native besides: with a source of architecture all *)
(* it is false, as the run refresh_stale_all shows.                        *)
(***************************************************************************)
EXTENDS Refresh, TLAPS, WellFoundedInduction

\* What stands for an absent record is not a record.
NoneIsNoRecord ==
    /\ \A r, c : [rel |-> r, changed |-> c] # None
    /\ \A i, c, v : [inputs |-> i, changed |-> c, ver |-> v] # None
    /\ \A t, p, r, h, q :
         [built |-> t, pkgs |-> p, release |-> r, byhash |-> h, pool |-> q] # None

\* No source publishes for all, or for two architectures of the suite.
Native == \A s \in Sources :
    /\ All \notin ArchsOf[s]
    /\ \A x, y \in ArchsOf[s] \cap Archs : x = y

\* Two sources may share a package, but not for one architecture.
OneProvider == \A s, t \in Sources :
    PackageOf[s] = PackageOf[t] /\ ArchsOf[s] \cap ArchsOf[t] # {} => s = t

-----------------------------------------------------------------------------
(* The latest of a set of times.                                           *)

LEMMA HasMax ==
    ASSUME NEW n \in Nat, NEW S, S \subseteq 0..n, S # {}
    PROVE  \E m \in S : \A k \in S : k <= m
<1> DEFINE T == {n - k : k \in S}
<1>1. T \subseteq Nat
  OBVIOUS
<1>2. T # {}
  <2>1. PICK k \in S : TRUE
    OBVIOUS
  <2>2. QED BY <2>1
<1>3. PICK t \in T : \A u \in T : <<u, t>> \notin OpToRel(<, Nat)
  <2> HIDE DEF T
  <2> QED BY <1>1, <1>2, WFMin, NatLessThanWellFounded
<1>4. \A u \in T : ~(u < t)
  BY <1>1, <1>3 DEF OpToRel
<1>5. PICK m \in S : t = n - m
  OBVIOUS
<1>6. ASSUME NEW k \in S PROVE k <= m
  <2>1. n - k \in T /\ ~(n - k < t) /\ k \in Int /\ m \in Int
    BY <1>4
  <2>2. QED BY <1>5, <2>1
<1>7. QED BY <1>6

LEMMA MaxIsLatest ==
    ASSUME NEW n \in Nat, NEW S, S \subseteq 0..n, S # {}
    PROVE  Max(S) \in S /\ \A k \in S : k <= Max(S)
<1>1. PICK m \in S : \A k \in S : k <= m
  BY HasMax
<1>2. \A k \in S : m >= k
  BY <1>1
<1>3. Max(S) \in S /\ \A k \in S : Max(S) >= k
  BY <1>2 DEF Max
<1>4. QED BY <1>3

-----------------------------------------------------------------------------
\* TypeOK with what each record is about.
TypeInv ==
    /\ now \in 1..MaxTime /\ lastPub \in 0..now
    /\ upstream \in [Sources -> SrcRelease]
    /\ \A s \in Sources : upstream[s].arch \in ArchsOf[s]
    /\ moved \subseteq Sources
    /\ disk \in [Sources -> {None} \cup [rel : SrcRelease, changed : 1..MaxTime]]
    /\ \A s \in Recorded :
         /\ disk[s].changed <= now
         /\ disk[s].rel.arch \in ArchsOf[s]
         /\ disk[s].rel.bytes <= upstream[s].bytes
    /\ boot # None => boot.changed \in 1..now /\ boot.ver \in Nat
    /\ cfg \in Configs
    /\ pc \in {"down", "exited", "import", "refresh", "tick", "idle"}
    /\ first \in BOOLEAN
    /\ todo \subseteq Sources
    /\ snap # None => snap.built \in 0..lastPub /\ DOMAIN snap.pkgs = Archs

LEMMA TypeInvOK == TypeInv => TypeOK
BY RefreshAssumption DEF TypeInv, TypeOK, Times

LEMMA TypeInit == Init => TypeInv
<1> SUFFICES ASSUME Init PROVE TypeInv
  OBVIOUS
<1>1. PICK a \in [Sources -> UNION {ArchsOf[s] : s \in Sources}] :
          /\ \A s \in Sources : a[s] \in ArchsOf[s]
          /\ upstream = [s \in Sources |-> [bytes |-> 1, ver |-> 1, arch |-> a[s],
                                            token |-> IF s \in Tokenless THEN NoToken ELSE 1]]
  BY DEF Init
<1>2. upstream \in [Sources -> SrcRelease] /\ \A s \in Sources : upstream[s].arch \in ArchsOf[s]
  <2>1. ASSUME NEW s \in Sources
        PROVE  [bytes |-> 1, ver |-> 1, arch |-> a[s],
                token |-> IF s \in Tokenless THEN NoToken ELSE 1] \in SrcRelease
    BY <1>1, RefreshAssumption DEF SrcRelease, NoToken
  <2>2. QED BY <1>1, <2>1
<1>3. Recorded = {}
  BY DEF Init, Recorded
<1>4. MaxTime \in Nat /\ MaxTime >= 1
  BY RefreshAssumption
<1>5. now \in 1..MaxTime /\ lastPub \in 0..now
  BY <1>4 DEF Init
<1>6. disk \in [Sources -> {None} \cup [rel : SrcRelease, changed : 1..MaxTime]]
  BY DEF Init
<1>7. /\ boot = None /\ snap = None /\ cfg \in Configs /\ pc = "down" /\ first \in BOOLEAN
      /\ todo \subseteq Sources /\ moved \subseteq Sources
  BY RefreshAssumption DEF Init
<1>8. QED BY <1>2, <1>3, <1>5, <1>6, <1>7 DEF TypeInv

\* The steps that change neither what is on disk nor what anyone serves or keeps.
Quiet == /\ UNCHANGED <<disk, boot, snap, lastPub, client>> /\ now' \in {now, now + 1}
         /\ moved \subseteq moved'

\* What a step can do to the state files, the snapshot and the client.
LEMMA StepKinds ==
    ASSUME [Next]_vars
    PROVE  \/ Quiet
           \/ \E s \in Sources : SourceUpdated(s)
           \/ Publish \/ Rejected \/ Crash
           \/ \E a \in Archs : GetPackages(a)
           \/ GetRelease
BY DEF Next, vars, server, client, Quiet, Start, Reload, ImportDone, TickStart, SourceFails,
       SourceUnchanged, Cancel, Releases, Retokens, TimePasses

\* What a source has recorded is never newer than what its vendor shows.
LEMMA SourceUpdatedType ==
    ASSUME TypeInv, NEW s \in Sources, SourceUpdated(s)
    PROVE  /\ disk' = [disk EXCEPT ![s] = [rel |-> upstream[s], changed |-> now]]
           /\ disk'[s] = [rel |-> upstream[s], changed |-> now]
           /\ upstream[s] \in SrcRelease /\ upstream[s].bytes \in Nat
           /\ upstream[s].arch \in ArchsOf[s]
           /\ disk[s] # None => disk[s].rel.bytes \in Nat /\ disk[s].rel.bytes <= upstream[s].bytes
<1>1. /\ disk' = [disk EXCEPT ![s] = [rel |-> upstream[s], changed |-> now]]
      /\ upstream[s] \in SrcRelease /\ upstream[s].arch \in ArchsOf[s]
  BY DEF SourceUpdated, TypeInv
<1>2. disk'[s] = [rel |-> upstream[s], changed |-> now]
  BY <1>1 DEF TypeInv
<1>3. upstream[s].bytes \in Nat
  BY <1>1, RefreshAssumption DEF SrcRelease
<1>4. ASSUME disk[s] # None
      PROVE  disk[s].rel.bytes \in Nat /\ disk[s].rel.bytes <= upstream[s].bytes
  BY <1>4, RefreshAssumption DEF TypeInv, Recorded, SrcRelease
<1>5. QED BY <1>1, <1>2, <1>3, <1>4

LEMMA EnsureBootstrapType ==
    ASSUME TypeInv
    PROVE  /\ EnsureBootstrap # boot => EnsureBootstrap.changed = now
           /\ EnsureBootstrap # boot /\ boot # None => EnsureBootstrap.ver > boot.ver
           /\ EnsureBootstrap.changed \in 1..now /\ EnsureBootstrap.ver \in Nat
BY DEF TypeInv, EnsureBootstrap

LEMMA TypeNext == TypeInv /\ [Next]_vars => TypeInv'
<1> SUFFICES ASSUME TypeInv, [Next]_vars PROVE TypeInv'
  OBVIOUS
<1> USE DEF TypeInv
<1>1. CASE UNCHANGED vars
  BY <1>1 DEF vars, server, client, Recorded
<1>2. CASE Start
  BY <1>2, RefreshAssumption DEF Start, client, Recorded, Missing
<1>3. CASE Reload
  <2>1. PICK c \in Configs : cfg' = c /\ todo' = Missing(c)
    BY <1>3 DEF Reload
  <2>2. QED BY <1>3, <2>1, RefreshAssumption DEF Reload, client, Recorded, Missing
<1>4. CASE ImportDone \/ TickStart
  BY <1>4, RefreshAssumption DEF ImportDone, TickStart, client, Recorded
<1>5. ASSUME NEW s \in Sources, SourceFails(s) \/ SourceUnchanged(s) PROVE TypeInv'
  BY <1>5 DEF SourceFails, SourceUnchanged, client, Recorded
<1>6. ASSUME NEW s \in Sources, SourceUpdated(s) PROVE TypeInv'
  <2>1. /\ disk' = [disk EXCEPT ![s] = [rel |-> upstream[s], changed |-> now]]
        /\ disk'[s] = [rel |-> upstream[s], changed |-> now]
        /\ upstream[s] \in SrcRelease /\ upstream[s].bytes \in Nat
        /\ upstream[s].arch \in ArchsOf[s]
    BY <1>6, SourceUpdatedType
  <2>2. disk' \in [Sources -> {None} \cup [rel : SrcRelease, changed : 1..MaxTime]]
    BY <2>1
  <2>3. UNCHANGED <<now, upstream, moved, boot, cfg, pc, first, snap, lastPub>> /\ todo' \subseteq Sources
    BY <1>6 DEF SourceUpdated
  <2>4. ASSUME NEW t \in Sources, disk'[t] # None
        PROVE  /\ disk'[t].changed <= now /\ disk'[t].rel.arch \in ArchsOf[t]
               /\ disk'[t].rel.bytes <= upstream[t].bytes
    <3>1. CASE t = s
      BY <2>1, <3>1
    <3>2. CASE t # s
      <4>1. disk'[t] = disk[t]
        BY <2>1, <3>2
      <4>2. QED BY <2>4, <4>1 DEF Recorded
    <3>3. QED BY <3>1, <3>2
  <2>5. QED BY <2>2, <2>3, <2>4 DEF Recorded
<1>7. CASE Cancel
  BY <1>7 DEF Cancel, client, Recorded
<1>8. CASE Publish
  <2>1. UNCHANGED <<now, upstream, disk, cfg, todo>> /\ lastPub' = now /\ pc' = "idle"
        /\ first' = FALSE /\ moved' \subseteq Sources
    BY <1>8 DEF Publish
  <2>2. boot'.changed \in 1..now /\ boot'.ver \in Nat
    BY <1>8, EnsureBootstrapType DEF Publish
  <2>3. snap'.built = now /\ DOMAIN snap'.pkgs = Archs
    BY <1>8 DEF Publish, Compose
  <2>4. Recorded' = Recorded
    BY <2>1 DEF Recorded
  <2>5. lastPub' \in 0..now' /\ snap'.built \in 0..lastPub'
    BY <2>1, <2>3
  <2>6. QED BY <2>1, <2>2, <2>3, <2>4, <2>5
<1>9. CASE Rejected
  <2>1. UNCHANGED <<now, upstream, moved, disk, cfg, first, todo, snap, lastPub>>
        /\ pc' \in {"exited", "idle"}
    BY <1>9 DEF Rejected
  <2>2. boot'.changed \in 1..now /\ boot'.ver \in Nat
    BY <1>9, EnsureBootstrapType DEF Rejected
  <2>3. QED BY <2>1, <2>2 DEF Recorded
<1>10. CASE Crash
  BY <1>10 DEF Crash, Recorded
<1>11. CASE Releases \/ Retokens
  <2>1. UNCHANGED <<now, disk, boot, cfg, pc, first, todo, snap, lastPub>>
    BY <1>11 DEF Releases, Retokens, server
  <2>2. PICK s \in Sources : \E u : u \in SrcRelease /\ u.arch \in ArchsOf[s]
            /\ upstream[s].bytes <= u.bytes
            /\ upstream' = [upstream EXCEPT ![s] = u] /\ moved' = moved \cup {s}
    <3>1. CASE Releases
      <4>1. PICK s \in Sources : \E a \in ArchsOf[s] : \E more \in Republishes(s) :
               /\ upstream[s].bytes < MaxBytes
               /\ upstream' = [upstream EXCEPT ![s] =
                    [bytes |-> @.bytes + 1, ver |-> @.ver + more, arch |-> a,
                     token |-> IF s \in Tokenless THEN NoToken ELSE @.token + 1]]
               /\ moved' = moved \cup {s}
        BY <3>1 DEF Releases
      <4>2. PICK a \in ArchsOf[s] : \E more \in Republishes(s) :
               /\ upstream[s].bytes < MaxBytes
               /\ upstream' = [upstream EXCEPT ![s] =
                    [bytes |-> @.bytes + 1, ver |-> @.ver + more, arch |-> a,
                     token |-> IF s \in Tokenless THEN NoToken ELSE @.token + 1]]
        BY <4>1
      <4>3. PICK more \in Republishes(s) :
               /\ upstream[s].bytes < MaxBytes
               /\ upstream' = [upstream EXCEPT ![s] =
                    [bytes |-> @.bytes + 1, ver |-> @.ver + more, arch |-> a,
                     token |-> IF s \in Tokenless THEN NoToken ELSE @.token + 1]]
        BY <4>2
      <4> DEFINE u == [bytes |-> upstream[s].bytes + 1, ver |-> upstream[s].ver + more,
                       arch |-> a,
                       token |-> IF s \in Tokenless THEN NoToken ELSE upstream[s].token + 1]
      <4>4. more \in {0, 1} /\ upstream[s] \in SrcRelease /\ MaxBytes \in Nat
        BY RefreshAssumption DEF Republishes
      <4>5. /\ upstream[s].bytes + 1 \in 1..MaxBytes /\ upstream[s].bytes \in Nat
            /\ upstream[s].ver + more \in Nat /\ upstream[s].token + 1 \in Nat /\ NoToken \in Nat
        BY <4>3, <4>4 DEF SrcRelease, NoToken
      <4>6. u \in SrcRelease
        BY <4>5 DEF SrcRelease
      <4>7. u.arch \in ArchsOf[s] /\ upstream[s].bytes <= u.bytes
        BY <4>5
      <4>8. upstream' = [upstream EXCEPT ![s] = u]
        BY <4>3
      <4>9. QED BY <4>1, <4>6, <4>7, <4>8
    <3>2. CASE Retokens
      <4>1. PICK s \in Restless \ Tokenless :
               /\ upstream' = [upstream EXCEPT ![s].token = @ + 1]
               /\ moved' = moved \cup {s}
        BY <3>2 DEF Retokens
      <4> DEFINE u == [upstream[s] EXCEPT !.token = @ + 1]
      <4>2. s \in Sources /\ upstream[s] \in SrcRelease /\ upstream[s].arch \in ArchsOf[s]
        BY RefreshAssumption
      <4>3. u \in SrcRelease /\ u.arch = upstream[s].arch /\ u.bytes = upstream[s].bytes
        BY <4>2 DEF SrcRelease
      <4>4. upstream[s].bytes \in Nat
        BY <4>2, RefreshAssumption DEF SrcRelease
      <4>5. upstream' = [upstream EXCEPT ![s] = u]
        BY <4>1
      <4>6. upstream[s].bytes <= u.bytes
        BY <4>3, <4>4
      <4> HIDE DEF u
      <4>7. QED BY <4>1, <4>2, <4>3, <4>5, <4>6
    <3>3. QED BY <1>11, <3>1, <3>2
  <2>3. PICK u : u \in SrcRelease /\ u.arch \in ArchsOf[s] /\ upstream[s].bytes <= u.bytes
            /\ upstream' = [upstream EXCEPT ![s] = u]
    BY <2>2
  <2>4. /\ upstream' \in [Sources -> SrcRelease] /\ upstream'[s] = u
        /\ \A t \in Sources : t # s => upstream'[t] = upstream[t]
    BY <2>3
  <2>5. ASSUME NEW t \in Recorded' PROVE disk[t].rel.bytes <= upstream'[t].bytes
    <3>1. t \in Recorded /\ t \in Sources
      BY <2>1, <2>5 DEF Recorded
    <3>2. CASE t = s
      <4>1. disk[s].rel.bytes \in Int /\ disk[s].rel.bytes <= upstream[s].bytes
        BY <3>1, <3>2, RefreshAssumption DEF Recorded, SrcRelease
      <4>2. upstream[s].bytes \in Int /\ u.bytes \in Int
        BY <2>3, RefreshAssumption DEF SrcRelease
      <4>3. QED BY <2>3, <2>4, <3>2, <4>1, <4>2
    <3>3. CASE t # s
      BY <2>4, <3>1, <3>3 DEF Recorded
    <3>4. QED BY <3>2, <3>3
  <2>6. \A t \in Recorded' : t \in Recorded
    BY <2>1 DEF Recorded
  <2>7. moved' \subseteq Sources /\ \A t \in Sources : upstream'[t].arch \in ArchsOf[t]
    BY <2>2, <2>3, <2>4
  <2>8. QED BY <2>1, <2>4, <2>5, <2>6, <2>7
<1>12. CASE TimePasses
  <2>1. now' = now + 1 /\ now' \in 1..MaxTime
    BY <1>12, RefreshAssumption DEF TimePasses
  <2>2. UNCHANGED <<upstream, moved, disk, boot, cfg, pc, first, todo, snap, lastPub>>
    BY <1>12 DEF TimePasses, server
  <2>3. \A s \in Recorded : disk[s].changed \in Nat
    BY RefreshAssumption DEF Recorded
  <2>4. QED BY <2>1, <2>2, <2>3 DEF Recorded
<1>13. ASSUME NEW a \in Archs, GetPackages(a) PROVE TypeInv'
  BY <1>13 DEF GetPackages, server, Recorded
<1>14. CASE GetRelease
  BY <1>14 DEF GetRelease, server, Recorded
<1>15. QED
  BY <1>1, <1>2, <1>3, <1>4, <1>5, <1>6, <1>7, <1>8, <1>9, <1>10, <1>11, <1>12, <1>13,
     <1>14 DEF Next

\* Type correctness of the daemon, its state on disk and its client.
THEOREM TypeCorrect == Spec => []TypeOK
<1>1. Spec => []TypeInv
  BY TypeInit, TypeNext, PTL DEF Spec
<1>2. QED BY <1>1, TypeInvOK, PTL

-----------------------------------------------------------------------------
(* Composition happens strictly after the previous one.                    *)

BusyInv == Busy => now > lastPub

LEMMA BusyNext ==
    ASSUME Timed
    PROVE  TypeInv /\ BusyInv /\ [Next]_vars => BusyInv'
<1> SUFFICES ASSUME TypeInv, BusyInv, [Next]_vars PROVE BusyInv'
  OBVIOUS
<1>1. now \in Nat /\ lastPub \in Nat /\ Interval \in Nat /\ Interval > 0
  BY RefreshAssumption DEF TypeInv
<1>2. CASE Start \/ Reload
  BY <1>2 DEF Start, Reload, Due, BusyInv, Busy
<1>3. CASE ImportDone
  BY <1>3 DEF ImportDone, BusyInv, Busy
<1>4. CASE TickStart
  BY <1>1, <1>4 DEF TickStart, BusyInv, Busy
<1>5. CASE UNCHANGED <<pc, now, lastPub>>
  BY <1>5 DEF BusyInv, Busy
<1>6. CASE Publish \/ Rejected \/ Crash
  BY <1>6 DEF Publish, Rejected, Crash, BusyInv, Busy
<1>7. CASE TimePasses
  BY <1>1, <1>7 DEF TimePasses, server, BusyInv, Busy
<1>8. UNCHANGED <<pc, now, lastPub>> \/ Start \/ Reload \/ ImportDone \/ TickStart \/ Publish
        \/ Rejected \/ Crash \/ TimePasses
  BY DEF Next, vars, server, SourceFails, SourceUnchanged, SourceUpdated, Cancel, Releases, Retokens,
         GetPackages, GetRelease
<1>9. QED BY <1>2, <1>3, <1>4, <1>5, <1>6, <1>7, <1>8

\* The Last-Modified of Release bounds every recorded change.
LEMMA SuiteLMIs ==
    ASSUME TypeInv, NEW b, b.changed \in 1..now
    PROVE  /\ SuiteLM(b) \in 1..now /\ b.changed <= SuiteLM(b)
           /\ \A s \in Recorded : disk[s].changed <= SuiteLM(b)
<1> DEFINE S == {disk[s].changed : s \in Recorded} \cup {b.changed}
<1>1. now \in Nat /\ now >= 1
  BY RefreshAssumption DEF TypeInv
<1>2. \A s \in Recorded : disk[s].changed \in 1..now
  BY RefreshAssumption DEF TypeInv, Recorded
<1>3. S \subseteq 1..now /\ S \subseteq 0..now /\ S # {}
  BY <1>1, <1>2
<1>4. SuiteLM(b) = Max(S)
  BY DEF SuiteLM
<1>5. Max(S) \in S /\ \A k \in S : k <= Max(S)
  <2> HIDE DEF S
  <2> QED BY <1>1, <1>3, MaxIsLatest
<1>6. QED BY <1>3, <1>4, <1>5

\* That of a Packages file the changes of the sources of its architecture.
LEMMA PackagesLMIs ==
    ASSUME TypeInv, NEW b, b.changed \in 1..now, NEW a, NEW t \in Recorded,
           disk[t].rel.arch = a
    PROVE  /\ PackagesLM(a, b) \in 1..now /\ b.changed <= PackagesLM(a, b)
           /\ \A s \in Recorded :
                disk[s].rel.arch = a => disk[s].changed <= PackagesLM(a, b)
<1> DEFINE own == {s \in Recorded : disk[s].rel.arch = a}
<1> DEFINE S == {disk[s].changed : s \in own} \cup {b.changed}
<1>1. now \in Nat /\ now >= 1
  BY RefreshAssumption DEF TypeInv
<1>2. \A s \in Recorded : disk[s].changed \in 1..now
  BY RefreshAssumption DEF TypeInv, Recorded
<1>3. S \subseteq 1..now /\ S \subseteq 0..now /\ S # {}
  BY <1>1, <1>2
<1>4. PackagesLM(a, b) = Max(S)
  BY DEF PackagesLM
<1>5. Max(S) \in S /\ \A k \in S : k <= Max(S)
  <2> HIDE DEF S
  <2> QED BY <1>1, <1>3, MaxIsLatest
<1>6. QED BY <1>3, <1>4, <1>5

LEMMA PublishIs ==
    ASSUME Publish
    PROVE  /\ UNCHANGED <<now, disk, client>> /\ lastPub' = now
           /\ StrictChecks /\ Busy /\ boot' = EnsureBootstrap
           /\ snap' = Compose(boot') /\ snap'.built = now
           /\ \A a \in Archs : snap'.pkgs[a] = [data |-> Packages(a, boot'),
                                                lm |-> PackagesLM(a, boot')]
           /\ snap'.release.data = [a \in Archs |-> Packages(a, boot')]
           /\ snap'.release.lm = SuiteLM(boot')
BY DEF Publish, Compose, Busy

-----------------------------------------------------------------------------
(* Release: what was handed out under lm is what the disk composes, unless *)
(* something on the disk has changed after lm.                             *)

Listing == [a \in Archs |-> Packages(a, boot)]

UpToDate(lm) == boot.changed <= lm /\ \A s \in Recorded : disk[s].changed <= lm

\* A Release with its Last-Modified, served or kept.
GoodRelease(r) ==
    /\ boot # None
    /\ r.lm \in 1..lastPub
    /\ UpToDate(r.lm) => r.data = Listing

ReleaseInv ==
    /\ snap # None => GoodRelease(snap.release)
    /\ relcopy # None => GoodRelease(relcopy)

\* The EXCEPT of Crash does not lose a field.
RelcopyShape ==
    relcopy # None =>
        relcopy = [data |-> relcopy.data, label |-> relcopy.label,
                   lm |-> relcopy.lm, until |-> relcopy.until]

LEMMA ShapeNext == RelcopyShape /\ [Next]_vars => RelcopyShape'
<1> SUFFICES ASSUME RelcopyShape, [Next]_vars PROVE RelcopyShape'
  OBVIOUS
<1>1. CASE UNCHANGED relcopy
  BY <1>1 DEF RelcopyShape
<1>2. CASE Crash
  BY <1>2 DEF Crash, RelcopyShape
<1>3. CASE GetRelease
  BY <1>3 DEF GetRelease, RelcopyShape
<1>4. UNCHANGED relcopy \/ Crash \/ GetRelease
  BY StepKinds DEF Quiet, client, SourceUpdated, Publish, Rejected, GetPackages
<1>5. QED BY <1>1, <1>2, <1>3, <1>4

\* A change on disk is later than everything handed out before it.
LEMMA ReleaseKept ==
    ASSUME TypeInv, BusyInv, [Next]_vars, NEW r, GoodRelease(r), NoneIsNoRecord
    PROVE  GoodRelease(r)'
<1>1. now \in Nat /\ lastPub \in Nat /\ lastPub <= now /\ r.lm \in Nat /\ r.lm <= lastPub
  BY RefreshAssumption DEF TypeInv, GoodRelease
<1>2. CASE UNCHANGED <<disk, boot, lastPub>>
  BY <1>2 DEF GoodRelease, UpToDate, Recorded, Listing, Packages, Stanzas, Stanza
<1>3. ASSUME NEW s \in Sources, SourceUpdated(s) PROVE GoodRelease(r)'
  <2>1. now > r.lm /\ UNCHANGED <<boot, lastPub>>
    BY <1>1, <1>3 DEF SourceUpdated, BusyInv
  <2>2. disk'[s] = [rel |-> upstream[s], changed |-> now]
    BY <1>3, SourceUpdatedType
  <2>3. s \in Recorded' /\ disk'[s].changed = now
    BY <2>2 DEF Recorded, NoneIsNoRecord
  <2>4. ~ UpToDate(r.lm)'
    BY <1>1, <2>1, <2>3 DEF UpToDate
  <2>5. QED BY <2>1, <2>4 DEF GoodRelease
<1>4. CASE Publish \/ Rejected
  <2>1. UNCHANGED disk /\ lastPub' \in {lastPub, now} /\ Busy /\ boot' = EnsureBootstrap
    BY <1>4 DEF Publish, Rejected, Busy
  <2>2. boot' # None
    BY <2>1 DEF EnsureBootstrap, NoneIsNoRecord
  <2>3. r.lm \in 1..lastPub'
    BY <1>1, <2>1 DEF GoodRelease
  <2>4. CASE boot' = boot
    BY <2>1, <2>2, <2>3, <2>4
       DEF GoodRelease, UpToDate, Recorded, Listing, Packages, Stanzas, Stanza
  <2>5. CASE boot' # boot
    <3>1. boot'.changed = now /\ now > r.lm
      BY <1>1, <2>1, <2>5, EnsureBootstrapType DEF BusyInv
    <3>2. ~ UpToDate(r.lm)'
      BY <1>1, <3>1 DEF UpToDate
    <3>3. QED BY <2>2, <2>3, <3>2 DEF GoodRelease
  <2>6. QED BY <2>4, <2>5
<1>5. UNCHANGED <<disk, boot, lastPub>> \/ (\E s \in Sources : SourceUpdated(s))
        \/ Publish \/ Rejected
  BY StepKinds DEF Quiet, Crash, GetPackages, GetRelease, server
<1>6. QED BY <1>2, <1>3, <1>4, <1>5

LEMMA ReleaseNext ==
    ASSUME NoneIsNoRecord
    PROVE  TypeInv /\ BusyInv /\ RelcopyShape /\ ReleaseInv /\ NoStaleListing /\ [Next]_vars
             => ReleaseInv' /\ NoStaleListing'
<1> SUFFICES ASSUME TypeInv, BusyInv, RelcopyShape, ReleaseInv, NoStaleListing, [Next]_vars
             PROVE  ReleaseInv' /\ NoStaleListing'
  OBVIOUS
<1>1. CASE UNCHANGED <<snap, relcopy>>
  BY <1>1, ReleaseKept DEF ReleaseInv, NoStaleListing
<1>2. CASE Publish
  <2>1. boot'.changed \in 1..now
    BY <1>2, PublishIs, EnsureBootstrapType
  <2>2. boot' # None
    BY <1>2, PublishIs DEF EnsureBootstrap, NoneIsNoRecord
  <2>3. /\ SuiteLM(boot') \in 1..now /\ boot'.changed <= SuiteLM(boot')
        /\ \A s \in Recorded : disk[s].changed <= SuiteLM(boot')
    BY <2>1, SuiteLMIs
  <2>4. snap'.release.lm = SuiteLM(boot') /\ snap'.release.data = Listing'
        /\ lastPub' = now /\ UNCHANGED <<disk, relcopy>>
    BY <1>2, PublishIs DEF Listing, Packages, Stanzas, Stanza, Recorded, client
  <2>5. GoodRelease(snap.release)'
    BY <2>2, <2>3, <2>4 DEF GoodRelease
  <2>6. relcopy # None => GoodRelease(relcopy)'
    BY <2>4, ReleaseKept DEF ReleaseInv, GoodRelease, UpToDate
  <2>7. ASSUME relcopy # None, snap'.release.lm <= relcopy.lm
        PROVE  relcopy.data = Listing'
    <3>1. relcopy.lm \in Nat /\ \A s \in Recorded : disk[s].changed \in Nat
      BY <2>7, RefreshAssumption DEF ReleaseInv, GoodRelease, TypeInv, Recorded
    <3>2. UpToDate(relcopy.lm)'
      BY <2>1, <2>3, <2>4, <2>7, <3>1 DEF UpToDate, Recorded
    <3>3. QED BY <2>4, <2>6, <2>7, <3>2 DEF GoodRelease
  <2>8. QED BY <2>4, <2>5, <2>6, <2>7 DEF ReleaseInv, NoStaleListing, NotModified
<1>3. CASE Crash
  <2>1. snap' = None /\ UNCHANGED <<disk, boot, lastPub>>
    BY <1>3 DEF Crash
  <2>2. relcopy' # None => relcopy # None /\ relcopy'.data = relcopy.data /\ relcopy'.lm = relcopy.lm
    BY <1>3 DEF Crash, RelcopyShape
  <2>3. QED BY <2>1, <2>2 DEF ReleaseInv, NoStaleListing, GoodRelease, UpToDate, Recorded, Listing,
           Packages, Stanzas, Stanza
<1>4. CASE GetRelease
  <2>1. /\ snap # None /\ UNCHANGED <<snap, disk, boot, lastPub>>
        /\ relcopy'.data = snap.release.data /\ relcopy'.lm = snap.release.lm
    BY <1>4 DEF GetRelease, Listening, server
  <2>2. GoodRelease(snap.release)'
    BY <2>1, ReleaseKept DEF ReleaseInv
  <2>3. GoodRelease(relcopy)'
    BY <2>1, <2>2 DEF GoodRelease, UpToDate
  <2>4. QED BY <2>1, <2>2, <2>3 DEF ReleaseInv, NoStaleListing
<1>5. UNCHANGED <<snap, relcopy>> \/ Publish \/ Crash \/ GetRelease
  BY StepKinds DEF Quiet, client, SourceUpdated, Rejected, GetPackages, server
<1>6. QED BY <1>1, <1>2, <1>3, <1>4, <1>5

LEMMA CacheInit == Init => BusyInv /\ RelcopyShape /\ ReleaseInv /\ NoStaleListing
BY DEF Init, BusyInv, Busy, RelcopyShape, ReleaseInv, NoStaleListing

\* A client that keeps its InRelease on a 304 keeps the hashes of the Packages
\* served, whatever ticks, reloads (also of the label alone), crashes, moved
\* tokens and rejected compositions came between.  Of its label that is false.
THEOREM ListingNeverStale ==
    ASSUME Timed, NoneIsNoRecord
    PROVE  Spec => []NoStaleListing
<1> DEFINE IInv == TypeInv /\ BusyInv /\ RelcopyShape /\ ReleaseInv /\ NoStaleListing
<1>1. Init => IInv
  BY TypeInit, CacheInit
<1>2. IInv /\ [Next]_vars => IInv'
  BY TypeNext, BusyNext, ShapeNext, ReleaseNext
<1>3. QED BY <1>1, <1>2, PTL DEF Spec

-----------------------------------------------------------------------------
(* The same for the Packages of one architecture.  Its Last-Modified does  *)
(* not follow a source that leaves the architecture, nor one of all.       *)

ArchUpToDate(a, lm) ==
    /\ boot.changed <= lm
    /\ \A s \in Recorded :
         a \in ArchsOf[s] => disk[s].rel.arch = a /\ disk[s].changed <= lm

\* The Packages of a with its Last-Modified, served or kept.
GoodPackages(a, r) ==
    /\ boot # None
    /\ r.lm \in 0..lastPub
    /\ ArchUpToDate(a, r.lm) => r.data = Packages(a, boot)

PackagesInv ==
    /\ copy \in [Archs -> {copy[a] : a \in Archs}]
    /\ \A a \in Archs :
         /\ snap # None => GoodPackages(a, snap.pkgs[a])
         /\ copy[a] # None => GoodPackages(a, copy[a])

LEMMA PackagesUnchanged ==
    ASSUME UNCHANGED <<disk, boot>>, NEW a
    PROVE  /\ Packages(a, boot)' = Packages(a, boot)
           /\ \A lm : ArchUpToDate(a, lm)' <=> ArchUpToDate(a, lm)
BY DEF Packages, Stanzas, Stanza, Recorded, ArchUpToDate

LEMMA PackagesKept ==
    ASSUME Native, NoneIsNoRecord, TypeInv, BusyInv, [Next]_vars,
           NEW a \in Archs, NEW r, GoodPackages(a, r)
    PROVE  GoodPackages(a, r)'
<1>1. now \in Nat /\ lastPub \in Nat /\ lastPub <= now /\ r.lm \in Nat /\ r.lm <= lastPub
  BY RefreshAssumption DEF TypeInv, GoodPackages
<1>2. CASE UNCHANGED <<disk, boot, lastPub>>
  BY <1>2, PackagesUnchanged DEF GoodPackages
<1>3. ASSUME NEW s \in Sources, SourceUpdated(s) PROVE GoodPackages(a, r)'
  <2>1. now > r.lm /\ UNCHANGED <<boot, lastPub>>
    BY <1>1, <1>3 DEF SourceUpdated, BusyInv
  <2>2. /\ disk' = [disk EXCEPT ![s] = [rel |-> upstream[s], changed |-> now]]
        /\ disk'[s] = [rel |-> upstream[s], changed |-> now]
        /\ upstream[s].arch \in ArchsOf[s]
    BY <1>3, SourceUpdatedType
  <2>3. s \in Recorded' /\ disk'[s].changed = now /\ disk'[s].rel.arch \in ArchsOf[s]
    BY <2>2 DEF Recorded, NoneIsNoRecord
  <2>4. CASE a \in ArchsOf[s]
    <3>1. ~ ArchUpToDate(a, r.lm)'
      BY <1>1, <2>1, <2>3, <2>4 DEF ArchUpToDate
    <3>2. QED BY <2>1, <3>1 DEF GoodPackages
  <2>5. CASE a \notin ArchsOf[s]
    <3>1. \A t \in Sources : t # s => disk'[t] = disk[t]
      BY <2>2 DEF TypeInv
    <3>2. \A t \in Sources : t # s => (t \in Recorded' <=> t \in Recorded)
      BY <3>1 DEF Recorded
    <3>3. Stanza(s)'.arch \notin {a, All} /\ (s \in Recorded => Stanza(s).arch \notin {a, All})
      BY <2>3, <2>5 DEF Stanza, Native, TypeInv
    <3>4. \A t \in Sources : t # s => Stanza(t)' = Stanza(t)
      BY <3>1 DEF Stanza
    <3>5. Packages(a, boot)' = Packages(a, boot)
      <4>1. \A e : e \in {f \in Stanzas' : f.arch \in {a, All}}
                     <=> e \in {f \in Stanzas : f.arch \in {a, All}}
        BY <3>2, <3>3, <3>4 DEF Stanzas, Recorded
      <4>2. boot' = boot
        BY <2>1
      <4>3. QED BY <4>1, <4>2 DEF Packages
    <3>6. ArchUpToDate(a, r.lm)' => ArchUpToDate(a, r.lm)
      BY <2>1, <2>5, <3>1, <3>2 DEF ArchUpToDate, Recorded
    <3>7. QED BY <2>1, <3>5, <3>6 DEF GoodPackages
  <2>6. QED BY <2>4, <2>5
<1>4. CASE Publish \/ Rejected
  <2>1. UNCHANGED disk /\ lastPub' \in {lastPub, now} /\ Busy /\ boot' = EnsureBootstrap
    BY <1>4 DEF Publish, Rejected, Busy
  <2>2. boot' # None
    BY <2>1 DEF EnsureBootstrap, NoneIsNoRecord
  <2>3. r.lm \in 0..lastPub'
    BY <1>1, <2>1 DEF GoodPackages
  <2>4. CASE boot' = boot
    BY <2>1, <2>3, <2>4, PackagesUnchanged DEF GoodPackages
  <2>5. CASE boot' # boot
    <3>1. boot'.changed = now /\ now > r.lm
      BY <1>1, <2>1, <2>5, EnsureBootstrapType DEF BusyInv
    <3>2. ~ ArchUpToDate(a, r.lm)'
      BY <1>1, <3>1 DEF ArchUpToDate
    <3>3. QED BY <2>2, <2>3, <3>2 DEF GoodPackages
  <2>6. QED BY <2>4, <2>5
<1>5. UNCHANGED <<disk, boot, lastPub>> \/ (\E s \in Sources : SourceUpdated(s))
        \/ Publish \/ Rejected
  BY StepKinds DEF Quiet, Crash, GetPackages, GetRelease, server
<1>6. QED BY <1>2, <1>3, <1>4, <1>5

LEMMA PackagesNext ==
    ASSUME Native, NoneIsNoRecord
    PROVE  TypeInv /\ BusyInv /\ PackagesInv /\ NoStalePackages /\ [Next]_vars
             => PackagesInv' /\ NoStalePackages'
<1> SUFFICES ASSUME TypeInv, BusyInv, PackagesInv, NoStalePackages, [Next]_vars
             PROVE  PackagesInv' /\ NoStalePackages'
  OBVIOUS
<1>1. CASE UNCHANGED <<snap, copy>>
  <2>1. ASSUME NEW a \in Archs
        PROVE  /\ snap # None => GoodPackages(a, snap.pkgs[a])'
               /\ copy[a] # None => GoodPackages(a, copy[a])'
    BY <1>1, PackagesKept DEF PackagesInv, GoodPackages, ArchUpToDate
  <2>2. QED BY <1>1, <2>1 DEF PackagesInv, NoStalePackages
<1>2. CASE Publish
  <2>1. boot'.changed \in 1..now
    BY <1>2, PublishIs, EnsureBootstrapType
  <2>2. boot' # None
    BY <1>2, PublishIs DEF EnsureBootstrap, NoneIsNoRecord
  <2>3. lastPub' = now /\ UNCHANGED <<now, disk, copy>> /\ StrictChecks
    BY <1>2, PublishIs DEF client
  <2>4. now \in Nat /\ Recorded' = Recorded /\ \A s \in Recorded : disk[s].changed \in Nat
    BY <2>3, RefreshAssumption DEF TypeInv, Recorded
  <2>5. ASSUME NEW a \in Archs
        PROVE  /\ GoodPackages(a, snap.pkgs[a])'
               /\ copy[a] # None => GoodPackages(a, copy[a])'
               /\ copy[a] # None /\ NotModified(snap'.pkgs[a].lm, copy[a].lm)
                    => copy[a].data = snap'.pkgs[a].data
    <3>0. Packages(a, boot)' = Packages(a, boot')
      BY <2>3 DEF Packages, Stanzas, Stanza, Recorded
    <3>1. snap'.pkgs[a].data = Packages(a, boot)' /\ snap'.pkgs[a].lm = PackagesLM(a, boot')
      <4>1. snap'.pkgs[a] = [data |-> Packages(a, boot'), lm |-> PackagesLM(a, boot')]
        BY <1>2, PublishIs
      <4>2. snap'.pkgs[a].data = Packages(a, boot') /\ snap'.pkgs[a].lm = PackagesLM(a, boot')
        BY <4>1
      <4>3. QED BY <3>0, <4>2
    <3>2. ASSUME NEW t \in Recorded, disk[t].rel.arch = a
          PROVE  /\ PackagesLM(a, boot') \in 1..now /\ boot'.changed <= PackagesLM(a, boot')
                 /\ \A s \in Recorded :
                      disk[s].rel.arch = a => disk[s].changed <= PackagesLM(a, boot')
      BY <2>1, <3>2, PackagesLMIs
    <3>3. (\A s \in Recorded : disk[s].rel.arch # a) => PackagesLM(a, boot') = 0
      BY DEF PackagesLM
    <3>4. PackagesLM(a, boot') \in 0..now
      BY <2>4, <3>2, <3>3
    <3>5. GoodPackages(a, snap.pkgs[a])'
      BY <2>2, <2>3, <3>1, <3>4 DEF GoodPackages
    <3>6. copy[a] # None => GoodPackages(a, copy[a])'
      BY <2>3, PackagesKept DEF PackagesInv, GoodPackages, ArchUpToDate
    <3>7. ASSUME copy[a] # None, NotModified(snap'.pkgs[a].lm, copy[a].lm)
          PROVE  copy[a].data = snap'.pkgs[a].data
      <4>1. PICK t \in Recorded : disk[t].rel.arch = a
        BY <3>1, <3>3, <3>7 DEF NotModified
      <4>2. copy[a].lm \in Nat /\ PackagesLM(a, boot') <= copy[a].lm
        BY <3>1, <3>7 DEF PackagesInv, GoodPackages, NotModified, TypeInv
      <4>3. \A s \in Recorded : a \in ArchsOf[s] => disk[s].rel.arch = a
        <5>1. ASSUME NEW s \in Recorded, a \in ArchsOf[s] PROVE disk[s].rel.arch = a
          <6>1. Stanza(s).arch \in Archs \cup {All} /\ Stanza(s).arch = disk[s].rel.arch
            BY <2>3 DEF StrictChecks, Stanzas, Stanza
          <6>2. s \in Sources /\ disk[s].rel.arch \in ArchsOf[s]
            BY DEF TypeInv, Recorded
          <6>3. QED BY <5>1, <6>1, <6>2 DEF Native
        <5>2. QED BY <5>1
      <4>4. \A s \in Recorded : a \in ArchsOf[s] => disk[s].changed <= copy[a].lm
        BY <2>4, <3>2, <3>4, <4>1, <4>2, <4>3
      <4>5. boot'.changed <= copy[a].lm
        BY <2>1, <2>4, <3>2, <3>4, <4>1, <4>2
      <4>6. ArchUpToDate(a, copy[a].lm)'
        BY <2>3, <2>4, <4>3, <4>4, <4>5 DEF ArchUpToDate
      <4>7. QED BY <2>3, <3>1, <3>6, <3>7, <4>6 DEF GoodPackages
    <3>8. QED BY <3>5, <3>6, <3>7
  <2>6. QED BY <2>3, <2>5 DEF PackagesInv, NoStalePackages
<1>3. CASE Crash
  <2>1. snap' = None /\ UNCHANGED <<disk, boot, lastPub, copy>>
    BY <1>3 DEF Crash
  <2>2. \A a \in Archs : copy[a] # None => GoodPackages(a, copy[a])'
    BY <2>1, PackagesUnchanged DEF PackagesInv, GoodPackages
  <2>3. QED BY <2>1, <2>2 DEF PackagesInv, NoStalePackages
<1>4. ASSUME NEW b \in Archs, GetPackages(b) PROVE PackagesInv' /\ NoStalePackages'
  <2>1. /\ snap # None /\ UNCHANGED <<snap, disk, boot, lastPub>>
        /\ copy' = [copy EXCEPT ![b] = snap.pkgs[b]]
    BY <1>4 DEF GetPackages, Listening, server
  <2>2. copy'[b] = snap.pkgs[b] /\ \A a \in Archs : a # b => copy'[a] = copy[a]
    BY <2>1 DEF PackagesInv
  <2>3. copy' \in [Archs -> {copy'[a] : a \in Archs}]
    BY <2>1 DEF PackagesInv
  <2>4. ASSUME NEW a \in Archs
        PROVE  /\ GoodPackages(a, snap.pkgs[a])'
               /\ copy'[a] # None => GoodPackages(a, copy[a])'
               /\ copy'[a] # None /\ NotModified(snap.pkgs[a].lm, copy'[a].lm)
                    => copy'[a].data = snap.pkgs[a].data
    <3>1. GoodPackages(a, snap.pkgs[a])'
      BY <2>1, PackagesUnchanged DEF PackagesInv, GoodPackages
    <3>2. CASE a = b
      BY <2>1, <2>2, <3>1, <3>2 DEF GoodPackages, ArchUpToDate
    <3>3. CASE a # b
      <4>1. copy'[a] = copy[a]
        BY <2>2, <3>3
      <4>2. copy[a] # None => GoodPackages(a, copy[a])'
        BY <2>1, <4>1, PackagesUnchanged DEF PackagesInv, GoodPackages
      <4>3. QED BY <2>1, <3>1, <4>1, <4>2 DEF NoStalePackages
    <3>4. QED BY <3>2, <3>3
  <2>5. QED BY <2>1, <2>3, <2>4 DEF PackagesInv, NoStalePackages
<1>5. UNCHANGED <<snap, copy>> \/ Publish \/ Crash \/ \E a \in Archs : GetPackages(a)
  BY StepKinds DEF Quiet, client, SourceUpdated, Rejected, GetRelease, server
<1>6. QED BY <1>1, <1>2, <1>3, <1>4, <1>5

LEMMA PackagesInit == Init => PackagesInv /\ NoStalePackages
BY DEF Init, PackagesInv, NoStalePackages

\* A 304 to a client's Packages is truthful, as long as every source keeps to
\* one architecture of the suite.
THEOREM PackagesNeverStale ==
    ASSUME Timed, Native, NoneIsNoRecord
    PROVE  Spec => []NoStalePackages
<1> DEFINE IInv == TypeInv /\ BusyInv /\ PackagesInv /\ NoStalePackages
<1>1. Init => IInv
  BY TypeInit, CacheInit, PackagesInit
<1>2. IInv /\ [Next]_vars => IInv'
  BY TypeNext, BusyNext, PackagesNext
<1>3. QED BY <1>1, <1>2, PTL DEF Spec

-----------------------------------------------------------------------------
(* A record on disk is only ever replaced by one of the same or later      *)
(* bytes, and as long as its vendor rests it is not replaced.              *)

\* A source that has not moved shows the token on record.
MovedInv == \A s \in Sources \ moved : Current(s)

LEMMA MovedNext == TypeInv /\ MovedInv /\ [Next]_vars => MovedInv'
<1> SUFFICES ASSUME TypeInv, MovedInv, [Next]_vars PROVE MovedInv'
  OBVIOUS
<1>1. CASE UNCHANGED <<upstream, disk, moved>>
  BY <1>1 DEF MovedInv, Current
<1>2. ASSUME NEW s \in Sources, SourceUpdated(s) PROVE MovedInv'
  <2>1. ~ Current(s) /\ UNCHANGED <<upstream, moved>>
        /\ disk' = [disk EXCEPT ![s] = [rel |-> upstream[s], changed |-> now]]
    BY <1>2 DEF SourceUpdated
  <2>2. s \in moved /\ \A t \in Sources : t # s => disk'[t] = disk[t]
    BY <2>1 DEF MovedInv, TypeInv
  <2>3. QED BY <2>1, <2>2 DEF MovedInv, Current
<1>3. CASE Publish
  BY <1>3 DEF Publish, MovedInv, Current
<1>4. CASE Releases \/ Retokens
  <2>1. disk' = disk
    BY <1>4 DEF Releases, Retokens, server
  <2>2. PICK s \in Sources : moved' = moved \cup {s} /\ \E u : upstream' = [upstream EXCEPT ![s] = u]
    <3>1. CASE Releases
      BY <1>4, <3>1 DEF Releases
    <3>2. CASE Retokens
      <4>1. PICK s \in Sources : moved' = moved \cup {s}
                                 /\ upstream' = [upstream EXCEPT ![s].token = @ + 1]
        BY <3>2, RefreshAssumption DEF Retokens
      <4>2. upstream' = [upstream EXCEPT ![s] = [upstream[s] EXCEPT !.token = @ + 1]]
        BY <4>1
      <4>3. QED BY <4>1, <4>2
    <3>3. QED BY <1>4, <3>1, <3>2
  <2>3. \A t \in Sources \ moved' : upstream'[t] = upstream[t] /\ t \notin moved
    BY <2>2 DEF TypeInv
  <2>4. QED BY <2>1, <2>3 DEF MovedInv, Current
<1>5. UNCHANGED <<upstream, disk, moved>> \/ (\E s \in Sources : SourceUpdated(s))
        \/ Publish \/ Releases \/ Retokens
  BY DEF Next, vars, server, client, Start, Reload, ImportDone, TickStart, SourceFails,
         SourceUnchanged, Cancel, Rejected, Crash, TimePasses, GetPackages, GetRelease
<1>6. QED BY <1>1, <1>2, <1>3, <1>4, <1>5

Providers == Sources \cup {"bootstrap"}
OnRecord(x) == IF x = "bootstrap" THEN boot # None ELSE disk[x] # None
BytesOf(x) == IF x = "bootstrap" THEN boot.ver ELSE disk[x].rel.bytes
ChangedOf(x) == IF x = "bootstrap" THEN boot.changed ELSE disk[x].changed

\* The bootstrap package is still the one of version n, or the source x rests.
Still(x, n) == IF x = "bootstrap" THEN boot.ver = n ELSE x \notin moved

LEMMA RecordsGrow ==
    ASSUME NoneIsNoRecord, TypeInv, MovedInv, [Next]_vars, NEW x \in Providers, OnRecord(x)
    PROVE  /\ OnRecord(x)' /\ BytesOf(x) \in Nat /\ BytesOf(x)' \in Nat
           /\ BytesOf(x) <= BytesOf(x)'
           /\ (IF x = "bootstrap" THEN BytesOf(x)' = BytesOf(x) ELSE x \notin moved)
                => ChangedOf(x)' = ChangedOf(x)
<1> DEFINE Kept == IF x = "bootstrap" THEN BytesOf(x)' = BytesOf(x) ELSE x \notin moved
<1>1. BytesOf(x) \in Nat
  BY RefreshAssumption DEF TypeInv, Providers, OnRecord, BytesOf, SrcRelease
<1>2. CASE UNCHANGED <<disk, boot>>
  BY <1>1, <1>2 DEF OnRecord, BytesOf, ChangedOf
<1>3. ASSUME NEW s \in Sources, SourceUpdated(s)
      PROVE  /\ OnRecord(x)' /\ BytesOf(x)' \in Nat /\ BytesOf(x) <= BytesOf(x)'
             /\ Kept => ChangedOf(x)' = ChangedOf(x)
  <2>1. /\ disk' = [disk EXCEPT ![s] = [rel |-> upstream[s], changed |-> now]]
        /\ disk'[s] = [rel |-> upstream[s], changed |-> now]
        /\ upstream[s].bytes \in Nat
        /\ disk[s] # None => disk[s].rel.bytes <= upstream[s].bytes
    BY <1>3, SourceUpdatedType
  <2>2. boot' = boot /\ s \in moved
    BY <1>3 DEF SourceUpdated, MovedInv
  <2>3. CASE x = s
    <3>1. x # "bootstrap"
      BY <2>3, RefreshAssumption
    <3>2. QED BY <2>1, <2>2, <2>3, <3>1 DEF OnRecord, BytesOf, NoneIsNoRecord
  <2>4. CASE x # s
    <3>1. x = "bootstrap" \/ disk'[x] = disk[x]
      BY <2>1, <2>4 DEF TypeInv, Providers
    <3>2. QED BY <1>1, <2>2, <3>1 DEF OnRecord, BytesOf, ChangedOf
  <2>5. QED BY <2>3, <2>4
<1>4. CASE Publish \/ Rejected
  <2>1. UNCHANGED disk /\ boot' = EnsureBootstrap
    BY <1>4 DEF Publish, Rejected
  <2>2. boot' # None /\ boot'.ver \in Nat /\ (boot' # boot /\ boot # None => boot'.ver > boot.ver)
    BY <2>1, EnsureBootstrapType DEF EnsureBootstrap, NoneIsNoRecord
  <2>3. QED BY <1>1, <2>1, <2>2 DEF OnRecord, BytesOf, ChangedOf
<1>5. UNCHANGED <<disk, boot>> \/ (\E s \in Sources : SourceUpdated(s)) \/ Publish \/ Rejected
  BY StepKinds DEF Quiet, Crash, GetPackages, GetRelease, server
<1>6. QED BY <1>1, <1>2, <1>3, <1>4, <1>5

\* The Last-Modified of a Packages file and of Release, from their stanzas and
\* the changes ch of the sources.
LMFrom(data, a, ch) ==
    IF \A e \in data : e.arch # a THEN 0
    ELSE Max({ch[e.src] : e \in {f \in data : f.arch = a \/ f.src = "bootstrap"}})
SuiteLMFrom(data, ch) == Max({ch[e.src] : e \in UNION {data[a] : a \in Archs}})

\* The snapshot was composed of records the disk still has, or has replaced
\* after their vendors moved: ch is when they had changed.
ServedWith(ch) ==
    /\ \A a \in Archs : \A e \in snap.pkgs[a].data :
         /\ e.src \in Providers /\ OnRecord(e.src)
         /\ e.bytes \in Nat /\ e.bytes <= BytesOf(e.src)
         /\ Still(e.src, e.bytes) => ChangedOf(e.src) = ch[e.src]
    /\ \A a \in Archs : snap.pkgs[a].lm = LMFrom(snap.pkgs[a].data, a, ch)
    /\ snap.release.data = [a \in Archs |-> snap.pkgs[a].data]
    /\ snap.release.lm = SuiteLMFrom(snap.release.data, ch)

ServedInv == snap # None => \E ch : ServedWith(ch)

\* The stanzas of a composition.
LEMMA PackagesAre ==
    ASSUME NEW a, NEW b
    PROVE  /\ \A e \in Packages(a, b) :
                \/ e = BootStanza(b)
                \/ \E s \in Recorded : e = Stanza(s) /\ e.src = s /\ disk[s].rel.arch \in {a, All}
           /\ BootStanza(b) \in Packages(a, b)
           /\ \A s \in Recorded : disk[s].rel.arch \in {a, All} => Stanza(s) \in Packages(a, b)
BY DEF Packages, Stanzas, Stanza, BootStanza

LEMMA PackagesLMFrom ==
    ASSUME NEW a \in Archs, NEW b, NEW ch, ch["bootstrap"] = b.changed,
           \A s \in Recorded : ch[s] = disk[s].changed
    PROVE  PackagesLM(a, b) = LMFrom(Packages(a, b), a, ch)
<1> DEFINE own == {s \in Recorded : disk[s].rel.arch = a}
           S == {disk[s].changed : s \in own} \cup {b.changed}
           E == {f \in Packages(a, b) : f.arch = a \/ f.src = "bootstrap"}
           T == {ch[e.src] : e \in E}
<1>1. All # a /\ Recorded \subseteq Sources /\ "bootstrap" \notin Sources
  BY RefreshAssumption DEF Recorded
<1>2. ASSUME NEW e \in Packages(a, b), e.arch = a
      PROVE  \E s \in own : e = Stanza(s) /\ e.src = s
  <2>1. e # BootStanza(b)
    BY <1>1, <1>2 DEF BootStanza
  <2>2. PICK s \in Recorded : e = Stanza(s) /\ e.src = s
    BY <2>1, PackagesAre
  <2>3. disk[s].rel.arch = a
    BY <1>2, <2>2 DEF Stanza
  <2>4. QED BY <2>2, <2>3
<1>3. \A s \in own : Stanza(s) \in E /\ Stanza(s).arch = a /\ Stanza(s).src = s
  BY PackagesAre DEF Stanza
<1>4. BootStanza(b) \in E /\ BootStanza(b).src = "bootstrap"
  BY PackagesAre DEF BootStanza
<1>5. \A e \in Packages(a, b) : e.src = "bootstrap" => e = BootStanza(b)
  BY <1>1, PackagesAre
<1>6. own = {} <=> \A e \in Packages(a, b) : e.arch # a
  BY <1>2, <1>3
<1>7. S = T
  <2>1. ASSUME NEW v \in S PROVE v \in T
    BY <1>3, <1>4, <2>1
  <2>2. ASSUME NEW v \in T PROVE v \in S
    <3>1. PICK e \in E : v = ch[e.src]
      BY <2>2
    <3>2. e.src = "bootstrap" \/ \E s \in own : e.src = s
      BY <1>2, <3>1
    <3>3. QED BY <3>1, <3>2
  <2>3. QED BY <2>1, <2>2
<1>8. QED
  <2>1. PackagesLM(a, b) = IF own = {} THEN 0 ELSE Max(S)
    BY DEF PackagesLM
  <2>2. LMFrom(Packages(a, b), a, ch) = IF own = {} THEN 0 ELSE Max(T)
    BY <1>6 DEF LMFrom
  <2>3. QED BY <1>7, <2>1, <2>2

LEMMA ReleaseLMFrom ==
    ASSUME TypeInv, StrictChecks, NEW b, NEW ch, ch["bootstrap"] = b.changed,
           \A s \in Recorded : ch[s] = disk[s].changed
    PROVE  SuiteLM(b) = SuiteLMFrom([a \in Archs |-> Packages(a, b)], ch)
<1> DEFINE data == [a \in Archs |-> Packages(a, b)]
           S == {disk[s].changed : s \in Recorded} \cup {b.changed}
           T == {ch[e.src] : e \in UNION {data[a] : a \in Archs}}
<1>1. Recorded \subseteq Sources /\ "bootstrap" \notin Sources
  BY RefreshAssumption DEF Recorded
<1>2. ASSUME NEW e \in UNION {data[a] : a \in Archs}
      PROVE  e.src = "bootstrap" \/ e.src \in Recorded
  <2>1. PICK a \in Archs : e \in Packages(a, b)
    OBVIOUS
  <2>2. e = BootStanza(b) \/ \E s \in Recorded : e.src = s
    BY <2>1, PackagesAre
  <2>3. BootStanza(b).src = "bootstrap"
    BY DEF BootStanza
  <2>4. QED BY <2>2, <2>3
<1>3. ASSUME NEW s \in Recorded PROVE disk[s].rel.arch \in Archs \cup {All}
  <2>1. Stanza(s).arch \in Archs \cup {All} /\ Stanza(s).arch = disk[s].rel.arch
    BY DEF StrictChecks, Stanzas, Stanza
  <2>2. QED BY <2>1
<1>4. \A s \in Recorded : \E a \in Archs : Stanza(s) \in data[a] /\ Stanza(s).src = s
  <2>1. ASSUME NEW s \in Recorded PROVE \E a \in Archs : disk[s].rel.arch \in {a, All}
    BY <1>3, RefreshAssumption
  <2>2. QED BY <2>1, PackagesAre DEF Stanza
<1>5. \E a \in Archs : BootStanza(b) \in data[a] /\ BootStanza(b).src = "bootstrap"
  BY PackagesAre, RefreshAssumption DEF BootStanza
<1>6. S = T
  <2> HIDE DEF data
  <2>1. ASSUME NEW v \in S PROVE v \in T
    BY <1>4, <1>5, <2>1
  <2>2. ASSUME NEW v \in T PROVE v \in S
    BY <1>2, <2>2
  <2>3. QED BY <2>1, <2>2
<1>7. QED
  BY <1>6 DEF SuiteLM, SuiteLMFrom

\* When every source of the stanzas has the change ch gives it, so has LM.
LEMMA SameLM ==
    ASSUME NEW data, NEW a, NEW ch, NEW dh, \A e \in data : ch[e.src] = dh[e.src]
    PROVE  LMFrom(data, a, ch) = LMFrom(data, a, dh)
<1>1. {ch[e.src] : e \in {f \in data : f.arch = a \/ f.src = "bootstrap"}}
        = {dh[e.src] : e \in {f \in data : f.arch = a \/ f.src = "bootstrap"}}
  OBVIOUS
<1>2. QED BY <1>1 DEF LMFrom

LEMMA SameSuiteLM ==
    ASSUME NEW data, NEW ch, NEW dh, \A a \in Archs : \A e \in data[a] : ch[e.src] = dh[e.src]
    PROVE  SuiteLMFrom(data, ch) = SuiteLMFrom(data, dh)
<1>1. {ch[e.src] : e \in UNION {data[a] : a \in Archs}}
        = {dh[e.src] : e \in UNION {data[a] : a \in Archs}}
  OBVIOUS
<1>2. QED BY <1>1 DEF SuiteLMFrom

\* What a composition serves, with the changes now on record.
LEMMA PublishServes ==
    ASSUME NoneIsNoRecord, TypeInv, Publish
    PROVE  \E ch :
             /\ \A x \in Providers : ch[x] = ChangedOf(x)'
             /\ ServedWith(ch)'
             /\ \A a \in Archs : \A e \in snap'.pkgs[a].data : e.bytes = BytesOf(e.src)'
<1> PICK ch : ch = [x \in Providers |-> ChangedOf(x)']
  OBVIOUS
<1>1. /\ disk' = disk /\ boot' # None /\ boot'.ver \in Nat /\ StrictChecks
      /\ boot' = EnsureBootstrap
  BY PublishIs, EnsureBootstrapType DEF EnsureBootstrap, NoneIsNoRecord
<1>2. /\ \A x \in Providers : ch[x] = ChangedOf(x)'
      /\ ch["bootstrap"] = boot'.changed
      /\ \A s \in Recorded : ch[s] = disk[s].changed
  BY <1>1, RefreshAssumption DEF Providers, ChangedOf, Recorded
<1>3. /\ \A a \in Archs : snap'.pkgs[a] = [data |-> Packages(a, boot'),
                                           lm |-> PackagesLM(a, boot')]
      /\ snap'.release.data = [a \in Archs |-> Packages(a, boot')]
      /\ snap'.release.lm = SuiteLM(boot')
  BY PublishIs
<1>4. \A a \in Archs : PackagesLM(a, boot') = LMFrom(Packages(a, boot'), a, ch)
  BY <1>2, PackagesLMFrom
<1>5. SuiteLM(boot') = SuiteLMFrom([a \in Archs |-> Packages(a, boot')], ch)
  BY <1>1, <1>2, ReleaseLMFrom
<1>6. ASSUME NEW a \in Archs, NEW e \in Packages(a, boot')
      PROVE  /\ e.src \in Providers /\ OnRecord(e.src)'
             /\ e.bytes \in Nat /\ e.bytes = BytesOf(e.src)'
  <2>1. CASE e = BootStanza(boot')
    BY <1>1, <2>1 DEF BootStanza, Providers, OnRecord, BytesOf
  <2>2. CASE \E s \in Recorded : e = Stanza(s)
    <3>1. PICK s \in Recorded : e = Stanza(s)
      BY <2>2
    <3>2. e.src = s /\ e.bytes = disk[s].rel.bytes /\ s \in Sources /\ disk[s] # None
          /\ s # "bootstrap" /\ e.bytes \in Nat
      BY <3>1, RefreshAssumption DEF Stanza, Recorded, TypeInv, SrcRelease
    <3>3. QED BY <1>1, <3>2 DEF Providers, OnRecord, BytesOf
  <2>3. QED BY <2>1, <2>2, PackagesAre
<1>7. \A a \in Archs : snap'.pkgs[a].data = Packages(a, boot')
                       /\ snap'.pkgs[a].lm = PackagesLM(a, boot')
  <2>1. ASSUME NEW a \in Archs
        PROVE  snap'.pkgs[a].data = Packages(a, boot') /\ snap'.pkgs[a].lm = PackagesLM(a, boot')
    <3>1. snap'.pkgs[a] = [data |-> Packages(a, boot'), lm |-> PackagesLM(a, boot')]
      BY <1>3
    <3>2. QED BY <3>1
  <2>2. QED BY <2>1
<1>8. ASSUME NEW a \in Archs, NEW e \in snap'.pkgs[a].data
      PROVE  /\ e.src \in Providers /\ OnRecord(e.src)'
             /\ e.bytes \in Nat /\ e.bytes = BytesOf(e.src)'
             /\ ChangedOf(e.src)' = ch[e.src]
  BY <1>2, <1>6, <1>7
<1>9. snap'.release.data = [a \in Archs |-> snap'.pkgs[a].data]
  BY <1>3, <1>7
<1>10. ServedWith(ch)'
  <2>1. \A a \in Archs : snap'.pkgs[a].lm = LMFrom(snap'.pkgs[a].data, a, ch)
    BY <1>4, <1>7
  <2>2. snap'.release.lm = SuiteLMFrom(snap'.release.data, ch)
    BY <1>3, <1>5
  <2>3. QED BY <1>8, <1>9, <2>1, <2>2 DEF ServedWith
<1>11. QED BY <1>2, <1>8, <1>10

LEMMA ServedKept ==
    ASSUME NoneIsNoRecord, TypeInv, MovedInv, [Next]_vars, UNCHANGED snap, moved \subseteq moved',
           NEW ch, ServedWith(ch)
    PROVE  ServedWith(ch)'
<1>1. ASSUME NEW a \in Archs, NEW e \in snap.pkgs[a].data
      PROVE  /\ e.src \in Providers /\ OnRecord(e.src)'
             /\ e.bytes \in Nat /\ e.bytes <= BytesOf(e.src)'
             /\ Still(e.src, e.bytes)' => ChangedOf(e.src)' = ch[e.src]
  <2>1. /\ e.src \in Providers /\ OnRecord(e.src)
        /\ e.bytes \in Nat /\ e.bytes <= BytesOf(e.src)
        /\ Still(e.src, e.bytes) => ChangedOf(e.src) = ch[e.src]
    BY DEF ServedWith
  <2>2. /\ OnRecord(e.src)' /\ BytesOf(e.src) \in Nat /\ BytesOf(e.src)' \in Nat
        /\ BytesOf(e.src) <= BytesOf(e.src)'
        /\ (IF e.src = "bootstrap" THEN BytesOf(e.src)' = BytesOf(e.src) ELSE e.src \notin moved)
             => ChangedOf(e.src)' = ChangedOf(e.src)
    BY <2>1, RecordsGrow
  <2>3. e.bytes <= BytesOf(e.src)'
    BY <2>1, <2>2
  <2>4. ASSUME Still(e.src, e.bytes)' PROVE ChangedOf(e.src)' = ch[e.src]
    <3>1. CASE e.src = "bootstrap"
      <4>1. BytesOf(e.src) = boot.ver /\ BytesOf(e.src)' = boot'.ver /\ boot'.ver = e.bytes
        BY <2>4, <3>1 DEF BytesOf, Still
      <4>2. BytesOf(e.src) = e.bytes /\ BytesOf(e.src)' = BytesOf(e.src)
        BY <2>1, <2>2, <4>1
      <4>3. QED BY <2>1, <2>2, <3>1, <4>1, <4>2 DEF Still
    <3>2. CASE e.src # "bootstrap"
      BY <2>1, <2>2, <2>4, <3>2 DEF Still
    <3>3. QED BY <3>1, <3>2
  <2>5. QED BY <2>1, <2>2, <2>3, <2>4
<1>2. QED BY <1>1 DEF ServedWith

LEMMA ServedNext ==
    ASSUME NoneIsNoRecord
    PROVE  TypeInv /\ MovedInv /\ ServedInv /\ [Next]_vars => ServedInv'
<1> SUFFICES ASSUME TypeInv, MovedInv, ServedInv, [Next]_vars, snap' # None
             PROVE  \E ch : ServedWith(ch)'
  BY DEF ServedInv
<1>1. CASE Publish
  BY <1>1, PublishServes
<1>2. CASE UNCHANGED snap /\ moved \subseteq moved'
  BY <1>2, ServedKept DEF ServedInv
<1>3. Publish \/ (UNCHANGED snap /\ moved \subseteq moved')
  BY StepKinds DEF Quiet, SourceUpdated, Rejected, Crash, GetPackages, GetRelease, server
<1>4. QED BY <1>1, <1>2, <1>3

LEMMA ServedInvariant ==
    ASSUME NoneIsNoRecord
    PROVE  Spec => [](TypeInv /\ MovedInv /\ ServedInv)
<1>1. Init => MovedInv /\ ServedInv
  BY DEF Init, MovedInv, ServedInv
<1>2. TypeInv /\ MovedInv /\ ServedInv /\ [Next]_vars => (TypeInv /\ MovedInv /\ ServedInv)'
  BY TypeNext, MovedNext, ServedNext
<1>3. QED BY <1>1, <1>2, TypeInit, PTL DEF Spec

\* Whatever was served is on disk, those bytes or later ones.
THEOREM NeverOlderAfterRestart ==
    ASSUME NoneIsNoRecord
    PROVE  Spec => []ServedIsDurable
<1>1. TypeInv /\ ServedInv => ServedIsDurable
  <2>1. SUFFICES ASSUME ServedInv, snap # None, NEW a \in Archs, NEW e \in snap.pkgs[a].data,
                        e.src \in Sources
                 PROVE  disk[e.src] # None /\ disk[e.src].rel.bytes >= e.bytes
    BY DEF ServedIsDurable
  <2>2. e.src # "bootstrap"
    BY <2>1, RefreshAssumption
  <2>3. OnRecord(e.src) /\ e.bytes <= BytesOf(e.src)
    BY <2>1 DEF ServedInv, ServedWith
  <2>4. QED BY <2>2, <2>3 DEF OnRecord, BytesOf
<1>2. QED BY <1>1, ServedInvariant, PTL

\* A composition that gives the same Packages, or the same Release, gives it
\* the same Last-Modified while the vendors of its sources rest: their records
\* are not written, and the bootstrap package is the same under one version.
LEMMA HitStep ==
    ASSUME NoneIsNoRecord, TypeInv, MovedInv, ServedInv, [Next]_vars, snap # None, snap' # None
    PROVE  /\ \A a \in Archs :
                snap'.pkgs[a].data = snap.pkgs[a].data /\ Rests(snap.pkgs[a].data)
                  => snap'.pkgs[a].lm = snap.pkgs[a].lm
           /\ snap'.release.data = snap.release.data
                  /\ (\A a \in Archs : Rests(snap.release.data[a]))
                => snap'.release.lm = snap.release.lm
<1>1. CASE UNCHANGED snap
  BY <1>1
<1>2. CASE Publish
  <2>1. PICK ch : ServedWith(ch)
    BY DEF ServedInv
  <2>2. PICK dh :
            /\ \A x \in Providers : dh[x] = ChangedOf(x)'
            /\ ServedWith(dh)'
            /\ \A a \in Archs : \A e \in snap'.pkgs[a].data : e.bytes = BytesOf(e.src)'
    BY <1>2, PublishServes
  <2>3. ASSUME NEW a \in Archs, snap'.pkgs[a].data = snap.pkgs[a].data,
               Rests(snap.pkgs[a].data), NEW e \in snap.pkgs[a].data
        PROVE  ch[e.src] = dh[e.src]
    <3>1. /\ e.src \in Providers /\ OnRecord(e.src)
          /\ e.bytes \in Nat /\ e.bytes <= BytesOf(e.src)
          /\ Still(e.src, e.bytes) => ChangedOf(e.src) = ch[e.src]
      BY <2>1 DEF ServedWith
    <3>2. e.bytes = BytesOf(e.src)' /\ dh[e.src] = ChangedOf(e.src)' /\ e.src \notin moved
      BY <2>2, <2>3, <3>1 DEF Rests
    <3>3. /\ BytesOf(e.src) \in Nat /\ BytesOf(e.src) <= BytesOf(e.src)'
          /\ (IF e.src = "bootstrap" THEN BytesOf(e.src)' = BytesOf(e.src) ELSE e.src \notin moved)
               => ChangedOf(e.src)' = ChangedOf(e.src)
      BY <3>1, RecordsGrow
    <3>4. BytesOf(e.src) = e.bytes
      BY <3>1, <3>2, <3>3
    <3>5. Still(e.src, e.bytes)
      BY <3>2, <3>4 DEF Still, BytesOf
    <3>6. QED BY <3>1, <3>2, <3>3, <3>4, <3>5
  <2>4. /\ \A a \in Archs : snap.pkgs[a].lm = LMFrom(snap.pkgs[a].data, a, ch)
        /\ snap.release.data = [a \in Archs |-> snap.pkgs[a].data]
        /\ snap.release.lm = SuiteLMFrom(snap.release.data, ch)
    BY <2>1 DEF ServedWith
  <2>5. /\ \A a \in Archs : snap'.pkgs[a].lm = LMFrom(snap'.pkgs[a].data, a, dh)
        /\ snap'.release.data = [a \in Archs |-> snap'.pkgs[a].data]
        /\ snap'.release.lm = SuiteLMFrom(snap'.release.data, dh)
    BY <2>2 DEF ServedWith
  <2>6. ASSUME NEW a \in Archs, snap'.pkgs[a].data = snap.pkgs[a].data, Rests(snap.pkgs[a].data)
        PROVE  snap'.pkgs[a].lm = snap.pkgs[a].lm
    <3>1. LMFrom(snap.pkgs[a].data, a, ch) = LMFrom(snap.pkgs[a].data, a, dh)
      BY <2>3, <2>6, SameLM
    <3>2. QED BY <2>4, <2>5, <2>6, <3>1
  <2>7. ASSUME snap'.release.data = snap.release.data,
               \A a \in Archs : Rests(snap.release.data[a])
        PROVE  snap'.release.lm = snap.release.lm
    <3>1. \A a \in Archs : /\ snap'.pkgs[a].data = snap.pkgs[a].data
                           /\ snap.release.data[a] = snap.pkgs[a].data
                           /\ Rests(snap.pkgs[a].data)
      BY <2>4, <2>5, <2>7
    <3>2. \A a \in Archs : \A e \in snap.release.data[a] : ch[e.src] = dh[e.src]
      BY <2>3, <3>1
    <3>3. SuiteLMFrom(snap.release.data, ch) = SuiteLMFrom(snap.release.data, dh)
      BY <3>2, SameSuiteLM
    <3>4. QED BY <2>4, <2>5, <2>7, <3>3
  <2>8. QED BY <2>6, <2>7
<1>3. Publish \/ UNCHANGED snap \/ snap' = None
  BY StepKinds DEF Quiet, SourceUpdated, Rejected, Crash, GetPackages, GetRelease, server
<1>4. QED BY <1>1, <1>2, <1>3

\* Last-Modified rests when contents and vendors do.
THEOREM RestIsHit ==
    ASSUME NoneIsNoRecord
    PROVE  Spec => HitWhenVendorsRest
<1>1. TypeInv /\ MovedInv /\ ServedInv /\ [Next]_vars =>
        (snap # None /\ snap' # None =>
           /\ \A a \in Archs :
                snap'.pkgs[a].data = snap.pkgs[a].data /\ Rests(snap.pkgs[a].data)
                  => snap'.pkgs[a].lm = snap.pkgs[a].lm
           /\ snap'.release.data = snap.release.data
                  /\ (\A a \in Archs : Rests(snap.release.data[a]))
                => snap'.release.lm = snap.release.lm)
  BY HitStep
<1>2. QED BY <1>1, ServedInvariant, PTL DEF Spec, HitWhenVendorsRest

-----------------------------------------------------------------------------
(* Carry-over: what a client was promised until a time stays that long.    *)

LEMMA CarryOverIs ==
    ASSUME NEW fresh, NEW old
    PROVE  /\ \A k \in DOMAIN fresh : /\ k \in DOMAIN CarryOver(fresh, old)
                                      /\ CarryOver(fresh, old)[k] = fresh[k]
           /\ \A k \in DOMAIN old \ DOMAIN fresh :
                old[k].exp > now => /\ k \in DOMAIN CarryOver(fresh, old)
                                    /\ CarryOver(fresh, old)[k] = old[k]
BY DEF CarryOver

HashKey(a, data) == [arch |-> a, data |-> data[a]]

\* byhash has the Packages that data lists, until t at least.
KeepsHashes(byhash, data, t) ==
    \A a \in Archs : LET k == HashKey(a, data)
                     IN k \in DOMAIN byhash /\ byhash[k].exp \in Nat /\ byhash[k].exp >= t

HashInv ==
    /\ snap # None => KeepsHashes(snap.byhash, snap.release.data, snap.built + Retention)
    /\ relcopy # None =>
         /\ relcopy.until \in Nat /\ relcopy.until <= lastPub + Retention
         /\ now < relcopy.until =>
              snap # None /\ KeepsHashes(snap.byhash, relcopy.data, relcopy.until)

LEMMA PublishHashes ==
    ASSUME Publish, NoneIsNoRecord
    PROVE  /\ snap' # None
           /\ \E fresh :
                /\ \A k \in DOMAIN fresh : fresh[k].exp = now + Retention
                /\ \A a \in Archs : HashKey(a, snap'.release.data) \in DOMAIN fresh
                /\ snap'.byhash = CarryOver(fresh, IF snap = None THEN Empty ELSE snap.byhash)
<1>1. snap' = Compose(boot') /\ snap'.release.data = [a \in Archs |-> Packages(a, boot')]
  BY PublishIs
<1> DEFINE keys == {[arch |-> a, data |-> [b \in Archs |-> Packages(b, boot')][a]] : a \in Archs}
           fresh == [k \in keys |-> [exp |-> now + Retention]]
<1>2. snap' # None
  BY <1>1 DEF Compose, NoneIsNoRecord
<1>3. snap'.byhash = CarryOver(fresh, IF snap = None THEN Empty ELSE snap.byhash)
  BY <1>1 DEF Compose
<1>4. \A a \in Archs : HashKey(a, snap'.release.data) \in keys
  BY <1>1 DEF HashKey
<1> HIDE DEF keys
<1>5. DOMAIN fresh = keys /\ \A k \in keys : fresh[k].exp = now + Retention
  OBVIOUS
<1> HIDE DEF fresh
<1>6. QED BY <1>2, <1>3, <1>4, <1>5

LEMMA HashNext ==
    ASSUME NoneIsNoRecord
    PROVE  TypeInv /\ RelcopyShape /\ HashInv /\ [Next]_vars => HashInv'
<1> SUFFICES ASSUME TypeInv, RelcopyShape, HashInv, [Next]_vars PROVE HashInv'
  OBVIOUS
<1>1. /\ now \in Nat /\ now >= 1 /\ lastPub \in Nat /\ lastPub <= now /\ Retention \in Nat
      /\ snap # None => snap.built \in Nat /\ snap.built <= lastPub
  BY RefreshAssumption DEF TypeInv
<1>2. CASE UNCHANGED <<snap, lastPub, relcopy>> /\ now' \in {now, now + 1}
  <2>1. relcopy # None /\ now' < relcopy.until => now < relcopy.until
    BY <1>1, <1>2 DEF HashInv
  <2>2. QED BY <1>2, <2>1 DEF HashInv
<1>3. CASE Publish
  <2>1. PICK fresh :
            /\ \A k \in DOMAIN fresh : fresh[k].exp = now + Retention
            /\ \A a \in Archs : HashKey(a, snap'.release.data) \in DOMAIN fresh
            /\ snap'.byhash = CarryOver(fresh, IF snap = None THEN Empty ELSE snap.byhash)
    BY <1>3, PublishHashes
  <2>2. snap' # None /\ snap'.built = now /\ UNCHANGED <<now, relcopy>> /\ lastPub' = now
    BY <1>3, PublishHashes, PublishIs DEF client
  <2>3. KeepsHashes(snap'.byhash, snap'.release.data, now + Retention)
    BY <1>1, <2>1, CarryOverIs DEF KeepsHashes
  <2>4. ASSUME relcopy # None, now < relcopy.until
        PROVE  KeepsHashes(snap'.byhash, relcopy.data, relcopy.until)
    <3>1. /\ snap # None /\ relcopy.until \in Nat /\ relcopy.until <= now + Retention
          /\ KeepsHashes(snap.byhash, relcopy.data, relcopy.until)
      BY <1>1, <2>4 DEF HashInv
    <3>2. snap'.byhash = CarryOver(fresh, snap.byhash)
      BY <2>1, <3>1
    <3>3. ASSUME NEW a \in Archs
          PROVE  LET k == HashKey(a, relcopy.data)
                 IN /\ k \in DOMAIN snap'.byhash
                    /\ snap'.byhash[k].exp \in Nat /\ snap'.byhash[k].exp >= relcopy.until
      <4> DEFINE k == HashKey(a, relcopy.data)
      <4>1. k \in DOMAIN snap.byhash /\ snap.byhash[k].exp \in Nat
            /\ snap.byhash[k].exp >= relcopy.until
        BY <3>1 DEF KeepsHashes
      <4>2. CASE k \in DOMAIN fresh
        <5>1. k \in DOMAIN snap'.byhash /\ snap'.byhash[k] = fresh[k]
          BY <3>2, <4>2, CarryOverIs
        <5>2. fresh[k].exp = now + Retention
          BY <2>1, <4>2
        <5>3. QED BY <1>1, <3>1, <5>1, <5>2
      <4>3. CASE k \notin DOMAIN fresh
        <5>1. snap.byhash[k].exp > now
          BY <1>1, <2>4, <3>1, <4>1
        <5>2. k \in DOMAIN snap'.byhash /\ snap'.byhash[k] = snap.byhash[k]
          BY <3>2, <4>1, <4>3, <5>1, CarryOverIs
        <5>3. QED BY <4>1, <5>2
      <4>4. QED BY <4>2, <4>3
    <3>4. QED BY <3>3 DEF KeepsHashes
  <2>5. relcopy # None => relcopy.until \in Nat /\ relcopy.until <= now + Retention
    BY <1>1 DEF HashInv
  <2>6. QED BY <2>2, <2>3, <2>4, <2>5 DEF HashInv
<1>4. CASE Crash
  <2>1. snap' = None /\ UNCHANGED <<now, lastPub>>
    BY <1>4 DEF Crash
  <2>2. relcopy' # None => relcopy'.until = 0
    BY <1>4 DEF Crash, RelcopyShape
  <2>3. QED BY <1>1, <2>1, <2>2 DEF HashInv
<1>5. CASE GetRelease
  <2>1. /\ snap # None /\ UNCHANGED <<snap, now, lastPub>>
        /\ relcopy'.data = snap.release.data /\ relcopy'.until = snap.built + Retention
    BY <1>5 DEF GetRelease, Listening, server
  <2>2. QED BY <1>1, <2>1 DEF HashInv, KeepsHashes
<1>6. \/ UNCHANGED <<snap, lastPub, relcopy>> /\ now' \in {now, now + 1}
      \/ Publish \/ Crash \/ GetRelease
  BY StepKinds DEF Quiet, client, SourceUpdated, Rejected, GetPackages, server
<1>7. QED BY <1>2, <1>3, <1>4, <1>5, <1>6

\* While the process lives, whoever read a Release finds every Packages it
\* lists under its hash for Retention after that Release was composed, through
\* any number of compositions.
THEOREM HashesKept ==
    ASSUME NoneIsNoRecord
    PROVE  Spec => []ByHashWindow
<1> DEFINE IInv == TypeInv /\ RelcopyShape /\ HashInv
<1>1. Init => IInv
  BY TypeInit, CacheInit DEF Init, HashInv
<1>2. IInv /\ [Next]_vars => IInv'
  BY TypeNext, ShapeNext, HashNext
<1>3. IInv => ByHashWindow
  BY DEF HashInv, KeepsHashes, HashKey, ByHashWindow
<1>4. QED BY <1>1, <1>2, <1>3, PTL DEF Spec

-----------------------------------------------------------------------------
(* The pool.  Under OneProvider a path names one source and version.       *)

StanzaOf(e) ==
    \/ \E s \in Sources : e.src = s /\ e.pkg = PackageOf[s] /\ e.arch \in ArchsOf[s]
    \/ e.src = "bootstrap" /\ e.pkg = "bootstrap" /\ e.arch = All

LEMMA PathIsAsset ==
    ASSUME OneProvider, NEW e, NEW f, StanzaOf(e), StanzaOf(f), PoolPath(e) = PoolPath(f)
    PROVE  Served(e) = Served(f)
<1>1. e.pkg = f.pkg /\ e.ver = f.ver /\ e.arch = f.arch
  BY DEF PoolPath
<1>2. e.src = f.src
  <2>1. CASE e.pkg = "bootstrap"
    <3>1. e.src = "bootstrap" /\ f.src = "bootstrap"
      BY <1>1, <2>1, RefreshAssumption DEF StanzaOf
    <3>2. QED BY <3>1
  <2>2. CASE e.pkg # "bootstrap"
    BY <1>1, <2>2 DEF StanzaOf, OneProvider
  <2>3. QED BY <2>1, <2>2
<1>3. QED BY <1>1, <1>2 DEF Served

\* pool has the stanza e, until t at least.
KeepsStanza(pool, e, t) ==
    LET p == PoolPath(e)
    IN p \in DOMAIN pool /\ pool[p].file = Served(e) /\ pool[p].exp \in Nat /\ pool[p].exp >= t

KeepsPool(pool, data, t) ==
    \A a \in Archs : \A e \in data[a] : StanzaOf(e) /\ KeepsStanza(pool, e, t)

PoolInv ==
    /\ snap # None => KeepsPool(snap.pool, snap.release.data, snap.built + Retention)
    /\ relcopy # None =>
         /\ relcopy.until \in Nat /\ relcopy.until <= lastPub + Retention
         /\ now < relcopy.until =>
              snap # None /\ KeepsPool(snap.pool, relcopy.data, relcopy.until)

LEMMA StanzasAre ==
    ASSUME TypeInv, NEW b
    PROVE  \A e \in Stanzas \cup {BootStanza(b)} : StanzaOf(e)
<1>1. ASSUME NEW s \in Recorded PROVE StanzaOf(Stanza(s))
  <2>1. s \in Sources /\ disk[s].rel.arch \in ArchsOf[s]
    BY DEF Recorded, TypeInv
  <2>2. QED BY <2>1 DEF Stanza, StanzaOf
<1>2. StanzaOf(BootStanza(b))
  BY DEF BootStanza, StanzaOf
<1>3. QED BY <1>1, <1>2 DEF Stanzas

LEMMA PublishPool ==
    ASSUME OneProvider, NoneIsNoRecord, TypeInv, Publish
    PROVE  \E fresh :
             /\ \A k \in DOMAIN fresh : fresh[k].exp = now + Retention
             /\ \A k \in DOMAIN fresh : \A e :
                  StanzaOf(e) /\ PoolPath(e) = k => fresh[k].file = Served(e)
             /\ \A a \in Archs : \A e \in snap'.release.data[a] :
                  StanzaOf(e) /\ PoolPath(e) \in DOMAIN fresh
             /\ snap'.pool = CarryOver(fresh, IF snap = None THEN Empty ELSE snap.pool)
<1>1. snap' = Compose(boot') /\ snap'.release.data = [a \in Archs |-> Packages(a, boot')]
  BY PublishIs
<1> DEFINE stanzas == Stanzas \cup {BootStanza(boot')}
           file(p) == CHOOSE e \in stanzas : PoolPath(e) = p
           fresh == [p \in {PoolPath(e) : e \in stanzas} |->
                       [file |-> Served(file(p)), exp |-> now + Retention]]
<1>2. snap'.pool = CarryOver(fresh, IF snap = None THEN Empty ELSE snap.pool)
  BY <1>1 DEF Compose
<1>3. \A e \in stanzas : StanzaOf(e)
  BY StanzasAre
<1>4. \A a \in Archs : \A e \in snap'.release.data[a] : e \in stanzas
  BY <1>1 DEF Packages
<1> HIDE DEF stanzas
<1>5. ASSUME NEW d \in stanzas, NEW e, StanzaOf(e), PoolPath(e) = PoolPath(d)
      PROVE  Served(file(PoolPath(d))) = Served(e)
  <2>1. file(PoolPath(d)) \in stanzas /\ PoolPath(file(PoolPath(d))) = PoolPath(d)
    OBVIOUS
  <2> HIDE DEF file
  <2>2. QED BY <1>3, <1>5, <2>1, PathIsAsset
<1> HIDE DEF file
<1>6. /\ DOMAIN fresh = {PoolPath(e) : e \in stanzas}
      /\ \A p \in DOMAIN fresh : fresh[p] = [file |-> Served(file(p)), exp |-> now + Retention]
  OBVIOUS
<1> HIDE DEF fresh
<1>7. ASSUME NEW p \in DOMAIN fresh
      PROVE  fresh[p].file = Served(file(p)) /\ fresh[p].exp = now + Retention
  <2>1. fresh[p] = [file |-> Served(file(p)), exp |-> now + Retention]
    BY <1>6
  <2>2. QED BY <2>1
<1>8. ASSUME NEW k \in DOMAIN fresh, NEW e, StanzaOf(e), PoolPath(e) = k
      PROVE  fresh[k].file = Served(e)
  <2>1. PICK d \in stanzas : k = PoolPath(d)
    BY <1>6
  <2>2. Served(file(k)) = Served(e)
    BY <1>5, <1>8, <2>1
  <2>3. QED BY <1>7, <2>2
<1>9. \A a \in Archs : \A e \in snap'.release.data[a] : StanzaOf(e) /\ PoolPath(e) \in DOMAIN fresh
  BY <1>3, <1>4, <1>6
<1>10. QED BY <1>2, <1>7, <1>8, <1>9

LEMMA PoolNext ==
    ASSUME OneProvider, NoneIsNoRecord
    PROVE  TypeInv /\ RelcopyShape /\ PoolInv /\ [Next]_vars => PoolInv'
<1> SUFFICES ASSUME TypeInv, RelcopyShape, PoolInv, [Next]_vars PROVE PoolInv'
  OBVIOUS
<1>1. /\ now \in Nat /\ now >= 1 /\ lastPub \in Nat /\ lastPub <= now /\ Retention \in Nat
      /\ snap # None => snap.built \in Nat /\ snap.built <= lastPub
  BY RefreshAssumption DEF TypeInv
<1>2. CASE UNCHANGED <<snap, lastPub, relcopy>> /\ now' \in {now, now + 1}
  <2>1. relcopy # None /\ now' < relcopy.until => now < relcopy.until
    BY <1>1, <1>2 DEF PoolInv
  <2>2. QED BY <1>2, <2>1 DEF PoolInv
<1>3. CASE Publish
  <2>1. PICK fresh :
            /\ \A k \in DOMAIN fresh : fresh[k].exp = now + Retention
            /\ \A k \in DOMAIN fresh : \A e :
                 StanzaOf(e) /\ PoolPath(e) = k => fresh[k].file = Served(e)
            /\ \A a \in Archs : \A e \in snap'.release.data[a] :
                 StanzaOf(e) /\ PoolPath(e) \in DOMAIN fresh
            /\ snap'.pool = CarryOver(fresh, IF snap = None THEN Empty ELSE snap.pool)
    BY <1>3, PublishPool
  <2>2. snap' # None /\ snap'.built = now /\ UNCHANGED <<now, relcopy>> /\ lastPub' = now
    BY <1>3, PublishHashes, PublishIs DEF client
  <2>3. ASSUME NEW e, StanzaOf(e), PoolPath(e) \in DOMAIN fresh
        PROVE  KeepsStanza(snap'.pool, e, now + Retention)
    <3>1. PoolPath(e) \in DOMAIN snap'.pool /\ snap'.pool[PoolPath(e)] = fresh[PoolPath(e)]
      BY <2>1, <2>3, CarryOverIs
    <3>2. fresh[PoolPath(e)].file = Served(e) /\ fresh[PoolPath(e)].exp = now + Retention
      BY <2>1, <2>3
    <3>3. QED BY <1>1, <3>1, <3>2 DEF KeepsStanza
  <2>4. KeepsPool(snap'.pool, snap'.release.data, now + Retention)
    BY <2>1, <2>3 DEF KeepsPool
  <2>5. ASSUME relcopy # None, now < relcopy.until
        PROVE  KeepsPool(snap'.pool, relcopy.data, relcopy.until)
    <3>1. /\ snap # None /\ relcopy.until \in Nat /\ relcopy.until <= now + Retention
          /\ KeepsPool(snap.pool, relcopy.data, relcopy.until)
      BY <1>1, <2>5 DEF PoolInv
    <3>2. snap'.pool = CarryOver(fresh, snap.pool)
      BY <2>1, <3>1
    <3>3. ASSUME NEW a \in Archs, NEW e \in relcopy.data[a]
          PROVE  StanzaOf(e) /\ KeepsStanza(snap'.pool, e, relcopy.until)
      <4>1. StanzaOf(e) /\ KeepsStanza(snap.pool, e, relcopy.until)
        BY <3>1 DEF KeepsPool
      <4>2. CASE PoolPath(e) \in DOMAIN fresh
        BY <1>1, <2>3, <3>1, <4>1, <4>2 DEF KeepsStanza
      <4>3. CASE PoolPath(e) \notin DOMAIN fresh
        <5>1. snap.pool[PoolPath(e)].exp > now
          BY <1>1, <2>5, <3>1, <4>1 DEF KeepsStanza
        <5>2. /\ PoolPath(e) \in DOMAIN snap'.pool
              /\ snap'.pool[PoolPath(e)] = snap.pool[PoolPath(e)]
          BY <3>2, <4>1, <4>3, <5>1, CarryOverIs DEF KeepsStanza
        <5>3. QED BY <4>1, <5>2 DEF KeepsStanza
      <4>4. QED BY <4>2, <4>3
    <3>4. QED BY <3>3 DEF KeepsPool
  <2>6. relcopy # None => relcopy.until \in Nat /\ relcopy.until <= now + Retention
    BY <1>1 DEF PoolInv
  <2>7. QED BY <2>2, <2>4, <2>5, <2>6 DEF PoolInv
<1>4. CASE Crash
  <2>1. snap' = None /\ UNCHANGED <<now, lastPub>>
    BY <1>4 DEF Crash
  <2>2. relcopy' # None => relcopy'.until = 0
    BY <1>4 DEF Crash, RelcopyShape
  <2>3. QED BY <1>1, <2>1, <2>2 DEF PoolInv
<1>5. CASE GetRelease
  <2>1. /\ snap # None /\ UNCHANGED <<snap, now, lastPub>>
        /\ relcopy'.data = snap.release.data /\ relcopy'.until = snap.built + Retention
    BY <1>5 DEF GetRelease, Listening, server
  <2>2. QED BY <1>1, <2>1 DEF PoolInv
<1>6. \/ UNCHANGED <<snap, lastPub, relcopy>> /\ now' \in {now, now + 1}
      \/ Publish \/ Crash \/ GetRelease
  BY StepKinds DEF Quiet, client, SourceUpdated, Rejected, GetPackages, server
<1>7. QED BY <1>2, <1>3, <1>4, <1>5, <1>6

\* In the same window every pool path those Packages name leads to the asset
\* of the source and version they describe, and to no other.
THEOREM PoolKept ==
    ASSUME OneProvider, NoneIsNoRecord
    PROVE  Spec => []PoolWindow
<1> DEFINE IInv == TypeInv /\ RelcopyShape /\ PoolInv
<1>1. Init => IInv
  BY TypeInit, CacheInit DEF Init, PoolInv
<1>2. IInv /\ [Next]_vars => IInv'
  BY TypeNext, ShapeNext, PoolNext
<1>3. IInv => PoolWindow
  BY DEF PoolInv, KeepsPool, KeepsStanza, PoolWindow
<1>4. QED BY <1>1, <1>2, <1>3, PTL DEF Spec

=============================================================================
