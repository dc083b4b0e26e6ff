--------------------------- MODULE BootstrapProofs ---------------------------
(***************************************************************************)
(* Proofs about Bootstrap, for any set of inputs, any number of days and   *)
(* any number of rebuilds.  TypeOK holds for any set of writers.  The      *)
(* other theorems assume SingleWriter: TLC shows on two writers that       *)
(* DiskConsistent fails without it.                                        *)
(***************************************************************************)
EXTENDS Bootstrap, TLAPS

\* NextVersion stays within the versions, on today, with a positive number.
LEMMA NextVersionType ==
    ASSUME NEW prev \in State \cup {None}, NEW day \in Nat
    PROVE  /\ NextVersion(prev, day) \in Version
           /\ NextVersion(prev, day).day = day
           /\ NextVersion(prev, day).n > 0
BY DEF NextVersion, Version, State

\* NextVersion is above the previous version as long as the clock has not
\* gone back behind it.
LEMMA NextVersionAbove ==
    ASSUME NEW prev \in State, NEW day \in Nat, prev # None,
           prev.version.day <= day, prev.version.n > 0
    PROVE  VLess(prev.version, NextVersion(prev, day))
BY DEF NextVersion, Version, State, VLess

LEMMA VLessTransitive ==
    ASSUME NEW u \in Version, NEW v \in Version, NEW w \in Version,
           VLeq(u, v), VLess(v, w)
    PROVE  VLess(u, w) /\ u # w
BY DEF VLeq, VLess, Version

-----------------------------------------------------------------------------
\* TypeOK is not inductive by itself: a write needs something to write.
HoldsWhileBusy == \A w \in Writers : pc[w] # "idle" => mem[w] # None
TypeInv == TypeOK /\ HoldsWhileBusy

LEMMA TypeInvInit == Init => TypeInv
BY BootstrapAssumption DEF Init, TypeInv, TypeOK, HoldsWhileBusy

LEMMA TypeInvStep == TypeInv /\ [Next]_vars => TypeInv'
<1> SUFFICES ASSUME TypeInv, [Next]_vars PROVE TypeInv'
  OBVIOUS
<1> USE BootstrapAssumption
<1>held. \A w \in Writers : pc[w] # "idle" => mem[w] \in Held
  BY DEF TypeInv, TypeOK, HoldsWhileBusy
<1>1. ASSUME NEW w \in Writers, Reuse(w) PROVE TypeInv'
  <2>1. [state |-> json, body |-> debs[json.version]] \in Held
    BY <1>1 DEF Reuse, Reusable, TypeInv, TypeOK, Held
  <2>2. QED BY <1>1, <2>1 DEF Reuse, TypeInv, TypeOK, HoldsWhileBusy
<1>2. ASSUME NEW w \in Writers, Rebuild(w) PROVE TypeInv'
  <2> DEFINE v == NextVersion(json, today)
             d == [version |-> v, input |-> want[w], build |-> builds + 1]
             m == [state |-> [version |-> v, input |-> want[w], sha |-> d],
                   body |-> d]
  <2>1. v \in Version
    BY NextVersionType DEF TypeInv, TypeOK
  <2>2. d \in Deb
    BY <2>1 DEF Deb, TypeInv, TypeOK
  <2>3. m \in Held
    BY <2>1, <2>2 DEF Held, State, TypeInv, TypeOK
  <2>4. mem' = [mem EXCEPT ![w] = m] /\ builds' = builds + 1
    BY <1>2 DEF Rebuild
  <2> HIDE DEF m
  <2>5. QED BY <1>2, <2>3, <2>4 DEF Rebuild, TypeInv, TypeOK, HoldsWhileBusy
<1>3. ASSUME NEW w \in Writers, WriteDeb(w) PROVE TypeInv'
  <2>1. mem[w].state.version \in Version /\ mem[w].body \in Deb
    BY <1>3, <1>held DEF WriteDeb, Held, State
  <2>2. DOMAIN debs' \subseteq Version /\ \A v \in DOMAIN debs' : debs'[v] \in Deb
    BY <1>3, <2>1 DEF WriteDeb, TypeInv, TypeOK
  <2>3. QED BY <1>3, <2>2 DEF WriteDeb, TypeInv, TypeOK, HoldsWhileBusy
<1>4. ASSUME NEW w \in Writers, WriteJson(w) PROVE TypeInv'
  <2>1. mem[w].state \in State
    BY <1>4, <1>held DEF WriteJson, Held
  <2>2. QED BY <1>4, <2>1 DEF WriteJson, TypeInv, TypeOK, HoldsWhileBusy
<1>5. ASSUME NEW w \in Writers, Publish(w) PROVE TypeInv'
  <2>1. mem[w] \in Held /\ mem[w].body \in Deb
    BY <1>5, <1>held DEF Publish, Held
  <2>2. QED BY <1>5, <2>1 DEF Publish, TypeInv, TypeOK, HoldsWhileBusy
<1>6. ASSUME NEW w \in Writers, TickFails(w) \/ Crash(w) PROVE TypeInv'
  BY <1>6 DEF TickFails, Crash, TypeInv, TypeOK, HoldsWhileBusy
<1>7. ASSUME NEW w \in Writers, Reconfigure(w) PROVE TypeInv'
  BY <1>7 DEF Reconfigure, TypeInv, TypeOK, HoldsWhileBusy
<1>8. CASE NextDay
  BY <1>8 DEF NextDay, TypeInv, TypeOK, HoldsWhileBusy
<1>9. CASE DeleteDeb
  BY <1>9 DEF DeleteDeb, TypeInv, TypeOK, HoldsWhileBusy
<1>10. CASE UNCHANGED vars
  BY <1>10 DEF vars, TypeInv, TypeOK, HoldsWhileBusy
<1>11. QED
  BY <1>1, <1>2, <1>3, <1>4, <1>5, <1>6, <1>7, <1>8, <1>9, <1>10 DEF Next, Step

\* Every reachable state of the bootstrap step is well typed, whoever writes.
THEOREM TypeCorrect == Spec => []TypeOK
<1>1. TypeInv => TypeOK
  BY DEF TypeInv
<1>2. QED BY <1>1, TypeInvInit, TypeInvStep, PTL DEF Spec

-----------------------------------------------------------------------------
LEMMA IInvInit == Init => IInv
BY DEF Init, IInv, JsonInv, BuiltInv, ReadyInv, IssuedInv, ServedCoherent,
       VersionsNeverReused

\* One step of the only writer, one case per action.
LEMMA IInvStep ==
    ASSUME SingleWriter
    PROVE  TypeInv /\ IInv /\ [Next]_vars => IInv'
<1> SUFFICES ASSUME TypeInv, IInv, [Next]_vars PROVE IInv'
  OBVIOUS
<1> USE BootstrapAssumption
<1>held. \A w \in Writers : pc[w] # "idle" => mem[w] \in Held
  BY DEF TypeInv, TypeOK, HoldsWhileBusy
<1>1. ASSUME NEW w \in Writers, Reuse(w) PROVE IInv'
  <2>1. mem'[w] = [state |-> json, body |-> debs[json.version]]
    BY <1>1 DEF Reuse, TypeInv, TypeOK
  <2>2. JsonInv'
    BY <1>1 DEF Reuse, IInv, JsonInv
  <2>3. ASSUME NEW v \in Writers PROVE BuiltInv(v)' /\ ReadyInv(v)'
    <3>1. v = w
      BY <2>3 DEF SingleWriter
    <3>2. pc'[w] = "ready"
      BY <1>1 DEF Reuse, TypeInv, TypeOK
    <3>3. QED
      BY <1>1, <2>1, <3>1, <3>2
      DEF Reuse, Reusable, BuiltInv, ReadyInv, IInv, JsonInv
  <2>4. IssuedInv' /\ ServedCoherent' /\ VersionsNeverReused'
    BY <1>1 DEF Reuse, IInv, IssuedInv, ServedCoherent, VersionsNeverReused
  <2>5. QED BY <2>2, <2>3, <2>4 DEF IInv
<1>2. ASSUME NEW w \in Writers, Rebuild(w) PROVE IInv'
  <2> DEFINE v == NextVersion(json, today)
             d == [version |-> v, input |-> want[w], build |-> builds + 1]
  <2>1. mem'[w] = [state |-> [version |-> v, input |-> want[w], sha |-> d],
                   body |-> d]
    BY <1>2 DEF Rebuild, TypeInv, TypeOK
  <2>2. v.day = today /\ v.n > 0
    BY NextVersionType DEF TypeInv, TypeOK
  <2>3. json # None => VLess(json.version, v)
    BY NextVersionAbove DEF IInv, JsonInv, TypeInv, TypeOK
  <2>4. JsonInv'
    BY <1>2 DEF Rebuild, IInv, JsonInv
  <2>5. ASSUME NEW u \in Writers PROVE BuiltInv(u)' /\ ReadyInv(u)'
    <3>1. u = w
      BY <2>5 DEF SingleWriter
    <3>2. pc'[w] = "built"
      BY <1>2 DEF Rebuild, TypeInv, TypeOK
    <3>3. today \in Nat /\ v.day <= today
      BY <2>2 DEF TypeInv, TypeOK
    <3> HIDE DEF v
    <3>4. QED
      BY <1>2, <2>1, <2>2, <2>3, <3>1, <3>2, <3>3 DEF Rebuild, BuiltInv, ReadyInv
  <2>6. IssuedInv' /\ ServedCoherent' /\ VersionsNeverReused'
    BY <1>2 DEF Rebuild, IInv, IssuedInv, ServedCoherent, VersionsNeverReused
  <2>7. QED BY <2>4, <2>5, <2>6 DEF IInv
<1>3. ASSUME NEW w \in Writers, WriteDeb(w) PROVE IInv'
  <2> DEFINE st == mem[w].state
  <2>1. mem[w] \in Held /\ st \in State
    BY <1>3, <1>held DEF WriteDeb, Held
  <2>2. /\ DOMAIN debs' = DOMAIN debs \cup {st.version}
        /\ debs'[st.version] = mem[w].body
        /\ \A u \in DOMAIN debs : u # st.version => debs'[u] = debs[u]
    BY <1>3 DEF WriteDeb
  <2>3. json # None => json.version # st.version
    BY <1>3, <2>1 DEF WriteDeb, IInv, BuiltInv, VLess, TypeInv, TypeOK, State, Version
  <2>4. JsonInv'
    BY <1>3, <2>2, <2>3 DEF WriteDeb, IInv, JsonInv
  <2>5. ASSUME NEW u \in Writers PROVE BuiltInv(u)' /\ ReadyInv(u)'
    <3>1. u = w
      BY <2>5 DEF SingleWriter
    <3>2. pc'[w] = "debWritten"
      BY <1>3 DEF WriteDeb, TypeInv, TypeOK
    <3>3. QED
      BY <1>3, <2>2, <3>1, <3>2 DEF WriteDeb, IInv, BuiltInv, ReadyInv
  <2>6. IssuedInv' /\ ServedCoherent' /\ VersionsNeverReused'
    BY <1>3 DEF WriteDeb, IInv, IssuedInv, ServedCoherent, VersionsNeverReused
  <2>7. QED BY <2>4, <2>5, <2>6 DEF IInv
<1>4. ASSUME NEW w \in Writers, WriteJson(w) PROVE IInv'
  <2> DEFINE st == mem[w].state
  <2>1. mem[w] \in Held /\ st \in State /\ st # None
    BY <1>4, <1>held DEF WriteJson, Held
  <2>2. json' = st
    BY <1>4 DEF WriteJson
  <2>3. JsonInv'
    BY <1>4, <2>1, <2>2 DEF WriteJson, IInv, BuiltInv, JsonInv
  <2>4. ASSUME NEW u \in Writers PROVE BuiltInv(u)' /\ ReadyInv(u)'
    <3>1. u = w
      BY <2>4 DEF SingleWriter
    <3>2. pc'[w] = "ready"
      BY <1>4 DEF WriteJson, TypeInv, TypeOK
    <3>3. QED
      BY <1>4, <2>1, <2>2, <3>1, <3>2 DEF WriteJson, IInv, BuiltInv, ReadyInv
  <2>5. IssuedInv'
    <3> SUFFICES ASSUME NEW d \in issued
                 PROVE  VLess(d.version, st.version) /\ d.version # st.version
      BY <1>4, <2>1, <2>2 DEF WriteJson, IssuedInv, VLeq
    <3>1. json # None /\ VLeq(d.version, json.version)
      BY DEF IInv, IssuedInv
    <3>2. VLess(json.version, st.version)
      BY <1>4, <3>1 DEF WriteJson, IInv, BuiltInv
    <3>3. d.version \in Version /\ json.version \in Version /\ st.version \in Version
      BY <2>1, <3>1 DEF TypeInv, TypeOK, Deb, State
    <3>4. QED BY <3>1, <3>2, <3>3, VLessTransitive
  <2>6. ServedCoherent' /\ VersionsNeverReused'
    BY <1>4 DEF WriteJson, IInv, ServedCoherent, VersionsNeverReused
  <2>7. QED BY <2>3, <2>4, <2>5, <2>6 DEF IInv
<1>5. ASSUME NEW w \in Writers, Publish(w) PROVE IInv'
  <2>1. /\ json # None
        /\ mem[w].state = json
        /\ mem[w].body = json.sha
        /\ json.sha.version = json.version
    BY <1>5 DEF Publish, IInv, ReadyInv, JsonInv
  <2>2. /\ served' = [served EXCEPT ![w] = mem[w]]
        /\ issued' = issued \cup {json.sha}
        /\ json' = json
    BY <1>5, <2>1 DEF Publish
  <2>3. JsonInv'
    BY <1>5 DEF Publish, IInv, JsonInv
  <2>4. ASSUME NEW u \in Writers PROVE BuiltInv(u)' /\ ReadyInv(u)'
    <3>1. u = w
      BY <2>4 DEF SingleWriter
    <3>2. pc'[w] = "idle"
      BY <1>5 DEF Publish, TypeInv, TypeOK
    <3>3. QED BY <3>1, <3>2 DEF BuiltInv, ReadyInv
  <2>5. IssuedInv'
    BY <2>1, <2>2 DEF IInv, IssuedInv, VLeq
  <2>6. ServedCoherent'
    BY <2>1, <2>2 DEF IInv, ServedCoherent, TypeInv, TypeOK
  <2>7. VersionsNeverReused'
    BY <2>1, <2>2 DEF IInv, IssuedInv, VersionsNeverReused
  <2>8. QED BY <2>3, <2>4, <2>5, <2>6, <2>7 DEF IInv
<1>6. ASSUME NEW w \in Writers, TickFails(w) \/ Crash(w) PROVE IInv'
  <2>1. pc'[w] = "idle" /\ \A u \in Writers : u = w
    BY <1>6 DEF TickFails, Crash, TypeInv, TypeOK, SingleWriter
  <2>2. \A u \in Writers : BuiltInv(u)' /\ ReadyInv(u)'
    BY <2>1 DEF BuiltInv, ReadyInv
  <2>3. JsonInv' /\ IssuedInv' /\ VersionsNeverReused'
    BY <1>6 DEF TickFails, Crash, IInv, JsonInv, IssuedInv, VersionsNeverReused
  <2>4. ServedCoherent'
    BY <1>6 DEF TickFails, Crash, IInv, ServedCoherent, TypeInv, TypeOK
  <2>5. QED BY <2>2, <2>3, <2>4 DEF IInv
<1>7. ASSUME NEW w \in Writers, Reconfigure(w) PROVE IInv'
  <2>1. pc'[w] = "idle" /\ \A u \in Writers : u = w
    BY <1>7 DEF Reconfigure, SingleWriter
  <2>2. QED
    BY <1>7, <2>1 DEF Reconfigure, IInv, JsonInv, BuiltInv, ReadyInv, IssuedInv,
                      ServedCoherent, VersionsNeverReused
<1>8. CASE NextDay
  <2>1. today \in Nat /\ today' = today + 1
    BY <1>8 DEF NextDay, TypeInv, TypeOK
  <2>2. JsonInv'
    BY <1>8, <2>1 DEF NextDay, IInv, JsonInv, TypeInv, TypeOK, State, Version
  <2>3. ASSUME NEW w \in Writers PROVE BuiltInv(w)' /\ ReadyInv(w)'
    <3>1. pc[w] # "idle" => mem[w].state.version.day \in Nat
      BY <1>held DEF Held, State, Version
    <3>2. QED
      BY <1>8, <2>1, <3>1 DEF NextDay, IInv, BuiltInv, ReadyInv
  <2>4. QED
    BY <1>8, <2>2, <2>3 DEF NextDay, IInv, IssuedInv, ServedCoherent, VersionsNeverReused
<1>9. CASE DeleteDeb
  <2>1. /\ DOMAIN debs' \subseteq DOMAIN debs
        /\ \A v \in DOMAIN debs' : debs'[v] = debs[v]
    BY <1>9 DEF DeleteDeb
  <2>2. QED
    BY <1>9, <2>1 DEF DeleteDeb, IInv, JsonInv, BuiltInv, ReadyInv, IssuedInv,
                      ServedCoherent, VersionsNeverReused
<1>10. CASE UNCHANGED vars
  BY <1>10 DEF vars, IInv, JsonInv, BuiltInv, ReadyInv, IssuedInv,
               ServedCoherent, VersionsNeverReused
<1>11. QED
  BY <1>1, <1>2, <1>3, <1>4, <1>5, <1>6, <1>7, <1>8, <1>9, <1>10 DEF Next, Step

\* The invariant of a single writer, from which the results below follow.
LEMMA SingleWriterInv ==
    ASSUME SingleWriter
    PROVE  Spec => [](TypeInv /\ IInv)
<1>1. TypeInv /\ IInv /\ [Next]_vars => (TypeInv /\ IInv)'
  BY IInvStep, TypeInvStep
<1>2. Init => TypeInv /\ IInv
  BY TypeInvInit, IInvInit
<1>3. QED BY <1>1, <1>2, PTL DEF Spec

\* The cached .deb always has the recorded digest: no crash or failed write
\* makes a later reuse advertise the wrong SHA256.
THEOREM CacheConsistent ==
    ASSUME SingleWriter
    PROVE  Spec => []DiskConsistent
<1>1. IInv => DiskConsistent
  BY DEF IInv, JsonInv, DiskConsistent
<1>2. QED BY <1>1, SingleWriterInv, PTL

\* Every snapshot serves the bytes it advertises, under their own version.
THEOREM SnapshotsCoherent ==
    ASSUME SingleWriter
    PROVE  Spec => []ServedCoherent
<1>1. IInv => ServedCoherent
  BY DEF IInv
<1>2. QED BY <1>1, SingleWriterInv, PTL

\* No version of the bootstrap package ever stands for two packages.
THEOREM VersionsUnique ==
    ASSUME SingleWriter
    PROVE  Spec => []VersionsNeverReused
<1>1. IInv => VersionsNeverReused
  BY DEF IInv
<1>2. QED BY <1>1, SingleWriterInv, PTL

\* Every published package was built from the configuration of its tick.
THEOREM InputsCurrent ==
    ASSUME SingleWriter
    PROVE  Spec => []PublishesCurrentInputs
<1>1. IInv => PublishesCurrentInputs
  BY DEF IInv, JsonInv, ReadyInv, PublishesCurrentInputs
<1>2. QED BY <1>1, SingleWriterInv, PTL

\* Each newly served package is an upgrade over all served before.
THEOREM VersionsGrow ==
    ASSUME SingleWriter
    PROVE  Spec => UpgradesOnly
<1> DEFINE Grows == \A d \in issued' \ issued, e \in issued : VLess(e.version, d.version)
<1>1. TypeInv /\ IInv /\ [Next]_vars => [Grows]_vars
  <2> SUFFICES ASSUME IInv, Next PROVE Grows
    OBVIOUS
  <2>1. ASSUME NEW w \in Writers, Publish(w) PROVE Grows
    <3>1. /\ mem[w].body = json.sha
          /\ json # None
          /\ json.sha.version = json.version
      BY <2>1 DEF Publish, IInv, ReadyInv, JsonInv
    <3>2. QED BY <2>1, <3>1 DEF Publish, IInv, IssuedInv, VLeq
  <2>2. ASSUME \A w \in Writers : ~ Publish(w) PROVE issued' = issued
    BY <2>2 DEF Next, Step, Reuse, Rebuild, WriteDeb, WriteJson, TickFails, Crash,
                Reconfigure, NextDay, DeleteDeb
  <2>3. QED BY <2>1, <2>2
<1>2. QED BY <1>1, SingleWriterInv, PTL DEF Spec, UpgradesOnly
=============================================================================
