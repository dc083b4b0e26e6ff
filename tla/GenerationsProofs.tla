-------------------------- MODULE GenerationsProofs --------------------------
(***************************************************************************)
(* Proofs about Generations, for any number of edits: the reload and the   *)
(* shutdown never let two generations refresh at once, never take a key    *)
(* from one that does, and never bring an older snapshot back.             *)
(***************************************************************************)
EXTENDS Generations, TLAPS

LEMMA InvInit == Init => IInv
<1> SUFFICES ASSUME Init PROVE IInv
  OBVIOUS
<1> USE GenerationsAssumption DEF Init, Gens, NoSnap
<1>1. TypeOK
  <2>1. conf \in Conf
    BY DEF Conf, Kinds
  <2>2. loaded \in Conf /\ cfgOf \in [Gens -> Conf]
    BY <2>1
  <2>3. {owed, hup, ctxDone, listening} \subseteq BOOLEAN
    OBVIOUS
  <2>4. loop \in [Gens -> {"none", "idle", "tick", "ended"}]
    OBVIOUS
  <2>5. cancelled \subseteq Gens /\ live \subseteq Gens /\ gen \in Gens
    OBVIOUS
  <2>6. QED BY <2>1, <2>2, <2>3, <2>4, <2>5 DEF TypeOK
<1>2. Counted
  BY DEF Counted, Bit, Handling
<1>3. LockHeld /\ Numbered /\ OneLoop
  BY DEF LockHeld, Numbered, OneLoop, Making, Booting
<1>4. Keys /\ Stopped /\ Looping
  BY DEF Keys, Stopped, Looping, Making, Running, Ended
<1>5. QED BY <1>1, <1>2, <1>3, <1>4 DEF IInv

-----------------------------------------------------------------------------
(* The counting, apart from the rest: generations in the making, signals   *)
(* and edits are handed on, and only edits make new ones.                  *)

LEMMA BitType == \A b : Bit(b) \in {0, 1}
BY DEF Bit

LEMMA Numbers == IInv => conf.n \in Nat /\ conf.n <= MaxEdits /\ last \in Nat
BY GenerationsAssumption DEF IInv, TypeOK, Conf, Gens

LEMMA CountedStep ==
    ASSUME IInv, [Next]_vars
    PROVE  Counted' /\ (Drain => last + 1 \in Gens)
<1> USE Numbers, GenerationsAssumption, BitType DEF operator, reloader, generation
<1>1. last + Bit(owed) + Bit(hup) + Bit(Handling) <= conf.n
  BY DEF IInv, Counted
<1>2. ASSUME Edit PROVE Counted'
  <2>1. conf'.n = conf.n + 1 /\ last' = last /\ hup' = hup /\ rel' = rel
    BY <1>2 DEF Edit
  <2>2. Bit(hup)' = Bit(hup) /\ Bit(Handling)' = Bit(Handling)
    BY <2>1 DEF Handling
  <2>3. Bit(owed)' \in {0, 1}
    OBVIOUS
  <2>4. QED BY <1>1, <2>1, <2>2, <2>3 DEF Counted
<1>3. ASSUME SendHup PROVE Counted'
  <2>1. Bit(owed) = 1 /\ Bit(owed)' = 0
    BY <1>3 DEF SendHup, Bit
  <2>2. Bit(hup)' \in {0, 1} /\ Bit(Handling)' = Bit(Handling)
    BY <1>3 DEF SendHup, Handling
  <2>3. conf' = conf /\ last' = last
    BY <1>3 DEF SendHup
  <2>4. QED BY <1>1, <2>1, <2>2, <2>3 DEF Counted
<1>4. ASSUME Receive PROVE Counted'
  <2>1. Bit(hup) = 1 /\ Bit(hup)' = 0
    BY <1>4 DEF Receive, Bit
  <2>2. Bit(Handling)' \in {0, 1} /\ Bit(owed)' = Bit(owed)
    BY <1>4 DEF Receive
  <2>3. conf' = conf /\ last' = last
    BY <1>4 DEF Receive
  <2>4. QED BY <1>1, <2>1, <2>2, <2>3 DEF Counted
<1>5. ASSUME Drain PROVE Counted' /\ last + 1 \in Gens
  <2>1. Bit(Handling) = 1 /\ Bit(Handling)' = 0
    BY <1>5 DEF Drain, Handling, Bit
  <2>2. Bit(hup)' = Bit(hup) /\ Bit(owed)' = Bit(owed)
    BY <1>5 DEF Drain
  <2>3. conf' = conf /\ last' = last + 1
    BY <1>5 DEF Drain
  <2>4. QED BY <1>1, <2>1, <2>2, <2>3 DEF Counted, Gens
<1>6. ASSUME ~(Edit \/ SendHup \/ Receive \/ Drain) PROVE Counted'
  <2>1. conf' = conf /\ last' = last /\ owed' = owed /\ hup' = hup /\ (Handling' => Handling)
    BY <1>6 DEF Next, vars, SendTerm, Boot, BootFails, BootImport, BootRefresh, Notify,
                Stop, Shutdown, MainLock, ListenerFails, MainStop, Exit, Reload, ReloaderEnds,
                LoadConfig, ReloadLock, Check, ReloadRefresh, StartLoop, Swap, Loop, TickStart,
                TickEnd, LoopEnd, Handling
  <2>2. Bit(Handling)' <= Bit(Handling)
    BY <2>1 DEF Bit
  <2>3. Bit(hup)' = Bit(hup) /\ Bit(owed)' = Bit(owed)
    BY <2>1
  <2>4. QED BY <1>1, <2>1, <2>2, <2>3 DEF Counted
<1>7. QED BY <1>2, <1>3, <1>4, <1>5, <1>6

-----------------------------------------------------------------------------
(* Types and the other conjuncts, action by action.                        *)

Rest == LockHeld /\ Numbered /\ OneLoop /\ Keys /\ Stopped /\ Looping

\* Edits and signals.
LEMMA StepOperator ==
    ASSUME IInv, Edit \/ SendHup \/ SendTerm, [Next]_vars
    PROVE  TypeOK' /\ Rest'
<1> USE Numbers, GenerationsAssumption
    DEF operator, reloader, generation, Running, Ended, Making, Booting, Gens, NoSnap
<1>1. CASE Edit
  <2>1. TypeOK'
    <3>1. conf' \in Conf
      BY <1>1 DEF Edit, Conf
    <3>2. QED BY <1>1, <3>1 DEF IInv, TypeOK, Edit
  <2>2. Rest'
    BY <1>1 DEF IInv, Rest, TypeOK, LockHeld, Numbered, OneLoop, Keys, Stopped,
       Looping, Edit
  <2>3. QED BY <2>1, <2>2
<1>2. CASE SendHup
  <2>1. TypeOK'
    BY <1>2 DEF IInv, TypeOK, SendHup
  <2>2. Rest'
    BY <1>2 DEF IInv, Rest, TypeOK, LockHeld, Numbered, OneLoop, Keys, Stopped,
       Looping, SendHup
  <2>3. QED BY <2>1, <2>2
<1>3. CASE SendTerm
  <2>1. TypeOK'
    BY <1>3 DEF IInv, TypeOK, SendTerm
  <2>2. Rest'
    BY <1>3 DEF IInv, Rest, TypeOK, LockHeld, Numbered, OneLoop, Keys, Stopped,
       Looping, SendTerm
  <2>3. QED BY <2>1, <2>2
<1>4. QED BY <1>1, <1>2, <1>3

\* main up to the listener.
LEMMA StepBoot ==
    ASSUME IInv, BootFails \/ BootImport \/ BootRefresh \/ Notify, [Next]_vars
    PROVE  TypeOK' /\ Rest'
<1> USE Numbers, GenerationsAssumption
    DEF operator, reloader, generation, Running, Ended, Making, Booting, Gens, NoSnap
<1>1. CASE BootFails
  <2>1. TypeOK'
    BY <1>1 DEF IInv, TypeOK, BootFails
  <2>2. Rest'
    BY <1>1 DEF IInv, Rest, TypeOK, LockHeld, Numbered, OneLoop, Keys, Stopped,
       Looping, BootFails
  <2>3. QED BY <2>1, <2>2
<1>2. CASE BootImport
  <2>1. TypeOK'
    BY <1>2 DEF IInv, TypeOK, BootImport
  <2>2. Rest'
    BY <1>2 DEF IInv, Rest, TypeOK, LockHeld, Numbered, OneLoop, Keys, Stopped,
       Looping, BootImport
  <2>3. QED BY <2>1, <2>2
<1>3. CASE BootRefresh
  <2>1. TypeOK'
    BY <1>3 DEF IInv, TypeOK, BootRefresh
  <2>2. Rest'
    BY <1>3 DEF IInv, Rest, TypeOK, LockHeld, Numbered, OneLoop, Keys, Stopped,
       Looping, BootRefresh
  <2>3. QED BY <2>1, <2>2
<1>4. CASE Notify
  <2>1. TypeOK'
    BY <1>4 DEF IInv, TypeOK, Notify
  <2>2. Rest'
    BY <1>4 DEF IInv, Rest, TypeOK, LockHeld, Numbered, OneLoop, Keys, Stopped,
       Looping, Notify
  <2>3. QED BY <2>1, <2>2
<1>5. QED BY <1>1, <1>2, <1>3, <1>4

\* main from the shutdown on.
LEMMA StepStop ==
    ASSUME IInv, Shutdown \/ MainLock \/ ListenerFails \/ MainStop \/ Exit, [Next]_vars
    PROVE  TypeOK' /\ Rest'
<1> USE Numbers, GenerationsAssumption
    DEF operator, reloader, generation, Running, Ended, Making, Booting, Gens, NoSnap
<1>1. CASE Shutdown
  <2>1. TypeOK'
    BY <1>1 DEF IInv, TypeOK, Shutdown
  <2>2. Rest'
    BY <1>1 DEF IInv, Rest, TypeOK, LockHeld, Numbered, OneLoop, Keys, Stopped,
       Looping, Shutdown
  <2>3. QED BY <2>1, <2>2
<1>2. CASE MainLock
  <2>1. TypeOK'
    BY <1>2 DEF IInv, TypeOK, MainLock
  <2>2. Rest'
    BY <1>2 DEF IInv, Rest, TypeOK, LockHeld, Numbered, OneLoop, Keys, Stopped,
       Looping, MainLock
  <2>3. QED BY <2>1, <2>2
<1>3. CASE ListenerFails
  <2>1. TypeOK'
    BY <1>3 DEF IInv, TypeOK, ListenerFails
  <2>2. Rest'
    BY <1>3 DEF IInv, Rest, TypeOK, LockHeld, Numbered, OneLoop, Keys, Stopped,
       Looping, ListenerFails
  <2>3. QED BY <2>1, <2>2
<1>4. CASE MainStop
  <2>1. TypeOK'
    BY <1>4 DEF IInv, TypeOK, MainStop
  <2>2. Rest'
    BY <1>4 DEF IInv, Rest, TypeOK, LockHeld, Numbered, OneLoop, Keys, Stopped,
       Looping, MainStop
  <2>3. QED BY <2>1, <2>2
<1>5. CASE Exit
  <2>1. TypeOK'
    BY <1>5 DEF IInv, TypeOK, Exit
  <2>2. Rest'
    BY <1>5 DEF IInv, Rest, TypeOK, LockHeld, Numbered, OneLoop, Keys, Stopped,
       Looping, Exit
  <2>3. QED BY <2>1, <2>2
<1>6. QED BY <1>1, <1>2, <1>3, <1>4, <1>5

\* The reloader up to the commitment.
LEMMA StepReloadBegin ==
    ASSUME IInv, Receive \/ ReloaderEnds \/ LoadConfig \/ ReloadLock \/ Check, [Next]_vars
    PROVE  TypeOK' /\ Rest'
<1> USE Numbers, GenerationsAssumption
    DEF operator, reloader, generation, Running, Ended, Making, Booting, Gens, NoSnap
<1>1. CASE Receive
  <2>1. TypeOK'
    BY <1>1 DEF IInv, TypeOK, Receive
  <2>2. Rest'
    BY <1>1 DEF IInv, Rest, TypeOK, LockHeld, Numbered, OneLoop, Keys, Stopped,
       Looping, Receive
  <2>3. QED BY <2>1, <2>2
<1>2. CASE ReloaderEnds
  <2>1. TypeOK'
    BY <1>2 DEF IInv, TypeOK, ReloaderEnds
  <2>2. Rest'
    BY <1>2 DEF IInv, Rest, TypeOK, LockHeld, Numbered, OneLoop, Keys, Stopped,
       Looping, ReloaderEnds
  <2>3. QED BY <2>1, <2>2
<1>3. CASE LoadConfig
  <2>1. TypeOK'
    BY <1>3 DEF IInv, TypeOK, LoadConfig
  <2>2. Rest'
    BY <1>3 DEF IInv, Rest, TypeOK, LockHeld, Numbered, OneLoop, Keys, Stopped,
       Looping, LoadConfig
  <2>3. QED BY <2>1, <2>2
<1>4. CASE ReloadLock
  <2>1. TypeOK'
    BY <1>4 DEF IInv, TypeOK, ReloadLock
  <2>2. Rest'
    BY <1>4 DEF IInv, Rest, TypeOK, LockHeld, Numbered, OneLoop, Keys, Stopped,
       Looping, ReloadLock
  <2>3. QED BY <2>1, <2>2
<1>5. CASE Check
  <2>1. TypeOK'
    BY <1>5 DEF IInv, TypeOK, Check
  <2>2. Rest'
    BY <1>5 DEF IInv, Rest, TypeOK, LockHeld, Numbered, OneLoop, Keys, Stopped,
       Looping, Check
  <2>3. QED BY <2>1, <2>2
<1>6. QED BY <1>1, <1>2, <1>3, <1>4, <1>5

\* The reloader from the drained loop to the swap.
LEMMA StepReloadCommit ==
    ASSUME IInv, Drain \/ ReloadRefresh \/ StartLoop \/ Swap, [Next]_vars
    PROVE  TypeOK' /\ Rest'
<1> USE Numbers, GenerationsAssumption
    DEF operator, reloader, generation, Running, Ended, Making, Booting, Gens, NoSnap
<1>1. CASE Drain
  <2>0. last + 1 \in Gens
    BY CountedStep, <1>1
  <2>1. TypeOK'
    BY <1>1, <2>0 DEF IInv, TypeOK, Drain
  <2>2. Rest'
    BY <1>1, <2>0 DEF IInv, Rest, TypeOK, LockHeld, Numbered, OneLoop, Keys, Stopped,
       Looping, Drain
  <2>3. QED BY <2>1, <2>2
<1>2. CASE ReloadRefresh
  <2>1. TypeOK'
    BY <1>2 DEF IInv, TypeOK, ReloadRefresh
  <2>2. Rest'
    BY <1>2 DEF IInv, Rest, TypeOK, LockHeld, Numbered, OneLoop, Keys, Stopped,
       Looping, ReloadRefresh
  <2>3. QED BY <2>1, <2>2
<1>3. CASE StartLoop
  <2>1. TypeOK'
    BY <1>3 DEF IInv, TypeOK, StartLoop, Numbered
  <2>2. Rest'
    BY <1>3 DEF IInv, Rest, TypeOK, LockHeld, Numbered, OneLoop, Keys, Stopped,
       Looping, StartLoop
  <2>3. QED BY <2>1, <2>2
<1>4. CASE Swap
  <2>1. TypeOK'
    BY <1>4 DEF IInv, TypeOK, Swap, Numbered
  <2>2. Rest'
    BY <1>4 DEF IInv, Rest, TypeOK, LockHeld, Numbered, OneLoop, Keys, Stopped,
       Looping, Swap
  <2>3. QED BY <2>1, <2>2
<1>5. QED BY <1>1, <1>2, <1>3, <1>4

\* The loop of any generation.
LEMMA StepLoop ==
    ASSUME IInv, NEW g \in Gens, Loop(g)
    PROVE  TypeOK' /\ Rest'
<1> USE Numbers, GenerationsAssumption
    DEF operator, reloader, generation, Running, Ended, Making, Booting, Gens, NoSnap
<1>1. CASE TickStart(g)
  <2>1. TypeOK'
    BY <1>1 DEF IInv, TypeOK, TickStart, Stopping
  <2>2. Rest'
    BY <1>1 DEF IInv, Rest, TypeOK, LockHeld, Numbered, OneLoop, Keys, Stopped,
       Looping, TickStart, Stopping
  <2>3. QED BY <2>1, <2>2
<1>2. CASE TickEnd(g)
  <2>1. TypeOK'
    BY <1>2 DEF IInv, TypeOK, TickEnd
  <2>2. Rest'
    BY <1>2 DEF IInv, Rest, TypeOK, LockHeld, Numbered, OneLoop, Keys, Stopped,
       Looping, TickEnd
  <2>3. QED BY <2>1, <2>2
<1>3. CASE LoopEnd(g)
  <2>1. TypeOK'
    BY <1>3 DEF IInv, TypeOK, LoopEnd, Stopping
  <2>2. Rest'
    BY <1>3 DEF IInv, Rest, TypeOK, LockHeld, Numbered, OneLoop, Keys, Stopped,
       Looping, LoopEnd, Stopping
  <2>3. QED BY <2>1, <2>2
<1>4. QED BY <1>1, <1>2, <1>3 DEF Loop

LEMMA InvStep == IInv /\ [Next]_vars => IInv'
<1> SUFFICES ASSUME IInv, [Next]_vars PROVE TypeOK' /\ Rest'
  BY CountedStep DEF IInv, Rest
<1>1. CASE Edit \/ SendHup \/ SendTerm
  BY <1>1, StepOperator
<1>2. CASE Boot
  BY <1>2, StepBoot DEF Boot
<1>3. CASE Stop
  BY <1>3, StepStop DEF Stop
<1>4. CASE Reload
  BY <1>4, StepReloadBegin, StepReloadCommit DEF Reload
<1>5. CASE \E g \in Gens : Loop(g)
  BY <1>5, StepLoop
<1>6. CASE UNCHANGED vars
  BY <1>6 DEF vars, operator, reloader, generation, IInv, Rest, TypeOK, LockHeld, Numbered,
              OneLoop, Keys, Stopped, Looping, Running, Ended, Making, Booting
<1>7. QED BY <1>1, <1>2, <1>3, <1>4, <1>5, <1>6 DEF Next

-----------------------------------------------------------------------------
\* Every variable of the process keeps its type, for any number of edits;
\* generations are never numbered past the edits that ask for them.
THEOREM TypeCorrect == Spec => []TypeOK
<1>1. IInv => TypeOK
  BY DEF IInv
<1>2. QED BY <1>1, InvInit, InvStep, PTL DEF Spec

\* The state directory has one writer: however edits, SIGHUPs, ticks, SIGTERM
\* and a failing listener fall, no two generations refresh at once.
THEOREM OneWriter == Spec => []OneRefresher
<1>1. IInv => OneRefresher
  BY GenerationsAssumption DEF IInv, TypeOK, Numbered, OneLoop, OneRefresher, Refreshing,
     Making, Booting, Running, Ended, Gens
<1>2. QED BY <1>1, InvInit, InvStep, PTL DEF Spec

\* No refresh runs with wiped secrets, although main wipes those of the current
\* generation without the lock when the listener fails.
THEOREM KeysOutliveRefreshes == Spec => []KeyPresent
<1>1. IInv => KeyPresent
  BY GenerationsAssumption DEF IInv, TypeOK, LockHeld, Numbered, OneLoop, Keys, Stopped,
     KeyPresent, Refreshing, Making, Booting, Running, Ended, Gens
<1>2. QED BY <1>1, InvInit, InvStep, PTL DEF Spec

\* A reload that is over, even a rejected one, leaves a running loop with its
\* secrets.
THEOREM LoopSurvivesReload == Spec => []LoopRuns
<1>1. IInv => LoopRuns
  BY DEF IInv, LoopRuns, Looping, Keys, Making, Running, Ended
<1>2. QED BY <1>1, InvInit, InvStep, PTL DEF Spec

\* The served snapshot is never replaced by one of an older generation.
THEOREM SnapshotsNeverBack == Spec => SnapshotsForward
<1>1. IInv /\ [Next]_vars => [snap' >= snap]_snap
  <2> SUFFICES ASSUME IInv, Next, snap' # snap PROVE snap' >= snap
    BY DEF vars
  <2>1. snap \in Int /\ snap <= last /\ last \in Nat
    BY Numbers DEF IInv, TypeOK, Numbered, Gens, NoSnap
  <2>2. CASE BootRefresh
    BY <2>1, <2>2 DEF IInv, Numbered, Booting, Making, BootRefresh
  <2>3. CASE ReloadRefresh
    BY <2>1, <2>3 DEF ReloadRefresh
  <2>4. ASSUME NEW g \in Gens, TickEnd(g) PROVE snap' >= snap
    <3>1. loop[g] = "tick" /\ snap' = g
      BY <2>4 DEF TickEnd
    <3>2. g = gen /\ ~Making
      BY <3>1 DEF IInv, OneLoop
    <3>3. g = last
      BY <3>2 DEF IInv, Numbered
    <3>4. QED BY <2>1, <3>1, <3>3
  <2>5. QED
    BY <2>2, <2>3, <2>4
    DEF Next, Edit, SendHup, SendTerm, Boot, BootFails, BootImport, Notify, Stop, Shutdown,
        MainLock, ListenerFails, MainStop, Exit, Reload, Receive, ReloaderEnds, LoadConfig,
        ReloadLock, Check, Drain, StartLoop, Swap, Loop, TickStart, LoopEnd
<1>2. QED BY <1>1, InvInit, InvStep, PTL DEF Spec, SnapshotsForward

=============================================================================
