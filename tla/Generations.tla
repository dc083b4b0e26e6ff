----------------------------- MODULE Generations -----------------------------
(***************************************************************************)
(* The life of the signpost daemon (cmd/signpost/serve.go): the first      *)
(* refresh before the listener, the refresh loop of a generation, SIGHUP   *)
(* reloads that replace the generation, SIGTERM, and a listener that       *)
(* fails.  Three kinds of goroutine take part: main, the reloader, and one *)
(* loop per generation.  What a refresh does is the subject of Refresh;    *)
(* here it signs with the secrets of its generation and may publish.       *)
(*                                                                         *)
(* Generation 0 is the one of the start.  A configuration is [n, kind]:    *)
(* kind says whether config.Load accepts it ("invalid" if not),            *)
(* assertHotReloadable does ("restart" if not), and Wire can read its keys *)
(* and tokens ("unwired" if not).                                          *)
(***************************************************************************)
EXTENDS Integers

CONSTANTS MaxEdits    \* bound on the edits of the configuration file

ASSUME GenerationsAssumption == MaxEdits \in Nat

Kinds == {"good", "invalid", "restart", "unwired"}
Conf == [n : 0 .. MaxEdits, kind : Kinds]
Gens == 0 .. MaxEdits + 1
NoSnap == -1

VARIABLES
    conf,      \* the configuration file
    owed,      \* the file was edited and SIGHUP is not sent yet
    hup,       \* a SIGHUP is in hupCh, which holds one
    ctxDone,   \* the context of the process is cancelled
    main,      \* where cmdServe is
    rel,       \* where the reloader is
    loaded,    \* the configuration handleReload has read
    mu,        \* who holds daemonState.mu: "free", "main" or "reload"
    gen,       \* current.gen
    last,      \* the last generation that was started
    cfgOf,     \* the configuration of each generation
    loop,      \* "none", "idle", "tick" or "ended", per generation
    cancelled, \* generations whose loopCtx is cancelled
    live,      \* generations whose secrets are in memory
    listening, \* the listener accepts connections
    target,    \* the generation that main stops
    snap       \* the generation that published the served snapshot, or NoSnap

operator == <<conf, owed>>
reloader == <<rel, loaded>>
generation == <<gen, last, cfgOf>>
vars == <<operator, hup, ctxDone, main, reloader, mu, generation, loop,
          cancelled, live, listening, target, snap>>

Init ==
    /\ conf = [n |-> 0, kind |-> "good"] /\ owed = FALSE
    /\ hup = FALSE /\ ctxDone = FALSE
    /\ main = "import" /\ rel = "none" /\ loaded = conf /\ mu = "free"
    /\ gen = 0 /\ last = 0 /\ cfgOf = [g \in Gens |-> conf]
    /\ loop = [g \in Gens |-> "none"]
    /\ cancelled = {} /\ live = {0}
    /\ listening = FALSE /\ target = 0 /\ snap = NoSnap

Ended == main \in {"exited", "killed"}
Running == ~Ended

-----------------------------------------------------------------------------
(* The operator and the system.                                            *)

Edit ==
    /\ Running /\ conf.n < MaxEdits
    /\ \E k \in Kinds : conf' = [n |-> conf.n + 1, kind |-> k]
    /\ owed' = TRUE
    /\ UNCHANGED <<hup, target, ctxDone, main, reloader, mu, generation, loop, cancelled,
                   live, listening, snap>>

\* Fault: hupCh is not buffered, and a signal during a reload is lost.
SendHupUnbuffered ==
    /\ Running /\ owed
    /\ owed' = FALSE
    /\ IF main \in {"import", "refresh", "start"}
       THEN main' = "killed" /\ UNCHANGED hup
       ELSE hup' = (rel = "wait") /\ UNCHANGED main
    /\ UNCHANGED <<conf, target, ctxDone, reloader, mu, generation, loop, cancelled, live,
                   listening, snap>>

\* SIGHUP: kills the process before signal.Notify, is queued after.
SendHup ==
    /\ Running /\ owed
    /\ owed' = FALSE
    /\ IF main \in {"import", "refresh", "start"}
       THEN main' = "killed" /\ UNCHANGED hup
       ELSE hup' = TRUE /\ UNCHANGED main
    /\ UNCHANGED <<conf, target, ctxDone, reloader, mu, generation, loop, cancelled, live,
                   listening, snap>>

\* SIGTERM or SIGINT.
SendTerm ==
    /\ Running /\ ~ctxDone
    /\ ctxDone' = TRUE
    /\ UNCHANGED <<operator, target, hup, main, reloader, mu, generation, loop, cancelled,
                   live, listening, snap>>

-----------------------------------------------------------------------------
(* main.                                                                   *)

\* An error before the listener: secrets are wiped and the process ends.
BootFails ==
    /\ main \in {"import", "refresh"}
    /\ main' = "exited"
    /\ cancelled' = cancelled \cup {0} /\ live' = live \ {0}
    /\ UNCHANGED <<operator, target, hup, ctxDone, reloader, mu, generation, loop,
                   listening, snap>>

\* SyncImportNew, whose failures for single sources are only logged.
BootImport ==
    /\ main = "import"
    /\ main' = "refresh"
    /\ UNCHANGED <<operator, target, hup, ctxDone, reloader, mu, generation, loop, cancelled,
                   live, listening, snap>>

\* The initial refresh publishes; the loop and the listener start.
BootRefresh ==
    /\ main = "refresh"
    /\ main' = "start"
    /\ snap' = 0 /\ listening' = TRUE
    /\ loop' = [loop EXCEPT ![0] = "idle"]
    /\ UNCHANGED <<operator, target, hup, ctxDone, reloader, mu, generation, cancelled, live>>

\* signal.Notify, and the reloader starts.
Notify ==
    /\ main = "start"
    /\ main' = "serving" /\ rel' = "wait"
    /\ UNCHANGED <<operator, target, hup, ctxDone, loaded, mu, generation, loop, cancelled,
                   live, listening, snap>>

\* The context is done: the listener shuts down.
Shutdown ==
    /\ main = "serving" /\ ctxDone
    /\ main' = "lock" /\ listening' = FALSE
    /\ UNCHANGED <<operator, target, hup, ctxDone, reloader, mu, generation, loop, cancelled,
                   live, snap>>

\* daemonState.mu is taken, and the current generation told to stop.
MainLock ==
    /\ main = "lock" /\ mu = "free"
    /\ mu' = "main" /\ main' = "stop"
    /\ cancelled' = cancelled \cup {gen} /\ target' = gen
    /\ UNCHANGED <<operator, hup, ctxDone, reloader, generation, loop, live,
                   listening, snap>>

\* The listener fails: the context is cancelled and, without the lock, the
\* current generation told to stop.
ListenerFails ==
    /\ main = "serving" /\ listening
    /\ ctxDone' = TRUE /\ listening' = FALSE
    /\ main' = "abandon"
    /\ cancelled' = cancelled \cup {gen} /\ target' = gen
    /\ UNCHANGED <<operator, hup, reloader, mu, generation, loop, live, snap>>

\* Its loop is drained; the secrets of the generation that is current by now
\* are wiped, and the lock released if main took it.
MainStop ==
    /\ main \in {"stop", "abandon"} /\ loop[target] = "ended"
    /\ main' = "return"
    /\ mu' = IF main = "stop" THEN "free" ELSE mu
    /\ live' = live \ {gen}
    /\ UNCHANGED <<operator, hup, ctxDone, reloader, generation, loop, cancelled,
                   listening, target, snap>>

\* main returns, and the process ends with whatever still runs.
Exit ==
    /\ main = "return"
    /\ main' = "exited"
    /\ UNCHANGED <<operator, hup, ctxDone, reloader, mu, generation, loop, cancelled,
                   live, listening, target, snap>>

-----------------------------------------------------------------------------
(* The loop of a generation.                                               *)

Stopping(g) == ctxDone \/ g \in cancelled

\* The timer fires, which takes the new loop of a reload longer than the swap.
\* A tick that starts at the moment of a cancellation is one that starts just
\* before it.
TickStart(g) ==
    /\ Running /\ loop[g] = "idle" /\ ~Stopping(g)
    /\ ~(rel = "current" /\ g = last)
    /\ loop' = [loop EXCEPT ![g] = "tick"]
    /\ UNCHANGED <<operator, target, hup, ctxDone, main, reloader, mu, generation, cancelled,
                   live, listening, snap>>

\* The sweep is over, early when the context is cancelled, and a snapshot is
\* composed, signed and published; or the tick fails.
TickEnd(g) ==
    /\ Running /\ loop[g] = "tick"
    /\ loop' = [loop EXCEPT ![g] = "idle"]
    /\ snap' \in {snap, g}
    /\ UNCHANGED <<operator, target, hup, ctxDone, main, reloader, mu, generation, cancelled,
                   live, listening>>

LoopEnd(g) ==
    /\ Running /\ loop[g] = "idle" /\ Stopping(g)
    /\ loop' = [loop EXCEPT ![g] = "ended"]
    /\ UNCHANGED <<operator, target, hup, ctxDone, main, reloader, mu, generation, cancelled,
                   live, listening, snap>>

-----------------------------------------------------------------------------
(* The reloader.                                                           *)

\* A queued SIGHUP; which of two ready channels is received from is open.
Receive ==
    /\ Running /\ rel = "wait" /\ hup
    /\ hup' = FALSE /\ rel' = "load"
    /\ UNCHANGED <<operator, target, ctxDone, main, loaded, mu, generation, loop, cancelled,
                   live, listening, snap>>

ReloaderEnds ==
    /\ Running /\ rel = "wait" /\ ctxDone
    /\ rel' = "ended"
    /\ UNCHANGED <<operator, target, hup, ctxDone, main, loaded, mu, generation, loop,
                   cancelled, live, listening, snap>>

\* config.Load, outside the lock.
LoadConfig ==
    /\ Running /\ rel = "load"
    /\ loaded' = conf
    /\ rel' = IF conf.kind = "invalid" THEN "wait" ELSE "lock"
    /\ UNCHANGED <<operator, target, hup, ctxDone, main, mu, generation, loop, cancelled,
                   live, listening, snap>>

ReloadLock ==
    /\ Running /\ rel = "lock" /\ mu = "free"
    /\ mu' = "reload" /\ rel' = "check"
    /\ UNCHANGED <<operator, target, hup, ctxDone, main, loaded, generation, loop, cancelled,
                   live, listening, snap>>

\* Fault: a rejected configuration leaves the lock held.
CheckKeepsLock ==
    /\ Running /\ rel = "check"
    /\ IF loaded.kind = "good"
       THEN /\ rel' = "drain" /\ cancelled' = cancelled \cup {gen}
       ELSE /\ rel' = "wait" /\ UNCHANGED cancelled
    /\ UNCHANGED <<operator, target, hup, ctxDone, main, loaded, mu, generation, loop,
                   live, listening, snap>>

\* assertHotReloadable and Wire; the old loop is stopped only when both accept.
Check ==
    /\ Running /\ rel = "check"
    /\ IF loaded.kind = "good"
       THEN /\ rel' = "drain" /\ cancelled' = cancelled \cup {gen} /\ UNCHANGED mu
       ELSE /\ rel' = "wait" /\ mu' = "free" /\ UNCHANGED cancelled
    /\ UNCHANGED <<operator, target, hup, ctxDone, main, loaded, generation, loop, live,
                   listening, snap>>

\* Fault: the old loop is cancelled and not waited for.
DrainNot ==
    /\ Running /\ rel = "drain"
    /\ last' = last + 1
    /\ cfgOf' = [cfgOf EXCEPT ![last + 1] = loaded]
    /\ live' = live \cup {last + 1}
    /\ rel' = "refresh"
    /\ UNCHANGED <<operator, target, hup, ctxDone, main, loaded, mu, gen, loop, cancelled,
                   listening, snap>>

\* The old loop is drained; the new generation is made of the new configuration.
Drain ==
    /\ Running /\ rel = "drain" /\ loop[gen] = "ended"
    /\ last' = last + 1
    /\ cfgOf' = [cfgOf EXCEPT ![last + 1] = loaded]
    /\ live' = live \cup {last + 1}
    /\ rel' = "refresh"
    /\ UNCHANGED <<operator, target, hup, ctxDone, main, loaded, mu, gen, loop, cancelled,
                   listening, snap>>

\* SyncImportNew and Refresh of the new generation; it takes over even when
\* they fail, and then the snapshot of the old one is served on.
ReloadRefresh ==
    /\ Running /\ rel = "refresh"
    /\ snap' \in {snap, last}
    /\ rel' = "swap"
    /\ UNCHANGED <<operator, target, hup, ctxDone, main, loaded, mu, generation, loop,
                   cancelled, live, listening>>

\* The new loop starts.
StartLoop ==
    /\ Running /\ rel = "swap"
    /\ loop' = [loop EXCEPT ![last] = "idle"]
    /\ rel' = "current"
    /\ UNCHANGED <<operator, target, hup, ctxDone, main, loaded, mu, generation, cancelled,
                   live, listening, snap>>

\* Fault: the secrets of the generation that is current after the swap are wiped.
SwapWipesNew ==
    /\ Running /\ rel = "current"
    /\ gen' = last
    /\ live' = live \ {last}
    /\ mu' = "free" /\ rel' = "wait"
    /\ UNCHANGED <<operator, target, hup, ctxDone, main, loaded, last, cfgOf, loop, cancelled,
                   listening, snap>>

\* The new generation is current, and the secrets of the old one are wiped.
Swap ==
    /\ Running /\ rel = "current"
    /\ gen' = last
    /\ live' = live \ {gen}
    /\ mu' = "free" /\ rel' = "wait"
    /\ UNCHANGED <<operator, target, hup, ctxDone, main, loaded, last, cfgOf, loop, cancelled,
                   listening, snap>>

-----------------------------------------------------------------------------

Boot == BootFails \/ BootImport \/ BootRefresh \/ Notify
Stop == Shutdown \/ MainLock \/ ListenerFails \/ MainStop \/ Exit
Loop(g) == TickStart(g) \/ TickEnd(g) \/ LoopEnd(g)
Reload == Receive \/ ReloaderEnds \/ LoadConfig \/ ReloadLock \/ Check \/ Drain
          \/ ReloadRefresh \/ StartLoop \/ Swap

Next == Edit \/ SendHup \/ SendTerm \/ Boot \/ Stop \/ Reload \/ \E g \in Gens : Loop(g)

Spec == Init /\ [][Next]_vars

\* Every goroutine that can run does, an edit is followed by a SIGHUP; nobody
\* has to edit, to terminate the process, or to break the listener.
Fairness ==
    /\ WF_vars(SendHup)
    /\ WF_vars(BootImport \/ BootRefresh \/ Notify)
    /\ WF_vars(Shutdown) /\ SF_vars(MainLock) /\ WF_vars(MainStop \/ Exit)
    /\ WF_vars(Receive \/ LoadConfig \/ Check \/ Drain \/ ReloadRefresh \/ StartLoop \/ Swap)
    /\ SF_vars(ReloadLock)
    /\ \A g \in Gens : WF_vars(TickEnd(g)) /\ WF_vars(LoopEnd(g))

LiveSpec == Spec /\ Fairness

-----------------------------------------------------------------------------
(* Properties.                                                             *)

\* Type correctness of the process and its generations.
TypeOK ==
    /\ conf \in Conf /\ loaded \in Conf /\ cfgOf \in [Gens -> Conf]
    /\ {owed, hup, ctxDone, listening} \subseteq BOOLEAN
    /\ main \in {"import", "refresh", "start", "serving", "lock", "stop",
                 "abandon", "return", "exited", "killed"}
    /\ rel \in {"none", "wait", "load", "lock", "check", "drain", "refresh",
                "swap", "current", "ended"}
    /\ mu \in {"free", "main", "reload"}
    /\ gen \in Gens /\ last \in Gens
    /\ loop \in [Gens -> {"none", "idle", "tick", "ended"}]
    /\ cancelled \subseteq Gens /\ live \subseteq Gens
    /\ target \in Gens /\ snap \in Gens \cup {NoSnap}

\* g imports, sweeps or composes: it writes the state directory and signs.
Refreshing(g) ==
    /\ Running
    /\ \/ loop[g] = "tick"
       \/ g = 0 /\ main \in {"import", "refresh"}
       \/ g = last /\ rel = "refresh"

\* No two generations refresh at once, so the state directory has one writer.
OneRefresher == \A g, h \in Gens : Refreshing(g) /\ Refreshing(h) => g = h

\* A generation that refreshes has its signing key.
KeyPresent == \A g \in Gens : Refreshing(g) => g \in live

\* Between reloads, rejected ones included, the current generation has a loop
\* that nobody has stopped, and its secrets.
LoopRuns == main = "serving" /\ rel = "wait" /\ ~ctxDone =>
    gen \in live \ cancelled /\ loop[gen] \in {"idle", "tick"}

\* The snapshot of a generation is never replaced by that of an older one.
SnapshotsForward == [][snap' >= snap]_snap

\* After the last edit and its SIGHUP, an acceptable configuration is current
\* for good, unless the process stops.
Applied ==
    <>[](main = "serving" /\ ~ctxDone /\ conf.kind = "good" => cfgOf[gen] = conf)

\* A process that is told to stop ends.
Terminates == ctxDone ~> Ended

-----------------------------------------------------------------------------
(* The inductive invariant.                                                *)

Handling == rel \in {"load", "lock", "check", "drain"}
Making == rel \in {"refresh", "swap", "current"}
Booting == main \in {"import", "refresh", "start"}
Bit(b) == IF b THEN 1 ELSE 0

\* A generation costs a SIGHUP and a SIGHUP an edit.
Counted == last + Bit(owed) + Bit(hup) + Bit(Handling) <= conf.n

\* The lock is the reloader's from the checks to the swap.
LockHeld ==
    /\ mu = "reload" <=> rel \in {"check", "drain"} \/ Making
    /\ mu = "main" <=> main = "stop"

\* The newest generation is the current one, or the next while a reload makes
\* it; later ones have not begun.
Numbered ==
    /\ last = IF Making THEN gen + 1 ELSE gen
    /\ \A g \in Gens : g > last => loop[g] = "none" /\ g \notin cancelled
    /\ snap <= last
    /\ Booting => rel = "none" /\ (main # "start" => loop[0] = "none" /\ 0 \notin cancelled)
    /\ rel = "none" => gen = 0

\* Only the current generation ticks, and not while its successor is made.
OneLoop ==
    /\ \A g \in Gens : g # gen =>
         \/ loop[g] \in {"none", "ended"}
         \/ rel = "current" /\ g = last /\ loop[g] = "idle"
    /\ Making => loop[gen] = "ended"

\* Secrets are wiped by main at its end, and by a swap.
Keys ==
    /\ Running /\ main # "return" => gen \in live
    /\ Making => last \in live

\* When main has wiped the current secrets, nothing ticks any more.
Stopped ==
    /\ main \in {"lock", "stop", "abandon", "return"} => ctxDone
    /\ main = "stop" => target = gen
    /\ main = "return" => loop[gen] # "tick"
    /\ main = "abandon" /\ target # gen => loop[gen] # "tick"

\* Until the context is done somebody's loop runs, or is about to.
Looping ==
    main \in {"start", "serving"} /\ ~ctxDone =>
        /\ Making => last \notin cancelled
        /\ rel = "current" => loop[last] = "idle"
        /\ ~Making /\ rel # "drain" =>
             gen \notin cancelled /\ loop[gen] \in {"idle", "tick"}

\* Everything the safety properties of this module follow from.
IInv == TypeOK /\ Counted /\ LockHeld /\ Numbered /\ OneLoop /\ Keys /\ Stopped /\ Looping

=============================================================================
