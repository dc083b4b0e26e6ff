------------------------------ MODULE Bootstrap ------------------------------
(***************************************************************************)
(* The bootstrap package of signpost: refresh/bootstrap_step.go decides on *)
(* every tick whether the cached .deb still matches the configuration and  *)
(* the keyring, rebuilds it under a YYYY.MM.DD.N version when it does not, *)
(* and writes bootstrap/<version>.deb and then bootstrap.json.  The tick   *)
(* then publishes the package in the served snapshot.                      *)
(*                                                                         *)
(* A step of this module is one durable effect: the two file writes are    *)
(* separate steps (each is atomic: temporary file, fsync, rename), and a   *)
(* process crash may fall between any two steps.  Writers is the set of    *)
(* processes running ticks on one state directory: the daemon alone, or    *)
(* the daemon and a `signpost export` started next to it.  Nothing in the  *)
(* store locks the directory.                                              *)
(*                                                                         *)
(* A .deb is abstracted to [version, input, build]: build is the serial    *)
(* number of the run of nfpm that made it, because two runs on the same    *)
(* inputs stamp different times and give different bytes.  A SHA256 is     *)
(* modelled by the bytes it digests, InputHash by the inputs themselves.   *)
(* The wall clock never steps back to an earlier day.                      *)
(***************************************************************************)
EXTENDS Naturals

CONSTANTS
    Writers,    \* processes that run ticks on this state directory
    Inputs,     \* distinct values of bootstrap.Inputs (config and keyring)
    None,       \* no file, no snapshot, nothing in memory
    MaxDay,     \* bound on the days that pass
    MaxBuilds   \* bound on the runs of nfpm

Version == [day : Nat, n : Nat]
Deb == [version : Version, input : Inputs, build : Nat]
State == [version : Version, input : Inputs, sha : Deb]
Held == [state : State, body : Deb]

ASSUME BootstrapAssumption ==
    /\ MaxDay \in Nat
    /\ MaxBuilds \in Nat
    /\ None \notin State \cup Deb \cup Held

\* The daemon is the only process on its state directory.
SingleWriter == \A v, w \in Writers : v = w

VARIABLES
    want,    \* want[w]: the inputs w derives from its configuration
    today,   \* the day of the wall clock
    builds,  \* runs of nfpm so far
    json,    \* bootstrap.json, or None
    debs,    \* bootstrap/<version>.deb, a partial function of versions
    pc,      \* pc[w]: where w is in its tick
    mem,     \* mem[w]: the [state, body] ensureBootstrap holds, or None
    served,  \* served[w]: the [state, body] of w's snapshot, or None
    issued   \* every body some snapshot has carried

vars == <<want, today, builds, json, debs, pc, mem, served, issued>>

VLess(v, w) == v.day < w.day \/ (v.day = w.day /\ v.n < w.n)
VLeq(v, w) == v = w \/ VLess(v, w)

\* Fault: the counter ignores the persisted version.
NextVersionStuck(prev, day) == [day |-> day, n |-> 1]

\* The next free number of today, given the previous state (None on a cold start).
NextVersion(prev, day) ==
    IF prev # None /\ prev.version.day = day /\ prev.version.n > 0
    THEN [day |-> day, n |-> prev.version.n + 1]
    ELSE [day |-> day, n |-> 1]

\* The cached package can be reused: same inputs and its .deb is on disk.
Reusable(w) ==
    /\ json # None
    /\ json.input = want[w]
    /\ json.version \in DOMAIN debs

-----------------------------------------------------------------------------
Init ==
    /\ want \in [Writers -> Inputs]
    /\ today = 1
    /\ builds = 0
    /\ json = None
    /\ debs = [v \in {} |-> None]
    /\ pc = [w \in Writers |-> "idle"]
    /\ mem = [w \in Writers |-> None]
    /\ served = [w \in Writers |-> None]
    /\ issued = {}

\* ensureBootstrap returns the persisted state and the cached bytes.
Reuse(w) ==
    /\ pc[w] = "idle"
    /\ Reusable(w)
    /\ pc' = [pc EXCEPT ![w] = "ready"]
    /\ mem' = [mem EXCEPT ![w] = [state |-> json, body |-> debs[json.version]]]
    /\ UNCHANGED <<want, today, builds, json, debs, served, issued>>

\* Fault: the previous version is taken from the snapshot, not from the disk.
RebuildFromMemory(w) ==
    /\ pc[w] = "idle"
    /\ builds < MaxBuilds
    /\ LET prev == IF served[w] = None THEN None ELSE served[w].state
           v == NextVersion(prev, today)
           d == [version |-> v, input |-> want[w], build |-> builds + 1]
       IN mem' = [mem EXCEPT ![w] =
                    [state |-> [version |-> v, input |-> want[w], sha |-> d],
                     body |-> d]]
    /\ builds' = builds + 1
    /\ pc' = [pc EXCEPT ![w] = "built"]
    /\ UNCHANGED <<want, today, json, debs, served, issued>>

\* The .deb is built in memory.  A cached .deb that is there but cannot be
\* read is treated as missing, so a rebuild is possible with Reusable too.
Rebuild(w) ==
    /\ pc[w] = "idle"
    /\ builds < MaxBuilds
    /\ LET v == NextVersion(json, today)
           d == [version |-> v, input |-> want[w], build |-> builds + 1]
       IN mem' = [mem EXCEPT ![w] =
                    [state |-> [version |-> v, input |-> want[w], sha |-> d],
                     body |-> d]]
    /\ builds' = builds + 1
    /\ pc' = [pc EXCEPT ![w] = "built"]
    /\ UNCHANGED <<want, today, json, debs, served, issued>>

\* Fault: an existing file is kept instead of being replaced.
WriteDebIfMissing(w) ==
    /\ pc[w] = "built"
    /\ LET v == mem[w].state.version
       IN debs' = [u \in DOMAIN debs \cup {v} |->
                     IF u \in DOMAIN debs THEN debs[u] ELSE mem[w].body]
    /\ pc' = [pc EXCEPT ![w] = "debWritten"]
    /\ UNCHANGED <<want, today, builds, json, mem, served, issued>>

WriteDeb(w) ==
    /\ pc[w] = "built"
    /\ LET v == mem[w].state.version
       IN debs' = [u \in DOMAIN debs \cup {v} |->
                     IF u = v THEN mem[w].body ELSE debs[u]]
    /\ pc' = [pc EXCEPT ![w] = "debWritten"]
    /\ UNCHANGED <<want, today, builds, json, mem, served, issued>>

WriteJson(w) ==
    /\ pc[w] = "debWritten"
    /\ json' = mem[w].state
    /\ pc' = [pc EXCEPT ![w] = "ready"]
    /\ UNCHANGED <<want, today, builds, debs, mem, served, issued>>

\* composeSnapshot and holder.Store.
Publish(w) ==
    /\ pc[w] = "ready"
    /\ served' = [served EXCEPT ![w] = mem[w]]
    /\ issued' = issued \cup {mem[w].body}
    /\ pc' = [pc EXCEPT ![w] = "idle"]
    /\ mem' = [mem EXCEPT ![w] = None]
    /\ UNCHANGED <<want, today, builds, json, debs>>

\* A write or the composition fails: the tick returns its error, the prior
\* snapshot stays, and what was already written stays too.
TickFails(w) ==
    /\ pc[w] # "idle"
    /\ pc' = [pc EXCEPT ![w] = "idle"]
    /\ mem' = [mem EXCEPT ![w] = None]
    /\ UNCHANGED <<want, today, builds, json, debs, served, issued>>

\* The process dies and is started again: only the files survive.
Crash(w) ==
    /\ pc' = [pc EXCEPT ![w] = "idle"]
    /\ mem' = [mem EXCEPT ![w] = None]
    /\ served' = [served EXCEPT ![w] = None]
    /\ UNCHANGED <<want, today, builds, json, debs, issued>>

-----------------------------------------------------------------------------
\* The environment: a reload or restart with other inputs, between two ticks.
Reconfigure(w) ==
    /\ pc[w] = "idle"
    /\ \E i \in Inputs \ {want[w]} : want' = [want EXCEPT ![w] = i]
    /\ UNCHANGED <<today, builds, json, debs, pc, mem, served, issued>>

NextDay ==
    /\ today < MaxDay
    /\ today' = today + 1
    /\ UNCHANGED <<want, builds, json, debs, pc, mem, served, issued>>

\* "cached .deb deleted from disk": an operator clears the bootstrap directory.
DeleteDeb ==
    /\ \E v \in DOMAIN debs : debs' = [u \in DOMAIN debs \ {v} |-> debs[u]]
    /\ UNCHANGED <<want, today, builds, json, pc, mem, served, issued>>

Step(w) ==
    \/ Reuse(w) \/ Rebuild(w) \/ WriteDeb(w) \/ WriteJson(w) \/ Publish(w)
    \/ TickFails(w) \/ Crash(w) \/ Reconfigure(w)

Next ==
    \/ \E w \in Writers : Step(w)
    \/ NextDay
    \/ DeleteDeb

Spec == Init /\ [][Next]_vars

-----------------------------------------------------------------------------
\* Every variable ranges over the states the program can represent.
TypeOK ==
    /\ want \in [Writers -> Inputs]
    /\ today \in Nat
    /\ builds \in Nat
    /\ json \in State \cup {None}
    /\ DOMAIN debs \subseteq Version
    /\ \A v \in DOMAIN debs : debs[v] \in Deb
    /\ pc \in [Writers -> {"idle", "built", "debWritten", "ready"}]
    /\ mem \in [Writers -> Held \cup {None}]
    /\ served \in [Writers -> Held \cup {None}]
    /\ issued \subseteq Deb

\* Whatever steps a crash or a failed write cut short, the .deb found at the
\* version bootstrap.json names is the one whose SHA256 it records: reusing the
\* cache can never advertise a digest the served bytes do not have.
DiskConsistent ==
    json # None /\ json.version \in DOMAIN debs => debs[json.version] = json.sha

\* A snapshot advertises, for the bootstrap package, the digest and the
\* version of the very bytes it serves.
ServedCoherent ==
    \A w \in Writers : served[w] # None =>
        /\ served[w].state.sha = served[w].body
        /\ served[w].state.version = served[w].body.version

\* A version number is never given to two different packages, across ticks,
\* restarts and crashes between the writes.
VersionsNeverReused ==
    \A d, e \in issued : d.version = e.version => d = e

\* A tick publishes the package of the configuration it runs under, so a new
\* keyring reaches the clients with the first snapshot signed for it.
PublishesCurrentInputs ==
    \A w \in Writers : pc[w] = "ready" => mem[w].body.input = want[w]

\* A package that has not been served yet comes with a version above every
\* version served before: apt sees each rebuild as an upgrade.
UpgradesOnly ==
    [][\A d \in issued' \ issued, e \in issued : VLess(e.version, d.version)]_vars

-----------------------------------------------------------------------------
(* The inductive invariant of a single writer, in named parts.             *)

\* bootstrap.json describes one package, of a day that has come, and the
\* file at its version is that package.
JsonInv ==
    json # None =>
        /\ json.sha.version = json.version
        /\ json.sha.input = json.input
        /\ json.version.day <= today
        /\ json.version.n > 0
        /\ json.version \in DOMAIN debs => debs[json.version] = json.sha

\* A package on its way to disk is above the recorded one.
BuiltInv(w) ==
    pc[w] \in {"built", "debWritten"} =>
        LET st == mem[w].state IN
        /\ st.sha = mem[w].body
        /\ st.sha.version = st.version
        /\ st.sha.input = st.input
        /\ st.input = want[w]
        /\ st.version.day <= today
        /\ st.version.n > 0
        /\ json # None => VLess(json.version, st.version)
        /\ pc[w] = "debWritten" /\ st.version \in DOMAIN debs
              => debs[st.version] = st.sha

\* What is about to be published is what bootstrap.json records.
ReadyInv(w) ==
    pc[w] = "ready" =>
        /\ json # None
        /\ mem[w].state = json
        /\ mem[w].body = json.sha
        /\ json.input = want[w]

\* Nothing above the recorded version was ever served, and nothing but the
\* recorded package under the recorded version.
IssuedInv ==
    \A d \in issued :
        /\ json # None
        /\ VLeq(d.version, json.version)
        /\ d.version = json.version => d = json.sha

IInv ==
    /\ JsonInv
    /\ \A w \in Writers : BuiltInv(w) /\ ReadyInv(w)
    /\ IssuedInv
    /\ ServedCoherent
    /\ VersionsNeverReused
=============================================================================
