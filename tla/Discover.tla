------------------------------- MODULE Discover -------------------------------
(***************************************************************************)
(* What the discovers of cooper, staves and chandler have in common: a     *)
(* run goes over the units of its configuration (recipes, directories,     *)
(* targets), one after the other, and answers each with packages of a      *)
(* plan, in error or with artifacts.  Meanwhile vendors publish and the    *)
(* files beside the recipes are edited.  Runs follow one another; none     *)
(* leaves anything but its plan.                                           *)
(***************************************************************************)
EXTENDS Recipe

CONSTANTS
    Configs,      \* configurations: [tool, units, filter, urls, files, ...]
    Offers,       \* what each URL answers over time
    Edits,        \* what each file holds over time, Nil when it is not there
    MaxRuns,      \* bound on the runs
    MaxChanges    \* bound on what vendors publish and users edit

\* What the loaders make of a recipe and of a target, before they validate it.
Recipe(r, c) ==
    /\ List(r.docs) /\ List(r.archNames) /\ r.url \in c.urls
    /\ \A i \in DOMAIN r.archNames : LET n == r.archNames[i] IN
          n \in DOMAIN r.arches /\ List(r.arches[n].urls)

Target(t) == t.path = <<t.Distro, t.Codename>>

ASSUME DiscoverAssumption ==
    /\ MaxRuns \in Nat /\ MaxChanges \in Nat
    /\ \A c \in Configs :
         /\ c.tool \in {"cooper", "staves", "chandler"} /\ List(c.units)
         /\ \A i \in DOMAIN c.units :
               /\ c.tool = "cooper" => Recipe(c.units[i], c)
               /\ c.tool = "chandler" => Target(c.units[i])

VARIABLES
    config,    \* the configuration, of every run
    net,       \* what each URL answers
    disk,      \* the files
    todo,      \* the units that are left of the run
    pc,        \* "idle", "load", or what is done next for the first of them
    cur,       \* what is known of it
    plan,      \* the packages of the plan
    exit,      \* how the last run ended: "none", "ok" or "error"
    runs,
    changes,
    emitted    \* history: the packages of all plans

world == <<net, disk, changes>>
unit == Head(todo)
vars == <<config, world, todo, pc, cur, plan, exit, runs, emitted>>

Init ==
    /\ config \in Configs
    /\ net \in {f \in [config.urls -> UNION {Offers[u] : u \in config.urls}] :
                   \A u \in config.urls : f[u] \in Offers[u]}
    /\ disk \in {f \in [config.files -> UNION {Edits[p] : p \in config.files}] :
                   \A p \in config.files : f[p] \in Edits[p]}
    /\ todo = <<>> /\ pc = "idle" /\ cur = Nil /\ plan = <<>> /\ exit = "none"
    /\ runs = 0 /\ changes = 0 /\ emitted = {}

-----------------------------------------------------------------------------
(* The packages of a plan; read is what the epoch of one is taken from.    *)

Package(name, source, arts, read) ==
    [of |-> unit.path, name |-> name, result |-> "ok", kind |-> "", source |-> source,
     arts |-> arts, read |-> read]

errPkg(name, kind) ==
    [of |-> unit.path, name |-> name, result |-> "error", kind |-> kind, source |-> Nil,
     arts |-> <<>>, read |-> Nil]

Artifact(name, version, arch, assets, shas, bp, extract) ==
    [arch |-> arch, assets |-> assets, file |-> <<name, version, arch>>, plan |-> bp,
     hash |-> ComputeBuildInputsHash(shas, bp), extract |-> extract]

\* --package: a package is in the plan if its name was asked for, or none was.
Wanted(pkg) == config.filter = Nil \/ pkg.name \in config.filter

Report(pkg) == plan' = IF Wanted(pkg) THEN Append(plan, pkg) ELSE plan

\* The unit is answered for with this package, and done.
Answer(pkg) ==
    /\ Report(pkg)
    /\ todo' = Tail(todo) /\ pc' = "load" /\ cur' = Nil
    /\ UNCHANGED <<config, world, exit, runs, emitted>>

\* On to the next step of the unit.
Continue(where, c) ==
    /\ pc' = where /\ cur' = c
    /\ UNCHANGED <<config, world, todo, plan, exit, runs, emitted>>

-----------------------------------------------------------------------------

\* There are recipes or directories, and their paths are different.
LoadTop(c) == c.units # <<>> /\ Distinct([i \in DOMAIN c.units |-> c.units[i].path])

\* A run starts, or refuses the configuration.
Begin(accepted) ==
    /\ pc = "idle" /\ runs < MaxRuns
    /\ runs' = runs + 1 /\ plan' = <<>> /\ cur' = Nil
    /\ IF accepted
       THEN pc' = "load" /\ todo' = config.units /\ exit' = "none"
       ELSE pc' = "idle" /\ todo' = <<>> /\ exit' = "error"
    /\ UNCHANGED <<config, world, emitted>>

anyError == \E i \in DOMAIN plan : plan[i].result = "error"

\* The plan is written.
Finish ==
    /\ pc = "load" /\ todo = <<>>
    /\ pc' = "idle" /\ exit' = IF anyError THEN "error" ELSE "ok"
    /\ emitted' = emitted \cup {plan[i] : i \in DOMAIN plan}
    /\ UNCHANGED <<config, world, todo, cur, plan, runs>>

Publish(u) ==
    /\ changes < MaxChanges /\ changes' = changes + 1
    /\ \E a \in Offers[u] \ {net[u]} : net' = [net EXCEPT ![u] = a]
    /\ UNCHANGED <<config, disk, todo, pc, cur, plan, exit, runs, emitted>>

Edit(p) ==
    /\ changes < MaxChanges /\ changes' = changes + 1
    /\ \E c \in Edits[p] \ {disk[p]} : disk' = [disk EXCEPT ![p] = c]
    /\ UNCHANGED <<config, net, todo, pc, cur, plan, exit, runs, emitted>>

Environment ==
    (\E u \in config.urls : Publish(u)) \/ (\E p \in config.files : Edit(p))

===============================================================================
