-------------------------------- MODULE Export --------------------------------
(***************************************************************************)
(* signpost export (cmd/signpost/export.go, signpost/export): each run     *)
(* composes a snapshot and writes it into the document root of a web       *)
(* server, file by file, removes what the previous export wrote and this   *)
(* one does not, and records its own paths in the marker, last.  The       *)
(* server reads the same directory all the time, runs fail or are killed   *)
(* at any step, and the repository, its prefix and the targets change      *)
(* between runs.                                                           *)
(*                                                                         *)
(* A path is [root, kind, of]: root is the path prefix of base_url, Bare   *)
(* when there is none; a by-hash entry is the path of an index, the pool   *)
(* entry that of a bootstrap version, and the rules of a target are        *)
(* always at Bare.  A snapshot is [index, deb]; a file is the snapshot it  *)
(* was written from.  Runs do not overlap.                                 *)
(***************************************************************************)
EXTENDS Naturals, Functions

CONSTANTS
    Wants,      \* what exports may be asked for: [snap, root, targets]
    MaxChanges, \* bound on the changes of it
    MaxFails,   \* bound on the failures
    None

Bare == ""

Kinds == {"inrelease", "release", "gpg", "packages", "hash", "deb", "key"}

ASSUME ExportAssumption ==
    /\ \A w \in Wants : w.targets # {}
    /\ MaxChanges \in Nat /\ MaxFails \in Nat

VARIABLES
    want,    \* what an export that starts now is asked for
    changes, \* changes so far
    tree,    \* the files of exports in the output directory
    litter,  \* it has other entries: somebody else's, temporary files, or
             \* directories that were made for files
    marker,  \* the paths listed in the marker, or None
    pc,      \* "idle", "write" or "prune"
    job,     \* what the last export was asked for, or None
    todo,    \* paths it has still to write
    stale,   \* paths it has still to remove
    done,    \* the last export completed
    fails,   \* failures so far
    lost     \* history: paths that failed exports wrote and no marker lists

vars == <<want, changes, tree, litter, marker, pc, job, todo, stale, done, fails, lost>>

-----------------------------------------------------------------------------
(* Paths and their order.                                                  *)

PathOf(kind, root, s) ==
    [root |-> root, kind |-> kind,
     of |-> IF kind = "hash" THEN s.index ELSE IF kind = "deb" THEN s.deb ELSE None]

Rules(t) == [root |-> Bare, kind |-> "rules", of |-> t]

\* Everything an export writes but the marker.
Out(w) == {PathOf(k, w.root, w.snap) : k \in Kinds} \cup {Rules(t) : t \in w.targets}

ASSUME MarkerAssumption == \A w \in Wants : Out(w) # None

\* Fault: by-hash entries are written with the canonical Packages.
TierLate(p) ==
    IF p.root # Bare \/ p.kind \in {"rules", "deb", "key"} THEN 0
    ELSE CASE p.kind = "packages" -> 1 [] p.kind = "gpg" -> 2
           [] p.kind = "release" -> 3 [] p.kind = "inrelease" -> 4 [] OTHER -> 5

\* The tier of writeOrder.  It looks for "dists/" at the start of the path.
Tier(p) ==
    IF p.root # Bare \/ p.kind \in {"rules", "deb", "key"} THEN 0
    ELSE CASE p.kind = "hash" -> 1 [] p.kind = "packages" -> 2 [] p.kind = "gpg" -> 3
           [] p.kind = "release" -> 4 [] p.kind = "inrelease" -> 5

\* The lexical order of paths: the rules of Cloudflare ("_"), then a prefix
\* ("apt/"), then no prefix, then the other rules ("signpost-").
Lex(p) ==
    IF p.kind = "rules" THEN IF p.of = "cloudflare" THEN 0 ELSE 30
    ELSE (IF p.root = Bare THEN 20 ELSE 10)
         + CASE p.kind = "inrelease" -> 0 [] p.kind = "release" -> 1 [] p.kind = "gpg" -> 2
             [] p.kind = "packages" -> 3 [] p.kind = "hash" -> 4
             [] p.kind = "deb" -> 5 [] p.kind = "key" -> 6

Before(p, q) == Tier(p) < Tier(q) \/ (Tier(p) = Tier(q) /\ Lex(p) < Lex(q))

-----------------------------------------------------------------------------

Init ==
    /\ want \in Wants /\ changes = 0
    /\ tree = [p \in {} |-> None] /\ litter \in BOOLEAN /\ marker = None
    /\ pc = "idle" /\ job = None /\ todo = {} /\ stale = {} /\ done = FALSE
    /\ fails = 0 /\ lost = {}

\* Sources are updated, or the configuration or the command line changes.
Change ==
    /\ changes < MaxChanges
    /\ changes' = changes + 1
    /\ want' \in Wants \ {want}
    /\ UNCHANGED <<tree, litter, marker, pc, job, todo, stale, done, fails, lost>>

\* A non-empty directory without a marker is refused.
Refused == marker = None /\ (DOMAIN tree # {} \/ litter)

\* The snapshot is composed and the marker read.
Begin ==
    /\ pc = "idle" /\ ~Refused
    /\ job' = want
    /\ todo' = Out(want)
    /\ stale' = IF marker = None THEN {} ELSE marker \ Out(want)
    /\ pc' = "write" /\ done' = FALSE
    /\ UNCHANGED <<want, changes, tree, litter, marker, fails, lost>>

\* The next file in writeOrder, by way of a temporary file.
WriteFile ==
    /\ pc = "write"
    /\ \E p \in todo :
         /\ \A q \in todo \ {p} : Before(p, q)
         /\ tree' = [q \in DOMAIN tree \cup {p} |-> IF q = p THEN job.snap ELSE tree[q]]
         /\ todo' = todo \ {p}
    /\ pc' = IF todo' = {} THEN "prune" ELSE "write"
    /\ UNCHANGED <<want, changes, litter, marker, job, stale, done, fails, lost>>

\* Fault: what cannot be removed because it is gone ends the export.
PruneStrict ==
    /\ pc = "prune"
    /\ \E p \in stale :
         /\ \A q \in stale \ {p} : Lex(p) < Lex(q)
         /\ p \in DOMAIN tree
         /\ tree' = Restrict(tree, DOMAIN tree \ {p})
         /\ stale' = stale \ {p}
    /\ UNCHANGED <<want, changes, litter, marker, pc, job, todo, done, fails, lost>>

\* Stale files are removed in the lexical order of the marker.
Prune ==
    /\ pc = "prune"
    /\ \E p \in stale :
         /\ \A q \in stale \ {p} : Lex(p) < Lex(q)
         /\ tree' = Restrict(tree, DOMAIN tree \ {p})
         /\ stale' = stale \ {p}
    /\ UNCHANGED <<want, changes, litter, marker, pc, job, todo, done, fails, lost>>

\* Fault: the marker is written before the stale files are removed.
WriteMarkerFirst ==
    /\ pc = "prune" /\ stale \subseteq DOMAIN tree
    /\ marker' = Out(job)
    /\ IF stale = {} THEN pc' = "idle" /\ done' = TRUE ELSE UNCHANGED <<pc, done>>
    /\ UNCHANGED <<want, changes, tree, litter, job, todo, stale, fails, lost>>

\* The marker is written, and the export is complete.
WriteMarker ==
    /\ pc = "prune" /\ stale = {}
    /\ marker' = Out(job)
    /\ pc' = "idle" /\ done' = TRUE
    /\ UNCHANGED <<want, changes, tree, litter, job, todo, stale, fails, lost>>

\* An export fails or is killed, and may leave litter.
Fail ==
    /\ pc # "idle" /\ fails < MaxFails
    /\ fails' = fails + 1
    /\ pc' = "idle" /\ todo' = {} /\ stale' = {}
    /\ litter' \in {litter, TRUE}
    /\ lost' = lost \cup ((Out(job) \ todo) \ (IF marker = None THEN {} ELSE marker))
    /\ UNCHANGED <<want, changes, tree, marker, job, done>>

\* The operator empties a directory that is refused.
Empty ==
    /\ pc = "idle" /\ Refused
    /\ tree' = [p \in {} |-> None] /\ litter' = FALSE /\ lost' = {}
    /\ UNCHANGED <<want, changes, marker, pc, job, todo, stale, done, fails>>

Next == Change \/ Begin \/ WriteFile \/ Prune \/ WriteMarker \/ Fail \/ Empty

Spec == Init /\ [][Next]_vars

\* Exports are started again and again, and a running one goes on; nobody has
\* to empty a directory.
Fairness == WF_vars(Begin) /\ WF_vars(WriteFile) /\ WF_vars(Prune) /\ WF_vars(WriteMarker)

LiveSpec == Spec /\ Fairness

-----------------------------------------------------------------------------
(* Properties.                                                             *)

Roots == {w.root : w \in Wants}
Paths == UNION {Out(w) : w \in Wants}

\* Type correctness of the output directory and of a running export.
TypeOK ==
    /\ want \in Wants /\ changes \in 0 .. MaxChanges /\ fails \in 0 .. MaxFails
    /\ DOMAIN tree \subseteq Paths
    /\ \A p \in DOMAIN tree : \E w \in Wants : tree[p] = w.snap
    /\ litter \in BOOLEAN /\ done \in BOOLEAN
    /\ marker = None \/ marker \subseteq Paths
    /\ pc \in {"idle", "write", "prune"}
    /\ job = None \/ job \in Wants
    /\ todo \subseteq Paths /\ stale \subseteq Paths /\ lost \subseteq Paths

\* What the InRelease at this root names is there: the Packages under its
\* hash, and the bootstrap package in the pool.
Closed(root) ==
    LET top == PathOf("inrelease", root, None)
    IN  top \in DOMAIN tree =>
            {PathOf("hash", root, tree[top]), PathOf("deb", root, tree[top])}
                \subseteq DOMAIN tree

\* A client that reads InRelease at any moment, during an export or after one
\* that failed half-way, finds what it names.
ClosedAtRoot == Closed(Bare)

\* The same when base_url has a path.
ClosedUnderPrefix == \A r \in Roots \ {Bare} : Closed(r)

\* After a completed export its files are there and of its snapshot, and what
\* else exports wrote was left by failed ones.
Exact ==
    pc = "idle" /\ done =>
        /\ Out(job) \subseteq DOMAIN tree
        /\ \A p \in Out(job) : p.kind \notin {"hash", "deb"} => tree[p] = job.snap
        /\ DOMAIN tree \subseteq Out(job) \cup lost

\* Once nothing changes any more, the directory comes to hold what is wanted,
\* unless it is refused and nobody empties it.
Current == /\ Out(want) \subseteq DOMAIN tree
           /\ \A p \in Out(want) : p.kind \notin {"hash", "deb"} => tree[p] = want.snap
EventuallyCurrent == <>[]Current \/ <>[](pc = "idle" /\ Refused)

-----------------------------------------------------------------------------
(* The inductive invariant behind ClosedAtRoot.                            *)

Top == PathOf("inrelease", Bare, None)

\* What the running export has written is there, and is its own.
Written ==
    pc # "idle" =>
        /\ job \in Wants /\ todo \subseteq Out(job) /\ stale \cap Out(job) = {}
        /\ Out(job) \ todo \subseteq DOMAIN tree
        /\ Top \in Out(job) \ todo => tree[Top] = job.snap
        /\ pc = "prune" => todo = {}

\* The marker lists a whole export.
Listed == marker = None \/ \E w \in Wants : marker = Out(w)

\* An export that moves the repository below a prefix removes the old
\* InRelease before what it names.
TopFirst ==
    pc # "idle" /\ job.root # Bare =>
        \A p \in stale : p.root = Bare /\ p.kind \in {"hash", "deb"} =>
            Top \in stale \/ Top \notin DOMAIN tree

IInv == TypeOK /\ Written /\ Listed /\ TopFirst /\ ClosedAtRoot

=============================================================================
