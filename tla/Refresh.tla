------------------------------- MODULE Refresh -------------------------------
(***************************************************************************)
(* The signpost daemon: refresh ticks (refresh/refresher.go), composition  *)
(* of the served snapshot (refresh/compose.go, index/build.go), start,     *)
(* crash and SIGHUP reload (cmd/signpost/serve.go), and the HTTP handler   *)
(* with its conditional requests (server/server.go).                       *)
(*                                                                         *)
(* What a vendor shows of a source is [bytes, ver, arch, token]: the rank  *)
(* of its .deb in the order of publication, the version and architecture   *)
(* in its control file, and the token of the probe.  The token moves with  *)
(* the bytes (SourceFetch has the sources where it does not) and also by   *)
(* itself; Tokenless sources have none.  The state file of a source is the *)
(* release it records and its last_changed.                                *)
(* A Packages file is the set of its stanzas and its hash is the set       *)
(* itself.  A Release is the function from architectures to the Packages   *)
(* it lists, and its label, which stands for Origin, Label and Description.*)
(* The three compressed variants stand or fall with Packages and are left  *)
(* out, and so are the signatures: a snapshot carries them as one value    *)
(* with the Release they cover.  The bootstrap package is here its version *)
(* number; how its files survive a crash is the subject of Bootstrap.      *)
(*                                                                         *)
(* Time is counted in units of at least one second, the resolution of an   *)
(* HTTP date; 0 is Go's zero time.  Two snapshots are never published in   *)
(* the same unit (Due), and the clock does not step back.                  *)
(***************************************************************************)
EXTENDS Naturals, FiniteSetsExt

CONSTANTS
    Sources,    \* the sources any configuration names
    Archs,      \* suite.architectures
    PackageOf,  \* the Package field of a source's .deb
    ArchsOf,    \* the Architecture values the releases of a source may carry
    Broken,     \* sources whose probe or fetch always fails
    Tokenless,  \* sources whose probe answers without a token
    Restless,   \* sources whose vendor also replaces the .deb of a version, or
                \* moves a token without touching the bytes
    Configs,    \* the configurations: [enabled, inputs, label]
    Initial,    \* those of them the first start may find
    Retention,  \* carry-over time of by-hash and pool entries
    Interval,   \* refresh.interval, without the jitter
    Timed,      \* FALSE stops the clock and lifts Due, for liveness
    MaxTime,    \* bound on the clock
    MaxBytes,   \* bound on the .debs of a source
    MaxToken,   \* bound on the tokens that move by themselves
    MaxCrashes, \* bound on the crashes
    MaxReloads, \* bound on the reloads
    None

All == "all"
NoToken == 0

ASSUME RefreshAssumption ==
    /\ \A s \in Sources : ArchsOf[s] # {}
    /\ Broken \subseteq Sources /\ Tokenless \subseteq Sources /\ Restless \subseteq Sources
    /\ All \notin Archs /\ Archs # {}
    /\ "bootstrap" \notin Sources /\ \A s \in Sources : PackageOf[s] # "bootstrap"
    /\ Initial \subseteq Configs /\ \A c \in Configs : c.enabled \subseteq Sources
    /\ Interval \in Nat \ {0}
    /\ {MaxTime, MaxBytes} \subseteq Nat \ {0}
    /\ {Retention, MaxToken, MaxCrashes, MaxReloads} \subseteq Nat
    /\ Timed \in BOOLEAN

VARIABLES
    now,       \* the clock
    upstream,  \* the latest release of each source, at its vendor
    moved,     \* history: the sources whose vendor has shown another token than
               \* the recorded one, or none, since the last publication
    disk,      \* state/sources/<s>.json: [rel, changed], or None
    boot,      \* bootstrap.json: [inputs, ver, changed], or None
    cfg,       \* the configuration of the running generation
    pc,        \* "down", "exited", "import", "refresh", "tick" or "idle"
    first,     \* the process is still before its listener and its loop
    todo,      \* sources the import or the sweep has not finished
    snap,      \* the snapshot in the holder, or None
    lastPub,   \* when a snapshot was last published
    crashes,   \* crashes so far
    reloads,   \* reloads so far
    copy,      \* copy[a]: a client's Packages of a, [data, lm], or None
    relcopy    \* a client's Release, [data, label, lm, until], or None

server == <<disk, boot, cfg, pc, first, todo, snap, lastPub, crashes, reloads>>
client == <<copy, relcopy>>
vars == <<now, upstream, moved, server, client>>

-----------------------------------------------------------------------------
(* What composeSnapshot makes of the state on disk.                        *)

\* Fault: what the probe saw is listed, written or not.
StanzaProbed(s) == [src |-> s, pkg |-> PackageOf[s], ver |-> upstream[s].ver,
                    arch |-> disk[s].rel.arch, bytes |-> upstream[s].bytes]

\* The stanza of a source; its SHA256 stands for the bytes.
Stanza(s) == [src |-> s, pkg |-> PackageOf[s], ver |-> disk[s].rel.ver,
              arch |-> disk[s].rel.arch, bytes |-> disk[s].rel.bytes]
BootStanza(b) == [src |-> "bootstrap", pkg |-> "bootstrap", ver |-> b.ver, arch |-> All,
                  bytes |-> b.ver]

\* The pool path of a package and what the handler redirects it to: the URL of
\* the asset of that source and version, whatever bytes its vendor has there.
PoolPath(e) == [pkg |-> e.pkg, ver |-> e.ver, arch |-> e.arch]
Served(e) == [src |-> e.src, ver |-> e.ver]

\* Every state file is composed, whether or not its source is still enabled.
Recorded == {s \in Sources : disk[s] # None}
Stanzas == {Stanza(s) : s \in Recorded}

\* No foreign architecture, no package provided by two sources.
StrictChecks ==
    /\ \A e \in Stanzas : e.arch \in Archs \cup {All}
    /\ \A e, f \in Stanzas : PoolPath(e) = PoolPath(f) => e = f

\* The stanzas of binary-<a>/Packages.
Packages(a, b) == {e \in Stanzas \cup {BootStanza(b)} : e.arch \in {a, All}}

\* Fault: the rebuild of the bootstrap package is not folded in.
PackagesLMSources(a, b) ==
    LET own == {s \in Recorded : disk[s].rel.arch = a}
    IN IF own = {} THEN 0 ELSE Max({disk[s].changed : s \in own})

\* Last-Modified of binary-<a>/Packages: the latest change of a source of
\* exactly this architecture, or of the bootstrap; none without such a source.
PackagesLM(a, b) ==
    LET own == {s \in Recorded : disk[s].rel.arch = a}
    IN IF own = {} THEN 0
       ELSE Max({disk[s].changed : s \in own} \cup {b.changed})

\* Fault: the suite follows the bootstrap package only.
SuiteLMBoot(b) == b.changed

\* Last-Modified of Release, Release.gpg and InRelease.
SuiteLM(b) == Max({disk[s].changed : s \in Recorded} \cup {b.changed})

\* Fault: what the previous snapshot carried is forgotten.
CarryOverNothing(fresh, old) == fresh

\* Fault: an entry is dropped one unit before it expires.
CarryOverEarly(fresh, old) ==
    LET kept == {k \in DOMAIN old \ DOMAIN fresh : old[k].exp > now + 1}
    IN [k \in DOMAIN fresh \cup kept |->
          IF k \in DOMAIN fresh THEN fresh[k] ELSE old[k]]

\* Entries of the previous snapshot that are not expired and not replaced.
CarryOver(fresh, old) ==
    LET kept == {k \in DOMAIN old \ DOMAIN fresh : old[k].exp > now}
    IN [k \in DOMAIN fresh \cup kept |->
          IF k \in DOMAIN fresh THEN fresh[k] ELSE old[k]]

Empty == [k \in {} |-> None]

\* The snapshot of the state on disk and the bootstrap package b.
Compose(b) ==
    LET listed == [a \in Archs |-> Packages(a, b)]
        stanzas == Stanzas \cup {BootStanza(b)}
        byhash == [k \in {[arch |-> a, data |-> listed[a]] : a \in Archs} |->
                     [exp |-> now + Retention]]
        pool == [p \in {PoolPath(e) : e \in stanzas} |->
                   [file |-> Served(CHOOSE e \in stanzas : PoolPath(e) = p),
                    exp |-> now + Retention]]
    IN [built   |-> now,
        pkgs    |-> [a \in Archs |-> [data |-> listed[a], lm |-> PackagesLM(a, b)]],
        release |-> [data |-> listed, label |-> cfg.label, lm |-> SuiteLM(b)],
        byhash  |-> CarryOver(byhash, IF snap = None THEN Empty ELSE snap.byhash),
        pool    |-> CarryOver(pool, IF snap = None THEN Empty ELSE snap.pool)]

\* Fault: a reused package is stamped anew.
EnsureBootstrapRestamps ==
    [inputs |-> cfg.inputs, changed |-> now,
     ver |-> IF boot = None THEN 1
             ELSE IF boot.inputs = cfg.inputs THEN boot.ver ELSE boot.ver + 1]

\* ensureBootstrap: rebuilt under the next version when the inputs differ.
EnsureBootstrap ==
    IF boot # None /\ boot.inputs = cfg.inputs THEN boot
    ELSE [inputs |-> cfg.inputs, changed |-> now,
          ver |-> IF boot = None THEN 1 ELSE boot.ver + 1]

-----------------------------------------------------------------------------
Init ==
    /\ now = 1
    /\ \E a \in [Sources -> UNION {ArchsOf[s] : s \in Sources}] :
         /\ \A s \in Sources : a[s] \in ArchsOf[s]
         /\ upstream = [s \in Sources |-> [bytes |-> 1, ver |-> 1, arch |-> a[s],
                                           token |-> IF s \in Tokenless THEN NoToken ELSE 1]]
    /\ moved = Sources
    /\ disk = [s \in Sources |-> None]
    /\ boot = None
    /\ cfg \in Initial
    /\ pc = "down"
    /\ first = TRUE
    /\ todo = {}
    /\ snap = None
    /\ lastPub = 0
    /\ crashes = 0
    /\ reloads = 0
    /\ copy = [a \in Archs |-> None]
    /\ relcopy = None

Due == Timed => now > lastPub

\* SyncImportNew: the enabled sources that have no state file.
Missing(c) == {s \in c.enabled : disk[s] = None}

\* The process starts: the import, before the first refresh and the listener.
Start ==
    /\ pc \in {"down", "exited"}
    /\ Due
    /\ pc' = "import"
    /\ first' = TRUE
    /\ todo' = Missing(cfg)
    /\ UNCHANGED <<now, upstream, moved, disk, boot, cfg, snap, lastPub, crashes, reloads,
                   client>>

\* SIGHUP: the old loop has drained (pc is idle), the new generation imports.
Reload ==
    /\ pc = "idle"
    /\ Due
    /\ \E c \in Configs \ {cfg} : cfg' = c /\ todo' = Missing(c)
    /\ reloads < MaxReloads
    /\ reloads' = reloads + 1
    /\ pc' = "import"
    /\ UNCHANGED <<now, upstream, moved, disk, boot, first, snap, lastPub, crashes, client>>

\* The import is over, the refresh that follows it starts.
ImportDone ==
    /\ pc = "import"
    /\ todo = {}
    /\ pc' = "refresh"
    /\ todo' = cfg.enabled
    /\ UNCHANGED <<now, upstream, moved, disk, boot, cfg, first, snap, lastPub, crashes, reloads,
                   client>>

\* The loop's timer fires.
TickStart ==
    /\ pc = "idle"
    /\ Timed => now >= lastPub + Interval
    /\ pc' = "tick"
    /\ todo' = cfg.enabled
    /\ UNCHANGED <<now, upstream, moved, disk, boot, cfg, first, snap, lastPub, crashes, reloads,
                   client>>

\* The probe answers with the token on record.  No token matches none.
Current(s) == /\ disk[s] # None
              /\ upstream[s].token # NoToken
              /\ disk[s].rel.token = upstream[s].token

Busy == pc \in {"import", "refresh", "tick"}

\* Probe, fetch, hash, parse or write fails: the prior state file stays.
SourceFails(s) ==
    /\ Busy
    /\ s \in todo
    /\ todo' = todo \ {s}
    /\ UNCHANGED <<now, upstream, moved, disk, boot, cfg, pc, first, snap, lastPub, crashes, reloads,
                   client>>

\* The token is the recorded one: only last_checked moves.
SourceUnchanged(s) ==
    /\ Busy
    /\ s \in todo \ Broken
    /\ Current(s)
    /\ todo' = todo \ {s}
    /\ UNCHANGED <<now, upstream, moved, disk, boot, cfg, pc, first, snap, lastPub, crashes, reloads,
                   client>>

\* Fault: a known source is never fetched again.
SourceUpdatedOnce(s) ==
    /\ Busy
    /\ s \in todo \ Broken
    /\ disk[s] = None
    /\ disk' = [disk EXCEPT ![s] = [rel |-> upstream[s], changed |-> now]]
    /\ todo' = todo \ {s}
    /\ UNCHANGED <<now, upstream, moved, boot, cfg, pc, first, snap, lastPub, crashes, reloads,
                   client>>

\* Fault: last_changed is rounded up to the next unit.
SourceUpdatedRoundsUp(s) ==
    /\ Busy
    /\ s \in todo \ Broken
    /\ ~ Current(s)
    /\ disk' = [disk EXCEPT ![s] = [rel |-> upstream[s], changed |-> now + 1]]
    /\ todo' = todo \ {s}
    /\ UNCHANGED <<now, upstream, moved, boot, cfg, pc, first, snap, lastPub, crashes, reloads,
                   client>>

\* Fetched, hashed, parsed and written.  last_changed moves whether or not the
\* bytes are other than those on record.
SourceUpdated(s) ==
    /\ Busy
    /\ s \in todo \ Broken
    /\ ~ Current(s)
    /\ disk' = [disk EXCEPT ![s] = [rel |-> upstream[s], changed |-> now]]
    /\ todo' = todo \ {s}
    /\ UNCHANGED <<now, upstream, moved, boot, cfg, pc, first, snap, lastPub, crashes, reloads,
                   client>>

\* The loop is cancelled (reload): the sweep is cut short, the tick goes on.
\* The refresh of a new generation does not run under the loop's context.
Cancel ==
    /\ pc = "tick"
    /\ todo # {}
    /\ todo' = {}
    /\ UNCHANGED <<now, upstream, moved, disk, boot, cfg, pc, first, snap, lastPub, crashes, reloads,
                   client>>

\* The tail of a tick: the bootstrap is brought up to date on disk, and the
\* snapshot is composed and published in one store.
Publish ==
    /\ pc \in {"refresh", "tick"}
    /\ todo = {}
    /\ StrictChecks
    /\ boot' = EnsureBootstrap
    /\ snap' = Compose(boot')
    /\ moved' = {s \in Sources : ~ Current(s)}
    /\ lastPub' = now
    /\ pc' = "idle"
    /\ first' = FALSE
    /\ UNCHANGED <<now, upstream, disk, cfg, todo, crashes, reloads, client>>

\* The strict checks fail.  The prior snapshot stays; without one the
\* process exits, because cmdServe treats its initial refresh as fatal.
Rejected ==
    /\ pc \in {"refresh", "tick"}
    /\ todo = {}
    /\ ~ StrictChecks
    /\ boot' = EnsureBootstrap
    /\ pc' = IF first THEN "exited" ELSE "idle"
    /\ UNCHANGED <<now, upstream, moved, disk, cfg, first, todo, snap, lastPub, crashes, reloads,
                   client>>

\* Nothing in memory survives.  No promise about old by-hash entries does.
Crash ==
    /\ pc # "down"
    /\ crashes < MaxCrashes
    /\ crashes' = crashes + 1
    /\ pc' = "down"
    /\ todo' = {}
    /\ snap' = None
    /\ relcopy' = IF relcopy = None THEN None ELSE [relcopy EXCEPT !.until = 0]
    /\ UNCHANGED <<now, upstream, moved, disk, boot, cfg, first, lastPub, reloads, copy>>

-----------------------------------------------------------------------------
(* The vendors, the clock and an apt client.                               *)

\* A vendor publishes other bytes, under the next version or the same one.
Republishes(s) == IF s \in Restless THEN {0, 1} ELSE {1}
Releases ==
    /\ \E s \in Sources : \E a \in ArchsOf[s] : \E more \in Republishes(s) :
         /\ upstream[s].bytes < MaxBytes
         /\ upstream' = [upstream EXCEPT ![s] =
              [bytes |-> @.bytes + 1, ver |-> @.ver + more, arch |-> a,
               token |-> IF s \in Tokenless THEN NoToken ELSE @.token + 1]]
         /\ moved' = moved \cup {s}
    /\ UNCHANGED <<now, server, client>>

\* The same bytes under another token: a copied, re-dated or re-tagged asset.
Retokens ==
    /\ \E s \in Restless \ Tokenless :
         /\ upstream[s].token < MaxToken
         /\ upstream' = [upstream EXCEPT ![s].token = @ + 1]
         /\ moved' = moved \cup {s}
    /\ UNCHANGED <<now, server, client>>

TimePasses ==
    /\ Timed
    /\ now < MaxTime
    /\ now' = now + 1
    /\ UNCHANGED <<upstream, moved, server, client>>

\* The handler answers 304 to If-Modified-Since: ims.
NotModified(lm, ims) == lm # 0 /\ ims # 0 /\ lm <= ims

\* The listener is up once the first snapshot is in place.
Listening == snap # None

\* A client revalidates its Packages at the canonical path.
GetPackages(a) ==
    /\ Listening
    /\ ~ (copy[a] # None /\ NotModified(snap.pkgs[a].lm, copy[a].lm))
    /\ copy' = [copy EXCEPT ![a] = snap.pkgs[a]]
    /\ UNCHANGED <<now, upstream, moved, server, relcopy>>

\* A client revalidates its InRelease; the by-hash entries and pool paths it
\* names are promised for Retention after the snapshot it comes from.
GetRelease ==
    /\ Listening
    /\ ~ (relcopy # None /\ NotModified(snap.release.lm, relcopy.lm))
    /\ relcopy' = [data |-> snap.release.data, label |-> snap.release.label,
                   lm |-> snap.release.lm, until |-> snap.built + Retention]
    /\ UNCHANGED <<now, upstream, moved, server, copy>>

Next ==
    \/ Start \/ Reload \/ ImportDone \/ TickStart
    \/ \E s \in Sources : SourceFails(s) \/ SourceUnchanged(s) \/ SourceUpdated(s)
    \/ Cancel \/ Publish \/ Rejected \/ Crash
    \/ Releases \/ Retokens \/ TimePasses
    \/ \E a \in Archs : GetPackages(a)
    \/ GetRelease

Spec == Init /\ [][Next]_vars

\* The process is restarted by its supervisor, timers fire, running ticks end,
\* and a source that is asked again and again is not failing every time.
Fairness ==
    /\ WF_vars(Start) /\ WF_vars(ImportDone) /\ WF_vars(TickStart)
    /\ WF_vars(Publish) /\ WF_vars(Rejected)
    /\ \A s \in Sources :
         /\ WF_vars(SourceFails(s) \/ SourceUnchanged(s) \/ SourceUpdated(s))
         /\ SF_vars(SourceUpdated(s))

LiveSpec == Spec /\ Fairness

-----------------------------------------------------------------------------
Times == 0..MaxTime
SrcRelease == [bytes : 1..MaxBytes, ver : Nat, arch : UNION {ArchsOf[s] : s \in Sources},
               token : Nat]

\* Every variable ranges over the states the daemon and its client can be in.
TypeOK ==
    /\ now \in Times /\ lastPub \in Times
    /\ upstream \in [Sources -> SrcRelease]
    /\ moved \subseteq Sources
    /\ disk \in [Sources -> {None} \cup [rel : SrcRelease, changed : Times]]
    /\ boot = None \/ boot.changed \in Times
    /\ cfg \in Configs
    /\ pc \in {"down", "exited", "import", "refresh", "tick", "idle"}
    /\ first \in BOOLEAN
    /\ todo \subseteq Sources
    /\ snap # None => snap.built \in Times /\ DOMAIN snap.pkgs = Archs

\* A 304 is truthful: the Packages a client keeps because of it has the
\* contents the snapshot serves at that path.
NoStalePackages ==
    \A a \in Archs :
        snap # None /\ copy[a] # None /\ NotModified(snap.pkgs[a].lm, copy[a].lm)
            => copy[a].data = snap.pkgs[a].data

\* The same for what InRelease lists: a client that keeps its InRelease because
\* of a 304 keeps the hashes of the Packages files now served.  The rest of
\* the file, Origin, Label and Description, is not promised: see NoStaleLabel.
NoStaleListing ==
    snap # None /\ relcopy # None /\ NotModified(snap.release.lm, relcopy.lm)
        => relcopy.data = snap.release.data

\* While the process lives, a client that read InRelease finds every Packages
\* it lists under its hash until Retention after that snapshot was built,
\* however many ticks and reloads come between.
ByHashWindow ==
    relcopy # None /\ now < relcopy.until =>
        \A a \in Archs :
            [arch |-> a, data |-> relcopy.data[a]] \in DOMAIN snap.byhash

\* In the same window every pool path those Packages name leads to the asset
\* of the source and version they describe.
PoolWindow ==
    relcopy # None /\ now < relcopy.until =>
        \A a \in Archs : \A e \in relcopy.data[a] :
            /\ PoolPath(e) \in DOMAIN snap.pool
            /\ snap.pool[PoolPath(e)].file = Served(e)

\* Whatever was served is on disk, those bytes or later ones of the source, so
\* a restarted daemon never goes back to an older release of a source.
ServedIsDurable ==
    snap # None => \A a \in Archs : \A e \in snap.pkgs[a].data :
        e.src \in Sources => disk[e.src] # None /\ disk[e.src].rel.bytes >= e.bytes

\* Last-Modified rests when the vendors do: a tick, reload or reuse of the
\* bootstrap package that leaves a file as it is, with no token moved of a
\* source in it, leaves its Last-Modified alone.
Rests(data) == \A e \in data : e.src \notin moved
HitWhenVendorsRest ==
    [][snap # None /\ snap' # None =>
         /\ \A a \in Archs :
              snap'.pkgs[a].data = snap.pkgs[a].data /\ Rests(snap.pkgs[a].data)
                => snap'.pkgs[a].lm = snap.pkgs[a].lm
         /\ snap'.release.data = snap.release.data
                /\ (\A a \in Archs : Rests(snap.release.data[a]))
              => snap'.release.lm = snap.release.lm]_vars

-----------------------------------------------------------------------------
(* Three promises of comments and documents that the daemon does not keep. *)

\* The label a client keeps because of a 304 is the one served.  A reload that
\* edits only the label moves no Last-Modified.
NoStaleLabel ==
    snap # None /\ relcopy # None /\ NotModified(snap.release.lm, relcopy.lm)
        => relcopy.label = snap.release.label

\* Last-Modified moves with contents only.  It also moves with a token that
\* changed under the same bytes, and on every tick without a token.
HitWhenUnchanged ==
    [][snap # None /\ snap' # None =>
         \A a \in Archs : snap'.pkgs[a].data = snap.pkgs[a].data
                             => snap'.pkgs[a].lm = snap.pkgs[a].lm]_vars

\* No source's metadata makes the process give up.
SourcesNeverFatal == pc = "exited" => StrictChecks

-----------------------------------------------------------------------------
\* A source that can be fetched ends up served at its latest release, even
\* when other sources fail for ever.
Listed(s) == \E a \in Archs : \E e \in snap.pkgs[a].data :
                 e.src = s /\ e.bytes = upstream[s].bytes
HealthySourcesServed ==
    \A s \in Sources \ Broken :
        <>[](s \in cfg.enabled) => <>[](snap # None /\ Listed(s))
=============================================================================
