--------------------------- MODULE ChandlerDiscover ---------------------------
(***************************************************************************)
(* `chandler discover` (internal/chandler/discover): a package with the    *)
(* keys and sources of vendors' repositories, one for each target.  Its    *)
(* keys are fetched, URL by URL, for every target anew.                    *)
(*                                                                         *)
(* A template is [text, vars]: a text and the names of the variables it    *)
(* has.  A unit is a target, [path, Distro, Codename]; the rest is in the  *)
(* configuration.                                                          *)
(***************************************************************************)
EXTENDS Discover

Templated(t) == t.vars # <<>>

Referenced(c) == {c.sources[i].key : i \in DOMAIN c.sources}

\* Every key is used and every key used is one; sources and targets are
\* different; a flat source has no components, and any other has some.
normalize(c) ==
    /\ c.fields
    /\ c.sources # <<>> /\ DOMAIN c.keys = Referenced(c)
    /\ \A k \in DOMAIN c.keys : c.keys[k] # <<>>
    /\ Distinct([i \in DOMAIN c.sources |-> c.sources[i].id])
    /\ Distinct([i \in DOMAIN c.units |-> <<c.units[i].Distro, c.units[i].Codename>>])
    /\ \A i \in DOMAIN c.sources : c.sources[i].flat <=> c.sources[i].components = <<>>

anyTemplated(c) ==
    \/ Templated(c.name)
    \/ \E k \in DOMAIN c.keys : \E i \in DOMAIN c.keys[k] : Templated(c.keys[k][i])
    \/ \E i \in DOMAIN c.sources : Templated(c.sources[i].suite)

\* A configuration without targets has one unit, of no name.
Simple(c) == Len(c.units) = 1 /\ c.units[1].Distro = ""

ValidateMatrix(c) ==
    /\ anyTemplated(c) => ~Simple(c)
    /\ Len(c.units) > 1 => Templated(c.name)

ChandlerBegin ==
    config.tool = "chandler" /\ Begin(normalize(config) /\ ValidateMatrix(config))

\* A name that is not a variable is an error.
expand(t, target) ==
    IF \A i \in DOMAIN t.vars : t.vars[i] \in {"Distro", "Codename"}
    THEN Ok(<<t.text>> \o [i \in DOMAIN t.vars |-> target[t.vars[i]]])
    ELSE Err("discovery")

\* No package of the plan has the name; one in error does not take it.
NotSeen(name) == \A i \in DOMAIN plan : plan[i].result = "ok" => plan[i].name # name

ExpandName ==
    /\ config.tool = "chandler" /\ pc = "load" /\ todo # <<>>
    /\ LET name == expand(config.name, unit) IN
       IF name.err # "" THEN Answer(errPkg(<<config.name.text>>, "discovery"))
       ELSE Continue("keys", [name |-> name.val, key |-> 1, url |-> 1, aux |-> <<>>])

\* The keys in order; keyOrder is theirs.
slug == config.keyOrder[cur.key]
keyURLs == config.keys[slug]

\* The URLs of a key are all expanded before the first is fetched.
BadURL == \E i \in DOMAIN keyURLs : expand(keyURLs[i], unit).err # ""

\* A keyring is the keys of its URLs; armored or not is the same key.
Fetched(answer) ==
    LET got == IF slug \in DOMAIN cur.aux THEN cur.aux[slug] ELSE <<>>
    IN [k \in DOMAIN cur.aux \cup {slug} |->
           IF k = slug THEN Append(got, answer.key) ELSE cur.aux[k]]

FetchURL ==
    /\ pc = "keys" /\ cur.key <= Len(config.keyOrder)
    /\ IF BadURL THEN Answer(errPkg(cur.name, "discovery"))
       ELSE LET answer == net[expand(keyURLs[cur.url], unit).val] IN
            IF answer.key = Nil THEN Answer(errPkg(cur.name, "key"))
            ELSE Continue(pc, IF cur.url < Len(keyURLs)
                              THEN [cur EXCEPT !.url = @ + 1, !.aux = Fetched(answer)]
                              ELSE [cur EXCEPT !.key = @ + 1, !.url = 1, !.aux = Fetched(answer)])

FetchURLFails ==
    /\ pc = "keys" /\ cur.key <= Len(config.keyOrder)
    /\ Answer(errPkg(cur.name, "key"))

Stanza(s) == [suite |-> expand(s.suite, unit).val, components |-> s.components, key |-> s.key]

\* apt comes first, once.
mergeDepends(depends) == <<"apt">> \o SelectSeq(depends, LAMBDA d : d # "apt")

\* What a package of sources depends on, and runs.
BuildNfpm ==
    [doc |-> cur.name, version |-> config.version, arch |-> "all",
     vars |-> [depends |-> mergeDepends(config.depends), update |-> config.update]]

\* Fault: the time of the run.
EpochOfRun(nfpm, aux) == <<runs>>

\* Of all that is in the package, and of the target.
ContentEpoch(nfpm, aux) == <<nfpm, aux, unit.Distro, unit.Codename>>

\* The stanzas are rendered and the package is complete, unless its name is
\* already another target's.
Render ==
    /\ pc = "keys" /\ cur.key > Len(config.keyOrder)
    /\ LET aux == [keys |-> cur.aux,
                   sources |-> [i \in DOMAIN config.sources |-> Stanza(config.sources[i])]]
           bp == [epoch |-> ContentEpoch(BuildNfpm, aux), nfpm |-> BuildNfpm, aux |-> aux]
           art == Artifact(cur.name, config.version, "all", <<>>, Nil, bp, Nil)
       IN IF \E i \in DOMAIN config.sources : expand(config.sources[i].suite, unit).err # ""
          THEN Answer(errPkg(cur.name, "discovery"))
          ELSE IF NotSeen(cur.name) THEN Answer(Package(cur.name, Nil, <<art>>, cur.aux))
          ELSE Answer(errPkg(cur.name, "discovery"))

ChandlerNext ==
    ChandlerBegin \/ ExpandName \/ FetchURL \/ FetchURLFails \/ Render

===============================================================================
