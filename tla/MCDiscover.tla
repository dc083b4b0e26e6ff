------------------------------ MODULE MCDiscover ------------------------------
(* Instances of the discovers for TLC.                                       *)
EXTENDS DiscoverTools, TLC

CONSTANTS bin1, bin2, bin3, old, new, typo, k1, k2

ToDigits == {"1", "2", "3", "19", "20", "21"}
Limits == [bytes |-> 4, files |-> 3]

-----------------------------------------------------------------------------
(* Vendors.                                                                *)

Asset(stem, version, sha) == [name |-> <<stem, version>>, sha |-> sha]

Rel(tag, date, pre, draft, assets) ==
    [tag |-> tag, date |-> date, pre |-> pre, draft |-> draft, assets |-> assets]

R1 == Rel(<<"v", "1">>, <<"19">>, FALSE, FALSE,
          <<Asset("amd64", <<"1">>, bin1), Asset("arm64", <<"1">>, bin2)>>)

\* Not every architecture is uploaded, and one file has no digest.
R2 == Rel(<<"v", "2">>, <<"20">>, FALSE, FALSE, <<Asset("amd64", <<"2">>, Nil)>>)
R3 == Rel(<<"3">>, <<"21">>, TRUE, FALSE,
          <<Asset("amd64", <<"3">>, bin3), Asset("arm64", <<"3">>, bin3)>>)
Draft == Rel(<<"v", "3">>, <<"21">>, FALSE, TRUE, <<>>)

Url(name, http) == [name |-> name, http |-> http]
Doc(version, link) == [version |-> version, links |-> [latest |-> link]]

Reply(version, amd, arm) ==
    [version |-> version, assets |->
        <<[arch |-> "amd64", url |-> Url(<<"app", version>>, TRUE), sha |-> amd, malformed |-> FALSE],
          [arch |-> "arm64", url |-> Url(<<"app", <<"1">>>>, TRUE), sha |-> arm, malformed |-> FALSE]>>]

Answers ==
    <<"forge">> :> {<<R1>>, <<R2, R1>>, <<Draft, R3, R2>>}
    @@ <<"json">> :> {Doc(<<"r", "1">>, Url(<<"one", <<"1">>>>, TRUE)),
                      Doc(<<"r", "2">>, Url(<<"one", <<"1">>>>, TRUE)),
                      Doc(<<"r", "2">>, Url(<<"app", <<"2">>>>, TRUE)),
                      Doc(<<"2">>, Url(<<"one", <<"1">>>>, FALSE))}
    @@ <<"script">> :> {Reply(<<"1">>, bin1, Nil), Reply(<<"2">>, bin2, bin2)}
    @@ <<"key", "b">> :> {[key |-> k1], [key |-> k2]}
    @@ <<"key">> :> {[key |-> k1], [key |-> k2], [key |-> Nil]}

\* A script of the first package is a template, which may fail to render, or a
\* file; the other file is deleted and restored.
Files == <<"p", FALSE>> :> {Nil, old} @@ <<"p", TRUE>> :> {new, typo} @@ <<"q", FALSE>> :> {old, new, Nil}
         @@ <<"q", TRUE>> :> {Nil}

-----------------------------------------------------------------------------
(* Recipes.                                                                *)

Src(kind, paths) == [kind |-> kind, paths |-> paths]
D(name, srcs, subs) == [name |-> name, srcs |-> srcs, subs |-> subs]

Arch(assets, urls) == [assets |-> assets, urls |-> urls, vars |-> [TRIPLE |-> "x"]]

\* Two packages of two architectures from a forge.
Forged ==
    [path |-> "recipe", fields |-> TRUE, sources |-> {"github"}, url |-> <<"forge">>,
     release |-> Nil, pre |-> FALSE, archive |-> FALSE, strip |-> Nil,
     from |-> "tag_strip_v", regex |-> Nil, template |-> Nil, extract |-> Nil,
     archNames |-> <<"amd64", "arm64">>,
     arches |-> [n \in {"amd64", "arm64"} |-> Arch(<<<<n, VERSION>>>>, <<>>)],
     docs |-> <<D("a", {Src("file", {"p"}), Src("variable", {})}, {"VERSION", "ARCH_GNU"}),
                D("b", {Src("glob", {"q"})}, {"VERSION", "TRIPLE", "ASSETS"})>>]

Latest == [latest |-> TRUE, pattern |-> Nil, tag |-> Nil]
Pattern == [latest |-> Nil, pattern |-> {<<"v", "2">>, <<"v", "3">>}, tag |-> Nil]
Tag == [latest |-> Nil, pattern |-> Nil, tag |-> <<"v", "1">>]
NoRelease == [latest |-> Nil, pattern |-> Nil, tag |-> Nil]
Both == [latest |-> TRUE, pattern |-> Nil, tag |-> <<"v", "1">>]

\* One document and one architecture, of all ways to select a version.
Small == [Forged EXCEPT !.docs = <<D("a", {}, {})>>, !.archNames = <<"amd64">>,
             !.arches = [n \in {"amd64"} |-> Arch(<<<<n, VERSION>>>>, <<>>)]]

Regexes == {Nil, [stem |-> "arm64", group |-> TRUE, named |-> "tag"],
            [stem |-> "amd64", group |-> FALSE, named |-> Nil]}

Selections ==
    {[Small EXCEPT !.release = w, !.pre = w \in {Nil, Pattern}, !.from = f, !.template = t, !.regex = x] :
        w \in {Nil, Tag, Pattern, NoRelease, Both},
        f \in {"", "tag", "tag_strip_v", "asset_filename", "fixed"},
        t \in {Nil, <<"tag_strip_v", "date">>, <<"tga">>}, x \in Regexes}

\* Extraction limits at and past their bounds.
Limited == {[Small EXCEPT !.extract = e, !.sources = {"gitea"}, !.archive = TRUE] :
    e \in [bytes : {Nil, 0, 4, 5}, files : {0, 3, 4}]}

\* A document without digests, one package without its version in the document,
\* and one of unknown architecture, and of unknown variables.
T(name, link) == [name |-> name, http |-> TRUE, link |-> link]

Listed(kind) ==
    [Forged EXCEPT !.sources = {kind}, !.url = <<"json">>, !.from = "", !.strip = "r",
        !.archNames = <<"amd64", "riscv">>,
        !.arches = [n \in {"amd64", "riscv"} |->
            Arch(<<>>, IF n = "amd64" THEN <<T(<<"one", <<"1">>>>, "latest"), T(<<"app", VERSION>>, Nil)>>
                       ELSE <<T(<<"app", VERSION>>, Nil)>>)],
        !.docs = <<D("a", {}, {}), D("b", {}, {"ARCH_GNU"}), D("c", {Src("dir", {"q"})}, {"TYPO"})>>]

Scripted ==
    [Forged EXCEPT !.sources = {"external"}, !.url = <<"script">>, !.from = "",
        !.arches = [n \in {"amd64", "arm64"} |->
            Arch(<<>>, IF n = "arm64" THEN <<T(<<"app", VERSION>>, Nil)>> ELSE <<>>)],
        !.docs = <<D("a", {}, {}), D("b", {Src("dir", {"p"})}, {})>>]

Cooper(units, filter) ==
    [tool |-> "cooper", units |-> units, filter |-> filter,
     urls |-> {units[i].url : i \in DOMAIN units},
     files |-> IF units[1].docs[1].srcs = {} /\ Len(units[1].docs) = 1 THEN {} ELSE DOMAIN Files]

-----------------------------------------------------------------------------
(* Directories, and targets.                                               *)

Directory(path, srcs, version) ==
    [path |-> path, name |-> path, fields |-> TRUE, version |-> version, arch |-> "all", srcs |-> srcs]

Staves(filter) ==
    [tool |-> "staves", filter |-> filter, urls |-> {}, files |-> DOMAIN Files, units |->
        <<Directory("x", {Src("file", {"p"}), Src("glob", {"q"})}, <<"1">>),
          Directory("y", {Src("variable", {})}, <<"1">>), Directory("z", {}, <<"v">>)>>]

ATarget(distro, codename) == [path |-> <<distro, codename>>, Distro |-> distro, Codename |-> codename]
Text(text, names) == [text |-> text, vars |-> names]

Chandler(name, targets, key) ==
    [tool |-> "chandler", filter |-> Nil, files |-> {},
     urls |-> IF key.vars = <<>> THEN {<<"key">>} ELSE {<<"key", "b">>}, fields |-> TRUE, name |-> name, version |-> <<"1">>,
     units |-> targets, keyOrder |-> <<"k">>,
     keys |-> [s \in {"k"} |-> IF key.vars = <<>> THEN <<key, key>> ELSE <<key>>],
     sources |-> <<[id |-> "s", key |-> "k", suite |-> Text("", <<>>), flat |-> TRUE,
                    components |-> <<>>]>>,
     depends |-> <<"gpg", "apt">>, update |-> TRUE]

Targets == <<ATarget("debian", "b"), ATarget("debian", "c"), ATarget("ubuntu", "b")>>

Chandlers ==
    {Chandler(Text("n", v), Targets, Text("key", <<>>)) :
        v \in {<<>>, <<"Distro">>, <<"Distro", "Codename">>, <<"Suite">>}}
    \cup {Chandler(Text("n", <<>>), <<ATarget("", "")>>, Text("key", v)) : v \in {<<>>, <<"Codename">>}}
    \cup {Chandler(Text("n", <<>>), <<ATarget("debian", "b")>>, Text("key", <<v>>)) :
              v \in {"Codename", "Suite"}}

MCConfigs ==
    {Cooper(<<r>>, Nil) : r \in {Forged, Scripted, Listed("json_url"), Listed("xml_url")}
                                   \cup Selections \cup Limited}
    \cup {Cooper(<<Small, [Small EXCEPT !.path = "other"]>>, Nil), Cooper(<<Small, Small>>, Nil)}
    \cup {Staves(Nil), Staves({"x"})} \cup Chandlers

===============================================================================
