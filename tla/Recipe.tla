-------------------------------- MODULE Recipe --------------------------------
(***************************************************************************)
(* What cooper's discovery computes from a recipe, an answer of a vendor   *)
(* and the files beside the recipe: validation (config), the release and   *)
(* its assets (source), the version (version) and the build plan (stage).  *)
(*                                                                         *)
(* A version or a tag is the sequence of its tokens.  A release asset is   *)
(* named <<stem, version>>; a selector has VERSION in place of a version   *)
(* that is substituted.  A URL is [name, http], its last segment and       *)
(* whether its scheme is http(s).  A file beside a recipe is <<path,       *)
(* tmpl>>: path, or path.tmpl.  A result is Ok of a value or an Err.       *)
(***************************************************************************)
EXTENDS Plan, Naturals, FiniteSets, SequencesExt

CONSTANTS
    VERSION,     \* stands for ${VERSION} in a selector or a URL
    Digits,      \* tokens that start with a digit
    Foreign,     \* tokens that no Debian version has
    GnuArches,   \* the architectures with a GNU name
    PageSize,    \* releases on the one page that is listed
    Unrendered,  \* contents that are no template, or name an unknown field
    Highest      \* the highest extraction limits, [bytes, files]

ASSUME RecipeAssumption == PageSize \in Nat /\ Highest \in [bytes : Nat, files : Nat]

Ok(v) == [err |-> "", val |-> v]
Err(kind) == [err |-> kind, val |-> Nil]
Distinct(s) == Cardinality({s[i] : i \in DOMAIN s}) = Len(s)

-----------------------------------------------------------------------------
(* Validation of a recipe.                                                 *)

Kinds == {"github", "gitea", "json_url", "xml_url", "external"}
Forge(r) == r.sources \cap {"github", "gitea"} # {}

\* One of latest, pattern and tag; latest is TRUE or Nil.
validateRelease(rel) ==
    Cardinality({f \in {"latest", "pattern", "tag"} : rel[f] # Nil}) = 1

\* No release is the latest one.
ReleaseOf(r) == IF r.release = Nil
                THEN [latest |-> TRUE, pattern |-> Nil, tag |-> Nil] ELSE r.release

\* The fields that are only looked at one by one are right, or they are not.
validateSource(r) ==
    /\ r.sources \subseteq Kinds /\ Cardinality(r.sources) = 1 /\ r.fields
    /\ Forge(r) => validateRelease(ReleaseOf(r))

\* Fault: a fixed version needs no template.
validateVersionLoose(r) ==
    IF Forge(r)
    THEN r.from \in {"tag", "tag_strip_v", "asset_filename", "fixed"}
         /\ (r.regex # Nil <=> r.from = "asset_filename")
    ELSE r.from = "" /\ r.regex = Nil /\ r.template = Nil

validateVersionSelection(r) ==
    IF Forge(r)
    THEN /\ r.from \in {"tag", "tag_strip_v", "asset_filename", "fixed"}
         /\ r.regex # Nil <=> r.from = "asset_filename"
         /\ r.from = "fixed" => r.template # Nil
    ELSE r.from = "" /\ r.regex = Nil /\ r.template = Nil

Reserved == {"VERSION", "ARCH", "ARCH_GNU", "ASSETS", "SOURCE"}

validateArches(r) ==
    /\ r.archNames # <<>>
    /\ \A a \in {r.arches[n] : n \in DOMAIN r.arches} :
          /\ DOMAIN a.vars \cap Reserved = {}
          /\ Distinct(a.assets) /\ Distinct(a.urls)
          /\ IF Forge(r) THEN a.urls = <<>> /\ (a.assets = <<>> => r.archive)
             ELSE a.assets = <<>> /\ (a.urls = <<>> => r.sources = {"external"})

\* Bytes are Nil, and files 0, when they are not set.
validateExtract(e) == e # Nil =>
    /\ e.bytes # Nil \/ e.files # 0
    /\ e.bytes # Nil => e.bytes \in 1..Highest.bytes
    /\ e.files \in 0..Highest.files

Valid(r) ==
    /\ validateSource(r) /\ validateVersionSelection(r)
    /\ validateArches(r) /\ validateExtract(r.extract)

\* A recipe that loads: one package per document, named apart.
LoadPackage(r) == Valid(r) /\ r.docs # <<>> /\ Distinct([i \in DOMAIN r.docs |-> r.docs[i].name])

-----------------------------------------------------------------------------
(* The release of a forge.  Vendors list the newest first.                 *)

First(rels) == IF rels = <<>> THEN Err("discovery") ELSE Ok(Head(rels))

Page(rels) == SubSeq(rels, 1, IF Len(rels) < PageSize THEN Len(rels) ELSE PageSize)

ResolveRelease(r, rels) ==
    LET w == ReleaseOf(r)
        Matching(x) == /\ ~x.draft /\ (r.pre \/ ~x.pre)
                       /\ w.pattern # Nil => x.tag \in w.pattern
    IN CASE w.tag # Nil -> First(SelectSeq(rels, LAMBDA x : ~x.draft /\ x.tag = w.tag))
         [] w.tag = Nil /\ w.latest # Nil /\ ~r.pre -> First(SelectSeq(rels, LAMBDA x : ~x.draft /\ ~x.pre))
         [] w.tag = Nil /\ (IF w.latest # Nil THEN r.pre ELSE w.pattern # Nil) ->
                First(SelectSeq(Page(rels), Matching))
         [] OTHER -> Err("bug")

\* ${VERSION} and nothing else.
Subst(name, version) == <<name[1], IF name[2] = VERSION THEN version ELSE name[2]>>

\* Every selector names one asset, and none the same one.
MatchAssets(rel, selectors, version) ==
    LET Named(i) == SelectSeq(rel.assets, LAMBDA a : a.name = Subst(selectors[i], version))
        found == [i \in DOMAIN selectors |-> Named(i)]
    IN IF /\ \A i \in DOMAIN found : Len(found[i]) = 1
          /\ Distinct([i \in DOMAIN found |-> found[i][1].name])
       THEN Ok([i \in DOMAIN found |-> found[i][1]])
       ELSE Err("discovery")

-----------------------------------------------------------------------------
(* The version.                                                            *)

MatchesDebianGrammar(v) ==
    v # <<>> /\ Head(v) \in Digits /\ \A i \in DOMAIN v : v[i] \notin Foreign

StripPrefix(v, p) == IF v # <<>> /\ Head(v) = p THEN Tail(v) ELSE v

\* Every name of the template has a value.
applyCurly(template, subs) ==
    IF \A i \in DOMAIN template : template[i] \in DOMAIN subs
    THEN Ok(FlattenSeq([i \in DOMAIN template |-> subs[template[i]]]))
    ELSE Err("version")

\* The captures of the first asset that the expression matches; one without a
\* group captures nothing.
Captured(r, rel) ==
    LET t == SelectSeq(rel.assets, LAMBDA a : a.name[1] = r.regex.stem)
    IN IF t = <<>> THEN Err("version")
       ELSE Ok(IF r.regex.group THEN Head(t).name[2] ELSE <<>>)

Substitutions(r, rel, capture) ==
    LET known == [tag |-> rel.tag, tag_strip_v |-> StripPrefix(rel.tag, "v"), date |-> rel.date]
    IN IF r.regex # Nil /\ r.regex.group /\ r.regex.named # Nil
       THEN [n \in DOMAIN known \cup {r.regex.named} |->
                IF n = r.regex.named THEN capture ELSE known[n]]
       ELSE known

Chosen(r, subs, capture) ==
    CASE r.template # Nil -> applyCurly(r.template, subs)
      [] r.template = Nil /\ r.from \in {"tag", "tag_strip_v"} -> Ok(subs[r.from])
      [] r.template = Nil /\ r.from = "asset_filename" ->
             IF capture = <<>> THEN Err("version") ELSE Ok(capture)
      [] OTHER -> Err("bug")

Assemble(r, rel) ==
    LET c == IF r.from = "asset_filename" THEN Captured(r, rel) ELSE Ok(<<>>)
        v == Chosen(r, Substitutions(r, rel, c.val), c.val)
    IN IF c.err # "" THEN c
       ELSE IF v.err # "" \/ MatchesDebianGrammar(v.val) THEN v ELSE Err("version")

-----------------------------------------------------------------------------
(* A source without releases: a JSON or XML document, or a script's reply. *)

\* Fault: the epoch is that of the source.
DeriveEpochOfURL(url, version) == <<url>>

DeriveEpoch(url, version) == <<url, version>>

\* version_strip_prefix has to be there, and to leave something.
Stripped(r, v) ==
    IF v = Nil \/ v = <<>> THEN Err("discovery")
    ELSE IF r.strip = Nil THEN Ok(v)
    ELSE IF Head(v) = r.strip /\ Len(v) > 1 THEN Ok(Tail(v))
    ELSE Err("discovery")

\* A template is a URL, VERSION in its name, or a link of the document.
RenderAssetURL(t, version, body) ==
    LET u == IF t.link = Nil THEN [name |-> Subst(t.name, version), http |-> t.http]
             ELSE body.links[t.link]
    IN IF (t.link # Nil /\ t.link \notin DOMAIN body.links) \/ ~u.http
       THEN Err("discovery") ELSE Ok(u)

\* What a download of a URL is called; its digest is not known.
AssetOf(url, sha) == [name |-> url.name, sha |-> sha]

RenderAssetURLs(templates, version, body) ==
    LET us == [i \in DOMAIN templates |-> RenderAssetURL(templates[i], version, body)]
    IN IF (\E i \in DOMAIN us : us[i].err # "") \/ ~Distinct([i \in DOMAIN us |-> us[i].val.name])
       THEN Err("discovery")
       ELSE Ok([i \in DOMAIN us |-> AssetOf(us[i].val, Nil)])

\* A digest is left out, or has the form of one.
ResolveExternal(reply) ==
    /\ reply.version # <<>> /\ reply.assets # <<>>
    /\ Distinct([i \in DOMAIN reply.assets |-> reply.assets[i].arch])
    /\ \A i \in DOMAIN reply.assets : reply.assets[i].url.http /\ ~reply.assets[i].malformed

\* The script answers for the architectures of the recipe.
SameArches(r, reply) ==
    {reply.assets[i].arch : i \in DOMAIN reply.assets} = DOMAIN r.arches

\* The URL of a script is that of the recipe's template, if there is one.
ExternalAsset(t, version, a) ==
    IF t # <<>> /\ [name |-> Subst(t[1].name, version), http |-> t[1].http] # a.url
    THEN Err("discovery") ELSE Ok(<<AssetOf(a.url, a.sha)>>)

-----------------------------------------------------------------------------
(* A whole source: its release or document, and its version.               *)

Resolution(body, version, epoch) == Ok([body |-> body, version |-> version, epoch |-> epoch])

ResolveSource(r, answer) ==
    IF r.sources \cap Kinds = {} THEN Err("bug")
    ELSE IF Forge(r)
    THEN LET rel == ResolveRelease(r, answer)
             v == Assemble(r, rel.val)
         IN IF rel.err # "" THEN rel ELSE IF v.err # "" THEN v
            ELSE Resolution(rel.val, v.val, rel.val.date)
    ELSE IF r.sources = {"external"} /\ ~ResolveExternal(answer) THEN Err("discovery")
    ELSE LET v == Stripped(r, answer.version)
         IN IF v.err # "" THEN v
            ELSE IF ~MatchesDebianGrammar(v.val) THEN Err("version")
            ELSE IF r.sources = {"external"} /\ ~SameArches(r, answer) THEN Err("discovery")
            ELSE Resolution(answer, v.val, DeriveEpoch(r.url, v.val))

\* The files to download; a forge's source archive comes last and has no digest.
AssetsOf(r, arch, res) ==
    LET a == r.arches[arch]
        found == MatchAssets(res.body, a.assets, res.version)
        tarball == [name |-> <<"source", res.body.tag>>, sha |-> Nil]
    IN IF Forge(r)
       THEN IF found.err # "" THEN found
            ELSE Ok([i \in DOMAIN found.val |->
                        [name |-> found.val[i].name,
                         sha |-> IF r.sources = {"gitea"} THEN Nil ELSE found.val[i].sha]]
                    \o IF r.archive THEN <<tarball>> ELSE <<>>)
       ELSE IF r.sources = {"external"}
       THEN ExternalAsset(a.urls, res.version,
                          Head(SelectSeq(res.body.assets, LAMBDA x : x.arch = arch)))
       ELSE RenderAssetURLs(a.urls, res.version, res.body)

\* The document of a package, its ${...} replaced; the names of the build's
\* directories are left.
SubstituteNfpm(doc, arch, version, vars) ==
    LET used == doc.subs \ {"ASSETS", "SOURCE"}
    IN IF "ARCH_GNU" \in used /\ arch \notin GnuArches THEN Err("gnu")
       ELSE IF ~(used \subseteq DOMAIN vars \cup {"VERSION", "ARCH", "ARCH_GNU"})
       THEN Err("unresolved")
       ELSE Ok([doc |-> doc.name, version |-> IF "VERSION" \in used THEN version ELSE Nil,
                arch |-> arch, vars |-> [k \in used \cap DOMAIN vars |-> vars[k]]])

-----------------------------------------------------------------------------
(* Auxiliary files.                                                        *)

\* The files of one src of a document on a disk: a file or its template, never
\* both; a pattern has a match; neither it nor a directory has a template.
resolve(src, disk) ==
    LET found == {f \in src.paths \X BOOLEAN : disk[f] # Nil}
        bad == CASE src.kind = "file" -> Cardinality(found) # 1
                 [] src.kind = "glob" -> found = {} \/ \E f \in found : f[2]
                 [] src.kind = "dir" -> \E f \in found : f[2]
                 [] OTHER -> FALSE
    IN IF bad THEN Err("aux")
       ELSE Ok(IF src.kind \in {"absolute", "variable"} THEN {} ELSE found)

\* All of them, each once.
Walk(doc, disk) ==
    LET rs == {resolve(s, disk) : s \in doc.srcs}
    IN IF \E x \in rs : x.err # "" THEN Err("aux") ELSE Ok(UNION {x.val : x \in rs})

\* They are read again; a template is rendered, or fails to be.
MaterializeAuxFiles(refs, disk, vars) ==
    IF \E f \in refs : disk[f] = Nil \/ (f[2] /\ disk[f] \in Unrendered) THEN Err("aux")
    ELSE Ok([f \in refs |-> [body |-> disk[f], vars |-> IF f[2] THEN vars ELSE Nil]])

===============================================================================
