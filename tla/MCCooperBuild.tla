---------------------------- MODULE MCCooperBuild -----------------------------
(* Instances of CooperBuild for TLC.                                        *)
EXTENDS CooperBuild, TLC

CONSTANTS bin1, bin2, zip1, zip2, x1, x2, x3

C(id, n) == [id |-> id, size |-> n]

\* A binary of a release, replaced within the release by one of the same size,
\* and an archive replaced by one with another file.
ServedFiles == [bin |-> {C(bin1, 1), C(bin2, 1)}, zip |-> {C(zip1, 2), C(zip2, 2)}]

E(name, kind, n) == [name |-> name, kind |-> kind, data |-> C(name, n)]

\* zip1 is exactly at both limits, 3 bytes and 3 entries; zip2 has a byte more.
ArchiveEntries ==
    C(bin1, 1) :> <<>> @@ C(bin2, 1) :> <<>>
    @@ C(zip1, 2) :> <<E("h", "pax", 0), E("d", "dir", 0), E(x1, "file", 2), E(x2, "file", 1)>>
    @@ C(zip2, 2) :> <<E(x1, "file", 2), E("l", "link", 0), E(x3, "file", 2)>>

F(url, sha, n, dir) ==
    [url |-> url, name |-> url, sha |-> sha, size |-> n, archive |-> url = "zip", dir |-> dir]

Bp(ver, arch, dashed) ==
    [ver |-> ver, doc |-> arch, aux |-> [asset |-> <<>>, source |-> <<>>, top |-> <<>>],
     epoch |-> 0, dashed |-> dashed, release |-> [rev |-> 0, text |-> FALSE], refused |-> FALSE]

Made(pkg, arch, files, bp) ==
    [pkg |-> pkg, arch |-> arch, assets |-> files, plan |-> bp,
     hash |-> ComputeBuildInputsHash(ArtifactAssetSHAs(files), bp),
     file |-> <<bp.ver>>, path |-> Nil, result |-> "", extract |-> [bytes |-> 0, files |-> 0]]

Art(pkg, arch, ver, files, dashed) == Made(pkg, arch, files, Bp(ver, arch, dashed))

\* A new version ships an archive in place of the binary, with an asset that
\* has no URL; an auxiliary file replaces one of the archive.
Old == Art("p", "amd64", "v1", <<F("bin", C(bin1, 1), 1, "asset")>>, FALSE)
New == Made("p", "amd64", <<F("zip", C(zip1, 2), 2, "asset"),
                            [F("bin", C(bin1, 1), 1, "asset") EXCEPT !.url = Nil]>>,
            [Bp("v2", "amd64", FALSE) EXCEPT !.aux.asset = x2 :> C(x3, 1)])

\* The other architecture, with the source archive, which has no digest.
Src == Art("p", "arm64", "v1", <<F("bin", C(bin1, 1), 1, "asset"),
                                 F("zip", Nil, 0, "source")>>, FALSE)

\* All its files are auxiliary files, as in a plan of staves; its release is a
\* number.
Local == Made("q", "amd64", <<>>,
              [Bp("v1", "amd64", FALSE) EXCEPT !.aux.top = x3 :> C(x3, 1), !.release.rev = 2])

\* Its inputs hash is not that of the artifact.
Edited == [Old EXCEPT !.arch = "arm64", !.plan.ver = "v3"]

P(as) == [arts |-> as, broken |-> FALSE]

\* Its limits are above the ceiling, which the hash does not cover.
Vast == [Art("p", "amd64", "v1", <<F("zip", Nil, 0, "source")>>, FALSE) EXCEPT !.extract.bytes = 5]

MCPlans == {P(<<Src>>), P(<<Edited, New>>), P(<<Old, Local>>), P(<<Vast>>),
            [arts |-> <<Local>>, broken |-> TRUE]}

MCOptions == {[rev |-> 0, stage |-> FALSE, keep |-> FALSE],
              [rev |-> 1, stage |-> FALSE, keep |-> TRUE],
              [rev |-> 1, stage |-> TRUE, keep |-> FALSE]}

Three == [bytes |-> 3, files |-> 3]
Four == [bytes |-> 4, files |-> 3]

===============================================================================
