--------------------------------- MODULE Plan ---------------------------------
(***************************************************************************)
(* The plan that cooper, chandler and staves emit and `cooper build` and   *)
(* drayman read (pkg/plan).  A digest is the contents it is a digest of,   *)
(* and an inputs hash is what it is a hash of: neither ever collides.      *)
(*                                                                         *)
(* An artifact has an architecture, the files to download, in order, with  *)
(* the source archive last, its build plan, the version in its .deb's file *)
(* name, its inputs hash, and what a build adds: the .deb at deb.path, or  *)
(* an error.                                                               *)
(***************************************************************************)
EXTENDS Sequences

CONSTANT Nil   \* the digest of a file whose digest the plan does not carry

List(s) == s \in Seq({s[i] : i \in DOMAIN s})

\* Fault: of no files, the empty list.
EmptyOfNone(assets) == [i \in DOMAIN assets |-> assets[i].sha]

\* In order, the source archive last.  Of no files it is null, which is not the
\* empty list.
ArtifactAssetSHAs(assets) ==
    IF assets = <<>> THEN Nil ELSE [i \in DOMAIN assets |-> assets[i].sha]

\* What the hash covers: neither URLs, nor the file name, nor the limits of
\* the extraction.
ComputeBuildInputsHash(shas, buildPlan) == [shas |-> shas, plan |-> buildPlan]

VerifyBuildInputsHash(a) ==
    ComputeBuildInputsHash(ArtifactAssetSHAs(a.assets), a.plan) = a.hash

\* The plan has the digest of every file.
Pinned(hash) == hash.shas # Nil => \A i \in DOMAIN hash.shas : hash.shas[i] # Nil

===============================================================================
