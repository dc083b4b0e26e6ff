------------------------------ MODULE AptArchive ------------------------------
(***************************************************************************)
(* What drayman promises of the repository it fills, whatever happens to   *)
(* its runs: packages are only added, each inputs hash once, under the     *)
(* next free revision of its version and never under a version below one   *)
(* the repository has; and what apt clients see is, at any time, the       *)
(* repository as it was at some publication.                               *)
(*                                                                         *)
(* A package is [src, rev]: src, [recipe, up, edit], stands for the inputs *)
(* hash, and rev is the Debian revision, 0 for a bare version.             *)
(***************************************************************************)
EXTENDS Naturals

CONSTANTS KeyOf     \* the (Package, Architecture) of a recipe

VARIABLES repo, published

Key(p) == KeyOf[p.src.recipe]
SameBase(p, q) == Key(p) = Key(q) /\ p.src.up = q.src.up

\* A version names one package.
NoClash(R) == \A p, q \in R : SameBase(p, q) /\ p.rev = q.rev => p = q

\* The revisions of a base version are used in order, without a gap.
NoGap(R) == \A p \in R : p.rev > 0 =>
                \E q \in R : SameBase(p, q) /\ q.rev + 1 = p.rev

\* An inputs hash is in the repository once.
NoRepeat(R) == \A p, q \in R : p.src = q.src => p = q

Init == repo = {} /\ published = {}

Add ==
    /\ repo \subseteq repo'
    /\ NoClash(repo') /\ NoGap(repo') /\ NoRepeat(repo')
    /\ \A p \in repo' \ repo, q \in repo : Key(p) = Key(q) => q.src.up <= p.src.up
    /\ UNCHANGED published

Publish == published' = repo /\ UNCHANGED repo

Next == Add \/ Publish

Spec == Init /\ [][Next]_<<repo, published>>

=============================================================================
