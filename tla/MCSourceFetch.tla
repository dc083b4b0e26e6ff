---------------------------- MODULE MCSourceFetch ----------------------------
(* Instances of SourceFetch for TLC.                                        *)
EXTENDS SourceFetch

\* All builds have one size, so that comparing sizes tells nothing.
OneSize == [b \in 0 .. MaxBuild |-> 100]
\* The sizes of neighbouring builds differ.
TwoSizes == [b \in 0 .. MaxBuild |-> 100 + (b % 2)]

=============================================================================
