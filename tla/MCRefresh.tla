------------------------------ MODULE MCRefresh ------------------------------
(* Instances of Refresh for TLC: two sources, and what their releases are.  *)
EXTENDS Refresh, TLC

CONSTANTS s1, s2

OneArch == {"amd64"}

\* Two packages.
OwnPackages == [s \in {s1, s2} |-> s]

\* Every release is native to one architecture.
BothAmd64 == (s1 :> {"amd64"}) @@ (s2 :> {"amd64"})

\* s2 publishes packages of architecture all.
AllAndNative == (s1 :> {"amd64"}) @@ (s2 :> {All})

\* s2 may publish for an architecture the suite does not have.
ForeignPossible == (s1 :> {"amd64"}) @@ (s2 :> {"amd64", "riscv64"})

\* The configurations a reload chooses from.
Steady == {[enabled |-> {s1, s2}, inputs |-> 1, label |-> 1]}
Rekeyed == Steady \cup {[enabled |-> {s1, s2}, inputs |-> 2, label |-> 1]}
Relabelled == Steady \cup {[enabled |-> {s1, s2}, inputs |-> 1, label |-> 2]}
Reduced == Steady \cup {[enabled |-> {s1}, inputs |-> 1, label |-> 1]}
RekeyedOrRelabelled == Rekeyed \cup Relabelled
RekeyedOrReduced == Rekeyed \cup Reduced

=============================================================================
