------------------------------ MODULE MCDrayman ------------------------------
(* Instances of Drayman for TLC.                                            *)
EXTENDS Drayman, TLC

CONSTANTS r1, r2, p1, p2, e1, e2, e3

\* Every recipe builds a package of its own.
OwnKeys == [x \in {p1, p2} |-> x]
Art(p, u, e) == [recipe |-> p, up |-> u, edit |-> e]

\* Two packages: p1 is edited twice and upgraded, p2 is not.
Two == {Art(p1, 1, e1), Art(p1, 1, e2), Art(p1, 1, e3), Art(p1, 2, e1), Art(p2, 1, e1)}

\* One artifact of one package.
One == {Art(p1, 1, e1)}

=============================================================================
