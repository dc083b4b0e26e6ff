------------------------------- MODULE MCExport -------------------------------
(* Instances of Export for TLC.                                             *)
EXTENDS Export

Snap(i, d) == [index |-> i, deb |-> d]
Want(s, r, t) == [snap |-> s, root |-> r, targets |-> t]

\* An index and a bootstrap package that change apart, a change of targets,
\* and a move below a prefix.
Mixed == {Want(Snap("i1", "d1"), Bare, {"cloudflare"}),
          Want(Snap("i2", "d1"), Bare, {"cloudflare", "nginx"}),
          Want(Snap("i3", "d2"), Bare, {"nginx"}),
          Want(Snap("i2", "d1"), "apt", {"cloudflare"})}

\* A repository below a prefix, in two states.
Prefixed == {Want(Snap("i1", "d1"), "apt", {"nginx"}), Want(Snap("i2", "d1"), "apt", {"nginx"})}

=============================================================================
