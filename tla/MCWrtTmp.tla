------------------------------ MODULE MCWrtTmp ------------------------------
(* Two processes on one line and one on another; the user may log in on both, *)
(* and on the first one again.                                                *)
EXTENDS WrtTmp, TLC

CONSTANTS p1, p2, p3, a, b

MCTty == (p1 :> a) @@ (p2 :> a) @@ (p3 :> b)

Cmd(p, t, n) == [prog |-> p, tmp |-> t, post |-> n, perms |-> {}, recs |-> {},
                 disconnect |-> FALSE]
Mesg_(v, r, d) == [Cmd("mesg", "s", FALSE) EXCEPT !.perms = v, !.recs = r, !.disconnect = d]
OnA == {Cmd("write", "s", FALSE), Cmd("write", "n", FALSE), Cmd("write", "s", TRUE),
        Cmd("amin", "y", TRUE), Mesg_({FALSE}, {"y"}, TRUE)}
OnB == {Cmd("tel", "s", FALSE)}
MCMaxLogins == (a :> 2) @@ (b :> 1)
MCInvoked == (p1 :> OnA) @@ (p2 :> OnA) @@ (p3 :> OnB)

Symmetry == Permutations({p1, p2})

NoAccident == ~ raced /\ \A l \in upset : Live(l) = {}
=============================================================================
