----------------------------- MODULE MCSimplify -----------------------------
EXTENDS Simplify
\* A boolean and a tristate symbol, and the three constants.
MCTy == [A |-> "bool", T |-> "tristate", y |-> "unknown", m |-> "unknown", n |-> "unknown"]

Atoms == {Sym(s) : s \in {"A", "T", "y", "m", "n"}}
            \cup {<<op, s, c>> : op \in Comparisons, s \in {"A", "T"}, c \in Constants}
Literals == Atoms \cup {<<"not", a>> : a \in Atoms}
Few == {Sym("A"), <<"not", Sym("A")>>, Sym("T"), <<"not", Sym("T")>>,
        <<"eq", "T", "y">>, <<"neq", "T", "n">>, <<"eq", "T", "m">>}
AB == {Sym("A"), Sym("T"), <<"not", Sym("A")>>, <<"not", Sym("T")>>}
Join(X, Y) == {<<op, x, y>> : op \in Junctions, x \in X, y \in Y}
MCInputs ==
    Join(Literals, Literals)
    \cup {<<"not", x>> : x \in Join(Literals, Literals)}
    \cup Join(Few, Join(Few, Few)) \cup Join(Join(Few, Few), Few)
    \cup Join(Join(AB, AB), Join(AB, AB))
=============================================================================
