------------------------------ MODULE ExprRules ------------------------------
(***************************************************************************)
(* The dependency expressions of kconfig, package/config/expr.c, and the   *)
(* rules that rewrite one operator at a time, and what each walk does at    *)
(* one expression; Expr walks the trees.  An expression is a tuple tagged   *)
(* with its enum expr_type; symbols are strings, and "y", "m", "n" are      *)
(* symbol_yes, symbol_mod, symbol_no.                                       *)
(* `ty' gives every symbol its type; the simplifications look at it.        *)
(* Definitions named Mutant... belong to no specification: each is a wrong  *)
(* version of the definition it precedes, with which a property must fail.  *)
(***************************************************************************)
EXTENDS Integers, Sequences

NULL == <<>>
Sym(s) == <<"sym", s>>
Yes == Sym("y")
Mod == Sym("m")
No == Sym("n")
Tag(e) == e[1]
Left(e) == e[2]
Right(e) == e[3]
Comparisons == {"eq", "neq"}
Junctions == {"and", "or"}
Constants == {"y", "m", "n"}

EXPR_OR(a, b) == IF a > b THEN a ELSE b
EXPR_AND(a, b) == IF a < b THEN a ELSE b
EXPR_NOT(a) == 2 - a

\* The tristate of a symbol whose value is printed as str.
TriOf(str) == IF str = "y" THEN 2 ELSE IF str = "m" THEN 1 ELSE 0
StrOf(tri) == <<"n", "m", "y">>[tri + 1]

\* The value of a symbol or a comparison when symbol s has the string value v[s].
LeafValue(v, e) ==
    CASE Tag(e) = "sym" -> TriOf(v[Left(e)])
      [] Tag(e) = "eq" -> IF v[Left(e)] = v[Right(e)] THEN 2 ELSE 0
      [] Tag(e) = "neq" -> IF v[Left(e)] = v[Right(e)] THEN 0 ELSE 2

expr_is_yes(e) == e = NULL \/ e = Yes
expr_is_no(e) == e = No
expr_alloc_and(a, b) == IF a = NULL THEN b ELSE IF b = NULL THEN a ELSE <<"and", a, b>>
expr_alloc_or(a, b) == IF a = NULL THEN b ELSE IF b = NULL THEN a ELSE <<"or", a, b>>

Unit(type) == IF type = "and" THEN Yes ELSE No
Zero(type) == IF type = "and" THEN No ELSE Yes

\* The junction of l and r with the constants y and n taken out.
WithoutYN(type, l, r) ==
    CASE Zero(type) \in {l, r} -> Zero(type)
      [] Zero(type) \notin {l, r} /\ l = Unit(type) -> r
      [] Zero(type) \notin {l, r} /\ l # Unit(type) /\ r = Unit(type) -> l
      [] OTHER -> <<type, l, r>>

-----------------------------------------------------------------------------
Opposite(op) == CASE op = "eq" -> "neq" [] op = "neq" -> "eq"
                  [] op = "and" -> "or" [] op = "or" -> "and"

\* A comparison of a boolean symbol with a constant is the symbol or its negation.
TransformComparison(ty, e) ==
    IF ty[Left(e)] # "bool" \/ Right(e) \notin Constants THEN e
    ELSE IF Right(e) = "m" THEN (IF Tag(e) = "eq" THEN No ELSE Yes)
    ELSE IF (Tag(e) = "eq") = (Right(e) = "y") THEN Sym(Left(e))
    ELSE <<"not", Sym(Left(e))>>

-----------------------------------------------------------------------------
(* Joining two operands of a disjunction or a conjunction into one, NULL    *)
(* when no rule joins them.                                                *)

\* The symbol an operand is about, or is the negation of a leaf of the tags
\* `negated' about; "" when there is none.  Only the first operand of a join
\* may be the negation of a comparison.
SubjectOf(e, negated) ==
    IF Tag(e) = "not" THEN IF Tag(Left(e)) \in negated THEN Left(Left(e)) ELSE ""
    ELSE IF Tag(e) \in Comparisons \cup {"sym"} THEN Left(e) ELSE ""

FirstSubject(e) == SubjectOf(e, Comparisons \cup {"sym"})
SecondSubject(e) == SubjectOf(e, {"sym"})

\* The comparisons {a, b} are both `op', with the two constants of cs.
Both(a, b, op, cs) == Tag(a) = op /\ Tag(b) = op /\ {Right(a), Right(b)} = cs

\* One of them is the plain symbol, the other `op' with c.
PlainAnd(a, b, op, c) ==
    \/ Tag(a) = "sym" /\ Tag(b) = op /\ Right(b) = c
    \/ Tag(b) = "sym" /\ Tag(a) = op /\ Right(a) = c

Joinable(ty, a, b) ==
    /\ FirstSubject(a) # "" /\ FirstSubject(a) = SecondSubject(b)
    /\ ty[FirstSubject(a)] \in {"bool", "tristate"}

OrRule(ty, a, b) ==
    LET s == FirstSubject(a)
        tri == ty[s] = "tristate"
    IN IF ~Joinable(ty, a, b) THEN NULL
       ELSE CASE tri /\ Both(a, b, "eq", {"y", "m"}) -> <<"neq", s, "n">>
              [] tri /\ Both(a, b, "eq", {"y", "n"}) -> <<"neq", s, "m">>
              [] tri /\ Both(a, b, "eq", {"m", "n"}) -> <<"neq", s, "y">>
              [] ~tri /\ {a, b} = {Sym(s), <<"not", Sym(s)>>} -> Yes
              [] OTHER -> NULL

\* Mutant of AndRule: a && a=m is a.
MutantJoinAnd(ty, a, b) == IF PlainAnd(a, b, "eq", "m") THEN Sym(FirstSubject(a)) ELSE NULL

AndRule(ty, a, b) ==
    LET s == FirstSubject(a)
        tri == ty[s] = "tristate"
        EqNeq(x, y) == /\ tri /\ Tag(x) = "eq" /\ Tag(y) = "neq"
                       /\ Right(x) \in Constants /\ Right(y) \in Constants
        EqBut(x, y) == IF Right(x) # Right(y) THEN <<"eq", s, Right(x)>> ELSE No
    IN IF ~Joinable(ty, a, b) THEN NULL
       ELSE CASE PlainAnd(a, b, "eq", "y") -> <<"eq", s, "y">>
              [] PlainAnd(a, b, "neq", "n") -> Sym(s)
              [] PlainAnd(a, b, "neq", "m") -> <<"eq", s, "y">>
              [] EqNeq(a, b) -> EqBut(a, b)
              [] EqNeq(b, a) -> EqBut(b, a)
              [] tri /\ Both(a, b, "neq", {"y", "n"}) -> <<"eq", s, "m">>
              [] tri /\ Both(a, b, "neq", {"y", "m"}) -> <<"eq", s, "n">>
              [] tri /\ Both(a, b, "neq", {"m", "n"}) -> <<"eq", s, "y">>
              [] OTHER -> NULL
-----------------------------------------------------------------------------
(* What a walk does at one expression, given what it does at the operands:  *)
(* Expr closes each of these over itself.                                  *)

\* The value of e when symbol s has the string value v[s] (all calculated).
CalcBody(v, e, Calc(_)) ==
    CASE e = NULL -> 2
      [] e # NULL /\ Tag(e) \in Comparisons \cup {"sym"} -> LeafValue(v, e)
      [] e # NULL /\ Tag(e) = "and" -> EXPR_AND(Calc(Left(e)), Calc(Right(e)))
      [] e # NULL /\ Tag(e) = "or" -> EXPR_OR(Calc(Left(e)), Calc(Right(e)))
      [] e # NULL /\ Tag(e) = "not" -> EXPR_NOT(Calc(Left(e)))
      [] OTHER -> 0

EliminateYNBody(e, Eliminate(_)) ==
    IF e = NULL \/ Tag(e) \notin Junctions THEN e
    ELSE WithoutYN(Tag(e), Eliminate(Left(e)), Eliminate(Right(e)))

\* __expr_eliminate_eq: operands that both sides share become the unit.
EliminateEqInBody(type, a, b, In(_, _), Eq(_, _)) ==
    IF Tag(a) = type THEN
        LET l == In(Left(a), b)
            r == In(Right(a), l[2])
        IN <<<<type, l[1], r[1]>>, r[2]>>
    ELSE IF Tag(b) = type THEN
        LET l == In(a, Left(b))
            r == In(l[1], Right(b))
        IN <<r[1], <<type, l[2], r[2]>>>>
    ELSE IF (a = b /\ a \in {Yes, No}) \/ ~Eq(a, b) THEN <<a, b>>
    ELSE <<Unit(type), Unit(type)>>

\* The pair p of operands, searched for the operator of the first, then for
\* that of the second.
ByFirst(p, In(_, _, _)) == IF Tag(p[1]) \in Junctions THEN In(Tag(p[1]), p[1], p[2]) ELSE p
BySecond(p, In(_, _, _)) == IF Tag(p[1]) # Tag(p[2]) /\ Tag(p[2]) \in Junctions
                            THEN In(Tag(p[2]), p[1], p[2]) ELSE p
BothWithoutYN(p, Eliminate(_)) == <<Eliminate(p[1]), Eliminate(p[2])>>

EliminateEqBody(a, b, In(_, _, _), Eliminate(_)) ==
    IF a = NULL \/ b = NULL THEN <<a, b>>
    ELSE BothWithoutYN(BySecond(ByFirst(<<a, b>>, In), In), Eliminate)

SameSymbol(p) == Tag(p[1]) = "sym" /\ p[1] = p[2]

EqBody(a, b, Eq(_, _), EliminateEq(_, _)) ==
    /\ Tag(a) = Tag(b)
    /\ \/ Tag(a) \in Comparisons \cup {"sym"} /\ a = b
       \/ Tag(a) = "not" /\ Eq(Left(a), Left(b))
       \/ Tag(a) \in Junctions /\ SameSymbol(EliminateEq(a, b))

TransformBody(ty, e, Transform(_)) ==
    IF e = NULL \/ Tag(e) = "sym" THEN e
    ELSE IF Tag(e) \in Comparisons THEN TransformComparison(ty, e)
    ELSE IF Tag(e) \in Junctions THEN <<Tag(e), Transform(Left(e)), Transform(Right(e))>>
    ELSE LET x == Transform(Left(e)) IN
         CASE Tag(x) = "not" -> Transform(Left(x))
           [] Tag(x) \in Comparisons -> <<Opposite(Tag(x)), Left(x), Right(x)>>
           [] Tag(x) \in Junctions ->
                 Transform(<<Opposite(Tag(x)), <<"not", Left(x)>>, <<"not", Right(x)>>>>)
           [] x = Yes -> No
           [] x = No -> Yes
           [] x = Mod -> Mod
           [] OTHER -> <<"not", x>>

\* In the dependency of a symbol that is not tristate: FOO!=n is FOO.
TransBoolBody(ty, e, TransBool(_)) ==
    CASE e = NULL -> e
      [] e # NULL /\ Tag(e) \in Junctions -> <<Tag(e), TransBool(Left(e)), TransBool(Right(e))>>
      [] e # NULL /\ Tag(e) = "not" -> <<"not", TransBool(Left(e))>>
      [] e # NULL /\ Tag(e) = "neq" ->
            IF ty[Left(e)] = "tristate" /\ Right(e) = "n" THEN Sym(Left(e)) ELSE e
      [] OTHER -> e

\* An expression for `e = s' or `e != s', s one of symbol_yes, symbol_no.
CompareBody(e, op, s, Compare(_, _)) ==
    LET Negated(x) == IF op = "neq" THEN <<"not", x>> ELSE x IN
    CASE e = NULL -> Negated(Sym(s))
      [] e # NULL /\ Tag(e) \in Junctions ->
            Negated(<<IF s = "y" THEN Tag(e) ELSE Opposite(Tag(e)),
                      Compare(Left(e), "eq"), Compare(Right(e), "eq")>>)
      [] e # NULL /\ Tag(e) = "not" -> Compare(Left(e), Opposite(op))
      [] e # NULL /\ Tag(e) \in Comparisons -> IF (op = "eq") = (s = "y") THEN e ELSE <<"not", e>>
      [] OTHER -> <<op, Left(e), s>>

\* Moves what a and b share into tmp: <<tmp, a, b>>.
ExtractEqBody(type, tmp, a, b, Extract(_, _, _), Eq(_, _)) ==
    IF Tag(a) = type THEN
        LET l == Extract(tmp, Left(a), b)
            r == Extract(l[1], Right(a), l[3])
        IN <<r[1], <<type, l[2], r[2]>>, r[3]>>
    ELSE IF Tag(b) = type THEN
        LET l == Extract(tmp, a, Left(b))
            r == Extract(l[1], l[2], Right(b))
        IN <<r[1], r[2], <<type, l[3], r[3]>>>>
    ELSE IF Eq(a, b) THEN <<IF tmp = NULL THEN a ELSE <<type, tmp, a>>, Unit(type), Unit(type)>>
    ELSE <<tmp, a, b>>

DependsBody(e, s, Depends(_)) ==
    /\ e # NULL
    /\ \/ Tag(e) = "and" /\ (Depends(Left(e)) \/ Depends(Right(e)))
       \/ e \in {Sym(s), <<"eq", s, "y">>, <<"eq", s, "m">>, <<"neq", s, "n">>}

-----------------------------------------------------------------------------
(* expr_eliminate_dups.  A path is a sequence of 2 (left) and 3 (right) from *)
(* the junction a walk started at; a walk carries the tree and trans_count,  *)
(* the number of simplifications.                                          *)

AtBody(e, p, At(_, _)) == IF p = <<>> THEN e ELSE At(e[Head(p)], Tail(p))
PutBody(e, p, x, Put(_, _)) == IF p = <<>> THEN x
                               ELSE [e EXCEPT ![Head(p)] = Put(e[Head(p)], Tail(p))]

\* The operand at p is the tree x.e after x.count more simplifications.
Placed(u, p, x, Put(_, _, _)) == [e |-> Put(u.e, p, x.e), count |-> u.count + x.count]

\* What a and b are joined to, NULL when they stay.
JoinBody(ty, type, a, b, Eq(_, _)) ==
    IF Eq(a, b) THEN a ELSE IF type = "or" THEN OrRule(ty, a, b) ELSE AndRule(ty, a, b)

\* The operands at p and q are replaced by the unit and by tmp, if there is one.
Joined(type, u, p, q, tmp, Put(_, _, _)) ==
    IF tmp = NULL THEN u
    ELSE [e |-> Put(Put(u.e, p, Unit(type)), q, tmp), count |-> u.count + 1]

\* Walk goes on in the same junction, Inside walks another one by itself.
Dups1Body(type, w, p, q, At(_, _), Put(_, _, _), Join(_, _, _), Walk(_, _, _), Inside(_, _)) ==
    LET a == At(w.e, p)
        b == At(w.e, q)
        u == IF Tag(a) \in Junctions THEN Placed(w, p, Inside(Tag(a), a), Put) ELSE w
    IN IF Tag(a) = type THEN Walk(Walk(w, Append(p, 2), q), Append(p, 3), q)
       ELSE IF Tag(b) = type THEN Walk(Walk(w, p, Append(q, 2)), p, Append(q, 3))
       ELSE IF p = q THEN w
       ELSE Joined(type, u, p, q, Join(type, At(u.e, p), At(u.e, q)), Put)

\* What expr_extract_eq_and and expr_extract_eq_or leave of a; x is what was
\* extracted, with the operands without it.
Remaining(a, x, Eliminate(_)) == IF x[1] = NULL THEN a ELSE Eliminate(x[2])

\* The junction a is its unit if b takes all of a's negation away.
Absorbs(type, a, b, Transform(_), Extract(_, _, _), Eliminate(_)) ==
    LET n == Transform(<<"not", a>>)
    IN Remaining(n, Extract(Opposite(type), n, b), Eliminate) = Unit(Opposite(type))

Absorbed(type, u, p, absorbs, Put(_, _, _)) ==
    IF absorbs THEN [e |-> Put(u.e, p, Unit(type)), count |-> u.count + 1] ELSE u

Dups2Body(type, w, p, q, At(_, _), Put(_, _, _), Absorb(_, _, _), Walk(_, _, _), Inside(_, _)) ==
    LET v == IF Tag(At(w.e, q)) = type THEN Walk(Walk(w, p, Append(q, 2)), p, Append(q, 3)) ELSE w
        a == At(v.e, p)
        u == Placed(v, p, Inside(Tag(a), a), Put)
    IN IF Tag(At(w.e, p)) = type THEN Walk(Walk(w, Append(p, 2), q), Append(p, 3), q)
       ELSE IF p = q \/ Tag(a) \notin Junctions THEN v
       ELSE Absorbed(Tag(a), u, p, Absorb(Tag(a), At(u.e, p), At(u.e, q)), Put)

\* One turn of the loop of expr_eliminate_dups, trans_count counted from 0.
TurnBody(e, Inside1(_, _), Inside2(_, _)) ==
    IF e = NULL \/ Tag(e) \notin Junctions THEN [e |-> e, count |-> 0]
    ELSE LET x == Inside1(Tag(e), e)
             y == Inside2(Tag(x.e), x.e)
         IN [e |-> y.e, count |-> x.count + y.count]
=============================================================================
