-------------------------------- MODULE Expr --------------------------------
(***************************************************************************)
(* The walks over the dependency expressions of kconfig,                   *)
(* package/config/expr.c: their values, their comparison, rewriting and    *)
(* printing.  The rules for one operator, and what most walks do at one     *)
(* expression, are in ExprRules.                                            *)
(* The C code rewrites trees in place through `struct expr **': where two   *)
(* such pointers walk the same tree the operators below walk paths.         *)
(* Definitions named Mutant... belong to no specification: each is a wrong  *)
(* version of the definition it precedes, with which a property must fail.  *)
(***************************************************************************)
EXTENDS ExprRules

RECURSIVE expr_calc_value(_, _), expr_eliminate_yn(_)
expr_calc_value(v, e) == CalcBody(v, e, LAMBDA x : expr_calc_value(v, x))
expr_eliminate_yn(e) == EliminateYNBody(e, LAMBDA x : expr_eliminate_yn(x))

\* Equality up to the order and the grouping of equal operands.
RECURSIVE expr_eq(_, _), EliminateEqIn(_, _, _)

EliminateEqIn(type, a, b) ==
    EliminateEqInBody(type, a, b, LAMBDA x, y : EliminateEqIn(type, x, y), LAMBDA x, y : expr_eq(x, y))

expr_eliminate_eq(a, b) ==
    EliminateEqBody(a, b, LAMBDA t, x, y : EliminateEqIn(t, x, y), LAMBDA x : expr_eliminate_yn(x))

\* Mutant of expr_eq: the second operand is not looked at.
MutantEqFirst(a, b) == Tag(a) = Tag(b) /\ Left(a) = Left(b)

expr_eq(a, b) ==
    EqBody(a, b, LAMBDA x, y : expr_eq(x, y), LAMBDA x, y : expr_eliminate_eq(x, y))

-----------------------------------------------------------------------------
(* Negation normal form, comparisons, and comparisons of whole expressions. *)

RECURSIVE expr_transform(_, _), expr_trans_bool(_, _), expr_trans_compare(_, _, _)
expr_transform(ty, e) == TransformBody(ty, e, LAMBDA x : expr_transform(ty, x))
expr_trans_bool(ty, e) == TransBoolBody(ty, e, LAMBDA x : expr_trans_bool(ty, x))
expr_trans_compare(e, op, s) == CompareBody(e, op, s, LAMBDA x, o : expr_trans_compare(x, o, s))

-----------------------------------------------------------------------------
(* Joining the operands of a disjunction or a conjunction.                  *)

\* expr_join_or and expr_join_and.
expr_join(ty, type, a, b) == JoinBody(ty, type, a, b, LAMBDA x, y : expr_eq(x, y))

RECURSIVE expr_extract_eq(_, _, _, _)
expr_extract_eq(type, tmp, a, b) ==
    ExtractEqBody(type, tmp, a, b, LAMBDA t, x, y : expr_extract_eq(type, t, x, y),
                  LAMBDA x, y : expr_eq(x, y))

-----------------------------------------------------------------------------
(* expr_eliminate_dups; the walks start at a junction, with no             *)
(* simplification counted.                                                 *)

RECURSIVE At(_, _), Put(_, _, _)
At(e, p) == AtBody(e, p, LAMBDA x, r : At(x, r))
Put(e, p, x) == PutBody(e, p, x, LAMBDA y, r : Put(y, r, x))

RECURSIVE expr_eliminate_dups1(_, _, _, _, _), expr_eliminate_dups2(_, _, _, _, _)
expr_eliminate_dups1(ty, type, w, p, q) ==
    Dups1Body(type, w, p, q, LAMBDA x, r : At(x, r), LAMBDA x, r, y : Put(x, r, y),
              LAMBDA t, x, y : expr_join(ty, t, x, y),
              LAMBDA u, r, s : expr_eliminate_dups1(ty, type, u, r, s),
              LAMBDA t, x : expr_eliminate_dups1(ty, t, [e |-> x, count |-> 0], <<>>, <<>>))

Absorb(ty, type, a, b) ==
    Absorbs(type, a, b, LAMBDA x : expr_transform(ty, x),
            LAMBDA t, x, y : expr_extract_eq(t, NULL, x, y), LAMBDA x : expr_eliminate_yn(x))

expr_eliminate_dups2(ty, type, w, p, q) ==
    Dups2Body(type, w, p, q, LAMBDA x, r : At(x, r), LAMBDA x, r, y : Put(x, r, y),
              LAMBDA t, x, y : Absorb(ty, t, x, y),
              LAMBDA u, r, s : expr_eliminate_dups2(ty, type, u, r, s),
              LAMBDA t, x : expr_eliminate_dups2(ty, t, [e |-> x, count |-> 0], <<>>, <<>>))

DupsTurn(ty, e) ==
    TurnBody(e, LAMBDA t, x : expr_eliminate_dups1(ty, t, [e |-> x, count |-> 0], <<>>, <<>>),
             LAMBDA t, x : expr_eliminate_dups2(ty, t, [e |-> x, count |-> 0], <<>>, <<>>))

RECURSIVE expr_eliminate_dups(_, _), AfterTurn(_, _)
AfterTurn(ty, t) == IF t.count = 0 THEN t.e ELSE expr_eliminate_dups(ty, expr_eliminate_yn(t.e))
expr_eliminate_dups(ty, e) == AfterTurn(ty, DupsTurn(ty, e))

-----------------------------------------------------------------------------
(* What an expression says of a symbol.                                     *)

RECURSIVE expr_contains_symbol(_, _), expr_depends_symbol(_, _), SymbolsOf(_)
SymbolsOf(e) ==
    CASE e = NULL -> {}
      [] e # NULL /\ Tag(e) = "sym" -> {Left(e)}
      [] e # NULL /\ Tag(e) \in Comparisons -> {Left(e), Right(e)}
      [] e # NULL /\ Tag(e) = "not" -> SymbolsOf(Left(e))
      [] OTHER -> SymbolsOf(Left(e)) \cup SymbolsOf(Right(e))

expr_contains_symbol(e, s) == s \in SymbolsOf(e)

expr_depends_symbol(e, s) == DependsBody(e, s, LAMBDA x : expr_depends_symbol(x, s))

RECURSIVE expr_get_leftmost_symbol(_), expr_simplify_unmet_dep(_, _, _)
expr_get_leftmost_symbol(e) ==
    IF e = NULL \/ Tag(e) = "sym" THEN e ELSE expr_get_leftmost_symbol(Left(e))

\* Mutant of expr_simplify_unmet_dep: the test of expr_eq inverted.
MutantBlame(ty, e, dep) ==
    IF Tag(e) = "or"
    THEN expr_alloc_and(expr_simplify_unmet_dep(ty, Left(e), dep),
                        expr_simplify_unmet_dep(ty, Right(e), dep))
    ELSE IF ~expr_eq(expr_eliminate_dups(ty, expr_alloc_and(e, dep)), e)
    THEN NULL ELSE expr_get_leftmost_symbol(e)

\* The selectors to blame when a symbol is selected against its dependencies.
expr_simplify_unmet_dep(ty, e, dep) ==
    IF Tag(e) = "or"
    THEN expr_alloc_and(expr_simplify_unmet_dep(ty, Left(e), dep),
                        expr_simplify_unmet_dep(ty, Right(e), dep))
    ELSE IF Tag(e) = "and" /\ expr_eq(expr_eliminate_dups(ty, expr_alloc_and(e, dep)), e)
    THEN NULL
    ELSE expr_get_leftmost_symbol(e)

-----------------------------------------------------------------------------
(* Printing, with the parentheses expr_compare_type asks for.               *)

Rank == [eq |-> 1, neq |-> 1, not |-> 2, and |-> 3, or |-> 4, sym |-> 0, none |-> 0]

\* Mutant of expr_compare_type: no parentheses.
MutantNoParens(t1, t2) == -1

\* t1 and t2 name the operator outside and inside; > 0 means parentheses.
expr_compare_type(t1, t2) ==
    IF t1 = t2 THEN 0
    ELSE IF t1 \in Comparisons \cup {"not", "and"} /\ t2 \in {"not", "and", "or"}
            /\ Rank[t2] > Rank[t1] THEN 1
    ELSE -1

RECURSIVE expr_print(_, _)
expr_print(e, prev) ==
    LET body == CASE Tag(e) = "sym" -> <<Left(e)>>
                  [] Tag(e) = "not" -> <<"!">> \o expr_print(Left(e), "not")
                  [] Tag(e) = "eq" -> <<Left(e), "=", Right(e)>>
                  [] Tag(e) = "neq" -> <<Left(e), "!=", Right(e)>>
                  [] Tag(e) = "or" -> expr_print(Left(e), "or") \o <<"||">> \o expr_print(Right(e), "or")
                  [] Tag(e) = "and" -> expr_print(Left(e), "and") \o <<"&&">> \o expr_print(Right(e), "and")
    IN IF e = NULL THEN <<"y">>
       ELSE IF expr_compare_type(prev, Tag(e)) > 0 THEN <<"(">> \o body \o <<")">> ELSE body

\* The grammar of expressions, zconf.y: each parser returns <<tree, rest>>.
RECURSIVE ParseOr(_), ParseAnd(_), ParsePrimary(_), ParseMore(_, _, _)
ParsePrimary(ts) ==
    CASE Head(ts) = "!" -> LET x == ParsePrimary(Tail(ts)) IN <<<<"not", x[1]>>, x[2]>>
      [] Head(ts) = "(" -> LET x == ParseOr(Tail(ts)) IN <<x[1], Tail(x[2])>>
      [] OTHER -> IF Len(ts) > 2 /\ ts[2] \in {"=", "!="}
                  THEN <<<<IF ts[2] = "=" THEN "eq" ELSE "neq", ts[1], ts[3]>>, SubSeq(ts, 4, Len(ts))>>
                  ELSE <<Sym(ts[1]), Tail(ts)>>
ParseMore(tok, l, ts) ==
    IF ts = <<>> \/ Head(ts) # tok THEN <<l, ts>>
    ELSE LET x == IF tok = "&&" THEN ParsePrimary(Tail(ts)) ELSE ParseAnd(Tail(ts))
         IN ParseMore(tok, <<IF tok = "&&" THEN "and" ELSE "or", l, x[1]>>, x[2])
ParseAnd(ts) == LET x == ParsePrimary(ts) IN ParseMore("&&", x[1], x[2])
ParseOr(ts) == LET x == ParseAnd(ts) IN ParseMore("||", x[1], x[2])
=============================================================================
