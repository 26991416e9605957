------------------------------ MODULE Simplify ------------------------------
(***************************************************************************)
(* A dependency on its way from the source text into the menu tree: what     *)
(* menu_finalize (package/config/menu.c:306-311) does to it, one turn of the *)
(* loop of expr_eliminate_dups (expr.c:624-636) at a time.                   *)
(***************************************************************************)
EXTENDS Expr

CONSTANTS Inputs,      \* the expressions as the parser makes them
          Ty           \* the type of every symbol they name

VARIABLES raw, e, pc

vars == <<raw, e, pc>>

Symbols == DOMAIN Ty \ Constants

\* What the symbols may be: a boolean symbol is never m, a constant is itself.
ValuationsIn(S) ==
    {[s \in DOMAIN Ty |-> IF s \in Constants THEN s ELSE v[s]] :
        v \in {u \in [Symbols -> S] : \A s \in Symbols : Ty[s] = "bool" => u[s] # "m"}}
Valuations == ValuationsIn({"n", "m", "y"})
\* Those in which no symbol is m.
Crisp == ValuationsIn({"n", "y"})

Init ==
    /\ raw \in Inputs
    /\ e = raw
    /\ pc = "transform"

Transform ==
    /\ pc = "transform"
    /\ e' = expr_transform(Ty, e)
    /\ pc' = "dups"
    /\ UNCHANGED raw

\* A turn that changed something is followed by another one.
Turn ==
    /\ pc = "dups"
    /\ LET t == DupsTurn(Ty, e)
       IN IF t.count = 0 THEN e' = t.e /\ pc' = "done"
          ELSE e' = expr_eliminate_yn(t.e) /\ pc' = "dups"
    /\ UNCHANGED raw

\* The dependency of a symbol that is not tristate.
TransBool ==
    /\ pc = "done"
    /\ e' = expr_trans_bool(Ty, e)
    /\ pc' = "bool"
    /\ UNCHANGED raw

Next == Transform \/ Turn \/ TransBool

Spec == Init /\ [][Next]_vars

-----------------------------------------------------------------------------
RECURSIVE IsExpr(_)
IsExpr(x) ==
    \/ Tag(x) = "sym" /\ Left(x) \in DOMAIN Ty
    \/ Tag(x) \in Comparisons /\ Left(x) \in DOMAIN Ty /\ Right(x) \in DOMAIN Ty
    \/ Tag(x) = "not" /\ IsExpr(Left(x))
    \/ Tag(x) \in Junctions /\ IsExpr(Left(x)) /\ IsExpr(Right(x))

\* The constant m as an operand, rather than in a comparison.
RECURSIVE ModOperand(_)
ModOperand(x) == CASE Tag(x) \in Comparisons \cup {"sym"} -> x = Mod
                   [] Tag(x) = "not" -> ModOperand(Left(x))
                   [] OTHER -> ModOperand(Left(x)) \/ ModOperand(Right(x))

\* Every step leaves a well-formed expression over the symbols of the source.
TypeOK == IsExpr(raw) /\ IsExpr(e) /\ pc \in {"transform", "dups", "done", "bool"}

Value(v, x) == expr_calc_value(v, x)

\* However often menu_finalize rewrites a dependency, where the expression of
\* the source text is y or n it stays so: only m may be resolved, since
\* expr_eliminate_dups2 takes (FOO || BAR) && !FOO && !BAR for n although it is
\* m when FOO is (expr.c:582, 597).
DefiniteKept == pc # "bool" =>
    \A v \in Valuations : Value(v, raw) # 1 => Value(v, e) = Value(v, raw)

\* expr_trans_bool may take FOO!=n for FOO because what it is applied to is in
\* negation normal form: the symbol is visible exactly when it was before.
BoolKept == pc = "done" =>
    \A v \in Valuations : (Value(v, expr_trans_bool(Ty, e)) = 0) = (Value(v, e) = 0)

\* What is rewritten for a dependency or for a warning is an expression that means
\* what it did.
ValueKept == TypeOK /\ DefiniteKept /\ BoolKept

\* Operands that expr_eq calls equal, and of which one is dropped, are equal
\* whatever their symbols are.
EqSound == Tag(e) \in Junctions /\ expr_eq(Left(e), Right(e))
              => \A v \in Valuations : Value(v, Left(e)) = Value(v, Right(e))

\* An entry is moved below the symbol s only when it cannot be visible without
\* s: the test is expr_depends_symbol (menu.c:330).
DependsSound == \A s \in Symbols : expr_depends_symbol(e, s)
                   => \A v \in Valuations : v[s] = "n" => Value(v, e) = 0

\* The expression expr_trans_compare makes for `e != n' (menu.c:323, 332) holds
\* exactly when e is not n, if nothing is m: `!FOO != n' becomes `FOO = n',
\* which is wrong for FOO at m.
CompareSound == ~ModOperand(e) => \A v \in Crisp :
    (Value(v, expr_trans_compare(e, "neq", "n")) # 0) = (Value(v, e) # 0)

\* What the comparisons of expressions answer, which decides what is dropped and
\* what is moved, is so.
AnswersSound == EqSound /\ DependsSound /\ CompareSound

\* What expr_print writes in a warning or a help text is read by the grammar of
\* zconf.y as the expression it stands for.
PrintParses == \A x \in {raw, e} :
    LET t == ParseOr(expr_print(x, "none"))
    IN t[2] = <<>> /\ \A v \in Valuations : Value(v, t[1]) = Value(v, x)

\* A selection against unmet dependencies is blamed on every selector that is
\* set, here A where `A && T || T && e' selects what depends on e: no selector
\* that is active is missing from the warning.
BlameNamesSelectors ==
    LET rev == <<"or", <<"and", Sym("A"), Sym("T")>>, <<"and", Sym("T"), e>>>>
        blamed == SymbolsOf(expr_simplify_unmet_dep(Ty, rev, e))
    IN pc = "done" => \A v \in Crisp :
          (Value(v, e) = 0 /\ Value(v, rev) # 0) => "A" \in blamed

=============================================================================
