------------------------------ MODULE ExprProofs ------------------------------
(***************************************************************************)
(* For any symbols, types and values: the rules by which kconfig rewrites  *)
(* one operator of a dependency leave its tristate value what it was, and  *)
(* so do the walks of Expr over whole expressions.  The walks are given    *)
(* here as functions on the set E of all expressions, of which each is     *)
(* supposed to be what its body in ExprRules makes of it: Expr closes the  *)
(* same bodies over RECURSIVE operators.                                   *)
(***************************************************************************)
EXTENDS ExprRules, TLAPS, WellFoundedInduction

Leaves(S) == {<<"sym", s>> : s \in S} \cup {<<op, s, t>> : op \in Comparisons, s \in S, t \in S}
Operands(S) == Leaves(S) \cup {<<"not", l>> : l \in Leaves(S)}
ValueOf(v, e) == IF Tag(e) = "not" THEN EXPR_NOT(LeafValue(v, Left(e))) ELSE LeafValue(v, e)

(* The values v that symbols S of the types ty may have.                   *)
Valuation(S, ty, v) ==
    /\ Constants \subseteq S /\ "" \notin S
    /\ \A c \in Constants : v[c] = c
    /\ \A s \in S : /\ ty[s] = "bool" => v[s] \in {"n", "y"}
                    /\ ty[s] = "tristate" => v[s] \in {"n", "m", "y"}
-----------------------------------------------------------------------------
LEMMA LeafIs ==
    ASSUME NEW S, NEW l \in Leaves(S)
    PROVE  /\ Left(l) \in S
           /\ \/ Tag(l) = "sym" /\ l = Sym(Left(l))
              \/ Tag(l) \in Comparisons /\ Right(l) \in S /\ l = <<Tag(l), Left(l), Right(l)>>
  BY DEF Leaves, Tag, Left, Right, Comparisons, Sym

LEMMA OperandIs ==
    ASSUME NEW S, NEW e \in Operands(S)
    PROVE  \/ e \in Leaves(S) /\ Tag(e) \in Comparisons \cup {"sym"} /\ Tag(e) # "not"
           \/ Tag(e) = "not" /\ Left(e) \in Leaves(S) /\ e = <<"not", Left(e)>>
  <1>1. CASE e \in Leaves(S)
    BY <1>1, LeafIs DEF Comparisons
  <1>2. ASSUME NEW l \in Leaves(S), e = <<"not", l>>
        PROVE  Tag(e) = "not" /\ Left(e) \in Leaves(S) /\ e = <<"not", Left(e)>>
    BY <1>2 DEF Tag, Left
  <1>. QED
    BY <1>1, <1>2 DEF Operands

(* The values of what the rules read and write.                            *)
LEMMA ComparisonIs ==
    ASSUME NEW S, NEW v, NEW e \in Operands(S), Tag(e) \in Comparisons
    PROVE  /\ Left(e) \in S /\ Right(e) \in S /\ FirstSubject(e) = Left(e)
           /\ SecondSubject(e) = Left(e)
           /\ ValueOf(v, e) = IF (Tag(e) = "eq") = (v[Left(e)] = v[Right(e)]) THEN 2 ELSE 0
  <1>1. e \in Leaves(S) /\ Tag(e) \in {"eq", "neq"}
    BY OperandIs DEF Comparisons
  <1>. QED
    BY <1>1, LeafIs DEF FirstSubject, SecondSubject, SubjectOf, ValueOf, LeafValue, Comparisons

LEMMA SymbolIs ==
    ASSUME NEW S, NEW v, NEW e \in Operands(S), Tag(e) = "sym"
    PROVE  /\ Left(e) \in S /\ FirstSubject(e) = Left(e) /\ SecondSubject(e) = Left(e)
           /\ ValueOf(v, e) = TriOf(v[Left(e)])
  <1>1. e \in Leaves(S)
    BY OperandIs DEF Comparisons
  <1>. QED
    BY <1>1, LeafIs DEF FirstSubject, SecondSubject, SubjectOf, ValueOf, LeafValue, Comparisons

LEMMA MadeSymbol ==
    ASSUME NEW v, NEW s
    PROVE  /\ ValueOf(v, Sym(s)) = TriOf(v[s])
           /\ ValueOf(v, <<"not", Sym(s)>>) = 2 - TriOf(v[s])
  BY DEF ValueOf, LeafValue, Sym, Tag, Left, EXPR_NOT

LEMMA MadeComparison ==
    ASSUME NEW v, NEW op \in Comparisons, NEW s, NEW x
    PROVE  ValueOf(v, <<op, s, x>>) = IF (op = "eq") = (v[s] = v[x]) THEN 2 ELSE 0
  BY DEF ValueOf, LeafValue, Tag, Left, Right, Comparisons
-----------------------------------------------------------------------------
(* What two operands about a symbol s say that an or-rule joins.           *)
LEMMA OrCases ==
    ASSUME NEW ty, NEW a, NEW b, NEW s, s = FirstSubject(a), OrRule(ty, a, b) # NULL
    PROVE  /\ s = SecondSubject(b) /\ ty[s] \in {"bool", "tristate"}
           /\ \/ /\ ty[s] = "tristate" /\ Tag(a) = "eq" /\ Tag(b) = "eq"
                 /\ \E x \in Constants : /\ {Right(a), Right(b)} = Constants \ {x}
                                         /\ OrRule(ty, a, b) = <<"neq", s, x>>
              \/ /\ ty[s] = "bool" /\ {a, b} = {Sym(s), <<"not", Sym(s)>>}
                 /\ OrRule(ty, a, b) = Yes
  <1>1. Joinable(ty, a, b)
    BY DEF OrRule
  <1>2. s = SecondSubject(b) /\ ty[s] \in {"bool", "tristate"}
    BY <1>1 DEF Joinable
  <1>3. \/ /\ ty[s] = "tristate"
           /\ \/ Both(a, b, "eq", {"y", "m"}) /\ OrRule(ty, a, b) = <<"neq", s, "n">>
              \/ Both(a, b, "eq", {"y", "n"}) /\ OrRule(ty, a, b) = <<"neq", s, "m">>
              \/ Both(a, b, "eq", {"m", "n"}) /\ OrRule(ty, a, b) = <<"neq", s, "y">>
        \/ /\ ty[s] # "tristate" /\ {a, b} = {Sym(s), <<"not", Sym(s)>>}
           /\ OrRule(ty, a, b) = Yes
    BY <1>1 DEF OrRule, Both
  <1>4. /\ {"y", "m"} = Constants \ {"n"} /\ {"y", "n"} = Constants \ {"m"}
        /\ {"m", "n"} = Constants \ {"y"} /\ {"y", "m", "n"} = Constants
    BY DEF Constants
  <1>. QED
    BY <1>2, <1>3, <1>4 DEF Both

(* Two operands that expr_join_or makes into one have the value of the one.*)
THEOREM OrRuleMeans ==
    ASSUME NEW S, NEW ty, NEW v, Valuation(S, ty, v),
           NEW a \in Operands(S), NEW b \in Operands(S), OrRule(ty, a, b) # NULL
    PROVE  ValueOf(v, OrRule(ty, a, b)) = EXPR_OR(ValueOf(v, a), ValueOf(v, b))
  <1>1. PICK s : s = FirstSubject(a)
    OBVIOUS
  <1>2. s = SecondSubject(b) /\ ty[s] \in {"bool", "tristate"}
    BY <1>1, OrCases
  <1>3. ASSUME ty[s] = "tristate", Tag(a) = "eq", Tag(b) = "eq", NEW x \in Constants,
               {Right(a), Right(b)} = Constants \ {x}, OrRule(ty, a, b) = <<"neq", s, x>>
        PROVE  ValueOf(v, OrRule(ty, a, b)) = EXPR_OR(ValueOf(v, a), ValueOf(v, b))
    <2>1. /\ Left(a) = s /\ s \in S
          /\ ValueOf(v, a) = IF v[s] = v[Right(a)] THEN 2 ELSE 0
      BY <1>1, <1>3, ComparisonIs DEF Comparisons
    <2>2. /\ Left(b) = s
          /\ ValueOf(v, b) = IF v[s] = v[Right(b)] THEN 2 ELSE 0
      BY <1>2, <1>3, ComparisonIs DEF Comparisons
    <2>3. v[s] \in Constants /\ \A c \in Constants : v[c] = c
      BY <1>3, <2>1 DEF Valuation, Constants
    <2>4. ValueOf(v, OrRule(ty, a, b)) = IF v[s] = x THEN 0 ELSE 2
      <3>1. ValueOf(v, <<"neq", s, x>>) = IF v[s] = v[x] THEN 0 ELSE 2
        BY MadeComparison DEF Comparisons
      <3>. QED
        BY <1>3, <2>3, <3>1
    <2>5. v[s] = x <=> v[s] # Right(a) /\ v[s] # Right(b)
      BY <1>3, <2>3
    <2>6. Right(a) \in Constants /\ Right(b) \in Constants
      BY <1>3
    <2>. QED
      BY <2>1, <2>2, <2>3, <2>4, <2>5, <2>6 DEF EXPR_OR
  <1>4. ASSUME ty[s] = "bool", {a, b} = {Sym(s), <<"not", Sym(s)>>}, OrRule(ty, a, b) = Yes
        PROVE  ValueOf(v, OrRule(ty, a, b)) = EXPR_OR(ValueOf(v, a), ValueOf(v, b))
    <2>1. {ValueOf(v, a), ValueOf(v, b)} = {TriOf(v[s]), 2 - TriOf(v[s])}
      <3>1. ValueOf(v, Sym(s)) = TriOf(v[s]) /\ ValueOf(v, <<"not", Sym(s)>>) = 2 - TriOf(v[s])
        BY MadeSymbol
      <3>2. \/ a = Sym(s) /\ b = <<"not", Sym(s)>>
            \/ b = Sym(s) /\ a = <<"not", Sym(s)>>
        BY <1>4 DEF Sym
      <3>. QED
        BY <3>1, <3>2
    <2>2. s \in S
      BY <1>1, <1>4, SymbolIs, OperandIs, LeafIs DEF Sym, Tag, Left
    <2>3. TriOf(v[s]) \in {0, 2}
      BY <1>4, <2>2 DEF Valuation, TriOf
    <2>4. ValueOf(v, Yes) = 2
      BY MadeSymbol DEF Yes, Valuation, Constants, TriOf
    <2>. QED
      BY <1>4, <2>1, <2>3, <2>4 DEF EXPR_OR
  <1>. QED
    BY <1>1, <1>3, <1>4, OrCases

(* The same of an and-rule; x and y are the two operands.                  *)
Pair(a, b, x, y) == (x = a /\ y = b) \/ (x = b /\ y = a)

LEMMA AndCases ==
    ASSUME NEW ty, NEW a, NEW b, NEW s, s = FirstSubject(a), AndRule(ty, a, b) # NULL
    PROVE  /\ s = SecondSubject(b) /\ ty[s] \in {"bool", "tristate"}
           /\ \/ \E x, y :
                    /\ Pair(a, b, x, y) /\ Tag(x) = "sym"
                    /\ \/ Tag(y) = "eq" /\ Right(y) = "y" /\ AndRule(ty, a, b) = <<"eq", s, "y">>
                       \/ Tag(y) = "neq" /\ Right(y) = "n" /\ AndRule(ty, a, b) = Sym(s)
                       \/ Tag(y) = "neq" /\ Right(y) = "m" /\ AndRule(ty, a, b) = <<"eq", s, "y">>
              \/ \E x, y :
                    /\ Pair(a, b, x, y) /\ Tag(x) = "eq" /\ Tag(y) = "neq"
                    /\ Right(x) \in Constants /\ Right(y) \in Constants
                    /\ AndRule(ty, a, b) = IF Right(x) # Right(y) THEN <<"eq", s, Right(x)>> ELSE No
              \/ /\ ty[s] = "tristate" /\ Tag(a) = "neq" /\ Tag(b) = "neq"
                 /\ \E x \in Constants : /\ {Right(a), Right(b)} = Constants \ {x}
                                         /\ AndRule(ty, a, b) = <<"eq", s, x>>
  <1>1. Joinable(ty, a, b)
    BY DEF AndRule
  <1>2. s = SecondSubject(b) /\ ty[s] \in {"bool", "tristate"}
    BY <1>1 DEF Joinable
  <1> DEFINE EqNeq(x, y) == /\ Tag(x) = "eq" /\ Tag(y) = "neq"
                            /\ Right(x) \in Constants /\ Right(y) \in Constants
             EqBut(x, y) == IF Right(x) # Right(y) THEN <<"eq", s, Right(x)>> ELSE No
  <1>3. \/ PlainAnd(a, b, "eq", "y") /\ AndRule(ty, a, b) = <<"eq", s, "y">>
        \/ PlainAnd(a, b, "neq", "n") /\ AndRule(ty, a, b) = Sym(s)
        \/ PlainAnd(a, b, "neq", "m") /\ AndRule(ty, a, b) = <<"eq", s, "y">>
        \/ EqNeq(a, b) /\ AndRule(ty, a, b) = EqBut(a, b)
        \/ EqNeq(b, a) /\ AndRule(ty, a, b) = EqBut(b, a)
        \/ /\ ty[s] = "tristate"
           /\ \/ Both(a, b, "neq", {"y", "n"}) /\ AndRule(ty, a, b) = <<"eq", s, "m">>
              \/ Both(a, b, "neq", {"y", "m"}) /\ AndRule(ty, a, b) = <<"eq", s, "n">>
              \/ Both(a, b, "neq", {"m", "n"}) /\ AndRule(ty, a, b) = <<"eq", s, "y">>
    BY <1>1 DEF AndRule, Both, PlainAnd
  <1>4. /\ {"y", "m"} = Constants \ {"n"} /\ {"y", "n"} = Constants \ {"m"}
        /\ {"m", "n"} = Constants \ {"y"} /\ {"y", "m", "n"} = Constants
    BY DEF Constants
  <1>. QED
    BY <1>2, <1>3, <1>4 DEF Both, PlainAnd, Pair

LEMMA AndCommutes ==
    ASSUME NEW a, NEW b, NEW x, NEW y, Pair(a, b, x, y), NEW v,
           ValueOf(v, a) \in 0 .. 2, ValueOf(v, b) \in 0 .. 2
    PROVE  EXPR_AND(ValueOf(v, a), ValueOf(v, b)) = EXPR_AND(ValueOf(v, x), ValueOf(v, y))
  BY DEF Pair, EXPR_AND

(* Two operands that expr_join_and makes into one have the value of the one.*)
THEOREM AndRuleMeans ==
    ASSUME NEW S, NEW ty, NEW v, Valuation(S, ty, v),
           NEW a \in Operands(S), NEW b \in Operands(S), AndRule(ty, a, b) # NULL
    PROVE  ValueOf(v, AndRule(ty, a, b)) = EXPR_AND(ValueOf(v, a), ValueOf(v, b))
  <1>1. PICK s : s = FirstSubject(a)
    OBVIOUS
  <1>2. s = SecondSubject(b) /\ ty[s] \in {"bool", "tristate"}
    BY <1>1, AndCases
  (* Both are leaves about s, and what s is.                               *)
  <1>3. ASSUME NEW x, NEW y, Pair(a, b, x, y), Tag(x) \in Comparisons \cup {"sym"},
               Tag(y) \in Comparisons
        PROVE  /\ Left(x) = s /\ Left(y) = s /\ s \in S
               /\ v[s] \in Constants /\ \A c \in Constants : v[c] = c
               /\ Tag(x) = "sym" => ValueOf(v, x) = TriOf(v[s])
               /\ Tag(x) # "sym" =>
                     ValueOf(v, x) = IF (Tag(x) = "eq") = (v[s] = v[Right(x)]) THEN 2 ELSE 0
               /\ ValueOf(v, y) = IF (Tag(y) = "eq") = (v[s] = v[Right(y)]) THEN 2 ELSE 0
               /\ EXPR_AND(ValueOf(v, a), ValueOf(v, b)) = EXPR_AND(ValueOf(v, x), ValueOf(v, y))
    <2>1. x \in Operands(S) /\ y \in Operands(S)
      BY <1>3 DEF Pair
    <2>2. /\ Left(x) \in S /\ FirstSubject(x) = Left(x) /\ SecondSubject(x) = Left(x)
          /\ Left(y) \in S /\ FirstSubject(y) = Left(y) /\ SecondSubject(y) = Left(y)
          /\ Tag(x) = "sym" => ValueOf(v, x) = TriOf(v[Left(x)])
          /\ Tag(x) # "sym" =>
                ValueOf(v, x) = IF (Tag(x) = "eq") = (v[Left(x)] = v[Right(x)]) THEN 2 ELSE 0
          /\ ValueOf(v, y) = IF (Tag(y) = "eq") = (v[Left(y)] = v[Right(y)]) THEN 2 ELSE 0
      BY <1>3, <2>1, SymbolIs, ComparisonIs
    <2>3. Left(x) = s /\ Left(y) = s
      BY <1>1, <1>2, <1>3, <2>2 DEF Pair
    <2>4. v[s] \in Constants /\ \A c \in Constants : v[c] = c
      BY <1>2, <2>2, <2>3 DEF Valuation, Constants
    <2>5. ValueOf(v, x) \in 0 .. 2 /\ ValueOf(v, y) \in 0 .. 2
      BY <2>2 DEF TriOf
    <2>. QED
      BY <1>3, <2>2, <2>3, <2>4, <2>5, AndCommutes DEF Pair
  <1>4. ASSUME NEW x, NEW y, Pair(a, b, x, y), Tag(x) = "sym",
               \/ Tag(y) = "eq" /\ Right(y) = "y" /\ AndRule(ty, a, b) = <<"eq", s, "y">>
               \/ Tag(y) = "neq" /\ Right(y) = "n" /\ AndRule(ty, a, b) = Sym(s)
               \/ Tag(y) = "neq" /\ Right(y) = "m" /\ AndRule(ty, a, b) = <<"eq", s, "y">>
        PROVE  ValueOf(v, AndRule(ty, a, b)) = EXPR_AND(ValueOf(v, a), ValueOf(v, b))
    <2>1. ValueOf(v, <<"eq", s, "y">>) = IF v[s] = v["y"] THEN 2 ELSE 0
      BY MadeComparison DEF Comparisons
    <2>2. ValueOf(v, Sym(s)) = TriOf(v[s])
      BY MadeSymbol
    <2>3. /\ v[s] \in {"y", "m", "n"} /\ v["y"] = "y" /\ v["m"] = "m" /\ v["n"] = "n"
          /\ ValueOf(v, x) = TriOf(v[s])
          /\ ValueOf(v, y) = IF (Tag(y) = "eq") = (v[s] = v[Right(y)]) THEN 2 ELSE 0
          /\ EXPR_AND(ValueOf(v, a), ValueOf(v, b)) = EXPR_AND(ValueOf(v, x), ValueOf(v, y))
      BY <1>3, <1>4 DEF Comparisons, Constants
    <2>. QED
      BY <1>4, <2>1, <2>2, <2>3 DEF EXPR_AND, TriOf
  <1>5. ASSUME NEW x, NEW y, Pair(a, b, x, y), Tag(x) = "eq", Tag(y) = "neq",
               Right(x) \in Constants, Right(y) \in Constants,
               AndRule(ty, a, b) = IF Right(x) # Right(y) THEN <<"eq", s, Right(x)>> ELSE No
        PROVE  ValueOf(v, AndRule(ty, a, b)) = EXPR_AND(ValueOf(v, a), ValueOf(v, b))
    <2>1. ValueOf(v, <<"eq", s, Right(x)>>) = IF v[s] = v[Right(x)] THEN 2 ELSE 0
      BY MadeComparison DEF Comparisons
    <2>2. /\ v[Right(x)] = Right(x) /\ v[Right(y)] = Right(y)
          /\ ValueOf(v, x) = IF v[s] = v[Right(x)] THEN 2 ELSE 0
          /\ ValueOf(v, y) = IF v[s] = v[Right(y)] THEN 0 ELSE 2
          /\ EXPR_AND(ValueOf(v, a), ValueOf(v, b)) = EXPR_AND(ValueOf(v, x), ValueOf(v, y))
      BY <1>3, <1>5 DEF Comparisons
    <2>3. ValueOf(v, No) = 0
      BY MadeSymbol DEF No, Valuation, Constants, TriOf
    <2>. QED
      BY <1>5, <2>1, <2>2, <2>3 DEF EXPR_AND
  <1>6. ASSUME Tag(a) = "neq", Tag(b) = "neq", NEW x \in Constants,
               {Right(a), Right(b)} = Constants \ {x}, AndRule(ty, a, b) = <<"eq", s, x>>
        PROVE  ValueOf(v, AndRule(ty, a, b)) = EXPR_AND(ValueOf(v, a), ValueOf(v, b))
    <2>1. ValueOf(v, <<"eq", s, x>>) = IF v[s] = v[x] THEN 2 ELSE 0
      BY MadeComparison DEF Comparisons
    <2>2. /\ v[s] \in Constants /\ \A c \in Constants : v[c] = c
          /\ ValueOf(v, a) = IF v[s] = v[Right(a)] THEN 0 ELSE 2
          /\ ValueOf(v, b) = IF v[s] = v[Right(b)] THEN 0 ELSE 2
      BY <1>3, <1>6 DEF Comparisons, Pair
    <2>3. v[s] = x <=> v[s] # Right(a) /\ v[s] # Right(b)
      BY <1>6, <2>2
    <2>4. Right(a) \in Constants /\ Right(b) \in Constants
      BY <1>6
    <2>. QED
      BY <1>6, <2>1, <2>2, <2>3, <2>4 DEF EXPR_AND
  <1>. QED
    BY <1>1, <1>4, <1>5, <1>6, AndCases
-----------------------------------------------------------------------------
(* A comparison of a boolean symbol with a constant, which expr_transform  *)
(* makes the symbol, its negation or a constant, keeps its value.          *)
THEOREM ComparisonsMean ==
    ASSUME NEW S, NEW ty, NEW v, Valuation(S, ty, v), NEW e \in Operands(S), Tag(e) \in Comparisons
    PROVE  ValueOf(v, TransformComparison(ty, e)) = ValueOf(v, e)
  <1>1. PICK s : s = Left(e)
    OBVIOUS
  <1>2. CASE ty[s] = "bool" /\ Right(e) \in Constants
    <2>1. /\ s \in S /\ v[s] \in {"n", "y"} /\ v["y"] = "y" /\ v["m"] = "m" /\ v["n"] = "n"
          /\ ValueOf(v, e) = IF (Tag(e) = "eq") = (v[s] = v[Right(e)]) THEN 2 ELSE 0
      <3>1. /\ s \in S
            /\ ValueOf(v, e) = IF (Tag(e) = "eq") = (v[s] = v[Right(e)]) THEN 2 ELSE 0
        BY <1>1, ComparisonIs
      <3>. QED
        BY <1>2, <3>1 DEF Valuation, Constants
    <2>2. /\ ValueOf(v, Sym(s)) = TriOf(v[s])
          /\ ValueOf(v, <<"not", Sym(s)>>) = 2 - TriOf(v[s])
      BY MadeSymbol
    <2>3. ValueOf(v, Yes) = 2 /\ ValueOf(v, No) = 0
      <3>1. ValueOf(v, Sym("y")) = TriOf(v["y"]) /\ ValueOf(v, Sym("n")) = TriOf(v["n"])
        BY MadeSymbol
      <3>. QED
        BY <2>1, <3>1 DEF Yes, No, TriOf
    <2>4. \/ Tag(e) = "eq" /\ Right(e) = "m" /\ TransformComparison(ty, e) = No
          \/ Tag(e) = "neq" /\ Right(e) = "m" /\ TransformComparison(ty, e) = Yes
          \/ Tag(e) = "eq" /\ Right(e) = "y" /\ TransformComparison(ty, e) = Sym(s)
          \/ Tag(e) = "neq" /\ Right(e) = "n" /\ TransformComparison(ty, e) = Sym(s)
          \/ /\ \/ Tag(e) = "eq" /\ Right(e) = "n"
                \/ Tag(e) = "neq" /\ Right(e) = "y"
             /\ TransformComparison(ty, e) = <<"not", Sym(s)>>
      BY <1>1, <1>2 DEF TransformComparison, Constants, Comparisons
    <2>. QED
      BY <2>1, <2>2, <2>3, <2>4 DEF TriOf
  <1>3. CASE ~(ty[s] = "bool" /\ Right(e) \in Constants)
    BY <1>1, <1>3 DEF TransformComparison
  <1>. QED
    BY <1>2, <1>3

(* The value of a conjunction or a disjunction of two expressions.         *)
JunctionOf(type, x, y) == IF type = "and" THEN EXPR_AND(x, y) ELSE EXPR_OR(x, y)

(* expr_transform negates a comparison, a conjunction or a disjunction by  *)
(* its opposite.                                                           *)
THEOREM OppositesNegate ==
    /\ \A v, s, x : \A op \in Comparisons :
          ValueOf(v, <<Opposite(op), s, x>>) = EXPR_NOT(ValueOf(v, <<op, s, x>>))
    /\ \A type \in Junctions : \A x, y \in 0 .. 2 :
          JunctionOf(Opposite(type), EXPR_NOT(x), EXPR_NOT(y)) = EXPR_NOT(JunctionOf(type, x, y))
  <1>1. ASSUME NEW v, NEW s, NEW x, NEW op \in Comparisons
        PROVE  ValueOf(v, <<Opposite(op), s, x>>) = EXPR_NOT(ValueOf(v, <<op, s, x>>))
    <2>1. Opposite(op) \in Comparisons /\ (Opposite(op) = "eq" <=> op # "eq")
      BY DEF Opposite, Comparisons
    <2>2. /\ ValueOf(v, <<op, s, x>>) = IF (op = "eq") = (v[s] = v[x]) THEN 2 ELSE 0
          /\ ValueOf(v, <<Opposite(op), s, x>>) = IF (op # "eq") = (v[s] = v[x]) THEN 2 ELSE 0
      BY <2>1, MadeComparison
    <2>. QED
      BY <2>2 DEF EXPR_NOT
  <1>2. ASSUME NEW type \in Junctions, NEW x \in 0 .. 2, NEW y \in 0 .. 2
        PROVE  JunctionOf(Opposite(type), EXPR_NOT(x), EXPR_NOT(y)) = EXPR_NOT(JunctionOf(type, x, y))
    BY DEF Junctions, Opposite, JunctionOf, EXPR_AND, EXPR_OR, EXPR_NOT
  <1>. QED
    BY <1>1, <1>2

(* expr_eliminate_yn takes an operand that is y or n out of a conjunction  *)
(* or a disjunction, whatever the other one is: val gives the expressions  *)
(* E any values that make y and n what they are.                           *)
THEOREM UnitsMean ==
    ASSUME NEW type \in Junctions, NEW E, NEW val \in [E -> 0 .. 2], NEW l \in E, NEW r \in E,
           Yes \in E, No \in E, val[Yes] = 2, val[No] = 0
    PROVE  \/ WithoutYN(type, l, r) = <<type, l, r>>
           \/ /\ WithoutYN(type, l, r) \in E
              /\ val[WithoutYN(type, l, r)] = JunctionOf(type, val[l], val[r])
  <1>1. Unit(type) \in E /\ Zero(type) \in E /\ val[l] \in 0 .. 2 /\ val[r] \in 0 .. 2
    BY DEF Unit, Zero
  <1>2. \A x \in 0 .. 2 : /\ JunctionOf(type, val[Unit(type)], x) = x
                          /\ JunctionOf(type, x, val[Unit(type)]) = x
                          /\ JunctionOf(type, val[Zero(type)], x) = val[Zero(type)]
                          /\ JunctionOf(type, x, val[Zero(type)]) = val[Zero(type)]
    BY DEF Unit, Zero, JunctionOf, Junctions, EXPR_AND, EXPR_OR
  <1>3. \/ WithoutYN(type, l, r) = Zero(type) /\ Zero(type) \in {l, r}
        \/ WithoutYN(type, l, r) = r /\ l = Unit(type)
        \/ WithoutYN(type, l, r) = l /\ r = Unit(type)
        \/ WithoutYN(type, l, r) = <<type, l, r>>
    BY DEF WithoutYN
  <1>. QED
    BY <1>1, <1>2, <1>3
-----------------------------------------------------------------------------
(* The walks.  E is every expression that can be written with the symbols  *)
(* S, and size is what makes an expression finite: it is larger than its   *)
(* operands.  A NULL is never an operand.                                  *)
Expressions(E, S, size) ==
    /\ Constants \subseteq S
    /\ size \in [E -> Nat \ {0}]
    /\ \A s \in S : Sym(s) \in E /\ size[Sym(s)] = 1
    /\ \A op \in Comparisons, s \in S, t \in S : <<op, s, t>> \in E /\ size[<<op, s, t>>] = 2
    /\ \A x \in E : <<"not", x>> \in E /\ size[<<"not", x>>] = 2 * size[x]
    /\ \A op \in Junctions, l \in E, r \in E :
          <<op, l, r>> \in E /\ size[<<op, l, r>>] = size[l] + size[r] + 1
    /\ \A e \in E : \/ \E s \in S : e = Sym(s)
                    \/ \E op \in Comparisons, s \in S, t \in S : e = <<op, s, t>>
                    \/ \E x \in E : e = <<"not", x>>
                    \/ \E op \in Junctions, l \in E, r \in E : e = <<op, l, r>>

IsSymbol(S, e) == Tag(e) = "sym" /\ Left(e) \in S /\ e = Sym(Left(e))
IsComparison(S, e) == /\ Tag(e) \in Comparisons /\ Left(e) \in S /\ Right(e) \in S
                      /\ e = <<Tag(e), Left(e), Right(e)>>
IsNegation(E, e) == Tag(e) = "not" /\ Left(e) \in E /\ e = <<"not", Left(e)>>
IsJunction(E, e) == /\ Tag(e) \in Junctions /\ Left(e) \in E /\ Right(e) \in E
                    /\ e = <<Tag(e), Left(e), Right(e)>>

(* What an expression may be, and how large it is.                         *)
LEMMA ShapeIs ==
    ASSUME NEW E, NEW S, NEW size, Expressions(E, S, size), NEW e \in E
    PROVE  /\ size[e] \in Nat /\ size[e] > 0 /\ e # NULL
           /\ \/ IsSymbol(S, e) /\ size[e] = 1
              \/ IsComparison(S, e) /\ size[e] = 2
              \/ IsNegation(E, e) /\ size[e] = 2 * size[Left(e)]
              \/ IsJunction(E, e) /\ size[e] = size[Left(e)] + size[Right(e)] + 1
  <1>1. size[e] \in Nat /\ size[e] > 0
    BY DEF Expressions
  <1>2. ASSUME NEW s \in S, e = Sym(s)
        PROVE  e # NULL /\ IsSymbol(S, e) /\ size[e] = 1
    BY <1>2 DEF Expressions, IsSymbol, Sym, Tag, Left, NULL
  <1>3. ASSUME NEW op \in Comparisons, NEW s \in S, NEW t \in S, e = <<op, s, t>>
        PROVE  e # NULL /\ IsComparison(S, e) /\ size[e] = 2
    BY <1>3 DEF Expressions, IsComparison, Tag, Left, Right, NULL
  <1>4. ASSUME NEW x \in E, e = <<"not", x>>
        PROVE  e # NULL /\ IsNegation(E, e) /\ size[e] = 2 * size[Left(e)]
    BY <1>4 DEF Expressions, IsNegation, Tag, Left, NULL
  <1>5. ASSUME NEW op \in Junctions, NEW l \in E, NEW r \in E, e = <<op, l, r>>
        PROVE  e # NULL /\ IsJunction(E, e) /\ size[e] = size[Left(e)] + size[Right(e)] + 1
    <2>1. size[<<op, l, r>>] = size[l] + size[r] + 1
      BY DEF Expressions
    <2>. QED
      BY <1>5, <2>1 DEF IsJunction, Tag, Left, Right, NULL
  <1>6. \/ \E s \in S : e = Sym(s)
        \/ \E op \in Comparisons, s \in S, t \in S : e = <<op, s, t>>
        \/ \E x \in E : e = <<"not", x>>
        \/ \E op \in Junctions, l \in E, r \in E : e = <<op, l, r>>
    BY DEF Expressions
  <1>. QED
    BY <1>1, <1>2, <1>3, <1>4, <1>5, <1>6

(* What can be written.                                                    *)
LEMMA Written ==
    ASSUME NEW E, NEW S, NEW size, Expressions(E, S, size)
    PROVE  /\ \A s \in S : Sym(s) \in E
           /\ \A op \in Comparisons, s \in S, t \in S : <<op, s, t>> \in E
           /\ \A x \in E : <<"not", x>> \in E
           /\ \A op \in Junctions, l \in E, r \in E : <<op, l, r>> \in E
  BY DEF Expressions

NatLess == {x \in Nat \X Nat : x[1] < x[2]}

(* What holds of a thing whenever it holds of all that are smaller holds   *)
(* of every thing: P is the set of those of D of which it holds.            *)
LEMMA SizeInduction ==
    ASSUME NEW D, NEW size \in [D -> Nat], NEW P,
           \A d \in D : (\A x \in D : size[x] < size[d] => x \in P) => d \in P
    PROVE  D \subseteq P
  <1>1. SUFFICES ASSUME NEW c \in D, c \notin P PROVE FALSE
    OBVIOUS
  <1> DEFINE T == {size[d] : d \in D \ P}
  <1>2. IsWellFoundedOn(NatLess, Nat)
    <2>1. NatLess = OpToRel(<, Nat)
      BY DEF NatLess, OpToRel
    <2>. QED
      BY <2>1, NatLessThanWellFounded
  <1>3. T \subseteq Nat /\ T # {}
    BY <1>1
  <1>4. \E n \in T : \A m \in T : ~ (<<m, n>> \in NatLess)
    BY <1>2, <1>3, WFMin
  <1>5. PICK d \in D \ P : \A m \in T : ~ (<<m, size[d]>> \in NatLess)
    BY <1>4
  <1>6. ASSUME NEW x \in D, size[x] < size[d]
        PROVE  x \in P
    <2>1. <<size[x], size[d]>> \in NatLess
      BY <1>6 DEF NatLess
    <2>. QED
      BY <1>5, <2>1
  <1>. QED
    BY <1>5, <1>6
-----------------------------------------------------------------------------
(* The values val that expr_calc_value finds under v.                      *)
Calculates(E, v, val) ==
    LET Calc(x) == val[x] IN val = [e \in E |-> CalcBody(v, e, Calc)]

LEMMA Calculated ==
    ASSUME NEW E, NEW S, NEW size, Expressions(E, S, size), NEW v, NEW val, Calculates(E, v, val)
    PROVE  /\ \A s \in S : val[Sym(s)] = TriOf(v[s])
           /\ \A op \in Comparisons, s \in S, t \in S :
                 val[<<op, s, t>>] = IF (op = "eq") = (v[s] = v[t]) THEN 2 ELSE 0
           /\ \A x \in E : val[<<"not", x>>] = 2 - val[x]
           /\ \A op \in Junctions, l \in E, r \in E :
                 val[<<op, l, r>>] = JunctionOf(op, val[l], val[r])
  <1>1. ASSUME NEW s \in S
        PROVE  val[Sym(s)] = TriOf(v[s])
    <2>1. Sym(s) \in E
      BY DEF Expressions
    <2>. QED
      BY <2>1, Zenon DEF Calculates, CalcBody, NULL, Sym, Tag, Left, Comparisons, LeafValue
  <1>2. ASSUME NEW op \in Comparisons, NEW s \in S, NEW t \in S
        PROVE  val[<<op, s, t>>] = IF (op = "eq") = (v[s] = v[t]) THEN 2 ELSE 0
    <2>1. <<op, s, t>> \in E
      BY DEF Expressions
    <2>2. /\ <<op, s, t>> # NULL /\ Tag(<<op, s, t>>) \in Comparisons \cup {"sym"}
          /\ Tag(<<op, s, t>>) \notin {"and", "or", "not"}
      BY DEF NULL, Tag, Comparisons
    <2>3. val[<<op, s, t>>] = LeafValue(v, <<op, s, t>>)
      BY <2>1, <2>2 DEF Calculates, CalcBody
    <2>. QED
      BY <2>3 DEF LeafValue, Tag, Left, Right, Comparisons
  <1>3. ASSUME NEW x \in E
        PROVE  val[<<"not", x>>] = 2 - val[x]
    <2>1. <<"not", x>> \in E
      BY DEF Expressions
    <2>2. val[<<"not", x>>] = EXPR_NOT(val[x])
      BY <2>1, Zenon DEF Calculates, CalcBody, NULL, Tag, Left, Comparisons
    <2>. QED
      BY <2>2 DEF EXPR_NOT
  <1>4. ASSUME NEW op \in Junctions, NEW l \in E, NEW r \in E
        PROVE  val[<<op, l, r>>] = JunctionOf(op, val[l], val[r])
    <2>1. <<op, l, r>> \in E
      BY DEF Expressions
    <2>2. CASE op = "and"
      BY <2>1, <2>2, Zenon DEF Calculates, CalcBody, NULL, Tag, Left, Right, Comparisons, JunctionOf
    <2>3. CASE op = "or"
      BY <2>1, <2>3, Zenon DEF Calculates, CalcBody, NULL, Tag, Left, Right, Comparisons, JunctionOf
    <2>. QED
      BY <2>2, <2>3 DEF Junctions
  <1>. QED
    BY <1>1, <1>2, <1>3, <1>4

(* Every expression has one of the three values.                           *)
THEOREM ValuesAreTristates ==
    ASSUME NEW E, NEW S, NEW size, Expressions(E, S, size), NEW v, NEW val, Calculates(E, v, val)
    PROVE  val \in [E -> 0 .. 2]
  <1> DEFINE P == {e \in E : val[e] \in 0 .. 2}
  <1>1. ASSUME NEW e \in E, \A x \in E : size[x] < size[e] => x \in P
        PROVE  e \in P
    <2>1. CASE IsSymbol(S, e)
      BY <2>1, Calculated DEF IsSymbol, TriOf
    <2>2. CASE IsComparison(S, e)
      <3>1. val[<<Tag(e), Left(e), Right(e)>>]
               = IF (Tag(e) = "eq") = (v[Left(e)] = v[Right(e)]) THEN 2 ELSE 0
        BY <2>2, Calculated DEF IsComparison
      <3>. QED
        BY <2>2, <3>1 DEF IsComparison
    <2>3. CASE IsNegation(E, e) /\ size[e] = 2 * size[Left(e)]
      <3>1. val[Left(e)] \in 0 .. 2
        BY <1>1, <2>3, ShapeIs DEF IsNegation
      <3>2. val[<<"not", Left(e)>>] = 2 - val[Left(e)]
        BY <2>3, Calculated DEF IsNegation
      <3>. QED
        BY <2>3, <3>1, <3>2 DEF IsNegation
    <2>4. CASE IsJunction(E, e) /\ size[e] = size[Left(e)] + size[Right(e)] + 1
      <3>1. val[Left(e)] \in 0 .. 2 /\ val[Right(e)] \in 0 .. 2
        BY <1>1, <2>4, ShapeIs DEF IsJunction
      <3>2. val[<<Tag(e), Left(e), Right(e)>>] = JunctionOf(Tag(e), val[Left(e)], val[Right(e)])
        BY <2>4, Calculated DEF IsJunction
      <3>. QED
        BY <2>4, <3>1, <3>2 DEF IsJunction, JunctionOf, EXPR_AND, EXPR_OR
    <2>. QED
      BY <2>1, <2>2, <2>3, <2>4, ShapeIs
  <1>2. size \in [E -> Nat]
    BY DEF Expressions
  <1>3. E \subseteq P
    <2> HIDE DEF P
    <2>. QED
      BY <1>1, <1>2, SizeInduction
  <1>. QED
    BY <1>3 DEF Calculates
-----------------------------------------------------------------------------
(* What elim, expr_eliminate_yn, makes of each expression.                 *)
Eliminates(E, elim) ==
    LET Eliminate(x) == elim[x] IN elim = [e \in E |-> EliminateYNBody(e, Eliminate)]

LEMMA ConstantsCalculated ==
    ASSUME NEW E, NEW S, NEW size, Expressions(E, S, size), NEW v, NEW val, Calculates(E, v, val),
           NEW ty, Valuation(S, ty, v)
    PROVE  /\ Yes \in E /\ No \in E /\ Mod \in E
           /\ val[Yes] = 2 /\ val[No] = 0 /\ val[Mod] = 1
  <1>1. {"y", "m", "n"} \subseteq S /\ v["y"] = "y" /\ v["m"] = "m" /\ v["n"] = "n"
    BY DEF Valuation, Constants
  <1>2. \A s \in S : Sym(s) \in E
    BY Written
  <1>3. \A s \in S : val[Sym(s)] = TriOf(v[s])
    BY Calculated
  <1>. QED
    BY <1>1, <1>2, <1>3 DEF Yes, No, Mod, TriOf

(* expr_eliminate_yn, which takes the constants y and n out of the junctions*)
(* of an expression, leaves its value what it was.                         *)
THEOREM EliminateYNMeans ==
    ASSUME NEW E, NEW S, NEW size, Expressions(E, S, size), NEW v, NEW val, Calculates(E, v, val),
           NEW ty, Valuation(S, ty, v), NEW elim, Eliminates(E, elim)
    PROVE  \A e \in E : elim[e] \in E /\ val[elim[e]] = val[e]
  <1> DEFINE P == {e \in E : elim[e] \in E /\ val[elim[e]] = val[e]}
  <1>1. ASSUME NEW e \in E, \A x \in E : size[x] < size[e] => x \in P
        PROVE  e \in P
    <2>1. CASE Tag(e) \notin Junctions
      BY <2>1 DEF Eliminates, EliminateYNBody
    <2>2. CASE IsJunction(E, e) /\ size[e] = size[Left(e)] + size[Right(e)] + 1
      <3>1. PICK type \in Junctions, l \in E, r \in E : type = Tag(e) /\ l = Left(e) /\ r = Right(e)
        BY <2>2 DEF IsJunction
      <3>2. e = <<type, l, r>> /\ size[e] = size[l] + size[r] + 1
        BY <2>2, <3>1 DEF IsJunction
      <3>3. size[l] < size[e] /\ size[r] < size[e]
        BY <3>2, ShapeIs
      <3>4. /\ elim[l] \in E /\ val[elim[l]] = val[l]
            /\ elim[r] \in E /\ val[elim[r]] = val[r]
        BY <1>1, <3>3
      <3>5. elim[e] = WithoutYN(type, elim[l], elim[r])
        BY <3>1, ShapeIs DEF Eliminates, EliminateYNBody
      <3>6. val[e] = JunctionOf(type, val[l], val[r])
        BY <3>2, Calculated
      <3>7. /\ <<type, elim[l], elim[r]>> \in E
            /\ val[<<type, elim[l], elim[r]>>] = JunctionOf(type, val[l], val[r])
        <4>1. <<type, elim[l], elim[r]>> \in E
          BY <3>4, Written
        <4>2. val[<<type, elim[l], elim[r]>>] = JunctionOf(type, val[elim[l]], val[elim[r]])
          BY <3>4, Calculated
        <4>. QED
          BY <3>4, <4>1, <4>2
      <3>8. \/ elim[e] = <<type, elim[l], elim[r]>>
            \/ elim[e] \in E /\ val[elim[e]] = JunctionOf(type, val[l], val[r])
        <4>1. val \in [E -> 0 .. 2] /\ Yes \in E /\ No \in E /\ val[Yes] = 2 /\ val[No] = 0
          BY ValuesAreTristates, ConstantsCalculated
        <4>. QED
          BY <3>4, <3>5, <4>1, UnitsMean
      <3>. QED
        BY <3>6, <3>7, <3>8
    <2>. QED
      BY <2>1, <2>2, ShapeIs DEF IsSymbol, IsComparison, IsNegation, Comparisons, Junctions
  <1>2. size \in [E -> Nat]
    BY DEF Expressions
  <1>3. E \subseteq P
    <2> HIDE DEF P
    <2>. QED
      BY <1>1, <1>2, SizeInduction
  <1>. QED
    BY <1>3
-----------------------------------------------------------------------------
(* expr_transform leaves the value of every expression what it was, and    *)
(* what it makes is in negation normal form: N are the expressions in      *)
(* which only symbols are negated.                                         *)
Transforms(ty, E, trans) ==
    LET Transform(x) == trans[x] IN trans = [e \in E |-> TransformBody(ty, e, Transform)]
NormalForms(E, N) ==
    N = {e \in E : \/ Tag(e) \in Comparisons \cup {"sym"}
                   \/ Tag(e) = "not" /\ Tag(Left(e)) = "sym"
                   \/ Tag(e) \in Junctions /\ Left(e) \in N /\ Right(e) \in N}

LEMMA OperandsCalculated ==
    ASSUME NEW E, NEW S, NEW size, Expressions(E, S, size), NEW v, NEW val, Calculates(E, v, val),
           NEW x \in Operands(S)
    PROVE  x \in E /\ val[x] = ValueOf(v, x)
  <1>1. ASSUME NEW l \in Leaves(S)
        PROVE  l \in E /\ val[l] = LeafValue(v, l)
    <2>1. CASE \E s \in S : l = Sym(s)
      <3>1. PICK s \in S : l = Sym(s)
        BY <2>1
      <3>2. l \in E /\ val[l] = TriOf(v[s])
        BY <3>1, Written, Calculated
      <3>. QED
        BY <3>1, <3>2 DEF LeafValue, Sym, Tag, Left
    <2>2. CASE \E op \in Comparisons, s \in S, t \in S : l = <<op, s, t>>
      <3>1. PICK op \in Comparisons, s \in S, t \in S : l = <<op, s, t>>
        BY <2>2
      <3>2. l \in E /\ val[l] = IF (op = "eq") = (v[s] = v[t]) THEN 2 ELSE 0
        <4>1. <<op, s, t>> \in E
          BY Written
        <4>2. val[<<op, s, t>>] = IF (op = "eq") = (v[s] = v[t]) THEN 2 ELSE 0
          BY Calculated
        <4>. QED
          BY <3>1, <4>1, <4>2
      <3>. QED
        BY <3>1, <3>2 DEF LeafValue, Tag, Left, Right, Comparisons
    <2>. QED
      BY <2>1, <2>2 DEF Leaves, Sym
  <1>2. CASE x \in Leaves(S)
    BY <1>1, <1>2, OperandIs, LeafIs DEF ValueOf, Comparisons
  <1>3. ASSUME NEW l \in Leaves(S), x = <<"not", l>>
        PROVE  x \in E /\ val[x] = ValueOf(v, x)
    <2>1. <<"not", l>> \in E /\ val[<<"not", l>>] = 2 - LeafValue(v, l)
      BY <1>1, Written, Calculated
    <2>. QED
      BY <1>3, <2>1 DEF ValueOf, EXPR_NOT, Tag, Left
  <1>. QED
    BY <1>2, <1>3 DEF Operands

(* A comparison that is transformed.                                       *)
LEMMA ComparisonTransformed ==
    ASSUME NEW E, NEW S, NEW size, Expressions(E, S, size), NEW v, NEW val, Calculates(E, v, val),
           NEW ty, Valuation(S, ty, v), NEW N, NormalForms(E, N), NEW e \in E, IsComparison(S, e),
           NEW t, t = TransformComparison(ty, e)
    PROVE  t \in N /\ size[t] \in Nat /\ size[t] <= 2 /\ val[t] = val[e]
  <1>1. e \in Leaves(S) /\ e \in Operands(S) /\ Left(e) \in S
    BY DEF IsComparison, Leaves, Operands
  <1>2. \/ t = e
        \/ \E s \in S : t = Sym(s) \/ t = <<"not", Sym(s)>>
    BY <1>1 DEF TransformComparison, Yes, No, Valuation, Constants
  <1>3. t \in Operands(S)
    BY <1>1, <1>2 DEF Operands, Leaves, Sym
  <1>4. t \in E /\ val[t] = val[e]
    <2>1. t \in E /\ val[t] = ValueOf(v, t) /\ val[e] = ValueOf(v, e)
      BY <1>1, <1>3, OperandsCalculated
    <2>2. ValueOf(v, t) = ValueOf(v, e)
      BY <1>1, ComparisonsMean DEF IsComparison
    <2>. QED
      BY <2>1, <2>2
  <1>5. size[t] \in Nat /\ size[t] <= 2
    <2>1. size[e] = 2
      BY ShapeIs DEF IsComparison, IsSymbol, IsNegation, IsJunction, Comparisons, Junctions
    <2>2. \A s \in S : Sym(s) \in E /\ size[Sym(s)] = 1
      BY DEF Expressions
    <2>3. \A s \in S : size[<<"not", Sym(s)>>] = 2
      BY <2>2 DEF Expressions
    <2>. QED
      BY <1>2, <2>1, <2>2, <2>3
  <1>6. \/ Tag(t) \in Comparisons \cup {"sym"}
        \/ Tag(t) = "not" /\ Tag(Left(t)) = "sym"
    BY <1>2 DEF Sym, Tag, Left, IsComparison
  <1>. QED
    BY <1>4, <1>5, <1>6 DEF NormalForms

(* What trans says of a negation, by what its operand x became.            *)
LEMMA NegationTransformed ==
    ASSUME NEW E, NEW S, NEW size, Expressions(E, S, size), NEW ty, NEW trans, Transforms(ty, E, trans),
           NEW e \in E, IsNegation(E, e), NEW x, x = trans[Left(e)]
    PROVE  /\ IsNegation(E, x) => trans[e] = trans[Left(x)]
           /\ IsComparison(S, x) => trans[e] = <<Opposite(Tag(x)), Left(x), Right(x)>>
           /\ IsJunction(E, x) =>
                 trans[e] = trans[<<Opposite(Tag(x)), <<"not", Left(x)>>, <<"not", Right(x)>>>>]
           /\ IsSymbol(S, x) => \/ x = Yes /\ trans[e] = No
                                \/ x = No /\ trans[e] = Yes
                                \/ x = Mod /\ trans[e] = Mod
                                \/ trans[e] = <<"not", x>>
  <1>1. trans[e] = CASE Tag(x) = "not" -> trans[Left(x)]
                     [] Tag(x) \in Comparisons -> <<Opposite(Tag(x)), Left(x), Right(x)>>
                     [] Tag(x) \in Junctions ->
                           trans[<<Opposite(Tag(x)), <<"not", Left(x)>>, <<"not", Right(x)>>>>]
                     [] x = Yes -> No
                     [] x = No -> Yes
                     [] x = Mod -> Mod
                     [] OTHER -> <<"not", x>>
    <2>1. e # NULL /\ Tag(e) # "sym" /\ Tag(e) \notin Comparisons /\ Tag(e) \notin Junctions
      BY ShapeIs DEF IsNegation, Comparisons, Junctions
    <2>. QED
      BY <2>1, Zenon DEF Transforms, TransformBody
  <1>2. Tag(Yes) = "sym" /\ Tag(No) = "sym" /\ Tag(Mod) = "sym" /\ Yes # No /\ Yes # Mod /\ No # Mod
    BY DEF Yes, No, Mod, Sym, Tag
  <1>3. CASE IsNegation(E, x)
    <2>1. trans[e] = trans[Left(x)]
      BY <1>1, <1>2, <1>3 DEF IsNegation, Comparisons, Junctions
    <2>. QED
      BY <1>3, <2>1 DEF IsNegation, IsComparison, IsJunction, IsSymbol, Comparisons, Junctions
  <1>4. CASE IsComparison(S, x)
    <2>1. trans[e] = <<Opposite(Tag(x)), Left(x), Right(x)>>
      BY <1>1, <1>2, <1>4 DEF IsComparison, Comparisons, Junctions
    <2>. QED
      BY <1>4, <2>1 DEF IsNegation, IsComparison, IsJunction, IsSymbol, Comparisons, Junctions
  <1>5. CASE IsJunction(E, x)
    <2>1. trans[e] = trans[<<Opposite(Tag(x)), <<"not", Left(x)>>, <<"not", Right(x)>>>>]
      BY <1>1, <1>2, <1>5 DEF IsJunction, Comparisons, Junctions
    <2>. QED
      BY <1>5, <2>1 DEF IsNegation, IsComparison, IsJunction, IsSymbol, Comparisons, Junctions
  <1>6. CASE IsSymbol(S, x)
    <2>1. \/ x = Yes /\ trans[e] = No
          \/ x = No /\ trans[e] = Yes
          \/ x = Mod /\ trans[e] = Mod
          \/ trans[e] = <<"not", x>>
      BY <1>1, <1>2, <1>6 DEF IsSymbol, Comparisons, Junctions
    <2>. QED
      BY <1>6, <2>1 DEF IsNegation, IsComparison, IsJunction, IsSymbol, Comparisons, Junctions
  <1>. QED
    BY <1>3, <1>4, <1>5, <1>6

(* expr_transform brings every expression into negation normal form, makes *)
(* it no larger, and leaves its value what it was.                         *)
THEOREM TransformMeans ==
    ASSUME NEW E, NEW S, NEW size, Expressions(E, S, size), NEW v, NEW val, Calculates(E, v, val),
           NEW ty, Valuation(S, ty, v), NEW N, NormalForms(E, N),
           NEW trans, Transforms(ty, E, trans)
    PROVE  \A e \in E : trans[e] \in N /\ size[trans[e]] <= size[e] /\ val[trans[e]] = val[e]
  <1> DEFINE P == {e \in E : trans[e] \in N /\ size[trans[e]] <= size[e] /\ val[trans[e]] = val[e]}
  <1>0. N \subseteq E
    BY DEF NormalForms
  <1>1. ASSUME NEW e \in E, \A x \in E : size[x] < size[e] => x \in P
        PROVE  e \in P
    <2>0. size[e] \in Nat /\ size[e] > 0 /\ e # NULL
      BY ShapeIs
    <2>1. CASE IsSymbol(S, e)
      <3>1. trans[e] = e
        BY <2>1 DEF Transforms, TransformBody, IsSymbol
      <3>. QED
        BY <2>0, <2>1, <3>1 DEF NormalForms, IsSymbol
    <2>2. CASE IsComparison(S, e) /\ size[e] = 2
      <3>1. trans[e] = TransformComparison(ty, e)
        BY <2>0, <2>2 DEF Transforms, TransformBody, IsComparison, Comparisons
      <3>. QED
        BY <2>2, <3>1, ComparisonTransformed
    <2>3. CASE IsJunction(E, e) /\ size[e] = size[Left(e)] + size[Right(e)] + 1
      <3>1. PICK type \in Junctions, l \in E, r \in E : type = Tag(e) /\ l = Left(e) /\ r = Right(e)
        BY <2>3 DEF IsJunction
      <3>2. e = <<type, l, r>> /\ size[e] = size[l] + size[r] + 1
        BY <2>3, <3>1 DEF IsJunction
      <3>3. size[l] \in Nat /\ size[l] < size[e] /\ size[r] \in Nat /\ size[r] < size[e]
        BY <3>2, ShapeIs
      <3>4. l \in P /\ r \in P
        BY <1>1, <3>3
      <3>5. PICK x \in N, y \in N : x = trans[l] /\ y = trans[r]
        BY <3>4
      <3>6. /\ val[x] = val[l] /\ size[x] <= size[l] /\ size[x] \in Nat
            /\ val[y] = val[r] /\ size[y] <= size[r] /\ size[y] \in Nat
        BY <1>0, <3>4, <3>5, ShapeIs
      <3>7. trans[e] = <<type, x, y>>
        BY <2>0, <3>1, <3>5 DEF Transforms, TransformBody, Comparisons, Junctions
      <3>8. /\ val[e] = JunctionOf(type, val[l], val[r])
            /\ val[<<type, x, y>>] = JunctionOf(type, val[x], val[y])
        BY <1>0, <3>2, Calculated
      <3>9. <<type, x, y>> \in E /\ size[<<type, x, y>>] = size[x] + size[y] + 1
        BY <1>0 DEF Expressions
      <3>10. <<type, x, y>> \in N
        BY <3>9 DEF NormalForms, Tag, Left, Right
      <3>. QED
        BY <3>2, <3>3, <3>6, <3>7, <3>8, <3>9, <3>10
    <2>4. CASE IsNegation(E, e) /\ size[e] = 2 * size[Left(e)]
      <3>1. PICK d \in E : d = Left(e)
        BY <2>4 DEF IsNegation
      <3>2. size[d] \in Nat /\ size[d] > 0 /\ size[e] = 2 * size[d] /\ size[d] < size[e] 
        BY <2>4, <3>1, ShapeIs
      <3>3. d \in P
        BY <1>1, <3>2
      <3>4. PICK x \in N : x = trans[d]
        BY <3>3
      <3>5. val[e] = 2 - val[x] /\ val[x] \in 0 .. 2 /\ 2 * size[x] <= size[e]
        <4>1. val[e] = 2 - val[d]
          BY <2>4, <3>1, Calculated DEF IsNegation
        <4>2. val[x] = val[d] /\ size[x] <= size[d] /\ size[x] \in Nat /\ val[x] \in 0 .. 2
          BY <1>0, <3>3, <3>4, ShapeIs, ValuesAreTristates
        <4>. QED
          BY <3>2, <4>1, <4>2
      <3>6. x \in E /\ size[x] \in Nat /\ size[x] > 0
        BY <1>0, ShapeIs
      <3>7. /\ IsNegation(E, x) => trans[e] = trans[Left(x)]
            /\ IsComparison(S, x) => trans[e] = <<Opposite(Tag(x)), Left(x), Right(x)>>
            /\ IsJunction(E, x) =>
                  trans[e] = trans[<<Opposite(Tag(x)), <<"not", Left(x)>>, <<"not", Right(x)>>>>]
            /\ IsSymbol(S, x) => \/ x = Yes /\ trans[e] = No
                                 \/ x = No /\ trans[e] = Yes
                                 \/ x = Mod /\ trans[e] = Mod
                                 \/ trans[e] = <<"not", x>>
        <4>1. IsNegation(E, e) /\ x = trans[Left(e)]
          BY <2>4, <3>1, <3>4
        <4>. QED
          BY <4>1, NegationTransformed
      (* A double negation of a symbol.                                    *)
      <3>8. CASE IsNegation(E, x) /\ size[x] = 2 * size[Left(x)]
        <4>1. PICK z \in E : z = Left(x)
          BY <3>8 DEF IsNegation
        <4>2. size[z] \in Nat /\ size[z] < size[e]
          BY <3>5, <3>6, <3>8, <4>1, ShapeIs
        <4>3. z \in P
          BY <1>1, <4>2
        <4>4. trans[e] = trans[z]
          BY <3>8, <3>7, <4>1
        <4>5. val[x] = 2 - val[z] /\ val[z] \in 0 .. 2
          BY <3>8, <4>1, Calculated, ValuesAreTristates DEF IsNegation
        <4>6. trans[z] \in E /\ size[trans[z]] \in Nat
          BY <1>0, <4>3, ShapeIs
        <4>. QED
          BY <3>2, <3>5, <4>2, <4>3, <4>4, <4>5, <4>6
      <3>9. CASE IsComparison(S, x) /\ size[x] = 2
        <4>1. PICK op \in Comparisons, s \in S, t \in S : op = Tag(x) /\ s = Left(x) /\ t = Right(x)
          BY <3>9 DEF IsComparison
        <4>2. x = <<op, s, t>> /\ trans[e] = <<Opposite(op), s, t>>
          BY <3>9, <3>7, <4>1 DEF IsComparison
        <4>3. Opposite(op) \in Comparisons /\ (Opposite(op) = "eq" <=> op # "eq")
          BY DEF Opposite, Comparisons
        <4>4. /\ <<Opposite(op), s, t>> \in E /\ size[<<Opposite(op), s, t>>] = 2
              /\ Tag(<<Opposite(op), s, t>>) \in Comparisons
          BY <4>3 DEF Expressions, Tag
        <4>5. /\ val[x] = IF (op = "eq") = (v[s] = v[t]) THEN 2 ELSE 0
              /\ val[<<Opposite(op), s, t>>] = IF (Opposite(op) = "eq") = (v[s] = v[t]) THEN 2 ELSE 0
          BY <4>2, <4>3, Calculated
        <4>6. <<Opposite(op), s, t>> \in N
          BY <4>4 DEF NormalForms
        <4>. QED
          BY <3>2, <3>5, <3>9, <4>2, <4>3, <4>4, <4>5, <4>6
      <3>10. CASE IsJunction(E, x) /\ size[x] = size[Left(x)] + size[Right(x)] + 1
        <4>1. PICK type \in Junctions, l \in E, r \in E : type = Tag(x) /\ l = Left(x) /\ r = Right(x)
          BY <3>10 DEF IsJunction
        <4>2. PICK z : z = <<Opposite(type), <<"not", l>>, <<"not", r>>>>
          OBVIOUS
        <4>3. x = <<type, l, r>> /\ trans[e] = trans[z]
          BY <3>10, <3>7, <4>1, <4>2 DEF IsJunction
        <4>4. Opposite(type) \in Junctions
          BY DEF Opposite, Junctions
        <4>5. <<"not", l>> \in E /\ <<"not", r>> \in E /\ z \in E
          BY <4>2, <4>4, Written
        <4>6. size[z] = 2 * size[l] + 2 * size[r] + 1 /\ size[l] \in Nat /\ size[r] \in Nat
          <5>1. size[z] = size[<<"not", l>>] + size[<<"not", r>>] + 1
            BY <4>2, <4>4, <4>5 DEF Expressions
          <5>2. size[<<"not", l>>] = 2 * size[l] /\ size[<<"not", r>>] = 2 * size[r]
            BY DEF Expressions
          <5>. QED
            BY <5>1, <5>2, ShapeIs
        <4>7. size[z] \in Nat /\ size[z] < size[e]
          BY <3>2, <3>5, <3>10, <4>1, <4>6
        <4>8. z \in P
          BY <1>1, <4>5, <4>7
        <4>9. val[z] = 2 - val[x]
          <5>1. /\ val[x] = JunctionOf(type, val[l], val[r])
                /\ val[z] = JunctionOf(Opposite(type), val[<<"not", l>>], val[<<"not", r>>])
            BY <4>2, <4>3, <4>4, <4>5, Calculated
          <5>2. /\ val[<<"not", l>>] = EXPR_NOT(val[l]) /\ val[<<"not", r>>] = EXPR_NOT(val[r])
                /\ val[l] \in 0 .. 2 /\ val[r] \in 0 .. 2
            BY Calculated, ValuesAreTristates DEF EXPR_NOT
          <5>. QED
            BY <5>1, <5>2, OppositesNegate DEF EXPR_NOT
        <4>10. trans[z] \in E /\ size[trans[z]] \in Nat
          BY <1>0, <4>8, ShapeIs
        <4>. QED
          BY <3>2, <3>5, <4>3, <4>7, <4>8, <4>9, <4>10
      <3>11. CASE IsSymbol(S, x) /\ size[x] = 1
        <4>1. /\ Yes \in E /\ No \in E /\ Mod \in E
              /\ val[Yes] = 2 /\ val[No] = 0 /\ val[Mod] = 1
          BY ConstantsCalculated
        <4>2. /\ size[Yes] = 1 /\ size[No] = 1 /\ size[Mod] = 1
              /\ Yes \in N /\ No \in N /\ Mod \in N
          <5>1. /\ size[Yes] = 1 /\ size[No] = 1 /\ size[Mod] = 1
            BY DEF Expressions, Constants, Yes, No, Mod
          <5>2. Tag(Yes) = "sym" /\ Tag(No) = "sym" /\ Tag(Mod) = "sym"
            BY DEF Yes, No, Mod, Sym, Tag
          <5>. QED
            BY <4>1, <5>1, <5>2 DEF NormalForms
        <4>3. <<"not", x>> \in N /\ size[<<"not", x>>] = 2 /\ val[<<"not", x>>] = 2 - val[x]
          <5>1. <<"not", x>> \in E /\ size[<<"not", x>>] = 2 /\ val[<<"not", x>>] = 2 - val[x]
            <6>1. size[<<"not", x>>] = 2 * size[x]
              BY <3>6 DEF Expressions
            <6>. QED
              BY <3>6, <3>11, <6>1, Written, Calculated
          <5>2. Tag(<<"not", x>>) = "not" /\ Left(<<"not", x>>) = x
            BY DEF Tag, Left
          <5>. QED
            BY <3>11, <5>1, <5>2 DEF NormalForms, IsSymbol
        <4>4. \/ x = Yes /\ trans[e] = No
              \/ x = No /\ trans[e] = Yes
              \/ x = Mod /\ trans[e] = Mod
              \/ trans[e] = <<"not", x>>
          BY <3>11, <3>7
        <4>. QED
          BY <3>2, <3>5, <4>1, <4>2, <4>3, <4>4
      <3>. QED
        BY <3>6, <3>8, <3>9, <3>10, <3>11, ShapeIs
    <2>. QED
      BY <2>1, <2>2, <2>3, <2>4, ShapeIs
  <1>2. size \in [E -> Nat]
    BY DEF Expressions
  <1>3. E \subseteq P
    <2> HIDE DEF P
    <2>. QED
      BY <1>1, <1>2, SizeInduction
  <1>. QED
    BY <1>3
-----------------------------------------------------------------------------
(* What bool, expr_trans_bool, makes of expressions in negation normal form.*)
TransBools(ty, E, bool) ==
    LET TransBool(x) == bool[x] IN bool = [e \in E |-> TransBoolBody(ty, e, TransBool)]

(* What expr_trans_bool makes of the dependency of a symbol that is not    *)
(* tristate is n exactly when the dependency was.                          *)
THEOREM TransBoolMeans ==
    ASSUME NEW E, NEW S, NEW size, Expressions(E, S, size), NEW v, NEW val, Calculates(E, v, val),
           NEW ty, Valuation(S, ty, v), NEW N, NormalForms(E, N),
           NEW bool, TransBools(ty, E, bool)
    PROVE  \A e \in N : bool[e] \in E /\ (val[bool[e]] = 0 <=> val[e] = 0)
  <1> DEFINE P == {e \in E : e \in N => bool[e] \in E /\ (val[bool[e]] = 0 <=> val[e] = 0)}
  <1>1. ASSUME NEW e \in E, \A x \in E : size[x] < size[e] => x \in P, e \in N
        PROVE  bool[e] \in E /\ (val[bool[e]] = 0 <=> val[e] = 0)
    <2>0. e # NULL
      BY ShapeIs
    <2>1. CASE IsSymbol(S, e)
      <3>1. bool[e] = e
        BY <2>0, <2>1 DEF TransBools, TransBoolBody, IsSymbol, Junctions
      <3>. QED
        BY <3>1
    <2>2. CASE IsComparison(S, e)
      <3>1. PICK op \in Comparisons, s \in S, t \in S : op = Tag(e) /\ s = Left(e) /\ t = Right(e)
        BY <2>2 DEF IsComparison
      <3>2. bool[e] = IF op = "neq" /\ ty[s] = "tristate" /\ t = "n" THEN Sym(s) ELSE e
        BY <2>0, <3>1 DEF TransBools, TransBoolBody, Comparisons, Junctions
      <3>3. CASE op = "neq" /\ ty[s] = "tristate" /\ t = "n"
        <4>1. e = <<"neq", s, "n">>
          BY <2>2, <3>1, <3>3 DEF IsComparison
        <4>2. val[e] = IF v[s] = v["n"] THEN 0 ELSE 2
          BY <3>3, <4>1, Calculated DEF Comparisons
        <4>3. val[Sym(s)] = TriOf(v[s]) /\ Sym(s) \in E
          BY Calculated, Written
        <4>4. v["n"] = "n" /\ v[s] \in {"n", "m", "y"}
          BY <3>3 DEF Valuation, Constants
        <4>. QED
          BY <3>2, <3>3, <4>2, <4>3, <4>4 DEF TriOf
      <3>. QED
        BY <3>2, <3>3
    <2>3. CASE IsNegation(E, e)
      <3>1. PICK d \in E : d = Left(e)
        BY <2>3 DEF IsNegation
      <3>2. Tag(d) = "sym"
        BY <1>1, <2>3, <3>1 DEF NormalForms, IsNegation, Comparisons, Junctions
      <3>3. bool[d] = d
        BY <3>2, ShapeIs DEF TransBools, TransBoolBody, Comparisons, Junctions
      <3>4. bool[e] = <<"not", bool[d]>>
        BY <2>0, <2>3, <3>1 DEF TransBools, TransBoolBody, IsNegation, Junctions
      <3>. QED
        BY <2>3, <3>1, <3>3, <3>4 DEF IsNegation
    <2>4. CASE IsJunction(E, e) /\ size[e] = size[Left(e)] + size[Right(e)] + 1
      <3>1. PICK type \in Junctions, l \in E, r \in E : type = Tag(e) /\ l = Left(e) /\ r = Right(e)
        BY <2>4 DEF IsJunction
      <3>2. e = <<type, l, r>> /\ size[e] = size[l] + size[r] + 1
        BY <2>4, <3>1 DEF IsJunction
      <3>3. l \in N /\ r \in N
        BY <1>1, <3>1 DEF NormalForms, Comparisons, Junctions
      <3>4. size[l] < size[e] /\ size[r] < size[e]
        BY <3>2, ShapeIs
      <3>5. /\ bool[l] \in E /\ (val[bool[l]] = 0 <=> val[l] = 0)
            /\ bool[r] \in E /\ (val[bool[r]] = 0 <=> val[r] = 0)
        BY <1>1, <3>3, <3>4
      <3>6. PICK x \in E, y \in E : x = bool[l] /\ y = bool[r]
        BY <3>5
      <3>7. bool[e] = <<type, x, y>>
        BY <2>0, <3>1, <3>6 DEF TransBools, TransBoolBody, Junctions
      <3>8. <<type, x, y>> \in E
        BY Written
      <3>9. /\ val[e] = JunctionOf(type, val[l], val[r])
            /\ val[<<type, x, y>>] = JunctionOf(type, val[x], val[y])
        BY <3>2, Calculated
      <3>10. /\ val[l] \in 0 .. 2 /\ val[r] \in 0 .. 2 /\ val[x] \in 0 .. 2 /\ val[y] \in 0 .. 2
        BY ValuesAreTristates
      <3>. QED
        BY <3>5, <3>6, <3>7, <3>8, <3>9, <3>10 DEF JunctionOf, EXPR_AND, EXPR_OR
    <2>. QED
      BY <2>1, <2>2, <2>3, <2>4, ShapeIs
  <1>2. size \in [E -> Nat]
    BY DEF Expressions
  <1>3. \A e \in E : (\A x \in E : size[x] < size[e] => x \in P) => e \in P
    BY <1>1
  <1>4. E \subseteq P
    <2> HIDE DEF P
    <2>. QED
      BY <1>2, <1>3, SizeInduction
  <1>. QED
    BY <1>4 DEF NormalForms
-----------------------------------------------------------------------------
(* A symbol s that an expression depends on, as expr_depends_symbol says,  *)
(* is not n when the expression is not.                                    *)
Depends(E, s, dep) ==
    LET On(x) == dep[x] IN dep = [e \in E |-> DependsBody(e, s, On)]

(* An expression that depends on a symbol, as expr_depends_symbol says of it,*)
(* is n while the symbol is.                                               *)
THEOREM DependsMeans ==
    ASSUME NEW E, NEW S, NEW size, Expressions(E, S, size), NEW v, NEW val, Calculates(E, v, val),
           NEW ty, Valuation(S, ty, v), NEW s \in S, v[s] = "n",
           NEW dep, Depends(E, s, dep)
    PROVE  \A e \in E : dep[e] => val[e] = 0
  <1> DEFINE P == {e \in E : dep[e] => val[e] = 0}
  <1>1. ASSUME NEW e \in E, \A x \in E : size[x] < size[e] => x \in P, dep[e]
        PROVE  val[e] = 0
    <2>1. \/ Tag(e) = "and" /\ (dep[Left(e)] \/ dep[Right(e)])
          \/ e \in {Sym(s), <<"eq", s, "y">>, <<"eq", s, "m">>, <<"neq", s, "n">>}
      BY <1>1 DEF Depends, DependsBody
    <2>2. CASE Tag(e) = "and" /\ (dep[Left(e)] \/ dep[Right(e)])
      <3>1. IsJunction(E, e) /\ size[e] = size[Left(e)] + size[Right(e)] + 1
        BY <2>2, ShapeIs DEF IsSymbol, IsComparison, IsNegation, Comparisons
      <3>2. PICK l \in E, r \in E : l = Left(e) /\ r = Right(e)
        BY <3>1 DEF IsJunction
      <3>3. e = <<"and", l, r>> /\ size[l] < size[e] /\ size[r] < size[e]
        BY <2>2, <3>1, <3>2, ShapeIs DEF IsJunction
      <3>4. val[l] = 0 \/ val[r] = 0
        BY <1>1, <2>2, <3>2, <3>3
      <3>5. val[e] = JunctionOf("and", val[l], val[r])
        BY <3>3, Calculated DEF Junctions
      <3>6. val[l] \in 0 .. 2 /\ val[r] \in 0 .. 2
        BY ValuesAreTristates
      <3>. QED
        BY <3>4, <3>5, <3>6 DEF JunctionOf, EXPR_AND
    <2>3. CASE e \in {Sym(s), <<"eq", s, "y">>, <<"eq", s, "m">>, <<"neq", s, "n">>}
      <3>1. {"y", "m", "n"} \subseteq S /\ v["y"] = "y" /\ v["m"] = "m" /\ v["n"] = "n"
        BY DEF Valuation, Constants
      <3>2. /\ val[Sym(s)] = TriOf(v[s])
            /\ \A t \in S : /\ val[<<"eq", s, t>>] = IF v[s] = v[t] THEN 2 ELSE 0
                            /\ val[<<"neq", s, t>>] = IF v[s] = v[t] THEN 0 ELSE 2
        BY Calculated DEF Comparisons
      <3>. QED
        BY <2>3, <3>1, <3>2 DEF TriOf
    <2>. QED
      BY <2>1, <2>2, <2>3
  <1>2. size \in [E -> Nat]
    BY DEF Expressions
  <1>3. \A e \in E : (\A x \in E : size[x] < size[e] => x \in P) => e \in P
    BY <1>1
  <1>4. E \subseteq P
    <2> HIDE DEF P
    <2>. QED
      BY <1>2, <1>3, SizeInduction
  <1>. QED
    BY <1>4
-----------------------------------------------------------------------------
(* What expr_trans_compare makes for `e = s' and `e != s' says that: D are *)
(* expressions, with their operands, whose symbols are all y or n.         *)
Compares(E, s, comp) ==
    LET Compare(x, op) == comp[<<x, op>>]
    IN comp = [w \in E \X Comparisons |-> CompareBody(w[1], w[2], s, Compare)]
Definite(E, S, v, D) ==
    /\ D \subseteq E
    /\ \A s \in S : Sym(s) \in D => v[s] \in {"n", "y"}
    /\ \A e \in D : /\ Tag(e) \in Junctions \cup {"not"} => Left(e) \in D
                    /\ Tag(e) \in Junctions => Right(e) \in D

(* The value of the comparison of a value x with what s is.                *)
Compared(x, op, s) == IF (op = "eq") = (x = TriOf(s)) THEN 2 ELSE 0

LEMMA ComparedJunction ==
    ASSUME NEW type \in Junctions, NEW op \in Comparisons, NEW s \in {"y", "n"},
           NEW x \in {0, 2}, NEW y \in {0, 2},
           NEW c, c = JunctionOf(IF s = "y" THEN type ELSE Opposite(type),
                                 Compared(x, "eq", s), Compared(y, "eq", s))
    PROVE  /\ JunctionOf(type, x, y) \in {0, 2}
           /\ Compared(JunctionOf(type, x, y), op, s) = IF op = "neq" THEN 2 - c ELSE c
  BY DEF JunctionOf, Junctions, Comparisons, Opposite, Compared, EXPR_AND, EXPR_OR, TriOf

(* Over symbols that are y or n, what expr_trans_compare makes of `e = s'  *)
(* or `e != s' is y when the value of e is, or is not, that of s, and n else.*)
THEOREM CompareMeans ==
    ASSUME NEW E, NEW S, NEW size, Expressions(E, S, size), NEW v, NEW val, Calculates(E, v, val),
           NEW ty, Valuation(S, ty, v), NEW D, Definite(E, S, v, D),
           NEW s \in {"y", "n"}, NEW comp, Compares(E, s, comp)
    PROVE  \A e \in D, op \in Comparisons :
              /\ val[e] \in {0, 2} /\ comp[<<e, op>>] \in E
              /\ val[comp[<<e, op>>]] = IF (op = "eq") = (val[e] = TriOf(s)) THEN 2 ELSE 0
  <1> DEFINE Good(e) == /\ val[e] \in {0, 2}
                        /\ \A op \in Comparisons :
                              /\ comp[<<e, op>>] \in E
                              /\ val[comp[<<e, op>>]] = Compared(val[e], op, s)
             P == {e \in E : e \in D => Good(e)}
  <1>0. s \in S /\ v[s] = s
    BY DEF Valuation, Constants
  <1>1. ASSUME NEW e \in E, \A x \in E : size[x] < size[e] => x \in P, e \in D
        PROVE  Good(e)
    <2>0. e # NULL
      BY ShapeIs
    <2>1. CASE IsSymbol(S, e)
      <3>1. PICK t \in S : t = Left(e)
        BY <2>1 DEF IsSymbol
      <3>2. e = Sym(t) /\ v[t] \in {"n", "y"} /\ val[e] = TriOf(v[t])
        <4>1. e = Sym(t)
          BY <2>1, <3>1 DEF IsSymbol
        <4>. QED
          BY <1>1, <4>1, Calculated DEF Definite
      <3>3. ASSUME NEW op \in Comparisons
            PROVE  /\ comp[<<e, op>>] \in E
                   /\ val[comp[<<e, op>>]] = IF (op = "eq") = (v[t] = s) THEN 2 ELSE 0
        <4>1. comp[<<e, op>>] = <<op, t, s>>
          BY <2>0, <2>1, <3>1 DEF Compares, CompareBody, IsSymbol, Comparisons, Junctions
        <4>2. <<op, t, s>> \in E
          BY <1>0, Written
        <4>3. val[<<op, t, s>>] = IF (op = "eq") = (v[t] = v[s]) THEN 2 ELSE 0
          BY <1>0, Calculated
        <4>. QED
          BY <1>0, <4>1, <4>2, <4>3
      <3>. QED
        BY <3>2, <3>3 DEF TriOf, Compared
    <2>2. CASE IsComparison(S, e)
      <3>1. val[e] \in {0, 2}
        <4>1. val[<<Tag(e), Left(e), Right(e)>>]
                 = IF (Tag(e) = "eq") = (v[Left(e)] = v[Right(e)]) THEN 2 ELSE 0
          BY <2>2, Calculated DEF IsComparison
        <4>. QED
          BY <2>2, <4>1 DEF IsComparison
      <3>2. ASSUME NEW op \in Comparisons
            PROVE  comp[<<e, op>>] = IF (op = "eq") = (s = "y") THEN e ELSE <<"not", e>>
        BY <2>0, <2>2 DEF Compares, CompareBody, IsComparison, Comparisons, Junctions
      <3>3. <<"not", e>> \in E /\ val[<<"not", e>>] = 2 - val[e]
        BY Written, Calculated
      <3>. QED
        BY <3>1, <3>2, <3>3 DEF TriOf, Compared, Comparisons
    <2>3. CASE IsNegation(E, e) /\ size[e] = 2 * size[Left(e)]
      <3>1. PICK d \in E : d = Left(e)
        BY <2>3 DEF IsNegation
      <3>2. d \in D /\ size[d] < size[e]
        BY <1>1, <2>3, <3>1, ShapeIs DEF Definite, IsNegation
      <3>3. Good(d)
        BY <1>1, <3>2
      <3>4. val[e] = 2 - val[d]
        BY <2>3, <3>1, Calculated DEF IsNegation
      <3>5. ASSUME NEW op \in Comparisons
            PROVE  comp[<<e, op>>] = comp[<<d, Opposite(op)>>] /\ Opposite(op) \in Comparisons
                   /\ (Opposite(op) = "eq" <=> op # "eq")
        <4>1. comp[<<e, op>>] = comp[<<d, Opposite(op)>>]
          BY <2>0, <2>3, <3>1 DEF Compares, CompareBody, IsNegation, Comparisons, Junctions
        <4>. QED
          BY <4>1 DEF Opposite, Comparisons
      <3>6. ASSUME NEW op \in Comparisons
            PROVE  /\ comp[<<e, op>>] \in E
                   /\ val[comp[<<e, op>>]] = Compared(val[e], op, s)
        <4>1. PICK o \in Comparisons : o = Opposite(op) /\ (o = "eq" <=> op # "eq")
          BY <3>5
        <4>2. comp[<<d, o>>] \in E /\ val[comp[<<d, o>>]] = Compared(val[d], o, s)
          BY <3>3
        <4>3. val[d] \in {0, 2}
          BY <3>3
        <4>4. Compared(val[d], o, s) = Compared(val[e], op, s)
          BY <3>4, <4>1, <4>3 DEF TriOf, Compared
        <4>. QED
          BY <3>5, <4>1, <4>2, <4>4
      <3>7. val[e] \in {0, 2}
        BY <3>3, <3>4
      <3>. QED
        BY <3>6, <3>7
    <2>4. CASE IsJunction(E, e) /\ size[e] = size[Left(e)] + size[Right(e)] + 1
      <3>1. PICK type \in Junctions, l \in E, r \in E : type = Tag(e) /\ l = Left(e) /\ r = Right(e)
        BY <2>4 DEF IsJunction
      <3>2. e = <<type, l, r>> /\ size[l] < size[e] /\ size[r] < size[e]
        BY <2>4, <3>1, ShapeIs DEF IsJunction
      <3>3. Good(l) /\ Good(r)
        BY <1>1, <3>1, <3>2 DEF Definite
      <3>4. PICK x \in E, y \in E : x = comp[<<l, "eq">>] /\ y = comp[<<r, "eq">>]
        BY <3>3 DEF Comparisons
      <3>5. val[x] = Compared(val[l], "eq", s) /\ val[y] = Compared(val[r], "eq", s)
        BY <3>3, <3>4 DEF Comparisons
      <3>6. PICK op1 \in Junctions : op1 = IF s = "y" THEN type ELSE Opposite(type)
        BY DEF Junctions, Opposite
      <3>7. PICK z \in E : z = <<op1, x, y>>
        BY Written
      <3>8. /\ val[e] = JunctionOf(type, val[l], val[r])
            /\ val[z] = JunctionOf(op1, val[x], val[y])
            /\ <<"not", z>> \in E /\ val[<<"not", z>>] = 2 - val[z]
        BY <3>2, <3>7, Calculated, Written
      <3>9. ASSUME NEW op \in Comparisons
            PROVE  comp[<<e, op>>] = IF op = "neq" THEN <<"not", z>> ELSE z
        <4>1. comp[<<e, op>>]
                 = IF op = "neq" THEN <<"not", <<IF s = "y" THEN Tag(e) ELSE Opposite(Tag(e)),
                                                 comp[<<Left(e), "eq">>], comp[<<Right(e), "eq">>]>>>>
                   ELSE <<IF s = "y" THEN Tag(e) ELSE Opposite(Tag(e)),
                          comp[<<Left(e), "eq">>], comp[<<Right(e), "eq">>]>>
          <5>1. e # NULL /\ Tag(e) \in Junctions /\ Tag(e) \notin Comparisons \cup {"not"}
            BY <2>0, <2>4 DEF IsJunction, Comparisons, Junctions
          <5>2. <<e, op>> \in E \X Comparisons
            OBVIOUS
          <5>. QED
            BY <5>1, <5>2, Zenon DEF Compares, CompareBody
        <4>. QED
          BY <3>1, <3>4, <3>6, <3>7, <4>1
      <3>10. /\ val[e] \in {0, 2}
             /\ \A op \in Comparisons :
                   Compared(val[e], op, s) = IF op = "neq" THEN 2 - val[z] ELSE val[z]
        BY <3>3, <3>5, <3>6, <3>8, ComparedJunction DEF Comparisons
      <3>. QED
        BY <3>7, <3>8, <3>9, <3>10
    <2>. QED
      BY <2>1, <2>2, <2>3, <2>4, ShapeIs
  <1>2. size \in [E -> Nat]
    BY DEF Expressions
  <1>3. E \subseteq P
    <2>1. \A e \in E : (\A x \in E : size[x] < size[e] => x \in P) => e \in P
      BY <1>1
    <2> HIDE DEF P
    <2>. QED
      BY <1>2, <2>1, SizeInduction
  <1>. QED
    BY <1>3 DEF Definite, Compared
-----------------------------------------------------------------------------
(* Expressions that expr_eq calls equal have the same value.  in and eq    *)
(* are what __expr_eliminate_eq and expr_eq make of every two expressions. *)
Equates(E, elim, in, eq) ==
    LET Eq(x, y) == eq[<<x, y>>]
        In(t, x, y) == in[<<t, x, y>>]
        Eliminate(x) == elim[x]
        EliminateEq(x, y) == EliminateEqBody(x, y, In, Eliminate)
    IN \A a \in E, b \in E : eq[<<a, b>>] = EqBody(a, b, Eq, EliminateEq)
EliminatesEq(E, type, in, eq) ==
    LET Eq(x, y) == eq[<<x, y>>]
        In(x, y) == in[<<type, x, y>>]
    IN \A a \in E, b \in E : in[<<type, a, b>>] = EliminateEqInBody(type, a, b, In, Eq)

(* What was a and b is p, with an operand that they shared.                *)
Shares(E, size, val, type, a, b, p) ==
    \E x \in E, y \in E :
       /\ p = <<x, y>> /\ size[x] <= size[a] /\ size[y] <= size[b]
       /\ \E c \in 0 .. 2 : /\ val[a] = JunctionOf(type, c, val[x])
                            /\ val[b] = JunctionOf(type, c, val[y])

LEMMA JunctionLaws ==
    ASSUME NEW type \in Junctions
    PROVE  /\ \A c \in 0 .. 2, x \in 0 .. 2 : /\ JunctionOf(type, c, x) \in 0 .. 2
                                              /\ JunctionOf(type, c, x) = JunctionOf(type, x, c)
           /\ \A c \in 0 .. 2, d \in 0 .. 2, x \in 0 .. 2 :
                 JunctionOf(type, c, JunctionOf(type, d, x)) = JunctionOf(type, JunctionOf(type, c, d), x)
           /\ \A c \in 0 .. 2, d \in 0 .. 2, x \in 0 .. 2, y \in 0 .. 2 :
                 JunctionOf(type, JunctionOf(type, c, x), JunctionOf(type, d, y))
                    = JunctionOf(type, JunctionOf(type, c, d), JunctionOf(type, x, y))
  <1>1. CASE type = "and"
    BY <1>1 DEF JunctionOf, EXPR_AND
  <1>2. CASE type = "or"
    BY <1>2 DEF JunctionOf, EXPR_OR
  <1>. QED
    BY <1>1, <1>2 DEF Junctions

(* The unit of a junction.                                                 *)
LEMMA UnitIs ==
    ASSUME NEW E, NEW S, NEW size, Expressions(E, S, size), NEW v, NEW val, Calculates(E, v, val),
           NEW ty, Valuation(S, ty, v), NEW type \in Junctions
    PROVE  /\ Unit(type) \in E /\ size[Unit(type)] = 1
           /\ \A x \in 0 .. 2 : JunctionOf(type, x, val[Unit(type)]) = x
  <1>1. Yes \in E /\ No \in E /\ val[Yes] = 2 /\ val[No] = 0
    BY ConstantsCalculated
  <1>2. size[Yes] = 1 /\ size[No] = 1
    BY DEF Expressions, Constants, Yes, No
  <1>. QED
    BY <1>1, <1>2 DEF Unit, Junctions, JunctionOf, EXPR_AND, EXPR_OR

LEMMA SharesTurned ==
    ASSUME NEW E, NEW size, NEW val, NEW type, NEW a, NEW b, NEW x, NEW y,
           Shares(E, size, val, type, a, b, <<x, y>>)
    PROVE  Shares(E, size, val, type, b, a, <<y, x>>)
  <1>1. PICK x1 \in E, y1 \in E, c \in 0 .. 2 :
           /\ <<x, y>> = <<x1, y1>> /\ size[x1] <= size[a] /\ size[y1] <= size[b]
           /\ val[a] = JunctionOf(type, c, val[x1]) /\ val[b] = JunctionOf(type, c, val[y1])
    BY DEF Shares
  <1>2. <<y, x>> = <<y1, x1>>
    BY <1>1
  <1>. QED
    BY <1>1, <1>2 DEF Shares

(* What the operands of the junction a share with b, one after the other.  *)
LEMMA SharesOperands ==
    ASSUME NEW E, NEW S, NEW size, Expressions(E, S, size), NEW v, NEW val, Calculates(E, v, val),
           NEW type \in Junctions, NEW l \in E, NEW r \in E, NEW a, a = <<type, l, r>>, NEW b \in E,
           NEW l1, NEW b1, Shares(E, size, val, type, l, b, <<l1, b1>>),
           NEW r1, NEW b2, Shares(E, size, val, type, r, b1, <<r1, b2>>)
    PROVE  Shares(E, size, val, type, a, b, <<<<type, l1, r1>>, b2>>)
  <1>1. PICK c \in 0 .. 2 :
           /\ l1 \in E /\ b1 \in E /\ size[l1] <= size[l] /\ size[b1] <= size[b]
           /\ val[l] = JunctionOf(type, c, val[l1]) /\ val[b] = JunctionOf(type, c, val[b1])
    <2>1. PICK x \in E, y \in E, c \in 0 .. 2 :
             /\ <<l1, b1>> = <<x, y>> /\ size[x] <= size[l] /\ size[y] <= size[b]
             /\ val[l] = JunctionOf(type, c, val[x]) /\ val[b] = JunctionOf(type, c, val[y])
      BY DEF Shares
    <2>2. x = l1 /\ y = b1
      BY <2>1
    <2>. QED
      BY <2>1, <2>2
  <1>2. PICK d \in 0 .. 2 :
           /\ r1 \in E /\ b2 \in E /\ size[r1] <= size[r] /\ size[b2] <= size[b1]
           /\ val[r] = JunctionOf(type, d, val[r1]) /\ val[b1] = JunctionOf(type, d, val[b2])
    <2>1. PICK x \in E, y \in E, d \in 0 .. 2 :
             /\ <<r1, b2>> = <<x, y>> /\ size[x] <= size[r] /\ size[y] <= size[b1]
             /\ val[r] = JunctionOf(type, d, val[x]) /\ val[b1] = JunctionOf(type, d, val[y])
      BY DEF Shares
    <2>2. x = r1 /\ y = b2
      BY <2>1
    <2>. QED
      BY <2>1, <2>2
  <1>3. /\ size[l] \in Nat /\ size[r] \in Nat /\ size[b] \in Nat /\ size[l1] \in Nat
        /\ size[r1] \in Nat /\ size[b1] \in Nat /\ size[b2] \in Nat
    BY <1>1, <1>2, ShapeIs
  <1>4. /\ a \in E /\ size[a] = size[l] + size[r] + 1
        /\ <<type, l1, r1>> \in E /\ size[<<type, l1, r1>>] = size[l1] + size[r1] + 1
    BY <1>1, <1>2 DEF Expressions
  <1>5. /\ val[a] = JunctionOf(type, val[l], val[r])
        /\ val[<<type, l1, r1>>] = JunctionOf(type, val[l1], val[r1])
    BY <1>1, <1>2, Calculated
  <1>6. val[l1] \in 0 .. 2 /\ val[r1] \in 0 .. 2 /\ val[b2] \in 0 .. 2
    BY <1>1, <1>2, ValuesAreTristates
  <1>7. PICK k \in 0 .. 2 : k = JunctionOf(type, c, d)
    BY JunctionLaws
  <1>8. val[a] = JunctionOf(type, k, val[<<type, l1, r1>>]) /\ val[b] = JunctionOf(type, k, val[b2])
    BY <1>1, <1>2, <1>5, <1>6, <1>7, JunctionLaws
  <1>9. size[<<type, l1, r1>>] <= size[a] /\ size[b2] <= size[b]
    BY <1>1, <1>2, <1>3, <1>4
  <1>. QED
    BY <1>2, <1>4, <1>8, <1>9 DEF Shares

(* The two operands of a junction are smaller than it.                     *)
LEMMA OperandsOf ==
    ASSUME NEW E, NEW S, NEW size, Expressions(E, S, size), NEW e \in E, Tag(e) \in Junctions
    PROVE  /\ Left(e) \in E /\ Right(e) \in E /\ e = <<Tag(e), Left(e), Right(e)>>
           /\ size[e] = size[Left(e)] + size[Right(e)] + 1
           /\ size[e] \in Nat /\ size[Left(e)] \in Nat /\ size[Right(e)] \in Nat
           /\ size[e] > 0 /\ size[Left(e)] > 0 /\ size[Right(e)] > 0
  <1>1. IsJunction(E, e) /\ size[e] = size[Left(e)] + size[Right(e)] + 1
    BY ShapeIs DEF IsSymbol, IsComparison, IsNegation, Comparisons, Junctions
  <1>. QED
    BY <1>1, ShapeIs DEF IsJunction

LEMMA PairOf ==
    ASSUME NEW E, NEW size, NEW val, NEW type, NEW a, NEW b, NEW p,
           Shares(E, size, val, type, a, b, p)
    PROVE  p = <<p[1], p[2]>> /\ p[1] \in E /\ p[2] \in E /\ size[p[1]] <= size[a] /\ size[p[2]] <= size[b]
  BY DEF Shares

(* One step of __expr_eliminate_eq: the first or the second expression is a*)
(* junction whose operands are looked at one after the other.              *)
LEMMA FirstShared ==
    ASSUME NEW E, NEW S, NEW size, Expressions(E, S, size), NEW v, NEW val, Calculates(E, v, val),
           NEW type \in Junctions, NEW a \in E, NEW b \in E, Tag(a) = type,
           NEW in, NEW eq, EliminatesEq(E, type, in, eq),
           \A x \in E, y \in E : size[x] + size[y] < size[a] + size[b] =>
                 Shares(E, size, val, type, x, y, in[<<type, x, y>>])
    PROVE  Shares(E, size, val, type, a, b, in[<<type, a, b>>])
  <1>1. PICK l \in E, r \in E : l = Left(a) /\ r = Right(a)
    BY OperandsOf
  <1>2. a = <<type, l, r>> /\ size[l] < size[a] /\ size[r] < size[a] /\ size[a] \in Nat
        /\ size[l] \in Nat /\ size[r] \in Nat
    BY <1>1, OperandsOf
  <1>3. size[b] \in Nat
    BY ShapeIs
  <1>4. PICK f : f = in[<<type, l, b>>]
    OBVIOUS
  <1>5. Shares(E, size, val, type, l, b, f)
    BY <1>2, <1>3, <1>4
  <1>6. f = <<f[1], f[2]>> /\ f[2] \in E /\ size[f[2]] <= size[b] /\ size[f[2]] \in Nat
    BY <1>5, PairOf, ShapeIs
  <1>7. PICK g : g = in[<<type, r, f[2]>>]
    OBVIOUS
  <1>8. Shares(E, size, val, type, r, f[2], g)
    BY <1>2, <1>3, <1>6, <1>7
  <1>9. g = <<g[1], g[2]>>
    BY <1>8, PairOf
  <1>10. in[<<type, a, b>>] = <<<<type, f[1], g[1]>>, g[2]>>
    BY <1>1, <1>4, <1>7, Zenon DEF EliminatesEq, EliminateEqInBody
  <1>11. Shares(E, size, val, type, l, b, <<f[1], f[2]>>)
    BY <1>5, <1>6
  <1>12. Shares(E, size, val, type, r, f[2], <<g[1], g[2]>>)
    BY <1>8, <1>9
  <1>13. Shares(E, size, val, type, a, b, <<<<type, f[1], g[1]>>, g[2]>>)
    BY <1>2, <1>11, <1>12, SharesOperands
  <1>. QED
    BY <1>10, <1>13

LEMMA SecondShared ==
    ASSUME NEW E, NEW S, NEW size, Expressions(E, S, size), NEW v, NEW val, Calculates(E, v, val),
           NEW type \in Junctions, NEW a \in E, NEW b \in E, Tag(a) # type, Tag(b) = type,
           NEW in, NEW eq, EliminatesEq(E, type, in, eq),
           \A x \in E, y \in E : size[x] + size[y] < size[a] + size[b] =>
                 Shares(E, size, val, type, x, y, in[<<type, x, y>>])
    PROVE  Shares(E, size, val, type, a, b, in[<<type, a, b>>])
  <1>1. PICK l \in E, r \in E : l = Left(b) /\ r = Right(b)
    BY OperandsOf
  <1>2. b = <<type, l, r>> /\ size[l] < size[b] /\ size[r] < size[b] /\ size[b] \in Nat
        /\ size[l] \in Nat /\ size[r] \in Nat
    BY <1>1, OperandsOf
  <1>3. size[a] \in Nat
    BY ShapeIs
  <1>4. PICK f : f = in[<<type, a, l>>]
    OBVIOUS
  <1>5. Shares(E, size, val, type, a, l, f)
    BY <1>2, <1>3, <1>4
  <1>6. f = <<f[1], f[2]>> /\ f[1] \in E /\ size[f[1]] <= size[a] /\ size[f[1]] \in Nat
    BY <1>5, PairOf, ShapeIs
  <1>7. PICK g : g = in[<<type, f[1], r>>]
    OBVIOUS
  <1>8. Shares(E, size, val, type, f[1], r, g)
    BY <1>2, <1>3, <1>6, <1>7
  <1>9. g = <<g[1], g[2]>>
    BY <1>8, PairOf
  <1>10. in[<<type, a, b>>] = <<g[1], <<type, f[2], g[2]>>>>
    BY <1>1, <1>4, <1>7, Zenon DEF EliminatesEq, EliminateEqInBody
  <1>11. Shares(E, size, val, type, l, a, <<f[2], f[1]>>)
    BY <1>5, <1>6, SharesTurned
  <1>12. Shares(E, size, val, type, r, f[1], <<g[2], g[1]>>)
    BY <1>8, <1>9, SharesTurned
  <1>13. Shares(E, size, val, type, b, a, <<<<type, f[2], g[2]>>, g[1]>>)
    BY <1>2, <1>11, <1>12, SharesOperands
  <1>. QED
    BY <1>10, <1>13, SharesTurned

(* Two expressions without that operator: both become the unit when they   *)
(* are equal.                                                              *)
LEMMA NeitherShared ==
    ASSUME NEW E, NEW S, NEW size, Expressions(E, S, size), NEW v, NEW val, Calculates(E, v, val),
           NEW ty, Valuation(S, ty, v),
           NEW type \in Junctions, NEW a \in E, NEW b \in E, Tag(a) # type, Tag(b) # type,
           NEW in, NEW eq, EliminatesEq(E, type, in, eq),
           eq[<<a, b>>] => val[a] = val[b]
    PROVE  Shares(E, size, val, type, a, b, in[<<type, a, b>>])
  <1>1. /\ size[a] \in Nat /\ size[a] > 0 /\ size[b] \in Nat /\ size[b] > 0
        /\ val[a] \in 0 .. 2 /\ val[b] \in 0 .. 2
    BY ShapeIs, ValuesAreTristates
  <1>2. PICK u \in E : /\ u = Unit(type) /\ size[u] = 1
                       /\ \A x \in 0 .. 2 : JunctionOf(type, x, val[u]) = x
    BY UnitIs
  <1>3. \/ in[<<type, a, b>>] = <<a, b>>
        \/ in[<<type, a, b>>] = <<u, u>> /\ eq[<<a, b>>]
    BY <1>2 DEF EliminatesEq, EliminateEqInBody
  <1>4. CASE in[<<type, a, b>>] = <<a, b>>
    <2>1. val[u] \in 0 .. 2
      BY ValuesAreTristates
    <2>2. val[a] = JunctionOf(type, val[u], val[a]) /\ val[b] = JunctionOf(type, val[u], val[b])
      BY <1>1, <1>2, <2>1, JunctionLaws
    <2>. QED
      BY <1>1, <1>4, <2>1, <2>2 DEF Shares
  <1>5. CASE in[<<type, a, b>>] = <<u, u>> /\ eq[<<a, b>>]
    <2>1. val[a] = JunctionOf(type, val[a], val[u]) /\ val[b] = JunctionOf(type, val[a], val[u])
      BY <1>1, <1>2, <1>5
    <2>. QED
      BY <1>1, <1>2, <1>5, <2>1 DEF Shares
  <1>. QED
    BY <1>3, <1>4, <1>5

(* What expr_eq says of two expressions.  Of two junctions it says that    *)
(* they become the same symbol, when first what they share as operands of  *)
(* the one is taken out and then what they share as operands of the other. *)
LEMMA EqUnfolds ==
    ASSUME NEW E, NEW elim, NEW in, NEW eq, Equates(E, elim, in, eq),
           NEW a \in E, NEW b \in E, a # NULL, b # NULL, eq[<<a, b>>],
           NEW p, p = in[<<Tag(a), a, b>>],
           NEW q, q = IF Tag(p[1]) # Tag(p[2]) /\ Tag(p[2]) \in Junctions
                      THEN in[<<Tag(p[2]), p[1], p[2]>>] ELSE p
    PROVE  /\ Tag(b) = Tag(a)
           /\ Tag(a) \in Comparisons \cup {"sym"} => a = b
           /\ Tag(a) = "not" => eq[<<Left(a), Left(b)>>]
           /\ Tag(a) \in Junctions => elim[q[1]] = elim[q[2]]
  <1>1. <<a, b>>[1] = a /\ <<a, b>>[2] = b
    OBVIOUS
  <1>2. /\ Tag(a) = Tag(b)
        /\ \/ Tag(a) \in Comparisons \cup {"sym"} /\ a = b
           \/ Tag(a) = "not" /\ eq[<<Left(a), Left(b)>>]
           \/ Tag(a) \in Junctions /\ SameSymbol(<<elim[q[1]], elim[q[2]]>>)
    <2> DEFINE f == IF Tag(<<a, b>>[1]) \in Junctions
                    THEN in[<<Tag(<<a, b>>[1]), <<a, b>>[1], <<a, b>>[2]>>] ELSE <<a, b>>
               g == IF Tag(f[1]) # Tag(f[2]) /\ Tag(f[2]) \in Junctions
                    THEN in[<<Tag(f[2]), f[1], f[2]>>] ELSE f
    <2>1. /\ Tag(a) = Tag(b)
          /\ \/ Tag(a) \in Comparisons \cup {"sym"} /\ a = b
             \/ Tag(a) = "not" /\ eq[<<Left(a), Left(b)>>]
             \/ Tag(a) \in Junctions /\ SameSymbol(<<elim[g[1]], elim[g[2]]>>)
      BY Zenon DEF Equates, EqBody, EliminateEqBody, ByFirst, BySecond, BothWithoutYN
    <2>2. Tag(a) \in Junctions => f = p
      BY <1>1
    <2>3. Tag(a) \in Junctions => g = q
      <3> HIDE DEF f
      <3>. QED
        BY <2>2
    <2>. QED
      BY <2>1, <2>3
  <1>. QED
    BY <1>2 DEF SameSymbol, Comparisons, Junctions

(* Two expressions that expr_eq finds equal have the same value, whatever  *)
(* the values of their symbols.                                            *)
THEOREM EqualsMean ==
    ASSUME NEW E, NEW S, NEW size, Expressions(E, S, size), NEW v, NEW val, Calculates(E, v, val),
           NEW ty, Valuation(S, ty, v), NEW elim, Eliminates(E, elim),
           NEW in, NEW eq, Equates(E, elim, in, eq),
           \A type \in Junctions : EliminatesEq(E, type, in, eq)
    PROVE  \A a \in E, b \in E : eq[<<a, b>>] => val[a] = val[b]
  <1> DEFINE D == E \X E
             both == [w \in D |-> size[w[1]] + size[w[2]]]
             Equal(a, b) == eq[<<a, b>>] => val[a] = val[b]
             Shared(type, a, b) == Shares(E, size, val, type, a, b, in[<<type, a, b>>])
             P == {w \in D : /\ Equal(w[1], w[2])
                             /\ \A type \in Junctions : Shared(type, w[1], w[2])}
  <1>1. ASSUME NEW a \in E, NEW b \in E,
               \A x \in E, y \in E : size[x] + size[y] < size[a] + size[b] =>
                     Equal(x, y) /\ \A type \in Junctions : Shared(type, x, y)
        PROVE  Equal(a, b) /\ \A type \in Junctions : Shared(type, a, b)
    <2>1. ASSUME NEW x \in E, NEW y \in E, size[x] <= size[a], size[y] <= size[b],
                 NEW type \in Junctions, Tag(x) = type \/ Tag(y) = type
          PROVE  Shared(type, x, y)
      <3>1. size[x] \in Nat /\ size[y] \in Nat /\ size[a] \in Nat /\ size[b] \in Nat
        BY ShapeIs
      <3>2. \A x1 \in E, y1 \in E : size[x1] + size[y1] < size[x] + size[y] => Shared(type, x1, y1)
        <4>1. SUFFICES ASSUME NEW x1 \in E, NEW y1 \in E, size[x1] + size[y1] < size[x] + size[y]
                       PROVE  Shared(type, x1, y1)
          OBVIOUS
        <4>2. size[x1] \in Nat /\ size[y1] \in Nat
          BY ShapeIs
        <4>3. size[x1] + size[y1] < size[a] + size[b]
          BY <2>1, <3>1, <4>1, <4>2
        <4>. QED
          BY <1>1, <4>3
      <3>3. CASE Tag(x) = type
        BY <3>2, <3>3, FirstShared
      <3>4. CASE Tag(x) # type
        BY <2>1, <3>2, <3>4, SecondShared
      <3>. QED
        BY <3>3, <3>4
    <2>2. Equal(a, b)
      <3>1. SUFFICES ASSUME eq[<<a, b>>] PROVE val[a] = val[b]
        OBVIOUS
      <3>2. /\ a # NULL /\ b # NULL
            /\ size[a] \in Nat /\ size[b] \in Nat /\ val[a] \in 0 .. 2 /\ val[b] \in 0 .. 2
        BY ShapeIs, ValuesAreTristates
      <3>3. PICK p, q : /\ p = in[<<Tag(a), a, b>>]
                        /\ q = IF Tag(p[1]) # Tag(p[2]) /\ Tag(p[2]) \in Junctions
                               THEN in[<<Tag(p[2]), p[1], p[2]>>] ELSE p
        OBVIOUS
      <3>4. /\ Tag(b) = Tag(a)
            /\ Tag(a) \in Comparisons \cup {"sym"} => a = b
            /\ Tag(a) = "not" => eq[<<Left(a), Left(b)>>]
            /\ Tag(a) \in Junctions => elim[q[1]] = elim[q[2]]
        BY <3>3, <3>1, <3>2, EqUnfolds
      <3>5. CASE Tag(a) \in Comparisons \cup {"sym"}
        BY <3>5, <3>4
      <3>6. CASE Tag(a) = "not"
        <4>1. eq[<<Left(a), Left(b)>>] /\ Tag(b) = "not"
          BY <3>6, <3>4
        <4>2. /\ IsNegation(E, a) /\ size[a] = 2 * size[Left(a)]
              /\ IsNegation(E, b) /\ size[b] = 2 * size[Left(b)]
          BY <3>6, <4>1, ShapeIs DEF IsSymbol, IsComparison, IsJunction, Comparisons, Junctions
        <4>3. PICK x \in E, y \in E : x = Left(a) /\ y = Left(b)
          BY <4>2 DEF IsNegation
        <4>4. size[x] + size[y] < size[a] + size[b]
          BY <4>2, <4>3, ShapeIs
        <4>5. val[x] = val[y]
          BY <1>1, <4>1, <4>3, <4>4
        <4>6. val[a] = 2 - val[x] /\ val[b] = 2 - val[y]
          BY <4>2, <4>3, Calculated DEF IsNegation
        <4>. QED
          BY <4>5, <4>6
      <3>7. CASE Tag(a) \in Junctions
        <4>1. PICK t1 \in Junctions : t1 = Tag(a)
          BY <3>7
        <4>2. PICK x \in E, y \in E, c \in 0 .. 2 :
                 /\ in[<<t1, a, b>>] = <<x, y>> /\ size[x] <= size[a] /\ size[y] <= size[b]
                 /\ val[a] = JunctionOf(t1, c, val[x]) /\ val[b] = JunctionOf(t1, c, val[y])
          <5>1. Shared(t1, a, b)
            BY <2>1, <3>2, <4>1
          <5>. QED
            BY <5>1 DEF Shares
        <4>3. p = <<x, y>> /\ p[1] = x /\ p[2] = y
          BY <3>3, <4>1, <4>2
        <4>4. elim[q[1]] = elim[q[2]]
          BY <3>7, <3>4
        <4>5. CASE Tag(x) # Tag(y) /\ Tag(y) \in Junctions
          <5>1. PICK t2 \in Junctions : t2 = Tag(y)
            BY <4>5
          <5>2. Shared(t2, x, y)
            BY <2>1, <4>2, <5>1
          <5>3. PICK x2 \in E, y2 \in E, d \in 0 .. 2 :
                   /\ in[<<t2, x, y>>] = <<x2, y2>>
                   /\ val[x] = JunctionOf(t2, d, val[x2]) /\ val[y] = JunctionOf(t2, d, val[y2])
            BY <5>2 DEF Shares
          <5>4. q[1] = x2 /\ q[2] = y2
            BY <3>3, <4>3, <4>5, <5>1, <5>3
          <5>5. val[x2] = val[y2]
            BY <4>4, <5>4, EliminateYNMeans
          <5>. QED
            BY <4>2, <5>3, <5>5
        <4>6. CASE ~(Tag(x) # Tag(y) /\ Tag(y) \in Junctions)
          <5>1. q[1] = x /\ q[2] = y
            BY <3>3, <4>3, <4>6
          <5>2. val[x] = val[y]
            BY <4>4, <5>1, EliminateYNMeans
          <5>. QED
            BY <4>2, <5>2
        <4>. QED
          BY <4>5, <4>6
      <3>. QED
        BY <3>5, <3>6, <3>7, ShapeIs DEF IsSymbol, IsComparison, IsNegation, IsJunction
    <2>3. ASSUME NEW type \in Junctions
          PROVE  Shared(type, a, b)
      <3>1. CASE Tag(a) = type \/ Tag(b) = type
        BY <2>1, <3>1, ShapeIs
      <3>2. CASE Tag(a) # type /\ Tag(b) # type
        BY <2>2, <3>2, NeitherShared
      <3>. QED
        BY <3>1, <3>2
    <2>. QED
      BY <2>2, <2>3
  <1>2. both \in [D -> Nat]
    BY ShapeIs
  <1>3. ASSUME NEW w \in D, \A z \in D : both[z] < both[w] => z \in P
        PROVE  w \in P
    <2>1. PICK a \in E, b \in E : w = <<a, b>>
      OBVIOUS
    <2>2. ASSUME NEW x \in E, NEW y \in E, size[x] + size[y] < size[a] + size[b]
          PROVE  Equal(x, y) /\ \A type \in Junctions : Shared(type, x, y)
      <3>1. <<x, y>> \in D /\ both[<<x, y>>] < both[w]
        BY <2>1, <2>2
      <3>2. <<x, y>> \in P
        BY <1>3, <3>1
      <3>. QED
        BY <3>2
    <2>3. Equal(a, b) /\ \A type \in Junctions : Shared(type, a, b)
      BY <1>1, <2>2
    <2>. QED
      BY <2>1, <2>3
  <1>4. D \subseteq P
    <2> HIDE DEF D, both, P
    <2>. QED
      BY <1>2, <1>3, SizeInduction
  <1>5. ASSUME NEW a \in E, NEW b \in E
        PROVE  Equal(a, b)
    <2>1. <<a, b>> \in P
      BY <1>4
    <2>. QED
      BY <2>1
  <1>. QED
    BY <1>5
-----------------------------------------------------------------------------
(* What expr_extract_eq takes out of two expressions is something that they*)
(* share: ex[t, a, b] is <<tmp, a, b>> as it leaves them.                  *)
Extracts(E, type, ex, eq) ==
    LET Eq(x, y) == eq[<<x, y>>]
        Extract(t, x, y) == ex[<<type, t, x, y>>]
    IN \A t \in E \cup {NULL}, a \in E, b \in E :
          ex[<<type, t, a, b>>] = ExtractEqBody(type, t, a, b, Extract, Eq)

(* What each of its three cases does.                                     *)
ExtractCases(type, ex, eq, t, a, b) ==
    /\ Tag(a) = type =>
          \E f, g : /\ f = ex[<<type, t, Left(a), b>>] /\ g = ex[<<type, f[1], Right(a), f[3]>>]
                    /\ ex[<<type, t, a, b>>] = <<g[1], <<type, f[2], g[2]>>, g[3]>>
    /\ Tag(a) # type /\ Tag(b) = type =>
          \E f, g : /\ f = ex[<<type, t, a, Left(b)>>] /\ g = ex[<<type, f[1], f[2], Right(b)>>]
                    /\ ex[<<type, t, a, b>>] = <<g[1], g[2], <<type, f[3], g[3]>>>>
    /\ Tag(a) # type /\ Tag(b) # type =>
          ex[<<type, t, a, b>>] = IF eq[<<a, b>>]
                                  THEN <<IF t = NULL THEN a ELSE <<type, t, a>>, Unit(type), Unit(type)>>
                                  ELSE <<t, a, b>>

LEMMA ExtractUnfolds ==
    ASSUME NEW E, NEW type, NEW ex, NEW eq, Extracts(E, type, ex, eq),
           NEW t \in E \cup {NULL}, NEW a \in E, NEW b \in E
    PROVE  ExtractCases(type, ex, eq, t, a, b)
  <1>1. ex[<<type, t, a, b>>] =
         IF Tag(a) = type
            THEN <<ex[<<type, ex[<<type, t, Left(a), b>>][1], Right(a), ex[<<type, t, Left(a), b>>][3]>>][1],
                     <<type, ex[<<type, t, Left(a), b>>][2],
                       ex[<<type, ex[<<type, t, Left(a), b>>][1], Right(a), ex[<<type, t, Left(a), b>>][3]>>][2]>>,
                     ex[<<type, ex[<<type, t, Left(a), b>>][1], Right(a), ex[<<type, t, Left(a), b>>][3]>>][3]>>
         ELSE IF Tag(b) = type
            THEN <<ex[<<type, ex[<<type, t, a, Left(b)>>][1], ex[<<type, t, a, Left(b)>>][2], Right(b)>>][1],
                     ex[<<type, ex[<<type, t, a, Left(b)>>][1], ex[<<type, t, a, Left(b)>>][2], Right(b)>>][2],
                     <<type, ex[<<type, t, a, Left(b)>>][3],
                       ex[<<type, ex[<<type, t, a, Left(b)>>][1], ex[<<type, t, a, Left(b)>>][2], Right(b)>>][3]>>>>
         ELSE IF eq[<<a, b>>] THEN <<IF t = NULL THEN a ELSE <<type, t, a>>, Unit(type), Unit(type)>>
              ELSE <<t, a, b>>
    BY Zenon DEF Extracts, ExtractEqBody
  <1>2. CASE Tag(a) = type
    <2>1. PICK f : f = ex[<<type, t, Left(a), b>>]
      OBVIOUS
    <2>2. PICK g : g = ex[<<type, f[1], Right(a), f[3]>>]
      OBVIOUS
    <2>3. ex[<<type, t, a, b>>] = <<g[1], <<type, f[2], g[2]>>, g[3]>>
      BY <1>1, <1>2, <2>1, <2>2
    <2>4. \E h, k : /\ h = ex[<<type, t, Left(a), b>>] /\ k = ex[<<type, h[1], Right(a), h[3]>>]
                   /\ ex[<<type, t, a, b>>] = <<k[1], <<type, h[2], k[2]>>, k[3]>>
      <3>. WITNESS f, g
      <3>. QED
        BY <2>1, <2>2, <2>3
    <2>. QED
      BY <1>2, <2>4, Zenon DEF ExtractCases
  <1>3. CASE Tag(a) # type /\ Tag(b) = type
    <2>1. PICK f : f = ex[<<type, t, a, Left(b)>>]
      OBVIOUS
    <2>2. PICK g : g = ex[<<type, f[1], f[2], Right(b)>>]
      OBVIOUS
    <2>3. ex[<<type, t, a, b>>] = <<g[1], g[2], <<type, f[3], g[3]>>>>
      BY <1>1, <1>3, <2>1, <2>2
    <2>4. \E h, k : /\ h = ex[<<type, t, a, Left(b)>>] /\ k = ex[<<type, h[1], h[2], Right(b)>>]
                   /\ ex[<<type, t, a, b>>] = <<k[1], k[2], <<type, h[3], k[3]>>>>
      <3>. WITNESS f, g
      <3>. QED
        BY <2>1, <2>2, <2>3
    <2>. QED
      BY <1>3, <2>4, Zenon DEF ExtractCases
  <1>4. CASE Tag(a) # type /\ Tag(b) # type
    <2>1. ex[<<type, t, a, b>>] = IF eq[<<a, b>>]
                                  THEN <<IF t = NULL THEN a ELSE <<type, t, a>>, Unit(type), Unit(type)>>
                                  ELSE <<t, a, b>>
      BY <1>1, <1>4, Zenon
    <2>. QED
      BY <1>4, <2>1, Zenon DEF ExtractCases
  <1>. QED
    BY <1>2, <1>3, <1>4

(* It is so, and what is taken out is an expression or nothing.            *)
Taken(E, size, val, type, a, b, x) ==
    /\ x[1] \in E \cup {NULL}
    /\ Shares(E, size, val, type, a, b, <<x[2], x[3]>>)

(* What expr_extract_eq leaves of two expressions has, joined to a value that*)
(* is the same for both, the value that each of them had.                  *)
THEOREM ExtractMeans ==
    ASSUME NEW E, NEW S, NEW size, Expressions(E, S, size), NEW v, NEW val, Calculates(E, v, val),
           NEW ty, Valuation(S, ty, v), NEW elim, Eliminates(E, elim),
           NEW in, NEW eq, Equates(E, elim, in, eq),
           \A type \in Junctions : EliminatesEq(E, type, in, eq),
           NEW type \in Junctions, NEW ex, Extracts(E, type, ex, eq)
    PROVE  \A t \in E \cup {NULL}, a \in E, b \in E :
              Taken(E, size, val, type, a, b, ex[<<type, t, a, b>>])
  <1> DEFINE D == E \X E
             both == [w \in D |-> size[w[1]] + size[w[2]]]
             Good(a, b) == \A t \in E \cup {NULL} :
                              Taken(E, size, val, type, a, b, ex[<<type, t, a, b>>])
             P == {w \in D : Good(w[1], w[2])}
  <1>1. ASSUME NEW a \in E, NEW b \in E,
               \A x \in E, y \in E : size[x] + size[y] < size[a] + size[b] => Good(x, y)
        PROVE  Good(a, b)
    <2>1. SUFFICES ASSUME NEW t \in E \cup {NULL}
                   PROVE  Taken(E, size, val, type, a, b, ex[<<type, t, a, b>>])
      OBVIOUS
    <2>0. ExtractCases(type, ex, eq, t, a, b)
      BY <2>1, ExtractUnfolds
    <2>2. CASE Tag(a) = type
      <3>1. PICK l \in E, r \in E : l = Left(a) /\ r = Right(a)
        BY <2>2, OperandsOf
      <3>2. /\ a = <<type, l, r>> /\ size[l] < size[a] /\ size[r] < size[a] /\ size[a] \in Nat
            /\ size[l] \in Nat /\ size[r] \in Nat /\ size[b] \in Nat
        BY <2>2, <3>1, OperandsOf, ShapeIs
      <3>3. PICK f, g : /\ f = ex[<<type, t, l, b>>] /\ g = ex[<<type, f[1], r, f[3]>>]
                        /\ ex[<<type, t, a, b>>] = <<g[1], <<type, f[2], g[2]>>, g[3]>>
        BY <2>2, <3>1, <2>0, Zenon DEF ExtractCases
      <3>4. f[1] \in E \cup {NULL} /\ Shares(E, size, val, type, l, b, <<f[2], f[3]>>)
        BY <1>1, <3>2, <3>3 DEF Taken
      <3>5. f[3] \in E /\ size[f[3]] <= size[b] /\ size[f[3]] \in Nat
        BY <3>4, PairOf, ShapeIs
      <3>7. g[1] \in E \cup {NULL} /\ Shares(E, size, val, type, r, f[3], <<g[2], g[3]>>)
        <4>1. size[r] + size[f[3]] < size[a] + size[b]
          BY <3>2, <3>5
        <4>2. Good(r, f[3])
          BY <1>1, <3>5, <4>1
        <4>. QED
          BY <3>3, <3>4, <4>2 DEF Taken
      <3>9. Shares(E, size, val, type, a, b, <<<<type, f[2], g[2]>>, g[3]>>)
        BY <3>2, <3>4, <3>7, SharesOperands
      <3>. QED
        BY <3>3, <3>7, <3>9 DEF Taken
    <2>3. CASE Tag(a) # type /\ Tag(b) = type
      <3>1. PICK l \in E, r \in E : l = Left(b) /\ r = Right(b)
        BY <2>3, OperandsOf
      <3>2. /\ b = <<type, l, r>> /\ size[l] < size[b] /\ size[r] < size[b] /\ size[b] \in Nat
            /\ size[l] \in Nat /\ size[r] \in Nat /\ size[a] \in Nat
        BY <2>3, <3>1, OperandsOf, ShapeIs
      <3>3. PICK f, g : /\ f = ex[<<type, t, a, l>>] /\ g = ex[<<type, f[1], f[2], r>>]
                        /\ ex[<<type, t, a, b>>] = <<g[1], g[2], <<type, f[3], g[3]>>>>
        BY <2>3, <3>1, <2>0, Zenon DEF ExtractCases
      <3>4. f[1] \in E \cup {NULL} /\ Shares(E, size, val, type, a, l, <<f[2], f[3]>>)
        BY <1>1, <3>2, <3>3 DEF Taken
      <3>5. f[2] \in E /\ size[f[2]] <= size[a] /\ size[f[2]] \in Nat
        BY <3>4, PairOf, ShapeIs
      <3>7. g[1] \in E \cup {NULL} /\ Shares(E, size, val, type, f[2], r, <<g[2], g[3]>>)
        <4>1. size[f[2]] + size[r] < size[a] + size[b]
          BY <3>2, <3>5
        <4>2. Good(f[2], r)
          BY <1>1, <3>5, <4>1
        <4>. QED
          BY <3>3, <3>4, <4>2 DEF Taken
      <3>9. Shares(E, size, val, type, l, a, <<f[3], f[2]>>)
        BY <3>4, SharesTurned
      <3>10. Shares(E, size, val, type, r, f[2], <<g[3], g[2]>>)
        BY <3>7, SharesTurned
      <3>11. Shares(E, size, val, type, b, a, <<<<type, f[3], g[3]>>, g[2]>>)
        BY <3>2, <3>9, <3>10, SharesOperands
      <3>12. Shares(E, size, val, type, a, b, <<g[2], <<type, f[3], g[3]>>>>)
        BY <3>11, SharesTurned
      <3>. QED
        BY <3>3, <3>7, <3>12 DEF Taken
    <2>4. CASE Tag(a) # type /\ Tag(b) # type
      <3>1. /\ size[a] \in Nat /\ size[a] > 0 /\ size[b] \in Nat /\ size[b] > 0 /\ a # NULL
            /\ val[a] \in 0 .. 2 /\ val[b] \in 0 .. 2
        BY ShapeIs, ValuesAreTristates
      <3>2. PICK u \in E : /\ u = Unit(type) /\ size[u] = 1
                           /\ \A x \in 0 .. 2 : JunctionOf(type, x, val[u]) = x
        BY UnitIs
      <3>3. ex[<<type, t, a, b>>] = IF eq[<<a, b>>]
                                    THEN <<IF t = NULL THEN a ELSE <<type, t, a>>, u, u>>
                                    ELSE <<t, a, b>>
        BY <2>4, <3>2, <2>0, Zenon DEF ExtractCases
      <3>4. CASE ~ eq[<<a, b>>]
        <4>1. val[u] \in 0 .. 2
          BY ValuesAreTristates
        <4>2. val[a] = JunctionOf(type, val[u], val[a]) /\ val[b] = JunctionOf(type, val[u], val[b])
          BY <3>1, <3>2, <4>1, JunctionLaws
        <4>3. Shares(E, size, val, type, a, b, <<a, b>>)
          BY <3>1, <4>1, <4>2 DEF Shares
        <4>. QED
          BY <3>3, <3>4, <4>3 DEF Taken
      <3>5. CASE eq[<<a, b>>]
        <4>1. val[a] = val[b]
          BY <3>5, EqualsMean
        <4>2. val[a] = JunctionOf(type, val[a], val[u]) /\ val[b] = JunctionOf(type, val[a], val[u])
          BY <3>1, <3>2, <4>1
        <4>3. Shares(E, size, val, type, a, b, <<u, u>>)
          BY <3>1, <3>2, <4>2 DEF Shares
        <4>4. (IF t = NULL THEN a ELSE <<type, t, a>>) \in E
          BY <2>1, Written
        <4>. QED
          BY <3>3, <3>5, <4>3, <4>4 DEF Taken
      <3>. QED
        BY <3>4, <3>5
    <2>. QED
      BY <2>2, <2>3, <2>4
  <1>2. both \in [D -> Nat]
    BY ShapeIs
  <1>3. ASSUME NEW w \in D, \A z \in D : both[z] < both[w] => z \in P
        PROVE  w \in P
    <2>1. PICK a \in E, b \in E : w = <<a, b>>
      OBVIOUS
    <2>2. ASSUME NEW x \in E, NEW y \in E, size[x] + size[y] < size[a] + size[b]
          PROVE  Good(x, y)
      <3>1. <<x, y>> \in D /\ both[<<x, y>>] < both[w]
        BY <2>1, <2>2
      <3>2. <<x, y>> \in P
        BY <1>3, <3>1
      <3>. QED
        BY <3>2
    <2>3. Good(a, b)
      BY <1>1, <2>2
    <2>. QED
      BY <2>1, <2>3
  <1>4. D \subseteq P
    <2> HIDE DEF D, both, P
    <2>. QED
      BY <1>2, <1>3, SizeInduction
  <1>5. ASSUME NEW a \in E, NEW b \in E
        PROVE  Good(a, b)
    <2>1. <<a, b>> \in P
      BY <1>4
    <2>. QED
      BY <2>1
  <1>. QED
    BY <1>5
-----------------------------------------------------------------------------
(* Paths through the junctions of an expression.  within[type] are the     *)
(* expressions and the paths to what is an operand of them as junctions of *)
(* that type, at and put read and replace what a path leads to.            *)
Paths == Seq({2, 3})

Reads(E, at) ==
    LET At(e, p) == at[<<e, p>>] IN \A e \in E, p \in Paths : at[<<e, p>>] = AtBody(e, p, At)
Replaces(E, put) ==
    \A e \in E, p \in Paths, x \in E :
       LET Put(f, q) == put[<<f, q, x>>] IN put[<<e, p, x>>] = PutBody(e, p, x, Put)
Navigates(E, at, put) == Reads(E, at) /\ Replaces(E, put)

Within(E, within) ==
    \A type \in Junctions :
       within[type] = {w \in E \X Paths :
                          \/ w[2] = <<>>
                          \/ Tag(w[1]) = type /\ <<w[1][Head(w[2])], Tail(w[2])>> \in within[type]}

LEMMA PathIs ==
    ASSUME NEW p \in Paths
    PROVE  /\ Len(p) \in Nat /\ (p = <<>> <=> Len(p) = 0)
           /\ p # <<>> => Head(p) \in {2, 3} /\ Tail(p) \in Paths /\ Len(Tail(p)) = Len(p) - 1
  BY DEF Paths

LEMMA PathExtended ==
    ASSUME NEW p \in Paths, NEW d \in {2, 3}
    PROVE  /\ Append(p, d) \in Paths /\ Append(p, d) # <<>> /\ Len(Append(p, d)) = Len(p) + 1
           /\ p = <<>> => Head(Append(p, d)) = d /\ Tail(Append(p, d)) = <<>>
           /\ p # <<>> => /\ Head(Append(p, d)) = Head(p)
                          /\ Tail(Append(p, d)) = Append(Tail(p), d)
  <1>1. Append(p, d) \in Paths /\ Append(p, d) # <<>> /\ Len(Append(p, d)) = Len(p) + 1
    BY DEF Paths
  <1>2. p = <<>> => Head(Append(p, d)) = d /\ Tail(Append(p, d)) = <<>>
    BY DEF Paths
  <1>3. p # <<>> => /\ Head(Append(p, d)) = Head(p)
                    /\ Tail(Append(p, d)) = Append(Tail(p), d)
    BY DEF Paths
  <1>. QED
    BY <1>1, <1>2, <1>3

LEMMA SamePath ==
    ASSUME NEW p \in Paths, NEW q \in Paths, p # <<>>, q # <<>>, Head(p) = Head(q), Tail(p) = Tail(q)
    PROVE  p = q
  <1>1. /\ Len(p) \in Nat /\ Len(q) \in Nat /\ Len(p) = Len(q)
        /\ p \in [1 .. Len(p) -> {2, 3}] /\ q \in [1 .. Len(q) -> {2, 3}]
    BY PathIs DEF Paths
  <1>2. ASSUME NEW i \in 1 .. Len(p)
        PROVE  p[i] = q[i]
    <2>1. CASE i = 1
      BY <2>1 DEF Paths
    <2>2. CASE i # 1
      <3>1. i - 1 \in 1 .. Len(Tail(p)) /\ i - 1 \in 1 .. Len(Tail(q))
        BY <1>1, <2>2, PathIs
      <3>2. Tail(p)[i - 1] = p[i] /\ Tail(q)[i - 1] = q[i]
        BY <1>1, <3>1 DEF Paths
      <3>. QED
        BY <3>2
    <2>. QED
      BY <2>1, <2>2
  <1>. QED
    BY <1>1, <1>2

(* The junction e with its operand d replaced by y, and the operand beside.*)
With(e, d, y) == IF d = 2 THEN <<Tag(e), y, Right(e)>> ELSE <<Tag(e), Left(e), y>>
Beside(e, d) == IF d = 2 THEN Right(e) ELSE Left(e)

LEMMA OperandIn ==
    ASSUME NEW E, NEW S, NEW size, Expressions(E, S, size), NEW e \in E, Tag(e) \in Junctions,
           NEW d \in {2, 3}
    PROVE  /\ e[d] \in E /\ Beside(e, d) \in E /\ With(e, d, e[d]) = e
           /\ size[e] = size[e[d]] + size[Beside(e, d)] + 1
           /\ size[e] \in Nat /\ size[e[d]] \in Nat /\ size[Beside(e, d)] \in Nat
           /\ size[e] > 0 /\ size[e[d]] > 0 /\ size[Beside(e, d)] > 0
  <1>1. /\ Left(e) \in E /\ Right(e) \in E /\ e = <<Tag(e), Left(e), Right(e)>>
        /\ size[e] = size[Left(e)] + size[Right(e)] + 1
        /\ size[e] \in Nat /\ size[Left(e)] \in Nat /\ size[Right(e)] \in Nat
        /\ size[e] > 0 /\ size[Left(e)] > 0 /\ size[Right(e)] > 0
    BY OperandsOf
  <1>2. \/ d = 2 /\ e[d] = Left(e) /\ Beside(e, d) = Right(e) /\ With(e, d, e[d]) = <<Tag(e), Left(e), Right(e)>>
        \/ d = 3 /\ e[d] = Right(e) /\ Beside(e, d) = Left(e) /\ With(e, d, e[d]) = <<Tag(e), Left(e), Right(e)>>
    BY DEF With, Beside, Left, Right
  <1>. QED
    BY <1>1, <1>2

LEMMA Replaced ==
    ASSUME NEW E, NEW S, NEW size, Expressions(E, S, size), NEW e \in E, Tag(e) \in Junctions,
           NEW d \in {2, 3}, NEW y \in E
    PROVE  /\ With(e, d, y) \in E /\ Tag(With(e, d, y)) = Tag(e) /\ With(e, d, y)[d] = y
           /\ [e EXCEPT ![d] = y] = With(e, d, y) /\ Beside(With(e, d, y), d) = Beside(e, d)
           /\ \A k \in {2, 3} : k # d => With(e, d, y)[k] = e[k]
           /\ size[With(e, d, y)] = size[y] + size[Beside(e, d)] + 1
  <1>1. PICK t \in Junctions, l \in E, r \in E : t = Tag(e) /\ l = Left(e) /\ r = Right(e) /\ e = <<t, l, r>>
    BY OperandsOf
  <1>2. size[e] = size[l] + size[r] + 1
    BY <1>1, OperandsOf
  <1>3. /\ <<t, y, r>> \in E /\ size[<<t, y, r>>] = size[y] + size[r] + 1
        /\ <<t, l, y>> \in E /\ size[<<t, l, y>>] = size[l] + size[y] + 1
    BY DEF Expressions
  <1>4. /\ size[y] \in Nat /\ size[y] > 0 /\ size[l] \in Nat /\ size[l] > 0
        /\ size[r] \in Nat /\ size[r] > 0
    BY ShapeIs
  <1>5. CASE d = 2
    <2>1. e[d] = l /\ Beside(e, d) = r /\ With(e, d, y) = <<t, y, r>> /\ Tag(e) = t
      BY <1>1, <1>5 DEF With, Beside
    <2>2. [e EXCEPT ![d] = y] = <<t, y, r>>
      BY <1>1, <1>5
    <2>. QED
      BY <1>1, <1>2, <1>3, <1>4, <1>5, <2>1, <2>2 DEF Tag, Beside, Left, Right
  <1>6. CASE d = 3
    <2>1. e[d] = r /\ Beside(e, d) = l /\ With(e, d, y) = <<t, l, y>> /\ Tag(e) = t
      BY <1>1, <1>6 DEF With, Beside
    <2>2. [e EXCEPT ![d] = y] = <<t, l, y>>
      BY <1>1, <1>6
    <2>. QED
      BY <1>1, <1>2, <1>3, <1>4, <1>6, <2>1, <2>2 DEF Tag, Beside, Left, Right
  <1>. QED
    BY <1>5, <1>6

LEMMA ReplacedMeans ==
    ASSUME NEW E, NEW S, NEW size, Expressions(E, S, size), NEW v, NEW val, Calculates(E, v, val),
           NEW e \in E, Tag(e) \in Junctions, NEW d \in {2, 3}, NEW y \in E
    PROVE  /\ val[With(e, d, y)] = JunctionOf(Tag(e), val[Beside(e, d)], val[y])
           /\ val[Beside(e, d)] \in 0 .. 2 /\ val[y] \in 0 .. 2
  <1>1. PICK t \in Junctions, l \in E, r \in E : t = Tag(e) /\ l = Left(e) /\ r = Right(e)
    BY OperandsOf
  <1>2. val[<<t, y, r>>] = JunctionOf(t, val[y], val[r]) /\ val[<<t, l, y>>] = JunctionOf(t, val[l], val[y])
    BY Calculated
  <1>3. val[l] \in 0 .. 2 /\ val[r] \in 0 .. 2 /\ val[y] \in 0 .. 2
    BY ValuesAreTristates
  <1>4. JunctionOf(t, val[y], val[r]) = JunctionOf(t, val[r], val[y])
    BY <1>3, JunctionLaws
  <1>. QED
    BY <1>1, <1>2, <1>3, <1>4 DEF With, Beside

(* One step along a path.                                                  *)
LEMMA PathStep ==
    ASSUME NEW E, NEW S, NEW size, Expressions(E, S, size), NEW at, NEW put, Navigates(E, at, put),
           NEW within, Within(E, within), NEW type \in Junctions, NEW e \in E, NEW p \in Paths,
           <<e, p>> \in within[type], p # <<>>
    PROVE  Tag(e) = type /\ e[Head(p)] \in E /\ <<e[Head(p)], Tail(p)>> \in within[type]
  <1>1. Head(p) \in {2, 3}
    BY PathIs
  <1>2. Tag(e) = type /\ <<e[Head(p)], Tail(p)>> \in within[type]
    BY DEF Within
  <1>. QED
    BY <1>1, <1>2, OperandIn

ReadsOn(E, at) ==
    \A e \in E, p \in Paths : p # <<>> => at[<<e, p>>] = at[<<e[Head(p)], Tail(p)>>]

LEMMA ReadStep ==
    ASSUME NEW E, NEW at, NEW put, Navigates(E, at, put)
    PROVE  ReadsOn(E, at)
  BY DEF Navigates, Reads, AtBody, ReadsOn

PutsOn(E, put) ==
    \A e \in E, p \in Paths, x \in E :
       (p # <<>> /\ Tag(e) \in Junctions /\ put[<<e[Head(p)], Tail(p), x>>] \in E) =>
          put[<<e, p, x>>] = With(e, Head(p), put[<<e[Head(p)], Tail(p), x>>])

LEMMA PutStep ==
    ASSUME NEW E, NEW S, NEW size, Expressions(E, S, size), NEW at, NEW put, Navigates(E, at, put)
    PROVE  PutsOn(E, put)
  <1>1. ASSUME NEW e \in E, NEW p \in Paths, NEW x \in E, p # <<>>, Tag(e) \in Junctions,
               NEW y \in E, y = put[<<e[Head(p)], Tail(p), x>>]
        PROVE  put[<<e, p, x>>] = With(e, Head(p), y)
    <2>1. Head(p) \in {2, 3}
      BY <1>1, PathIs
    <2>2. put[<<e, p, x>>] = [e EXCEPT ![Head(p)] = put[<<e[Head(p)], Tail(p), x>>]]
      BY <1>1 DEF Navigates, Replaces, PutBody
    <2>3. [e EXCEPT ![Head(p)] = y] = With(e, Head(p), y)
      BY <1>1, <2>1, Replaced
    <2>. QED
      BY <1>1, <2>2, <2>3
  <1>. QED
    BY <1>1 DEF PutsOn

LEMMA PathEnd ==
    ASSUME NEW E, NEW at, NEW put, Navigates(E, at, put), NEW within, Within(E, within),
           NEW type \in Junctions, NEW e \in E
    PROVE  /\ <<e, <<>>>> \in within[type] /\ at[<<e, <<>>>>] = e
           /\ \A x \in E : put[<<e, <<>>, x>>] = x
  <1>1. <<>> \in Paths
    BY DEF Paths
  <1>2. <<e, <<>>>> \in within[type]
    <2>1. within[type] = {w \in E \X Paths :
                             \/ w[2] = <<>>
                             \/ Tag(w[1]) = type /\ <<w[1][Head(w[2])], Tail(w[2])>> \in within[type]}
      BY DEF Within
    <2>. QED
      BY <1>1, <2>1
  <1>3. at[<<e, <<>>>>] = e
    BY <1>1 DEF Navigates, Reads, AtBody
  <1>4. \A x \in E : put[<<e, <<>>, x>>] = x
    BY <1>1 DEF Navigates, Replaces, PutBody
  <1>. QED
    BY <1>2, <1>3, <1>4

(* The way back: a step to the operand d, then the path r.                 *)
LEMMA PathFrom ==
    ASSUME NEW E, NEW S, NEW size, Expressions(E, S, size), NEW at, NEW put, Navigates(E, at, put),
           NEW within, Within(E, within), NEW type \in Junctions, NEW e \in E, Tag(e) = type,
           NEW p \in Paths, p # <<>>, <<e[Head(p)], Tail(p)>> \in within[type]
    PROVE  <<e, p>> \in within[type]
  BY DEF Within

(* Induction over the length of a path.                                    *)
LEMMA PathInduction ==
    ASSUME NEW P, \A p \in Paths : (p # <<>> => Tail(p) \in P) => p \in P
    PROVE  Paths \subseteq P
  <1> DEFINE length == [p \in Paths |-> Len(p)]
  <1>1. length \in [Paths -> Nat]
    BY PathIs
  <1>2. ASSUME NEW p \in Paths, \A x \in Paths : length[x] < length[p] => x \in P
        PROVE  p \in P
    <2>1. ASSUME p # <<>>
          PROVE  Tail(p) \in P
      <3>1. Tail(p) \in Paths /\ length[Tail(p)] < length[p]
        BY <2>1, PathIs
      <3>. QED
        BY <1>2, <3>1
    <2>. QED
      BY <2>1
  <1>. QED
    <2> HIDE DEF length
    <2>. QED
      BY <1>1, <1>2, SizeInduction

(* What a path leads to can be replaced by anything.                       *)
Leads(E, size, at, put, within, type, e, p) ==
    /\ at[<<e, p>>] \in E
    /\ size[e] >= size[at[<<e, p>>]] + Len(p)
    /\ put[<<e, p, at[<<e, p>>]>>] = e
    /\ \A x \in E : LET u == put[<<e, p, x>>]
                    IN /\ u \in E /\ <<u, p>> \in within[type] /\ at[<<u, p>>] = x
                       /\ size[u] + size[at[<<e, p>>]] = size[e] + size[x]

Balance(size, u, a, e, x) == size[u] + size[a] = size[e] + size[x]

LEMMA ReplacedBalance ==
    ASSUME NEW E, NEW S, NEW size, Expressions(E, S, size), NEW e \in E, Tag(e) \in Junctions,
           NEW d \in {2, 3}, NEW f, f = e[d], NEW y \in E, NEW u, u = With(e, d, y),
           NEW a \in E, NEW x \in E, Balance(size, y, a, f, x)
    PROVE  Balance(size, u, a, e, x)
  <1>1. /\ size[e] = size[f] + size[Beside(e, d)] + 1
        /\ size[e] \in Nat /\ size[f] \in Nat /\ size[Beside(e, d)] \in Nat
    BY OperandIn
  <1>2. size[u] = size[y] + size[Beside(e, d)] + 1
    BY Replaced
  <1>3. size[y] \in Nat /\ size[a] \in Nat /\ size[x] \in Nat
    BY ShapeIs
  <1>. QED
    BY <1>1, <1>2, <1>3 DEF Balance

LEMMA LeadsOn ==
    ASSUME NEW E, NEW S, NEW size, Expressions(E, S, size), NEW at, NEW put, Navigates(E, at, put),
           NEW within, Within(E, within), NEW type \in Junctions, NEW e \in E, NEW p \in Paths,
           <<e, p>> \in within[type], p # <<>>,
           Leads(E, size, at, put, within, type, e[Head(p)], Tail(p))
    PROVE  Leads(E, size, at, put, within, type, e, p)
  <1>0. ReadsOn(E, at) /\ PutsOn(E, put)
    BY ReadStep, PutStep
  <1>1. PICK d, r : d = Head(p) /\ r = Tail(p)
    OBVIOUS
  <1>2. /\ d \in {2, 3} /\ r \in Paths /\ Len(r) = Len(p) - 1 /\ Len(r) \in Nat
        /\ Tag(e) = type /\ e[d] \in E /\ <<e[d], r>> \in within[type]
        /\ at[<<e, p>>] = at[<<e[d], r>>]
    <2>1. /\ Head(p) \in {2, 3} /\ Tail(p) \in Paths
          /\ Len(Tail(p)) = Len(p) - 1 /\ Len(Tail(p)) \in Nat
      BY PathIs
    <2>2. Tag(e) = type /\ e[Head(p)] \in E /\ <<e[Head(p)], Tail(p)>> \in within[type]
      BY PathStep
    <2>3. at[<<e, p>>] = at[<<e[Head(p)], Tail(p)>>]
      BY <1>0 DEF ReadsOn
    <2>. QED
      BY <1>1, <2>1, <2>2, <2>3
  <1>3. PICK f : f = e[d]
    OBVIOUS
  <1>4. Leads(E, size, at, put, within, type, f, r)
    BY <1>1, <1>2, <1>3
  <1>5. PICK a : a = at[<<f, r>>] /\ a = at[<<e, p>>]
    BY <1>2, <1>3
  <1>6. /\ a \in E /\ size[f] >= size[a] + Len(r) /\ put[<<f, r, a>>] = f
        /\ \A x \in E : /\ put[<<f, r, x>>] \in E /\ <<put[<<f, r, x>>], r>> \in within[type]
                        /\ at[<<put[<<f, r, x>>], r>>] = x
                        /\ size[put[<<f, r, x>>]] + size[a] = size[f] + size[x]
    BY <1>4, <1>5 DEF Leads
  <1>7. /\ f \in E /\ size[e] = size[f] + size[Beside(e, d)] + 1 /\ size[Beside(e, d)] \in Nat
        /\ size[f] \in Nat /\ size[e] \in Nat /\ size[a] \in Nat
    BY <1>2, <1>3, <1>6, OperandIn, ShapeIs
  <1>8. size[e] >= size[a] + Len(p)
    BY <1>2, <1>6, <1>7, PathIs
  <1>9. ASSUME NEW x \in E
        PROVE  /\ put[<<e, p, x>>] = With(e, d, put[<<f, r, x>>]) /\ put[<<e, p, x>>] \in E
               /\ <<put[<<e, p, x>>], p>> \in within[type] /\ at[<<put[<<e, p, x>>], p>>] = x
               /\ size[put[<<e, p, x>>]] + size[a] = size[e] + size[x]
    <2>1. PICK y : y = put[<<f, r, x>>]
      OBVIOUS
    <2>2. /\ y \in E /\ <<y, r>> \in within[type] /\ at[<<y, r>>] = x
          /\ size[y] + size[a] = size[f] + size[x] /\ size[y] \in Nat /\ size[x] \in Nat
      BY <1>6, <2>1, ShapeIs
    <2>3. PICK u : u = With(e, d, y)
      OBVIOUS
    <2>4. /\ u \in E /\ Tag(u) = type /\ u[d] = y
          /\ size[u] = size[y] + size[Beside(e, d)] + 1
      BY <1>2, <2>2, <2>3, Replaced
    <2>5. put[<<e, p, x>>] = u
      <3>1. y = put[<<e[Head(p)], Tail(p), x>>] /\ Tag(e) \in Junctions
        BY <1>1, <1>2, <1>3, <2>1
      <3>2. y \in E
        BY <2>2
      <3>3. put[<<e, p, x>>] = With(e, Head(p), y)
        BY <1>0, <3>1, <3>2 DEF PutsOn
      <3>. QED
        BY <1>1, <2>3, <3>3
    <2>6. <<u, p>> \in within[type]
      BY <1>1, <2>2, <2>4, PathFrom
    <2>7. at[<<u, p>>] = x
      <3>1. at[<<u, p>>] = at[<<u[Head(p)], Tail(p)>>]
        <4>1. u \in E
          BY <2>4
        <4>. QED
          BY <1>0, <4>1 DEF ReadsOn
      <3>. QED
        BY <1>1, <2>2, <2>4, <3>1
    <2>8. size[u] + size[a] = size[e] + size[x]
      <3>1. Balance(size, y, a, f, x)
        BY <2>2 DEF Balance
      <3>2. Balance(size, u, a, e, x)
        BY <1>2, <1>3, <1>6, <2>2, <2>3, <3>1, ReplacedBalance
      <3>. QED
        BY <3>2 DEF Balance
    <2>. QED
      BY <2>1, <2>3, <2>4, <2>5, <2>6, <2>7, <2>8
  <1>10. put[<<e, p, a>>] = e
    <2>1. put[<<e, p, a>>] = With(e, d, e[d])
      BY <1>3, <1>6, <1>9
    <2>. QED
      BY <1>2, <2>1, OperandIn
  <1>. QED
    BY <1>5, <1>6, <1>8, <1>9, <1>10 DEF Leads

LEMMA PathsLead ==
    ASSUME NEW E, NEW S, NEW size, Expressions(E, S, size), NEW at, NEW put, Navigates(E, at, put),
           NEW within, Within(E, within), NEW type \in Junctions
    PROVE  \A e \in E, p \in Paths :
              <<e, p>> \in within[type] => Leads(E, size, at, put, within, type, e, p)
  <1> DEFINE P == {p \in Paths : \A e \in E :
                      <<e, p>> \in within[type] => Leads(E, size, at, put, within, type, e, p)}
  <1>1. ASSUME NEW p \in Paths, p # <<>> => Tail(p) \in P, NEW e \in E, <<e, p>> \in within[type]
        PROVE  Leads(E, size, at, put, within, type, e, p)
    <2>1. CASE p = <<>>
      <3>1. size[e] \in Nat /\ \A x \in E : size[x] \in Nat
        BY ShapeIs
      <3>2. Len(p) = 0
        BY <2>1
      <3>. QED
        BY <2>1, <3>1, <3>2, PathEnd DEF Leads
    <2>2. CASE p # <<>>
      <3>1. e[Head(p)] \in E /\ <<e[Head(p)], Tail(p)>> \in within[type]
        <4> HIDE DEF P
        <4>. QED
          BY <1>1, <2>2, PathStep
      <3>2. Leads(E, size, at, put, within, type, e[Head(p)], Tail(p))
        BY <1>1, <2>2, <3>1
      <3>. QED
        BY <1>1, <2>2, <3>2, LeadsOn
    <2>. QED
      BY <2>1, <2>2
  <1>2. Paths \subseteq P
    <2>1. \A p \in Paths : (p # <<>> => Tail(p) \in P) => p \in P
      BY <1>1
    <2> HIDE DEF P
    <2>. QED
      BY <2>1, PathInduction
  <1>. QED
    BY <1>2

(* What is read and replaced at a path that is not empty.                  *)
Descends(E, at, put, within, type, e, p, d, f, r) ==
    /\ d \in {2, 3} /\ f \in E /\ r \in Paths
    /\ d = Head(p) /\ r = Tail(p) /\ f = e[d]
    /\ Tag(e) = type /\ <<f, r>> \in within[type] /\ at[<<e, p>>] = at[<<f, r>>]
    /\ \A x \in E : put[<<f, r, x>>] \in E /\ put[<<e, p, x>>] = With(e, d, put[<<f, r, x>>])

LEMMA PathDescends ==
    ASSUME NEW E, NEW S, NEW size, Expressions(E, S, size), NEW at, NEW put, Navigates(E, at, put),
           NEW within, Within(E, within), NEW type \in Junctions, NEW e \in E, NEW p \in Paths,
           <<e, p>> \in within[type], p # <<>>
    PROVE  \E d, f, r : Descends(E, at, put, within, type, e, p, d, f, r)
  <1>0. ReadsOn(E, at) /\ PutsOn(E, put)
    BY ReadStep, PutStep
  <1>1. /\ Head(p) \in {2, 3} /\ Tail(p) \in Paths
        /\ Tag(e) = type /\ e[Head(p)] \in E /\ <<e[Head(p)], Tail(p)>> \in within[type]
        /\ at[<<e, p>>] = at[<<e[Head(p)], Tail(p)>>]
    <2>1. Head(p) \in {2, 3} /\ Tail(p) \in Paths
      BY PathIs
    <2>2. Tag(e) = type /\ e[Head(p)] \in E /\ <<e[Head(p)], Tail(p)>> \in within[type]
      BY PathStep
    <2>3. at[<<e, p>>] = at[<<e[Head(p)], Tail(p)>>]
      BY <1>0 DEF ReadsOn
    <2>. QED
      BY <2>1, <2>2, <2>3
  <1>2. Leads(E, size, at, put, within, type, e[Head(p)], Tail(p))
    BY <1>1, PathsLead
  <1>3. \A x \in E : put[<<e[Head(p)], Tail(p), x>>] \in E
    BY <1>2 DEF Leads
  <1>4. ASSUME NEW x \in E
        PROVE  put[<<e, p, x>>] = With(e, Head(p), put[<<e[Head(p)], Tail(p), x>>])
    <2>1. PICK y \in E : y = put[<<e[Head(p)], Tail(p), x>>]
      BY <1>3
    <2>2. Tag(e) \in Junctions
      BY <1>1
    <2>3. put[<<e, p, x>>] = With(e, Head(p), y)
      BY <1>0, <2>1, <2>2 DEF PutsOn
    <2>. QED
      BY <2>1, <2>3
  <1>5. Descends(E, at, put, within, type, e, p, Head(p), e[Head(p)], Tail(p))
    BY <1>1, <1>3, <1>4 DEF Descends
  <1>. QED
    BY <1>5

(* An operand somewhere in a junction is joined to all of the others.      *)
LEMMA ContextOf ==
    ASSUME NEW E, NEW S, NEW size, Expressions(E, S, size), NEW v, NEW val, Calculates(E, v, val),
           NEW ty, Valuation(S, ty, v), NEW at, NEW put, Navigates(E, at, put),
           NEW within, Within(E, within), NEW type \in Junctions
    PROVE  \A e \in E, p \in Paths : <<e, p>> \in within[type] =>
              \E c \in 0 .. 2 : \A x \in E : val[put[<<e, p, x>>]] = JunctionOf(type, c, val[x])
  <1> DEFINE Context(e, p) ==
                 \E c \in 0 .. 2 : \A x \in E : val[put[<<e, p, x>>]] = JunctionOf(type, c, val[x])
             P == {p \in Paths : \A e \in E : <<e, p>> \in within[type] => Context(e, p)}
  <1>1. ASSUME NEW e \in E
        PROVE  Context(e, <<>>)
    <2>1. PICK u \in E : \A x \in 0 .. 2 : JunctionOf(type, x, val[u]) = x
      BY UnitIs
    <2>2. /\ <<e, <<>>>> \in within[type] /\ at[<<e, <<>>>>] = e
          /\ \A x \in E : put[<<e, <<>>, x>>] = x
      BY PathEnd
    <2>3. \A x \in E : val[x] \in 0 .. 2
      BY ValuesAreTristates
    <2>4. \A x \in E : JunctionOf(type, val[u], val[x]) = val[x]
      BY <2>1, <2>3, JunctionLaws
    <2>. QED
      BY <2>2, <2>3, <2>4
  <1>2. ASSUME NEW e \in E, NEW p \in Paths, NEW d, NEW f, NEW r,
               Descends(E, at, put, within, type, e, p, d, f, r), Context(f, r)
        PROVE  Context(e, p)
    <2>1. PICK c \in 0 .. 2 : \A x \in E : val[put[<<f, r, x>>]] = JunctionOf(type, c, val[x])
      BY <1>2
    <2>2. PICK b : b = val[Beside(e, d)]
      OBVIOUS
    <2>3. ASSUME NEW x \in E
          PROVE  /\ val[put[<<e, p, x>>]] = JunctionOf(type, b, JunctionOf(type, c, val[x]))
                 /\ b \in 0 .. 2 /\ val[x] \in 0 .. 2
      <3>1. PICK y \in E : y = put[<<f, r, x>>] /\ put[<<e, p, x>>] = With(e, d, y)
        BY <1>2 DEF Descends
      <3>2. d \in {2, 3} /\ Tag(e) = type
        BY <1>2 DEF Descends
      <3>3. val[With(e, d, y)] = JunctionOf(type, b, val[y]) /\ b \in 0 .. 2
        BY <2>2, <3>2, ReplacedMeans
      <3>4. val[x] \in 0 .. 2
        BY ValuesAreTristates
      <3>. QED
        BY <2>1, <3>1, <3>3, <3>4
    <2>4. PICK k : k = JunctionOf(type, b, c)
      OBVIOUS
    <2>5. ASSUME NEW x \in E
          PROVE  val[put[<<e, p, x>>]] = JunctionOf(type, k, val[x]) /\ k \in 0 .. 2
      BY <2>3, <2>4, JunctionLaws
    <2>. QED
      BY <1>2, <2>5
  <1>3. ASSUME NEW p \in Paths, p # <<>> => Tail(p) \in P, NEW e \in E, <<e, p>> \in within[type]
        PROVE  Context(e, p)
    <2>1. CASE p = <<>>
      BY <1>1, <2>1
    <2>2. CASE p # <<>>
      <3>1. PICK d, f, r : Descends(E, at, put, within, type, e, p, d, f, r)
        BY <1>3, <2>2, PathDescends
      <3>2. f \in E /\ r = Tail(p) /\ <<f, r>> \in within[type]
        BY <3>1 DEF Descends
      <3>3. Context(f, r)
        BY <1>3, <2>2, <3>2
      <3>. QED
        <4> HIDE DEF Context
        <4>. QED
          BY <1>2, <3>1, <3>3
    <2>. QED
      BY <2>1, <2>2
  <1>4. Paths \subseteq P
    <2>1. \A p \in Paths : (p # <<>> => Tail(p) \in P) => p \in P
      <3> HIDE DEF Context
      <3>. QED
        BY <1>3
    <2> HIDE DEF P
    <2>. QED
      BY <2>1, PathInduction
  <1>. QED
    BY <1>4

(* A path to a junction of the same type goes on to its operands.          *)
LEMMA PathGoesOn ==
    ASSUME NEW E, NEW S, NEW size, Expressions(E, S, size), NEW at, NEW put, Navigates(E, at, put),
           NEW within, Within(E, within), NEW type \in Junctions, NEW k \in {2, 3}
    PROVE  \A e \in E, p \in Paths : (<<e, p>> \in within[type] /\ Tag(at[<<e, p>>]) = type) =>
              <<e, Append(p, k)>> \in within[type] /\ at[<<e, Append(p, k)>>] = at[<<e, p>>][k]
  <1> DEFINE On(e, p) == Tag(at[<<e, p>>]) = type =>
                            /\ <<e, Append(p, k)>> \in within[type]
                            /\ at[<<e, Append(p, k)>>] = at[<<e, p>>][k]
             P == {p \in Paths : \A e \in E : <<e, p>> \in within[type] => On(e, p)}
  <1>0. ReadsOn(E, at)
    BY ReadStep
  <1>1. ASSUME NEW e \in E, NEW p \in Paths, p = <<>>
        PROVE  On(e, p)
    <2>1. SUFFICES ASSUME Tag(e) = type
                   PROVE  <<e, Append(p, k)>> \in within[type] /\ at[<<e, Append(p, k)>>] = e[k]
      BY <1>1, PathEnd
    <2>2. PICK q \in Paths : q = Append(p, k) /\ q # <<>> /\ Head(q) = k /\ Tail(q) = <<>>
      BY <1>1, PathExtended
    <2>3. e[k] \in E
      BY <2>1, OperandIn
    <2>4. <<e[k], <<>>>> \in within[type] /\ at[<<e[k], <<>>>>] = e[k]
      BY <2>3, PathEnd
    <2>5. <<e, q>> \in within[type]
      BY <2>1, <2>2, <2>4, PathFrom
    <2>6. at[<<e, q>>] = at[<<e[Head(q)], Tail(q)>>]
      BY <1>0, <2>2 DEF ReadsOn
    <2>. QED
      BY <2>2, <2>4, <2>5, <2>6
  <1>2. ASSUME NEW e \in E, NEW p \in Paths, NEW d, NEW f, NEW r, p # <<>>,
               Descends(E, at, put, within, type, e, p, d, f, r), On(f, r)
        PROVE  On(e, p)
    <2>1. SUFFICES ASSUME Tag(at[<<e, p>>]) = type
                   PROVE  <<e, Append(p, k)>> \in within[type] /\ at[<<e, Append(p, k)>>] = at[<<e, p>>][k]
      OBVIOUS
    <2>2. PICK q \in Paths : q = Append(p, k) /\ q # <<>> /\ Head(q) = Head(p) /\ Tail(q) = Append(Tail(p), k)
      BY <1>2, PathExtended
    <2>3. /\ Head(p) = d /\ Tail(p) = r /\ e[d] = f /\ Tag(e) = type /\ at[<<e, p>>] = at[<<f, r>>]
      BY <1>2 DEF Descends
    <2>4. <<f, Append(r, k)>> \in within[type] /\ at[<<f, Append(r, k)>>] = at[<<f, r>>][k]
      BY <1>2, <2>1, <2>3
    <2>5. <<e, q>> \in within[type]
      BY <2>2, <2>3, <2>4, PathFrom
    <2>6. at[<<e, q>>] = at[<<e[Head(q)], Tail(q)>>]
      BY <1>0, <2>2 DEF ReadsOn
    <2>. QED
      BY <2>2, <2>3, <2>4, <2>5, <2>6
  <1>3. ASSUME NEW p \in Paths, p # <<>> => Tail(p) \in P, NEW e \in E, <<e, p>> \in within[type]
        PROVE  On(e, p)
    <2>1. CASE p = <<>>
      <3> HIDE DEF On
      <3>. QED
        BY <1>1, <2>1
    <2>2. CASE p # <<>>
      <3>1. PICK d, f, r : Descends(E, at, put, within, type, e, p, d, f, r)
        BY <1>3, <2>2, PathDescends
      <3>2. f \in E /\ r = Tail(p) /\ <<f, r>> \in within[type]
        BY <3>1 DEF Descends
      <3> HIDE DEF On
      <3>3. On(f, r)
        BY <1>3, <2>2, <3>2
      <3>. QED
        BY <1>2, <2>2, <3>1, <3>3
    <2>. QED
      BY <2>1, <2>2
  <1>4. Paths \subseteq P
    <2>1. \A p \in Paths : (p # <<>> => Tail(p) \in P) => p \in P
      <3> HIDE DEF On
      <3>. QED
        BY <1>3
    <2> HIDE DEF P
    <2>. QED
      BY <2>1, PathInduction
  <1>. QED
    BY <1>4

(* Two paths: what is replaced at the end of the one leaves the other what *)
(* it was, unless it makes it longer.                                      *)
Keeps(E, at, put, within, type, e, p, q, x) ==
    LET u == put[<<e, p, x>>]
    IN /\ <<u, q>> \in within[type]
       /\ Tag(x) # type => (Tag(at[<<u, q>>]) = type <=> Tag(at[<<e, q>>]) = type)
Ends(at, within, type, e, p) == <<e, p>> \in within[type] /\ Tag(at[<<e, p>>]) # type

AtTheEnd(E, at, put, within, type) ==
    \A w \in E : /\ <<w, <<>>>> \in within[type] /\ at[<<w, <<>>>>] = w
                 /\ \A y \in E : put[<<w, <<>>, y>>] = y

LEMMA NothingToWalk ==
    ASSUME NEW E, NEW at, NEW put, Navigates(E, at, put), NEW within, Within(E, within),
           NEW type \in Junctions
    PROVE  AtTheEnd(E, at, put, within, type)
  <1>1. ASSUME NEW w \in E
        PROVE  /\ <<w, <<>>>> \in within[type] /\ at[<<w, <<>>>>] = w
               /\ \A y \in E : put[<<w, <<>>, y>>] = y
    BY PathEnd
  <1>. QED
    BY <1>1 DEF AtTheEnd

LEMMA EndIs ==
    ASSUME NEW E, NEW S, NEW size, Expressions(E, S, size), NEW at, NEW put, Navigates(E, at, put),
           NEW within, Within(E, within), NEW type \in Junctions, NEW e \in E, NEW p \in Paths,
           <<e, p>> \in within[type], Tag(e) # type
    PROVE  p = <<>>
  <1>1. ASSUME p # <<>>
        PROVE  Tag(e) = type
    <2>1. within[type] = {w \in E \X Paths :
                             \/ w[2] = <<>>
                             \/ Tag(w[1]) = type /\ <<w[1][Head(w[2])], Tail(w[2])>> \in within[type]}
      BY DEF Within
    <2>. QED
      BY <1>1, <2>1
  <1>. QED
    BY <1>1

LEMMA PutKeeps ==
    ASSUME NEW E, NEW S, NEW size, Expressions(E, S, size), NEW at, NEW put, Navigates(E, at, put),
           NEW within, Within(E, within), NEW type \in Junctions
    PROVE  \A e \in E, p \in Paths, q \in Paths, x \in E :
              (Ends(at, within, type, e, p) /\ <<e, q>> \in within[type]) =>
                 Keeps(E, at, put, within, type, e, p, q, x)
  <1> DEFINE P == {p \in Paths : \A e \in E, q \in Paths, x \in E :
                      (Ends(at, within, type, e, p) /\ <<e, q>> \in within[type]) =>
                         Keeps(E, at, put, within, type, e, p, q, x)}
  <1>0. ReadsOn(E, at) /\ AtTheEnd(E, at, put, within, type)
    BY ReadStep, NothingToWalk
  <1>1. ASSUME NEW e \in E, NEW q \in Paths, NEW x \in E, Tag(e) # type, <<e, q>> \in within[type]
        PROVE  Keeps(E, at, put, within, type, e, <<>>, q, x)
    <2>1. q = <<>>
      BY <1>1, EndIs
    <2>2. \A w \in E : /\ <<w, <<>>>> \in within[type] /\ at[<<w, <<>>>>] = w
                       /\ \A y \in E : put[<<w, <<>>, y>>] = y
      BY <1>0 DEF AtTheEnd
    <2>3. put[<<e, q, x>>] = x /\ <<x, q>> \in within[type] /\ at[<<x, q>>] = x /\ at[<<e, q>>] = e
      BY <2>1, <2>2
    <2>. QED
      BY <1>1, <2>1, <2>3 DEF Keeps
  <1>2. ASSUME NEW e \in E, NEW p \in Paths, NEW q \in Paths, NEW x \in E, q # <<>>,
               NEW d, NEW f, NEW r, Descends(E, at, put, within, type, e, p, d, f, r),
               NEW k, NEW g, NEW s, Descends(E, at, put, within, type, e, q, k, g, s),
               k = d => Keeps(E, at, put, within, type, f, r, s, x)
        PROVE  Keeps(E, at, put, within, type, e, p, q, x)
    <2>1. PICK y \in E : y = put[<<f, r, x>>] /\ put[<<e, p, x>>] = With(e, d, y)
      BY <1>2 DEF Descends
    <2>2. d \in {2, 3} /\ Tag(e) = type /\ f = e[d]
      BY <1>2 DEF Descends
    <2>3. PICK u : u = With(e, d, y)
      OBVIOUS
    <2>4. /\ u \in E /\ Tag(u) = type /\ u[d] = y
          /\ \A n \in {2, 3} : n # d => u[n] = e[n]
      BY <2>2, <2>3, Replaced
    <2>5. k \in {2, 3} /\ k = Head(q) /\ s = Tail(q) /\ g = e[k] /\ <<g, s>> \in within[type]
      BY <1>2 DEF Descends
    <2>6. at[<<e, q>>] = at[<<g, s>>]
      BY <1>2 DEF Descends
    <2>7. at[<<u, q>>] = at[<<u[k], s>>]
      BY <1>0, <1>2, <2>4, <2>5 DEF ReadsOn
    <2>8. CASE k = d
      <3>1. /\ <<y, s>> \in within[type]
            /\ Tag(x) # type => (Tag(at[<<y, s>>]) = type <=> Tag(at[<<f, s>>]) = type)
        BY <1>2, <2>1, <2>8 DEF Keeps
      <3>2. <<u, q>> \in within[type]
        BY <1>2, <2>4, <2>5, <2>8, <3>1, PathFrom
      <3>. QED
        BY <2>1, <2>2, <2>3, <2>4, <2>5, <2>6, <2>7, <2>8, <3>1, <3>2 DEF Keeps
    <2>9. CASE k # d
      <3>1. u[k] = g
        BY <2>4, <2>5, <2>9
      <3>2. <<u, q>> \in within[type]
        BY <1>2, <2>4, <2>5, <3>1, PathFrom
      <3>. QED
        BY <2>1, <2>3, <2>6, <2>7, <3>1, <3>2 DEF Keeps
    <2>. QED
      BY <2>8, <2>9
  <1>3. ASSUME NEW p \in Paths, p # <<>> => Tail(p) \in P, NEW e \in E, NEW q \in Paths, NEW x \in E,
               Ends(at, within, type, e, p), <<e, q>> \in within[type]
        PROVE  Keeps(E, at, put, within, type, e, p, q, x)
    <2>1. CASE p = <<>>
      <3>1. at[<<e, <<>>>>] = e
        BY PathEnd
      <3>2. Tag(e) # type
        BY <1>3, <2>1, <3>1 DEF Ends
      <3>. QED
        BY <1>1, <1>3, <2>1, <3>2
    <2>2. CASE p # <<>>
      <3>0. <<e, p>> \in within[type]
        BY <1>3 DEF Ends
      <3>1. PICK d, f, r : Descends(E, at, put, within, type, e, p, d, f, r)
        BY <2>2, <3>0, PathDescends
      <3>2. f \in E /\ r \in Paths /\ r = Tail(p) /\ <<f, r>> \in within[type] /\ f = e[d] /\ Tag(e) = type
            /\ at[<<e, p>>] = at[<<f, r>>]
        BY <3>1 DEF Descends
      <3>3. CASE q = <<>>
        <4>1. \A w \in E : /\ <<w, <<>>>> \in within[type] /\ at[<<w, <<>>>>] = w
                           /\ \A y \in E : put[<<w, <<>>, y>>] = y
          BY <1>0 DEF AtTheEnd
        <4>2. PICK y \in E : put[<<e, p, x>>] = With(e, d, y)
          BY <3>1 DEF Descends
        <4>3. d \in {2, 3}
          BY <3>1 DEF Descends
        <4>4. With(e, d, y) \in E /\ Tag(With(e, d, y)) = type
          BY <3>2, <4>3, Replaced
        <4>5. put[<<e, p, x>>] \in E /\ Tag(put[<<e, p, x>>]) = type
          BY <4>2, <4>4
        <4>. QED
          BY <3>2, <3>3, <4>1, <4>5 DEF Keeps
      <3>4. CASE q # <<>>
        <4>1. PICK k, g, s : Descends(E, at, put, within, type, e, q, k, g, s)
          BY <1>3, <3>4, PathDescends
        <4>2. s \in Paths /\ <<g, s>> \in within[type] /\ g = e[k]
          BY <4>1 DEF Descends
        <4>3. Ends(at, within, type, f, r)
          BY <1>3, <3>2 DEF Ends
        <4>4. k = d => Keeps(E, at, put, within, type, f, r, s, x)
          BY <1>3, <2>2, <3>2, <4>2, <4>3
        <4>. QED
          BY <1>2, <3>1, <3>4, <4>1, <4>4
      <3>. QED
        BY <3>3, <3>4
    <2>. QED
      BY <2>1, <2>2
  <1>4. Paths \subseteq P
    <2>1. \A p \in Paths : (p # <<>> => Tail(p) \in P) => p \in P
      BY <1>3
    <2> HIDE DEF P
    <2>. QED
      BY <2>1, PathInduction
  <1>. QED
    BY <1>4

(* Two different operands of a junction are replaced one after the other,  *)
(* and are joined to all of the others.                                    *)
Apart(E, val, at, put, type, e, p, q) ==
    /\ \A x \in E : at[<<put[<<e, p, x>>], q>>] = at[<<e, q>>]
    /\ \E c \in 0 .. 2 : \A x \in E, y \in E :
          val[put[<<put[<<e, p, x>>], q, y>>]] = JunctionOf(type, c, JunctionOf(type, val[x], val[y]))

Puts(E, put, within, type) ==
    \A w \in E, s \in Paths, y \in E : <<w, s>> \in within[type] => put[<<w, s, y>>] \in E

LEMMA PutIn ==
    ASSUME NEW E, NEW S, NEW size, Expressions(E, S, size), NEW at, NEW put, Navigates(E, at, put),
           NEW within, Within(E, within), NEW type \in Junctions
    PROVE  Puts(E, put, within, type)
  <1>1. ASSUME NEW w \in E, NEW s \in Paths, <<w, s>> \in within[type]
        PROVE  \A y \in E : put[<<w, s, y>>] \in E
    <2>1. Leads(E, size, at, put, within, type, w, s)
      BY <1>1, PathsLead
    <2>. QED
      BY <2>1 DEF Leads
  <1>. QED
    BY <1>1 DEF Puts

Contexts(E, val, put, within, type) ==
    \A e \in E, p \in Paths : <<e, p>> \in within[type] =>
       \E c \in 0 .. 2 : \A x \in E : val[put[<<e, p, x>>]] = JunctionOf(type, c, val[x])

LEMMA ContextsOf ==
    ASSUME NEW E, NEW S, NEW size, Expressions(E, S, size), NEW v, NEW val, Calculates(E, v, val),
           NEW ty, Valuation(S, ty, v), NEW at, NEW put, Navigates(E, at, put),
           NEW within, Within(E, within), NEW type \in Junctions
    PROVE  Contexts(E, val, put, within, type)
  BY ContextOf DEF Contexts

(* Both below the same operand of the junction.                            *)
LEMMA ApartBelow ==
    ASSUME NEW E, NEW S, NEW size, Expressions(E, S, size), NEW v, NEW val, Calculates(E, v, val),
           NEW at, NEW put, Navigates(E, at, put), NEW within, Within(E, within),
           NEW type \in Junctions, NEW e \in E, NEW p \in Paths, NEW q \in Paths, q # <<>>,
           NEW d, NEW f, NEW r, Descends(E, at, put, within, type, e, p, d, f, r),
           NEW s, Descends(E, at, put, within, type, e, q, d, f, s),
           Ends(at, within, type, f, r), Apart(E, val, at, put, type, f, r, s)
    PROVE  Apart(E, val, at, put, type, e, p, q)
  <1>0. ReadsOn(E, at) /\ Puts(E, put, within, type) /\ PutsOn(E, put)
    BY ReadStep, PutIn, PutStep
  <1>1. /\ d \in {2, 3} /\ Tag(e) = type /\ d = Head(q) /\ s = Tail(q) /\ at[<<e, q>>] = at[<<f, s>>]
        /\ f \in E /\ r \in Paths /\ s \in Paths /\ <<f, s>> \in within[type] /\ <<f, r>> \in within[type]
    BY DEF Descends
  <1>2. PICK c \in 0 .. 2 : \A x \in E, y \in E :
           val[put[<<put[<<f, r, x>>], s, y>>]] = JunctionOf(type, c, JunctionOf(type, val[x], val[y]))
    BY DEF Apart
  <1>3. PICK b : b = val[Beside(e, d)]
    OBVIOUS
  <1>4. b \in 0 .. 2
    <2>1. Beside(e, d) \in E
      BY <1>1, OperandIn
    <2>. QED
      BY <1>3, <2>1, ValuesAreTristates
  <1>5. ASSUME NEW x \in E
        PROVE  /\ at[<<put[<<e, p, x>>], q>>] = at[<<e, q>>]
               /\ \A y \in E : val[put[<<put[<<e, p, x>>], q, y>>]]
                     = JunctionOf(type, b, JunctionOf(type, c, JunctionOf(type, val[x], val[y])))
    <2>1. PICK z \in E : z = put[<<f, r, x>>] /\ put[<<e, p, x>>] = With(e, d, z)
      BY DEF Descends
    <2>2. PICK u : u = With(e, d, z)
      OBVIOUS
    <2>3. u \in E /\ Tag(u) = type /\ u[d] = z /\ Beside(u, d) = Beside(e, d)
      BY <1>1, <2>2, Replaced
    <2>4. at[<<u, q>>] = at[<<z, s>>]
      BY <1>0, <1>1, <2>3 DEF ReadsOn
    <2>5. at[<<z, s>>] = at[<<f, s>>]
      BY <2>1 DEF Apart
    <2>6. <<z, s>> \in within[type]
      <3>1. Keeps(E, at, put, within, type, f, r, s, x)
        BY <1>1, PutKeeps
      <3>. QED
        BY <2>1, <3>1 DEF Keeps
    <2>7. ASSUME NEW y \in E
          PROVE  val[put[<<u, q, y>>]]
                    = JunctionOf(type, b, JunctionOf(type, c, JunctionOf(type, val[x], val[y])))
      <3>1. PICK n \in E : n = put[<<z, s, y>>]
        BY <1>0, <1>1, <2>6 DEF Puts
      <3>2. n = put[<<u[Head(q)], Tail(q), y>>] /\ Tag(u) \in Junctions
        BY <1>1, <2>3, <3>1
      <3>3. u \in E
        BY <2>3
      <3>4. put[<<u, q, y>>] = With(u, Head(q), n)
        BY <1>0, <3>2, <3>3 DEF PutsOn
      <3>5. d \in {2, 3}
        BY <1>1
      <3>6. val[With(u, d, n)] = JunctionOf(Tag(u), val[Beside(u, d)], val[n])
        BY <3>2, <3>3, <3>5, ReplacedMeans
      <3>7. val[n] = JunctionOf(type, c, JunctionOf(type, val[x], val[y]))
        BY <1>2, <2>1, <3>1
      <3>. QED
        BY <1>1, <1>3, <2>3, <3>4, <3>6, <3>7
    <2>. QED
      BY <1>1, <2>1, <2>2, <2>4, <2>5, <2>7
  <1>6. PICK k : k = JunctionOf(type, b, c)
    OBVIOUS
  <1>7. ASSUME NEW x \in E, NEW y \in E
        PROVE  /\ JunctionOf(type, b, JunctionOf(type, c, JunctionOf(type, val[x], val[y])))
                     = JunctionOf(type, k, JunctionOf(type, val[x], val[y]))
               /\ k \in 0 .. 2
    <2>1. val[x] \in 0 .. 2 /\ val[y] \in 0 .. 2
      BY ValuesAreTristates
    <2>2. JunctionOf(type, val[x], val[y]) \in 0 .. 2
      BY <2>1, JunctionLaws
    <2>. QED
      BY <1>4, <1>6, <2>2, JunctionLaws
  <1>8. k \in 0 .. 2
    BY <1>4, <1>6, JunctionLaws
  <1>9. \A x \in E, y \in E :
           val[put[<<put[<<e, p, x>>], q, y>>]] = JunctionOf(type, k, JunctionOf(type, val[x], val[y]))
    BY <1>5, <1>7
  <1>. QED
    BY <1>5, <1>8, <1>9 DEF Apart

(* Each below another operand.                                             *)
LEMMA ApartBeside ==
    ASSUME NEW E, NEW S, NEW size, Expressions(E, S, size), NEW v, NEW val, Calculates(E, v, val),
           NEW ty, Valuation(S, ty, v), NEW at, NEW put, Navigates(E, at, put),
           NEW within, Within(E, within), NEW type \in Junctions,
           NEW e \in E, NEW p \in Paths, NEW q \in Paths, q # <<>>,
           NEW d, NEW f, NEW r, Descends(E, at, put, within, type, e, p, d, f, r),
           NEW k, NEW g, NEW s, Descends(E, at, put, within, type, e, q, k, g, s), k # d
    PROVE  Apart(E, val, at, put, type, e, p, q)
  <1>0. /\ ReadsOn(E, at) /\ Puts(E, put, within, type) /\ PutsOn(E, put)
        /\ Contexts(E, val, put, within, type)
    BY ReadStep, PutIn, PutStep, ContextsOf
  <1>1. /\ d \in {2, 3} /\ Tag(e) = type /\ f \in E /\ r \in Paths /\ <<f, r>> \in within[type]
        /\ k \in {2, 3} /\ k = Head(q) /\ s = Tail(q) /\ at[<<e, q>>] = at[<<g, s>>]
        /\ g \in E /\ s \in Paths /\ <<g, s>> \in within[type] /\ g = e[k]
    BY DEF Descends
  <1>2. PICK b \in 0 .. 2 : \A x \in E : val[put[<<f, r, x>>]] = JunctionOf(type, b, val[x])
    BY <1>0, <1>1 DEF Contexts
  <1>3. PICK c \in 0 .. 2 : \A y \in E : val[put[<<g, s, y>>]] = JunctionOf(type, c, val[y])
    BY <1>0, <1>1 DEF Contexts
  <1>4. PICK m : m = JunctionOf(type, b, c)
    OBVIOUS
  <1>5. ASSUME NEW x \in E
        PROVE  /\ at[<<put[<<e, p, x>>], q>>] = at[<<e, q>>]
               /\ \A y \in E : val[put[<<put[<<e, p, x>>], q, y>>]]
                     = JunctionOf(type, JunctionOf(type, b, val[x]), JunctionOf(type, c, val[y]))
    <2>1. PICK z \in E : z = put[<<f, r, x>>] /\ put[<<e, p, x>>] = With(e, d, z)
      BY DEF Descends
    <2>2. PICK u : u = With(e, d, z)
      OBVIOUS
    <2>3. u \in E /\ Tag(u) = type /\ u[d] = z /\ \A n \in {2, 3} : n # d => u[n] = e[n]
      BY <1>1, <2>2, Replaced
    <2>4. u[k] = g
      BY <1>1, <2>3
    <2>5. at[<<u, q>>] = at[<<g, s>>]
      BY <1>0, <1>1, <2>3, <2>4 DEF ReadsOn
    <2>6. Beside(u, k) = z
      BY <1>1, <2>3 DEF Beside, Left, Right
    <2>7. ASSUME NEW y \in E
          PROVE  val[put[<<u, q, y>>]]
                    = JunctionOf(type, JunctionOf(type, b, val[x]), JunctionOf(type, c, val[y]))
      <3>1. PICK n \in E : n = put[<<g, s, y>>]
        BY <1>0, <1>1 DEF Puts
      <3>2. n = put[<<u[Head(q)], Tail(q), y>>] /\ Tag(u) \in Junctions
        BY <1>1, <2>3, <2>4, <3>1
      <3>3. u \in E
        BY <2>3
      <3>4. put[<<u, q, y>>] = With(u, Head(q), n)
        BY <1>0, <3>2, <3>3 DEF PutsOn
      <3>5. k \in {2, 3}
        BY <1>1
      <3>6. val[With(u, k, n)] = JunctionOf(Tag(u), val[Beside(u, k)], val[n])
        BY <3>2, <3>3, <3>5, ReplacedMeans
      <3>7. val[n] = JunctionOf(type, c, val[y]) /\ val[z] = JunctionOf(type, b, val[x])
        BY <1>2, <1>3, <2>1, <3>1
      <3>. QED
        BY <1>1, <2>3, <2>6, <3>4, <3>6, <3>7
    <2>. QED
      BY <1>1, <2>1, <2>2, <2>5, <2>7
  <1>6. ASSUME NEW x \in E, NEW y \in E
        PROVE  JunctionOf(type, JunctionOf(type, b, val[x]), JunctionOf(type, c, val[y]))
                  = JunctionOf(type, m, JunctionOf(type, val[x], val[y]))
    <2>1. val[x] \in 0 .. 2 /\ val[y] \in 0 .. 2
      BY ValuesAreTristates
    <2>. QED
      BY <1>4, <2>1, JunctionLaws
  <1>7. m \in 0 .. 2
    BY <1>4, JunctionLaws
  <1>8. \A x \in E, y \in E :
           val[put[<<put[<<e, p, x>>], q, y>>]] = JunctionOf(type, m, JunctionOf(type, val[x], val[y]))
    BY <1>5, <1>6
  <1>. QED
    BY <1>5, <1>7, <1>8 DEF Apart

LEMMA PlacesApart ==
    ASSUME NEW E, NEW S, NEW size, Expressions(E, S, size), NEW v, NEW val, Calculates(E, v, val),
           NEW ty, Valuation(S, ty, v), NEW at, NEW put, Navigates(E, at, put),
           NEW within, Within(E, within), NEW type \in Junctions
    PROVE  \A e \in E, p \in Paths, q \in Paths :
              (Ends(at, within, type, e, p) /\ Ends(at, within, type, e, q) /\ p # q) =>
                 Apart(E, val, at, put, type, e, p, q)
  <1> DEFINE P == {p \in Paths : \A e \in E, q \in Paths :
                      (Ends(at, within, type, e, p) /\ Ends(at, within, type, e, q) /\ p # q) =>
                         Apart(E, val, at, put, type, e, p, q)}
  <1>1. ASSUME NEW e \in E, NEW p \in Paths, Ends(at, within, type, e, p), Tag(e) = type
        PROVE  p # <<>>
    <2>1. at[<<e, <<>>>>] = e
      BY PathEnd
    <2>. QED
      BY <1>1, <2>1 DEF Ends
  <1>2. ASSUME NEW p \in Paths, p # <<>> => Tail(p) \in P, NEW e \in E, NEW q \in Paths,
               Ends(at, within, type, e, p), Ends(at, within, type, e, q), p # q
        PROVE  Apart(E, val, at, put, type, e, p, q)
    <2>1. <<e, p>> \in within[type] /\ <<e, q>> \in within[type]
      BY <1>2 DEF Ends
    <2>2. p # <<>> /\ q # <<>>
      <3>1. CASE Tag(e) = type
        BY <1>1, <1>2, <3>1
      <3>2. CASE Tag(e) # type
        <4>1. p = <<>>
          BY <2>1, <3>2, EndIs
        <4>2. q = <<>>
          BY <2>1, <3>2, EndIs
        <4>. QED
          BY <1>2, <4>1, <4>2
      <3>. QED
        BY <3>1, <3>2
    <2>3. PICK d, f, r : Descends(E, at, put, within, type, e, p, d, f, r)
      BY <2>1, <2>2, PathDescends
    <2>4. PICK k, g, s : Descends(E, at, put, within, type, e, q, k, g, s)
      BY <2>1, <2>2, PathDescends
    <2>5. CASE k # d
      BY <2>2, <2>3, <2>4, <2>5, ApartBeside
    <2>6. CASE k = d
      <3>1. /\ f = e[d] /\ g = e[k] /\ Head(p) = d /\ Head(q) = k /\ Tail(p) = r /\ Tail(q) = s
            /\ f \in E /\ r \in Paths /\ s \in Paths
            /\ <<f, r>> \in within[type] /\ <<g, s>> \in within[type]
            /\ at[<<e, p>>] = at[<<f, r>>] /\ at[<<e, q>>] = at[<<g, s>>]
        BY <2>3, <2>4 DEF Descends
      <3>2. g = f /\ r # s
        BY <1>2, <2>2, <2>6, <3>1, SamePath
      <3>3. Ends(at, within, type, f, r) /\ Ends(at, within, type, f, s)
        BY <1>2, <3>1, <3>2 DEF Ends
      <3>4. Apart(E, val, at, put, type, f, r, s)
        BY <1>2, <2>2, <3>1, <3>2, <3>3
      <3>5. Descends(E, at, put, within, type, e, q, d, f, s)
        BY <2>4, <2>6, <3>2
      <3>. QED
        BY <2>2, <2>3, <3>3, <3>4, <3>5, ApartBelow
    <2>. QED
      BY <2>5, <2>6
  <1>3. Paths \subseteq P
    <2>1. \A p \in Paths : (p # <<>> => Tail(p) \in P) => p \in P
      BY <1>2
    <2> HIDE DEF P
    <2>. QED
      BY <2>1, PathInduction
  <1>. QED
    BY <1>3
-----------------------------------------------------------------------------
(* expr_eliminate_yn makes no expression larger, and one smaller that has  *)
(* the unit of a junction as an operand of that junction.                  *)
Smaller(E, size, elim) ==
    \A e \in E : /\ elim[e] \in E /\ size[elim[e]] <= size[e]
                 /\ size[elim[e]] \in Nat /\ size[elim[e]] > 0

(* What is left of the junction e, by what is left of its operand d.       *)
LeftOf(E, size, elim, e, d) ==
    LET a == elim[e[d]]
        b == elim[Beside(e, d)]
    IN /\ elim[e] \in E
       /\ size[elim[e]] <= size[a] + size[b] + 1
       /\ a = Unit(Tag(e)) => size[elim[e]] <= size[b]

LEMMA JunctionLeft ==
    ASSUME NEW E, NEW S, NEW size, Expressions(E, S, size), NEW elim, Eliminates(E, elim),
           NEW e \in E, Tag(e) \in Junctions, NEW d \in {2, 3},
           elim[e[d]] \in E, elim[Beside(e, d)] \in E
    PROVE  LeftOf(E, size, elim, e, d)
  <1>1. PICK t \in Junctions, a \in E, b \in E : t = Tag(e) /\ a = elim[e[d]] /\ b = elim[Beside(e, d)]
    OBVIOUS
  <1>2. PICK l \in E, r \in E : l = elim[Left(e)] /\ r = elim[Right(e)]
                                /\ ((d = 2 /\ l = a /\ r = b) \/ (d = 3 /\ l = b /\ r = a))
    BY <1>1 DEF Beside, Left, Right
  <1>3. elim[e] = WithoutYN(t, l, r)
    <2>1. e # NULL
      BY ShapeIs
    <2>. QED
      BY <1>1, <1>2, <2>1 DEF Eliminates, EliminateYNBody
  <1>4. /\ Unit(t) \in E /\ Zero(t) \in E /\ size[Unit(t)] = 1 /\ size[Zero(t)] = 1
        /\ Unit(t) # Zero(t)
    <2>1. Yes \in E /\ No \in E /\ size[Yes] = 1 /\ size[No] = 1 /\ Yes # No
      BY DEF Expressions, Constants, Yes, No, Sym
    <2>. QED
      BY <2>1 DEF Unit, Zero
  <1>5. /\ size[a] \in Nat /\ size[a] > 0 /\ size[b] \in Nat /\ size[b] > 0
    BY ShapeIs
  <1>6. <<t, l, r>> \in E /\ size[<<t, l, r>>] = size[l] + size[r] + 1
    BY DEF Expressions
  <1>7. \/ elim[e] = Zero(t) /\ Zero(t) \in {l, r}
        \/ elim[e] = r /\ l = Unit(t)
        \/ elim[e] = l /\ r = Unit(t)
        \/ elim[e] = <<t, l, r>> /\ l # Unit(t) /\ r # Unit(t)
    BY <1>3 DEF WithoutYN
  <1>8. elim[e] \in E /\ size[elim[e]] <= size[a] + size[b] + 1
    BY <1>2, <1>4, <1>5, <1>6, <1>7
  <1>9. a = Unit(t) => size[elim[e]] <= size[b]
    BY <1>2, <1>4, <1>5, <1>7
  <1>. QED
    BY <1>1, <1>8, <1>9 DEF LeftOf

LEMMA EliminateYNSmaller ==
    ASSUME NEW E, NEW S, NEW size, Expressions(E, S, size), NEW elim, Eliminates(E, elim)
    PROVE  Smaller(E, size, elim)
  <1> DEFINE P == {e \in E : elim[e] \in E /\ size[elim[e]] <= size[e]}
  <1>1. ASSUME NEW e \in E, \A x \in E : size[x] < size[e] => x \in P
        PROVE  e \in P
    <2>1. CASE Tag(e) \notin Junctions
      <3>1. elim[e] = e
        BY <2>1 DEF Eliminates, EliminateYNBody
      <3>. QED
        BY <3>1, ShapeIs
    <2>2. CASE Tag(e) \in Junctions
      <3>1. /\ e[2] \in E /\ Beside(e, 2) \in E
            /\ size[e] = size[e[2]] + size[Beside(e, 2)] + 1
            /\ size[e] \in Nat /\ size[e[2]] \in Nat /\ size[Beside(e, 2)] \in Nat
            /\ size[e[2]] > 0 /\ size[Beside(e, 2)] > 0
        BY <2>2, OperandIn
      <3>2. /\ elim[e[2]] \in E /\ size[elim[e[2]]] <= size[e[2]]
            /\ elim[Beside(e, 2)] \in E /\ size[elim[Beside(e, 2)]] <= size[Beside(e, 2)]
        BY <1>1, <3>1
      <3>3. LeftOf(E, size, elim, e, 2)
        BY <2>2, <3>2, JunctionLeft
      <3>4. elim[e] \in E /\ size[elim[e]] <= size[elim[e[2]]] + size[elim[Beside(e, 2)]] + 1
        BY <3>3 DEF LeftOf
      <3>5. size[elim[e]] \in Nat /\ size[elim[e[2]]] \in Nat /\ size[elim[Beside(e, 2)]] \in Nat
        BY <3>2, <3>4, ShapeIs
      <3>. QED
        BY <3>1, <3>2, <3>4, <3>5
    <2>. QED
      BY <2>1, <2>2
  <1>2. size \in [E -> Nat]
    BY DEF Expressions
  <1>3. E \subseteq P
    <2> HIDE DEF P
    <2>. QED
      BY <1>1, <1>2, SizeInduction
  <1>4. ASSUME NEW e \in E
        PROVE  /\ elim[e] \in E /\ size[elim[e]] <= size[e]
               /\ size[elim[e]] \in Nat /\ size[elim[e]] > 0
    <2>1. elim[e] \in E /\ size[elim[e]] <= size[e]
      BY <1>3
    <2>. QED
      BY <2>1, ShapeIs
  <1>. QED
    BY <1>4 DEF Smaller

Sheds(E, size, at, put, elim, type, e, p) ==
    /\ \A x \in E : size[elim[x]] < size[at[<<e, p>>]] => size[elim[put[<<e, p, x>>]]] < size[e]
    /\ (p # <<>> /\ at[<<e, p>>] = Unit(type)) => size[elim[e]] < size[e]

LEMMA ShedsOn ==
    ASSUME NEW E, NEW S, NEW size, Expressions(E, S, size), NEW elim, Eliminates(E, elim),
           NEW at, NEW put, Navigates(E, at, put), NEW within, Within(E, within),
           NEW type \in Junctions, NEW e \in E, NEW p \in Paths, NEW d, NEW f, NEW r,
           Descends(E, at, put, within, type, e, p, d, f, r), Sheds(E, size, at, put, elim, type, f, r)
    PROVE  Sheds(E, size, at, put, elim, type, e, p)
  <1>1. /\ d \in {2, 3} /\ f \in E /\ f = e[d] /\ r \in Paths /\ Tag(e) = type
        /\ at[<<e, p>>] = at[<<f, r>>]
    BY DEF Descends
  <1>2. PICK b \in E : b = Beside(e, d)
    BY <1>1, OperandIn
  <1>3. /\ size[e] = size[f] + size[b] + 1 /\ size[e] \in Nat /\ size[f] \in Nat /\ size[b] \in Nat
    BY <1>1, <1>2, OperandIn
  <1>4. Smaller(E, size, elim)
    BY EliminateYNSmaller
  <1>5. elim[b] \in E /\ size[elim[b]] <= size[b] /\ size[elim[b]] \in Nat
    BY <1>2, <1>4 DEF Smaller
  <1>6. ASSUME NEW x \in E, size[elim[x]] < size[at[<<e, p>>]]
        PROVE  size[elim[put[<<e, p, x>>]]] < size[e]
    <2>1. PICK y \in E : y = put[<<f, r, x>>] /\ put[<<e, p, x>>] = With(e, d, y)
      BY DEF Descends
    <2>2. PICK u : u = With(e, d, y)
      OBVIOUS
    <2>3. u \in E /\ Tag(u) = type /\ u[d] = y /\ Beside(u, d) = b
      BY <1>1, <1>2, <2>2, Replaced
    <2>4. size[elim[y]] < size[f]
      BY <1>1, <1>6, <2>1 DEF Sheds
    <2>5. elim[y] \in E /\ size[elim[y]] \in Nat
      BY <1>4 DEF Smaller
    <2>6. LeftOf(E, size, elim, u, d)
      BY <1>1, <1>5, <2>3, <2>5, JunctionLeft
    <2>7. size[elim[u]] <= size[elim[y]] + size[elim[b]] + 1
      BY <2>3, <2>6 DEF LeftOf
    <2>8. size[elim[u]] \in Nat
      BY <1>4, <2>3 DEF Smaller
    <2>9. size[elim[u]] < size[e]
      BY <1>3, <1>5, <2>4, <2>5, <2>7, <2>8
    <2>. QED
      BY <2>1, <2>2, <2>9
  <1>7. ASSUME p # <<>>, at[<<e, p>>] = Unit(type)
        PROVE  size[elim[e]] < size[e]
    <2>1. elim[f] \in E /\ size[elim[f]] \in Nat /\ size[elim[e]] \in Nat
      BY <1>1, <1>4 DEF Smaller
    <2>2. LeftOf(E, size, elim, e, d)
      BY <1>1, <1>2, <1>5, <2>1, JunctionLeft
    <2>3. /\ size[elim[e]] <= size[elim[f]] + size[elim[b]] + 1
          /\ elim[f] = Unit(type) => size[elim[e]] <= size[elim[b]]
      BY <1>1, <1>2, <2>2 DEF LeftOf
    <2>4. CASE r = <<>>
      <3>1. at[<<f, r>>] = f
        BY <1>1, <2>4, PathEnd
      <3>2. f = Unit(type)
        BY <1>1, <1>7, <3>1
      <3>3. Tag(f) \notin Junctions
        BY <3>2 DEF Unit, Yes, No, Sym, Tag, Junctions
      <3>4. elim[f] = f
        BY <1>1, <3>3 DEF Eliminates, EliminateYNBody
      <3>. QED
        BY <1>3, <1>5, <2>1, <2>3, <3>2, <3>4
    <2>5. CASE r # <<>>
      <3>1. size[elim[f]] < size[f]
        BY <1>1, <1>7, <2>5 DEF Sheds
      <3>. QED
        BY <1>3, <1>5, <2>1, <2>3, <3>1
    <2>. QED
      BY <2>4, <2>5
  <1>. QED
    BY <1>6, <1>7 DEF Sheds

LEMMA PathsShed ==
    ASSUME NEW E, NEW S, NEW size, Expressions(E, S, size), NEW elim, Eliminates(E, elim),
           NEW at, NEW put, Navigates(E, at, put), NEW within, Within(E, within),
           NEW type \in Junctions
    PROVE  \A e \in E, p \in Paths :
              <<e, p>> \in within[type] => Sheds(E, size, at, put, elim, type, e, p)
  <1> DEFINE P == {p \in Paths : \A e \in E :
                      <<e, p>> \in within[type] => Sheds(E, size, at, put, elim, type, e, p)}
  <1>1. AtTheEnd(E, at, put, within, type)
    BY NothingToWalk
  <1>2. ASSUME NEW p \in Paths, p # <<>> => Tail(p) \in P, NEW e \in E, <<e, p>> \in within[type]
        PROVE  Sheds(E, size, at, put, elim, type, e, p)
    <2>1. CASE p = <<>>
      BY <1>1, <2>1 DEF AtTheEnd, Sheds
    <2>2. CASE p # <<>>
      <3>1. PICK d, f, r : Descends(E, at, put, within, type, e, p, d, f, r)
        BY <1>2, <2>2, PathDescends
      <3>2. f \in E /\ r = Tail(p) /\ <<f, r>> \in within[type]
        BY <3>1 DEF Descends
      <3>3. Sheds(E, size, at, put, elim, type, f, r)
        BY <1>2, <2>2, <3>2
      <3>. QED
        BY <3>1, <3>3, ShedsOn
    <2>. QED
      BY <2>1, <2>2
  <1>3. Paths \subseteq P
    <2>1. \A p \in Paths : (p # <<>> => Tail(p) \in P) => p \in P
      BY <1>2
    <2> HIDE DEF P
    <2>. QED
      BY <2>1, PathInduction
  <1>. QED
    BY <1>3
-----------------------------------------------------------------------------
(* One walk of expr_eliminate_dups: a tree with trans_count.  What a walk  *)
(* makes of w is y: rel relates the value of w to the one of y, every path *)
(* leads in y where it lead in w, and what is counted lets expr_eliminate_yn*)
(* make the tree smaller.                                                  *)
Trees(E) == [e : E, count : Nat]

Same == {<<x, x>> : x \in 0 .. 2}
SameButM == {<<x, y>> : x \in {1}, y \in 0 .. 2} \cup Same

LeadsAlike(at, within, type, e, f) ==
    \A r \in Paths : <<e, r>> \in within[type] =>
       /\ <<f, r>> \in within[type]
       /\ Tag(at[<<f, r>>]) = type <=> Tag(at[<<e, r>>]) = type

Rewritten(E, size, elim, val, at, within, type, rel, w, y) ==
    /\ y \in Trees(E) /\ y.count >= w.count /\ Tag(y.e) = type
    /\ size[y.e] <= size[w.e]
    /\ <<val[w.e], val[y.e]>> \in rel
    /\ LeadsAlike(at, within, type, w.e, y.e)
    /\ y.count = w.count => y.e = w.e
    /\ y.count > w.count => size[elim[y.e]] < size[w.e]

LEMMA RelationLaws ==
    ASSUME NEW rel \in {Same, SameButM}
    PROVE  /\ \A x \in 0 .. 2 : <<x, x>> \in rel
           /\ \A x, y, z : <<x, y>> \in rel /\ <<y, z>> \in rel => <<x, z>> \in rel
           /\ \A type \in Junctions, c \in 0 .. 2, x \in 0 .. 2, y \in 0 .. 2 :
                 <<x, y>> \in rel => <<JunctionOf(type, c, x), JunctionOf(type, c, y)>> \in rel
  <1>1. \A x, y : <<x, y>> \in Same <=> x \in 0 .. 2 /\ x = y
    BY DEF Same
  <1>2. \A x, y : <<x, y>> \in SameButM <=> x \in 0 .. 2 /\ y \in 0 .. 2 /\ (x # 1 => x = y)
    BY DEF SameButM, Same
  <1>3. CASE rel = Same
    BY <1>1, <1>3 DEF JunctionOf, EXPR_AND, EXPR_OR
  <1>4. CASE rel = SameButM
    <2>1. ASSUME NEW type \in Junctions, NEW c \in 0 .. 2, NEW x \in 0 .. 2, NEW y \in 0 .. 2,
                 x # 1 => x = y
          PROVE  /\ JunctionOf(type, c, x) \in 0 .. 2 /\ JunctionOf(type, c, y) \in 0 .. 2
                 /\ JunctionOf(type, c, x) # 1 => JunctionOf(type, c, x) = JunctionOf(type, c, y)
      BY <2>1 DEF JunctionOf, EXPR_AND, EXPR_OR
    <2>. QED
      BY <1>2, <1>4, <2>1
  <1>. QED
    BY <1>3, <1>4

LEMMA NotRewritten ==
    ASSUME NEW E, NEW S, NEW size, Expressions(E, S, size), NEW v, NEW val, Calculates(E, v, val),
           NEW elim, NEW at, NEW within, NEW type, NEW rel \in {Same, SameButM},
           NEW w \in Trees(E), Tag(w.e) = type
    PROVE  Rewritten(E, size, elim, val, at, within, type, rel, w, w)
  <1>1. w.e \in E /\ w.count \in Nat
    BY DEF Trees
  <1>2. size[w.e] \in Nat
    BY <1>1, ShapeIs
  <1>3. val[w.e] \in 0 .. 2
    BY <1>1, ValuesAreTristates
  <1>4. <<val[w.e], val[w.e]>> \in rel
    BY <1>3, RelationLaws
  <1>5. LeadsAlike(at, within, type, w.e, w.e)
    BY DEF LeadsAlike
  <1>. QED
    BY <1>1, <1>2, <1>4, <1>5 DEF Rewritten

LEMMA RewrittenTwice ==
    ASSUME NEW E, NEW S, NEW size, Expressions(E, S, size), NEW elim, Eliminates(E, elim),
           NEW val, NEW at, NEW within, NEW type, NEW rel \in {Same, SameButM},
           NEW w \in Trees(E), NEW x, Rewritten(E, size, elim, val, at, within, type, rel, w, x),
           NEW y, Rewritten(E, size, elim, val, at, within, type, rel, x, y)
    PROVE  Rewritten(E, size, elim, val, at, within, type, rel, w, y)
  <1>1. /\ x \in Trees(E) /\ x.count >= w.count /\ size[x.e] <= size[w.e]
        /\ <<val[w.e], val[x.e]>> \in rel /\ LeadsAlike(at, within, type, w.e, x.e)
        /\ x.count = w.count => x.e = w.e
        /\ x.count > w.count => size[elim[x.e]] < size[w.e]
    BY DEF Rewritten
  <1>2. /\ y \in Trees(E) /\ y.count >= x.count /\ Tag(y.e) = type /\ size[y.e] <= size[x.e]
        /\ <<val[x.e], val[y.e]>> \in rel /\ LeadsAlike(at, within, type, x.e, y.e)
        /\ y.count = x.count => y.e = x.e
        /\ y.count > x.count => size[elim[y.e]] < size[x.e]
    BY DEF Rewritten
  <1>3. /\ w.e \in E /\ x.e \in E /\ y.e \in E
        /\ w.count \in Nat /\ x.count \in Nat /\ y.count \in Nat
    BY <1>1, <1>2 DEF Trees
  <1>4. size[w.e] \in Nat /\ size[x.e] \in Nat /\ size[y.e] \in Nat /\ size[elim[y.e]] \in Nat
    <2>1. Smaller(E, size, elim)
      BY EliminateYNSmaller
    <2>. QED
      BY <1>3, <2>1, ShapeIs DEF Smaller
  <1>5. y.count >= w.count /\ size[y.e] <= size[w.e]
    BY <1>1, <1>2, <1>3, <1>4
  <1>6. <<val[w.e], val[y.e]>> \in rel
    BY <1>1, <1>2, RelationLaws
  <1>7. LeadsAlike(at, within, type, w.e, y.e)
    BY <1>1, <1>2 DEF LeadsAlike
  <1>8. y.count = w.count => y.e = w.e
    BY <1>1, <1>2, <1>3
  <1>9. y.count > w.count => size[elim[y.e]] < size[w.e]
    <2>1. CASE y.count > x.count
      BY <1>1, <1>2, <1>4, <2>1
    <2>2. CASE y.count = x.count
      BY <1>1, <1>2, <1>4, <2>2
    <2>. QED
      BY <1>2, <1>3, <2>1, <2>2
  <1>. QED
    BY <1>2, <1>5, <1>6, <1>7, <1>8, <1>9 DEF Rewritten

(* An operand of the junction is replaced.                                 *)
LEMMA PlaceRewrites ==
    ASSUME NEW E, NEW S, NEW size, Expressions(E, S, size), NEW elim, Eliminates(E, elim), NEW val,
           NEW at, NEW put, Navigates(E, at, put), NEW within, Within(E, within),
           NEW type \in Junctions, NEW rel \in {Same, SameButM}, NEW w \in Trees(E), Tag(w.e) = type,
           NEW p \in Paths, Ends(at, within, type, w.e, p), NEW a, a = at[<<w.e, p>>],
           NEW x \in E, Tag(x) # type, size[x] <= size[a], NEW n \in Nat,
           NEW u, u = put[<<w.e, p, x>>], <<val[w.e], val[u]>> \in rel,
           n = 0 => x = a, n > 0 => size[elim[x]] < size[a]
    PROVE  /\ Rewritten(E, size, elim, val, at, within, type, rel, w, [e |-> u, count |-> w.count + n])
           /\ at[<<u, p>>] = x /\ Ends(at, within, type, u, p)
  <1>1. w.e \in E /\ w.count \in Nat
    BY DEF Trees
  <1>2. Leads(E, size, at, put, within, type, w.e, p) /\ Sheds(E, size, at, put, elim, type, w.e, p)
    BY <1>1, PathsLead, PathsShed DEF Ends
  <1>3. /\ a \in E /\ put[<<w.e, p, a>>] = w.e /\ u \in E /\ <<u, p>> \in within[type]
        /\ at[<<u, p>>] = x /\ size[u] + size[a] = size[w.e] + size[x]
    BY <1>2 DEF Leads
  <1>4. size[u] <= size[w.e]
    <2>1. size[u] \in Nat /\ size[w.e] \in Nat /\ size[a] \in Nat /\ size[x] \in Nat
      BY <1>1, <1>3, ShapeIs
    <2>. QED
      BY <1>3, <2>1
  <1>5. LeadsAlike(at, within, type, w.e, u)
    <2>1. ASSUME NEW r \in Paths, <<w.e, r>> \in within[type]
          PROVE  Keeps(E, at, put, within, type, w.e, p, r, x)
      BY <1>1, <2>1, PutKeeps
    <2>. QED
      BY <2>1 DEF LeadsAlike, Keeps
  <1>6. Tag(u) = type
    <2>1. AtTheEnd(E, at, put, within, type)
      BY NothingToWalk
    <2>2. <<>> \in Paths
      BY DEF Paths
    <2>. QED
      BY <1>1, <1>3, <1>5, <2>1, <2>2 DEF AtTheEnd, LeadsAlike
  <1>7. n = 0 => u = w.e
    BY <1>3
  <1>8. n > 0 => size[elim[u]] < size[w.e]
    BY <1>2 DEF Sheds
  <1>9. PICK y : y = [e |-> u, count |-> w.count + n]
    OBVIOUS
  <1>10. /\ y \in Trees(E) /\ y.e = u /\ y.count = w.count + n /\ y.count >= w.count
         /\ (y.count = w.count <=> n = 0) /\ (y.count > w.count <=> n > 0)
    BY <1>1, <1>3, <1>9 DEF Trees
  <1>11. Rewritten(E, size, elim, val, at, within, type, rel, w, y)
    BY <1>4, <1>5, <1>6, <1>7, <1>8, <1>10 DEF Rewritten
  <1>. QED
    BY <1>3, <1>9, <1>11 DEF Ends
-----------------------------------------------------------------------------
(* What join says that two operands become.                                *)
Joins(E, ty, join, eq) ==
    LET Eq(x, y) == eq[<<x, y>>]
    IN \A type \in Junctions, a \in E, b \in E : join[<<type, a, b>>] = JoinBody(ty, type, a, b, Eq)

(* It is in the place of both of them, and smaller.                        *)
JoinsInto(E, size, val, type, a, b, x) ==
    /\ x \in E /\ Tag(x) # type /\ size[x] < size[a] + size[b]
    /\ val[x] = JunctionOf(type, val[a], val[b])

LEMMA LeavesAre ==
    ASSUME NEW S
    PROVE  /\ \A s \in S : <<"sym", s>> \in Leaves(S)
           /\ \A op \in Comparisons, s \in S, t \in S : <<op, s, t>> \in Leaves(S)
  BY DEF Leaves

LEMMA SubjectIs ==
    ASSUME NEW E, NEW S, NEW size, Expressions(E, S, size), NEW e \in E,
           NEW negated \in SUBSET (Comparisons \cup {"sym"}), SubjectOf(e, negated) # ""
    PROVE  e \in Operands(S) /\ SubjectOf(e, negated) \in S
  <1>1. ASSUME NEW l \in E, Tag(l) \in Comparisons \cup {"sym"}
        PROVE  l \in Leaves(S) /\ Left(l) \in S
    <2>1. IsSymbol(S, l) \/ IsComparison(S, l)
      BY <1>1, ShapeIs DEF IsNegation, IsJunction, Comparisons, Junctions
    <2>2. CASE IsSymbol(S, l)
      <3>1. PICK s \in S : l = <<"sym", s>> /\ s = Left(l)
        BY <2>2 DEF IsSymbol, Sym
      <3>2. <<"sym", s>> \in Leaves(S)
        BY LeavesAre
      <3>. QED
        BY <3>1, <3>2
    <2>3. CASE IsComparison(S, l)
      <3>1. PICK op \in Comparisons, s \in S, t \in S : l = <<op, s, t>> /\ s = Left(l)
        BY <2>3 DEF IsComparison
      <3>2. <<op, s, t>> \in Leaves(S)
        BY LeavesAre
      <3>. QED
        BY <3>1, <3>2
    <2>. QED
      BY <2>1, <2>2, <2>3
  <1>2. CASE Tag(e) = "not"
    <2>1. IsNegation(E, e)
      BY <1>2, ShapeIs DEF IsSymbol, IsComparison, IsJunction, Comparisons, Junctions
    <2>2. Tag(Left(e)) \in Comparisons \cup {"sym"} /\ SubjectOf(e, negated) = Left(Left(e))
      BY <1>2 DEF SubjectOf
    <2>3. Left(e) \in Leaves(S) /\ Left(Left(e)) \in S
      BY <1>1, <2>1, <2>2 DEF IsNegation
    <2>. QED
      BY <2>1, <2>2, <2>3 DEF IsNegation, Operands
  <1>3. CASE Tag(e) # "not"
    <2>1. Tag(e) \in Comparisons \cup {"sym"} /\ SubjectOf(e, negated) = Left(e)
      BY <1>3 DEF SubjectOf
    <2>. QED
      BY <1>1, <2>1 DEF Operands
  <1>. QED
    BY <1>2, <1>3

LEMMA JoinableIs ==
    ASSUME NEW E, NEW S, NEW size, Expressions(E, S, size), NEW ty, NEW a \in E, NEW b \in E,
           Joinable(ty, a, b)
    PROVE  a \in Operands(S) /\ b \in Operands(S) /\ FirstSubject(a) \in S
  <1>1. Comparisons \cup {"sym"} \in SUBSET (Comparisons \cup {"sym"})
        /\ {"sym"} \in SUBSET (Comparisons \cup {"sym"})
    OBVIOUS
  <1>2. SubjectOf(a, Comparisons \cup {"sym"}) # "" /\ SubjectOf(b, {"sym"}) # ""
    BY DEF Joinable, FirstSubject, SecondSubject
  <1>. QED
    BY <1>1, <1>2, SubjectIs DEF FirstSubject

(* How large what the rules look at and write is.                          *)
RuleWrites(E, S, size, x) == /\ x \in E /\ x \in Operands(S) /\ size[x] <= 2
                           /\ Tag(x) \in Comparisons \cup {"sym"}

LEMMA WrittenByRules ==
    ASSUME NEW E, NEW S, NEW size, Expressions(E, S, size), NEW s \in S
    PROVE  /\ RuleWrites(E, S, size, Sym(s))
           /\ \A op \in Comparisons, x \in S : RuleWrites(E, S, size, <<op, s, x>>)
           /\ RuleWrites(E, S, size, Yes) /\ RuleWrites(E, S, size, No)
           /\ size[Yes] = 1
  <1>1. ASSUME NEW t \in S
        PROVE  RuleWrites(E, S, size, Sym(t)) /\ size[Sym(t)] = 1
    BY DEF RuleWrites, Expressions, Operands, Leaves, Sym, Tag
  <1>2. ASSUME NEW op \in Comparisons, NEW x \in S
        PROVE  RuleWrites(E, S, size, <<op, s, x>>)
    BY DEF RuleWrites, Expressions, Operands, Leaves, Tag
  <1>3. "y" \in S /\ "n" \in S
    BY DEF Expressions, Constants
  <1>. QED
    BY <1>1, <1>2, <1>3 DEF Yes, No

LEMMA SizesOf ==
    ASSUME NEW E, NEW S, NEW size, Expressions(E, S, size), NEW e \in E
    PROVE  /\ size[e] \in Nat /\ size[e] > 0
           /\ Tag(e) \in Comparisons => size[e] = 2
           /\ Tag(e) = "not" => size[e] >= 2
           /\ Tag(e) \in Junctions => size[e] >= 3
  <1>1. size[e] \in Nat /\ size[e] > 0
    BY ShapeIs
  <1>2. Tag(e) \in Comparisons => size[e] = 2
    BY ShapeIs DEF IsSymbol, IsNegation, IsJunction, Comparisons, Junctions
  <1>3. ASSUME Tag(e) = "not"
        PROVE  size[e] >= 2
    <2>1. Left(e) \in E /\ size[e] = 2 * size[Left(e)]
      BY <1>3, ShapeIs DEF IsSymbol, IsComparison, IsNegation, IsJunction, Comparisons, Junctions
    <2>2. size[Left(e)] \in Nat /\ size[Left(e)] > 0
      BY <2>1, ShapeIs
    <2>. QED
      BY <2>1, <2>2
  <1>4. ASSUME Tag(e) \in Junctions
        PROVE  size[e] >= 3
    <2>1. Left(e) \in E /\ Right(e) \in E /\ size[e] = size[Left(e)] + size[Right(e)] + 1
      BY <1>4, OperandsOf
    <2>2. /\ size[Left(e)] \in Nat /\ size[Left(e)] > 0
          /\ size[Right(e)] \in Nat /\ size[Right(e)] > 0
      BY <2>1, ShapeIs
    <2>. QED
      BY <2>1, <2>2
  <1>. QED
    BY <1>1, <1>2, <1>3, <1>4

LEMMA OrRuleSmaller ==
    ASSUME NEW E, NEW S, NEW size, Expressions(E, S, size), NEW ty, NEW a \in E, NEW b \in E,
           NEW x, x = OrRule(ty, a, b), x # NULL
    PROVE  /\ a \in Operands(S) /\ b \in Operands(S) /\ RuleWrites(E, S, size, x)
           /\ size[x] < size[a] + size[b]
  <1>1. Joinable(ty, a, b)
    BY DEF OrRule
  <1>2. PICK s \in S : s = FirstSubject(a) /\ a \in Operands(S) /\ b \in Operands(S)
    BY <1>1, JoinableIs
  <1>3. \/ /\ Tag(a) = "eq" /\ Tag(b) = "eq"
           /\ \E c \in Constants : x = <<"neq", s, c>>
        \/ {a, b} = {Sym(s), <<"not", Sym(s)>>} /\ x = Yes
    BY <1>2, OrCases
  <1>4. /\ size[a] \in Nat /\ size[a] > 0 /\ size[b] \in Nat /\ size[b] > 0
        /\ Tag(a) \in Comparisons => size[a] = 2
        /\ Tag(b) \in Comparisons => size[b] = 2
    BY SizesOf
  <1>5. CASE /\ Tag(a) = "eq" /\ Tag(b) = "eq"
             /\ \E c \in Constants : x = <<"neq", s, c>>
    <2>1. PICK c \in S : x = <<"neq", s, c>>
      BY <1>5 DEF Expressions
    <2>2. "neq" \in Comparisons /\ "eq" \in Comparisons
      BY DEF Comparisons
    <2>3. RuleWrites(E, S, size, x)
      BY <2>1, <2>2, WrittenByRules
    <2>4. size[x] <= 2 /\ size[x] \in Nat
      BY <2>3, ShapeIs DEF RuleWrites
    <2>. QED
      BY <1>2, <1>4, <1>5, <2>2, <2>3, <2>4
  <1>6. CASE {a, b} = {Sym(s), <<"not", Sym(s)>>} /\ x = Yes
    <2>1. RuleWrites(E, S, size, x) /\ size[x] = 1
      BY <1>6, WrittenByRules
    <2>2. Tag(<<"not", Sym(s)>>) = "not"
      BY DEF Tag
    <2>3. Tag(a) = "not" \/ Tag(b) = "not"
      BY <1>6, <2>2
    <2>4. size[a] >= 2 \/ size[b] >= 2
      BY <2>3, SizesOf
    <2>. QED
      BY <1>2, <1>4, <2>1, <2>4
  <1>. QED
    BY <1>3, <1>5, <1>6

LEMMA AndRuleSmaller ==
    ASSUME NEW E, NEW S, NEW size, Expressions(E, S, size), NEW ty, NEW a \in E, NEW b \in E,
           NEW r, r = AndRule(ty, a, b), r # NULL
    PROVE  /\ a \in Operands(S) /\ b \in Operands(S) /\ RuleWrites(E, S, size, r)
           /\ size[r] < size[a] + size[b]
  <1>1. Joinable(ty, a, b)
    BY DEF AndRule
  <1>2. PICK s \in S : s = FirstSubject(a) /\ a \in Operands(S) /\ b \in Operands(S)
    BY <1>1, JoinableIs
  <1>3. /\ \E c \in Constants : r \in {<<"eq", s, c>>, Sym(s), No}
        /\ Tag(a) \in Comparisons \/ Tag(b) \in Comparisons
    BY <1>2, AndCases DEF Pair, Comparisons, Constants
  <1>4. PICK c \in S : r \in {<<"eq", s, c>>, Sym(s), No}
    BY <1>3 DEF Expressions
  <1>5. RuleWrites(E, S, size, r)
    <2>1. "eq" \in Comparisons
      BY DEF Comparisons
    <2>. QED
      BY <1>4, <2>1, WrittenByRules
  <1>6. size[r] <= 2 /\ size[r] \in Nat
    BY <1>5, ShapeIs DEF RuleWrites
  <1>7. /\ size[a] \in Nat /\ size[a] > 0 /\ size[b] \in Nat /\ size[b] > 0
        /\ Tag(a) \in Comparisons => size[a] = 2
        /\ Tag(b) \in Comparisons => size[b] = 2
    BY SizesOf
  <1>8. size[r] < size[a] + size[b]
    BY <1>3, <1>6, <1>7
  <1>. QED
    BY <1>2, <1>5, <1>8

(* Two operands of a conjunction or of a disjunction that are joined have  *)
(* together the value of the one they become.                              *)
LEMMA JoinMeans ==
    ASSUME NEW E, NEW S, NEW size, Expressions(E, S, size), NEW v, NEW val, Calculates(E, v, val),
           NEW ty, Valuation(S, ty, v), NEW elim, Eliminates(E, elim),
           NEW in, NEW eq, Equates(E, elim, in, eq),
           \A type \in Junctions : EliminatesEq(E, type, in, eq),
           NEW join, Joins(E, ty, join, eq), NEW type \in Junctions
    PROVE  \A a \in E, b \in E :
              (Tag(a) # type /\ join[<<type, a, b>>] # NULL) =>
                 JoinsInto(E, size, val, type, a, b, join[<<type, a, b>>])
  <1>1. SUFFICES ASSUME NEW a \in E, NEW b \in E, Tag(a) # type, NEW x, x = join[<<type, a, b>>],
                        x # NULL
                 PROVE  JoinsInto(E, size, val, type, a, b, x)
    OBVIOUS
  <1>2. x = IF eq[<<a, b>>] THEN a ELSE IF type = "or" THEN OrRule(ty, a, b) ELSE AndRule(ty, a, b)
    BY <1>1 DEF Joins, JoinBody
  <1>3. CASE eq[<<a, b>>]
    <2>1. x = a /\ val[a] = val[b]
      BY <1>2, <1>3, EqualsMean
    <2>2. val[a] \in 0 .. 2 /\ size[a] \in Nat /\ size[b] \in Nat /\ size[b] > 0
      BY ShapeIs, ValuesAreTristates
    <2>3. JunctionOf(type, val[a], val[a]) = val[a] /\ size[a] < size[a] + size[b]
      BY <2>2 DEF JunctionOf, EXPR_AND, EXPR_OR
    <2>. QED
      BY <1>1, <2>1, <2>3 DEF JoinsInto
  <1>4. ASSUME a \in Operands(S), b \in Operands(S), RuleWrites(E, S, size, x), size[x] < size[a] + size[b],
               ValueOf(v, x) = JunctionOf(type, ValueOf(v, a), ValueOf(v, b))
        PROVE  JoinsInto(E, size, val, type, a, b, x)
    <2>1. x \in E /\ x \in Operands(S) /\ Tag(x) # type
      BY <1>4 DEF RuleWrites, Comparisons, Junctions
    <2>2. val[x] = ValueOf(v, x) /\ val[a] = ValueOf(v, a) /\ val[b] = ValueOf(v, b)
      BY <1>4, <2>1, OperandsCalculated
    <2>. QED
      BY <1>4, <2>1, <2>2 DEF JoinsInto
  <1>5. CASE ~ eq[<<a, b>>] /\ type = "or"
    <2>1. x = OrRule(ty, a, b)
      BY <1>2, <1>5
    <2>2. a \in Operands(S) /\ b \in Operands(S) /\ RuleWrites(E, S, size, x) /\ size[x] < size[a] + size[b]
      BY <1>1, <2>1, OrRuleSmaller
    <2>3. ValueOf(v, x) = JunctionOf(type, ValueOf(v, a), ValueOf(v, b))
      BY <1>1, <1>5, <2>1, <2>2, OrRuleMeans DEF JunctionOf
    <2>. QED
      BY <1>4, <2>2, <2>3
  <1>6. CASE ~ eq[<<a, b>>] /\ type = "and"
    <2>1. x = AndRule(ty, a, b)
      BY <1>2, <1>6
    <2>2. a \in Operands(S) /\ b \in Operands(S) /\ RuleWrites(E, S, size, x) /\ size[x] < size[a] + size[b]
      BY <1>1, <2>1, AndRuleSmaller
    <2>3. ValueOf(v, x) = JunctionOf(type, ValueOf(v, a), ValueOf(v, b))
      BY <1>1, <1>6, <2>1, <2>2, AndRuleMeans DEF JunctionOf
    <2>. QED
      BY <1>4, <2>2, <2>3
  <1>. QED
    BY <1>3, <1>5, <1>6 DEF Junctions
-----------------------------------------------------------------------------
(* The walks that a junction may be taken on, type, w, p and q: from each  *)
(* the next ones go on from the operands of what p or q leads to, in a tree*)
(* that is not larger, or start anew in a smaller one.                     *)
Walks(E, within) ==
    {g \in Junctions \X Trees(E) \X Paths \X Paths :
        /\ Tag(g[2].e) = g[1]
        /\ <<g[2].e, g[3]>> \in within[g[1]] /\ <<g[2].e, g[4]>> \in within[g[1]]}

NextWalks(E, size, within, type, w, p, q) ==
    {h \in Walks(E, within) :
        \/ /\ h[1] = type /\ size[h[2].e] <= size[w.e]
           /\ \E k \in {2, 3} : \/ h[3] = Append(p, k) /\ h[4] = q
                                \/ h[3] = p /\ h[4] = Append(q, k)
        \/ size[h[2].e] < size[w.e] /\ h[3] = <<>> /\ h[4] = <<>>}

IsWalk(E, size, within, g) ==
    \E type \in Junctions, w \in Trees(E), p \in Paths, q \in Paths :
       /\ g = <<type, w, p, q>> /\ w.e \in E /\ Tag(w.e) = type
       /\ <<w.e, p>> \in within[type] /\ <<w.e, q>> \in within[type]
       /\ size[w.e] \in Nat /\ Len(p) \in 0 .. size[w.e] /\ Len(q) \in 0 .. size[w.e]

LEMMA WalkIs ==
    ASSUME NEW E, NEW S, NEW size, Expressions(E, S, size), NEW at, NEW put, Navigates(E, at, put),
           NEW within, Within(E, within), NEW g \in Walks(E, within)
    PROVE  IsWalk(E, size, within, g)
  <1>1. PICK type \in Junctions, w \in Trees(E), p \in Paths, q \in Paths :
           /\ g = <<type, w, p, q>> /\ Tag(w.e) = type
           /\ <<w.e, p>> \in within[type] /\ <<w.e, q>> \in within[type]
    BY DEF Walks
  <1>2. w.e \in E /\ size[w.e] \in Nat
    BY ShapeIs DEF Trees
  <1>3. ASSUME NEW r \in Paths, <<w.e, r>> \in within[type]
        PROVE  Len(r) \in 0 .. size[w.e]
    <2>1. Leads(E, size, at, put, within, type, w.e, r)
      BY <1>2, <1>3, PathsLead
    <2>2. PICK a \in E : size[w.e] >= size[a] + Len(r)
      BY <2>1 DEF Leads
    <2>3. size[a] \in Nat /\ Len(r) \in Nat
      BY ShapeIs, PathIs
    <2>. QED
      BY <1>2, <2>2, <2>3
  <1>. QED
    BY <1>1, <1>2, <1>3 DEF IsWalk

(* What holds of a walk when it holds of the ones it goes on with.         *)
LEMMA WalkInduction ==
    ASSUME NEW E, NEW S, NEW size, Expressions(E, S, size), NEW at, NEW put, Navigates(E, at, put),
           NEW within, Within(E, within), NEW G,
           \A type \in Junctions, w \in Trees(E), p \in Paths, q \in Paths :
              (/\ <<type, w, p, q>> \in Walks(E, within)
               /\ NextWalks(E, size, within, type, w, p, q) \subseteq G) => <<type, w, p, q>> \in G
    PROVE  Walks(E, within) \subseteq G
  <1> DEFINE D == Walks(E, within)
             Below(n) == {g \in D : size[g[2].e] <= n}
             left(n) == [g \in Below(n) |-> 2 * n - Len(g[3]) - Len(g[4])]
             P == {n \in Nat : Below(n) \subseteq G}
             id == [n \in Nat |-> n]
  <1>0. \A g \in D : IsWalk(E, size, within, g)
    BY WalkIs
  <1>1. ASSUME NEW n \in Nat, \A m \in Nat : m < n => m \in P
        PROVE  n \in P
    <2>1. ASSUME NEW g \in Below(n)
          PROVE  2 * n - Len(g[3]) - Len(g[4]) \in Nat
      <3>1. PICK type \in Junctions, w \in Trees(E), p \in Paths, q \in Paths :
               /\ g = <<type, w, p, q>> /\ size[w.e] \in Nat
               /\ Len(p) \in 0 .. size[w.e] /\ Len(q) \in 0 .. size[w.e]
        BY <1>0, <2>1 DEF IsWalk
      <3>2. size[w.e] <= n /\ g[3] = p /\ g[4] = q
        BY <3>1
      <3>. QED
        BY <3>1, <3>2
    <2>2. left(n) \in [Below(n) -> Nat]
      BY <2>1
    <2>3. ASSUME NEW g \in Below(n), \A h \in Below(n) : left(n)[h] < left(n)[g] => h \in G
          PROVE  g \in G
      <3>1. PICK type \in Junctions, w \in Trees(E), p \in Paths, q \in Paths :
               /\ g = <<type, w, p, q>> /\ size[w.e] \in Nat
        BY <1>0, <2>3 DEF IsWalk
      <3>2. size[w.e] <= n /\ g[3] = p /\ g[4] = q
        BY <3>1
      <3>3. ASSUME NEW h \in NextWalks(E, size, within, type, w, p, q)
            PROVE  h \in G
        <4>1. h \in D /\ size[h[2].e] \in Nat
          <5>1. h \in D
            BY DEF NextWalks
          <5>2. PICK t \in Junctions, x \in Trees(E), r \in Paths, s \in Paths :
                   h = <<t, x, r, s>> /\ size[x.e] \in Nat
            BY <1>0, <5>1 DEF IsWalk
          <5>. QED
            BY <5>1, <5>2
        <4>2. CASE size[h[2].e] < size[w.e]
          <5>1. size[h[2].e] < n /\ size[h[2].e] <= size[h[2].e]
            BY <3>1, <3>2, <4>1, <4>2
          <5>2. size[h[2].e] \in P
            BY <1>1, <4>1, <5>1
          <5>. QED
            BY <4>1, <5>1, <5>2
        <4>3. CASE /\ size[h[2].e] <= size[w.e]
                   /\ \E k \in {2, 3} : \/ h[3] = Append(p, k) /\ h[4] = q
                                        \/ h[3] = p /\ h[4] = Append(q, k)
          <5>1. size[h[2].e] <= n
            BY <3>1, <3>2, <4>1, <4>3
          <5>2. h \in Below(n)
            BY <4>1, <5>1
          <5>3. Len(p) \in Nat /\ Len(q) \in Nat
            BY PathIs
          <5>4. \/ Len(h[3]) = Len(p) + 1 /\ Len(h[4]) = Len(q)
                \/ Len(h[3]) = Len(p) /\ Len(h[4]) = Len(q) + 1
            BY <4>3, PathExtended
          <5>5. left(n)[h] = 2 * n - Len(h[3]) - Len(h[4]) /\ left(n)[g] = 2 * n - Len(p) - Len(q)
            BY <3>2, <5>2
          <5>6. 2 * n - Len(h[3]) - Len(h[4]) < 2 * n - Len(p) - Len(q)
            BY <5>3, <5>4
          <5> HIDE DEF left
          <5>7. left(n)[h] < left(n)[g]
            BY <5>5, <5>6
          <5>. QED
            BY <2>3, <5>2, <5>7
        <4>. QED
          BY <4>2, <4>3 DEF NextWalks
      <3>. QED
        BY <3>1, <3>3
    <2>4. Below(n) \subseteq G
      <3> HIDE DEF Below, left
      <3>. QED
        BY <2>2, <2>3, SizeInduction
    <2>. QED
      BY <2>4
  <1>2. Nat \subseteq P
    <2>1. id \in [Nat -> Nat] /\ \A n \in Nat : id[n] = n
      OBVIOUS
    <2>2. \A n \in Nat : (\A m \in Nat : id[m] < id[n] => m \in P) => n \in P
      BY <1>1
    <2> HIDE DEF P, id
    <2>. QED
      BY <2>1, <2>2, SizeInduction
  <1>3. ASSUME NEW g \in D
        PROVE  g \in G
    <2>1. PICK type \in Junctions, w \in Trees(E), p \in Paths, q \in Paths :
             g = <<type, w, p, q>> /\ size[w.e] \in Nat
      BY <1>0 DEF IsWalk
    <2>2. g \in Below(size[w.e]) /\ size[w.e] \in P
      BY <1>2, <2>1
    <2>. QED
      BY <2>2
  <1>. QED
    BY <1>3
-----------------------------------------------------------------------------
(* The walks of d that rewrite their tree, and the two of them that a walk *)
(* takes through the operands of what p leads to, or of what q leads to.   *)
Good(E, size, elim, val, at, within, rel, d) ==
    {g \in Walks(E, within) : Rewritten(E, size, elim, val, at, within, g[1], rel, g[2], d[g])}

LEMMA GoodIs ==
    ASSUME NEW E, NEW size, NEW elim, NEW val, NEW at, NEW within, NEW rel, NEW d,
           NEW type \in Junctions, NEW w \in Trees(E), NEW p \in Paths, NEW q \in Paths,
           Tag(w.e) = type, <<w.e, p>> \in within[type], <<w.e, q>> \in within[type]
    PROVE  /\ <<type, w, p, q>> \in Walks(E, within)
           /\ <<type, w, p, q>> \in Good(E, size, elim, val, at, within, rel, d) <=>
                 Rewritten(E, size, elim, val, at, within, type, rel, w, d[<<type, w, p, q>>])
  BY DEF Walks, Good

GoesOn(E, at, within, type) ==
    \A e \in E, p \in Paths, k \in {2, 3} :
       (<<e, p>> \in within[type] /\ Tag(at[<<e, p>>]) = type) => <<e, Append(p, k)>> \in within[type]

LEMMA PathsGoOn ==
    ASSUME NEW E, NEW S, NEW size, Expressions(E, S, size), NEW at, NEW put, Navigates(E, at, put),
           NEW within, Within(E, within), NEW type \in Junctions
    PROVE  GoesOn(E, at, within, type)
  <1>1. ASSUME NEW e \in E, NEW p \in Paths, NEW k \in {2, 3},
               <<e, p>> \in within[type], Tag(at[<<e, p>>]) = type
        PROVE  <<e, Append(p, k)>> \in within[type]
    BY <1>1, PathGoesOn
  <1>. QED
    BY <1>1 DEF GoesOn

LEMMA WalkThrough ==
    ASSUME NEW E, NEW S, NEW size, Expressions(E, S, size), NEW elim, Eliminates(E, elim), NEW val,
           NEW at, NEW put, Navigates(E, at, put), NEW within, Within(E, within),
           NEW rel \in {Same, SameButM}, NEW d, NEW type \in Junctions, NEW w \in Trees(E),
           NEW p \in Paths, NEW q \in Paths, Tag(w.e) = type,
           <<w.e, p>> \in within[type], <<w.e, q>> \in within[type],
           NextWalks(E, size, within, type, w, p, q) \subseteq
              Good(E, size, elim, val, at, within, rel, d),
           NEW x, NEW y,
           \/ /\ Tag(at[<<w.e, p>>]) = type
              /\ x = d[<<type, w, Append(p, 2), q>>] /\ y = d[<<type, x, Append(p, 3), q>>]
           \/ /\ Tag(at[<<w.e, q>>]) = type
              /\ x = d[<<type, w, p, Append(q, 2)>>] /\ y = d[<<type, x, p, Append(q, 3)>>]
    PROVE  Rewritten(E, size, elim, val, at, within, type, rel, w, y)
  <1>0. GoesOn(E, at, within, type)
    BY PathsGoOn
  <1>1. ASSUME NEW u \in Trees(E), Tag(u.e) = type, size[u.e] <= size[w.e], LeadsAlike(at, within, type, w.e, u.e),
               NEW r \in Paths, NEW s \in Paths, NEW k \in {2, 3},
               \/ r = Append(p, k) /\ s = q /\ Tag(at[<<w.e, p>>]) = type
               \/ r = p /\ s = Append(q, k) /\ Tag(at[<<w.e, q>>]) = type
        PROVE  Rewritten(E, size, elim, val, at, within, type, rel, u, d[<<type, u, r, s>>])
    <2>1. u.e \in E
      BY DEF Trees
    <2>2. /\ <<u.e, p>> \in within[type] /\ <<u.e, q>> \in within[type]
          /\ Tag(at[<<u.e, p>>]) = type <=> Tag(at[<<w.e, p>>]) = type
          /\ Tag(at[<<u.e, q>>]) = type <=> Tag(at[<<w.e, q>>]) = type
      BY <1>1 DEF LeadsAlike
    <2>3. /\ Tag(at[<<u.e, p>>]) = type => <<u.e, Append(p, k)>> \in within[type]
          /\ Tag(at[<<u.e, q>>]) = type => <<u.e, Append(q, k)>> \in within[type]
      BY <1>0, <2>1, <2>2 DEF GoesOn
    <2>4. <<u.e, r>> \in within[type] /\ <<u.e, s>> \in within[type]
      BY <1>1, <2>2, <2>3
    <2>5. <<type, u, r, s>> \in Walks(E, within)
      BY <1>1, <2>4, GoodIs
    <2>6. <<type, u, r, s>> \in NextWalks(E, size, within, type, w, p, q)
      BY <1>1, <2>5 DEF NextWalks
    <2>7. <<type, u, r, s>> \in Good(E, size, elim, val, at, within, rel, d)
      BY <2>6
    <2>. QED
      BY <1>1, <2>4, <2>7, GoodIs
  <1>2. /\ Append(p, 2) \in Paths /\ Append(p, 3) \in Paths
        /\ Append(q, 2) \in Paths /\ Append(q, 3) \in Paths
    BY PathExtended
  <1>3. size[w.e] <= size[w.e] /\ LeadsAlike(at, within, type, w.e, w.e) /\ 2 \in {2, 3} /\ 3 \in {2, 3}
    <2>1. size[w.e] \in Nat
      BY ShapeIs DEF Trees
    <2>. QED
      BY <2>1 DEF LeadsAlike
  <1>4. Rewritten(E, size, elim, val, at, within, type, rel, w, x)
    <2>1. CASE Tag(at[<<w.e, p>>]) = type /\ x = d[<<type, w, Append(p, 2), q>>]
      <3>1. Rewritten(E, size, elim, val, at, within, type, rel, w, d[<<type, w, Append(p, 2), q>>])
        BY <1>1, <1>2, <1>3, <2>1
      <3>. QED
        BY <2>1, <3>1
    <2>2. CASE Tag(at[<<w.e, q>>]) = type /\ x = d[<<type, w, p, Append(q, 2)>>]
      <3>1. Rewritten(E, size, elim, val, at, within, type, rel, w, d[<<type, w, p, Append(q, 2)>>])
        BY <1>1, <1>2, <1>3, <2>2
      <3>. QED
        BY <2>2, <3>1
    <2>. QED
      BY <2>1, <2>2
  <1>5. x \in Trees(E) /\ Tag(x.e) = type /\ size[x.e] <= size[w.e] /\ LeadsAlike(at, within, type, w.e, x.e)
    BY <1>4 DEF Rewritten
  <1>6. Rewritten(E, size, elim, val, at, within, type, rel, x, y)
    BY <1>1, <1>2, <1>5
  <1>. QED
    BY <1>4, <1>6, RewrittenTwice

(* What a walk of its own makes of what p leads to, in its place.          *)
Nested(d, a) == d[<<Tag(a), [e |-> a, count |-> 0], <<>>, <<>>>>]
PlacedAt(put, w, p, x) == [e |-> put[<<w.e, p, x.e>>], count |-> w.count + x.count]

RewrittenIn(E, size, elim, val, at, within, type, rel, w, p, tag, u) ==
    /\ Rewritten(E, size, elim, val, at, within, type, rel, w, u)
    /\ Ends(at, within, type, u.e, p) /\ Tag(at[<<u.e, p>>]) = tag

LEMMA NestedRewrites ==
    ASSUME NEW E, NEW S, NEW size, Expressions(E, S, size), NEW v, NEW val, Calculates(E, v, val),
           NEW ty, Valuation(S, ty, v), NEW elim, Eliminates(E, elim),
           NEW at, NEW put, Navigates(E, at, put), NEW within, Within(E, within),
           NEW rel \in {Same, SameButM}, NEW d, NEW type \in Junctions, NEW w \in Trees(E),
           NEW p \in Paths, NEW q \in Paths, Tag(w.e) = type, Ends(at, within, type, w.e, p),
           NextWalks(E, size, within, type, w, p, q) \subseteq
              Good(E, size, elim, val, at, within, rel, d),
           NEW a, a = at[<<w.e, p>>], Tag(a) \in Junctions, NEW u, u = PlacedAt(put, w, p, Nested(d, a))
    PROVE  RewrittenIn(E, size, elim, val, at, within, type, rel, w, p, Tag(a), u)
  <1>1. w.e \in E /\ a \in E /\ size[a] \in Nat /\ size[w.e] \in Nat /\ size[a] < size[w.e]
    <2>1. w.e \in E
      BY DEF Trees
    <2>2. Leads(E, size, at, put, within, type, w.e, p) /\ AtTheEnd(E, at, put, within, type)
      BY <2>1, PathsLead, NothingToWalk DEF Ends
    <2>3. a \in E /\ size[w.e] >= size[a] + Len(p)
      BY <2>2 DEF Leads
    <2>4. p # <<>>
      BY <2>1, <2>2 DEF AtTheEnd, Ends
    <2>5. Len(p) \in Nat /\ Len(p) # 0
      BY <2>4, PathIs
    <2>6. size[a] \in Nat /\ size[w.e] \in Nat
      BY <2>1, <2>3, ShapeIs
    <2>. QED
      BY <2>1, <2>3, <2>5, <2>6
  <1>2. PICK t \in Junctions, z \in Trees(E) : t = Tag(a) /\ z = [e |-> a, count |-> 0] /\ t # type
    <2>1. Tag(a) # type
      BY DEF Ends
    <2>2. [e |-> a, count |-> 0] \in Trees(E)
      BY <1>1 DEF Trees
    <2>. QED
      BY <2>1, <2>2
  <1>3. z.e = a /\ z.count = 0
    BY <1>2
  <1>4. <<>> \in Paths /\ <<a, <<>>>> \in within[t]
    BY <1>1, PathEnd DEF Paths
  <1>5. PICK i : i = d[<<t, z, <<>>, <<>>>>]
    OBVIOUS
  <1>6. Rewritten(E, size, elim, val, at, within, t, rel, z, i)
    <2>1. <<t, z, <<>>, <<>>>> \in Walks(E, within)
      BY <1>2, <1>3, <1>4, GoodIs
    <2>2. <<t, z, <<>>, <<>>>> \in NextWalks(E, size, within, type, w, p, q)
      BY <1>1, <1>3, <2>1 DEF NextWalks
    <2>3. <<t, z, <<>>, <<>>>> \in Good(E, size, elim, val, at, within, rel, d)
      BY <2>2
    <2>. QED
      BY <1>2, <1>3, <1>4, <1>5, <2>3, GoodIs
  <1>7. /\ i \in Trees(E) /\ i.e \in E /\ i.count \in Nat /\ Tag(i.e) = t /\ size[i.e] <= size[a]
        /\ <<val[a], val[i.e]>> \in rel
        /\ i.count = 0 => i.e = a
        /\ i.count > 0 => size[elim[i.e]] < size[a]
    BY <1>3, <1>6 DEF Rewritten, Trees
  <1>8. PICK f : f = put[<<w.e, p, i.e>>]
    OBVIOUS
  <1>9. <<val[w.e], val[f]>> \in rel
    <2>1. Contexts(E, val, put, within, type)
      BY ContextsOf
    <2>2. PICK c \in 0 .. 2 : \A x \in E : val[put[<<w.e, p, x>>]] = JunctionOf(type, c, val[x])
      BY <1>1, <2>1 DEF Contexts, Ends
    <2>3. put[<<w.e, p, a>>] = w.e
      <3>1. Leads(E, size, at, put, within, type, w.e, p)
        BY <1>1, PathsLead DEF Ends
      <3>. QED
        BY <3>1 DEF Leads
    <2>4. val[w.e] = JunctionOf(type, c, val[a]) /\ val[f] = JunctionOf(type, c, val[i.e])
      BY <1>1, <1>7, <1>8, <2>2, <2>3
    <2>5. val[a] \in 0 .. 2 /\ val[i.e] \in 0 .. 2
      BY <1>1, <1>7, ValuesAreTristates
    <2>6. \A x \in 0 .. 2, y \in 0 .. 2 :
             <<x, y>> \in rel => <<JunctionOf(type, c, x), JunctionOf(type, c, y)>> \in rel
      BY RelationLaws
    <2>. QED
      BY <1>7, <2>4, <2>5, <2>6
  <1>10. u = [e |-> f, count |-> w.count + i.count] /\ u.e = f
    BY <1>2, <1>5, <1>8 DEF PlacedAt, Nested
  <1>11. /\ Rewritten(E, size, elim, val, at, within, type, rel, w, [e |-> f, count |-> w.count + i.count])
         /\ at[<<f, p>>] = i.e /\ Ends(at, within, type, f, p)
    <2>1. PICK x \in E, n \in Nat : x = i.e /\ n = i.count
      BY <1>7
    <2>2. /\ Tag(x) # type /\ size[x] <= size[a] /\ f = put[<<w.e, p, x>>]
          /\ n = 0 => x = a
          /\ n > 0 => size[elim[x]] < size[a]
      BY <1>2, <1>7, <1>8, <2>1
    <2>3. /\ Rewritten(E, size, elim, val, at, within, type, rel, w, [e |-> f, count |-> w.count + n])
          /\ at[<<f, p>>] = x /\ Ends(at, within, type, f, p)
      BY <1>9, <2>2, PlaceRewrites
    <2>. QED
      BY <2>1, <2>3
  <1>. QED
    BY <1>2, <1>7, <1>10, <1>11 DEF RewrittenIn
-----------------------------------------------------------------------------
(* What expr_eliminate_dups1 makes of every walk is d1.                    *)
Dups1(E, within, at, put, join, d1) ==
    LET At(e, p) == at[<<e, p>>]
        Put(e, p, x) == put[<<e, p, x>>]
        Join(t, a, b) == join[<<t, a, b>>]
        Inside(t, x) == d1[<<t, [e |-> x, count |-> 0], <<>>, <<>>>>]
    IN \A type \in Junctions :
          LET Walk(w, p, q) == d1[<<type, w, p, q>>]
          IN \A w \in Trees(E), p \in Paths, q \in Paths :
                (<<w.e, p>> \in within[type] /\ <<w.e, q>> \in within[type]) =>
                   d1[<<type, w, p, q>>] = Dups1Body(type, w, p, q, At, Put, Join, Walk, Inside)

JoinedAt(put, type, u, p, q, x) ==
    IF x = NULL THEN u
    ELSE [e |-> put[<<put[<<u.e, p, Unit(type)>>], q, x>>], count |-> u.count + 1]

Dups1At(at, put, join, d1, type, w, p, q) ==
    LET a == at[<<w.e, p>>]
        b == at[<<w.e, q>>]
        u == IF Tag(a) \in Junctions THEN PlacedAt(put, w, p, Nested(d1, a)) ELSE w
    IN d1[<<type, w, p, q>>] =
          IF Tag(a) = type
          THEN d1[<<type, d1[<<type, w, Append(p, 2), q>>], Append(p, 3), q>>]
          ELSE IF Tag(b) = type
          THEN d1[<<type, d1[<<type, w, p, Append(q, 2)>>], p, Append(q, 3)>>]
          ELSE IF p = q THEN w
          ELSE JoinedAt(put, type, u, p, q, join[<<type, at[<<u.e, p>>], at[<<u.e, q>>]>>])

LEMMA Dups1Unfolds ==
    ASSUME NEW E, NEW within, NEW at, NEW put, NEW join, NEW d1, Dups1(E, within, at, put, join, d1),
           NEW type \in Junctions, NEW w \in Trees(E), NEW p \in Paths, NEW q \in Paths,
           <<w.e, p>> \in within[type], <<w.e, q>> \in within[type]
    PROVE  Dups1At(at, put, join, d1, type, w, p, q)
  <1> DEFINE Z == d1[<<Tag(at[<<w.e, p>>]), [e |-> at[<<w.e, p>>], count |-> 0], <<>>, <<>>>>]
             U == IF Tag(at[<<w.e, p>>]) \in Junctions
                  THEN [e |-> put[<<w.e, p, Z.e>>], count |-> w.count + Z.count] ELSE w
             X == join[<<type, at[<<U.e, p>>], at[<<U.e, q>>]>>]
             At(e, r) == at[<<e, r>>]
             Put(e, r, x) == put[<<e, r, x>>]
             Join(t, x, y) == join[<<t, x, y>>]
             Inside(t, x) == d1[<<t, [e |-> x, count |-> 0], <<>>, <<>>>>]
             Walk(x, r, s) == d1[<<type, x, r, s>>]
  <1>1. d1[<<type, w, p, q>>] =
           IF Tag(at[<<w.e, p>>]) = type
           THEN d1[<<type, d1[<<type, w, Append(p, 2), q>>], Append(p, 3), q>>]
           ELSE IF Tag(at[<<w.e, q>>]) = type
           THEN d1[<<type, d1[<<type, w, p, Append(q, 2)>>], p, Append(q, 3)>>]
           ELSE IF p = q THEN w
           ELSE IF X = NULL THEN U
           ELSE [e |-> put[<<put[<<U.e, p, Unit(type)>>], q, X>>], count |-> U.count + 1]
    <2>1. d1[<<type, w, p, q>>] = Dups1Body(type, w, p, q, At, Put, Join, Walk, Inside)
      BY DEF Dups1
    <2>2. Dups1Body(type, w, p, q, At, Put, Join, Walk, Inside) =
             IF Tag(at[<<w.e, p>>]) = type
             THEN d1[<<type, d1[<<type, w, Append(p, 2), q>>], Append(p, 3), q>>]
             ELSE IF Tag(at[<<w.e, q>>]) = type
             THEN d1[<<type, d1[<<type, w, p, Append(q, 2)>>], p, Append(q, 3)>>]
             ELSE IF p = q THEN w
             ELSE IF X = NULL THEN U
             ELSE [e |-> put[<<put[<<U.e, p, Unit(type)>>], q, X>>], count |-> U.count + 1]
      BY DEF Dups1Body, Placed, Joined
    <2>. QED
      BY <2>1, <2>2
  <1>2. PICK a, b, u : /\ a = at[<<w.e, p>>] /\ b = at[<<w.e, q>>]
                       /\ u = IF Tag(a) \in Junctions THEN PlacedAt(put, w, p, Nested(d1, a)) ELSE w
    OBVIOUS
  <1>3. u = U
    BY <1>2, Zenon DEF PlacedAt, Nested
  <1> HIDE DEF U
  <1>4. d1[<<type, w, p, q>>] =
          IF Tag(a) = type
          THEN d1[<<type, d1[<<type, w, Append(p, 2), q>>], Append(p, 3), q>>]
          ELSE IF Tag(b) = type
          THEN d1[<<type, d1[<<type, w, p, Append(q, 2)>>], p, Append(q, 3)>>]
          ELSE IF p = q THEN w
          ELSE JoinedAt(put, type, u, p, q, join[<<type, at[<<u.e, p>>], at[<<u.e, q>>]>>])
    BY <1>1, <1>2, <1>3, Zenon DEF JoinedAt
  <1>. QED
    BY <1>2, <1>4, Zenon DEF Dups1At

(* Two different operands are joined.                                      *)
LEMMA JoinRewrites ==
    ASSUME NEW E, NEW S, NEW size, Expressions(E, S, size), NEW v, NEW val, Calculates(E, v, val),
           NEW ty, Valuation(S, ty, v), NEW elim, Eliminates(E, elim),
           NEW at, NEW put, Navigates(E, at, put), NEW within, Within(E, within),
           NEW rel \in {Same, SameButM}, NEW type \in Junctions, NEW w \in Trees(E),
           NEW p \in Paths, NEW q \in Paths, Tag(w.e) = type, p # q,
           Ends(at, within, type, w.e, p), Ends(at, within, type, w.e, q),
           NEW x, JoinsInto(E, size, val, type, at[<<w.e, p>>], at[<<w.e, q>>], x)
    PROVE  Rewritten(E, size, elim, val, at, within, type, rel, w,
                     [e |-> put[<<put[<<w.e, p, Unit(type)>>], q, x>>], count |-> w.count + 1])
  <1>1. /\ w.e \in E /\ w.count \in Nat /\ x \in E /\ Tag(x) # type
        /\ Unit(type) \in E /\ size[Unit(type)] = 1 /\ Tag(Unit(type)) # type
    <2>1. Unit(type) \in {Yes, No} /\ Tag(Yes) = "sym" /\ Tag(No) = "sym"
      BY DEF Unit, Yes, No, Sym, Tag
    <2>2. /\ Yes \in E /\ No \in E /\ size[Yes] = 1 /\ size[No] = 1
      BY DEF Expressions, Constants, Yes, No
    <2>. QED
      BY <2>1, <2>2 DEF Trees, JoinsInto, Junctions
  <1>2. PICK a \in E, b \in E : a = at[<<w.e, p>>] /\ b = at[<<w.e, q>>]
    <2>1. /\ Leads(E, size, at, put, within, type, w.e, p)
          /\ Leads(E, size, at, put, within, type, w.e, q)
      BY <1>1, PathsLead DEF Ends
    <2>. QED
      BY <2>1 DEF Leads
  <1>3. PICK f : f = put[<<w.e, p, Unit(type)>>]
    OBVIOUS
  <1>4. PICK g : g = put[<<f, q, x>>]
    OBVIOUS
  <1>5. /\ Apart(E, val, at, put, type, w.e, p, q) /\ Leads(E, size, at, put, within, type, w.e, p)
        /\ Leads(E, size, at, put, within, type, w.e, q)
    BY <1>1, PlacesApart, PathsLead DEF Ends
  <1>6. /\ f \in E /\ <<f, p>> \in within[type] /\ at[<<f, p>>] = Unit(type)
        /\ size[f] + size[a] = size[w.e] + 1
        /\ put[<<w.e, p, a>>] = w.e /\ put[<<w.e, q, b>>] = w.e
    BY <1>1, <1>2, <1>3, <1>5 DEF Leads
  <1>7. at[<<f, q>>] = b
    BY <1>1, <1>2, <1>3, <1>5 DEF Apart
  <1>8. LeadsAlike(at, within, type, w.e, f)
    <2>1. ASSUME NEW r \in Paths, <<w.e, r>> \in within[type]
          PROVE  Keeps(E, at, put, within, type, w.e, p, r, Unit(type))
      BY <1>1, <2>1, PutKeeps
    <2>. QED
      BY <1>1, <1>3, <2>1 DEF LeadsAlike, Keeps
  <1>9. Ends(at, within, type, f, p) /\ Ends(at, within, type, f, q)
    BY <1>8 DEF LeadsAlike, Ends
  <1>10. Leads(E, size, at, put, within, type, f, q) /\ Apart(E, val, at, put, type, f, q, p)
    BY <1>6, <1>9, PathsLead, PlacesApart DEF Ends
  <1>11. g \in E /\ size[g] + size[b] = size[f] + size[x]
    BY <1>1, <1>4, <1>7, <1>10 DEF Leads
  <1>12. at[<<g, p>>] = Unit(type)
    BY <1>1, <1>4, <1>6, <1>10 DEF Apart
  <1>13. LeadsAlike(at, within, type, w.e, g)
    <2>1. ASSUME NEW r \in Paths, <<f, r>> \in within[type]
          PROVE  Keeps(E, at, put, within, type, f, q, r, x)
      BY <1>1, <1>6, <1>9, <2>1, PutKeeps
    <2>2. LeadsAlike(at, within, type, f, g)
      BY <1>1, <1>4, <2>1 DEF LeadsAlike, Keeps
    <2>. QED
      BY <1>8, <2>2 DEF LeadsAlike
  <1>14. AtTheEnd(E, at, put, within, type) /\ <<>> \in Paths
    BY NothingToWalk DEF Paths
  <1>15. Tag(g) = type
    BY <1>1, <1>11, <1>13, <1>14 DEF AtTheEnd, LeadsAlike
  <1>16. size[g] <= size[w.e]
    <2>1. /\ size[a] \in Nat /\ size[b] \in Nat /\ size[f] \in Nat /\ size[g] \in Nat
          /\ size[w.e] \in Nat /\ size[x] \in Nat
      BY <1>1, <1>2, <1>6, <1>11, ShapeIs
    <2>2. size[x] < size[a] + size[b]
      BY <1>2 DEF JoinsInto
    <2>. QED
      BY <1>6, <1>11, <2>1, <2>2
  <1>17. size[elim[g]] < size[w.e]
    <2>1. p # <<>>
      BY <1>1, <1>14 DEF AtTheEnd, Ends
    <2>2. <<g, p>> \in within[type]
      BY <1>13 DEF LeadsAlike, Ends
    <2>3. Sheds(E, size, at, put, elim, type, g, p)
      BY <1>11, <2>2, PathsShed
    <2>4. size[elim[g]] < size[g]
      BY <1>12, <2>1, <2>3 DEF Sheds
    <2>5. size[elim[g]] \in Nat /\ size[g] \in Nat /\ size[w.e] \in Nat
      <3>1. Smaller(E, size, elim)
        BY EliminateYNSmaller
      <3>. QED
        BY <1>1, <1>11, <3>1, ShapeIs DEF Smaller
    <2>. QED
      BY <1>16, <2>4, <2>5
  <1>18. val[g] = val[w.e]
    <2>1. PICK c \in 0 .. 2 : \A y \in E, z \in E :
             val[put[<<put[<<w.e, p, y>>], q, z>>]] = JunctionOf(type, c, JunctionOf(type, val[y], val[z]))
      BY <1>5 DEF Apart
    <2>2. val[w.e] = JunctionOf(type, c, JunctionOf(type, val[a], val[b]))
      BY <1>6, <2>1
    <2>3. val[g] = JunctionOf(type, c, JunctionOf(type, val[Unit(type)], val[x]))
      BY <1>1, <1>3, <1>4, <2>1
    <2>4. JunctionOf(type, val[Unit(type)], val[x]) = val[x]
      <3>1. val[Yes] = 2 /\ val[No] = 0 /\ val[x] \in 0 .. 2
        BY <1>1, ConstantsCalculated, ValuesAreTristates
      <3>. QED
        BY <3>1 DEF Unit, JunctionOf, EXPR_AND, EXPR_OR, Junctions
    <2>5. val[x] = JunctionOf(type, val[a], val[b])
      BY <1>2 DEF JoinsInto
    <2>. QED
      BY <2>2, <2>3, <2>4, <2>5
  <1>19. <<val[w.e], val[g]>> \in rel
    <2>1. val[w.e] \in 0 .. 2
      BY <1>1, ValuesAreTristates
    <2>. QED
      BY <1>18, <2>1, RelationLaws
  <1>20. PICK y : y = [e |-> g, count |-> w.count + 1]
    OBVIOUS
  <1>21. /\ y \in Trees(E) /\ y.e = g /\ y.count = w.count + 1 /\ y.count > w.count /\ y.count # w.count
         /\ y.count >= w.count
    BY <1>1, <1>11, <1>20 DEF Trees
  <1>22. Rewritten(E, size, elim, val, at, within, type, rel, w, y)
    BY <1>13, <1>15, <1>16, <1>17, <1>19, <1>21 DEF Rewritten
  <1>. QED
    BY <1>3, <1>4, <1>20, <1>22

LEMMA Dups1Step ==
    ASSUME NEW E, NEW S, NEW size, Expressions(E, S, size), NEW v, NEW val, Calculates(E, v, val),
           NEW ty, Valuation(S, ty, v), NEW elim, Eliminates(E, elim),
           NEW in, NEW eq, Equates(E, elim, in, eq),
           \A type \in Junctions : EliminatesEq(E, type, in, eq),
           NEW join, Joins(E, ty, join, eq),
           NEW at, NEW put, Navigates(E, at, put), NEW within, Within(E, within),
           NEW d1, Dups1(E, within, at, put, join, d1),
           NEW type \in Junctions, NEW w \in Trees(E), NEW p \in Paths, NEW q \in Paths,
           Tag(w.e) = type, <<w.e, p>> \in within[type], <<w.e, q>> \in within[type],
           NextWalks(E, size, within, type, w, p, q) \subseteq
              Good(E, size, elim, val, at, within, Same, d1)
    PROVE  Rewritten(E, size, elim, val, at, within, type, Same, w, d1[<<type, w, p, q>>])
  <1>1. PICK a, b : a = at[<<w.e, p>>] /\ b = at[<<w.e, q>>]
    OBVIOUS
  <1>2. PICK u : u = IF Tag(a) \in Junctions THEN PlacedAt(put, w, p, Nested(d1, a)) ELSE w
    OBVIOUS
  <1>3. d1[<<type, w, p, q>>] =
           IF Tag(a) = type
           THEN d1[<<type, d1[<<type, w, Append(p, 2), q>>], Append(p, 3), q>>]
           ELSE IF Tag(b) = type
           THEN d1[<<type, d1[<<type, w, p, Append(q, 2)>>], p, Append(q, 3)>>]
           ELSE IF p = q THEN w
           ELSE JoinedAt(put, type, u, p, q, join[<<type, at[<<u.e, p>>], at[<<u.e, q>>]>>])
    <2>1. Dups1At(at, put, join, d1, type, w, p, q)
      BY Dups1Unfolds
    <2>. QED
      BY <1>1, <1>2, <2>1, Zenon DEF Dups1At
  <1>4. Same \in {Same, SameButM}
    OBVIOUS
  <1>5. CASE Tag(a) = type
    <2>1. PICK x, y : /\ x = d1[<<type, w, Append(p, 2), q>>]
                      /\ y = d1[<<type, x, Append(p, 3), q>>] /\ y = d1[<<type, w, p, q>>]
      BY <1>3, <1>5
    <2>. QED
      BY <1>1, <1>4, <1>5, <2>1, WalkThrough
  <1>6. CASE Tag(a) # type /\ Tag(b) = type
    <2>1. PICK x, y : /\ x = d1[<<type, w, p, Append(q, 2)>>]
                      /\ y = d1[<<type, x, p, Append(q, 3)>>] /\ y = d1[<<type, w, p, q>>]
      BY <1>3, <1>6
    <2>. QED
      BY <1>1, <1>4, <1>6, <2>1, WalkThrough
  <1>7. CASE Tag(a) # type /\ Tag(b) # type /\ p = q
    BY <1>3, <1>4, <1>7, NotRewritten
  <1>8. CASE Tag(a) # type /\ Tag(b) # type /\ p # q
    <2>1. Ends(at, within, type, w.e, p) /\ Ends(at, within, type, w.e, q)
      BY <1>1, <1>8 DEF Ends
    <2>2. /\ Rewritten(E, size, elim, val, at, within, type, Same, w, u)
          /\ Ends(at, within, type, u.e, p)
      <3>1. CASE Tag(a) \in Junctions
        <4>1. a = at[<<w.e, p>>] /\ u = PlacedAt(put, w, p, Nested(d1, a))
          BY <1>1, <1>2, <3>1
        <4>2. RewrittenIn(E, size, elim, val, at, within, type, Same, w, p, Tag(a), u)
          BY <1>4, <2>1, <3>1, <4>1, NestedRewrites
        <4>. QED
          BY <4>2 DEF RewrittenIn
      <3>2. CASE Tag(a) \notin Junctions
        BY <1>2, <1>4, <2>1, <3>2, NotRewritten
      <3>. QED
        BY <3>1, <3>2
    <2>3. u \in Trees(E) /\ u.e \in E /\ Tag(u.e) = type /\ Ends(at, within, type, u.e, q)
      BY <2>1, <2>2 DEF Rewritten, LeadsAlike, Ends, Trees
    <2>4. PICK c \in E, d \in E : c = at[<<u.e, p>>] /\ d = at[<<u.e, q>>]
      <3>1. /\ Leads(E, size, at, put, within, type, u.e, p)
            /\ Leads(E, size, at, put, within, type, u.e, q)
        BY <2>2, <2>3, PathsLead DEF Ends
      <3>. QED
        BY <3>1 DEF Leads
    <2>5. PICK x : x = join[<<type, c, d>>]
      OBVIOUS
    <2>6. d1[<<type, w, p, q>>] = JoinedAt(put, type, u, p, q, x)
      BY <1>3, <1>8, <2>4, <2>5
    <2>7. CASE x = NULL
      BY <2>2, <2>6, <2>7 DEF JoinedAt
    <2>8. CASE x # NULL
      <3>1. JoinsInto(E, size, val, type, c, d, x)
        <4>1. Tag(c) # type
          BY <2>2, <2>4 DEF Ends
        <4>. QED
          BY <2>5, <2>8, <4>1, JoinMeans
      <3>2. PICK y : y = [e |-> put[<<put[<<u.e, p, Unit(type)>>], q, x>>], count |-> u.count + 1]
        OBVIOUS
      <3>3. Rewritten(E, size, elim, val, at, within, type, Same, u, y)
        BY <1>4, <1>8, <2>2, <2>3, <2>4, <3>1, <3>2, JoinRewrites
      <3>4. d1[<<type, w, p, q>>] = y
        BY <2>6, <2>8, <3>2 DEF JoinedAt
      <3>. QED
        BY <1>4, <2>2, <3>3, <3>4, RewrittenTwice
    <2>. QED
      BY <2>7, <2>8
  <1>. QED
    BY <1>5, <1>6, <1>7, <1>8

(* expr_eliminate_dups1, which joins every operand of a junction with every*)
(* other one, leaves the value of the junction what it was, whatever the   *)
(* values of its symbols; and if it counts a simplification the junction   *)
(* gets smaller.                                                           *)
THEOREM Dups1Means ==
    ASSUME NEW E, NEW S, NEW size, Expressions(E, S, size), NEW v, NEW val, Calculates(E, v, val),
           NEW ty, Valuation(S, ty, v), NEW elim, Eliminates(E, elim),
           NEW in, NEW eq, Equates(E, elim, in, eq),
           \A type \in Junctions : EliminatesEq(E, type, in, eq),
           NEW join, Joins(E, ty, join, eq),
           NEW at, NEW put, Navigates(E, at, put), NEW within, Within(E, within),
           NEW d1, Dups1(E, within, at, put, join, d1)
    PROVE  \A g \in Walks(E, within) :
              Rewritten(E, size, elim, val, at, within, g[1], Same, g[2], d1[g])
  <1>1. ASSUME NEW type \in Junctions, NEW w \in Trees(E), NEW p \in Paths, NEW q \in Paths,
               <<type, w, p, q>> \in Walks(E, within),
               NextWalks(E, size, within, type, w, p, q) \subseteq
                  Good(E, size, elim, val, at, within, Same, d1)
        PROVE  <<type, w, p, q>> \in Good(E, size, elim, val, at, within, Same, d1)
    <2>1. Tag(w.e) = type /\ <<w.e, p>> \in within[type] /\ <<w.e, q>> \in within[type]
      BY <1>1 DEF Walks
    <2>2. Rewritten(E, size, elim, val, at, within, type, Same, w, d1[<<type, w, p, q>>])
      BY <1>1, <2>1, Dups1Step
    <2>. QED
      BY <2>1, <2>2, GoodIs
  <1>2. Walks(E, within) \subseteq Good(E, size, elim, val, at, within, Same, d1)
    BY <1>1, WalkInduction
  <1>. QED
    BY <1>2 DEF Good
-----------------------------------------------------------------------------
(* What absorb says of a junction a and of b: whether nothing is left of   *)
(* the negation of a once what it shares with b is taken out of it.        *)
AbsorbsAll(E, trans, ex, elim, absorb) ==
    LET Transform(x) == trans[x]
        Eliminate(x) == elim[x]
        Extract(t, x, y) == ex[<<t, NULL, x, y>>]
    IN \A type \in Junctions, a \in E, b \in E :
          absorb[<<type, a, b>>] = Absorbs(type, a, b, Transform, Extract, Eliminate)

AbsorbedBy(elim, ex, other, n, b) ==
    LET x == ex[<<other, NULL, n, b>>]
    IN (IF x[1] = NULL THEN n ELSE elim[x[2]]) = Unit(other)

AbsorbsAt(elim, ex, trans, absorb, type, a, b) ==
    absorb[<<type, a, b>>] = AbsorbedBy(elim, ex, Opposite(type), trans[<<"not", a>>], b)

LEMMA AbsorbUnfolds ==
    ASSUME NEW E, NEW trans, NEW ex, NEW elim, NEW absorb, AbsorbsAll(E, trans, ex, elim, absorb),
           NEW type \in Junctions, NEW a \in E, NEW b \in E
    PROVE  AbsorbsAt(elim, ex, trans, absorb, type, a, b)
  <1> DEFINE Transform(x) == trans[x]
             Eliminate(x) == elim[x]
             Extract(t, x, y) == ex[<<t, NULL, x, y>>]
  <1>1. absorb[<<type, a, b>>] = Absorbs(type, a, b, Transform, Extract, Eliminate)
    BY DEF AbsorbsAll
  <1>2. Absorbs(type, a, b, Transform, Extract, Eliminate)
           = AbsorbedBy(elim, ex, Opposite(type), trans[<<"not", a>>], b)
    BY DEF Absorbs, Remaining, AbsorbedBy
  <1>. QED
    BY <1>1, <1>2 DEF AbsorbsAt

(* An absorbed junction is negated by b.                                   *)
Negates(val, type, a, b) ==
    /\ val[a] \in 0 .. 2 /\ val[b] \in 0 .. 2
    /\ JunctionOf(Opposite(type), val[b], 2 - val[a]) = val[b]

LEMMA AbsorbMeans ==
    ASSUME NEW E, NEW S, NEW size, Expressions(E, S, size), NEW v, NEW val, Calculates(E, v, val),
           NEW ty, Valuation(S, ty, v), NEW elim, Eliminates(E, elim),
           NEW in, NEW eq, Equates(E, elim, in, eq),
           \A type \in Junctions : EliminatesEq(E, type, in, eq),
           NEW N, NormalForms(E, N), NEW trans, Transforms(ty, E, trans),
           NEW ex, \A type \in Junctions : Extracts(E, type, ex, eq),
           NEW absorb, AbsorbsAll(E, trans, ex, elim, absorb),
           NEW type \in Junctions, NEW a \in E, NEW b \in E, absorb[<<type, a, b>>]
    PROVE  Negates(val, type, a, b)
  <1>1. PICK other \in Junctions : other = Opposite(type)
    BY DEF Opposite, Junctions
  <1>2. PICK n \in E : n = trans[<<"not", a>>] /\ val[n] = 2 - val[a]
    <2>1. <<"not", a>> \in E /\ val[<<"not", a>>] = 2 - val[a]
      BY Written, Calculated
    <2>2. \A e \in E : trans[e] \in N /\ val[trans[e]] = val[e]
      BY TransformMeans
    <2>3. N \subseteq E
      BY DEF NormalForms
    <2>. QED
      BY <2>1, <2>2, <2>3
  <1>3. PICK x : x = ex[<<other, NULL, n, b>>]
    OBVIOUS
  <1>4. (IF x[1] = NULL THEN n ELSE elim[x[2]]) = Unit(other)
    <2>1. AbsorbsAt(elim, ex, trans, absorb, type, a, b)
      BY AbsorbUnfolds
    <2>2. AbsorbedBy(elim, ex, other, n, b)
      BY <1>1, <1>2, <2>1 DEF AbsorbsAt
    <2>. QED
      BY <1>3, <2>2 DEF AbsorbedBy
  <1>5. /\ val[a] \in 0 .. 2 /\ val[b] \in 0 .. 2 /\ val[n] \in 0 .. 2
        /\ val[Yes] = 2 /\ val[No] = 0
    BY ValuesAreTristates, ConstantsCalculated
  <1>6. JunctionOf(other, val[b], val[n]) = val[b]
    <2>1. CASE x[1] = NULL
      <3>1. n = Unit(other)
        BY <1>4, <2>1
      <3>2. val[n] = IF other = "and" THEN 2 ELSE 0
        BY <1>5, <3>1 DEF Unit
      <3>. QED
        BY <1>5, <3>2 DEF JunctionOf, EXPR_AND, EXPR_OR
    <2>2. CASE x[1] # NULL
      <3>1. Taken(E, size, val, other, n, b, x)
        <4>1. \A t \in E \cup {NULL}, c \in E, d \in E :
                 Taken(E, size, val, other, c, d, ex[<<other, t, c, d>>])
          BY ExtractMeans
        <4>. QED
          BY <1>3, <4>1
      <3>2. PICK y \in E, z \in E, c \in 0 .. 2 :
               /\ <<x[2], x[3]>> = <<y, z>>
               /\ val[n] = JunctionOf(other, c, val[y]) /\ val[b] = JunctionOf(other, c, val[z])
        BY <3>1 DEF Taken, Shares
      <3>3. elim[y] = Unit(other)
        BY <1>4, <2>2, <3>2
      <3>4. val[y] = val[Unit(other)]
        BY <3>2, <3>3, EliminateYNMeans
      <3>5. val[y] = IF other = "and" THEN 2 ELSE 0
        BY <1>5, <3>4 DEF Unit
      <3>6. val[z] \in 0 .. 2
        BY <3>2, ValuesAreTristates
      <3>. QED
        BY <3>2, <3>5, <3>6 DEF JunctionOf, EXPR_AND, EXPR_OR
    <2>. QED
      BY <2>1, <2>2
  <1>. QED
    BY <1>1, <1>2, <1>5, <1>6 DEF Negates

-----------------------------------------------------------------------------
(* What expr_eliminate_dups2 makes of every walk is d2.                    *)
Dups2(E, within, at, put, absorb, d2) ==
    LET At(e, p) == at[<<e, p>>]
        Put(e, p, x) == put[<<e, p, x>>]
        Absorb(t, a, b) == absorb[<<t, a, b>>]
        Inside(t, x) == d2[<<t, [e |-> x, count |-> 0], <<>>, <<>>>>]
    IN \A type \in Junctions :
          LET Walk(w, p, q) == d2[<<type, w, p, q>>]
          IN \A w \in Trees(E), p \in Paths, q \in Paths :
                (<<w.e, p>> \in within[type] /\ <<w.e, q>> \in within[type]) =>
                   d2[<<type, w, p, q>>] = Dups2Body(type, w, p, q, At, Put, Absorb, Walk, Inside)

AbsorbedAt(put, tag, u, p, absorbs) ==
    IF absorbs THEN [e |-> put[<<u.e, p, Unit(tag)>>], count |-> u.count + 1] ELSE u

Dups2At(at, put, absorb, d2, type, w, p, q) ==
    LET v == IF Tag(at[<<w.e, q>>]) = type
             THEN d2[<<type, d2[<<type, w, p, Append(q, 2)>>], p, Append(q, 3)>>] ELSE w
        a == at[<<v.e, p>>]
        u == PlacedAt(put, v, p, Nested(d2, a))
    IN d2[<<type, w, p, q>>] =
          IF Tag(at[<<w.e, p>>]) = type
          THEN d2[<<type, d2[<<type, w, Append(p, 2), q>>], Append(p, 3), q>>]
          ELSE IF p = q \/ Tag(a) \notin Junctions THEN v
          ELSE AbsorbedAt(put, Tag(a), u, p, absorb[<<Tag(a), at[<<u.e, p>>], at[<<u.e, q>>]>>])

LEMMA Dups2Unfolds ==
    ASSUME NEW E, NEW within, NEW at, NEW put, NEW absorb, NEW d2, Dups2(E, within, at, put, absorb, d2),
           NEW type \in Junctions, NEW w \in Trees(E), NEW p \in Paths, NEW q \in Paths,
           <<w.e, p>> \in within[type], <<w.e, q>> \in within[type]
    PROVE  Dups2At(at, put, absorb, d2, type, w, p, q)
  <1> DEFINE At(e, r) == at[<<e, r>>]
             Put(e, r, x) == put[<<e, r, x>>]
             Absorb(t, x, y) == absorb[<<t, x, y>>]
             Inside(t, x) == d2[<<t, [e |-> x, count |-> 0], <<>>, <<>>>>]
             Walk(x, r, s) == d2[<<type, x, r, s>>]
             V == IF Tag(at[<<w.e, q>>]) = type
                  THEN d2[<<type, d2[<<type, w, p, Append(q, 2)>>], p, Append(q, 3)>>] ELSE w
             A == at[<<V.e, p>>]
             Z == d2[<<Tag(A), [e |-> A, count |-> 0], <<>>, <<>>>>]
             U == [e |-> put[<<V.e, p, Z.e>>], count |-> V.count + Z.count]
  <1>1. d2[<<type, w, p, q>>] =
           IF Tag(at[<<w.e, p>>]) = type
           THEN d2[<<type, d2[<<type, w, Append(p, 2), q>>], Append(p, 3), q>>]
           ELSE IF p = q \/ Tag(A) \notin Junctions THEN V
           ELSE IF absorb[<<Tag(A), at[<<U.e, p>>], at[<<U.e, q>>]>>]
           THEN [e |-> put[<<U.e, p, Unit(Tag(A))>>], count |-> U.count + 1] ELSE U
    <2>1. d2[<<type, w, p, q>>] = Dups2Body(type, w, p, q, At, Put, Absorb, Walk, Inside)
      BY DEF Dups2
    <2>2. Dups2Body(type, w, p, q, At, Put, Absorb, Walk, Inside) =
             IF Tag(at[<<w.e, p>>]) = type
             THEN d2[<<type, d2[<<type, w, Append(p, 2), q>>], Append(p, 3), q>>]
             ELSE IF p = q \/ Tag(A) \notin Junctions THEN V
             ELSE IF absorb[<<Tag(A), at[<<U.e, p>>], at[<<U.e, q>>]>>]
             THEN [e |-> put[<<U.e, p, Unit(Tag(A))>>], count |-> U.count + 1] ELSE U
      BY DEF Dups2Body, Placed, Absorbed
    <2>. QED
      BY <2>1, <2>2
  <1>2. PICK x : x = V
    OBVIOUS
  <1>3. PICK a : a = at[<<x.e, p>>]
    OBVIOUS
  <1>4. PICK u : u = PlacedAt(put, x, p, Nested(d2, a))
    OBVIOUS
  <1>5. a = A
    BY <1>2, <1>3, Zenon
  <1>6. u = U
    BY <1>2, <1>4, <1>5, Zenon DEF PlacedAt, Nested
  <1>7. x = IF Tag(at[<<w.e, q>>]) = type
            THEN d2[<<type, d2[<<type, w, p, Append(q, 2)>>], p, Append(q, 3)>>] ELSE w
    BY <1>2
  <1> HIDE DEF U, V, A
  <1>8. d2[<<type, w, p, q>>] =
           IF Tag(at[<<w.e, p>>]) = type
           THEN d2[<<type, d2[<<type, w, Append(p, 2), q>>], Append(p, 3), q>>]
           ELSE IF p = q \/ Tag(a) \notin Junctions THEN x
           ELSE AbsorbedAt(put, Tag(a), u, p, absorb[<<Tag(a), at[<<u.e, p>>], at[<<u.e, q>>]>>])
    BY <1>1, <1>2, <1>5, <1>6, Zenon DEF AbsorbedAt
  <1>. QED
    BY <1>3, <1>4, <1>7, <1>8, Zenon DEF Dups2At

(* A junction below the one of u becomes its unit.                         *)
LEMMA UnitRewrites ==
    ASSUME NEW E, NEW S, NEW size, Expressions(E, S, size), NEW elim, Eliminates(E, elim), NEW val,
           NEW at, NEW put, Navigates(E, at, put), NEW within, Within(E, within),
           NEW type \in Junctions, NEW rel \in {Same, SameButM}, NEW u \in Trees(E), Tag(u.e) = type,
           NEW p \in Paths, Ends(at, within, type, u.e, p),
           NEW t \in Junctions, t = Tag(at[<<u.e, p>>]),
           <<val[u.e], val[put[<<u.e, p, Unit(t)>>]]>> \in rel
    PROVE  Rewritten(E, size, elim, val, at, within, type, rel, u,
                     [e |-> put[<<u.e, p, Unit(t)>>], count |-> u.count + 1])
  <1>1. /\ Unit(t) \in E /\ size[Unit(t)] = 1 /\ Tag(Unit(t)) # type
        /\ elim[Unit(t)] = Unit(t)
    <2>1. Unit(t) \in {Yes, No} /\ Tag(Yes) = "sym" /\ Tag(No) = "sym"
      BY DEF Unit, Yes, No, Sym, Tag
    <2>2. /\ Yes \in E /\ No \in E /\ size[Yes] = 1 /\ size[No] = 1
      BY DEF Expressions, Constants, Yes, No
    <2>3. "sym" \notin Junctions
      BY DEF Junctions
    <2>4. elim[Unit(t)] = Unit(t)
      BY <2>1, <2>2, <2>3 DEF Eliminates, EliminateYNBody
    <2>. QED
      BY <2>1, <2>2, <2>3, <2>4
  <1>2. PICK a : a = at[<<u.e, p>>]
    OBVIOUS
  <1>3. a \in E /\ size[a] \in Nat /\ size[a] >= 3
    <2>1. Leads(E, size, at, put, within, type, u.e, p)
      BY PathsLead DEF Ends, Trees
    <2>2. a \in E
      BY <1>2, <2>1 DEF Leads
    <2>. QED
      BY <1>2, <2>2, SizesOf
  <1>4. PICK x \in E, n \in Nat : x = Unit(t) /\ n = 1
    BY <1>1
  <1>5. PICK f : f = put[<<u.e, p, x>>]
    OBVIOUS
  <1>6. /\ Tag(x) # type /\ size[x] <= size[a] /\ <<val[u.e], val[f]>> \in rel
        /\ n = 0 => x = a
        /\ n > 0 => size[elim[x]] < size[a]
    BY <1>1, <1>3, <1>4, <1>5
  <1>7. /\ Rewritten(E, size, elim, val, at, within, type, rel, u, [e |-> f, count |-> u.count + n])
        /\ at[<<f, p>>] = x /\ Ends(at, within, type, f, p)
    BY <1>2, <1>4, <1>5, <1>6, PlaceRewrites
  <1>. QED
    BY <1>4, <1>5, <1>7

(* A junction that another operand absorbs becomes its unit: no junction   *)
(* that was y turns n, nor one that was n turns y.                         *)
LEMMA AbsorbRewrites ==
    ASSUME NEW E, NEW S, NEW size, Expressions(E, S, size), NEW v, NEW val, Calculates(E, v, val),
           NEW ty, Valuation(S, ty, v), NEW elim, Eliminates(E, elim),
           NEW at, NEW put, Navigates(E, at, put), NEW within, Within(E, within),
           NEW type \in Junctions, NEW u \in Trees(E), NEW p \in Paths, NEW q \in Paths,
           Tag(u.e) = type, Ends(at, within, type, u.e, p), <<u.e, q>> \in within[type],
           NEW t \in Junctions, t = Tag(at[<<u.e, p>>]),
           Negates(val, t, at[<<u.e, p>>], at[<<u.e, q>>])
    PROVE  Rewritten(E, size, elim, val, at, within, type, SameButM, u,
                     [e |-> put[<<u.e, p, Unit(t)>>], count |-> u.count + 1])
  <1>1. u.e \in E /\ Yes \in E /\ No \in E /\ Unit(t) \in {Yes, No} /\ t # type
    BY DEF Trees, Expressions, Constants, Yes, No, Unit, Ends
  <1>2. PICK a \in E, b \in E : /\ a = at[<<u.e, p>>] /\ b = at[<<u.e, q>>]
                                /\ put[<<u.e, p, a>>] = u.e /\ put[<<u.e, q, b>>] = u.e
    <2>1. /\ Leads(E, size, at, put, within, type, u.e, p)
          /\ Leads(E, size, at, put, within, type, u.e, q)
      BY <1>1, PathsLead DEF Ends
    <2>. QED
      BY <2>1 DEF Leads
  <1>3. PICK x \in E : x = Unit(t)
    BY <1>1
  <1>4. PICK f : f = put[<<u.e, p, x>>]
    OBVIOUS
  <1>5. <<val[u.e], val[f]>> \in SameButM
    <2>1. Contexts(E, val, put, within, type)
      BY ContextsOf
    <2>2. PICK c \in 0 .. 2 : \A y \in E : val[put[<<u.e, p, y>>]] = JunctionOf(type, c, val[y])
      BY <1>1, <2>1 DEF Contexts, Ends
    <2>3. PICK d \in 0 .. 2 : \A y \in E : val[put[<<u.e, q, y>>]] = JunctionOf(type, d, val[y])
      BY <1>1, <2>1 DEF Contexts
    <2>4. /\ val[u.e] = JunctionOf(type, c, val[a]) /\ val[u.e] = JunctionOf(type, d, val[b])
          /\ val[f] = JunctionOf(type, c, val[x])
      BY <1>2, <1>4, <2>2, <2>3
    <2>5. /\ val[a] \in 0 .. 2 /\ val[b] \in 0 .. 2
          /\ JunctionOf(Opposite(t), val[b], 2 - val[a]) = val[b]
      BY <1>2 DEF Negates
    <2>6. Opposite(t) = type
      BY <1>1 DEF Opposite, Junctions
    <2>7. val[x] = IF type = "and" THEN 0 ELSE 2
      <3>1. val[Yes] = 2 /\ val[No] = 0
        BY ConstantsCalculated
      <3>. QED
        BY <1>1, <1>3, <3>1 DEF Unit, Junctions
    <2>8. PICK va \in 0 .. 2, vb \in 0 .. 2, vx \in {0, 2} :
             /\ va = val[a] /\ vb = val[b] /\ vx = val[x]
             /\ vx = IF type = "and" THEN 0 ELSE 2
      BY <2>5, <2>7
    <2>9. /\ JunctionOf(type, c, va) \in 0 .. 2 /\ JunctionOf(type, c, vx) \in 0 .. 2
          /\ (JunctionOf(type, c, va) # 1 => JunctionOf(type, c, va) = JunctionOf(type, c, vx))
      <3>1. JunctionOf(type, vb, 2 - va) = vb /\ JunctionOf(type, c, va) = JunctionOf(type, d, vb)
        BY <2>4, <2>5, <2>6, <2>8
      <3>. QED
        BY <2>8, <3>1 DEF JunctionOf, EXPR_AND, EXPR_OR, Junctions
    <2>10. \A y \in 0 .. 2, z \in 0 .. 2 : (y # 1 => y = z) => <<y, z>> \in SameButM
      BY DEF SameButM, Same
    <2>. QED
      BY <2>4, <2>8, <2>9, <2>10
  <1>6. PICK rel \in {Same, SameButM} : rel = SameButM
    OBVIOUS
  <1>7. Rewritten(E, size, elim, val, at, within, type, rel, u,
                  [e |-> put[<<u.e, p, Unit(t)>>], count |-> u.count + 1])
    BY <1>3, <1>4, <1>5, <1>6, UnitRewrites
  <1>. QED
    BY <1>6, <1>7

(* In a tree that is not larger a walk goes on with no others.             *)
LEMMA NextWalksShrink ==
    ASSUME NEW E, NEW S, NEW size, Expressions(E, S, size), NEW within, NEW type \in Junctions,
           NEW w \in Trees(E), NEW u \in Trees(E), size[u.e] <= size[w.e], NEW p, NEW q
    PROVE  NextWalks(E, size, within, type, u, p, q) \subseteq NextWalks(E, size, within, type, w, p, q)
  <1>1. size[w.e] \in Nat /\ size[u.e] \in Nat
    BY ShapeIs DEF Trees
  <1>2. ASSUME NEW h \in Walks(E, within)
        PROVE  size[h[2].e] \in Nat
    <2>1. h[2] \in Trees(E)
      BY DEF Walks
    <2>. QED
      BY <2>1, ShapeIs DEF Trees
  <1>. QED
    BY <1>1, <1>2 DEF NextWalks

LEMMA Dups2Step ==
    ASSUME NEW E, NEW S, NEW size, Expressions(E, S, size), NEW v, NEW val, Calculates(E, v, val),
           NEW ty, Valuation(S, ty, v), NEW elim, Eliminates(E, elim),
           NEW in, NEW eq, Equates(E, elim, in, eq),
           \A type \in Junctions : EliminatesEq(E, type, in, eq),
           NEW N, NormalForms(E, N), NEW trans, Transforms(ty, E, trans),
           NEW ex, \A type \in Junctions : Extracts(E, type, ex, eq),
           NEW absorb, AbsorbsAll(E, trans, ex, elim, absorb),
           NEW at, NEW put, Navigates(E, at, put), NEW within, Within(E, within),
           NEW d2, Dups2(E, within, at, put, absorb, d2),
           NEW type \in Junctions, NEW w \in Trees(E), NEW p \in Paths, NEW q \in Paths,
           Tag(w.e) = type, <<w.e, p>> \in within[type], <<w.e, q>> \in within[type],
           NextWalks(E, size, within, type, w, p, q) \subseteq
              Good(E, size, elim, val, at, within, SameButM, d2)
    PROVE  Rewritten(E, size, elim, val, at, within, type, SameButM, w, d2[<<type, w, p, q>>])
  <1>1. PICK rel \in {Same, SameButM} : rel = SameButM
    OBVIOUS
  <1>2. PICK x : x = IF Tag(at[<<w.e, q>>]) = type
                     THEN d2[<<type, d2[<<type, w, p, Append(q, 2)>>], p, Append(q, 3)>>] ELSE w
    OBVIOUS
  <1>3. PICK a : a = at[<<x.e, p>>]
    OBVIOUS
  <1>4. PICK u : u = PlacedAt(put, x, p, Nested(d2, a))
    OBVIOUS
  <1>5. d2[<<type, w, p, q>>] =
           IF Tag(at[<<w.e, p>>]) = type
           THEN d2[<<type, d2[<<type, w, Append(p, 2), q>>], Append(p, 3), q>>]
           ELSE IF p = q \/ Tag(a) \notin Junctions THEN x
           ELSE AbsorbedAt(put, Tag(a), u, p, absorb[<<Tag(a), at[<<u.e, p>>], at[<<u.e, q>>]>>])
    <2>1. Dups2At(at, put, absorb, d2, type, w, p, q)
      BY Dups2Unfolds
    <2>. QED
      BY <1>2, <1>3, <1>4, <2>1, Zenon DEF Dups2At
  <1>6. CASE Tag(at[<<w.e, p>>]) = type
    <2>1. PICK y, z : /\ y = d2[<<type, w, Append(p, 2), q>>]
                      /\ z = d2[<<type, y, Append(p, 3), q>>] /\ z = d2[<<type, w, p, q>>]
      BY <1>5, <1>6
    <2>2. Rewritten(E, size, elim, val, at, within, type, rel, w, z)
      BY <1>1, <1>6, <2>1, WalkThrough
    <2>. QED
      BY <1>1, <2>1, <2>2
  <1>7. CASE Tag(at[<<w.e, p>>]) # type
    <2>1. Rewritten(E, size, elim, val, at, within, type, rel, w, x)
      <3>1. CASE Tag(at[<<w.e, q>>]) = type
        <4>1. PICK y : /\ y = d2[<<type, w, p, Append(q, 2)>>]
                       /\ x = d2[<<type, y, p, Append(q, 3)>>]
          BY <1>2, <3>1
        <4>. QED
          BY <1>1, <3>1, <4>1, WalkThrough
      <3>2. CASE Tag(at[<<w.e, q>>]) # type
        BY <1>2, <3>2, NotRewritten
      <3>. QED
        BY <3>1, <3>2
    <2>2. /\ x \in Trees(E) /\ x.e \in E /\ Tag(x.e) = type /\ size[x.e] <= size[w.e]
          /\ Ends(at, within, type, x.e, p) /\ <<x.e, q>> \in within[type]
      BY <1>7, <2>1 DEF Rewritten, LeadsAlike, Ends, Trees
    <2>3. CASE p = q \/ Tag(a) \notin Junctions
      BY <1>1, <1>5, <1>7, <2>1, <2>3
    <2>4. CASE p # q /\ Tag(a) \in Junctions
      <3>1. NextWalks(E, size, within, type, x, p, q) \subseteq
               Good(E, size, elim, val, at, within, rel, d2)
        <4>1. NextWalks(E, size, within, type, x, p, q) \subseteq NextWalks(E, size, within, type, w, p, q)
          BY <2>2, NextWalksShrink
        <4>. QED
          BY <1>1, <4>1
      <3>2. PICK t \in Junctions : t = Tag(a)
        BY <2>4
      <3>3. RewrittenIn(E, size, elim, val, at, within, type, rel, x, p, Tag(a), u)
        BY <1>3, <1>4, <2>2, <2>4, <3>1, NestedRewrites
      <3>4. Rewritten(E, size, elim, val, at, within, type, rel, w, u)
        BY <2>1, <3>3, RewrittenTwice DEF RewrittenIn
      <3>5. /\ u \in Trees(E) /\ Tag(u.e) = type /\ t = Tag(at[<<u.e, p>>])
            /\ Ends(at, within, type, u.e, p) /\ <<u.e, q>> \in within[type]
        BY <2>2, <3>2, <3>3, <3>4 DEF RewrittenIn, Rewritten, LeadsAlike
      <3>6. PICK b \in E, c \in E : b = at[<<u.e, p>>] /\ c = at[<<u.e, q>>]
        <4>1. /\ Leads(E, size, at, put, within, type, u.e, p)
              /\ Leads(E, size, at, put, within, type, u.e, q)
          BY <3>5, PathsLead DEF Ends, Trees
        <4>. QED
          BY <4>1 DEF Leads
      <3>7. d2[<<type, w, p, q>>] = AbsorbedAt(put, t, u, p, absorb[<<t, b, c>>])
        BY <1>5, <1>7, <2>4, <3>2, <3>6
      <3>8. CASE absorb[<<t, b, c>>]
        <4>1. Negates(val, t, b, c)
          BY <3>8, AbsorbMeans
        <4>2. PICK y : y = [e |-> put[<<u.e, p, Unit(t)>>], count |-> u.count + 1]
          OBVIOUS
        <4>3. Rewritten(E, size, elim, val, at, within, type, SameButM, u, y)
          BY <3>5, <3>6, <4>1, <4>2, AbsorbRewrites
        <4>4. d2[<<type, w, p, q>>] = y
          BY <3>7, <3>8, <4>2 DEF AbsorbedAt
        <4>5. Rewritten(E, size, elim, val, at, within, type, rel, u, y)
          BY <1>1, <4>3
        <4>6. Rewritten(E, size, elim, val, at, within, type, rel, w, y)
          BY <3>4, <4>5, RewrittenTwice
        <4>. QED
          BY <1>1, <4>4, <4>6
      <3>9. CASE ~absorb[<<t, b, c>>]
        BY <1>1, <3>4, <3>7, <3>9 DEF AbsorbedAt
      <3>. QED
        BY <3>8, <3>9
    <2>. QED
      BY <2>3, <2>4
  <1>. QED
    BY <1>6, <1>7

(* expr_eliminate_dups2, which drops the operands that another one absorbs,*)
(* changes the value of a junction only where it is m: what was y stays y, *)
(* and what was n stays n.                                                 *)
THEOREM Dups2Means ==
    ASSUME NEW E, NEW S, NEW size, Expressions(E, S, size), NEW v, NEW val, Calculates(E, v, val),
           NEW ty, Valuation(S, ty, v), NEW elim, Eliminates(E, elim),
           NEW in, NEW eq, Equates(E, elim, in, eq),
           \A type \in Junctions : EliminatesEq(E, type, in, eq),
           NEW N, NormalForms(E, N), NEW trans, Transforms(ty, E, trans),
           NEW ex, \A type \in Junctions : Extracts(E, type, ex, eq),
           NEW absorb, AbsorbsAll(E, trans, ex, elim, absorb),
           NEW at, NEW put, Navigates(E, at, put), NEW within, Within(E, within),
           NEW d2, Dups2(E, within, at, put, absorb, d2)
    PROVE  \A g \in Walks(E, within) :
              Rewritten(E, size, elim, val, at, within, g[1], SameButM, g[2], d2[g])
  <1>1. ASSUME NEW type \in Junctions, NEW w \in Trees(E), NEW p \in Paths, NEW q \in Paths,
               <<type, w, p, q>> \in Walks(E, within),
               NextWalks(E, size, within, type, w, p, q) \subseteq
                  Good(E, size, elim, val, at, within, SameButM, d2)
        PROVE  <<type, w, p, q>> \in Good(E, size, elim, val, at, within, SameButM, d2)
    <2>1. Tag(w.e) = type /\ <<w.e, p>> \in within[type] /\ <<w.e, q>> \in within[type]
      BY <1>1 DEF Walks
    <2>2. Rewritten(E, size, elim, val, at, within, type, SameButM, w, d2[<<type, w, p, q>>])
      BY <1>1, <2>1, Dups2Step
    <2>. QED
      BY <2>1, <2>2, GoodIs
  <1>2. Walks(E, within) \subseteq Good(E, size, elim, val, at, within, SameButM, d2)
    BY <1>1, WalkInduction
  <1>. QED
    BY <1>2 DEF Good
-----------------------------------------------------------------------------
(* A turn of the loop of expr_eliminate_dups, which walks e as a whole: d1 *)
(* is what the first walks make of their trees, d2 the second ones, turn   *)
(* what a turn makes of e and dups what the loop does.                     *)
Turns(E, d1, d2, turn) ==
    LET Inside1(t, x) == d1[<<t, [e |-> x, count |-> 0], <<>>, <<>>>>]
        Inside2(t, x) == d2[<<t, [e |-> x, count |-> 0], <<>>, <<>>>>]
    IN \A e \in E : turn[e] = TurnBody(e, Inside1, Inside2)

Loops(E, elim, turn, dups) ==
    \A e \in E : dups[e] = IF turn[e].count = 0 THEN turn[e].e ELSE dups[elim[turn[e].e]]

(* What is left of e, and how often it was simplified.                     *)
Turned(E, size, elim, val, rel, e, i) ==
    /\ i.e \in E /\ i.count \in Nat /\ size[i.e] <= size[e]
    /\ <<val[e], val[i.e]>> \in rel
    /\ i.count = 0 => i.e = e
    /\ i.count > 0 => size[elim[i.e]] < size[e]

LEMMA WalkOfAll ==
    ASSUME NEW E, NEW size, NEW elim, NEW val, NEW at, NEW put, Navigates(E, at, put),
           NEW within, Within(E, within), NEW rel, NEW d,
           \A g \in Walks(E, within) : Rewritten(E, size, elim, val, at, within, g[1], rel, g[2], d[g]),
           NEW e \in E, Tag(e) \in Junctions
    PROVE  Turned(E, size, elim, val, rel, e, Nested(d, e)) /\ Tag(Nested(d, e).e) = Tag(e)
  <1>1. PICK type \in Junctions, w \in Trees(E) : type = Tag(e) /\ w = [e |-> e, count |-> 0]
    BY DEF Trees
  <1>2. w.e = e /\ w.count = 0
    BY <1>1
  <1>3. <<>> \in Paths /\ <<e, <<>>>> \in within[type]
    BY PathEnd DEF Paths
  <1>4. PICK g : g = <<type, w, <<>>, <<>>>>
    OBVIOUS
  <1>5. g \in Walks(E, within) /\ g[1] = type /\ g[2] = w
    BY <1>1, <1>2, <1>3, <1>4 DEF Walks
  <1>6. PICK i : i = d[g]
    OBVIOUS
  <1>7. Rewritten(E, size, elim, val, at, within, type, rel, w, i)
    BY <1>5, <1>6
  <1>8. i \in Trees(E) /\ Tag(i.e) = type /\ i.e \in E /\ i.count \in Nat
    BY <1>7 DEF Rewritten, Trees
  <1>9. Turned(E, size, elim, val, rel, e, i)
    BY <1>2, <1>7, <1>8 DEF Rewritten, Turned
  <1>. QED
    BY <1>1, <1>4, <1>6, <1>8, <1>9 DEF Nested

TurnAt(d1, d2, turn, e) ==
    LET x == Nested(d1, e)
        y == Nested(d2, x.e)
    IN turn[e] = IF Tag(e) \notin Junctions THEN [e |-> e, count |-> 0]
                 ELSE [e |-> y.e, count |-> x.count + y.count]

LEMMA TurnUnfolds ==
    ASSUME NEW E, NEW d1, NEW d2, NEW turn, Turns(E, d1, d2, turn), NEW e \in E, e # NULL
    PROVE  TurnAt(d1, d2, turn, e)
  <1> DEFINE Inside1(t, x) == d1[<<t, [e |-> x, count |-> 0], <<>>, <<>>>>]
             Inside2(t, x) == d2[<<t, [e |-> x, count |-> 0], <<>>, <<>>>>]
  <1>1. turn[e] = TurnBody(e, Inside1, Inside2)
    BY DEF Turns
  <1>2. TurnBody(e, Inside1, Inside2) =
           IF e = NULL \/ Tag(e) \notin Junctions THEN [e |-> e, count |-> 0]
           ELSE [e |-> Nested(d2, Nested(d1, e).e).e,
                 count |-> Nested(d1, e).count + Nested(d2, Nested(d1, e).e).count]
    BY DEF TurnBody, Nested
  <1>. QED
    BY <1>1, <1>2 DEF TurnAt

LEMMA TurnMeans ==
    ASSUME NEW E, NEW S, NEW size, Expressions(E, S, size), NEW v, NEW val, Calculates(E, v, val),
           NEW ty, Valuation(S, ty, v), NEW elim, Eliminates(E, elim),
           NEW at, NEW put, Navigates(E, at, put), NEW within, Within(E, within),
           NEW d1, \A g \in Walks(E, within) :
                      Rewritten(E, size, elim, val, at, within, g[1], Same, g[2], d1[g]),
           NEW d2, \A g \in Walks(E, within) :
                      Rewritten(E, size, elim, val, at, within, g[1], SameButM, g[2], d2[g]),
           NEW turn, Turns(E, d1, d2, turn), NEW e \in E
    PROVE  Turned(E, size, elim, val, SameButM, e, turn[e])
  <1>1. e # NULL /\ size[e] \in Nat /\ val[e] \in 0 .. 2
    BY ShapeIs, ValuesAreTristates
  <1>2. TurnAt(d1, d2, turn, e)
    BY <1>1, TurnUnfolds
  <1>3. CASE Tag(e) \notin Junctions
    <2>1. turn[e] = [e |-> e, count |-> 0]
      BY <1>3, <1>2 DEF TurnAt
    <2>2. <<val[e], val[e]>> \in SameButM
      BY <1>1 DEF SameButM, Same
    <2>. QED
      BY <1>1, <2>1, <2>2 DEF Turned
  <1>4. CASE Tag(e) \in Junctions
    <2>1. PICK x : x = Nested(d1, e)
      OBVIOUS
    <2>2. Turned(E, size, elim, val, Same, e, x) /\ Tag(x.e) = Tag(e)
      BY <1>4, <2>1, WalkOfAll
    <2>3. PICK f \in E : f = x.e
      BY <2>2 DEF Turned
    <2>4. PICK y : y = Nested(d2, f)
      OBVIOUS
    <2>5. Turned(E, size, elim, val, SameButM, f, y)
      BY <1>4, <2>2, <2>3, <2>4, WalkOfAll
    <2>6. turn[e] = [e |-> y.e, count |-> x.count + y.count]
      BY <1>4, <1>2, <2>1, <2>3, <2>4 DEF TurnAt
    <2>7. /\ x.count \in Nat /\ size[f] <= size[e] /\ val[f] = val[e]
          /\ x.count = 0 => f = e
          /\ x.count > 0 => size[elim[f]] < size[e]
      BY <2>2, <2>3 DEF Turned, Same
    <2>8. /\ y.e \in E /\ y.count \in Nat /\ size[y.e] <= size[f] /\ <<val[f], val[y.e]>> \in SameButM
          /\ y.count = 0 => y.e = f
          /\ y.count > 0 => size[elim[y.e]] < size[f]
      BY <2>5 DEF Turned
    <2>9. size[f] \in Nat /\ size[y.e] \in Nat /\ size[elim[y.e]] \in Nat
      <3>1. Smaller(E, size, elim)
        BY EliminateYNSmaller
      <3>. QED
        BY <2>8, <3>1, ShapeIs DEF Smaller
    <2>10. size[y.e] <= size[e] /\ <<val[e], val[y.e]>> \in SameButM
      BY <1>1, <2>7, <2>8, <2>9
    <2>11. x.count + y.count = 0 => y.e = e
      BY <2>7, <2>8
    <2>12. x.count + y.count > 0 => size[elim[y.e]] < size[e]
      <3>1. CASE y.count > 0
        BY <1>1, <2>7, <2>8, <2>9, <3>1
      <3>2. CASE y.count = 0
        BY <2>7, <2>8, <3>2
      <3>. QED
        BY <2>8, <3>1, <3>2
    <2>13. PICK n \in Nat : n = x.count + y.count
      BY <2>7, <2>8
    <2>14. PICK i : i = [e |-> y.e, count |-> n]
      OBVIOUS
    <2>15. i.e = y.e /\ i.count = n
      BY <2>14
    <2>16. Turned(E, size, elim, val, SameButM, e, i)
      BY <2>8, <2>10, <2>11, <2>12, <2>13, <2>15 DEF Turned
    <2>. QED
      BY <2>6, <2>13, <2>14, <2>16
  <1>. QED
    BY <1>3, <1>4

(* expr_eliminate_dups, whose loop walks an expression until a turn counts *)
(* nothing, ends with one that a further turn leaves alone, that is no     *)
(* larger, and that has the value of the expression it was given whenever  *)
(* that is y or n, whatever the values of the symbols.                     *)
THEOREM DupsMeans ==
    ASSUME NEW E, NEW S, NEW size, Expressions(E, S, size), NEW v, NEW val, Calculates(E, v, val),
           NEW ty, Valuation(S, ty, v), NEW elim, Eliminates(E, elim),
           NEW in, NEW eq, Equates(E, elim, in, eq),
           \A type \in Junctions : EliminatesEq(E, type, in, eq),
           NEW N, NormalForms(E, N), NEW trans, Transforms(ty, E, trans),
           NEW ex, \A type \in Junctions : Extracts(E, type, ex, eq),
           NEW join, Joins(E, ty, join, eq), NEW absorb, AbsorbsAll(E, trans, ex, elim, absorb),
           NEW at, NEW put, Navigates(E, at, put), NEW within, Within(E, within),
           NEW d1, Dups1(E, within, at, put, join, d1),
           NEW d2, Dups2(E, within, at, put, absorb, d2),
           NEW turn, Turns(E, d1, d2, turn), NEW dups, Loops(E, elim, turn, dups)
    PROVE  \A e \in E : /\ dups[e] \in E /\ size[dups[e]] <= size[e]
                        /\ <<val[e], val[dups[e]]>> \in SameButM
                        /\ turn[dups[e]] = [e |-> dups[e], count |-> 0]
  <1> DEFINE P == {e \in E : /\ dups[e] \in E /\ size[dups[e]] <= size[e]
                             /\ <<val[e], val[dups[e]]>> \in SameButM
                             /\ turn[dups[e]].count = 0 /\ turn[dups[e]].e = dups[e]}
  <1>1. \A e \in E : Turned(E, size, elim, val, SameButM, e, turn[e])
    <2>1. \A g \in Walks(E, within) :
             Rewritten(E, size, elim, val, at, within, g[1], Same, g[2], d1[g])
      BY Dups1Means
    <2>2. \A g \in Walks(E, within) :
             Rewritten(E, size, elim, val, at, within, g[1], SameButM, g[2], d2[g])
      BY Dups2Means
    <2>. QED
      BY <2>1, <2>2, TurnMeans
  <1>2. \A e \in E : elim[e] \in E /\ size[elim[e]] <= size[e] /\ val[elim[e]] = val[e]
    <2>1. Smaller(E, size, elim)
      BY EliminateYNSmaller
    <2>. QED
      BY <2>1, EliminateYNMeans DEF Smaller
  <1>3. ASSUME NEW e \in E, \A x \in E : size[x] < size[e] => x \in P
        PROVE  e \in P
    <2>1. PICK i : i = turn[e]
      OBVIOUS
    <2>2. /\ i.e \in E /\ i.count \in Nat /\ size[i.e] <= size[e] /\ <<val[e], val[i.e]>> \in SameButM
          /\ i.count = 0 => i.e = e
          /\ i.count > 0 => size[elim[i.e]] < size[e]
      BY <1>1, <2>1 DEF Turned
    <2>3. dups[e] = IF i.count = 0 THEN i.e ELSE dups[elim[i.e]]
      BY <2>1 DEF Loops
    <2>4. CASE i.count = 0
      BY <2>1, <2>2, <2>3, <2>4
    <2>5. CASE i.count > 0
      <3>1. PICK f \in E : f = elim[i.e] /\ size[f] < size[e] /\ val[f] = val[i.e]
        BY <1>2, <2>2, <2>5
      <3>2. /\ dups[f] \in E /\ size[dups[f]] <= size[f] /\ <<val[f], val[dups[f]]>> \in SameButM
            /\ turn[dups[f]].count = 0 /\ turn[dups[f]].e = dups[f]
        BY <1>3, <3>1
      <3>3. dups[e] = dups[f]
        BY <2>2, <2>3, <2>5, <3>1
      <3>4. size[dups[f]] <= size[e]
        <4>1. size[dups[f]] \in Nat /\ size[f] \in Nat /\ size[e] \in Nat
          BY <3>2, ShapeIs
        <4>. QED
          BY <3>1, <3>2, <4>1
      <3>5. <<val[e], val[dups[f]]>> \in SameButM
        <4>1. PICK rel \in {Same, SameButM} : rel = SameButM
          OBVIOUS
        <4>2. <<val[e], val[i.e]>> \in rel /\ <<val[i.e], val[dups[f]]>> \in rel
          BY <2>2, <3>1, <3>2, <4>1
        <4>. QED
          BY <4>1, <4>2, RelationLaws
      <3>. QED
        BY <3>2, <3>3, <3>4, <3>5
    <2>. QED
      BY <2>2, <2>4, <2>5
  <1>4. E \subseteq P
    <2>1. size \in [E -> Nat]
      BY DEF Expressions
    <2> HIDE DEF P
    <2>. QED
      BY <1>3, <2>1, SizeInduction
  <1>5. ASSUME NEW e \in E, turn[e].count = 0, turn[e].e = e
        PROVE  turn[e] = [e |-> e, count |-> 0]
    <2>1. TurnAt(d1, d2, turn, e)
      BY ShapeIs, TurnUnfolds
    <2>. QED
      BY <1>5, <2>1 DEF TurnAt
  <1>. QED
    BY <1>4, <1>5
-----------------------------------------------------------------------------
(* Negation normal forms N stay so: all that the walks write is in them.   *)
NormalLaws(E, N) ==
    /\ N \subseteq E
    /\ \A e \in N : Tag(e) \in Junctions => Left(e) \in N /\ Right(e) \in N
    /\ \A type \in Junctions, l \in N, r \in N : <<type, l, r>> \in N
    /\ \A e \in E : Tag(e) \in Comparisons \cup {"sym"} => e \in N
    /\ \A type \in Junctions : Unit(type) \in N /\ Zero(type) \in N

LEMMA NormalIs ==
    ASSUME NEW E, NEW S, NEW size, Expressions(E, S, size), NEW N, NormalForms(E, N)
    PROVE  NormalLaws(E, N)
  <1>1. N \subseteq E
    BY DEF NormalForms
  <1>2. ASSUME NEW e \in N, Tag(e) \in Junctions
        PROVE  Left(e) \in N /\ Right(e) \in N
    <2>1. Tag(e) \notin Comparisons \cup {"sym"} /\ Tag(e) # "not"
      BY <1>2 DEF Comparisons, Junctions
    <2>. QED
      BY <2>1 DEF NormalForms
  <1>3. ASSUME NEW type \in Junctions, NEW l \in N, NEW r \in N
        PROVE  <<type, l, r>> \in N
    <2>1. <<type, l, r>> \in E
      BY <1>1, Written
    <2>2. Tag(<<type, l, r>>) = type /\ Left(<<type, l, r>>) = l /\ Right(<<type, l, r>>) = r
      BY DEF Tag, Left, Right
    <2>. QED
      BY <2>1, <2>2 DEF NormalForms
  <1>4. ASSUME NEW e \in E, Tag(e) \in Comparisons \cup {"sym"}
        PROVE  e \in N
    BY <1>4 DEF NormalForms
  <1>5. ASSUME NEW type \in Junctions
        PROVE  Unit(type) \in N /\ Zero(type) \in N
    <2>1. Yes \in E /\ No \in E /\ Tag(Yes) = "sym" /\ Tag(No) = "sym"
      BY DEF Expressions, Constants, Yes, No, Sym, Tag
    <2>2. Yes \in N /\ No \in N
      BY <1>4, <2>1
    <2>. QED
      BY <2>2 DEF Unit, Zero
  <1>. QED
    BY <1>1, <1>2, <1>3, <1>4, <1>5 DEF NormalLaws

NormalAt(N, at, put, e, p) == at[<<e, p>>] \in N /\ \A x \in N : put[<<e, p, x>>] \in N

LEMMA NormalPlaces ==
    ASSUME NEW E, NEW S, NEW size, Expressions(E, S, size), NEW N, NormalForms(E, N),
           NEW at, NEW put, Navigates(E, at, put), NEW within, Within(E, within), NEW type \in Junctions
    PROVE  \A e \in N, p \in Paths : <<e, p>> \in within[type] => NormalAt(N, at, put, e, p)
  <1> DEFINE P == {p \in Paths : \A e \in N : <<e, p>> \in within[type] => NormalAt(N, at, put, e, p)}
  <1>0. /\ NormalLaws(E, N) /\ ReadsOn(E, at) /\ PutsOn(E, put)
        /\ AtTheEnd(E, at, put, within, type)
    BY NormalIs, ReadStep, PutStep, NothingToWalk
  <1>1. ASSUME NEW p \in Paths, p # <<>> => Tail(p) \in P, NEW e \in N, <<e, p>> \in within[type]
        PROVE  NormalAt(N, at, put, e, p)
    <2>0. e \in E /\ N \subseteq E
      BY <1>0 DEF NormalLaws
    <2>1. CASE p = <<>>
      BY <1>0, <2>0, <2>1 DEF AtTheEnd, NormalAt
    <2>2. CASE p # <<>>
      <3>1. PICK d \in {2, 3}, r \in Paths : d = Head(p) /\ r = Tail(p)
        BY <2>2, PathIs
      <3>2. Tag(e) = type /\ e[d] \in E /\ <<e[d], r>> \in within[type]
        <4> HIDE DEF P
        <4>. QED
          BY <1>1, <2>0, <2>2, <3>1, PathStep
      <3>3. Left(e) \in N /\ Right(e) \in N
        BY <1>0, <3>2 DEF NormalLaws
      <3>4. PICK f \in N : f = e[d]
        BY <3>3 DEF Left, Right
      <3>5. NormalAt(N, at, put, f, r)
        BY <1>1, <2>2, <3>1, <3>2, <3>4
      <3>6. at[<<e, p>>] \in N
        BY <1>0, <2>0, <2>2, <3>1, <3>4, <3>5 DEF ReadsOn, NormalAt
      <3>7. ASSUME NEW x \in N
            PROVE  put[<<e, p, x>>] \in N
        <4>1. PICK y \in N : y = put[<<f, r, x>>]
          BY <3>5 DEF NormalAt
        <4>2. x \in E /\ y \in E
          BY <2>0
        <4>3. put[<<e, p, x>>] = With(e, d, y)
          BY <1>0, <2>0, <2>2, <3>1, <3>2, <3>4, <4>1, <4>2 DEF PutsOn
        <4>. QED
          BY <1>0, <3>2, <3>3, <4>3 DEF NormalLaws, With
      <3>. QED
        BY <3>6, <3>7 DEF NormalAt
    <2>. QED
      BY <2>1, <2>2
  <1>2. Paths \subseteq P
    <2>1. \A p \in Paths : (p # <<>> => Tail(p) \in P) => p \in P
      BY <1>1
    <2> HIDE DEF P
    <2>. QED
      BY <2>1, PathInduction
  <1>. QED
    BY <1>2

(* What two operands are joined into.                                      *)
LEMMA NormalJoined ==
    ASSUME NEW E, NEW S, NEW size, Expressions(E, S, size), NEW ty, NEW N, NormalForms(E, N),
           NEW eq, NEW join, Joins(E, ty, join, eq), NEW type \in Junctions,
           NEW a \in N, NEW b \in N, NEW x, x = join[<<type, a, b>>], x # NULL
    PROVE  x \in N
  <1>1. NormalLaws(E, N)
    BY NormalIs
  <1>2. a \in E /\ b \in E
    BY <1>1 DEF NormalLaws
  <1>3. x = IF eq[<<a, b>>] THEN a ELSE IF type = "or" THEN OrRule(ty, a, b) ELSE AndRule(ty, a, b)
    BY <1>2 DEF Joins, JoinBody
  <1>4. ASSUME RuleWrites(E, S, size, x)
        PROVE  x \in N
    BY <1>1, <1>4 DEF NormalLaws, RuleWrites
  <1>5. CASE x = OrRule(ty, a, b)
    BY <1>2, <1>4, <1>5, OrRuleSmaller
  <1>6. CASE x = AndRule(ty, a, b)
    BY <1>2, <1>4, <1>6, AndRuleSmaller
  <1>. QED
    BY <1>3, <1>5, <1>6

LEMMA NormalWithoutYN ==
    ASSUME NEW E, NEW S, NEW size, Expressions(E, S, size), NEW elim, Eliminates(E, elim),
           NEW N, NormalForms(E, N)
    PROVE  \A e \in N : elim[e] \in N
  <1> DEFINE P == {e \in E : e \in N => elim[e] \in N}
  <1>0. NormalLaws(E, N)
    BY NormalIs
  <1>1. ASSUME NEW e \in E, \A x \in E : size[x] < size[e] => x \in P, e \in N
        PROVE  elim[e] \in N
    <2>1. CASE Tag(e) \notin Junctions
      BY <1>1, <2>1 DEF Eliminates, EliminateYNBody
    <2>2. CASE Tag(e) \in Junctions
      <3>1. PICK t \in Junctions, l \in N, r \in N : t = Tag(e) /\ l = Left(e) /\ r = Right(e)
        BY <1>0, <1>1, <2>2 DEF NormalLaws
      <3>2. l \in E /\ r \in E /\ size[l] < size[e] /\ size[r] < size[e]
        BY <2>2, <3>1, OperandsOf
      <3>3. PICK a \in N, b \in N : a = elim[l] /\ b = elim[r]
        BY <1>1, <3>2
      <3>4. elim[e] = WithoutYN(t, a, b)
        BY <2>2, <3>1, <3>3, ShapeIs DEF Eliminates, EliminateYNBody
      <3>5. elim[e] \in {Zero(t), a, b, <<t, a, b>>}
        BY <3>4 DEF WithoutYN
      <3>. QED
        BY <1>0, <3>5 DEF NormalLaws
    <2>. QED
      BY <2>1, <2>2
  <1>2. E \subseteq P
    <2>1. size \in [E -> Nat]
      BY DEF Expressions
    <2>2. \A e \in E : (\A x \in E : size[x] < size[e] => x \in P) => e \in P
      BY <1>1
    <2> HIDE DEF P
    <2>. QED
      BY <2>1, <2>2, SizeInduction
  <1>. QED
    BY <1>0, <1>2 DEF NormalLaws

(* The walks of d that leave a normal form one, when they are all known to *)
(* rewrite their trees.                                                    *)
AllRewritten(E, size, elim, val, at, within, rel, d) ==
    \A g \in Walks(E, within) : Rewritten(E, size, elim, val, at, within, g[1], rel, g[2], d[g])

Keeping(E, within, N, d) == {g \in Walks(E, within) : g[2].e \in N => d[g].e \in N}

LEMMA KeepingIs ==
    ASSUME NEW E, NEW size, NEW elim, NEW val, NEW at, NEW within, NEW rel, NEW d,
           AllRewritten(E, size, elim, val, at, within, rel, d), NEW N,
           NEW type \in Junctions, NEW w \in Trees(E), NEW p \in Paths, NEW q \in Paths,
           Tag(w.e) = type, <<w.e, p>> \in within[type], <<w.e, q>> \in within[type]
    PROVE  /\ <<type, w, p, q>> \in Walks(E, within)
           /\ Rewritten(E, size, elim, val, at, within, type, rel, w, d[<<type, w, p, q>>])
           /\ <<type, w, p, q>> \in Keeping(E, within, N, d) <=>
                 (w.e \in N => d[<<type, w, p, q>>].e \in N)
  <1>1. PICK g : g = <<type, w, p, q>>
    OBVIOUS
  <1>2. g \in Walks(E, within) /\ g[1] = type /\ g[2] = w
    BY <1>1 DEF Walks
  <1>3. Rewritten(E, size, elim, val, at, within, type, rel, w, d[g])
    BY <1>2 DEF AllRewritten
  <1>4. g \in Keeping(E, within, N, d) <=> (w.e \in N => d[g].e \in N)
    BY <1>2 DEF Keeping
  <1>. QED
    BY <1>1, <1>2, <1>3, <1>4

RewrittenNormal(E, size, elim, val, at, within, N, type, rel, w, u) ==
    Rewritten(E, size, elim, val, at, within, type, rel, w, u) /\ u.e \in N

LEMMA AllGood ==
    ASSUME NEW E, NEW size, NEW elim, NEW val, NEW at, NEW within, NEW rel, NEW d,
           AllRewritten(E, size, elim, val, at, within, rel, d), NEW type, NEW w, NEW p, NEW q
    PROVE  NextWalks(E, size, within, type, w, p, q) \subseteq
              Good(E, size, elim, val, at, within, rel, d)
  BY DEF AllRewritten, Good, NextWalks

LEMMA NormalThrough ==
    ASSUME NEW E, NEW S, NEW size, Expressions(E, S, size), NEW elim, Eliminates(E, elim), NEW val,
           NEW at, NEW put, Navigates(E, at, put), NEW within, Within(E, within),
           NEW rel \in {Same, SameButM}, NEW d, AllRewritten(E, size, elim, val, at, within, rel, d), NEW N,
           NEW type \in Junctions, NEW w \in Trees(E), w.e \in N,
           NEW p \in Paths, NEW q \in Paths, Tag(w.e) = type,
           <<w.e, p>> \in within[type], <<w.e, q>> \in within[type],
           NextWalks(E, size, within, type, w, p, q) \subseteq Keeping(E, within, N, d),
           NEW x, NEW y,
           \/ /\ Tag(at[<<w.e, p>>]) = type
              /\ x = d[<<type, w, Append(p, 2), q>>] /\ y = d[<<type, x, Append(p, 3), q>>]
           \/ /\ Tag(at[<<w.e, q>>]) = type
              /\ x = d[<<type, w, p, Append(q, 2)>>] /\ y = d[<<type, x, p, Append(q, 3)>>]
    PROVE  RewrittenNormal(E, size, elim, val, at, within, N, type, rel, w, y)
  <1>0. GoesOn(E, at, within, type)
    BY PathsGoOn
  <1>1. ASSUME NEW u \in Trees(E), u.e \in N, Tag(u.e) = type, size[u.e] <= size[w.e],
               LeadsAlike(at, within, type, w.e, u.e),
               NEW r \in Paths, NEW s \in Paths, NEW k \in {2, 3},
               \/ r = Append(p, k) /\ s = q /\ Tag(at[<<w.e, p>>]) = type
               \/ r = p /\ s = Append(q, k) /\ Tag(at[<<w.e, q>>]) = type
        PROVE  /\ Rewritten(E, size, elim, val, at, within, type, rel, u, d[<<type, u, r, s>>])
               /\ d[<<type, u, r, s>>].e \in N
    <2>1. u.e \in E
      BY DEF Trees
    <2>2. /\ <<u.e, p>> \in within[type] /\ <<u.e, q>> \in within[type]
          /\ Tag(at[<<u.e, p>>]) = type <=> Tag(at[<<w.e, p>>]) = type
          /\ Tag(at[<<u.e, q>>]) = type <=> Tag(at[<<w.e, q>>]) = type
      BY <1>1 DEF LeadsAlike
    <2>3. /\ Tag(at[<<u.e, p>>]) = type => <<u.e, Append(p, k)>> \in within[type]
          /\ Tag(at[<<u.e, q>>]) = type => <<u.e, Append(q, k)>> \in within[type]
      BY <1>0, <2>1, <2>2 DEF GoesOn
    <2>4. <<u.e, r>> \in within[type] /\ <<u.e, s>> \in within[type]
      BY <1>1, <2>2, <2>3
    <2>5. /\ <<type, u, r, s>> \in Walks(E, within)
          /\ Rewritten(E, size, elim, val, at, within, type, rel, u, d[<<type, u, r, s>>])
      BY <1>1, <2>4, KeepingIs
    <2>6. <<type, u, r, s>> \in NextWalks(E, size, within, type, w, p, q)
      BY <1>1, <2>5 DEF NextWalks
    <2>7. <<type, u, r, s>> \in Keeping(E, within, N, d)
      BY <2>6
    <2>8. d[<<type, u, r, s>>].e \in N
      BY <1>1, <2>4, <2>7, KeepingIs
    <2>. QED
      BY <2>5, <2>8
  <1>2. /\ Append(p, 2) \in Paths /\ Append(p, 3) \in Paths
        /\ Append(q, 2) \in Paths /\ Append(q, 3) \in Paths
    BY PathExtended
  <1>3. size[w.e] <= size[w.e] /\ LeadsAlike(at, within, type, w.e, w.e) /\ 2 \in {2, 3} /\ 3 \in {2, 3}
    <2>1. size[w.e] \in Nat
      BY ShapeIs DEF Trees
    <2>. QED
      BY <2>1 DEF LeadsAlike
  <1>4. Rewritten(E, size, elim, val, at, within, type, rel, w, x) /\ x.e \in N
    <2>1. CASE Tag(at[<<w.e, p>>]) = type /\ x = d[<<type, w, Append(p, 2), q>>]
      <3>1. /\ Rewritten(E, size, elim, val, at, within, type, rel, w, d[<<type, w, Append(p, 2), q>>])
            /\ d[<<type, w, Append(p, 2), q>>].e \in N
        BY <1>1, <1>2, <1>3, <2>1
      <3>. QED
        BY <2>1, <3>1
    <2>2. CASE Tag(at[<<w.e, q>>]) = type /\ x = d[<<type, w, p, Append(q, 2)>>]
      <3>1. /\ Rewritten(E, size, elim, val, at, within, type, rel, w, d[<<type, w, p, Append(q, 2)>>])
            /\ d[<<type, w, p, Append(q, 2)>>].e \in N
        BY <1>1, <1>2, <1>3, <2>2
      <3>. QED
        BY <2>2, <3>1
    <2>. QED
      BY <2>1, <2>2
  <1>5. x \in Trees(E) /\ Tag(x.e) = type /\ size[x.e] <= size[w.e] /\ LeadsAlike(at, within, type, w.e, x.e)
    BY <1>4 DEF Rewritten
  <1>6. y.e \in N
    BY <1>1, <1>2, <1>4, <1>5
  <1>7. NextWalks(E, size, within, type, w, p, q) \subseteq
           Good(E, size, elim, val, at, within, rel, d)
    BY AllGood
  <1>8. Rewritten(E, size, elim, val, at, within, type, rel, w, y)
    BY <1>7, WalkThrough
  <1>. QED
    BY <1>6, <1>8 DEF RewrittenNormal

LEMMA NormalNested ==
    ASSUME NEW E, NEW S, NEW size, Expressions(E, S, size), NEW elim, NEW val,
           NEW at, NEW put, Navigates(E, at, put), NEW within, Within(E, within),
           NEW rel, NEW d, AllRewritten(E, size, elim, val, at, within, rel, d),
           NEW N, NormalForms(E, N), NEW type \in Junctions, NEW w \in Trees(E), w.e \in N,
           NEW p \in Paths, NEW q \in Paths, Tag(w.e) = type, Ends(at, within, type, w.e, p),
           NextWalks(E, size, within, type, w, p, q) \subseteq Keeping(E, within, N, d),
           NEW a, a = at[<<w.e, p>>], Tag(a) \in Junctions, NEW u, u = PlacedAt(put, w, p, Nested(d, a))
    PROVE  u.e \in N
  <1>1. a \in N /\ a \in E /\ size[a] < size[w.e] /\ NormalAt(N, at, put, w.e, p)
    <2>1. w.e \in E
      BY DEF Trees
    <2>2. Leads(E, size, at, put, within, type, w.e, p) /\ AtTheEnd(E, at, put, within, type)
      BY <2>1, PathsLead, NothingToWalk DEF Ends
    <2>3. a \in E /\ size[w.e] >= size[a] + Len(p)
      BY <2>2 DEF Leads
    <2>4. p # <<>>
      BY <2>1, <2>2 DEF AtTheEnd, Ends
    <2>5. Len(p) \in Nat /\ Len(p) # 0
      BY <2>4, PathIs
    <2>6. size[a] \in Nat /\ size[w.e] \in Nat
      BY <2>1, <2>3, ShapeIs
    <2>7. NormalAt(N, at, put, w.e, p)
      BY NormalPlaces DEF Ends
    <2>. QED
      BY <2>3, <2>5, <2>6, <2>7 DEF NormalAt
  <1>2. PICK t \in Junctions, z \in Trees(E) : t = Tag(a) /\ z = [e |-> a, count |-> 0]
    <2>1. [e |-> a, count |-> 0] \in Trees(E)
      BY <1>1 DEF Trees
    <2>. QED
      BY <2>1
  <1>3. z.e = a
    BY <1>2
  <1>4. <<>> \in Paths /\ <<a, <<>>>> \in within[t]
    BY <1>1, PathEnd DEF Paths
  <1>5. <<t, z, <<>>, <<>>>> \in Walks(E, within)
    BY <1>2, <1>3, <1>4, KeepingIs
  <1>6. <<t, z, <<>>, <<>>>> \in Keeping(E, within, N, d)
    <2>1. <<t, z, <<>>, <<>>>> \in NextWalks(E, size, within, type, w, p, q)
      BY <1>1, <1>3, <1>5 DEF NextWalks
    <2>. QED
      BY <2>1
  <1>7. d[<<t, z, <<>>, <<>>>>].e \in N
    BY <1>1, <1>2, <1>3, <1>4, <1>6, KeepingIs
  <1>8. PICK x \in N : x = Nested(d, a).e
    BY <1>2, <1>7 DEF Nested
  <1>9. u.e = put[<<w.e, p, x>>]
    BY <1>8 DEF PlacedAt
  <1>. QED
    BY <1>1, <1>9 DEF NormalAt

LEMMA NormalPut ==
    ASSUME NEW E, NEW S, NEW size, Expressions(E, S, size), NEW N, NormalForms(E, N),
           NEW at, NEW put, Navigates(E, at, put), NEW within, Within(E, within), NEW type \in Junctions,
           NEW e \in N, NEW p \in Paths, <<e, p>> \in within[type]
    PROVE  at[<<e, p>>] \in N /\ \A x \in N : put[<<e, p, x>>] \in N
  <1>1. NormalAt(N, at, put, e, p)
    BY NormalPlaces
  <1>. QED
    BY <1>1 DEF NormalAt

LEMMA NormalJoinedAt ==
    ASSUME NEW E, NEW S, NEW size, Expressions(E, S, size), NEW N, NormalForms(E, N),
           NEW at, NEW put, Navigates(E, at, put), NEW within, Within(E, within), NEW type \in Junctions,
           NEW u \in Trees(E), u.e \in N, NEW p \in Paths, NEW q \in Paths,
           Tag(u.e) = type, Ends(at, within, type, u.e, p), <<u.e, q>> \in within[type],
           NEW x, x # NULL => x \in N
    PROVE  JoinedAt(put, type, u, p, q, x).e \in N
  <1>1. CASE x = NULL
    BY <1>1 DEF JoinedAt
  <1>2. CASE x # NULL
    <2>1. Unit(type) \in N /\ Unit(type) \in E /\ Tag(Unit(type)) # type
      <3>1. Unit(type) \in {Yes, No} /\ Tag(Yes) = "sym" /\ Tag(No) = "sym"
        BY DEF Unit, Yes, No, Sym, Tag
      <3>2. NormalLaws(E, N)
        BY NormalIs
      <3>. QED
        BY <3>1, <3>2 DEF NormalLaws, Junctions
    <2>2. PICK f : f = put[<<u.e, p, Unit(type)>>]
      OBVIOUS
    <2>3. f \in N
      <3>1. <<u.e, p>> \in within[type]
        BY DEF Ends
      <3>2. \A y \in N : put[<<u.e, p, y>>] \in N
        BY <3>1, NormalPut
      <3>. QED
        BY <2>1, <2>2, <3>2
    <2>4. <<f, q>> \in within[type]
      <3>1. u.e \in E
        BY DEF Trees
      <3>2. Keeps(E, at, put, within, type, u.e, p, q, Unit(type))
        BY <2>1, <3>1, PutKeeps
      <3>. QED
        BY <2>2, <3>2 DEF Keeps
    <2>5. put[<<f, q, x>>] \in N
      <3>1. \A y \in N : put[<<f, q, y>>] \in N
        BY <2>3, <2>4, NormalPut
      <3>. QED
        BY <1>2, <3>1
    <2>6. JoinedAt(put, type, u, p, q, x) = [e |-> put[<<f, q, x>>], count |-> u.count + 1]
      BY <1>2, <2>2 DEF JoinedAt
    <2>. QED
      BY <2>5, <2>6
  <1>. QED
    BY <1>1, <1>2

LEMMA Dups1StepNormal ==
    ASSUME NEW E, NEW S, NEW size, Expressions(E, S, size), NEW v, NEW val, Calculates(E, v, val),
           NEW ty, Valuation(S, ty, v), NEW elim, Eliminates(E, elim),
           NEW eq, NEW join, Joins(E, ty, join, eq), NEW N, NormalForms(E, N),
           NEW at, NEW put, Navigates(E, at, put), NEW within, Within(E, within),
           NEW d1, Dups1(E, within, at, put, join, d1),
           AllRewritten(E, size, elim, val, at, within, Same, d1),
           NEW type \in Junctions, NEW w \in Trees(E), NEW p \in Paths, NEW q \in Paths,
           Tag(w.e) = type, <<w.e, p>> \in within[type], <<w.e, q>> \in within[type], w.e \in N,
           NextWalks(E, size, within, type, w, p, q) \subseteq Keeping(E, within, N, d1)
    PROVE  d1[<<type, w, p, q>>].e \in N
  <1>1. PICK a, b : a = at[<<w.e, p>>] /\ b = at[<<w.e, q>>]
    OBVIOUS
  <1>2. PICK u : u = IF Tag(a) \in Junctions THEN PlacedAt(put, w, p, Nested(d1, a)) ELSE w
    OBVIOUS
  <1>3. d1[<<type, w, p, q>>] =
           IF Tag(a) = type
           THEN d1[<<type, d1[<<type, w, Append(p, 2), q>>], Append(p, 3), q>>]
           ELSE IF Tag(b) = type
           THEN d1[<<type, d1[<<type, w, p, Append(q, 2)>>], p, Append(q, 3)>>]
           ELSE IF p = q THEN w
           ELSE JoinedAt(put, type, u, p, q, join[<<type, at[<<u.e, p>>], at[<<u.e, q>>]>>])
    <2>1. Dups1At(at, put, join, d1, type, w, p, q)
      BY Dups1Unfolds
    <2>. QED
      BY <1>1, <1>2, <2>1, Zenon DEF Dups1At
  <1>10. PICK rel \in {Same, SameButM} : rel = Same
    OBVIOUS
  <1>0. AllRewritten(E, size, elim, val, at, within, rel, d1)
    BY <1>10
  <1>4. CASE Tag(a) = type
    <2>1. PICK x, y : /\ x = d1[<<type, w, Append(p, 2), q>>]
                      /\ y = d1[<<type, x, Append(p, 3), q>>] /\ y = d1[<<type, w, p, q>>]
      BY <1>3, <1>4
    <2>2. RewrittenNormal(E, size, elim, val, at, within, N, type, rel, w, y)
      BY <1>0, <1>1, <1>4, <2>1, NormalThrough
    <2>. QED
      BY <2>1, <2>2 DEF RewrittenNormal
  <1>5. CASE Tag(a) # type /\ Tag(b) = type
    <2>1. PICK x, y : /\ x = d1[<<type, w, p, Append(q, 2)>>]
                      /\ y = d1[<<type, x, p, Append(q, 3)>>] /\ y = d1[<<type, w, p, q>>]
      BY <1>3, <1>5
    <2>2. RewrittenNormal(E, size, elim, val, at, within, N, type, rel, w, y)
      BY <1>0, <1>1, <1>5, <2>1, NormalThrough
    <2>. QED
      BY <2>1, <2>2 DEF RewrittenNormal
  <1>6. CASE Tag(a) # type /\ Tag(b) # type /\ p = q
    BY <1>3, <1>6
  <1>7. CASE Tag(a) # type /\ Tag(b) # type /\ p # q
    <2>1. Ends(at, within, type, w.e, p) /\ Ends(at, within, type, w.e, q)
      BY <1>1, <1>7 DEF Ends
    <2>3. /\ Rewritten(E, size, elim, val, at, within, type, rel, w, u)
          /\ Ends(at, within, type, u.e, p)
          /\ u.e \in N
      <3>1. CASE Tag(a) \in Junctions
        <4>1. a = at[<<w.e, p>>] /\ u = PlacedAt(put, w, p, Nested(d1, a))
          BY <1>1, <1>2, <3>1
        <4>3. NextWalks(E, size, within, type, w, p, q) \subseteq
                 Good(E, size, elim, val, at, within, rel, d1)
          BY <1>0, AllGood
        <4>4. RewrittenIn(E, size, elim, val, at, within, type, rel, w, p, Tag(a), u)
          BY <2>1, <3>1, <4>1, <4>3, NestedRewrites
        <4>5. u.e \in N
          BY <2>1, <3>1, <4>1, <1>0, NormalNested
        <4>. QED
          BY <4>4, <4>5 DEF RewrittenIn
      <3>2. CASE Tag(a) \notin Junctions
        BY <1>2, <2>1, <3>2, NotRewritten
      <3>. QED
        BY <3>1, <3>2
    <2>4. u \in Trees(E) /\ u.e \in E /\ Tag(u.e) = type /\ Ends(at, within, type, u.e, q)
      BY <2>1, <2>3 DEF Rewritten, LeadsAlike, Ends, Trees
    <2>5. PICK c \in N, d \in N : c = at[<<u.e, p>>] /\ d = at[<<u.e, q>>]
      <3>1. <<u.e, p>> \in within[type] /\ <<u.e, q>> \in within[type]
        BY <2>3, <2>4 DEF Ends
      <3>2. at[<<u.e, p>>] \in N
        BY <2>3, <3>1, NormalPut
      <3>3. at[<<u.e, q>>] \in N
        BY <2>3, <3>1, NormalPut
      <3>. QED
        BY <3>2, <3>3
    <2>6. PICK x : x = join[<<type, c, d>>]
      OBVIOUS
    <2>7. x # NULL => x \in N
      BY <2>6, NormalJoined
    <2>8. d1[<<type, w, p, q>>] = JoinedAt(put, type, u, p, q, x)
      BY <1>3, <1>7, <2>5, <2>6
    <2>9. <<u.e, q>> \in within[type]
      BY <2>4 DEF Ends
    <2>10. JoinedAt(put, type, u, p, q, x).e \in N
      BY <2>3, <2>4, <2>7, <2>9, NormalJoinedAt
    <2>. QED
      BY <2>8, <2>10
  <1>. QED
    BY <1>4, <1>5, <1>6, <1>7

LEMMA AllKeep ==
    ASSUME NEW E, NEW S, NEW size, Expressions(E, S, size), NEW at, NEW put, Navigates(E, at, put),
           NEW within, Within(E, within), NEW N, NEW d,
           \A type \in Junctions, w \in Trees(E), p \in Paths, q \in Paths :
              (/\ Tag(w.e) = type /\ <<w.e, p>> \in within[type] /\ <<w.e, q>> \in within[type]
               /\ w.e \in N
               /\ NextWalks(E, size, within, type, w, p, q) \subseteq Keeping(E, within, N, d))
              => d[<<type, w, p, q>>].e \in N
    PROVE  Walks(E, within) \subseteq Keeping(E, within, N, d)
  <1>1. ASSUME NEW type \in Junctions, NEW w \in Trees(E), NEW p \in Paths, NEW q \in Paths,
               <<type, w, p, q>> \in Walks(E, within),
               NextWalks(E, size, within, type, w, p, q) \subseteq Keeping(E, within, N, d)
        PROVE  <<type, w, p, q>> \in Keeping(E, within, N, d)
    <2>1. Tag(w.e) = type /\ <<w.e, p>> \in within[type] /\ <<w.e, q>> \in within[type]
      BY <1>1 DEF Walks
    <2>2. w.e \in N => d[<<type, w, p, q>>].e \in N
      BY <1>1, <2>1
    <2>3. PICK g : g = <<type, w, p, q>>
      OBVIOUS
    <2>4. g \in Walks(E, within) /\ g[2] = w
      BY <1>1, <2>3
    <2>5. g[2].e \in N => d[g].e \in N
      BY <2>2, <2>3, <2>4
    <2>6. g \in Keeping(E, within, N, d)
      BY <2>4, <2>5 DEF Keeping
    <2>. QED
      BY <2>3, <2>6
  <1>. QED
    BY <1>1, WalkInduction

LEMMA Dups1Keeps ==
    ASSUME NEW E, NEW S, NEW size, Expressions(E, S, size), NEW v, NEW val, Calculates(E, v, val),
           NEW ty, Valuation(S, ty, v), NEW elim, Eliminates(E, elim),
           NEW eq, NEW join, Joins(E, ty, join, eq), NEW N, NormalForms(E, N),
           NEW at, NEW put, Navigates(E, at, put), NEW within, Within(E, within),
           NEW d1, Dups1(E, within, at, put, join, d1),
           AllRewritten(E, size, elim, val, at, within, Same, d1)
    PROVE  Walks(E, within) \subseteq Keeping(E, within, N, d1)
  <1>1. ASSUME NEW type \in Junctions, NEW w \in Trees(E), NEW p \in Paths, NEW q \in Paths,
               Tag(w.e) = type, <<w.e, p>> \in within[type], <<w.e, q>> \in within[type], w.e \in N,
               NextWalks(E, size, within, type, w, p, q) \subseteq Keeping(E, within, N, d1)
        PROVE  d1[<<type, w, p, q>>].e \in N
    BY <1>1, Dups1StepNormal
  <1>. QED
    BY <1>1, AllKeep

LEMMA Dups2StepNormal ==
    ASSUME NEW E, NEW S, NEW size, Expressions(E, S, size), NEW v, NEW val, Calculates(E, v, val),
           NEW ty, Valuation(S, ty, v), NEW elim, Eliminates(E, elim), NEW N, NormalForms(E, N),
           NEW at, NEW put, Navigates(E, at, put), NEW within, Within(E, within),
           NEW absorb, NEW d2, Dups2(E, within, at, put, absorb, d2),
           NEW rel \in {Same, SameButM}, AllRewritten(E, size, elim, val, at, within, rel, d2),
           NEW type \in Junctions, NEW w \in Trees(E), NEW p \in Paths, NEW q \in Paths,
           Tag(w.e) = type, <<w.e, p>> \in within[type], <<w.e, q>> \in within[type], w.e \in N,
           NextWalks(E, size, within, type, w, p, q) \subseteq Keeping(E, within, N, d2)
    PROVE  d2[<<type, w, p, q>>].e \in N
  <1>2. PICK x : x = IF Tag(at[<<w.e, q>>]) = type
                     THEN d2[<<type, d2[<<type, w, p, Append(q, 2)>>], p, Append(q, 3)>>] ELSE w
    OBVIOUS
  <1>3. PICK a : a = at[<<x.e, p>>]
    OBVIOUS
  <1>4. PICK u : u = PlacedAt(put, x, p, Nested(d2, a))
    OBVIOUS
  <1>5. d2[<<type, w, p, q>>] =
           IF Tag(at[<<w.e, p>>]) = type
           THEN d2[<<type, d2[<<type, w, Append(p, 2), q>>], Append(p, 3), q>>]
           ELSE IF p = q \/ Tag(a) \notin Junctions THEN x
           ELSE AbsorbedAt(put, Tag(a), u, p, absorb[<<Tag(a), at[<<u.e, p>>], at[<<u.e, q>>]>>])
    <2>1. Dups2At(at, put, absorb, d2, type, w, p, q)
      BY Dups2Unfolds
    <2>. QED
      BY <1>2, <1>3, <1>4, <2>1, Zenon DEF Dups2At
  <1>6. CASE Tag(at[<<w.e, p>>]) = type
    <2>1. PICK y, z : /\ y = d2[<<type, w, Append(p, 2), q>>]
                      /\ z = d2[<<type, y, Append(p, 3), q>>] /\ z = d2[<<type, w, p, q>>]
      BY <1>5, <1>6
    <2>2. RewrittenNormal(E, size, elim, val, at, within, N, type, rel, w, z)
      BY <1>6, <2>1, NormalThrough
    <2>. QED
      BY <2>1, <2>2 DEF RewrittenNormal
  <1>7. CASE Tag(at[<<w.e, p>>]) # type
    <2>1. Rewritten(E, size, elim, val, at, within, type, rel, w, x) /\ x.e \in N
      <3>1. CASE Tag(at[<<w.e, q>>]) = type
        <4>1. PICK y : /\ y = d2[<<type, w, p, Append(q, 2)>>]
                       /\ x = d2[<<type, y, p, Append(q, 3)>>]
          BY <1>2, <3>1
        <4>2. RewrittenNormal(E, size, elim, val, at, within, N, type, rel, w, x)
          BY <3>1, <4>1, NormalThrough
        <4>. QED
          BY <4>2 DEF RewrittenNormal
      <3>2. CASE Tag(at[<<w.e, q>>]) # type
        BY <1>2, <3>2, NotRewritten
      <3>. QED
        BY <3>1, <3>2
    <2>2. /\ x \in Trees(E) /\ x.e \in E /\ Tag(x.e) = type /\ size[x.e] <= size[w.e]
          /\ Ends(at, within, type, x.e, p) /\ <<x.e, q>> \in within[type]
      BY <1>7, <2>1 DEF Rewritten, LeadsAlike, Ends, Trees
    <2>3. CASE p = q \/ Tag(a) \notin Junctions
      BY <1>5, <1>7, <2>1, <2>3
    <2>4. CASE p # q /\ Tag(a) \in Junctions
      <3>1. /\ NextWalks(E, size, within, type, x, p, q) \subseteq Keeping(E, within, N, d2)
            /\ NextWalks(E, size, within, type, x, p, q) \subseteq
                  Good(E, size, elim, val, at, within, rel, d2)
        <4>1. NextWalks(E, size, within, type, x, p, q) \subseteq NextWalks(E, size, within, type, w, p, q)
          BY <2>2, NextWalksShrink
        <4>2. NextWalks(E, size, within, type, x, p, q) \subseteq
                 Good(E, size, elim, val, at, within, rel, d2)
          BY AllGood
        <4>. QED
          BY <4>1, <4>2
      <3>2. PICK t \in Junctions : t = Tag(a)
        BY <2>4
      <3>3. RewrittenIn(E, size, elim, val, at, within, type, rel, x, p, Tag(a), u)
        BY <1>3, <1>4, <2>2, <2>4, <3>1, NestedRewrites
      <3>4. u.e \in N
        BY <1>3, <1>4, <2>1, <2>2, <2>4, <3>1, NormalNested
      <3>5. <<u.e, p>> \in within[type]
        BY <3>3 DEF RewrittenIn, Ends
      <3>6. PICK c : c = absorb[<<t, at[<<u.e, p>>], at[<<u.e, q>>]>>]
        OBVIOUS
      <3>7. d2[<<type, w, p, q>>] = AbsorbedAt(put, t, u, p, c)
        BY <1>5, <1>7, <2>4, <3>2, <3>6
      <3>8. put[<<u.e, p, Unit(t)>>] \in N
        <4>1. \A y \in N : put[<<u.e, p, y>>] \in N
          BY <3>4, <3>5, NormalPut
        <4>2. Unit(t) \in N
          BY NormalIs DEF NormalLaws
        <4>. QED
          BY <4>1, <4>2
      <3>. QED
        BY <3>4, <3>7, <3>8 DEF AbsorbedAt
    <2>. QED
      BY <2>3, <2>4
  <1>. QED
    BY <1>6, <1>7

LEMMA Dups2Keeps ==
    ASSUME NEW E, NEW S, NEW size, Expressions(E, S, size), NEW v, NEW val, Calculates(E, v, val),
           NEW ty, Valuation(S, ty, v), NEW elim, Eliminates(E, elim), NEW N, NormalForms(E, N),
           NEW at, NEW put, Navigates(E, at, put), NEW within, Within(E, within),
           NEW absorb, NEW d2, Dups2(E, within, at, put, absorb, d2),
           AllRewritten(E, size, elim, val, at, within, SameButM, d2)
    PROVE  Walks(E, within) \subseteq Keeping(E, within, N, d2)
  <1>1. PICK rel \in {Same, SameButM} : rel = SameButM
    OBVIOUS
  <1>2. AllRewritten(E, size, elim, val, at, within, rel, d2)
    BY <1>1
  <1>3. ASSUME NEW type \in Junctions, NEW w \in Trees(E), NEW p \in Paths, NEW q \in Paths,
               Tag(w.e) = type, <<w.e, p>> \in within[type], <<w.e, q>> \in within[type], w.e \in N,
               NextWalks(E, size, within, type, w, p, q) \subseteq Keeping(E, within, N, d2)
        PROVE  d2[<<type, w, p, q>>].e \in N
    BY <1>2, <1>3, Dups2StepNormal
  <1>. QED
    BY <1>3, AllKeep

LEMMA NestedNormal ==
    ASSUME NEW E, NEW size, NEW elim, NEW val, NEW at, NEW put, Navigates(E, at, put),
           NEW within, Within(E, within), NEW rel, NEW d,
           AllRewritten(E, size, elim, val, at, within, rel, d),
           NEW N, Walks(E, within) \subseteq Keeping(E, within, N, d),
           NEW e \in E, Tag(e) \in Junctions, e \in N
    PROVE  Nested(d, e).e \in N
  <1>1. PICK type \in Junctions, w \in Trees(E) : type = Tag(e) /\ w = [e |-> e, count |-> 0]
    BY DEF Trees
  <1>2. w.e = e
    BY <1>1
  <1>3. <<>> \in Paths /\ <<e, <<>>>> \in within[type]
    BY PathEnd DEF Paths
  <1>4. PICK g : g = <<type, w, <<>>, <<>>>>
    OBVIOUS
  <1>5. g \in Walks(E, within) /\ g[2] = w
    BY <1>1, <1>2, <1>3, <1>4 DEF Walks
  <1>6. d[g].e \in N
    BY <1>2, <1>5 DEF Keeping
  <1>. QED
    BY <1>1, <1>4, <1>6 DEF Nested

(* The loop of expr_eliminate_dups leaves a normal form one.               *)
LEMMA DupsKeepNormal ==
    ASSUME NEW E, NEW S, NEW size, Expressions(E, S, size), NEW v, NEW val, Calculates(E, v, val),
           NEW ty, Valuation(S, ty, v), NEW elim, Eliminates(E, elim),
           NEW in, NEW eq, Equates(E, elim, in, eq),
           \A type \in Junctions : EliminatesEq(E, type, in, eq),
           NEW N, NormalForms(E, N), NEW trans, Transforms(ty, E, trans),
           NEW ex, \A type \in Junctions : Extracts(E, type, ex, eq),
           NEW join, Joins(E, ty, join, eq), NEW absorb, AbsorbsAll(E, trans, ex, elim, absorb),
           NEW at, NEW put, Navigates(E, at, put), NEW within, Within(E, within),
           NEW d1, Dups1(E, within, at, put, join, d1),
           NEW d2, Dups2(E, within, at, put, absorb, d2),
           NEW turn, Turns(E, d1, d2, turn), NEW dups, Loops(E, elim, turn, dups)
    PROVE  \A e \in N : dups[e] \in N
  <1> DEFINE P == {e \in E : e \in N => dups[e] \in N}
  <1>1. AllRewritten(E, size, elim, val, at, within, Same, d1)
    <2>1. \A g \in Walks(E, within) :
             Rewritten(E, size, elim, val, at, within, g[1], Same, g[2], d1[g])
      BY Dups1Means
    <2>. QED
      BY <2>1 DEF AllRewritten
  <1>2. AllRewritten(E, size, elim, val, at, within, SameButM, d2)
    <2>1. \A g \in Walks(E, within) :
             Rewritten(E, size, elim, val, at, within, g[1], SameButM, g[2], d2[g])
      BY Dups2Means
    <2>. QED
      BY <2>1 DEF AllRewritten
  <1>3. Walks(E, within) \subseteq Keeping(E, within, N, d1)
    BY <1>1, Dups1Keeps
  <1>4. Walks(E, within) \subseteq Keeping(E, within, N, d2)
    BY <1>2, Dups2Keeps
  <1>5. ASSUME NEW e \in E, e \in N
        PROVE  Turned(E, size, elim, val, SameButM, e, turn[e]) /\ turn[e].e \in N
    <2>1. Turned(E, size, elim, val, SameButM, e, turn[e])
      BY <1>1, <1>2, TurnMeans DEF AllRewritten
    <2>2. TurnAt(d1, d2, turn, e)
      BY ShapeIs, TurnUnfolds
    <2>3. CASE Tag(e) \notin Junctions
      BY <1>5, <2>1, <2>2, <2>3 DEF TurnAt
    <2>4. CASE Tag(e) \in Junctions
      <3>1. PICK x : x = Nested(d1, e)
        OBVIOUS
      <3>2. Turned(E, size, elim, val, Same, e, x) /\ Tag(x.e) = Tag(e)
        BY <1>1, <2>4, <3>1, WalkOfAll DEF AllRewritten
      <3>3. x.e \in N
        BY <1>1, <1>3, <1>5, <2>4, <3>1, NestedNormal
      <3>4. PICK f \in E : f = x.e
        BY <3>2 DEF Turned
      <3>5. PICK y : y = Nested(d2, f)
        OBVIOUS
      <3>6. y.e \in N
        BY <1>2, <1>4, <2>4, <3>2, <3>3, <3>4, <3>5, NestedNormal
      <3>7. turn[e] = [e |-> y.e, count |-> x.count + y.count]
        BY <2>2, <2>4, <3>1, <3>4, <3>5 DEF TurnAt
      <3>. QED
        BY <2>1, <3>6, <3>7
    <2>. QED
      BY <2>3, <2>4
  <1>6. ASSUME NEW e \in E, \A x \in E : size[x] < size[e] => x \in P, e \in N
        PROVE  dups[e] \in N
    <2>1. PICK i : i = turn[e]
      OBVIOUS
    <2>2. /\ i.e \in E /\ i.e \in N /\ i.count \in Nat
          /\ i.count > 0 => size[elim[i.e]] < size[e]
      BY <1>5, <1>6, <2>1 DEF Turned
    <2>3. dups[e] = IF i.count = 0 THEN i.e ELSE dups[elim[i.e]]
      BY <2>1 DEF Loops
    <2>4. CASE i.count = 0
      BY <2>2, <2>3, <2>4
    <2>5. CASE i.count > 0
      <3>1. elim[i.e] \in N /\ N \subseteq E
        <4>1. \A x \in N : elim[x] \in N
          BY NormalWithoutYN
        <4>. QED
          BY <2>2, <4>1 DEF NormalForms
      <3>2. PICK f \in N : f = elim[i.e] /\ f \in E /\ size[f] < size[e]
        BY <2>2, <2>5, <3>1
      <3>3. dups[f] \in N
        BY <1>6, <3>2
      <3>. QED
        BY <2>2, <2>3, <2>5, <3>2, <3>3
    <2>. QED
      BY <2>2, <2>4, <2>5
  <1>7. E \subseteq P
    <2>1. size \in [E -> Nat]
      BY DEF Expressions
    <2>2. \A e \in E : (\A x \in E : size[x] < size[e] => x \in P) => e \in P
      BY <1>6
    <2> HIDE DEF P
    <2>. QED
      BY <2>1, <2>2, SizeInduction
  <1>. QED
    BY <1>7 DEF NormalForms

LEMMA NormalTransBool ==
    ASSUME NEW E, NEW S, NEW size, Expressions(E, S, size), NEW v, NEW val, Calculates(E, v, val),
           NEW ty, Valuation(S, ty, v), NEW N, NormalForms(E, N),
           NEW bool, TransBools(ty, E, bool)
    PROVE  \A e \in N : bool[e] \in N
  <1> DEFINE P == {e \in E : e \in N => bool[e] \in N}
  <1>0. NormalLaws(E, N)
    BY NormalIs
  <1>1. ASSUME NEW e \in E, \A x \in E : size[x] < size[e] => x \in P, e \in N
        PROVE  bool[e] \in N
    <2>0. e # NULL /\ bool[e] \in E
      BY <1>1, ShapeIs, TransBoolMeans
    <2>1. CASE Tag(e) \in Comparisons \cup {"sym"}
      <3>1. bool[e] \in {e, Sym(Left(e))}
        BY <2>0, <2>1 DEF TransBools, TransBoolBody, Comparisons, Junctions
      <3>2. Tag(Sym(Left(e))) = "sym"
        BY DEF Sym, Tag
      <3>. QED
        BY <1>0, <1>1, <2>0, <3>1, <3>2 DEF NormalLaws
    <2>2. CASE Tag(e) = "not" /\ Tag(Left(e)) = "sym"
      <3>1. IsNegation(E, e)
        BY <2>2, ShapeIs DEF IsSymbol, IsComparison, IsJunction, Comparisons, Junctions
      <3>2. PICK d \in E : d = Left(e)
        BY <3>1 DEF IsNegation
      <3>3. bool[d] = d
        BY <2>2, <3>2, ShapeIs DEF TransBools, TransBoolBody, Comparisons, Junctions
      <3>4. bool[e] = <<"not", bool[d]>>
        BY <2>0, <3>1, <3>2 DEF TransBools, TransBoolBody, IsNegation, Junctions
      <3>5. bool[e] = e
        BY <3>1, <3>2, <3>3, <3>4 DEF IsNegation
      <3>. QED
        BY <1>1, <3>5
    <2>3. CASE Tag(e) \in Junctions
      <3>1. PICK t \in Junctions, l \in N, r \in N : t = Tag(e) /\ l = Left(e) /\ r = Right(e)
        BY <1>0, <1>1, <2>3 DEF NormalLaws
      <3>2. l \in E /\ r \in E /\ size[l] < size[e] /\ size[r] < size[e]
        BY <2>3, <3>1, OperandsOf
      <3>3. PICK x \in N, y \in N : x = bool[l] /\ y = bool[r]
        BY <1>1, <3>2
      <3>4. bool[e] = <<t, x, y>>
        BY <2>0, <3>1, <3>3 DEF TransBools, TransBoolBody, Junctions
      <3>. QED
        BY <1>0, <3>4 DEF NormalLaws
    <2>. QED
      BY <1>1, <2>1, <2>2, <2>3 DEF NormalForms
  <1>2. E \subseteq P
    <2>1. size \in [E -> Nat]
      BY DEF Expressions
    <2>2. \A e \in E : (\A x \in E : size[x] < size[e] => x \in P) => e \in P
      BY <1>1
    <2> HIDE DEF P
    <2>. QED
      BY <2>1, <2>2, SizeInduction
  <1>. QED
    BY <1>2 DEF NormalForms

(* What menu_finalize makes of a dependency e and what it stands below, b, *)
(* which is NULL or in negation normal form (menu.c:295, 306).  The two    *)
(* joined and simplified are y, or n, wherever they were so in the source. *)
(* Of a symbol that is not tristate the visibility is n exactly where the  *)
(* simplified dependency is (menu.c:309).  And both results are in normal  *)
(* form, as what the entries below are joined to has to be.                *)
THEOREM VisibilityKept ==
    ASSUME NEW E, NEW S, NEW size, Expressions(E, S, size), NEW v, NEW val, Calculates(E, v, val),
           NEW ty, Valuation(S, ty, v), NEW elim, Eliminates(E, elim),
           NEW in, NEW eq, Equates(E, elim, in, eq),
           \A type \in Junctions : EliminatesEq(E, type, in, eq),
           NEW N, NormalForms(E, N), NEW trans, Transforms(ty, E, trans),
           NEW ex, \A type \in Junctions : Extracts(E, type, ex, eq),
           NEW join, Joins(E, ty, join, eq), NEW absorb, AbsorbsAll(E, trans, ex, elim, absorb),
           NEW at, NEW put, Navigates(E, at, put), NEW within, Within(E, within),
           NEW d1, Dups1(E, within, at, put, join, d1),
           NEW d2, Dups2(E, within, at, put, absorb, d2),
           NEW turn, Turns(E, d1, d2, turn), NEW dups, Loops(E, elim, turn, dups),
           NEW bool, TransBools(ty, E, bool)
    PROVE  \A b \in N \cup {NULL}, e \in E :
              LET was == IF b = NULL THEN val[e] ELSE EXPR_AND(val[b], val[e])
                  dep == dups[expr_alloc_and(b, trans[e])]
              IN /\ was # 1 => val[dep] = was
                 /\ val[bool[dep]] = 0 <=> val[dep] = 0
                 /\ dep \in N /\ bool[dep] \in N
  <1>1. ASSUME NEW x \in N
        PROVE  /\ dups[x] \in N /\ bool[dups[x]] \in N
               /\ val[bool[dups[x]]] = 0 <=> val[dups[x]] = 0
               /\ val[x] # 1 => val[dups[x]] = val[x]
    <2>1. x \in E /\ dups[x] \in N
      <3>1. \A y \in N : dups[y] \in N
        BY DupsKeepNormal
      <3>. QED
        BY <3>1 DEF NormalForms
    <2>2. bool[dups[x]] \in N
      <3>1. \A y \in N : bool[y] \in N
        BY NormalTransBool
      <3>. QED
        BY <2>1, <3>1
    <2>3. val[bool[dups[x]]] = 0 <=> val[dups[x]] = 0
      <3>1. \A y \in N : bool[y] \in E /\ (val[bool[y]] = 0 <=> val[y] = 0)
        BY TransBoolMeans
      <3>. QED
        BY <2>1, <3>1
    <2>4. <<val[x], val[dups[x]]>> \in SameButM
      <3>1. \A y \in E : <<val[y], val[dups[y]]>> \in SameButM
        <4>1. \A y \in E : /\ dups[y] \in E /\ size[dups[y]] <= size[y]
                           /\ <<val[y], val[dups[y]]>> \in SameButM
                           /\ turn[dups[y]] = [e |-> dups[y], count |-> 0]
          BY DupsMeans
        <4>. QED
          BY <4>1
      <3>. QED
        BY <2>1, <3>1
    <2>. QED
      BY <2>1, <2>2, <2>3, <2>4 DEF SameButM, Same
  <1>2. ASSUME NEW b \in N \cup {NULL}, NEW e \in E
        PROVE  /\ expr_alloc_and(b, trans[e]) \in N
               /\ val[expr_alloc_and(b, trans[e])] = IF b = NULL THEN val[e] ELSE EXPR_AND(val[b], val[e])
    <2>1. N \subseteq E /\ NormalLaws(E, N) /\ "and" \in Junctions
      BY NormalIs DEF NormalForms, Junctions
    <2>2. PICK f \in N : f = trans[e] /\ val[f] = val[e]
      BY TransformMeans
    <2>3. f # NULL
      BY <2>1, ShapeIs
    <2>4. CASE b = NULL
      BY <2>2, <2>4 DEF expr_alloc_and
    <2>5. CASE b # NULL
      <3>1. expr_alloc_and(b, trans[e]) = <<"and", b, f>>
        BY <2>2, <2>3, <2>5 DEF expr_alloc_and
      <3>2. <<"and", b, f>> \in N
        BY <2>1, <2>5 DEF NormalLaws
      <3>3. val[<<"and", b, f>>] = JunctionOf("and", val[b], val[f])
        BY <2>1, <2>5, Calculated
      <3>. QED
        BY <2>2, <2>5, <3>1, <3>2, <3>3 DEF JunctionOf
    <2>. QED
      BY <2>4, <2>5
  <1>3. ASSUME NEW b \in N \cup {NULL}, NEW e \in E
        PROVE  LET was == IF b = NULL THEN val[e] ELSE EXPR_AND(val[b], val[e])
                   dep == dups[expr_alloc_and(b, trans[e])]
               IN /\ was # 1 => val[dep] = was
                  /\ val[bool[dep]] = 0 <=> val[dep] = 0
                  /\ dep \in N /\ bool[dep] \in N
    <2>1. PICK x \in N : /\ x = expr_alloc_and(b, trans[e])
                         /\ val[x] = IF b = NULL THEN val[e] ELSE EXPR_AND(val[b], val[e])
      BY <1>2
    <2>. QED
      BY <1>1, <2>1
  <1>. QED
    BY <1>3
===============================================================================
