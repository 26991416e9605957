------------------------------- MODULE Menus -------------------------------
(***************************************************************************)
(* The menu tree of kconfig: what the grammar (package/config/zconf.y) makes *)
(* of a Kconfig text with the functions of menu.c, menu_finalize, and the    *)
(* check for recursive dependencies (symbol.c).                              *)
(*                                                                           *)
(* A text is a sequence of statements (see Config to Comment below).  K, the *)
(* configuration it makes, is a record of                                    *)
(*   sym    per symbol: type, flags, props (indices of prop, in order), the   *)
(*          values of a choice, dir and rev (dir_dep, rev_dep)               *)
(*   prop   the properties: type, sym, entry, text (has one), vis, expr, sel  *)
(*   entry  the menu entries, 1 the root: sym ("" if none), prompt (an index  *)
(*          of prop or 0), dep, visibility, list (its entries), parent       *)
(*   current, menu   current_entry and current_menu                          *)
(* A linked list is the sequence of its elements; menu_finalize, which moves  *)
(* the entries after `p' below it, takes them as `rest' and returns those     *)
(* that are left.                                                            *)
(***************************************************************************)
EXTENDS Expr, SequencesExt

ModulesSym == "modules_sym"
NoEntry == 0

Config(s, opts) == [kind |-> "config", sym |-> s, opts |-> opts, body |-> <<>>]
Menuconfig(s, opts) == [kind |-> "menuconfig", sym |-> s, opts |-> opts, body |-> <<>>]
Choice(s, opts, body) == [kind |-> "choice", sym |-> s, opts |-> opts, body |-> body]
Menu(opts, body) == [kind |-> "menu", sym |-> "", opts |-> opts, body |-> body]
If(e, body) == [kind |-> "if", sym |-> "", opts |-> <<<<"depends", e>>>>, body |-> body]
Comment(opts) == [kind |-> "comment", sym |-> "", opts |-> opts, body |-> <<>>]

TypesOf(K) == [s \in DOMAIN K.sym |-> K.sym[s].type]
IsChoice(K, s) == "choice" \in K.sym[s].flags
IsChoiceValue(K, s) == "choiceval" \in K.sym[s].flags
IsOptional(K, s) == "optional" \in K.sym[s].flags
HasPrompt(K, i) == K.entry[i].prompt # 0
PromptVis(K, i) == K.prop[K.entry[i].prompt].vis

-----------------------------------------------------------------------------
(* Building the entries.                                                    *)

\* 'm' as an operand means 'm' && MODULES.
RECURSIVE menu_check_dep(_)
menu_check_dep(e) ==
    CASE e = NULL -> NULL
      [] e # NULL /\ Tag(e) = "not" -> <<"not", menu_check_dep(Left(e))>>
      [] e # NULL /\ Tag(e) \in Junctions -> <<Tag(e), menu_check_dep(Left(e)), menu_check_dep(Right(e))>>
      [] e = Mod -> expr_alloc_and(e, Sym(ModulesSym))
      [] OTHER -> e

prop_alloc(K, type, s, entry, text, vis, expr) ==
    LET p == [type |-> type, sym |-> s, entry |-> entry, text |-> text, vis |-> vis, expr |-> expr]
        k == [K EXCEPT !.prop = Append(@, p)]
    IN IF s = "" THEN k ELSE [k EXCEPT !.sym[s].props = Append(@, Len(k.prop))]

\* The conditions of `visible if' of the menus around entry i.
RECURSIVE Visibilities(_, _, _)
Visibilities(K, i, vis) ==
    IF i = NoEntry THEN vis
    ELSE Visibilities(K, K.entry[i].parent, expr_alloc_and(vis, K.entry[i].visibility))

menu_add_prop(K, type, text, expr, dep) ==
    LET c == K.current
        vis == menu_check_dep(dep)
        k == prop_alloc(K, type, K.entry[c].sym, c, text,
                        IF text /\ type = "prompt" THEN Visibilities(K, K.entry[c].parent, vis) ELSE vis,
                        expr)
    IN IF text THEN [k EXCEPT !.entry[c].prompt = Len(k.prop)] ELSE k

menu_add_entry(K, s) ==
    LET i == Len(K.entry) + 1
        e == [sym |-> s, prompt |-> 0, dep |-> NULL, visibility |-> NULL,
              list |-> <<>>, parent |-> K.menu]
        k == [K EXCEPT !.entry = Append([@ EXCEPT ![K.menu].list = Append(@, i)], e),
                       !.current = i]
    IN IF s = "" THEN k ELSE menu_add_prop(k, "symbol", FALSE, Sym(s), NULL)

menu_add_menu(K) == [K EXCEPT !.menu = K.current]
menu_end_menu(K) == [K EXCEPT !.menu = K.entry[K.menu].parent]
menu_add_dep(K, e) == [K EXCEPT !.entry[K.current].dep = expr_alloc_and(@, menu_check_dep(e))]
menu_add_visibility(K, e) == [K EXCEPT !.entry[K.current].visibility = expr_alloc_and(@, e)]

\* The first type given stays.
menu_set_type(K, i, type) ==
    [K EXCEPT !.sym[K.entry[i].sym].type = IF @ = "unknown" THEN type ELSE @]

\* The value of environment variable `name' is the default; "" if it is not set.
\* The first `option env' counts.
prop_add_env(K, name, value) ==
    LET s == K.entry[K.current].sym
        k == [K EXCEPT !.sym[s].flags = @ \cup {"auto"}]
        k2 == prop_alloc(k, "env", s, NoEntry, FALSE, NULL, Sym(name))
    IN IF \E p \in ToSet(K.sym[s].props) : K.prop[p].type = "env" THEN k
       ELSE IF value = "" THEN k2
       ELSE prop_alloc(k2, "default", s, NoEntry, FALSE, NULL, Sym(value))

Option(K, o) ==
    CASE o[1] = "type" -> menu_set_type(K, K.current, o[2])
      [] o[1] = "prompt" -> menu_add_prop(K, "prompt", TRUE, NULL, o[2])
      [] o[1] = "default" -> menu_add_prop(K, "default", FALSE, o[2], o[3])
      [] o[1] = "select" -> menu_add_prop(K, "select", FALSE, Sym(o[2]), o[3])
      [] o[1] = "range" -> menu_add_prop(K, "range", FALSE, <<"range", o[2], o[3]>>, o[4])
      [] o[1] = "depends" -> menu_add_dep(K, o[2])
      [] o[1] = "visible" -> menu_add_visibility(K, o[2])
      [] o[1] = "optional" -> [K EXCEPT !.sym[K.entry[K.current].sym].flags = @ \cup {"optional"}]
      [] o[1] = "modules" -> prop_alloc(K, "default", ModulesSym, NoEntry, FALSE, NULL,
                                        Sym(K.entry[K.current].sym))
      [] o[1] = "env" -> prop_add_env(K, o[2], o[3])

\* The grammar's actions around the options of a statement.
Start(K, stmt) ==
    CASE stmt.kind \in {"config", "menuconfig"} ->
            menu_add_entry([K EXCEPT !.sym[stmt.sym].flags = @ \cup {"optional"}], stmt.sym)
      [] stmt.kind = "choice" ->
            menu_add_prop(menu_add_entry([K EXCEPT !.sym[stmt.sym].flags = @ \cup {"choice", "auto"}], stmt.sym),
                          "choice", FALSE, NULL, NULL)
      [] stmt.kind = "if" -> menu_add_entry(K, "")
      [] OTHER -> menu_add_prop(menu_add_entry(K, ""), stmt.kind, TRUE, NULL, NULL)

AfterOptions(K, stmt) ==
    IF stmt.kind = "menuconfig" /\ HasPrompt(K, K.current)
    THEN [K EXCEPT !.prop[K.entry[K.current].prompt].type = "menu"] ELSE K

RECURSIVE Statements(_, _)
Block(K, stmt) ==
    IF stmt.kind \in {"choice", "menu", "if"}
    THEN menu_end_menu(Statements(menu_add_menu(K), stmt.body)) ELSE K
Statement(K, stmt) ==
    Block(AfterOptions(FoldLeft(Option, Start(K, stmt), stmt.opts), stmt), stmt)
Statements(K, stmts) == FoldLeft(Statement, K, stmts)

\* names: the symbols and the constant strings of the text.
EmptyK(names) ==
    LET none == [type |-> "unknown", flags |-> {}, props |-> <<>>, values |-> <<>>,
                 dir |-> NULL, rev |-> NULL]
        all == names \cup Constants \cup {ModulesSym, "MODULES"}
        k == [sym |-> [[s \in all |-> none] EXCEPT ![ModulesSym].type = "bool",
                                                   ![ModulesSym].flags = {"auto"}],
              prop |-> <<>>, current |-> 1, menu |-> 1,
              entry |-> <<[sym |-> "", prompt |-> 0, dep |-> NULL, visibility |-> NULL,
                           list |-> <<>>, parent |-> NoEntry]>>]
    IN menu_add_prop(k, "menu", TRUE, NULL, NULL)

\* zconfparse, and the default of modules_sym if no symbol gave it one.
WithModules(K) ==
    IF K.sym[ModulesSym].props # <<>> THEN K
    ELSE prop_alloc(K, "default", ModulesSym, NoEntry, FALSE, NULL, Sym("MODULES"))
Parsed(names, text) == WithModules(Statements(EmptyK(names), text))

-----------------------------------------------------------------------------
(* menu_finalize.                                                           *)

\* A choice without a type takes that of its first typed value, values
\* without a type take the choice's.
ChoiceTypes(K, p) ==
    LET s == K.entry[p].sym
        list == K.entry[p].list
        Typed(i) == K.entry[i].sym # "" /\ K.sym[K.entry[i].sym].type # "unknown"
        typed == SelectSeq(list, Typed)
        k == IF typed = <<>> THEN K
             ELSE menu_set_type(K, p, K.sym[K.entry[Head(typed)].sym].type)
    IN FoldLeft(LAMBDA acc, i: IF acc.entry[i].sym = "" THEN acc
                               ELSE menu_set_type(acc, i, acc.sym[s].type), k, list)

PropsOf(K, i) ==
    IF K.entry[i].sym # ""
    THEN SelectSeq(K.sym[K.entry[i].sym].props, LAMBDA p: K.prop[p].entry = i)
    ELSE IF HasPrompt(K, i) THEN <<K.entry[i].prompt>> ELSE <<>>

\* Mutant of SelectBy: only the symbol selects, whatever the `if' says.
MutantSelectBy(K, p, dep) ==
    LET s == Left(K.prop[p].expr)
    IN [K EXCEPT !.sym[s].rev = expr_alloc_or(@, Sym(K.prop[p].sym))]

\* The symbol selected by property p gains `sym && dep' in its rev_dep.
SelectBy(K, p, dep) ==
    LET s == Left(K.prop[p].expr)
    IN [K EXCEPT !.sym[s].rev = expr_alloc_or(@, expr_alloc_and(Sym(K.prop[p].sym), dep))]

\* outer && the condition e, as it is kept in the tree.
Conjoined(ty, outer, e) == expr_eliminate_dups(ty, expr_alloc_and(outer, expr_transform(ty, e)))

SetPropDep(K, p, vis) ==
    IF K.prop[p].type = "select" THEN SelectBy([K EXCEPT !.prop[p].vis = vis], p, vis)
    ELSE [K EXCEPT !.prop[p].vis = vis]

\* The dependency of entry i is dep; so are those of the properties it made.
InheritDep(K, i, ty, dep) ==
    LET tristate == K.entry[i].sym = "" \/ K.sym[K.entry[i].sym].type = "tristate"
        Vis(e) == IF tristate THEN e ELSE expr_trans_bool(ty, e)
    IN FoldLeft(LAMBDA k, p: SetPropDep(k, p, Vis(Conjoined(ty, dep, k.prop[p].vis))),
                [K EXCEPT !.entry[i].dep = dep], PropsOf(K, i))

\* The dependency of entry i and the visibility of its properties, with those
\* of the entry it stands in.
Inherit(K, i, parentdep) ==
    InheritDep(K, i, TypesOf(K), Conjoined(TypesOf(K), parentdep, K.entry[i].dep))

\* Mutant of BelongsBelow: that it mentions the symbol is enough.
MutantBelongs(K, i, s, base) ==
    LET dep == IF HasPrompt(K, i) THEN PromptVis(K, i) ELSE K.entry[i].dep
    IN expr_contains_symbol(dep, s)

\* e != n, as it is compared with others.
NotNo(ty, e) == expr_eliminate_dups(ty, expr_transform(ty, expr_trans_compare(e, "neq", "n")))

\* Entry i, which follows that of symbol s, is shown below it: it depends on s
\* or its dependency contains base, that of s.
BelongsBelow(K, i, s, base) ==
    LET dep == IF HasPrompt(K, i) THEN PromptVis(K, i) ELSE K.entry[i].dep
    IN /\ expr_contains_symbol(dep, s)
       /\ \/ expr_depends_symbol(dep, s)
          \/ expr_is_yes(expr_eliminate_eq(NotNo(TypesOf(K), dep), base)[2])

\* A value of a choice: it is linked to the choice, and unless both are
\* tristate or neither is, it depends on the choice being y.
AddChoiceValue(K, i, c) ==
    LET s == K.entry[i].sym
        y == <<"eq", c, "y">>
        k == IF K.sym[c].type = "tristate" /\ K.sym[s].type # "tristate"
             THEN [K EXCEPT !.entry[i].dep = expr_alloc_and(y, @),
                            !.prop = [p \in DOMAIN @ |->
                                IF p \in ToSet(K.sym[s].props) /\ @[p].entry = i
                                THEN [@[p] EXCEPT !.vis = expr_alloc_and(y, @)] ELSE @[p]]]
             ELSE K
        k2 == menu_add_prop([k EXCEPT !.current = i, !.sym[s].flags = @ \cup {"choiceval"}],
                            "choice", FALSE, Sym(c), NULL)
    IN [k2 EXCEPT !.sym[c].values = Append(@, s)]

\* The entries of the n-th entry of p, which has no prompt, follow it.
Flatten(K, p, n) ==
    LET list == K.entry[p].list  i == list[n]
    IN [K EXCEPT !.entry = [j \in DOMAIN @ |->
            IF j = p THEN [@[j] EXCEPT !.list = SubSeq(list, 1, n) \o K.entry[i].list
                                                  \o SubSeq(list, n + 1, Len(list))]
            ELSE IF j = i THEN [@[j] EXCEPT !.list = <<>>]
            ELSE IF j \in ToSet(K.entry[i].list) THEN [@[j] EXCEPT !.parent = p] ELSE @[j]]]

FlattenIfBare(K, p, n) ==
    LET i == K.entry[p].list[n]
    IN IF K.entry[i].list # <<>> /\ ~HasPrompt(K, i) THEN Flatten(K, p, n) ELSE K

LinkToChoice(K, i, c) ==
    LET s == K.entry[i].sym
    IN IF c # "" /\ IsChoice(K, c) /\ s # "" /\ ~IsChoiceValue(K, s) THEN AddChoiceValue(K, i, c) ELSE K

\* The last loop over the entries of p, from the n-th on.
RECURSIVE Members(_, _, _)
Members(K, p, n) ==
    IF n > Len(K.entry[p].list) THEN K
    ELSE Members(FlattenIfBare(LinkToChoice(K, K.entry[p].list[n], K.entry[p].sym), p, n), p, n + 1)

\* A choice that is not optional is at least m where its prompt is visible.
ForceChoice(K, p) ==
    LET s == K.entry[p].sym
    IN IF s # "" /\ ~IsOptional(K, s) /\ HasPrompt(K, p)
       THEN [K EXCEPT !.sym[s].rev = expr_alloc_or(@, expr_alloc_and(PromptVis(K, p), Mod))] ELSE K

RECURSIVE menu_finalize(_, _, _), FinalizeList(_, _, _), Steal(_, _, _, _)

\* The entries r[2] of p are to be finalized, `done' those before them.
FinalizeList(p, done, r) ==
    IF r[2] = <<>> THEN [r[1] EXCEPT !.entry[p].list = done]
    ELSE FinalizeList(p, Append(done, Head(r[2])), menu_finalize(r[1], Head(r[2]), Tail(r[2])))

SetParent(i, p, r) == <<[r[1] EXCEPT !.entry[i].parent = p], r[2]>>

\* Entries of the list r[2] go below p as long as they belong there.
Steal(p, base, taken, r) ==
    LET K == r[1]
    IN IF r[2] = <<>> \/ ~BelongsBelow(K, Head(r[2]), K.entry[p].sym, base)
       THEN <<[K EXCEPT !.entry[p].list = taken], r[2]>>
       ELSE Steal(p, base, Append(taken, Head(r[2])),
                  SetParent(Head(r[2]), p, menu_finalize(K, Head(r[2]), Tail(r[2]))))

\* p has entries.
InheritAll(K, p) ==
    LET s == K.entry[p].sym
        dep == IF s # "" /\ IsChoice(K, s) THEN Sym(s)
               ELSE IF HasPrompt(K, p) THEN PromptVis(K, p) ELSE K.entry[p].dep
    IN FoldLeft(LAMBDA k, i: Inherit(k, i, dep), K, K.entry[p].list)
Within(K, p) == FinalizeList(p, <<>>, <<K, K.entry[p].list>>)

\* p has none, but those that follow may go below it.
SetDirDep(p, r) == <<[r[1] EXCEPT !.sym[r[1].entry[p].sym].dir = r[1].entry[p].dep], r[2]>>
Following(K, p, rest) ==
    SetDirDep(p, Steal(p, NotNo(TypesOf(K), IF HasPrompt(K, p) THEN PromptVis(K, p) ELSE NULL), <<>>,
                       <<K, rest>>))

FinishEntry(p, r) == <<ForceChoice(Members(r[1], p, 1), p), r[2]>>

\* <<K, what is left of the entries `rest' that follow p>>
menu_finalize(K, p, rest) ==
    LET s == K.entry[p].sym
        typed == IF s # "" /\ IsChoice(K, s) THEN ChoiceTypes(K, p) ELSE K
    IN FinishEntry(p, IF K.entry[p].list # <<>> THEN <<Within(InheritAll(typed, p), p), rest>>
                      ELSE IF s # "" THEN Following(K, p, rest) ELSE <<K, rest>>)

conf_parse(names, text) == menu_finalize(Parsed(names, text), 1, <<>>)[1]

-----------------------------------------------------------------------------
(* Recursive dependencies.  w carries check and checked (SYMBOL_CHECK and    *)
(* SYMBOL_CHECKED), the stack dep_stack (top last), and `reports': for every *)
(* cycle found the printed lines <<symbol, relation, next symbol>>.         *)

Push(w, s) == [w EXCEPT !.stack = Append(@, [sym |-> s, prop |-> 0, expr |-> FALSE])]
Pop(w) == [w EXCEPT !.stack = Front(@)]
OnTop(w, p, expr) == [w EXCEPT !.stack[Len(w.stack)].prop = p, !.stack[Len(w.stack)].expr = expr]
ChoiceOf(K, s) == Left(K.prop[Head(SelectSeq(K.sym[s].props, LAMBDA p: K.prop[p].type = "choice"))].expr)

\* How sym_check_print_recursive puts the line of a stack element.
Relation(K, x) == IF x.expr THEN "contains" ELSE IF x.prop # 0 THEN "depends on"
                  ELSE IF IsChoice(K, x.sym) THEN "has value"
                  ELSE IF IsChoiceValue(K, x.sym) THEN "is part of" ELSE "is selected by"

sym_check_print_recursive(K, w, s) ==
    LET cv == IsChoiceValue(K, s)
        last == IF cv THEN ChoiceOf(K, s) ELSE s
        stack == IF cv THEN Push(w, s).stack ELSE w.stack
        found == {n \in DOMAIN stack : stack[n].sym = last}
        from == CHOOSE n \in found : \A k \in found : k <= n
        NextSym(n) == IF n < Len(stack) THEN stack[n + 1].sym ELSE last
    IN [w EXCEPT !.reports = Append(@,
           IF found = {} THEN <<>>
           ELSE [n \in 1..(Len(stack) - from + 1) |->
                    LET x == stack[from + n - 1]
                    IN <<x.sym, Relation(K, x), NextSym(from + n - 1)>>])]

RECURSIVE sym_check_deps(_, _, _), sym_check_expr_deps(_, _, _), CheckProps(_, _, _, _), CheckValues(_, _, _)

\* All of these return <<symbol or "", w>>; one that found a symbol ends the search.
CheckOperand(K, w, e, x) == IF Tag(e) \in Comparisons THEN sym_check_deps(K, w, x)
                            ELSE sym_check_expr_deps(K, w, x)
ThenRight(K, e, l) == IF l[1] # "" THEN l ELSE CheckOperand(K, l[2], e, Right(e))
sym_check_expr_deps(K, w, e) ==
    IF e = NULL THEN <<"", w>>
    ELSE IF Tag(e) = "sym" THEN sym_check_deps(K, w, Left(e))
    ELSE IF Tag(e) = "not" THEN sym_check_expr_deps(K, w, Left(e))
    ELSE ThenRight(K, e, CheckOperand(K, w, e, Left(e)))

\* Mutant of CheckProps: the check stops after the first property.
MutantFirstProp(K, w, s, props) ==
    IF props = <<>> THEN <<"", w>>
    ELSE sym_check_expr_deps(K, OnTop(w, Head(props), FALSE), K.prop[Head(props)].vis)

\* The visibility of a property has been checked, then its expression.
ThenNext(K, s, props, r) ==
    IF r[1] # "" THEN r ELSE CheckProps(K, OnTop(r[2], Head(props), FALSE), s, Tail(props))
ThenExpr(K, s, props, r) ==
    LET prop == K.prop[Head(props)]
    IN IF r[1] # "" THEN r
       ELSE IF prop.type # "default" \/ IsChoice(K, s) THEN CheckProps(K, r[2], s, Tail(props))
       ELSE ThenNext(K, s, props, sym_check_expr_deps(K, OnTop(r[2], Head(props), TRUE), prop.expr))

CheckProps(K, w, s, props) ==
    IF props = <<>> THEN <<"", w>>
    ELSE IF K.prop[Head(props)].type \in {"choice", "select"} THEN CheckProps(K, w, s, Tail(props))
    ELSE ThenExpr(K, s, props, sym_check_expr_deps(K, OnTop(w, Head(props), FALSE), K.prop[Head(props)].vis))

PopOff(r) == <<r[1], Pop(r[2])>>
ThenProps(K, s, r) == IF r[1] # "" THEN r ELSE CheckProps(K, r[2], s, K.sym[s].props)
sym_check_sym_deps(K, w, s) == PopOff(ThenProps(K, s, sym_check_expr_deps(K, Push(w, s), K.sym[s].rev)))

ThenValues(K, values, r) == IF r[1] # "" THEN r ELSE CheckValues(K, r[2], values)
CheckValues(K, w, values) ==
    IF values = <<>> THEN <<"", w>>
    ELSE ThenValues(K, Tail(values), sym_check_sym_deps(K, w, Head(values)))

Mark(w, S) == [w EXCEPT !.check = @ \cup S, !.checked = @ \cup S]
Unmark(r, S) == <<r[1], [r[2] EXCEPT !.check = @ \ S]>>

\* A value of the choice c that leads back to itself stands for the choice.
AsChoice(K, c, r) ==
    <<IF r[1] # "" /\ IsChoiceValue(K, r[1]) /\ ChoiceOf(K, r[1]) = c THEN c ELSE r[1], r[2]>>
sym_check_choice_deps(K, w, c) ==
    LET group == ToSet(K.sym[c].values)
    IN PopOff(Unmark(AsChoice(K, c, ThenValues(K, K.sym[c].values,
           Unmark(sym_check_sym_deps(K, Mark(Push(w, c), group \cup {c}), c), {c}))), group))

\* Back at the symbol the cycle started from.
UnlessOwn(s, r) == IF r[1] = s THEN <<"", r[2]>> ELSE r

sym_check_deps(K, w, s) ==
    IF s \in w.check THEN <<s, sym_check_print_recursive(K, w, s)>>
    ELSE IF s \in w.checked THEN <<"", w>>
    ELSE UnlessOwn(s,
        IF IsChoiceValue(K, s) THEN PopOff(sym_check_deps(K, Push(w, s), ChoiceOf(K, s)))
        ELSE IF IsChoice(K, s) THEN sym_check_choice_deps(K, w, s)
        ELSE Unmark(sym_check_sym_deps(K, Mark(w, {s}), s), {s}))

NotChecked == [check |-> {}, checked |-> {}, stack |-> <<>>, reports |-> <<>>]
=============================================================================
