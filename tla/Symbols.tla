------------------------------ MODULE Symbols ------------------------------
(***************************************************************************)
(* The values of kconfig symbols (package/config/symbol.c): calculated on    *)
(* demand from what the user set and what the Kconfig text (K, see Menus)    *)
(* says, and kept until sym_clear_all_valid.  st, the part of struct symbol  *)
(* and struct property that changes, is a record of                          *)
(*   valid, write, has       the symbols with SYMBOL_VALID, SYMBOL_WRITE,     *)
(*                           SYMBOL_DEF_USER                                  *)
(*   tri, val                curr.tri and curr.val (of a choice: the symbol   *)
(*                           chosen, "" for NULL)                             *)
(*   deftri, defval          def[S_DEF_USER], what the user set               *)
(*   visible, dir, rev       visible, dir_dep.tri, rev_dep.tri                *)
(*   pvis                    per property visible.tri                         *)
(*   modules, dirty          modules_val, sym_change_count # 0                *)
(*   changed                 the symbols with SYMBOL_CHANGED, which gconf      *)
(*                           looks at and takes away                          *)
(* Every operator that calculates returns the new st, after its result if it  *)
(* has one.                                                                   *)
(***************************************************************************)
EXTENDS Menus

CONSTANTS Decimal,     \* the valid decimal numbers: the string to its value
          Hex,         \* those with 0x
          Prefixed     \* a hexadecimal number without 0x to that with it

NumberOf(base, str) ==
    LET h == IF str \in DOMAIN Prefixed THEN Prefixed[str] ELSE str
    IN CASE base = 10 /\ str \in DOMAIN Decimal -> Decimal[str]
         [] base = 16 /\ h \in DOMAIN Hex -> Hex[h]
         [] OTHER -> 0
NumeralOf(type, n) == IF type = "int" THEN CHOOSE x \in DOMAIN Decimal : Decimal[x] = n
                      ELSE CHOOSE x \in DOMAIN Hex : Hex[x] = n
BaseOf(type) == IF type = "int" THEN 10 ELSE 16

Tristates == {"bool", "tristate"}
Numbers == {"int", "hex"}

\* As the program starts: everything zero.
NoValues(K) ==
    LET zero == [s \in DOMAIN K.sym |-> 0] @@ <<>>
        none == [s \in DOMAIN K.sym |-> ""] @@ <<>>
    IN [valid |-> Constants, write |-> {}, has |-> {},
        tri |-> [s \in DOMAIN K.sym |-> IF s \in Constants THEN TriOf(s) ELSE 0] @@ <<>>,
        val |-> [s \in DOMAIN K.sym |-> IF s \in Constants THEN s ELSE ""] @@ <<>>,
        deftri |-> zero, defval |-> none, visible |-> zero, dir |-> zero, rev |-> zero,
        pvis |-> [p \in DOMAIN K.prop |-> 0] @@ <<>>, modules |-> 0, dirty |-> TRUE,
        changed |-> {}]

PropsOfType(K, s, type) == SelectSeq(K.sym[s].props, LAMBDA p: K.prop[p].type = type)

\* op applied to the elements of seq one after the other.
Through(op(_, _), base, seq) ==
    LET RECURSIVE From(_, _)
        From(acc, n) == IF n > Len(seq) THEN acc
                        ELSE LET next == op(acc, seq[n])
                             IN IF next = next THEN From(next, n + 1) ELSE acc
    IN From(base, 1)

sym_get_type(K, st, s) ==
    IF K.sym[s].type = "tristate" /\ ((IsChoiceValue(K, s) /\ st.visible[s] = 2) \/ st.modules = 0)
    THEN "bool" ELSE K.sym[s].type

sym_get_string_value(K, st, s) == IF K.sym[s].type \in Tristates THEN StrOf(st.tri[s]) ELSE st.val[s]

-----------------------------------------------------------------------------
RECURSIVE sym_calc_value(_, _, _), CalcSymbols(_, _, _), CalcExpr(_, _, _), CalcRight(_, _, _)

\* The symbols ss calculated, one after the other.
CalcSymbols(K, st, ss) ==
    IF ss = <<>> THEN st ELSE CalcSymbols(K, sym_calc_value(K, st, Head(ss)), Tail(ss))

\* What the symbol or the comparison e is in k, where its symbols have values.
Evaluated(K, e, k) ==
    LET Str(s) == sym_get_string_value(K, k, s)
    IN <<IF Tag(e) = "sym" THEN k.tri[Left(e)]
         ELSE IF (Str(Left(e)) = Str(Right(e))) = (Tag(e) = "eq") THEN 2 ELSE 0, k>>

Negated(v) == <<EXPR_NOT(v[1]), v[2]>>
Junction(type, l, r) == <<IF type = "and" THEN EXPR_AND(l, r[1]) ELSE EXPR_OR(l, r[1]), r[2]>>
CalcRight(K, e, l) == Junction(Tag(e), l[1], CalcExpr(K, l[2], Right(e)))

\* expr_calc_value: <<value, st>>.  Both operands are always calculated.
CalcExpr(K, st, e) ==
    IF e = NULL THEN <<2, st>>
    ELSE IF Tag(e) \in Comparisons \cup {"sym"} THEN Evaluated(K, e, CalcSymbols(K, st, Tail(e)))
    ELSE IF Tag(e) = "not" THEN Negated(CalcExpr(K, st, Left(e)))
    ELSE CalcRight(K, e, CalcExpr(K, st, Left(e)))

\* v is the <<value, st>> of the visibility of property p.
SetPropVisible(p, v) == [v[2] EXCEPT !.pvis[p] = v[1]]

\* Calculates the visibility of the properties ps up to the first visible one:
\* <<it or 0, st>>.
RECURSIVE FirstVisible(_, _, _), FirstOrNext(_, _, _)
FirstOrNext(K, ps, v) ==
    IF v[1] # 0 THEN <<Head(ps), SetPropVisible(Head(ps), v)>>
    ELSE FirstVisible(K, SetPropVisible(Head(ps), v), Tail(ps))
FirstVisible(K, st, ps) ==
    IF ps = <<>> THEN <<0, st>> ELSE FirstOrNext(K, ps, CalcExpr(K, st, K.prop[Head(ps)].vis))

sym_get_default_prop(K, st, s) == FirstVisible(K, st, PropsOfType(K, s, "default"))
sym_get_range_prop(K, st, s) == FirstVisible(K, st, PropsOfType(K, s, "range"))

BoundOf(K, s, base, k) ==
    <<NumberOf(IF K.sym[s].type \in Numbers THEN BaseOf(K.sym[s].type) ELSE base, k.val[s]), k>>

\* The number of a bound of a range: <<number, st>>.
sym_get_range_val(K, st, s, base) == BoundOf(K, s, base, sym_calc_value(K, st, s))

\* Whether number n violates the range r, <<property or 0, st>>, and which
\* bound: <<so, bound, st>>.  The upper one is looked at only if the lower holds.
AboveHigh(n, high) == <<n > high[1], high[1], high[2]>>
BelowLow(K, n, base, high, low) ==
    IF n < low[1] THEN <<TRUE, low[1], low[2]>>
    ELSE AboveHigh(n, sym_get_range_val(K, low[2], high, base))
Violation(K, n, base, r) ==
    IF r[1] = 0 THEN <<FALSE, 0, r[2]>>
    ELSE BelowLow(K, n, base, K.prop[r[1]].expr[3],
                  sym_get_range_val(K, r[2], K.prop[r[1]].expr[2], base))

\* A number outside its range becomes the bound it violates.
Clipped(K, s, v) ==
    IF v[1] THEN [v[3] EXCEPT !.val[s] = NumeralOf(K.sym[s].type, v[2])] ELSE v[3]
sym_validate_range(K, st, s) ==
    IF K.sym[s].type \notin Numbers THEN st
    ELSE LET base == BaseOf(K.sym[s].type)
         IN Clipped(K, s, Violation(K, NumberOf(base, st.val[s]), base, sym_get_range_prop(K, st, s)))

Prompts(K, s) == SelectSeq(K.sym[s].props, LAMBDA p: K.prop[p].text)
Widest(tri, p, v) == <<EXPR_OR(tri, v[1]), SetPropVisible(p, v)>>

\* m is y where there are no modules or the symbol is bool.
Rounded(K, st, s, v) == IF v = 1 /\ sym_get_type(K, st, s) = "bool" THEN 2 ELSE v

sym_set_changed(st, ss) == [st EXCEPT !.changed = @ \cup ss]

\* What is kept of s becomes x, and s is marked if that is another value.
Becomes(st, what, s, x) ==
    IF st[what][s] = x THEN st ELSE sym_set_changed([st EXCEPT ![what][s] = x], {s})

\* v is the <<value, st>> of what the prompts, dir_dep and rev_dep say of s.
SetVisible(K, s, v) ==
    Becomes(v[2], "visible", s,
        IF v[1] = 1 /\ (K.sym[s].type # "tristate" \/ v[2].modules = 0) THEN 2 ELSE v[1])
SetDir(s, v) == Becomes(v[2], "dir", s, IF v[1] = 0 THEN 0 ELSE 2)
SetRev(K, s, v) == Becomes(v[2], "rev", s, Rounded(K, v[2], s, v[1]))
CalcRev(K, s, k) ==
    SetRev(K, s, IF K.sym[s].rev = NULL THEN <<0, k>> ELSE CalcExpr(K, k, K.sym[s].rev))
CalcDeps(K, s, k) ==
    IF IsChoiceValue(K, s) THEN k ELSE CalcRev(K, s, SetDir(s, CalcExpr(K, k, K.sym[s].dir)))

sym_calc_visibility(K, st, s) ==
    CalcDeps(K, s, SetVisible(K, s,
        Through(LAMBDA acc, p: Widest(acc[1], p, CalcExpr(K, acc[2], K.prop[p].vis)),
                <<0, st>>, Prompts(K, s))))

\* Of a choice: the first default that is visible, or the first visible value:
\* <<symbol or "", st>>.
RECURSIVE VisibleDefault(_, _, _), DefaultOrNext(_, _, _)
DefaultOrNext(K, ps, d) ==
    LET s == Left(K.prop[d[1]].expr)
    IN IF d[1] = 0 THEN <<"", d[2]>>
       ELSE IF d[2].visible[s] # 0 THEN <<s, d[2]>>
       ELSE VisibleDefault(K, d[2], SubSeq(ps, 1 + CHOOSE n \in DOMAIN ps : ps[n] = d[1], Len(ps)))
VisibleDefault(K, st, ps) == DefaultOrNext(K, ps, FirstVisible(K, st, ps))

OrFirstShown(K, c, d) ==
    LET shown == SelectSeq(K.sym[c].values, LAMBDA s: d[2].visible[s] # 0)
    IN <<IF d[1] # "" THEN d[1] ELSE IF shown # <<>> THEN Head(shown) ELSE "", d[2]>>
sym_choice_default(K, st, c) == OrFirstShown(K, c, VisibleDefault(K, st, PropsOfType(K, c, "default")))

\* The choice c is y: the value chosen, and c itself n if there is none.
SetDefault(c, d) == [d[2] EXCEPT !.val[c] = d[1], !.tri[c] = IF d[1] = "" THEN 0 ELSE @]
UserOrDefault(K, c, k) ==
    LET user == k.defval[c]
    IN IF user # "" /\ k.visible[user] # 0 THEN [k EXCEPT !.val[c] = user]
       ELSE SetDefault(c, sym_choice_default(K, k, c))
sym_calc_choice(K, st, c) ==
    UserOrDefault(K, c, Through(LAMBDA acc, s: sym_calc_visibility(K, acc, s), st, K.sym[c].values))

\* What the user set counts.
Taken(K, st, s) == st.visible[s] # 0 /\ s \in st.has

\* Mutant of UserValue: whatever the dependencies allow.
MutantUserValue(st, s) == st.deftri[s]

UserValue(st, s) == EXPR_AND(st.deftri[s], st.visible[s])

Write(st, s) == [st EXCEPT !.write = @ \cup {s}]
\* A symbol that has a default, d = <<property or 0, st>>, is written.
WriteDefault(s, d) == IF d[1] = 0 THEN d ELSE <<d[1], Write(d[2], s)>>
\* That of a string, a number too, only if it is the value of a symbol.
WriteSource(K, s, d) ==
    IF d[1] = 0 THEN d ELSE IF Tag(K.prop[d[1]].expr) # "sym" THEN d ELSE <<d[1], Write(d[2], s)>>

\* The value of the default d of a boolean or tristate symbol, and of any
\* other: <<value, st>>.
LimitedBy(p, v) == <<EXPR_AND(v[1], v[2].pvis[p]), v[2]>>
DefaultTristate(K, d) ==
    IF d[1] = 0 THEN <<0, d[2]>> ELSE LimitedBy(d[1], CalcExpr(K, d[2], K.prop[d[1]].expr))
CalcString(s, k) == <<k.val[s], k>>
DefaultString(K, d) ==
    IF d[1] = 0 \/ Tag(K.prop[d[1]].expr) # "sym" THEN <<"", d[2]>>
    ELSE LET source == Left(K.prop[d[1]].expr)
         IN CalcString(source, sym_calc_value(K, d[2], source))

Selected(s, v) == <<EXPR_OR(v[1], v[2].rev[s]), v[2]>>
OwnTristate(K, st, s) ==
    IF Taken(K, st, s) THEN <<UserValue(st, s), st>>
    ELSE IF IsChoice(K, s) THEN <<0, st>>
    ELSE DefaultTristate(K, WriteDefault(s, sym_get_default_prop(K, st, s)))

SetTri(K, s, v) == [v[2] EXCEPT !.tri[s] = Rounded(K, v[2], s, v[1])]
SetVal(s, v) == [v[2] EXCEPT !.val[s] = v[1]]

NewTristate(K, s, st) ==
    SetTri(K, s,
        IF IsChoiceValue(K, s) /\ st.visible[s] = 2
        THEN <<IF st.val[ChoiceOf(K, s)] = s THEN 2 ELSE 0, st>>
        ELSE Selected(s, OwnTristate(K, IF st.visible[s] # 0 \/ st.rev[s] # 0
                                        THEN Write(st, s) ELSE st, s)))

OwnString(K, st, s) ==
    IF Taken(K, st, s) THEN <<st.defval[s], st>>
    ELSE DefaultString(K, WriteSource(K, s, sym_get_default_prop(K, st, s)))
NewString(K, s, st) == SetVal(s, OwnString(K, IF st.visible[s] # 0 THEN Write(st, s) ELSE st, s))

\* What a choice passes on to its values: that they are written, or changed.
MarkValues(K, c, st) ==
    LET values == ToSet(K.sym[c].values)
    IN IF ~IsChoice(K, c) THEN st
       ELSE [st EXCEPT !.write = IF c \in @ THEN @ \cup {s \in values : st.visible[s] # 0} ELSE @,
                       !.changed = IF c \in @ THEN @ \cup values ELSE @]

Emptied(K, s, st) ==
    [st EXCEPT !.tri[s] = 0, !.val[s] = IF K.sym[s].type \in Tristates THEN "n" ELSE ""]
CalcChosen(K, s, st) == IF IsChoice(K, s) /\ st.tri[s] = 2 THEN sym_calc_choice(K, st, s) ELSE st
\* s has been calculated; with MODULES every symbol changes.
Recalculated(K, s, old, st) ==
    IF st.tri[s] = old.tri[s] /\ st.val[s] = old.val[s] THEN st
    ELSE IF s # ModulesSym THEN sym_set_changed(st, {s})
    ELSE sym_set_changed([st EXCEPT !.modules = st.tri[s]], DOMAIN K.sym \ Constants)
NotWritten(K, s, st) == IF "auto" \in K.sym[s].flags THEN [st EXCEPT !.write = @ \ {s}] ELSE st

\* seen: its visibility has been calculated.
CalcSeen(K, s, seen) == IF K.sym[s].type \in Tristates THEN NewTristate(K, s, seen) ELSE NewString(K, s, seen)
CalcAnew(K, s, st) ==
    LET unwritten == IF IsChoiceValue(K, s) THEN st ELSE [st EXCEPT !.write = @ \ {s}]
    IN NotWritten(K, s, MarkValues(K, s, Recalculated(K, s, st, sym_validate_range(K,
           CalcChosen(K, s, CalcSeen(K, s, Emptied(K, s, sym_calc_visibility(K, unwritten, s)))), s))))

sym_calc_value(K, st, s) ==
    IF s \in st.valid THEN st
    ELSE IF K.sym[s].type = "unknown" THEN [st EXCEPT !.valid = @ \cup {s}, !.val[s] = s, !.tri[s] = 0]
    ELSE CalcAnew(K, s, [st EXCEPT !.valid = @ \cup {s}])

-----------------------------------------------------------------------------
(* Setting values.                                                          *)

sym_clear_all_valid(K, st) ==
    sym_calc_value(K, [st EXCEPT !.valid = Constants, !.dirty = TRUE], ModulesSym)

sym_tristate_within_range(K, st, s, v) ==
    LET type == sym_get_type(K, st, s) IN
    /\ st.visible[s] # 0
    /\ type \in Tristates
    /\ ~(type = "bool" /\ v = 1)
    /\ st.visible[s] > st.rev[s]
    /\ IF IsChoiceValue(K, s) /\ st.visible[s] = 2 THEN v = 2
       ELSE v >= st.rev[s] /\ v <= st.visible[s]

\* Mutant of SetChoice: the choice is not told which value was set.
MutantSetChoice(K, st, s) ==
    LET c == ChoiceOf(K, s) IN [st EXCEPT !.has = @ \cup {c}]

\* A choice value set to y is what the user chose, and none of the values is
\* new any more.
SetChoice(K, st, s) ==
    LET c == ChoiceOf(K, s)
    IN [st EXCEPT !.defval[c] = s,
                  !.has = @ \cup {c} \cup {t \in ToSet(K.sym[c].values) : st.visible[t] # 0}]

\* Mutant of AfterSet: only the symbol itself is calculated anew.
MutantAfterSet(K, st, s) == sym_calc_value(K, [st EXCEPT !.valid = @ \ {s}, !.dirty = TRUE], ModulesSym)

\* Every value that is kept may depend on the one set.
AfterSet(K, st, s) == sym_clear_all_valid(K, st)

\* The value v of s is another one and may be set, or it is what s has.
Settable(K, st, s, v) == st.tri[s] = v \/ sym_tristate_within_range(K, st, s, v)

SetUser(K, st, s, v) == IF IsChoiceValue(K, s) /\ v = 2 THEN SetChoice(K, st, s) ELSE st

\* s has a value of the user, and is marked if it had none.
Given(st, s) == IF s \in st.has THEN st ELSE sym_set_changed([st EXCEPT !.has = @ \cup {s}], {s})

\* What setting s to a value it may have does.
AcceptTristate(K, st, s, v) ==
    LET k == [SetUser(K, Given(st, s), s, v) EXCEPT !.deftri[s] = v]
    IN IF st.tri[s] # v THEN AfterSet(K, k, s) ELSE k

\* <<accepted, st>>
sym_set_tristate_value(K, st, s, v) ==
    IF Settable(K, st, s, v) THEN <<TRUE, AcceptTristate(K, st, s, v)>> ELSE <<FALSE, st>>

\* n, m, y and round again, to the first value that can be set.
sym_toggle_tristate_value(K, st, s) ==
    LET old == st.tri[s]
        tries == <<(old + 1) % 3, (old + 2) % 3, old>>
        ok == {n \in 1..3 : Settable(K, st, s, tries[n])}
    IN AcceptTristate(K, st, s, tries[CHOOSE n \in ok : \A k \in ok : n <= k])

sym_string_valid(K, s, str) ==
    CASE K.sym[s].type = "string" -> TRUE
      [] K.sym[s].type = "int" -> str \in DOMAIN Decimal
      [] K.sym[s].type = "hex" -> str \in DOMAIN Hex \cup DOMAIN Prefixed
      [] K.sym[s].type \in Tristates -> str \in Constants
      [] OTHER -> FALSE

InRange(v) == <<~v[1], v[3]>>

\* <<answer, st>>
sym_string_within_range(K, st, s, str) ==
    IF K.sym[s].type \in Tristates
    THEN <<str \in Constants /\ sym_tristate_within_range(K, st, s, TriOf(str)), st>>
    ELSE IF K.sym[s].type \notin Numbers \/ ~sym_string_valid(K, s, str)
    THEN <<sym_string_valid(K, s, str), st>>
    ELSE LET base == BaseOf(K.sym[s].type)
         IN InRange(Violation(K, NumberOf(base, str), base, sym_get_range_prop(K, st, s)))

AcceptString(K, s, old, new, k) ==
    IF new = old /\ k.defval[s] = old /\ old # "" THEN k ELSE AfterSet(K, [k EXCEPT !.defval[s] = new], s)

\* r tells whether str may be set: <<so, st>>.
SetIfInRange(K, s, str, r) ==
    IF ~r[1] THEN r
    ELSE <<TRUE, AcceptString(K, s, str,
                           IF K.sym[s].type = "hex" /\ str \in DOMAIN Prefixed THEN Prefixed[str] ELSE str,
                           Given(r[2], s))>>

\* <<accepted, st>>
sym_set_string_value(K, st, s, str) ==
    IF K.sym[s].type \notin Tristates
    THEN SetIfInRange(K, s, str, sym_string_within_range(K, st, s, str))
    ELSE IF str \in Constants THEN sym_set_tristate_value(K, st, s, TriOf(str)) ELSE <<FALSE, st>>

PrintedDefault(K, s, v) ==
    LET mod == v[1] = 1 /\ ~IsChoiceValue(K, s) /\ v[2].tri[ModulesSym] = 0
    IN <<StrOf(IF mod \/ (v[1] = 1 /\ K.sym[s].type = "bool") THEN 2 ELSE v[1]), v[2]>>

DefaultOf(K, s, d) ==
    IF K.sym[s].type \in Tristates THEN PrintedDefault(K, s, Selected(s, DefaultTristate(K, d)))
    ELSE DefaultString(K, d)

\* <<string, st>>
sym_get_string_default(K, st, s) ==
    DefaultOf(K, s, sym_get_default_prop(K,
        sym_calc_value(K, sym_calc_visibility(K, st, s), ModulesSym), s))

sym_is_changable(K, st, s) == st.visible[s] > st.rev[s]

-----------------------------------------------------------------------------
\* menu_is_visible: <<answer, st>>.  An entry that is hidden but on is shown for
\* the entries below it that are visible, and then it is not new any more.
RECURSIVE menu_is_visible(_, _, _), AnyVisible(_, _, _), OrAnyVisible(_, _, _)
OrAnyVisible(K, list, r) == IF r[1] THEN r ELSE AnyVisible(K, r[2], list)
AnyVisible(K, st, list) ==
    IF list = <<>> THEN <<FALSE, st>> ELSE OrAnyVisible(K, Tail(list), menu_is_visible(K, st, Head(list)))

NotNew(s, r) == IF r[1] THEN <<TRUE, [r[2] EXCEPT !.has = @ \cup {s}]>> ELSE r

\* Entry e has been calculated: k.
ShownAs(K, e, k) ==
    IF k.pvis[e.prompt] # 0 THEN <<TRUE, k>>
    ELSE IF e.sym = "" THEN <<FALSE, k>>
    ELSE IF k.tri[e.sym] = 0 THEN <<FALSE, k>>
    ELSE NotNew(e.sym, AnyVisible(K, k, e.list))

\* v is the value of its `visible if'.
ShownIf(K, e, v) ==
    IF v[1] = 0 THEN <<FALSE, v[2]>>
    ELSE ShownAs(K, e, IF e.sym # "" THEN sym_calc_value(K, v[2], e.sym)
                       ELSE SetPropVisible(e.prompt, CalcExpr(K, v[2], K.prop[e.prompt].vis)))

menu_is_visible(K, st, i) ==
    IF ~HasPrompt(K, i) THEN <<FALSE, st>>
    ELSE ShownIf(K, K.entry[i], CalcExpr(K, st, K.entry[i].visibility))
=============================================================================
