------------------------------- MODULE Mconf -------------------------------
(***************************************************************************)
(* make menuconfig (package/config/mconf.c).  ui is a record of            *)
(*   stack     the calls of conf, conf_choice and conf_string that are open, *)
(*             each [fn, menu], the innermost last                         *)
(*   items     the list the innermost one shows: of each item the entry, the *)
(*             tag, and the box around its value                           *)
(*   all, single, open   show_all_options, single_menu_mode, the menus with  *)
(*             data set                                                    *)
(* A key press and the rebuilding of the list after it are one step.        *)
(***************************************************************************)
EXTENDS Screens

Item(i, tag, box) == [entry |-> i, tag |-> tag, box |-> box]
Box(t, s) == IF sym_is_changable(K, t, s) THEN "open" ELSE "fixed"

\* The choice i, whose value is shown by entry def[1]: <<items, def[1], st>>.
ChoiceItem(i, def) ==
    <<<<IF sym_is_changable(K, def[2], SymOf(i)) THEN Item(i, "t", "open")
        ELSE Item(i, IF def[1] # 0 THEN "t" ELSE ":", "none")>>, def[1], def[2]>>

SymbolItem(t, u, i) ==
    LET s == SymOf(i) IN
    IF i = u.current THEN Item(i, ":", "none")
    ELSE IF IsChoiceValue(K, s) /\ t.tri[s] = 2 THEN Item(i, ":", "none")
    ELSE IF IsBool(s) THEN Item(i, "t", Box(t, s)) ELSE Item(i, "s", "none")

EntryItems(t, u, i) ==
    IF SymOf(i) # "" THEN <<SymbolItem(t, u, i)>>
    ELSE IF i = u.current THEN <<>>
    ELSE <<IF IsMenu(i) THEN Item(i, "m", "none") ELSE Item(i, ":", "none")>>

\* What is below entry i is another list.
Closed(u, i) ==
    /\ IsMenu(i) /\ i # u.current
    /\ IF SymOf(i) = "" THEN ~(u.single /\ i \in u.open) ELSE IsBool(SymOf(i))

\* b is <<items, st>> of what comes after the items.
Before(items, b) == <<items \o b[1], b[2]>>

RECURSIVE build_conf(_, _, _)
BuildAll(t, u, list) ==
    Through(LAMBDA acc, i: Before(acc[1], build_conf(acc[2], u, i)), <<<<>>, t>>, list)
BuildBelow(t, u, i) == IF Closed(u, i) THEN <<<<>>, t>> ELSE BuildAll(t, u, Children(i))

\* Below a choice that is y only its value is listed, with what is below that.
BuildChoice(u, i, c) ==
    Before(c[1], IF c[3].tri[SymOf(i)] # 2 THEN BuildBelow(c[3], u, i)
                 ELSE IF c[2] # 0 /\ Children(c[2]) # <<>> THEN build_conf(c[3], u, c[2])
                 ELSE <<<<>>, c[3]>>)

\* r tells whether entry i is visible.
BuildEntry(u, i, r) ==
    IF (u.all /\ ~HasPrompt(K, i)) \/ (~u.all /\ ~r[1]) THEN <<<<>>, r[2]>>
    ELSE IF SymOf(i) # "" /\ IsChoice(K, SymOf(i))
    THEN BuildChoice(u, i, ChoiceItem(i, ValueEntry(r[2], i)))
    ELSE Before(EntryItems(r[2], u, i), BuildBelow(r[2], u, i))

\* The items of entry i and what is listed below it: <<items, st>>.  u is
\* [all, single, open, current].
build_conf(t, u, i) == BuildEntry(u, i, menu_is_visible(K, t, i))

\* The values conf_choice shows.
ValueItem(t, i, j) == Item(j, IF SymOf(j) = "" THEN ":" ELSE
                              IF SymOf(j) = t.val[SymOf(i)] THEN "X" ELSE "", "none")
ValueItems(i, r) == <<[n \in DOMAIN r[1] |-> ValueItem(r[2], i, r[1][n])], r[2]>>
ChoiceItems(t, i) == ValueItems(i, Shown(t, Children(i)))

\* What the innermost loop lists: <<items, st>>.
Screen(t, u) ==
    IF u.stack = <<>> THEN <<<<>>, t>>
    ELSE LET i == Last(u.stack).menu IN
         CASE Last(u.stack).fn = "conf" ->
                 build_conf(t, [all |-> u.all, single |-> u.single, open |-> u.open, current |-> i], i)
           [] Last(u.stack).fn = "choice" -> ChoiceItems(t, i)
           [] OTHER -> <<<<>>, t>>

Top == Last(ui.stack)

\* Mutant of Display: a list as long as before is not shown anew.
MutantDisplay(u, r) ==
    st' = r[2] /\ ui' = [u EXCEPT !.items = IF u.stack = ui.stack /\ Len(r[1]) = Len(@) THEN @ ELSE r[1]]

Display(u, r) == st' = r[2] /\ ui' = [u EXCEPT !.items = r[1]]

\* The next round of the innermost loop, with t set and the screen u.
Redraw(t, u) == Display(u, Screen(t, u))

Begin(single) == [program |-> "mconf", stack |-> <<[fn |-> "conf", menu |-> Root]>>, items |-> <<>>,
                  all |-> FALSE, single |-> single, open |-> {}]
Call(fn, i) == Redraw(st, [ui EXCEPT !.stack = Append(@, [fn |-> fn, menu |-> i])])
In(fn) == ui.program = "mconf" /\ ui.stack # <<>> /\ Top.fn = fn
Items == IF ui.program = "mconf" THEN ToSet(ui.items) ELSE {}

-----------------------------------------------------------------------------
\* What opens below item x when it is selected: <<function, entry>>, or nothing.
Opens(x) ==
    LET i == x.entry s == SymOf(i) IN
    CASE x.tag = "m" /\ ~ui.single -> <<"conf", i>>
      [] x.tag = "t" /\ IsChoice(K, s) /\ st.tri[s] = 2 -> <<"choice", i>>
      [] x.tag = "t" /\ ~(IsChoice(K, s) /\ st.tri[s] = 2) /\ IsMenu(i) -> <<"conf", i>>
      [] x.tag = "s" -> <<"string", i>>
      [] OTHER -> <<>>

\* conf: enter.
Select(x) ==
    /\ In("conf") /\ Opens(x) # <<>>
    /\ Call(Opens(x)[1], Opens(x)[2])
    /\ UNCHANGED <<k, K>>

\* conf: enter on a menu, in one menu: it is opened or closed.
SelectOpen(x) ==
    /\ In("conf") /\ x.tag = "m" /\ ui.single
    /\ Redraw(st, [ui EXCEPT !.open = IF x.entry \in @ THEN @ \ {x.entry} ELSE @ \cup {x.entry}])
    /\ UNCHANGED <<k, K>>

\* conf: y, n and m.  What cannot be y is tried as m.
SetTo(x, v) ==
    LET s == SymOf(x.entry)
        to == IF v = 2 /\ ~Settable(K, st, s, 2) THEN 1 ELSE v
    IN /\ In("conf") /\ x.tag = "t"
       /\ Redraw(sym_set_tristate_value(K, st, s, to)[2], ui)
       /\ UNCHANGED <<k, K>>

\* conf: the space bar.
Toggle(x) ==
    /\ In("conf")
    /\ \/ x.tag = "t" /\ Redraw(sym_toggle_tristate_value(K, st, SymOf(x.entry)), ui)
       \/ x.tag = "m" /\ Call("conf", x.entry)
    /\ UNCHANGED <<k, K>>

\* conf: z.
ShowAll ==
    /\ In("conf")
    /\ Redraw(st, [ui EXCEPT !.all = ~@])
    /\ UNCHANGED <<k, K>>

Exit ==
    /\ ui.program = "mconf" /\ ui.stack # <<>>
    /\ Redraw(st, [ui EXCEPT !.stack = Front(@)])
    /\ UNCHANGED <<k, K>>

conf_choice(x) ==
    /\ In("choice") /\ SymOf(x.entry) # ""
    /\ Redraw(sym_set_tristate_value(K, st, SymOf(x.entry), 2)[2], [ui EXCEPT !.stack = Front(@)])
    /\ UNCHANGED <<k, K>>

\* r tells whether the string was accepted; otherwise it is asked for again.
Entered(r) == r[1] /\ Redraw(r[2], [ui EXCEPT !.stack = Front(@)])
conf_string(str) ==
    /\ In("string")
    /\ Entered(sym_set_string_value(K, st, SymOf(Top.menu), str))
    /\ UNCHANGED <<k, K>>

MNext ==
    \/ \E x \in Items : Select(x) \/ SelectOpen(x) \/ Toggle(x) \/ conf_choice(x) \/ \E v \in 0..2 : SetTo(x, v)
    \/ ShowAll \/ Exit
    \/ \E str \in Strings : conf_string(str)
=============================================================================
