------------------------------- MODULE Nconf -------------------------------
(***************************************************************************)
(* make nconfig (package/config/nconf.c): ui as in Mconf, with exit for    *)
(* global_exit.  Where the cursor is in the list, which moving and         *)
(* searching decide, is any item.                                           *)
(***************************************************************************)
EXTENDS Screens

Item(i, tag, box) == [entry |-> i, tag |-> tag, box |-> box]
Box(t, s) == IF sym_is_changable(K, t, s) THEN "open" ELSE "fixed"

\* What is listed of entry i itself: <<items, the value of a choice, st>>.
OwnChoice(i, def) ==
    LET free == sym_is_changable(K, def[2], SymOf(i))
    IN <<<<Item(i, IF free \/ def[1] # 0 THEN "t" ELSE ":", IF free THEN "open" ELSE "none")>>, def[1], def[2]>>
Own(t, u, i) ==
    LET s == SymOf(i)
    IN IF s = "" THEN <<IF i = u.current \/ ~HasPrompt(K, i) THEN <<>>
                        ELSE <<Item(i, IF IsMenu(i) THEN "m" ELSE ":", "none")>>, 0, t>>
       ELSE IF IsChoice(K, s) THEN OwnChoice(i, ValueEntry(t, i))
       ELSE IF i = u.current \/ (IsChoiceValue(K, s) /\ t.tri[s] = 2)
       THEN <<<<Item(i, ":", "none")>>, 0, t>>
       ELSE <<<<IF IsBool(s) THEN Item(i, "t", Box(t, s)) ELSE Item(i, "s", "none")>>, 0, t>>

\* Mutant of Stops: nothing is below a menu in its own list either.
MutantStops(u, i) ==
    /\ IsMenu(i) /\ i # Root
    /\ IF SymOf(i) = "" THEN ~(u.single /\ i \in u.open) ELSE IsBool(SymOf(i))

\* What is below is another list.
Stops(u, i) ==
    /\ IsMenu(i) /\ i # u.current
    /\ IF SymOf(i) = "" THEN ~(u.single /\ i \in u.open) ELSE IsBool(SymOf(i))

\* own is what is listed of entry i: what comes below.
ListedBelow(u, i, own) ==
    LET s == SymOf(i)
    IN IF s # "" /\ IsChoice(K, s) /\ own[3].tri[s] = 2
       THEN IF own[2] # 0 /\ Children(own[2]) # <<>> THEN <<own[2]>> ELSE <<>>
       ELSE IF Stops(u, i) THEN <<>> ELSE Children(i)

\* b is <<items, st>> of what comes after the items.
Before(items, b) == <<items \o b[1], b[2]>>

RECURSIVE build_conf(_, _, _)
BuildBelow(u, own, list) ==
    Through(LAMBDA acc, j: Before(acc[1], build_conf(acc[2], u, j)), <<own[1], own[3]>>, list)
BuildOwn(u, i, own) == BuildBelow(u, own, ListedBelow(u, i, own))

\* r tells whether entry i is visible.
BuildEntry(u, i, r) ==
    IF ~u.all /\ ~r[1] THEN <<<<>>, r[2]>> ELSE BuildOwn(u, i, Own(r[2], u, i))

\* The items of entry i and below it, hidden ones only if all are shown:
\* <<items, st>>.
build_conf(t, u, i) == BuildEntry(u, i, menu_is_visible(K, t, i))

\* What conf_choice shows: hidden values, too, if all are shown.
ValueItems(r) == <<[n \in DOMAIN r[1] |-> Item(r[1][n], ":", "none")], r[2]>>
ChoiceItems(t, u, i) == ValueItems(IF u.all THEN <<Children(i), t>> ELSE Shown(t, Children(i)))

\* What the innermost loop lists: <<items, st>>.
Screen(t, u) ==
    IF u.stack = <<>> THEN <<<<>>, t>>
    ELSE LET i == Last(u.stack).menu IN
         CASE Last(u.stack).fn = "conf" ->
                 build_conf(t, [all |-> u.all, single |-> u.single, open |-> u.open, current |-> i], i)
           [] Last(u.stack).fn = "choice" -> ChoiceItems(t, u, i)
           [] OTHER -> <<<<>>, t>>

Top == Last(ui.stack)

Display(u, r) == st' = r[2] /\ ui' = [u EXCEPT !.items = r[1]]
Redraw(t, u) == Display(u, Screen(t, u))

Begin(single) == [program |-> "nconf", stack |-> <<[fn |-> "conf", menu |-> Root]>>, items |-> <<>>,
                  all |-> FALSE, single |-> single, open |-> {}]
Call(t, fn, i) == Redraw(t, [ui EXCEPT !.stack = Append(@, [fn |-> fn, menu |-> i])])
In(fn) == ui.program = "nconf" /\ ui.stack # <<>> /\ Top.fn = fn
Items == IF ui.program = "nconf" THEN ToSet(ui.items) ELSE {}

-----------------------------------------------------------------------------
\* A key does nothing to a hidden item: <<answer, st>>.
Sees(x) == menu_is_visible(K, st, x.entry)

\* What opens below item x, of the st t: <<function, entry>>, or nothing.
Opens(x, t) ==
    LET i == x.entry s == SymOf(i)
        value == IsChoice(K, s) /\ t.tri[s] = 2
    IN CASE x.tag = "m" /\ ~ui.single -> <<"conf", i>>
         [] x.tag = "t" /\ value -> <<"choice", i>>
         [] x.tag = "t" /\ ~value /\ IsMenu(i) -> <<"conf", i>>
         [] x.tag = "s" -> <<"string", i>>
         [] OTHER -> <<>>

\* Enter and the right arrow key; r is what Sees says of the item.
SelectSeen(x, enter, r) ==
    LET i == x.entry
    IN /\ r[1]
       /\ \/ Opens(x, r[2]) # <<>> /\ Call(r[2], Opens(x, r[2])[1], Opens(x, r[2])[2])
          \/ /\ x.tag = "m" /\ ui.single
             /\ Redraw(r[2], [ui EXCEPT !.open = IF i \in @ THEN @ \ {i} ELSE @ \cup {i}])
          \/ /\ x.tag = "t" /\ Opens(x, r[2]) = <<>> /\ enter
             /\ Redraw(sym_toggle_tristate_value(K, r[2], SymOf(i)), ui)
Select(x, enter) ==
    /\ In("conf")
    /\ SelectSeen(x, enter, Sees(x))
    /\ UNCHANGED <<k, K>>

\* The space bar.
ToggleSeen(x, r) ==
    /\ r[1]
    /\ \/ x.tag = "t" /\ Redraw(sym_toggle_tristate_value(K, r[2], SymOf(x.entry)), ui)
       \/ x.tag = "m" /\ Call(r[2], "conf", x.entry)
Toggle(x) ==
    /\ In("conf")
    /\ ToggleSeen(x, Sees(x))
    /\ UNCHANGED <<k, K>>

\* y, n and m.  What cannot be y is tried as m.
SetSeen(x, v, r) ==
    LET s == SymOf(x.entry)
        to == IF v = 2 /\ ~Settable(K, r[2], s, 2) THEN 1 ELSE v
    IN r[1] /\ Redraw(sym_set_tristate_value(K, r[2], s, to)[2], ui)
SetTo(x, v) ==
    /\ In("conf") /\ x.tag = "t"
    /\ SetSeen(x, v, Sees(x))
    /\ UNCHANGED <<k, K>>

\* F4, in a menu or a choice.
handle_f4(all) ==
    /\ ui.program = "nconf" /\ ui.stack # <<>> /\ Top.fn # "string"
    /\ Redraw(st, [ui EXCEPT !.all = all])
    /\ UNCHANGED <<k, K>>

\* Escape, and the left arrow key or F5 except in the first menu; the first
\* menu is left by do_exit.
Back ==
    /\ ui.program = "nconf" /\ ui.stack # <<>>
    /\ Redraw(st, [ui EXCEPT !.stack = Front(@)])
    /\ UNCHANGED <<k, K>>

\* F9, when do_exit has set global_exit: every open call returns.
handle_f9 ==
    /\ ui.program = "nconf" /\ ui.stack # <<>> /\ Top.fn # "string"
    /\ Redraw(st, [ui EXCEPT !.stack = <<>>])
    /\ UNCHANGED <<k, K>>

Chosen(x, r) ==
    r[1] /\ Redraw(sym_set_tristate_value(K, r[2], SymOf(x.entry), 2)[2], [ui EXCEPT !.stack = Front(@)])
conf_choice(x) ==
    /\ In("choice") /\ SymOf(x.entry) # ""
    /\ Chosen(x, Sees(x))
    /\ UNCHANGED <<k, K>>

\* r tells whether the string was accepted; otherwise it is asked for again.
Entered(r) == r[1] /\ Redraw(r[2], [ui EXCEPT !.stack = Front(@)])
conf_string(str) ==
    /\ In("string")
    /\ Entered(sym_set_string_value(K, st, SymOf(Top.menu), str))
    /\ UNCHANGED <<k, K>>

NNext ==
    \/ \E x \in Items : \/ \E enter \in BOOLEAN : Select(x, enter)
                        \/ Toggle(x) \/ conf_choice(x) \/ \E v \in 0..2 : SetTo(x, v)
    \/ \E all \in BOOLEAN : handle_f4(all)
    \/ Back \/ handle_f9
    \/ \E str \in Strings : conf_string(str)
=============================================================================
