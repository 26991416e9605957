------------------------------- MODULE Gconf -------------------------------
(***************************************************************************)
(* make gconfig (package/config/gconf.c).  ui is a record of               *)
(*   view, opt   view_mode ("single", "split", "full") and opt_mode        *)
(*               ("normal", "prompt", "all")                               *)
(*   rows        tree2, the rows on the right                              *)
(*   left        tree1, those on the left                                  *)
(*   current, browsed, back   the menu single view shows (0 for NULL), the *)
(*               one chosen on the left, whether the Back button can be    *)
(*               pressed                                                   *)
(*   roots       the entries with MENU_ROOT                                *)
(* A row that is there already is made anew only if its symbol has          *)
(* SYMBOL_CHANGED, which the first row made of the symbol takes away.       *)
(***************************************************************************)
EXTENDS Screens

\* Whether entry i has a row: <<answer, st>>.
Shows(t, opt, i) ==
    CASE opt = "normal" -> menu_is_visible(K, t, i)
      [] opt = "prompt" -> <<HasPrompt(K, i), t>>
      [] opt = "all" -> <<HasPrompt(K, i) \/ SymOf(i) # "", t>>

Unchanged(t, i) == [t EXCEPT !.changed = @ \ {SymOf(i)}]

\* What is calculated for a row: with others than the visible entries, whether
\* this is one, the symbol, and which value of a choice is visible.
FillValues(t, i) == IF SymOf(i) # "" /\ IsChoice(K, SymOf(i)) THEN Shown(t, Children(i))[2] ELSE t
FillSymbol(t, i) == IF SymOf(i) = "" THEN t ELSE sym_calc_value(K, t, SymOf(i))
fill_row(t, opt, i) ==
    FillValues(Unchanged(FillSymbol(IF opt = "normal" THEN t ELSE menu_is_visible(K, t, i)[2], i), i), i)

\* What is below entry j, itself below i, has rows, too.
Deeper(u, i, j, left) ==
    /\ u.view = "full" \/ left \/ ~IsMenu(j)
    /\ u.view = "single" => i \in u.roots

\* display_tree: the rows of what is below entry i, in the tree on the left or
\* on the right: <<rows, st>>.  What is below an entry without a row is gone
\* through as well, but (with the entries of `normal') has none either.
RECURSIVE display_tree(_, _, _, _)
AppendRow(rows, f, j, shown, below) ==
    <<IF shown THEN Append(rows, Row(f, j, below[1])) ELSE rows, below[2]>>
DisplayBelow(u, i, j, left, rows, shown, f) ==
    AppendRow(rows, f, j, shown, IF Deeper(u, i, j, left) THEN display_tree(f, u, j, left) ELSE <<<<>>, f>>)
DisplayRow(u, i, j, left, rows, r) ==
    DisplayBelow(u, i, j, left, rows, r[1], IF r[1] THEN fill_row(r[2], u.opt, j) ELSE r[2])
DisplayEntry(u, i, j, left, rows, t) ==
    IF u.view = "split" /\ (j \in u.roots) # left THEN <<rows, t>>
    ELSE DisplayRow(u, i, j, left, rows, Shows(t, u.opt, j))
display_tree(t, u, i, left) ==
    Through(LAMBDA acc, j: DisplayEntry(u, i, j, left, acc[1], Unchanged(acc[2], j)),
            <<<<>>, t>>, Children(i))

\* update_tree: rows, of which done have been looked at and rest have not, are
\* made those of list: <<rows, st>>.
RECURSIVE update_tree(_, _, _, _, _)

\* The next row is removed; after the last one nothing more is looked at.
Drop(t, opt, done, rest, list) ==
    IF Len(rest) = 1 THEN <<done, t>> ELSE update_tree(t, opt, done, Tail(rest), list)

IsNext(rest, i) == rest # <<>> /\ Head(rest).entry = i

\* The row of the next entry, and then those below it.
UpdateBelow(opt, done, rest, list, row, below) ==
    update_tree(below[2], opt, Append(done, [row EXCEPT !.rows = below[1]]), rest, list)
UpdateRow(opt, done, rest, list, row, t) ==
    UpdateBelow(opt, done, rest, Tail(list), row, update_tree(t, opt, <<>>, row.rows, Children(Head(list))))

\* A new row, and one that is there: f has been calculated for it, or it stays.
AddRow(opt, done, rest, list, f) == UpdateRow(opt, done, rest, list, Row(f, Head(list), <<>>), f)
RefreshRow(opt, done, rest, list, f) ==
    UpdateRow(opt, done, Tail(rest), list, Row(f, Head(list), Head(rest).rows), f)
KeepRow(opt, done, rest, list, t) == UpdateRow(opt, done, Tail(rest), list, Head(rest), t)

\* Mutant of IsStale: no row is made anew.
MutantIsStale(t, i) == FALSE

IsStale(t, i) == SymOf(i) \in t.changed

\* r tells whether the entry is to have a row.
UpdateEntry(opt, done, rest, list, r) ==
    LET i == Head(list)
        found == i \in EntriesOf(done \o rest)
    IN IF ~r[1] /\ ~found THEN update_tree(r[2], opt, done, rest, Tail(list))
       ELSE IF ~r[1] \/ (found /\ ~IsNext(rest, i)) THEN Drop(r[2], opt, done, rest, list)
       ELSE IF ~found THEN AddRow(opt, done, rest, list, fill_row(r[2], opt, i))
       ELSE IF IsStale(r[2], i) THEN RefreshRow(opt, done, rest, list, fill_row(r[2], opt, i))
       ELSE KeepRow(opt, done, rest, list, r[2])

update_tree(t, opt, done, rest, list) ==
    IF list = <<>> THEN <<done \o rest, t>>
    ELSE UpdateEntry(opt, done, rest, list, Shows(t, opt, Head(list)))

display_tree_part(t, u) ==
    IF u.view = "full" THEN <<<<>>, t>>
    ELSE display_tree(t, u, IF u.view = "single" THEN u.current ELSE u.browsed, FALSE)

\* r and l are <<rows, st>>, of the right and the left tree.
Show(u, r) == st' = r[2] /\ ui' = [u EXCEPT !.rows = r[1]]
Part(t, u) == Show(u, display_tree_part(t, u))
Full(t, u) == Show(u, display_tree(t, u, Root, FALSE))
ShowLeft(u, rows, l) == st' = l[2] /\ ui' = [u EXCEPT !.left = l[1], !.current = Root, !.rows = rows]
List(t, u, rows) == ShowLeft(u, rows, display_tree(t, u, Root, TRUE))

Opened ==
    [program |-> "gconf", view |-> "full", opt |-> "normal", rows |-> <<>>, left |-> <<>>,
     current |-> Root, browsed |-> 0, back |-> FALSE, roots |-> fixup_rootmenu(Root, TRUE)]
\* <<rows, st>> as it begins.
Begin(t) == display_tree(t, Opened, Root, FALSE)

Running == ui.program = "gconf" /\ ui.current # 0 /\ UNCHANGED <<k, K>>
OnRight == EntriesOf(ui.rows)
OnLeft  == EntriesOf(ui.left)

-----------------------------------------------------------------------------
\* After a value has been set; r is the right tree after it.
Clicked(r) == IF ui.view = "full" THEN Show(ui, r) ELSE List(r[2], ui, r[1])
AfterClick(t) ==
    IF ui.view = "single" THEN Part(t, ui)
    ELSE Clicked(update_tree(t, ui.opt, <<>>, ui.rows, Children(IF ui.view = "full" THEN Root ELSE ui.browsed)))

toggle_sym_value(i) == SymOf(i) # "" /\ AfterClick(sym_toggle_tristate_value(K, st, SymOf(i)))

\* A click into the column of the value, or two on the prompt.
Toggle(i) == Running /\ i \in OnRight /\ toggle_sym_value(i)

change_sym_value(i, v) ==
    LET s == SymOf(i)
        new == IF sym_tristate_within_range(K, st, s, v) THEN v ELSE 2
    IN /\ Running /\ i \in OnRight /\ s # "" /\ IsBool(s)
       /\ AfterClick(sym_set_tristate_value(K, st, s, new)[2])

\* The text is set in whatever view as if it were the full one.
renderer_edited(i, str) ==
    /\ Running /\ i \in OnRight /\ SymOf(i) # "" /\ ~IsBool(SymOf(i))
    /\ Show(ui, update_tree(sym_set_string_value(K, st, SymOf(i), str)[2], ui.opt, <<>>, ui.rows, Children(Root)))

\* Two clicks on the prompt of a menu.
Down(i) ==
    /\ Running /\ i \in OnRight /\ IsMenu(i) /\ ui.view # "full"
    /\ Part(st, [ui EXCEPT !.current = i, !.back = TRUE])

\* The button takes one to the menu above; in the first there is none.
on_back_clicked ==
    LET up == K.entry[ui.current].parent
        to == IF IsMenu(up) THEN up ELSE K.entry[up].parent
    IN /\ Running /\ ui.back
       /\ IF ui.current = Root THEN st' = st /\ ui' = [ui EXCEPT !.current = 0]
          ELSE Part(st, [ui EXCEPT !.current = to, !.back = (to # Root)])

\* One click on the left.
Browse(i) ==
    /\ Running /\ ui.view = "split" /\ i \in OnLeft
    /\ Part(st, [ui EXCEPT !.browsed = i])

\* A second click there; l is <<rows, st>> of the left tree after it.
BrowseAnew(i, l) == Part(l[2], [ui EXCEPT !.left = l[1], !.current = i])
ToggleLeft(i) ==
    /\ Running /\ ui.view = "split" /\ i \in OnLeft /\ i = ui.browsed
    /\ BrowseAnew(i, IF SymOf(i) = "" THEN <<ui.left, st>>
                     ELSE display_tree(sym_toggle_tristate_value(K, st, SymOf(i)), ui, Root, TRUE))

on_single_clicked == Running /\ Part(st, [ui EXCEPT !.view = "single", !.current = Root])
on_split_clicked  == Running /\ List(st, [ui EXCEPT !.view = "split", !.back = FALSE], <<>>)
on_full_clicked ==
    Running /\ Full(st, [ui EXCEPT !.view = "full", !.current = Root, !.back = FALSE])

on_set_option_mode(opt) == Running /\ Full(st, [ui EXCEPT !.opt = opt, !.current = Root])

GNext ==
    \/ \E i \in DOMAIN K.entry : \/ Toggle(i) \/ Down(i) \/ Browse(i) \/ ToggleLeft(i)
                                 \/ \E v \in 0..2 : change_sym_value(i, v)
                                 \/ \E str \in Strings : renderer_edited(i, str)
    \/ on_back_clicked \/ on_single_clicked \/ on_split_clicked \/ on_full_clicked
    \/ \E opt \in {"normal", "prompt", "all"} : on_set_option_mode(opt)
=============================================================================
