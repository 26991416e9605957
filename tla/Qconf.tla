------------------------------- MODULE Qconf -------------------------------
(***************************************************************************)
(* make xconfig (package/config/qconf.cc).  ui is a record of              *)
(*   opt        optMode of both lists ("normal", "prompt", "all")          *)
(*   mode       mode of configList ("single", "symbol", "full"); that of   *)
(*              menuList is "menu" as soon as it has a rootEntry           *)
(*   root, rows   rootEntry and the rows of configList; a row that leads   *)
(*              back has entry 0                                           *)
(*   menus, menurows   those of menuList; no rootEntry is 0                *)
(*   roots      the entries with MENU_ROOT                                 *)
(* MENU_CHANGED of an entry is that a row shows another value.             *)
(***************************************************************************)
EXTENDS Screens

goParent == [entry |-> 0, rows |-> <<>>, value |-> <<>>]

\* menuSkip, the other way round.
ShowsIf(opt, i, r) ==
    <<CASE opt = "normal" -> r[1] [] opt = "prompt" -> HasPrompt(K, i) [] opt = "all" -> TRUE, r[2]>>
Shows(t, opt, i) == ShowsIf(opt, i, menu_is_visible(K, t, i))

calc(t, i) == IF SymOf(i) = "" THEN t ELSE sym_calc_value(K, t, SymOf(i))

\* Of the split view, what is on which side.
Mine(u, mode, i) ==
    CASE mode = "menu" -> i \in u.roots
      [] mode = "symbol" -> i \notin u.roots
      [] OTHER -> TRUE

\* updateMenuList: rows, of which done have been looked at and rest have not,
\* are made those of list: <<rows, st>>.
RECURSIVE updateMenuList(_, _, _, _, _, _)
IsNext(rest, i) == rest # <<>> /\ Head(rest).entry = i
Past(rest, i) == IF IsNext(rest, i) THEN Tail(rest) ELSE rest

\* The row of entry i, f calculated, and then the rows below it.
UpdateBelow(u, mode, done, rest, list, f, below) ==
    updateMenuList(below[2], u, mode, Append(done, Row(f, Head(list), below[1])),
                   Past(rest, Head(list)), Tail(list))
UpdateRow(u, mode, done, rest, list, f) ==
    LET i == Head(list)
    IN UpdateBelow(u, mode, done, rest, list, f,
           IF mode \in {"full", "menu"} \/ ~IsMenu(i)
           THEN updateMenuList(f, u, mode, <<>>, IF IsNext(rest, i) THEN Head(rest).rows ELSE <<>>, Children(i))
           ELSE <<<<>>, f>>)

\* r tells whether the entry is to have a row.
UpdateEntry(u, mode, done, rest, list, r) ==
    LET i == Head(list)
    IN IF ~r[1] THEN updateMenuList(r[2], u, mode, done, Past(rest, i), Tail(list))
       ELSE IF SymOf(i) = "" /\ Children(i) = <<>> /\ ~HasPrompt(K, i)
       THEN updateMenuList(r[2], u, mode, done, rest, Tail(list))
       ELSE UpdateRow(u, mode, done, rest, list, calc(r[2], i))

updateMenuList(t, u, mode, done, rest, list) ==
    IF list = <<>> THEN <<done \o rest, t>>
    ELSE IF ~Mine(u, mode, Head(list))
    THEN updateMenuList(t, u, mode, done, Past(rest, Head(list)), Tail(list))
    ELSE UpdateEntry(u, mode, done, rest, list, Shows(t, u.opt, Head(list)))

\* The first rows of configList: one that leads back, and of a menu that is a
\* symbol the row of the symbol, with the others below it.
LeadsBack(u) == u.root # Root /\ (u.mode = "single" \/ (u.mode = "symbol" /\ K.entry[u.root].parent # Root))
IsOwnRow(u) == /\ u.mode = "single" \/ (u.mode = "symbol" /\ u.root \notin u.roots)
               /\ SymOf(u.root) # "" /\ HasPrompt(K, u.root)

OwnRow(u, first, rest, f, below) ==
    <<first \o <<Row(f, u.root, below[1])>> \o (IF rest = <<>> THEN <<>> ELSE Tail(rest)), below[2]>>
UpdateOwn(u, first, rest, f) ==
    OwnRow(u, first, rest, f,
        updateMenuList(f, u, u.mode, <<>>, IF rest = <<>> THEN <<>> ELSE Head(rest).rows, Children(u.root)))

\* updateList of configList.
updateConfigList(t, u) ==
    LET first == IF LeadsBack(u) THEN <<goParent>> ELSE <<>>
        rest == IF LeadsBack(u) /\ u.rows # <<>> THEN Tail(u.rows) ELSE u.rows
    IN IF IsOwnRow(u) THEN UpdateOwn(u, first, rest, calc(t, u.root))
       ELSE updateMenuList(t, u, u.mode, first, rest, Children(u.root))

updateMenus(t, u) ==
    IF u.menus = 0 THEN <<<<>>, t>> ELSE updateMenuList(t, u, "menu", <<>>, u.menurows, Children(Root))

\* ConfigView::updateList, and a list after the other.
ShowMenus(u, rows, m) == st' = m[2] /\ ui' = [u EXCEPT !.rows = rows, !.menurows = m[1]]
ThenMenus(u, c) == ShowMenus(u, c[1], updateMenus(c[2], u))
updateBoth(t, u) == ThenMenus(u, updateConfigList(t, u))
ShowConfig(u, c) == st' = c[2] /\ ui' = [u EXCEPT !.rows = c[1]]
updateOne(t, u) == ShowConfig(u, updateConfigList(t, u))

\* setRootMenu of configList: what it shows then.
setRootMenu(u, i) == IF i = u.root \/ ~IsMenu(i) THEN u ELSE [u EXCEPT !.root = i, !.rows = <<>>]

menu_get_parent_menu(i) ==
    LET Up[j \in DOMAIN K.entry] == IF j = Root \/ IsMenu(j) THEN j ELSE Up[K.entry[j].parent] IN Up[i]

\* ConfigMainWindow starts with the split view, or with another one.
Opened(view) ==
    [program |-> "qconf", opt |-> "normal", mode |-> view, root |-> Root, rows |-> <<>>,
     menus |-> IF view = "symbol" THEN Root ELSE 0, menurows |-> <<>>,
     roots |-> fixup_rootmenu(Root, TRUE)]
\* The rows of configList and of menuList as it begins, each with st.
Begin(t, u) == updateConfigList(t, u)
BeginMenus(c, u) == updateMenus(c[2], u)

Running == ui.program = "qconf" /\ UNCHANGED <<k, K>>
Rows == EntriesOf(ui.rows) \ {0}
Rows2 == EntriesOf(ui.menurows)

-----------------------------------------------------------------------------
setValue(i, v) ==
    /\ Running /\ i \in Rows \cup Rows2 /\ SymOf(i) # "" /\ IsBool(SymOf(i))
    /\ Settable(K, st, SymOf(i), v)
    /\ updateBoth(sym_set_tristate_value(K, st, SymOf(i), v)[2], ui)

\* t: what toggling symbol s has made of st.
Toggled(s, t) == IF t.deftri[s] # st.tri[s] THEN updateBoth(t, ui) ELSE st' = t /\ ui' = ui
changeValue(i) ==
    /\ Running /\ i \in Rows \cup Rows2 /\ SymOf(i) # "" /\ IsBool(SymOf(i))
    /\ Toggled(SymOf(i), sym_toggle_tristate_value(K, st, SymOf(i)))

\* A string or number is changed in the row, or below the list.
okRename(i, str) ==
    /\ Running /\ i \in Rows \cup Rows2 /\ SymOf(i) # "" /\ ~IsBool(SymOf(i))
    /\ updateBoth(sym_set_string_value(K, st, SymOf(i), str)[2], ui)

\* A menu is chosen in menuList, or opened in configList.
changeMenu(i) ==
    /\ Running /\ IsMenu(i)
    /\ \/ ui.mode = "symbol" /\ i \in Rows2
       \/ ui.mode # "full" /\ i \in Rows \ {ui.root}
    /\ updateOne(st, setRootMenu(ui, i))

\* The row that leads back, the button, or escape.
goBack ==
    /\ Running /\ ui.root # Root
    /\ updateOne(st, setRootMenu(ui, menu_get_parent_menu(K.entry[ui.root].parent)))

\* The other views begin at the root; that of two lists shows menuList.
showView(view) ==
    LET u == [setRootMenu(ui, Root) EXCEPT !.mode = view]
        v == IF view = "symbol" THEN [u EXCEPT !.menus = Root] ELSE u
    IN /\ Running
       /\ IF view = "symbol" THEN updateBoth(st, v) ELSE updateOne(st, v)

setOptionMode(opt) == Running /\ updateBoth(st, [ui EXCEPT !.opt = opt])

\* Mutant of LinkMenu: the entry above is taken to be the menu.
MutantLink(i) == IF ui.mode = "single" \/ i \in ui.roots THEN i ELSE K.entry[i].parent

\* A link in the help text, or a symbol found by searching: the list where the
\* entry is selected, if it has a row there, and what configList shows then.
LinkMenu(i) ==
    CASE ui.mode = "single" -> menu_get_parent_menu(i)
      [] ui.mode = "symbol" /\ i \in ui.roots -> i
      [] ui.mode = "symbol" /\ i \notin ui.roots -> menu_get_parent_menu(K.entry[i].parent)
      [] OTHER -> ui.root

LinkTo(i, r) == r[1] /\ updateOne(r[2], setRootMenu(ui, LinkMenu(i)))
setMenuLink(i) == Running /\ LinkTo(i, Shows(st, ui.opt, i))

QNext ==
    \/ \E i \in DOMAIN K.entry : \/ changeValue(i) \/ changeMenu(i) \/ setMenuLink(i)
                                 \/ \E v \in 0..2 : setValue(i, v)
                                 \/ \E str \in Strings : okRename(i, str)
    \/ goBack
    \/ \E view \in {"single", "symbol", "full"} : showView(view)
    \/ \E opt \in {"normal", "prompt", "all"} : setOptionMode(opt)
=============================================================================
