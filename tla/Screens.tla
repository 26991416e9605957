------------------------------ MODULE Screens ------------------------------
(***************************************************************************)
(* What the front ends with menus have in common: the configuration they   *)
(* show and change, and the screen of the one that runs (ui, a record that *)
(* is theirs: see Mconf, Nconf, Gconf and Qconf).                          *)
(***************************************************************************)
EXTENDS ConfData

CONSTANTS Texts, Order,   \* as in ConfSession
          Strings         \* what may be typed for a number or a string

VARIABLES k, K, st,       \* as in ConfSession
          ui              \* the screen

vars == <<k, K, st, ui>>

SymOf(i)    == K.entry[i].sym
Children(i) == K.entry[i].list
Type(i)     == IF HasPrompt(K, i) THEN K.prop[K.entry[i].prompt].type ELSE "unknown"
IsMenu(i)   == Type(i) = "menu"
IsBool(s)   == K.sym[s].type \in Tristates
Root        == 1

\* r tells whether entry i is visible: then it comes after those of list.
AddShown(list, i, r) == <<IF r[1] THEN Append(list, i) ELSE list, r[2]>>

\* The visible entries of list: <<entries, st>>.
Shown(t, list) ==
    Through(LAMBDA acc, i: AddShown(acc[1], i, menu_is_visible(K, acc[2], i)), <<<<>>, t>>, list)

\* The entry of the value of choice i, if it is visible: <<entry or 0, st>>.
EntryOfValue(i, r) ==
    LET is == {n \in DOMAIN r[1] : SymOf(r[1][n]) = r[2].val[SymOf(i)]}
    IN <<IF is = {} THEN 0 ELSE r[1][CHOOSE n \in is : \A m \in is : n >= m], r[2]>>
ValueEntry(t, i) == EntryOfValue(i, Shown(t, Children(i)))

\* fixup_rootmenu: the menus, and the entries outside of any, get MENU_ROOT.
RECURSIVE fixup_rootmenu(_, _)
fixup_rootmenu(i, outside) ==
    {i} \cup UNION {IF IsMenu(j) THEN fixup_rootmenu(j, FALSE)
                    ELSE IF outside THEN fixup_rootmenu(j, TRUE) ELSE {} : j \in ToSet(Children(i))}

\* A row of a tree of entries: what it shows of the symbol, the rows below it.
Row(t, i, rows) ==
    [entry |-> i, rows |-> rows,
     value |-> IF SymOf(i) = "" THEN <<>> ELSE <<t.tri[SymOf(i)], t.val[SymOf(i)]>>]

RECURSIVE EntriesOf(_)
EntriesOf(rows) == UNION {{rows[n].entry} \cup EntriesOf(rows[n].rows) : n \in DOMAIN rows}

-----------------------------------------------------------------------------
(* For the properties: what is visible, with every value calculated.        *)
CalcAll(t) == Through(LAMBDA acc, s: sym_calc_value(K, acc, s), t, Order[k])
Fresh(t)   == CalcAll(sym_clear_all_valid(K, t))
VisibleIn(f) == {i \in DOMAIN K.entry : menu_is_visible(K, f, i)[1]}
Visible(t) == VisibleIn(Fresh(t))
=============================================================================
