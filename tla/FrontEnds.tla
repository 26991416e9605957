----------------------------- MODULE FrontEnds -----------------------------
(***************************************************************************)
(* One of the four front ends with menus runs: it reads a configuration     *)
(* that does not exist yet, and the user does whatever its screen offers.   *)
(***************************************************************************)
EXTENDS Screens

M == INSTANCE Mconf
N == INSTANCE Nconf
G == INSTANCE Gconf
Q == INSTANCE Qconf

CONSTANT Programs   \* for each text those that may run

\* The screen a program begins with, and what making it calculated.
ShowItems(u, r) == st = r[2] /\ ui = [u EXCEPT !.items = r[1]]
ShowRows(u, r) == st = r[2] /\ ui = [u EXCEPT !.rows = r[1]]
ShowLists(u, rows, m) == st = m[2] /\ ui = [u EXCEPT !.rows = rows, !.menurows = m[1]]
QLists(u, c) == ShowLists(u, c[1], Q!BeginMenus(c, u))

Begin(t) ==
    \/ \E single \in BOOLEAN : "mconf" \in Programs[k] /\ ShowItems(M!Begin(single), M!Screen(t, M!Begin(single)))
    \/ \E single \in BOOLEAN : "nconf" \in Programs[k] /\ ShowItems(N!Begin(single), N!Screen(t, N!Begin(single)))
    \/ "gconf" \in Programs[k] /\ ShowRows(G!Opened, G!Begin(t))
    \/ \E view \in {"single", "symbol", "full"} :
          "qconf" \in Programs[k] /\ QLists(Q!Opened(view), Q!Begin(t, Q!Opened(view)))

Init ==
    /\ k \in DOMAIN Texts
    /\ K = conf_parse(Texts[k].names, Texts[k].text)
    /\ Begin(conf_read(K, NoValues(K), NoFile, Order[k])[2])

\* main of mconf and nconf returns; gconf has followed a null pointer.
Over ==
    /\ CASE ui.program \in {"mconf", "nconf"} -> ui.stack = <<>>
         [] ui.program = "gconf" -> ui.current = 0
         [] OTHER -> FALSE
    /\ UNCHANGED vars

Next == M!MNext \/ N!NNext \/ G!GNext \/ Q!QNext \/ Over

Spec == Init /\ [][Next]_vars

Symbols == Texts[k].names

-----------------------------------------------------------------------------
(* make menuconfig and make nconfig.                                        *)

\* What can be seen, in lists and in lists opened from these, without setting
\* anything: opened are the menus whose list has been looked at.
Listing(t, u) == ToSet((IF ui.program = "mconf" THEN M!Screen(t, u) ELSE N!Screen(t, u))[1])
InList(t, c) == Listing(t, [ui EXCEPT !.stack = <<c>>, !.all = FALSE, !.open = DOMAIN K.entry])
IsOnChoice(t, i) == SymOf(i) # "" /\ IsChoice(K, SymOf(i)) /\ t.tri[SymOf(i)] = 2

\* The lists that open from these items.
OpenFrom(t, items) ==
    {[fn |-> "conf", menu |-> x.entry] : x \in {y \in items : y.tag = "m" \/ (y.tag = "t" /\ IsMenu(y.entry))}}
      \cup {[fn |-> "choice", menu |-> x.entry] : x \in {y \in items : y.tag = "t" /\ IsOnChoice(t, y.entry)}}

\* Opening lists from lists, `seen' the entries and `opened' the lists so far.
RECURSIVE Explore(_, _, _, _)
Step(t, seen, opened, items) ==
    Explore(t, seen \cup {x.entry : x \in items}, opened, OpenFrom(t, items) \ opened)
Explore(t, seen, opened, lists) ==
    IF lists = {} THEN seen
    ELSE Step(t, seen, opened \cup lists, UNION {InList(t, c) : c \in lists})
Seen(t) == LET first == {[fn |-> "conf", menu |-> Root]} IN Explore(t, {Root}, {}, first)

Reachable(t) == Visible(t) \subseteq Seen(t)
\* Every prompt that is visible is in a list, somewhere below the first menu.
AllReachable == ui.program \in {"mconf", "nconf"} => Reachable(Fresh(st))

\* What is shown between [ and ] can be changed by a key, and what is between -
\* and - cannot, whatever was set in this list or in another since it was made.
BoxesTrue == ui.program \in {"mconf", "nconf"} => \A n \in DOMAIN ui.items :
    LET x == ui.items[n]
        s == SymOf(x.entry)
    IN /\ x.box = "open" => Fresh(sym_toggle_tristate_value(K, st, s)).tri[s] # Fresh(st).tri[s]
       /\ x.box = "fixed" => \A v \in 0..2 : Fresh(sym_set_tristate_value(K, st, s, v)[2]).tri[s] = Fresh(st).tri[s]

-----------------------------------------------------------------------------
(* make gconfig and make xconfig.                                           *)

\* Entry i has no symbol, or is the first one of its symbol.
IsFirst(i) == SymOf(i) = "" \/ \A j \in 1 .. i - 1 : SymOf(j) # SymOf(i)

\* rows are what expected begins with, at every level.
RECURSIVE Begins(_, _)
Begins(rows, expected) ==
    /\ Len(rows) <= Len(expected)
    /\ \A n \in DOMAIN rows : /\ rows[n].entry = expected[n].entry
                              /\ IsFirst(rows[n].entry) => rows[n].value = expected[n].value
                              /\ Begins(rows[n].rows, expected[n].rows)

\* The full view of gconf shows the visible entries as it would if it were made
\* anew, and none of them before one that comes earlier.  (It may lack the last
\* ones, and the second entry of a symbol keeps the value it had: the row of the
\* first one has taken SYMBOL_CHANGED away.  The values are those that are kept,
\* which need not be what the user set: with all options shown, update_tree does
\* not calculate the rows it keeps, and a click on such a row may set the value
\* that its symbol had, upon which nothing is calculated.)
RowsCurrent == (ui.program = "gconf" /\ ui.view = "full" /\ ui.opt = "normal") =>
    Begins(ui.rows, G!display_tree(st, ui, Root, FALSE)[1])

AsNew(t) ==
    /\ ui.rows = Q!updateConfigList(t, [ui EXCEPT !.rows = <<>>])[1]
    /\ ui.mode = "symbol" => ui.menurows = Q!updateMenus(t, [ui EXCEPT !.menurows = <<>>])[1]
\* The lists of qconf, which are brought up to date row by row, are those that
\* would be made from nothing.
RowsAsNew == ui.program = "qconf" => AsNew(Fresh(st))

\* The rows on the screen are those of the configuration.
RowsTrue == RowsCurrent /\ RowsAsNew

LinkShows(i, r) ==
    LET u == Q!setRootMenu(ui, Q!LinkMenu(i))
    IN r[1] => i = u.root \/ i \in EntriesOf(Q!updateConfigList(r[2], u)[1]) \cup EntriesOf(u.menurows)
\* Where a link can lead to is shown then, on the right or on the left.
LinkShown == ui.program = "qconf" => \A i \in DOMAIN K.entry : LinkShows(i, Q!Shows(st, ui.opt, i))
=============================================================================
