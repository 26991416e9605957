----------------------------- MODULE Questions ------------------------------
(***************************************************************************)
(* conf, the program that asks (package/config/conf.c): it walks the menus *)
(* and asks for every symbol, or only for the new ones, again and again    *)
(* until there is none; it lists the new ones; it refuses to ask where     *)
(* nobody can answer.                                                      *)
(*                                                                         *)
(* The recursive functions conf and check_conf are a stack of what is      *)
(* still to be done, each a pair of a function and a menu entry.  A        *)
(* question answered by something that is not accepted is asked again:     *)
(* nothing changes, so it is no step here.                                 *)
(***************************************************************************)
EXTENDS ConfData

CONSTANTS Texts, Order, Files,   \* as in ConfSession
          Strings                \* what may be typed for a number or a string

VARIABLES k, K, st, file,        \* as in ConfSession
          mode,                  \* input_mode
          sync,                  \* sync_kconfig: it was started as silentoldconfig
          tty,                   \* valid_stdin
          stack,                 \* what is still to be done
          root,                  \* rootEntry, 0 for NULL
          cnt,                   \* conf_cnt # 0
          rounds,                \* how often main has begun its loop (not in the code)
          listed,                \* the symbols listnewconfig printed
          loaded,                \* st as conf_read left it
          outcome                \* "running", "done", "refused" or "aborted"

vars == <<k, K, st, file, mode, sync, tty, stack, root, cnt, rounds, listed, loaded, outcome>>

Names  == Texts[k].names
Asking == {"oldconfig", "silentoldconfig"}
Do(f, list)   == [n \in DOMAIN list |-> <<f, list[n]>>]
Children(i)   == K.entry[i].list
SymOf(i)      == K.entry[i].sym
IsMenu(i)     == HasPrompt(K, i) /\ K.prop[K.entry[i].prompt].type = "menu"
New(t, s)     == s \notin t.has
Fun           == stack[1][1]
Here            == stack[1][2]
Busy(f)       == outcome = "running" /\ stack # <<>> /\ Fun = f

menu_get_parent_menu(i) ==
    LET Up[j \in DOMAIN K.entry] == IF j = 1 \/ IsMenu(j) THEN j ELSE Up[K.entry[j].parent] IN Up[i]

\* sync_kconfig, and an environment that forbids to update silently.
Refuses(t) == sync /\ t.dirty

Init ==
    /\ k \in DOMAIN Texts
    /\ K = conf_parse(Texts[k].names, Texts[k].text)
    /\ mode \in {"oldaskconfig", "listnewconfig", "oldnoconfig"} \cup Asking
    /\ sync = (mode = "silentoldconfig")
    /\ tty \in {TRUE, ~sync}
    /\ file \in {f \in Files[k] : sync => f # NoFile}
    /\ st = conf_read(K, NoValues(K), file, Order[k])[2]
    /\ loaded = st
    /\ stack = IF mode = "oldaskconfig" THEN <<<<"conf", 1>>>> ELSE <<<<"check", 1>>>>
    /\ root = IF mode = "oldaskconfig" THEN 1 ELSE 0
    /\ cnt = FALSE /\ rounds = IF mode = "oldaskconfig" THEN 0 ELSE 1
    /\ listed = {}
    /\ outcome \in {"running"} \cup (IF Refuses(st) THEN {"refused"} ELSE {})

Goes(t, items) ==
    /\ st' = t
    /\ stack' = items \o Tail(stack)
    /\ UNCHANGED <<k, K, file, mode, sync, tty, rounds, loaded>>

Same == UNCHANGED <<root, cnt, listed, outcome>>

\* conf: r tells whether the entry is visible.
Visit(r) ==
    LET s == SymOf(Here)
    IN Goes(r[2],
            IF ~r[1] THEN <<>>
            ELSE IF IsMenu(Here) /\ mode \in {"silentoldconfig", "listnewconfig", "oldnoconfig"} /\ root # Here
                 THEN <<<<"check", Here>>>>
            ELSE IF s = "" THEN Do("conf", Children(Here))
            ELSE IF IsChoice(K, s) THEN <<<<"choice", Here>>, <<"after", Here>>>>
            ELSE <<<<"ask", Here>>>> \o Do("conf", Children(Here)))

conf ==
    /\ Busy("conf")
    /\ Visit(menu_is_visible(K, st, Here))
    /\ Same

\* After a choice only that of modules goes on to its entries.
after_choice ==
    /\ Busy("after")
    /\ Goes(st, IF st.tri[SymOf(Here)] = 1 THEN Do("conf", Children(Here)) ELSE <<>>)
    /\ Same

Answerable(t, s) == sym_is_changable(K, t, s) \/ (IsChoice(K, s) /\ t.tri[s] = 2)

\* The choices have no names.
Printable(s) == ~IsChoice(K, s) /\ ~IsChoiceValue(K, s)

\* check_conf: r tells whether the entry is visible.
CheckSeen(r) ==
    LET s == SymOf(Here)
        new == r[1] /\ s # "" /\ New(r[2], s) /\ Answerable(r[2], s)
        parent == menu_get_parent_menu(Here)
        asks == new /\ mode \in Asking
    IN /\ Goes(r[2], (IF asks THEN <<<<"conf", parent>>>> ELSE <<>>) \o
                     (IF r[1] THEN Do("check", Children(Here)) ELSE <<>>))
       /\ root' = IF asks THEN parent ELSE root
       /\ cnt' = (cnt \/ asks)
       /\ listed' = IF new /\ mode = "listnewconfig" /\ Printable(s)
                    THEN listed \cup {s} ELSE listed
       /\ UNCHANGED outcome

check_conf ==
    /\ Busy("check")
    /\ CheckSeen(menu_is_visible(K, st, Here))

-----------------------------------------------------------------------------
\* conf_askvalue: whether there is a question at all.
Asks(s) == sym_is_changable(K, st, s) /\ (mode = "oldaskconfig" \/ New(st, s))

Unasked ==
    /\ Busy("ask") /\ ~Asks(SymOf(Here))
    /\ Goes(st, <<>>)
    /\ Same

Answers == tty

\* What is typed, or nothing to keep the value, is taken: r = <<so, st>>.
Accepts(r) == r[1] /\ Goes(r[2], <<>>)

conf_sym ==
    LET s == SymOf(Here) IN
    /\ Busy("ask") /\ Asks(s) /\ Answers
    /\ K.sym[s].type \in Tristates
    /\ \E v \in 0..2 : Accepts(sym_set_tristate_value(K, st, s, v))
    /\ Same

conf_string ==
    LET s == SymOf(Here) IN
    /\ Busy("ask") /\ Asks(s) /\ Answers
    /\ K.sym[s].type \notin Tristates
    /\ \E str \in Strings \cup {st.val[s]} : Accepts(sym_set_string_value(K, st, s, str))
    /\ Same

\* The first half of conf_choice: whether the choice itself can be set.
conf_choice ==
    LET s == SymOf(Here) IN
    /\ Busy("choice")
    /\ Goes(st, (IF sym_is_changable(K, st, s) THEN <<<<"ask", Here>>>> ELSE <<>>) \o
                <<<<"list", Here, New(st, s)>>>>)
    /\ Same

\* The values that are offered, <<entries, st>>.
Offer(list, j, r) == <<IF r[1] /\ SymOf(j) # "" THEN Append(list, j) ELSE list, r[2]>>
Offered(t, i) ==
    Through(LAMBDA acc, j: Offer(acc[1], j, menu_is_visible(K, acc[2], j)), <<<<>>, t>>, Children(i))

\* Mutant of Picks: an old choice is the first that is offered.
MutantPicks(list, def, new) == IF Len(list) = 1 \/ (mode \in Asking /\ ~new) THEN {1} ELSE 1..Len(list)

\* The only value, the old one, or what is typed; nothing typed is the default.
Picks(list, def, new) ==
    IF Len(list) = 1 THEN {1} ELSE IF mode \in Asking /\ ~new THEN {def} ELSE 1..Len(list)

\* off is <<the entries offered, st>>.
Pick(off) ==
    LET list == off[1]
        old == {n \in DOMAIN list : SymOf(list[n]) = off[2].val[SymOf(Here)]}
        def == IF old = {} THEN 0 ELSE CHOOSE n \in old : \A m \in old : n >= m
        new == stack[1][3]
    IN /\ Answers \/ Len(list) = 1 \/ ~new
       /\ \E n \in Picks(list, def, new) \cap DOMAIN list :
              Goes(sym_set_tristate_value(K, off[2], SymOf(list[n]), 2)[2],
                   Do("conf", Children(list[n])))

ListIfOn(t) == IF t.tri[SymOf(Here)] # 2 THEN Goes(t, <<>>) ELSE Pick(Offered(t, Here))

\* The second half of conf_choice: one of its values.
list_choice ==
    /\ Busy("list")
    /\ ListIfOn(sym_calc_value(K, st, SymOf(Here)))
    /\ Same

\* check_stdin: silentoldconfig that is no terminal ends at the first question.
ListAsks(t) == t.tri[SymOf(Here)] = 2 /\ Len(Offered(t, Here)[1]) # 1
check_stdin ==
    /\ ~tty
    /\ \/ Busy("ask") /\ Asks(SymOf(Here))
       \/ Busy("list") /\ stack[1][3] /\ ListAsks(sym_calc_value(K, st, SymOf(Here)))
    /\ outcome' = "aborted"
    /\ UNCHANGED <<k, K, st, file, mode, sync, tty, stack, root, cnt, rounds, listed, loaded>>

-----------------------------------------------------------------------------
\* Mutant of Again: once is enough.
MutantAgain == mode = "oldaskconfig"

Again == mode = "oldaskconfig" \/ (cnt /\ mode \in Asking)

\* The loop of main: after oldaskconfig, and as long as there was a new symbol,
\* the menus are looked through once more.
Loop ==
    /\ outcome = "running" /\ stack = <<>> /\ Again
    /\ mode' = IF mode = "oldaskconfig" THEN "silentoldconfig" ELSE mode
    /\ cnt' = FALSE /\ rounds' = rounds + 1
    /\ stack' = <<<<"check", 1>>>>
    /\ UNCHANGED <<k, K, st, file, sync, tty, root, listed, loaded, outcome>>

Save(w) == file' = w[1] /\ st' = [w[2] EXCEPT !.dirty = FALSE]
\* The configuration is written, by silentoldconfig only if it has changed.
Finish ==
    /\ outcome = "running" /\ stack = <<>> /\ ~Again
    /\ outcome' = "done"
    /\ IF mode = "listnewconfig" \/ (sync /\ ~st.dirty)
       THEN UNCHANGED <<st, file>> ELSE Save(Written(K, st))
    /\ UNCHANGED <<k, K, mode, sync, tty, stack, root, cnt, rounds, listed, loaded>>

Over == outcome # "running" /\ UNCHANGED vars

Next == \/ conf \/ after_choice \/ check_conf \/ Unasked \/ conf_sym \/ conf_string
        \/ conf_choice \/ list_choice \/ check_stdin \/ Loop \/ Finish \/ Over

Spec == Init /\ [][Next]_vars
-----------------------------------------------------------------------------
CalcAll(t) == Through(LAMBDA acc, s: sym_calc_value(K, acc, s), t, Order[k])
Fresh(t) == CalcAll(sym_clear_all_valid(K, t))
\* The symbols the user could be asked for, and has not been; f has every value.
UnansweredIn(f) ==
    {s \in {K.entry[i].sym : i \in {j \in DOMAIN K.entry : menu_is_visible(K, f, j)[1]}} \ {""} :
        New(f, s) /\ Answerable(f, s)}
Unanswered(t) == UnansweredIn(Fresh(t))

\* When all questions are answered no answer has brought up a new one that was
\* not asked, above or below: a second run has nothing to ask.
AllAnswered == outcome = "done" /\ mode \in Asking => Unanswered(st) = {}

\* What was set in the file stays as it was, whatever is answered for the new
\* symbols; a choice keeps its value as long as that is visible.
OldAnswersKept ==
    sync \/ mode = "oldconfig" =>
        \A s \in loaded.has \ {x \in DOMAIN K.sym : IsChoiceValue(K, x)} :
            IF IsChoice(K, s) /\ loaded.defval[s] # ""
            THEN \/ st.defval[s] = loaded.defval[s]
                 \/ Fresh(st).visible[loaded.defval[s]] = 0
            ELSE IsChoice(K, s) \/ (st.deftri[s] = loaded.deftri[s] /\ st.defval[s] = loaded.defval[s])

\* Without a terminal nothing is answered, and nothing changed.
NobodyAnswers == ~tty => Fresh(st).tri = Fresh(loaded).tri /\ Fresh(st).val = Fresh(loaded).val

\* listnewconfig prints what the other modes would have asked for.
ListsUnanswered ==
    outcome = "done" /\ mode = "listnewconfig" => listed = {s \in Unanswered(loaded) : Printable(s)}

\* There is nothing left to ask, and the list is of what there is to ask.
NothingLeft == AllAnswered /\ ListsUnanswered

\* What is not asked is not changed.
UnaskedKept == OldAnswersKept /\ NobodyAnswers

\* However the answers uncover more questions, each round but the last answers
\* one that was new when the file was read (and the run checks that there is
\* always an answer that is accepted): the questions come to an end.
FewRounds == rounds <= Cardinality(DOMAIN K.sym \ loaded.has) + 1
=============================================================================
