---------------------------- MODULE ConfSession ----------------------------
(***************************************************************************)
(* A session of a configuration program: it reads the configuration file,    *)
(* looks at entries and symbols in any order, sets values, gives values to   *)
(* all new symbols, saves and loads.                                          *)
(***************************************************************************)
EXTENDS ConfData

CONSTANTS Texts,       \* Kconfig texts, each [names, text]
          Order,       \* for each the order of its symbols in the hash table
          Files,       \* for each the files that may lie there at the start
          Strings,     \* the strings that are typed in
          Picks,       \* for each the outcomes of rand()
          MaxOps       \* bound: how many operations a session has

VARIABLES k,           \* which text
          K,           \* what the parser made of it, for good
          st, file,
          last,        \* the last operation
          ops          \* how many there were

vars == <<k, K, st, file, last, ops>>

Symbols == Texts[k].names
Prompted == {s \in Symbols : Prompts(K, s) # <<>>}

Init ==
    /\ k \in DOMAIN Texts
    /\ K = conf_parse(Texts[k].names, Texts[k].text)
    /\ file \in Files[k]
    /\ st = NoValues(K)
    /\ last = <<"start">>
    /\ ops = 0

\* At the start, and when the user loads the file again.
Load ==
    /\ st' = conf_read(K, st, file, Order[k])[2]
    /\ last' = <<"load">>
    /\ UNCHANGED <<k, K, file>>

\* The front ends look at a symbol before they offer to change it.
SetTristate(s, v) ==
    LET r == sym_set_tristate_value(K, sym_calc_value(K, st, s), s, v) IN
    /\ K.sym[s].type \in Tristates
    /\ r[1]
    /\ st' = r[2]
    /\ last' = <<"set", s, StrOf(v)>>
    /\ UNCHANGED <<k, K, file>>

Toggle(s) ==
    /\ K.sym[s].type \in Tristates /\ sym_is_changable(K, sym_calc_value(K, st, s), s)
    /\ st' = sym_toggle_tristate_value(K, sym_calc_value(K, st, s), s)
    /\ last' = <<"toggle", s>>
    /\ UNCHANGED <<k, K, file>>

SetString(s, str) ==
    LET r == sym_set_string_value(K, sym_calc_value(K, st, s), s, str) IN
    /\ K.sym[s].type \notin Tristates
    /\ sym_is_changable(K, sym_calc_value(K, st, s), s)
    /\ r[1]
    /\ st' = r[2]
    /\ last' = <<"set", s, IF str \in DOMAIN Prefixed /\ K.sym[s].type = "hex" THEN Prefixed[str] ELSE str>>
    /\ UNCHANGED <<k, K, file>>

Look(i) ==
    /\ st' = menu_is_visible(K, st, i)[2]
    /\ last' = <<"look">>
    /\ UNCHANGED <<k, K, file>>

AllNew(mode, pick) ==
    /\ last = <<"load">>
    /\ st' = conf_set_all_new_symbols(K, st, mode, pick, Order[k])
    /\ last' = <<"all new">>
    /\ UNCHANGED <<k, K, file>>

Save ==
    LET w == Written(K, st) IN
    /\ file' = w[1]
    /\ st' = [w[2] EXCEPT !.dirty = FALSE]
    /\ last' = <<"save">>
    /\ UNCHANGED <<k, K>>

Edit ==
    \/ \E s \in Prompted : \/ \E v \in 0..2 : SetTristate(s, v)
                           \/ Toggle(s)
                           \/ \E str \in Strings : SetString(s, str)
    \/ \E i \in 2..Len(K.entry) : Look(i)
    \/ \E mode \in {"yes", "mod", "no", "default"} : AllNew(mode, Picks[k][1])
    \/ \E n \in DOMAIN Picks[k] : AllNew("random", Picks[k][n])
    \/ Save

Next ==
    /\ ops < MaxOps
    /\ ops' = ops + 1
    /\ Load \/ (last # <<"start">> /\ Edit)

Spec == Init /\ [][Next]_vars

-----------------------------------------------------------------------------
TypeOK ==
    /\ st.valid \subseteq DOMAIN K.sym /\ st.has \subseteq DOMAIN K.sym /\ st.write \subseteq Symbols
    /\ \A s \in DOMAIN K.sym : /\ {st.tri[s], st.deftri[s], st.visible[s]} \subseteq 0..2
                               /\ K.sym[s].type = "bool" => st.tri[s] # 1
    /\ st.dirty \in BOOLEAN

\* Every symbol calculated anew.
CalcAll(t) == Through(LAMBDA acc, s: sym_calc_value(K, acc, s), t, Order[k])
Fresh(t) == CalcAll(sym_clear_all_valid(K, t))
Values(t) == [s \in {x \in Symbols : K.sym[x].type # "unknown"} |-> <<t.tri[s], t.val[s]>>]

\* A value that is kept is the one that would be calculated now, in whatever
\* order the symbols have been looked at and set.
CacheCoherent == last # <<"start">> => LET fresh == Fresh(st) IN
    \A s \in st.valid : /\ st.tri[s] = fresh.tri[s] /\ st.val[s] = fresh.val[s]
                        /\ IsChoiceValue(K, s) \/ st.visible[s] = fresh.visible[s]

\* Of a choice that is y exactly one visible value is y, the one it says; of
\* one that is n none is.
ChoiceOfOne == LET fresh == Fresh(st) IN
    \A c \in Symbols : IsChoice(K, c) =>
        LET on == {s \in ToSet(K.sym[c].values) : fresh.tri[s] = 2}
        IN CASE fresh.tri[c] = 2 -> on = {fresh.val[c]} /\ fresh.visible[fresh.val[c]] # 0
             [] fresh.tri[c] < 2 -> on = {}

\* No symbol is more than its dependencies or the symbols that select it allow:
\* m at most where these are m, unless it can only be y or n.
OnOnlyIfAllowed == LET fresh == Fresh(st) IN
    \A s \in Symbols : (K.sym[s].type \in Tristates /\ ~IsChoiceValue(K, s)) =>
        LET selected == IF K.sym[s].rev = NULL THEN 0 ELSE CalcExpr(K, fresh, K.sym[s].rev)[1]
            entries == {i \in DOMAIN K.entry : K.entry[i].sym = s}
            allowed == {selected} \cup {CalcExpr(K, fresh, K.entry[i].dep)[1] : i \in entries}
        IN \E v \in allowed : fresh.tri[s] <= v \/ (v = 1 /\ sym_get_type(K, fresh, s) = "bool")

\* The values are those of the Config.in files' rules.
ValuesAllowed == TypeOK /\ ChoiceOfOne /\ OnOnlyIfAllowed

\* What is set and accepted is the value, whatever ranges, choices and
\* selections say.
SetIsTaken == last[1] = "set" => sym_get_string_value(K, Fresh(st), last[2]) = last[3]

\* The session says that nothing is unsaved: a program that reads the file gets
\* every value of the session.
SavedReadsBack == (last # <<"start">> /\ ~st.dirty) =>
    Values(Fresh(conf_read(K, NoValues(K), file, Order[k])[2])) = Values(Fresh(st))

\* A file that was saved is read without complaint, but for the value of a
\* choice that was visible earlier in the session, and leaves nothing that
\* oldconfig asks for.
SavedIsComplete == last = <<"save">> =>
    LET r == conf_read(K, NoValues(K), file, Order[k])[2]
    IN /\ r.dirty => \E n \in DOMAIN file : IsChoiceValue(K, file[n][1]) /\ r.visible[file[n][1]] = 0
       /\ \A s \in Symbols : r.visible[s] # 0 /\ sym_is_changable(K, r, s) => s \in r.has

\* The minimal configuration, read and completed with the defaults, gives back
\* every value.
DefconfigReproduces == last # <<"start">> =>
    LET r == conf_read(K, NoValues(K), conf_write_defconfig(K, st)[1], Order[k])[2]
    IN Values(Fresh(conf_set_all_new_symbols(K, r, "default", <<>>, Order[k]))) = Values(Fresh(st))

\* What is written can be taken for the session: .config and the minimal one.
FilesReproduce == SavedReadsBack /\ SavedIsComplete /\ DefconfigReproduces
=============================================================================
