------------------------------ MODULE ConfData ------------------------------
(***************************************************************************)
(* The configuration file of kconfig (package/config/confdata.c): reading,   *)
(* checking what was read, writing, and giving values to the symbols that    *)
(* have none.  A file is a sequence of lines <<symbol, value>>, the value     *)
(* "unset" for `# SYMBOL is not set'; comments and headings are left out.    *)
(* order is the order of the hash table, over which for_all_symbols runs.    *)
(***************************************************************************)
EXTENDS Symbols

NoFile == <<<<"", "no such file">>>>

\* What a file says, def[] of every symbol: the symbols that have a value, its
\* tristate and its string; whether a line was wrong (warned), whether one
\* named a symbol that does not exist (unknown).
NothingRead(K) ==
    [has |-> {s \in DOMAIN K.sym : IsChoice(K, s)},
     tri |-> [s \in DOMAIN K.sym |-> 0], val |-> [s \in DOMAIN K.sym |-> ""],
     warned |-> FALSE, unknown |-> FALSE]

Warn(d) == [d EXCEPT !.warned = TRUE]

\* <<the rest of the line counts, what is read>>.  A string that is not quoted
\* says nothing, one that does not end is an error.
conf_set_sym_val(K, d, s, v) ==
    LET type == K.sym[s].type
        tri == [d EXCEPT !.tri[s] = TriOf(v), !.has = @ \cup {s}]
        str == [d EXCEPT !.val[s] = v, !.has = @ \cup {s}]
    IN CASE type \in Tristates ->
              <<TRUE, IF v \in {"y", "n"} \/ (type = "tristate" /\ v = "m") THEN tri ELSE Warn(d)>>
         [] type = "string" -> CASE v = "unquoted" -> <<TRUE, d>>
                                 [] v = "unterminated" -> <<FALSE, Warn(d)>>
                                 [] OTHER -> <<TRUE, str>>
         [] type \in Numbers -> IF sym_string_valid(K, s, v) THEN <<TRUE, str>> ELSE <<FALSE, Warn(d)>>
         [] OTHER -> <<TRUE, d>>

\* A line about a value of a choice says something of the choice as well.
ReadChoiceValue(K, d, s) ==
    LET c == ChoiceOf(K, s)
        k == CASE d.tri[s] = 1 /\ d.tri[c] = 2 -> [Warn(d) EXCEPT !.has = @ \ {c}]
               [] d.tri[s] = 2 -> [d EXCEPT !.val[c] = s, !.warned = @ \/ d.tri[c] # 0]
               [] OTHER -> d
    IN [k EXCEPT !.tri[c] = EXPR_OR(@, d.tri[s])]

ReadValue(K, d, s, v) ==
    IF v # "unset" THEN conf_set_sym_val(K, d, s, v)
    ELSE <<TRUE, IF K.sym[s].type \in Tristates
                 THEN [d EXCEPT !.tri[s] = 0, !.has = @ \cup {s}] ELSE d>>

AndItsChoice(K, s, r) == IF r[1] /\ IsChoiceValue(K, s) THEN ReadChoiceValue(K, r[2], s) ELSE r[2]

ReadLine(K, d, line) ==
    LET s == line[1] IN
    IF s \notin DOMAIN K.sym THEN [d EXCEPT !.unknown = TRUE]
    ELSE AndItsChoice(K, s, ReadValue(K, IF s \in d.has THEN Warn(d) ELSE d, s, line[2]))

ReadLines(K, file) == Through(LAMBDA d, line: ReadLine(K, d, line), NothingRead(K), file)

\* conf_read_simple(name, S_DEF_USER) of a file that exists.
Reading(K, st, d) ==
    sym_calc_value(K, [st EXCEPT !.valid = Constants, !.has = d.has, !.deftri = d.tri,
                                 !.defval = d.val, !.dirty = @ \/ d.unknown,
                                 !.changed = DOMAIN K.sym \ Constants], ModulesSym)
conf_read_simple(K, st, file) == Reading(K, st, ReadLines(K, file))

\* The value calculated is that of the file, or there is neither.
Agrees(K, st, s) ==
    \/ IsChoice(K, s) \/ "auto" \in K.sym[s].flags
    \/ s \notin st.has /\ s \notin st.write
    \/ /\ s \in st.has /\ s \in st.write
       /\ IF K.sym[s].type \in Tristates THEN st.deftri[s] = st.tri[s]
          ELSE st.defval[s] = st.val[s]

\* A choice has a value only if all its visible values have one.
Settled(K, st, c) ==
    IF IsChoice(K, c) /\ ~({s \in ToSet(K.sym[c].values) : st.visible[s] # 0} \subseteq st.has)
    THEN [st EXCEPT !.has = @ \ {c}] ELSE st

\* acc is <<st, conf_unsaved # 0>>; k, r: the symbol has been calculated, checked.
CompareRead(K, s, unsaved, k) == <<Settled(K, k, s), unsaved \/ ~Agrees(K, k, s)>>
CheckRead(K, acc, s) == CompareRead(K, s, acc[2], sym_calc_value(K, acc[1], s))

Hide(st, s, unsaved) == IF st.visible[s] = 0 /\ ~unsaved THEN [st EXCEPT !.has = @ \ {s}] ELSE st
ResetIfOutside(s, unsaved, r) ==
    IF r[1] THEN <<r[2], unsaved>>
    ELSE <<[r[2] EXCEPT !.valid = @ \ {s}, !.has = @ \ {s}], TRUE>>
ResetHidden(K, acc, s) ==
    IF s \notin acc[1].has \/ IsChoiceValue(K, s) THEN acc
    ELSE IF K.sym[s].type \notin Numbers \cup {"string"} THEN <<Hide(acc[1], s, acc[2]), acc[2]>>
    ELSE ResetIfOutside(s, acc[2], sym_string_within_range(K, Hide(acc[1], s, acc[2]), s, acc[1].defval[s]))

CheckAll(K, order, st) == Through(LAMBDA acc, s: CheckRead(K, acc, s), <<st, FALSE>>, order)
ResetAll(K, order, acc) == Through(LAMBDA a, s: ResetHidden(K, a, s), acc, order)
ReadResult(warned, acc) == <<TRUE, [acc[1] EXCEPT !.dirty = @ \/ warned \/ acc[2]]>>

\* <<it could be read, st>>
conf_read(K, st, file, order) ==
    IF file = NoFile THEN <<FALSE, sym_calc_value(K, [st EXCEPT !.dirty = TRUE], ModulesSym)>>
    ELSE ReadResult(ReadLines(K, file).warned, ResetAll(K, order, CheckAll(K, order,
             conf_read_simple(K, [st EXCEPT !.dirty = FALSE], file))))

-----------------------------------------------------------------------------
\* The entries in the order in which they are shown.
RECURSIVE EntriesBelow(_, _)
EntriesBelow(K, i) == FlattenSeq([n \in DOMAIN K.entry[i].list |->
                         <<K.entry[i].list[n]>> \o EntriesBelow(K, K.entry[i].list[n])])

\* The line of a symbol: none for one without a type.
conf_write_symbol(K, st, s) ==
    CASE K.sym[s].type = "unknown" -> <<>>
      [] K.sym[s].type \in Tristates /\ st.tri[s] = 0 -> <<<<s, "unset">>>>
      [] OTHER -> <<<<s, sym_get_string_value(K, st, s)>>>>

\* acc is <<lines, st>>.  SYMBOL_WRITE goes, so that a symbol that has several
\* entries is written once.
WriteLine(K, lines, s, k) ==
    IF s \notin k.write THEN <<lines, k>>
    ELSE <<lines \o conf_write_symbol(K, k, s), [k EXCEPT !.write = @ \ {s}]>>

WriteEntry(K, acc, i) ==
    LET s == K.entry[i].sym
    IN IF s = "" THEN <<acc[1], menu_is_visible(K, acc[2], i)[2]>>
       ELSE IF IsChoice(K, s) THEN acc
       ELSE WriteLine(K, acc[1], s, sym_calc_value(K, acc[2], s))

\* SYMBOL_WRITE is as a calculation from scratch leaves it: the last one to
\* write took it away.  After a change all is to be calculated anew anyway.
Marked(K, st) == IF st.dirty THEN st ELSE sym_clear_all_valid(K, st)

\* What conf_write puts into the file: <<lines, st>>, before it renames it.
Written(K, st) ==
    Through(LAMBDA acc, i: WriteEntry(K, acc, i),
             <<<<>>, Marked(K, st)>>, EntriesBelow(K, 1))

\* Mutant of Redundant: also where the choice is optional.
MutantRedundant(K, s, c, d) == <<d[1] = s /\ K.sym[s].type = "bool" /\ d[2].tri[s] = 2, d[2]>>

\* The value s of choice c, whose default is d, need not be written: <<so, st>>.
Redundant(K, s, c, d) ==
    <<~IsOptional(K, c) /\ d[1] = s /\ K.sym[s].type = "bool" /\ d[2].tri[s] = 2, d[2]>>

UnlessRedundant(K, lines, s, r) ==
    <<IF r[1] THEN lines ELSE lines \o conf_write_symbol(K, r[2], s), r[2]>>

\* d is the <<string, st>> of the default of s.
UnlessDefault(K, lines, s, d) ==
    IF sym_get_string_value(K, d[2], s) = d[1] THEN <<lines, d[2]>>
    ELSE UnlessRedundant(K, lines, s,
            IF IsChoiceValue(K, s)
            THEN LET c == ChoiceOf(K, s) IN Redundant(K, s, c, sym_choice_default(K, d[2], c))
            ELSE <<FALSE, d[2]>>)

MinimalLine(K, lines, s, k) ==
    LET once == [k EXCEPT !.write = @ \ {s}]
    IN IF s \notin k.write THEN <<lines, k>>
       ELSE IF ~sym_is_changable(K, once, s) THEN <<lines, once>>
       ELSE UnlessDefault(K, lines, s, sym_get_string_default(K, once, s))

MinimalEntry(K, acc, i) ==
    LET s == K.entry[i].sym
    IN IF s = "" THEN <<acc[1], menu_is_visible(K, acc[2], i)[2]>>
       ELSE IF IsChoice(K, s) THEN acc
       ELSE MinimalLine(K, acc[1], s, sym_calc_value(K, acc[2], s))

\* <<lines, st>>
conf_write_defconfig(K, st) ==
    Through(LAMBDA acc, i: MinimalEntry(K, acc, i),
             <<<<>>, sym_clear_all_valid(K, st)>>, EntriesBelow(K, 1))

-----------------------------------------------------------------------------
(* Values for the symbols that have none.  `pick' stands for rand(): a        *)
(* tristate per symbol, and for a choice the number of the value.            *)

NewValue(K, st, s, mode, pick) ==
    CASE mode = "yes" -> 2
      [] mode = "mod" -> 1
      [] mode = "no" -> 0
      [] mode = "random" -> IF pick[s] = 1 /\ sym_get_type(K, st, s) # "tristate" THEN 2 ELSE pick[s]

SetNew(K, st, s, mode, pick) ==
    IF s \in st.has \/ mode = "default" \/ sym_get_type(K, st, s) \notin Tristates THEN st
    ELSE [st EXCEPT !.deftri[s] = NewValue(K, st, s, mode, pick),
                    !.has = IF IsChoice(K, s) /\ mode = "random" THEN @ ELSE @ \cup {s}]

randomize_choice_values(K, st, c, pick) ==
    LET values == K.sym[c].values
        one == values[1 + (pick[c] % Len(values))]
    IN IF st.tri[c] # 2 THEN st
       ELSE [st EXCEPT !.deftri = [s \in DOMAIN @ |-> IF s = one THEN 2
                                       ELSE IF s \in ToSet(values) THEN 0 ELSE @[s]],
                       !.defval[c] = one, !.has = @ \cup {c}, !.valid = @ \ {c}]

set_all_choice_values(K, st, c) ==
    [st EXCEPT !.deftri = [s \in DOMAIN @ |->
                   IF s \in ToSet(K.sym[c].values) /\ s \notin st.has THEN 0 ELSE @[s]],
               !.has = @ \cup {c}, !.valid = @ \ {c}]

FillChoice(K, k, c, mode, pick) ==
    IF mode = "random" THEN randomize_choice_values(K, k, c, pick) ELSE set_all_choice_values(K, k, c)
SetNewChoice(K, st, c, mode, pick) ==
    IF c \in st.has \/ ~IsChoice(K, c) THEN st ELSE FillChoice(K, sym_calc_value(K, st, c), c, mode, pick)

conf_set_all_new_symbols(K, st, mode, pick, order) ==
    Through(LAMBDA acc, c: SetNewChoice(K, acc, c, mode, pick),
            sym_clear_all_valid(K, Through(LAMBDA acc, s: SetNew(K, acc, s, mode, pick), st, order)), order)
=============================================================================
