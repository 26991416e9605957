------------------------------ MODULE MenuTree ------------------------------
(***************************************************************************)
(* conf_parse (package/config/zconf.y:494): a Kconfig text is parsed, its    *)
(* menu tree is finalized, and every symbol is checked for recursive         *)
(* dependencies, in the order of the hash table, which is any order.         *)
(***************************************************************************)
EXTENDS Menus

CONSTANTS Texts,       \* the Kconfig texts
          Names        \* the symbols they define

VARIABLES text, K, w, todo, pc

vars == <<text, K, w, todo, pc>>

\* The hash table holds modules_sym too, which has no name.
Hashed == Names \cup {ModulesSym}

Init ==
    /\ text \in Texts
    /\ K = EmptyK(Names)
    /\ w = NotChecked
    /\ todo = Hashed
    /\ pc = "parse"

Parse ==
    /\ pc = "parse"
    /\ K' = Parsed(Names, text)
    /\ pc' = "finalize"
    /\ UNCHANGED <<text, w, todo>>

Finalize ==
    /\ pc = "finalize"
    /\ K' = menu_finalize(K, 1, <<>>)[1]
    /\ pc' = "check"
    /\ UNCHANGED <<text, w, todo>>

Check ==
    /\ pc = "check"
    /\ \E s \in todo :
          /\ w' = sym_check_deps(K, w, s)[2]
          /\ todo' = todo \ {s}
    /\ UNCHANGED <<text, K, pc>>

Next == Parse \/ Finalize \/ Check

Spec == Init /\ [][Next]_vars

-----------------------------------------------------------------------------
Entries == 2..Len(K.entry)
\* The tree is as menu_finalize left it: the checks do not change it, and the
\* properties of the tree are looked at once.
Finalized == pc = "check" /\ todo = Hashed

TypeOK ==
    /\ pc \in {"parse", "finalize", "check"}
    /\ todo \subseteq Hashed
    /\ \A i \in DOMAIN K.entry :
          /\ K.entry[i].sym \in Names \cup {""}
          /\ K.entry[i].prompt \in 0..Len(K.prop)
          /\ ToSet(K.entry[i].list) \subseteq Entries
    /\ \A p \in DOMAIN K.prop : K.prop[p].sym \in Names \cup {"", ModulesSym}

\* The entries below i, in the order in which they are shown.
RECURSIVE Below(_)
Below(i) == FlattenSeq([n \in DOMAIN K.entry[i].list |->
                <<K.entry[i].list[n]>> \o Below(K.entry[i].list[n])])

\* However menu_finalize moves entries into and out of each other, each one
\* stays in the tree once, in the order of the text, below its parent.
TreeInOrder ==
    /\ Below(1) = [n \in 1..(Len(K.entry) - 1) |-> n + 1]
    /\ \A i \in DOMAIN K.entry : \A j \in ToSet(K.entry[i].list) : K.entry[j].parent = i

-----------------------------------------------------------------------------
(* The text read without a parser: the entries in order, each with the       *)
(* condition under which the text lets it be seen.                          *)

And(a, b) == expr_alloc_and(a, b)
OptsOf(stmt, kind) == SelectSeq(stmt.opts, LAMBDA o: o[1] = kind)
OwnDeps(stmt) == FoldLeft(LAMBDA e, o: And(e, o[2]), NULL, OptsOf(stmt, "depends"))

\* <<statement, the condition around and in it, conditions of `visible if'>>
RECURSIVE Reading(_, _, _)
Reading(stmts, cond, vis) ==
    FlattenSeq([n \in DOMAIN stmts |->
        LET s == stmts[n]
            own == And(cond, OwnDeps(s))
            inner == IF s.kind = "choice" THEN Sym(s.sym) ELSE own
            shown == FoldLeft(LAMBDA e, o: And(e, o[2]), vis, OptsOf(s, "visible"))
        IN <<<<s, own, vis>>>> \o Reading(s.body, inner, shown)])

Read == Reading(text, NULL, NULL)
Valuations == {v \in [DOMAIN K.sym -> {"n", "y"}] :
                  /\ \A c \in Constants : v[c] = (IF c = "m" THEN "y" ELSE c)
                  /\ v["MODULES"] = "n" /\ v[ModulesSym] = "y"}
Holds(v, e) == expr_calc_value(v, e) # 0

\* After all the moving and simplifying a prompt is visible exactly under the
\* conditions that the text puts around it and on it.
VisibleAsWritten == Finalized => LET read == Read IN
    \A v \in Valuations : \A i \in Entries :
        LET r == read[i - 1]
            prompts == OptsOf(r[1], "prompt")
            own == IF prompts = <<>> THEN NULL ELSE And(Last(prompts)[2], r[3])
        IN HasPrompt(K, i) => Holds(v, PromptVis(K, i)) = (Holds(v, r[2]) /\ Holds(v, own))

\* A symbol is selected exactly when one of the `select's of the text that name
\* it holds.
SelectedAsWritten == Finalized => LET read == Read IN
    \A v \in Valuations : \A s \in Names : ~IsChoice(K, s) =>
        Holds(v, IF K.sym[s].rev = NULL THEN No ELSE K.sym[s].rev)
          = \E n \in DOMAIN read : \E o \in ToSet(OptsOf(read[n][1], "select")) :
               /\ o[2] = s
               /\ Holds(v, Sym(read[n][1].sym)) /\ Holds(v, read[n][2]) /\ Holds(v, o[3])

\* Every prompt and every selection of the text takes effect, and only so.
AsWritten == VisibleAsWritten /\ SelectedAsWritten

\* An entry is shown below a symbol only if it is invisible without the symbol,
\* or visible only where the symbol's own prompt is.
BelowFits == Finalized => LET valuations == Valuations IN
    \A i \in Entries : LET p == K.entry[i].parent IN
        (/\ p # 1 /\ K.entry[p].sym # "" /\ ~IsChoice(K, K.entry[p].sym)
         /\ HasPrompt(K, i) /\ HasPrompt(K, p)) =>
           \/ \A v \in valuations : v[K.entry[p].sym] = "n" => ~Holds(v, PromptVis(K, i))
           \/ \A v \in valuations : Holds(v, PromptVis(K, i)) => Holds(v, PromptVis(K, p))

\* A choice chooses between the symbols of its block, in the order of the text;
\* every one of them knows its choice, and is visible only under it.
ChoicesWhole == Finalized => LET valuations == Valuations IN
    \A i \in Entries : LET c == K.entry[i].sym IN
        (c # "" /\ IsChoice(K, c) /\ K.entry[i].list # <<>>) =>
           LET below == SelectSeq(K.entry[i].list, LAMBDA j: K.entry[j].sym # "")
           IN /\ K.sym[c].values = [n \in DOMAIN below |-> K.entry[below[n]].sym]
              /\ \A j \in ToSet(below) :
                    /\ IsChoiceValue(K, K.entry[j].sym) /\ ChoiceOf(K, K.entry[j].sym) = c
                    /\ \A v \in valuations :
                          v[c] = "n" /\ HasPrompt(K, j) => ~Holds(v, PromptVis(K, j))

\* The tree that the front ends show: well formed, in order, and nested for a reason.
TreeFits == TypeOK /\ TreeInOrder /\ BelowFits /\ ChoicesWhole

-----------------------------------------------------------------------------
(* Dependencies as a relation.  A choice and its values are one node.       *)

Mentions(s) ==
    SymbolsOf(K.sym[s].rev) \cup
    UNION {SymbolsOf(K.prop[p].vis)
             \cup (IF K.prop[p].type = "default" /\ ~IsChoice(K, s) THEN SymbolsOf(K.prop[p].expr) ELSE {}) :
           p \in {q \in ToSet(K.sym[s].props) : K.prop[q].type \notin {"choice", "select"}}}
NodeOf(s) == IF IsChoiceValue(K, s) THEN ChoiceOf(K, s) ELSE s
Edges == UNION {{<<NodeOf(s), NodeOf(t)>> :
                    t \in {u \in Mentions(s) : ~(IsChoiceValue(K, s) /\ u = ChoiceOf(K, s))}} :
                s \in Hashed}
RECURSIVE Reach(_, _)
Reach(edges, S) == LET T == S \cup {e[2] : e \in {x \in edges : x[1] \in S}}
                   IN IF T = S THEN S ELSE Reach(edges, T)
Cyclic == LET edges == Edges
          IN \E e \in edges : e[1] \in Reach(edges, {e[2]})

\* When all symbols have been checked, in whatever order, a recursive
\* dependency has been reported if and only if there is one.
CyclesReported == pc = "check" /\ todo = {} => (w.reports # <<>>) = Cyclic

\* A report is a closed chain of symbols of which each depends on the next.
ReportsTrue == \A n \in DOMAIN w.reports : LET r == w.reports[n] IN
    /\ r # <<>>
    /\ \A k \in DOMAIN r : /\ r[k][3] = r[IF k = Len(r) THEN 1 ELSE k + 1][1]
                           /\ \/ r[k][3] \in Mentions(r[k][1])
                              \/ NodeOf(r[k][1]) = NodeOf(r[k][3])

\* Recursive dependencies are reported, all that is reported is one, and the
\* report says which.
CyclesFound == CyclesReported /\ ReportsTrue
=============================================================================
