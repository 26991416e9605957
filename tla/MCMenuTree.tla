----------------------------- MODULE MCMenuTree -----------------------------
EXTENDS MenuTree
\* Three boolean symbols, a tristate one, and a choice between two of them.
MCNames == {"A", "B", "C", "T", "CH"}

A == Sym("A")
B == Sym("B")
T == Sym("T")
Not(e) == <<"not", e>>
\* A symbol with a prompt, a dependency, a selection and a default or none.
Prompt == {<<>>, <<<<"prompt", NULL>>>>, <<<<"prompt", A>>>>}
Depends == {<<>>} \cup {<<<<"depends", e>>>> :
              e \in {A, B, Not(A), <<"and", A, B>>, <<"or", A, B>>, <<"neq", "A", "n">>}}
Refers == {<<>>, <<<<"select", "A", NULL>>>>, <<<<"select", "B", A>>>>,
           <<<<"default", T, B>>>>}
Typed(t, o) == <<<<"type", t>>>> \o o
Prompted(o) == <<<<"prompt", NULL>>>> \o o

First == Config("A", Typed("bool", Prompted(<<>>)))
\* Three symbols in a row.
Rows == {<<Config("A", Typed("bool", p1 \o r1)), Config("B", Typed("bool", p2 \o d2 \o r2)),
           Config("T", Typed("tristate", Prompted(d3)))>> :
            p1 \in Prompt \ {<<<<"prompt", A>>>>}, r1 \in Refers, p2 \in Prompt, d2 \in Depends,
            r2 \in Refers, d3 \in {<<>>, <<<<"depends", B>>>>,
                                  <<<<"depends", <<"and", Not(B), A>>>>>>}}
\* Blocks in blocks.
Wrap(stmts) == {<<First, If(A, stmts)>>, <<First, Menu(<<>>, stmts)>>,
                <<First, Menu(<<<<"visible", A>>, <<"depends", B>>>>, stmts)>>,
                <<First, If(B, <<Comment(<<<<"depends", A>>>>)>> \o stmts)>>}
Blocks == UNION {Wrap(<<Config("B", Typed("bool", Prompted(d2))),
                        Menuconfig("T", Typed("tristate", Prompted(d3)))>>)
                 \cup Wrap(<<If(B, <<Config("T", Typed("tristate", Prompted(d3)))>>),
                             Config("B", Typed("bool", Prompted(d2)))>>) :
                   d2 \in Depends, d3 \in Depends}
\* ChoiceTexts, of booleans or of a boolean and a tristate, which may refer to
\* each other and to what the choice depends on.
ChoiceTexts == {<<First, Choice("CH", t \o p \o d \o o,
                            <<Config("B", Typed("bool", Prompted(d2))),
                              Config("T", tt \o Prompted(<<>>)), If(A, <<Config("C", Prompted(r))>>)>>)>> :
              t \in {<<>>, <<<<"type", "bool">>>>, <<<<"type", "tristate">>>>},
              p \in Prompt, d \in {<<>>, <<<<"depends", A>>>>, <<<<"depends", B>>>>},
              o \in {<<>>, <<<<"optional">>>>, <<<<"default", B, A>>>>, <<<<"default", T, NULL>>>>},
              d2 \in {<<>>, <<<<"depends", T>>>>, <<<<"depends", A>>>>},
              tt \in {<<>>, <<<<"type", "tristate">>>>},
              r \in {<<>>, <<<<"select", "A", NULL>>>>}}
\* The same symbol at two places, a value that is m, modules, the environment.
Odd == {<<Config("A", Typed("bool", Prompted(<<<<"depends", Mod>>>>))),
          Config("T", Typed("tristate", Prompted(<<<<"depends", A>>>>))),
          Config("A", Typed("tristate", <<<<"prompt", B>>>> \o o)), Config("B", Typed("bool", o))>> :
          o \in {<<>>, <<<<"modules">>>>, <<<<"env", "A", "y">>, <<"env", "A", "n">>>>,
                 <<<<"select", "C", T>>>>, <<<<"depends", T>>>>}}
MCTexts == Rows \cup Blocks \cup ChoiceTexts \cup Odd
=============================================================================
