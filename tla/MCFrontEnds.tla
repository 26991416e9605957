---------------------------- MODULE MCFrontEnds ----------------------------
EXTENDS FrontEnds

A == Sym("A")
B == Sym("B")
P == <<"prompt", NULL>>
Bool == <<"type", "bool">>
\* A menu and a comment that come and go, a symbol below another, one that is selected, a string.
Coming ==
    <<Config("A", <<Bool, P>>), Menu(<<<<"depends", A>>>>, <<Config("B", <<Bool, P, <<"select", "D", NULL>>>>),
                                  Config("C", <<Bool, P, <<"depends", B>>>>), Config("D", <<Bool, P>>)>>),
      Comment(<<<<"depends", <<"not", A>>>>>>), Config("S", <<<<"type", "string">>, P, <<"depends", A>>>>)>>
\* A menu that is a symbol; below it a choice with more below one of its values.
Choosing ==
    <<Menuconfig("A", <<Bool, P>>),
      Choice("CH", <<P, <<"depends", A>>>>, <<Config("D", <<Bool, P>>), Config("E", <<Bool, P>>),
                            Config("F", <<Bool, P, <<"depends", Sym("E")>>>>)>>)>>
\* A menu that comes and goes between the first entry and the last, which comes
\* when it goes.
Between ==
    <<Config("A", <<Bool, P>>),
      Menu(<<<<"depends", <<"not", A>>>>>>, <<Config("S", <<<<"type", "string">>, P>>)>>),
      Comment(<<<<"depends", A>>>>)>>
\* A menu that is a symbol, and a choice below it.
Below ==
    <<Menuconfig("A", <<Bool, P>>),
      Choice("CH", <<P, <<"depends", A>>>>, <<Config("D", <<Bool, P>>), Config("E", <<Bool, P>>)>>)>>
\* A symbol that has two entries, the second below another symbol.
Twice ==
    <<Config("A", <<Bool, P>>), Menuconfig("B", <<Bool, P>>), Config("A", <<P, <<"depends", B>>>>)>>
MCTexts == <<[names |-> {"A", "B", "C", "D", "S"}, text |-> Coming],
             [names |-> {"A", "CH", "D", "E", "F"}, text |-> Choosing],
             [names |-> {"A", "S"}, text |-> Between],
             [names |-> {"A", "CH", "D", "E"}, text |-> Below],
             [names |-> {"A", "B"}, text |-> Twice]>>
MCOrder == <<<<"B", "MODULES", "S", "D", "modules_sym", "A", "C">>,
             <<"F", "modules_sym", "MODULES", "CH", "A", "E", "D">>,
             <<"S", "modules_sym", "A", "MODULES">>,
             <<"E", "CH", "modules_sym", "A", "MODULES", "D">>,
             <<"A", "modules_sym", "MODULES", "B">>>>
MCPrograms == <<{"mconf", "nconf"}, {"mconf", "nconf"}, {"gconf", "qconf"}, {"gconf", "qconf"}, {"gconf"}>>
MCStrings == {"x"}
Nothing == [s \in {} |-> 0]
=============================================================================
