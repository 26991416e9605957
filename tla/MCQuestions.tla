---------------------------- MODULE MCQuestions -----------------------------
(* Small configurations of Questions for TLC.                              *)
EXTENDS Questions

bool(s, opts) == Config(s, <<<<"type", "bool">>, <<"prompt", NULL>>>> \o opts)

\* A symbol that uncovers one in the menu before it, a choice with a symbol
\* below a value, and a number.
Uncover ==
    <<Menu(<<>>, <<bool("A", <<<<"depends", Sym("B")>>>>), bool("F", <<>>)>>),
      bool("B", <<>>),
      Choice("CH", <<<<"prompt", NULL>>>>,
             <<bool("C", <<>>), bool("D", <<<<"depends", Sym("B")>>>>),
               Config("N", <<<<"type", "int">>, <<"prompt", NULL>>, <<"default", Sym("1"), NULL>>,
                             <<"depends", Sym("D")>>>>)>>),
      Config("E", <<<<"type", "bool">>, <<"prompt", NULL>>, <<"select", "F", NULL>>>>)>>

\* Modules, a tristate choice and an optional one.
Modular ==
    <<Config("M", <<<<"type", "bool">>, <<"prompt", NULL>>, <<"modules">>>>),
      Config("T", <<<<"type", "tristate">>, <<"prompt", NULL>>>>),
      Choice("TC", <<<<"type", "tristate">>, <<"prompt", NULL>>>>,
             <<Config("P", <<<<"type", "tristate">>, <<"prompt", NULL>>>>),
               Config("Q", <<<<"type", "tristate">>, <<"prompt", NULL>>>>)>>),
      Choice("O", <<<<"prompt", NULL>>, <<"optional">>>>, <<bool("X", <<>>), bool("Y", <<>>)>>)>>

MCTexts == <<[names |-> {"A", "B", "F", "CH", "C", "D", "N", "E", "1", "5"}, text |-> Uncover],
             [names |-> {"M", "T", "TC", "P", "Q", "O", "X", "Y"}, text |-> Modular]>>
MCOrder == <<<<"N", "5", "F", "MODULES", "modules_sym", "1", "D", "B", "A", "C", "E", "CH">>,
             <<"Q", "modules_sym", "MODULES", "X", "M", "O", "TC", "P", "Y", "T">>>>
MCFiles == <<{NoFile, <<<<"A", "y">>, <<"B", "y">>, <<"C", "unset">>, <<"D", "y">>, <<"E", "y">>>>,
              <<<<"B", "unset">>, <<"C", "y">>>>, <<<<"B", "unset">>, <<"D", "y">>, <<"E", "y">>, <<"F", "unset">>>>,
              <<<<"B", "y">>, <<"A", "y">>, <<"C", "y">>, <<"D", "unset">>, <<"E", "unset">>, <<"F", "unset">>>>},
             {NoFile, <<<<"M", "y">>, <<"P", "m">>, <<"T", "m">>>>, <<<<"M", "unset">>, <<"X", "y">>>>}>>
MCStrings == {"5"}
MCDecimal == [s \in {"1", "5"} |-> IF s = "1" THEN 1 ELSE 5]
MCHex == [s \in {"0x1"} |-> 1]
MCPrefixed == [s \in {"1"} |-> "0x1"]
=============================================================================
