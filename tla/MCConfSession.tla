--------------------------- MODULE MCConfSession ---------------------------
EXTENDS ConfSession

A == Sym("A")
B == Sym("B")
\* Booleans, an optional choice, a selection, a number and a string.
Plain ==
    <<Config("A", <<<<"type", "bool">>, <<"prompt", NULL>>>>),
      Choice("CH", <<<<"prompt", NULL>>, <<"optional">>, <<"default", Sym("D"), A>>>>,
             <<Config("B", <<<<"type", "bool">>, <<"prompt", NULL>>>>),
               Config("D", <<<<"type", "bool">>, <<"prompt", NULL>>, <<"depends", A>>>>)>>),
      Config("E", <<<<"type", "bool">>, <<"prompt", NULL>>, <<"depends", B>>, <<"select", "F", NULL>>>>),
      Config("F", <<<<"type", "bool">>, <<"default", Yes, A>>, <<"depends", B>>>>),
      Config("N", <<<<"type", "int">>, <<"prompt", A>>, <<"range", "1", "5", NULL>>,
                    <<"default", Sym("2"), NULL>>>>)>>
\* Modules: tristate symbols, a tristate choice, hidden tristates.
Modular ==
    <<Config("M", <<<<"type", "bool">>, <<"prompt", NULL>>, <<"modules">>>>),
      Config("T", <<<<"type", "tristate">>, <<"prompt", NULL>>>>),
      Config("U", <<<<"type", "tristate">>, <<"prompt", NULL>>, <<"depends", Sym("T")>>,
                    <<"select", "W", NULL>>>>),
      Config("V", <<<<"type", "bool">>, <<"default", Sym("T"), NULL>>>>),
      Config("W", <<<<"type", "tristate">>, <<"prompt", NULL>>>>),
      Choice("TC", <<<<"type", "tristate">>, <<"prompt", NULL>>>>,
             <<Config("P", <<<<"type", "tristate">>, <<"prompt", NULL>>>>),
               Config("Q", <<<<"type", "tristate">>, <<"prompt", NULL>>>>)>>)>>
MCTexts == <<[names |-> {"A", "B", "CH", "D", "E", "F", "N", "1", "2", "5"}, text |-> Plain],
             [names |-> {"M", "T", "U", "V", "W", "TC", "P", "Q"}, text |-> Modular]>>
MCOrder == <<<<"N", "2", "F", "MODULES", "modules_sym", "1", "D", "B", "A", "5", "E", "CH">>,
             <<"Q", "modules_sym", "MODULES", "U", "W", "V", "M", "TC", "P", "T">>>>
MCFiles == <<{NoFile, <<<<"A", "y">>, <<"B", "y">>, <<"D", "y">>, <<"E", "y">>, <<"X", "y">>>>,
              <<<<"A", "unset">>, <<"E", "y">>, <<"N", "3">>>>},
             {NoFile, <<<<"M", "y">>, <<"P", "m">>, <<"T", "m">>, <<"U", "y">>>>}>>
MCStrings == {"2", "5"}
MCDecimal == [s \in {"1", "2", "3", "5"} |-> CASE s = "1" -> 1 [] s = "2" -> 2 [] s = "3" -> 3 [] s = "5" -> 5]
MCHex == [s \in {"0x1"} |-> 1]
MCPrefixed == [s \in {"1"} |-> "0x1"]
MCPicks == [i \in 1..2 |->
    <<[s \in MCTexts[i].names \cup {"modules_sym"} |-> 1],
      [s \in MCTexts[i].names \cup {"modules_sym"} |-> 2]>>]
=============================================================================
