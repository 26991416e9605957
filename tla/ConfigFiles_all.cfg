SPECIFICATION Spec
CONSTANTS
    Syms = {"cxx", "sjlj"}
    Values = {"y"}
    Missing = Missing
    Watched = {"cxx", "sjlj"}
INVARIANTS DerivedIsSaved NotForgotten
PROPERTIES KeepsStore
