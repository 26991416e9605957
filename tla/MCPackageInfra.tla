--------------------------- MODULE MCPackageInfra ---------------------------
(***************************************************************************)
(* Small configurations of PackageInfra for TLC: a target package "app"    *)
(* that depends on a library, which depends on a host tool; and the        *)
(* library alone, for the runs that explore removal and reconfiguration.   *)
(***************************************************************************)
EXTENDS PackageInfra

MCDeps == [p \in Pkg |-> CASE p = "app"  -> <<"tool", "lib">>
                           [] p = "lib"  -> <<"tool">>
                           [] p = "tool" -> <<>>]
MCRank == [p \in Pkg |-> CASE p = "app"  -> 2
                           [] p = "lib"  -> 1
                           [] p = "tool" -> 0]
MCAppLib == <<"app", "lib">>
WorldClean == {World, <<"app", "clean">>}

MCDeps1 == [p \in Pkg |-> <<>>]
MCRank1 == [p \in Pkg |-> 0]
MCLib   == <<"lib">>

LibAll  == {<<"lib", t>> : t \in {"package", "clean", "dirclean"}}
=============================================================================
