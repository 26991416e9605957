----------------------------- MODULE MCDownload -----------------------------
(* A small configuration of Download for TLC.                              *)
EXTENDS Download

SourcePatch == <<"source", "patch">>
ScmThree    == {<<"wget", "svn", "wget">>, <<"git">>, <<"wget", "bzr">>}
=============================================================================
