------------------------------ MODULE MCWorld -------------------------------
(* A small configuration of World for TLC.                                 *)
EXTENDS World

One  == <<"busybox">>
Both == <<"ext2", "initramfs">>
=============================================================================
