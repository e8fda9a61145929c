------------------------------ MODULE MCLsmTree ------------------------------
(* An instance of LsmTree with few keys and levels and very small files.   *)
EXTENDS LsmTree

MCKeys == 1 .. 3
MCMaxBytesForLevel == <<1, 2>>
=============================================================================
