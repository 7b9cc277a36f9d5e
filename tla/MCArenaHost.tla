----------------------------- MODULE MCArenaHost -----------------------------
(***************************************************************************)
(* Small instances of ArenaHost: two launchers on one machine, and the     *)
(* seats s1 and s2.                                                        *)
(***************************************************************************)
EXTENDS ArenaHost

CONSTANTS s1, s2
=============================================================================
