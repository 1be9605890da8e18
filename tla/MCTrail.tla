------------------------------ MODULE MCTrail -------------------------------
(***************************************************************************)
(* A small instance of Trail for TLC: one heap and one stack cell, which   *)
(* may hold anything that is trailed.                                      *)
(***************************************************************************)
EXTENDS Trail

CONSTANTS t1, t2, ty, bck

MCTerms     == {t1, t2}
MCTypes     == {FreeType, ty}
MCCounts    == {bck}
=============================================================================
