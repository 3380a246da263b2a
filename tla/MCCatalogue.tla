---------------------------- MODULE MCCatalogue ----------------------------
(***************************************************************************)
(* Two players in turn on one device, two languages, one museum item and   *)
(* two changes of the language that may overtake each other.               *)
(***************************************************************************)
EXTENDS Catalogue, TLC

CONSTANTS u1, u2, zh, en, m1

MCUsers == {u1, u2}
MCLocales == {zh, en}
MCItems == {m1}
MCSymmetry == Permutations(MCUsers) \cup Permutations(MCLocales)
=============================================================================
