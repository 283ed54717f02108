------------------------------ MODULE MCProfile ------------------------------
(* Two of the staff; an element with a switch and media, which has none;   *)
(* two phrases.                                                            *)
EXTENDS Profile
=============================================================================
