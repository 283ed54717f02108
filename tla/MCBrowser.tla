------------------------------ MODULE MCBrowser ------------------------------
(* Instance of Browser for model checking.                                 *)
EXTENDS Browser
=============================================================================
