--------------------------- MODULE MCHttpSession ---------------------------
(* Instances of HttpSession for model checking.                            *)
EXTENDS HttpSession
=============================================================================
