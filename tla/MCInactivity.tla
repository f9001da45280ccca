--------------------------- MODULE MCInactivity ---------------------------
(* A small instance of Inactivity for TLC: a week is a day or two. *)
EXTENDS Inactivity
=============================================================================
