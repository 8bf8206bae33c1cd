-------------------------- MODULE MCWelcomeMessage --------------------------
(* TLC instance of WelcomeMessage. *)
EXTENDS WelcomeMessage

CONSTANTS a1, a2
=============================================================================
