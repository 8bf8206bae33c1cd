-------------------------- MODULE MCWelcomePackage --------------------------
(* TLC instance of WelcomePackage. *)
EXTENDS WelcomePackage

CONSTANTS a1, a2
=============================================================================
