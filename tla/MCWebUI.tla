------------------------------- MODULE MCWebUI ------------------------------
(* Small instances of WebUI for TLC. *)
EXTENDS WebUI, TLC

CONSTANTS h1, h2, f1

\* The goroutines that serve requests are interchangeable.
MCSymmetry == Permutations(Handler)
=============================================================================
