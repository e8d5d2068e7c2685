----------------------------- MODULE MCSelector -----------------------------
(* Instance of Selector for TLC.                                           *)
EXTENDS Selector

CONSTANTS h1, h2
=============================================================================
