--------------------------- MODULE MCEventManager ---------------------------
(* TLC instance of EventManager: the owner and two subscriber contracts.    *)
EXTENDS EventManager

CONSTANTS o, s1, s2
=============================================================================
