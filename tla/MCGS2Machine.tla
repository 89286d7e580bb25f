---------------------------- MODULE MCGS2Machine ----------------------------
(* GS2Machine with a script, a class it joined, and another script.        *)
EXTENDS GS2Machine, TLC

CONSTANTS script, class, other

MCJoined == [vm \in VM |-> IF vm = script THEN {class} ELSE {}]
=============================================================================
