------------------------------ MODULE MCBeater ------------------------------
(***************************************************************************)
(* Instances of the main loop for TLC: two configurations with one task    *)
(* each, and one that cannot be parsed.                                    *)
(***************************************************************************)
EXTENDS Beater

CONSTANTS a, b, bad, t, u

TaskOf == [c \in {a, b, bad} |-> IF c = a THEN {t} ELSE {u}]
=============================================================================
