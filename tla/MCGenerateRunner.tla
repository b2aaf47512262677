-------------------------- MODULE MCGenerateRunner --------------------------
(* Values for the constants of GenerateRunner's runs.                      *)
EXTENDS GenerateRunner

CONSTANTS g1, g2, r1, r2, x, y

OneSession == [s \in Requests |-> x]
TwoSessions == [s \in Requests |-> IF s = g2 THEN y ELSE x]
=============================================================================
