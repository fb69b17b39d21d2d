---------------------------- MODULE MCRecoveries ----------------------------
(* Values for the constants of Recoveries: two original issues and sets of   *)
(* recovered cases of one and of two tests.                                 *)
EXTENDS Recoveries

CONSTANTS i52, i63, a, b

MCOrder == <<i52, i63>>
MCOneOrder == <<i52>>
MCCaseSets == {{a}, {a, b}}
=============================================================================
