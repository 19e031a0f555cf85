---------------------------- MODULE MCCommandLine ----------------------------
(* Two devices, one of a lab model, and three commands of which two have the *)
(* same safe name: `show a/b` and `show a_b`.                                *)
EXTENDS CommandLine, TLC

CONSTANTS d1, d2, showA, showB, showC, json, text

MCSafeName == showA :> "show_a_b" @@ showB :> "show_a_b" @@ showC :> "show_c"
=============================================================================
