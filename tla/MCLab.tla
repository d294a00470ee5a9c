------------------------------- MODULE MCLab -------------------------------
(* The core's commands in any order, on two half lengths and two tables,   *)
(* with the table below or above the buffer; the chain test over three     *)
(* ranges of stages, on two rates; the back-to-back suite.                 *)
EXTENDS Lab
Below == 1
Above == 21
MCTables == {Below, Above}
MCSpans  == {<<0, 9>>, <<4, 4>>, <<5, 9>>}

\* The laboratory does not look at the generator's table.
MCInit == LabInit /\ (user = "core" \/ table = Below)
MCSpec == MCInit /\ [][LabNext]_labVars
=============================================================================
