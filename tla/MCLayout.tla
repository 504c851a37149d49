------------------------------ MODULE MCLayout ------------------------------
(* The instances of MCWorkflow, with a grid, and a row of pads that is not in order. *)
EXTENDS MCWorkflow, Layout

MCSide == 0 .. 3

MCPadRow == [i \in 1 .. 4 |-> [component |-> i, x |-> 8 * ((i * 3) % 5), y |-> 0, edge |-> 4]]

MCOffPad == [x |-> 0, y |-> 0]
=============================================================================
