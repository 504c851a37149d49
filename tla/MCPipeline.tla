----------------------------- MODULE MCPipeline -----------------------------
(* Instances of Pipeline: the designs of MCWorkflow. *)
EXTENDS Pipeline, MCWorkflow

MCPlans == {PlanFrom(1)}

\* The design intent of the run; the other ids are made on the way.
MCIntents == {EntityOf("intent", <<"intent", 0>>, {})}
=============================================================================
