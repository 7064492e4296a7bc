------------------------------- MODULE MCAgent -------------------------------
(* TLC instances of Agent. *)
EXTENDS Agent

\* The tool mode and the queue modes do not meet in the code, so two of the eight
\* combinations take every branch.
MCOptions ==
  {[toolExecution |-> "parallel", steeringMode |-> "one-at-a-time",
    followUpMode |-> "one-at-a-time"],
   [toolExecution |-> "sequential", steeringMode |-> "all", followUpMode |-> "all"]}
===============================================================================
