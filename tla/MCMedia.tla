------------------------------ MODULE MCMedia ------------------------------
(* Instances of MediaPipeline: one message, the worker processes of the      *)
(* three systemd units (one of the two index slots), and small budgets.      *)
EXTENDS MediaPipeline

Pools == [w \in Workers |->
  IF w = "fetch" THEN "fetch" ELSE IF w = "index" THEN "index" ELSE "process"]

\* Each event of S at most once, n events in all.
Of(S, n) == [e \in Events \cup {"all"} |-> IF e = "all" THEN n ELSE IF e \in S THEN 1 ELSE 0]

AnyTwo == Of(Events, 2)
=============================================================================
