------------------------- MODULE MCParallelScheduler -------------------------
(* A fan-out with a join, a chain, and a plan that lists a task before the  *)
(* one it depends on.                                                       *)
EXTENDS ParallelScheduler

MCPlans ==
  { [order |-> <<"t1", "t2", "t3">>, deps |-> [t1 |-> {}, t2 |-> {}, t3 |-> {"t1", "t2"}]],
    [order |-> <<"t1", "t2", "t3">>, deps |-> [t1 |-> {}, t2 |-> {"t1"}, t3 |-> {}]],
    [order |-> <<"t1", "t2", "t3">>, deps |-> [t1 |-> {}, t2 |-> {"t3"}, t3 |-> {}]] }
=============================================================================
