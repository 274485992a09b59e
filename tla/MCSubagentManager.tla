------------------------- MODULE MCSubagentManager -------------------------
(***************************************************************************)
(* Small instances of SubagentManager: the shapes of plan that matter.     *)
(***************************************************************************)
EXTENDS SubagentManager

Names == <<"a", "b", "c", "d">>
MCIds == {Names[i] : i \in Task}

Plan(d) == [id |-> [i \in Task |-> Names[i]], deps |-> d]

\* Three tasks: independent, a chain, a fork, a join, a chain written backwards
\* in the input, a cycle that holds one task back, and a self-dependency.
MCPlans ==
  { Plan(<<{}, {}, {}>>),
    Plan(<<{}, {"a"}, {"b"}>>),
    Plan(<<{}, {"a"}, {"a"}>>),
    Plan(<<{}, {}, {"a", "b"}>>),
    Plan(<<{"b"}, {"c"}, {}>>),
    Plan(<<{}, {"a", "c"}, {"b"}>>),
    Plan(<<{"a"}, {}, {"b"}>>) }

=============================================================================
