---------------------------- MODULE MCAutoPipeline ----------------------------
(* Replies: not JSON, no tasks, a diamond-like plan listed backwards, a plan *)
(* with a cycle behind a harmless task, a task that depends on itself, an    *)
(* unknown dependency, and an identifier used twice.  Stored states: none,   *)
(* all completed, some failed, one still pending (lane 1 counts as nothing). *)
EXTENDS AutoPipeline

T(id, deps) == [id |-> id, deps |-> deps]

MCReplies ==
  { Garbage, << >>,
    << T("c", <<"a", "b">>), T("b", <<"a">>), T("a", << >>) >>,
    << T("a", << >>), T("b", <<"a", "c">>), T("c", <<"a", "b">>) >>,
    << T("a", << >>), T("b", <<"b">>) >>,
    << T("a", <<"c">>) >>,
    << T("a", <<"b">>), T("b", <<"a">>), T("a", << >>) >> }

S(id, status, nums) == [id |-> id, status |-> status, nums |-> nums]

MCStored ==
  { {}, {S("x", "completed", {0}), S("y", "completed", {})},
    {S("x", "completed", {0}), S("y", "failed", {1})},
    {S("x", "completed", {0}), S("y", "pending", {})} }
=============================================================================
