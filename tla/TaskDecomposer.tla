---------------------------- MODULE TaskDecomposer ----------------------------
(***************************************************************************)
(* TaskDecomposer.decompose of src/core/decomposer.ts: memories are asked   *)
(* for, a language model is asked for a plan, and the plan is parsed, its   *)
(* dependencies are validated and searched for cycles, and its tasks are    *)
(* given what the indexer and the MCP servers know about their files.       *)
(*                                                                         *)
(* The reply of the model is arbitrary: a member of Replies.  A task is its *)
(* identifier and the identifiers it depends on, in order.                  *)
(***************************************************************************)
EXTENDS Naturals, Sequences

CONSTANTS
  Id,       \* identifiers a reply may use
  Replies   \* replies: "garbage", or a sequence of tasks [id, deps]

Garbage == << [id |-> "garbage", deps |-> << >>] >>

ASSUME DecomposerAssumption ==
  \A r \in Replies \ {Garbage} :
    r \in Seq([id : Id, deps : Seq(Id)])

VARIABLES
  dpc,      \* where decompose is
  client,   \* indexerClient: set by a dynamic import some time after construction
  reply,    \* the tasks of the reply
  frames,   \* the calls of dfs that are open: identifier, next dependency
  visited,
  cycle,    \* the path detectCycle returns
  injectedCount   \* the first injectedCount tasks carry indexerContext

decomposerVars == <<dpc, client, reply, frames, visited, cycle, injectedCount>>

DecomposerTypeOK ==
  /\ dpc \in {"memory", "route", "parse", "dfs", "search", "inject", "mcp",
              "accepted", "failed"}
  /\ client \in {"null", "set"}
  /\ frames \in Seq([id : Id, at : Nat])
  /\ visited \subseteq Id
  /\ cycle \in Seq(Id)
  /\ injectedCount \in Nat

DecomposerInit ==
  /\ dpc = "memory"
  /\ client = "null"
  /\ reply = << >>
  /\ frames = << >>
  /\ visited = {}
  /\ cycle = << >>
  /\ injectedCount = 0

\* The import of indexer-client settles; it may also never set the client.
ClientImported ==
  /\ client = "null" /\ dpc # "accepted" /\ dpc # "failed"
  /\ client' = "set"
  /\ UNCHANGED <<dpc, reply, frames, visited, cycle, injectedCount>>

\* fetchMemoryBlock: fetchAndFormatMemories turns every error into no memories.
fetchMemoryBlock ==
  /\ dpc = "memory"
  /\ dpc' = "route"
  /\ UNCHANGED <<client, reply, frames, visited, cycle, injectedCount>>

\* routeTaskWithFallback answers or throws.
RoutePlanning ==
  /\ dpc = "route"
  /\ \/ \E r \in Replies : reply' = r /\ dpc' = "parse"
     \/ dpc' = "failed" /\ UNCHANGED reply
  /\ UNCHANGED <<client, frames, visited, cycle, injectedCount>>

ids == {reply[i].id : i \in DOMAIN reply}
DepsOf(i) == {reply[i].deps[j] : j \in DOMAIN reply[i].deps}

\* JSON, an array of tasks, and only dependencies on tasks of the reply.
Validate ==
  /\ dpc = "parse"
  /\ dpc' = IF reply # Garbage /\ \A i \in DOMAIN reply : DepsOf(i) \subseteq ids
            THEN "dfs" ELSE "failed"
  /\ UNCHANGED <<client, reply, frames, visited, cycle, injectedCount>>

-----------------------------------------------------------------------------
(***************************************************************************)
(* detectCycle.  The map holds the last task of each identifier.            *)
(***************************************************************************)
LastOf(t) == CHOOSE i \in DOMAIN reply :
               reply[i].id = t /\ \A j \in DOMAIN reply : reply[j].id = t => j <= i
graph(t) == reply[LastOf(t)].deps

Top      == frames[Len(frames)]
OnStack  == {frames[i].id : i \in DOMAIN frames}
Roots    == {i \in DOMAIN reply : reply[i].id \notin visited}

\* The loop over the tasks calls dfs for the first that was not visited: it is
\* visited from now on, and on the recursion stack until its call returns.
DfsRoot ==
  /\ dpc = "dfs" /\ frames = << >> /\ Roots # {}
  /\ LET t == reply[CHOOSE i \in Roots : \A j \in Roots : i <= j].id
     IN  /\ visited' = visited \cup {t}
         /\ frames' = << [id |-> t, at |-> 1] >>
  /\ UNCHANGED <<dpc, client, reply, cycle, injectedCount>>

\* Mutant: only a dependency on the task itself is a cycle.
IsSelfCycle(d) == d = Top.id

\* A dependency that is on the recursion stack closes a cycle.
IsCycle(d) == d \in OnStack

\* Mutant: the loop does not advance behind a task that was searched before.
DfsDependencyStays ==
  /\ dpc = "dfs" /\ frames # << >> /\ Top.at <= Len(graph(Top.id))
  /\ LET d == graph(Top.id)[Top.at]
     IN  IF d \notin visited
         THEN /\ visited' = visited \cup {d}
              /\ frames' = Append(frames, [id |-> d, at |-> 1])
         ELSE UNCHANGED <<frames, visited>>
  /\ UNCHANGED <<dpc, client, reply, cycle, injectedCount>>

\* One dependency of the innermost call.
DfsDependency ==
  /\ dpc = "dfs" /\ frames # << >> /\ Top.at <= Len(graph(Top.id))
  /\ LET d    == graph(Top.id)[Top.at]
         rest == [frames EXCEPT ![Len(frames)].at = @ + 1]
     IN  \/ /\ d \notin visited
            /\ visited' = visited \cup {d}
            /\ frames' = Append(rest, [id |-> d, at |-> 1])
            /\ UNCHANGED <<dpc, cycle>>
         \/ /\ d \in visited /\ ~IsCycle(d)
            /\ frames' = rest
            /\ UNCHANGED <<dpc, cycle, visited>>
         \/ /\ d \in visited /\ IsCycle(d)
            /\ LET from == CHOOSE k \in DOMAIN frames : frames[k].id = d
               IN  cycle' = [k \in 1 .. Len(frames) - from + 2 |->
                       IF from + k - 1 <= Len(frames) THEN frames[from + k - 1].id ELSE d]
            /\ dpc' = "failed"
            /\ UNCHANGED <<frames, visited>>
  /\ UNCHANGED <<client, reply, injectedCount>>

\* The innermost call returns null.
DfsReturn ==
  /\ dpc = "dfs" /\ frames # << >> /\ Top.at > Len(graph(Top.id))
  /\ frames' = SubSeq(frames, 1, Len(frames) - 1)
  /\ UNCHANGED <<dpc, client, reply, visited, cycle, injectedCount>>

DfsDone ==
  /\ dpc = "dfs" /\ frames = << >> /\ Roots = {}
  /\ dpc' = IF client = "null" THEN "mcp" ELSE "search"
  /\ UNCHANGED <<client, reply, frames, visited, cycle, injectedCount>>

-----------------------------------------------------------------------------
\* injectIndexerContext: one search for the prompt, or the tasks unchanged when
\* it fails (which is logged: a rejected append fails the decomposition).
SearchPrompt ==
  /\ dpc = "search"
  /\ dpc' \in {"inject", "mcp", "failed"}
  /\ UNCHANGED <<client, reply, frames, visited, cycle, injectedCount>>

\* Mutant: a blast radius that is not available ends the loop.
InjectTaskOrStop ==
  /\ dpc = "inject" /\ injectedCount < Len(reply)
  /\ \/ injectedCount' = injectedCount + 1 /\ UNCHANGED dpc
     \/ dpc' = "mcp" /\ UNCHANGED injectedCount
  /\ UNCHANGED <<client, reply, frames, visited, cycle>>

\* One task of the loop: the blast radius of its first file is awaited, and is left
\* empty where it is not available; a task without files is not asked for.
InjectTask ==
  /\ dpc = "inject" /\ injectedCount < Len(reply)
  /\ injectedCount' = injectedCount + 1
  /\ UNCHANGED <<dpc, client, reply, frames, visited, cycle>>

\* Appending indexer_context_injected may reject.
InjectDone ==
  /\ dpc = "inject" /\ injectedCount = Len(reply)
  /\ dpc' \in {"mcp", "failed"}
  /\ UNCHANGED <<client, reply, frames, visited, cycle, injectedCount>>

\* enhanceWithMCP adds file estimates and swallows every error.
enhanceWithMCP ==
  /\ dpc = "mcp"
  /\ dpc' = "accepted"
  /\ UNCHANGED <<client, reply, frames, visited, cycle, injectedCount>>

DecomposerStep ==
  \/ fetchMemoryBlock \/ RoutePlanning \/ Validate
  \/ DfsRoot \/ DfsDependency \/ DfsReturn \/ DfsDone
  \/ SearchPrompt \/ InjectTask \/ InjectDone \/ enhanceWithMCP

-----------------------------------------------------------------------------
(***************************************************************************)
(* Properties.                                                             *)
(***************************************************************************)
NoRepeats == \A i, j \in DOMAIN reply : reply[i].id = reply[j].id => i = j

Edge(s, t) == \E i \in DOMAIN reply : reply[i].id = s /\ t \in DepsOf(i)

\* A graph has no cycle exactly when every non-empty set of its nodes has one
\* without an edge into the set.
Acyclic == \A S \in (SUBSET ids) \ {{}} : \E s \in S : \A t \in S : ~Edge(s, t)

\* A plan is handed on only when its dependencies name its tasks and have no
\* cycle, whatever the shape of the graph and the order of the tasks, provided
\* no identifier occurs twice; and a cycle that is reported is one.
AcceptsOnlyDags ==
  /\ dpc \in {"search", "inject", "mcp", "accepted"} /\ NoRepeats =>
       Acyclic /\ \A i \in DOMAIN reply : DepsOf(i) \subseteq ids
  /\ cycle # << >> => /\ cycle[1] = cycle[Len(cycle)]
                      /\ \A k \in 1 .. Len(cycle) - 1 : Edge(cycle[k], cycle[k + 1])

\* Either every task of an accepted plan carries indexer context or none does,
\* although the client may appear in the middle of the decomposition, the search
\* may fail, and the loop awaits an answer of the indexer for each task.
ContextForAllOrNone == dpc = "accepted" => injectedCount \in {0, Len(reply)}
=============================================================================
