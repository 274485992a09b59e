---------------------------- MODULE IndexerStore ----------------------------
(***************************************************************************)
(* The store of the indexer daemon (crates/apohara-indexer): the in-memory *)
(* vector index and id counter of indexer.rs and index.rs, the redb tables *)
(* of db.rs, and the JSON-RPC handlers of server.rs that work on them.     *)
(*                                                                         *)
(* Every connection is a tokio task of its own on a multi-threaded         *)
(* runtime, so two requests interleave wherever no lock is held.  A write  *)
(* transaction is atomic and durable once committed, and redb admits one   *)
(* writer at a time.  The process may die at any step; what it kept in     *)
(* memory is then rebuilt from the tables.                                 *)
(***************************************************************************)
EXTENDS Naturals, FiniteSets, Sequences

CONSTANTS
  Conn,        \* connections, each served by its own task
  Text,        \* the functions; an embedding and a metadata record stand for one
  File,        \* the paths a client may ask to index
  Signatures,  \* what parse_file finds in a file, in order
  Memory,      \* the memories a client may store, each with its own UUID
  MaxId,       \* bound on the ids handed out
  MaxCrash     \* bound on the crashes

NoText == "none"
NoId   == 0
NoConn == "nobody"
Id     == 1 .. MaxId

ASSUME StoreAssumption ==
  /\ MaxId \in Nat \ {0}
  /\ MaxCrash \in Nat
  /\ NoText \notin Text \cup Memory
  /\ NoConn \notin Conn
  /\ Signatures \in [File -> Seq(Text)]

VARIABLES
  up,        \* the process runs
  vectors,   \* VectorIndex.vectors
  nextId,    \* next_id
  indexLock, \* who holds the mutex around the vector index
  writer,    \* who holds redb's write transaction
  nodes,     \* table "nodes"
  graph,     \* table "index_state", key "graph": the serialized vectors
  memories,  \* table "memories"
  uuids,     \* the memories given an id so far; Uuid::new_v4 never repeats one
  pc,        \* where the task of a connection is
  todo,      \* the functions its request has still to index
  got,       \* the ids its request has indexed so far
  cur,       \* the id being indexed
  note,      \* the memory being stored
  hits,      \* what the vector search of its request returned
  answer,    \* the last search answer: vector and metadata found under an id
  acked,     \* functions whose id a client was told
  ackedMem,  \* memories whose id a client was told
  orphaned,  \* ids that a crash left in the graph without a node
  crashes

memVars  == <<up, vectors, nextId, indexLock, writer>>
diskVars == <<nodes, graph, memories, uuids>>
reqVars  == <<pc, todo, got, cur, note, hits>>
vars == <<memVars, diskVars, reqVars, answer, acked, ackedMem, orphaned, crashes>>

Stage == {"idle", "embed", "insert", "put", "putting", "save", "saving",
          "memory", "storing", "lookup"}
Ids(f) == {i \in Id : f[i] # NoText}

TypeOK ==
  /\ up \in BOOLEAN
  /\ vectors \in [Id -> Text \cup {NoText}]
  /\ nextId \in 1 .. MaxId + 1
  /\ indexLock \in Conn \cup {NoConn}
  /\ writer \in Conn \cup {NoConn}
  /\ nodes \in [Id -> Text \cup {NoText}]
  /\ graph \in [Id -> Text \cup {NoText}]
  /\ memories \in SUBSET Memory
  /\ uuids \in SUBSET Memory
  /\ pc \in [Conn -> Stage]
  /\ todo \in [Conn -> Seq(Text)]
  /\ got \in [Conn -> SUBSET (Id \X Text)]
  /\ cur \in [Conn -> Id \cup {NoId}]
  /\ note \in [Conn -> Memory \cup {NoText}]
  /\ hits \in [Conn -> SUBSET (Id \X Text)]
  /\ answer \in SUBSET (Id \X Text \X Text)
  /\ acked \in SUBSET (Id \X Text)
  /\ ackedMem \in SUBSET Memory
  /\ orphaned \in SUBSET Id
  /\ crashes \in 0 .. MaxCrash

Init ==
  /\ up = TRUE
  /\ vectors = [i \in Id |-> NoText]
  /\ nextId = 1
  /\ indexLock = NoConn
  /\ writer = NoConn
  /\ nodes = [i \in Id |-> NoText]
  /\ graph = [i \in Id |-> NoText]
  /\ memories = {}
  /\ uuids = {}
  /\ pc = [c \in Conn |-> "idle"]
  /\ todo = [c \in Conn |-> << >>]
  /\ got = [c \in Conn |-> {}]
  /\ cur = [c \in Conn |-> NoId]
  /\ note = [c \in Conn |-> NoText]
  /\ hits = [c \in Conn |-> {}]
  /\ answer = {}
  /\ acked = {}
  /\ ackedMem = {}
  /\ orphaned = {}
  /\ crashes = 0

-----------------------------------------------------------------------------
(***************************************************************************)
(* Answers.  An error answer acknowledges nothing, but what the request    *)
(* has already written stays.                                              *)
(***************************************************************************)

\* The task is back in read_line; nothing of the request is kept.
Finish(c) ==
  /\ pc' = [pc EXCEPT ![c] = "idle"]
  /\ todo' = [todo EXCEPT ![c] = << >>]
  /\ got' = [got EXCEPT ![c] = {}]
  /\ cur' = [cur EXCEPT ![c] = NoId]
  /\ note' = [note EXCEPT ![c] = NoText]
  /\ hits' = [hits EXCEPT ![c] = {}]

\* The `?` of a failed step: the client gets an error and no id.
Fail(c) == Finish(c) /\ UNCHANGED <<acked, ackedMem, answer>>

Goto(c, stage) ==
  /\ pc' = [pc EXCEPT ![c] = stage]
  /\ UNCHANGED <<todo, got, hits>>

-----------------------------------------------------------------------------
(***************************************************************************)
(* index_file, which runs index_text once for every function of the file.  *)
(***************************************************************************)

\* parse_file fails, or finds nothing, or the loop begins.
IndexFile(c, f) ==
  /\ up /\ pc[c] = "idle"
  /\ \/ Fail(c)
     \/ /\ Signatures[f] # << >>
        /\ pc' = [pc EXCEPT ![c] = "embed"]
        /\ todo' = [todo EXCEPT ![c] = Signatures[f]]
        /\ UNCHANGED <<cur, note, got, hits, acked, ackedMem, answer>>
  /\ UNCHANGED <<memVars, diskVars, orphaned, crashes>>

\* The embedding, which may fail, and then the next id under its own mutex.
EmbedAndTakeId(c) ==
  /\ pc[c] = "embed" /\ todo[c] # << >>
  /\ \/ Fail(c) /\ UNCHANGED nextId
     \/ /\ nextId <= MaxId
        /\ cur' = [cur EXCEPT ![c] = nextId]
        /\ nextId' = nextId + 1
        /\ pc' = [pc EXCEPT ![c] = "insert"]
        /\ UNCHANGED <<todo, got, note, hits, acked, ackedMem, answer>>
  /\ UNCHANGED <<up, vectors, indexLock, writer, diskVars, orphaned, crashes>>

\* index.insert under the index mutex; it rejects a vector of the wrong shape.
Insert(c) ==
  /\ pc[c] = "insert" /\ indexLock = NoConn
  /\ \/ Fail(c) /\ UNCHANGED vectors
     \/ /\ vectors' = [vectors EXCEPT ![cur[c]] = Head(todo[c])]
        /\ Goto(c, "put")
        /\ UNCHANGED <<cur, note, acked, ackedMem, answer>>
  /\ UNCHANGED <<up, nextId, indexLock, writer, diskVars, orphaned, crashes>>

\* put_node: begin_write waits for the writer, then insert and commit.
BeginPutNode(c) ==
  /\ pc[c] = "put" /\ writer = NoConn
  /\ writer' = c
  /\ Goto(c, "putting")
  /\ UNCHANGED <<up, vectors, nextId, indexLock, diskVars, cur, note, answer, acked,
                 ackedMem, orphaned, crashes>>

\* Mutant: the index mutex is wanted while the write transaction is open.
CommitNodeUnderIndexLock(c) ==
  /\ pc[c] = "putting" /\ indexLock = NoConn
  /\ nodes' = [nodes EXCEPT ![cur[c]] = Head(todo[c])]
  /\ Goto(c, "save")
  /\ writer' = NoConn
  /\ UNCHANGED <<cur, note, acked, ackedMem, answer, up, vectors, nextId, indexLock,
                 graph, memories, uuids, orphaned, crashes>>

CommitNode(c) ==
  /\ pc[c] = "putting"
  /\ \/ Fail(c) /\ UNCHANGED nodes
     \/ /\ nodes' = [nodes EXCEPT ![cur[c]] = Head(todo[c])]
        /\ Goto(c, "save")
        /\ UNCHANGED <<cur, note, acked, ackedMem, answer>>
  /\ writer' = NoConn
  /\ UNCHANGED <<up, vectors, nextId, indexLock, graph, memories, uuids, orphaned, crashes>>

\* save_index_state: the index mutex is taken first and kept until the commit.
BeginSave(c) ==
  /\ pc[c] = "save" /\ indexLock = NoConn
  /\ indexLock' = c
  /\ Goto(c, "saving")
  /\ UNCHANGED <<up, vectors, nextId, writer, diskVars, cur, note, answer, acked,
                 ackedMem, orphaned, crashes>>

\* What index_text leaves once its id is durable: the next function of the
\* file, or the answer with all its ids.
NextFunction(c) ==
  LET done == got[c] \cup {<<cur[c], Head(todo[c])>>} IN
  IF Len(todo[c]) > 1
  THEN /\ pc' = [pc EXCEPT ![c] = "embed"]
       /\ todo' = [todo EXCEPT ![c] = Tail(@)]
       /\ got' = [got EXCEPT ![c] = done]
       /\ cur' = [cur EXCEPT ![c] = NoId]
       /\ UNCHANGED <<note, hits, acked, ackedMem, answer>>
  ELSE /\ Finish(c)
       /\ acked' = acked \cup done
       /\ UNCHANGED <<ackedMem, answer>>

\* Mutant: the answer is sent once the node is stored, before the graph is.
AckBeforeSave(c) ==
  /\ pc[c] = "saving" /\ writer = NoConn
  /\ indexLock' = NoConn
  /\ \/ /\ graph' = vectors
        /\ NextFunction(c)
     \/ /\ UNCHANGED graph
        /\ NextFunction(c)
  /\ UNCHANGED <<up, vectors, nextId, writer, nodes, memories, uuids, orphaned, crashes>>

\* to_bytes and put_index_state, both under the index mutex.
CommitSave(c) ==
  /\ pc[c] = "saving" /\ writer = NoConn
  /\ indexLock' = NoConn
  /\ \/ /\ graph' = vectors
        /\ NextFunction(c)
     \/ /\ UNCHANGED graph
        /\ Fail(c)
  /\ UNCHANGED <<up, vectors, nextId, writer, nodes, memories, uuids, orphaned, crashes>>

-----------------------------------------------------------------------------
(***************************************************************************)
(* Memories and searches.                                                  *)
(***************************************************************************)

\* store_memory: an unknown type or a failed embedding is an error.
StoreMemory(c, m) ==
  /\ up /\ pc[c] = "idle" /\ m \notin uuids
  /\ uuids' = uuids \cup {m}
  /\ \/ Fail(c)
     \/ /\ Goto(c, "memory")
        /\ note' = [note EXCEPT ![c] = m]
        /\ UNCHANGED <<cur, acked, ackedMem, answer>>
  /\ UNCHANGED <<memVars, nodes, graph, memories, orphaned, crashes>>

BeginPutMemory(c) ==
  /\ pc[c] = "memory" /\ writer = NoConn
  /\ writer' = c
  /\ Goto(c, "storing")
  /\ UNCHANGED <<up, vectors, nextId, indexLock, diskVars, cur, note, answer, acked,
                 ackedMem, orphaned, crashes>>

CommitMemory(c) ==
  /\ pc[c] = "storing"
  /\ \/ Fail(c) /\ UNCHANGED memories
     \/ /\ memories' = memories \cup {note[c]}
        /\ ackedMem' = ackedMem \cup {note[c]}
        /\ Finish(c)
        /\ UNCHANGED <<acked, answer>>
  /\ writer' = NoConn
  /\ UNCHANGED <<up, vectors, nextId, indexLock, nodes, graph, uuids, orphaned, crashes>>

\* search: the k nearest vectors under the index mutex (which ones depends on
\* the query), then the metadata of each in a read transaction of its own.
Search(c) ==
  /\ up /\ pc[c] = "idle" /\ indexLock = NoConn
  /\ \E S \in SUBSET Ids(vectors) :
       /\ S # {}
       /\ hits' = [hits EXCEPT ![c] = {<<i, vectors[i]>> : i \in S}]
  /\ pc' = [pc EXCEPT ![c] = "lookup"]
  /\ UNCHANGED <<memVars, diskVars, todo, got, cur, note, answer, acked, ackedMem,
                 orphaned, crashes>>

\* An id without a node is skipped.
Lookup(c) ==
  /\ pc[c] = "lookup"
  /\ answer' = {<<h[1], h[2], nodes[h[1]]>> :
                  h \in {x \in hits[c] : nodes[x[1]] # NoText}}
  /\ Finish(c)
  /\ UNCHANGED <<memVars, diskVars, acked, ackedMem, orphaned, crashes>>

-----------------------------------------------------------------------------
(***************************************************************************)
(* Death and restart.                                                      *)
(***************************************************************************)

\* SIGTERM from the client, a power cut, an idle exit: no handler runs.
Crash ==
  /\ up /\ crashes < MaxCrash
  /\ up' = FALSE
  /\ crashes' = crashes + 1
  /\ indexLock' = NoConn
  /\ writer' = NoConn
  /\ pc' = [c \in Conn |-> "idle"]
  /\ todo' = [c \in Conn |-> << >>]
  /\ got' = [c \in Conn |-> {}]
  /\ cur' = [c \in Conn |-> NoId]
  /\ note' = [c \in Conn |-> NoText]
  /\ hits' = [c \in Conn |-> {}]
  /\ orphaned' = orphaned \cup (Ids(graph) \ Ids(nodes))
  /\ answer' = {}
  /\ UNCHANGED <<vectors, nextId, diskVars, acked, ackedMem>>

\* Mutant: the counter continues from the number of nodes.
NextIdByCount == Cardinality(Ids(nodes)) + 1

\* max + 1 of the ids in the table, 1 when there is none.
NextId == IF Ids(nodes) = {} THEN 1
          ELSE 1 + CHOOSE i \in Ids(nodes) : \A j \in Ids(nodes) : j <= i

\* Indexer::new: the graph if there is one, and the counter from the nodes.
Restart ==
  /\ ~up
  /\ up' = TRUE
  /\ vectors' = graph
  /\ nextId' = NextId
  /\ UNCHANGED <<indexLock, writer, diskVars, reqVars, answer, acked, ackedMem,
                 orphaned, crashes>>

Step(c) ==
  \/ EmbedAndTakeId(c) \/ Insert(c) \/ BeginPutNode(c) \/ CommitNode(c)
  \/ BeginSave(c) \/ CommitSave(c)
  \/ BeginPutMemory(c) \/ CommitMemory(c) \/ Lookup(c)

Next ==
  \/ \E c \in Conn : \/ Step(c)
                     \/ Search(c)
                     \/ \E f \in File : IndexFile(c, f)
                     \/ \E m \in Memory : StoreMemory(c, m)
  \/ Crash
  \/ Restart

\* The runtime keeps polling a task whose locks are free, and the client
\* starts the daemon again.
Fairness == (\A c \in Conn : WF_vars(Step(c))) /\ WF_vars(Restart)

Spec == Init /\ [][Next]_vars /\ Fairness

-----------------------------------------------------------------------------
(***************************************************************************)
(* Properties.                                                             *)
(***************************************************************************)

\* An id that index_file answered is durable: its node and its vector are both
\* in the tables and belong to the function it was given for, whatever other
\* requests, failed writes and crashes follow; a running daemon finds it.
AckedDurable ==
  /\ \A a \in acked : /\ nodes[a[1]] = a[2]
                      /\ graph[a[1]] = a[2]
                      /\ up => vectors[a[1]] = a[2]
  /\ ackedMem \subseteq memories

\* A search names the function whose vector it matched, except under an id
\* that a crash left in the graph without a node and that was handed out again.
SearchNamesItsFunction ==
  \A r \in answer : r[2] = r[3] \/ r[1] \in orphaned

\* The two locks of the store are always taken in the order index, writer:
\* every request is answered, or the daemon dies first.
EveryRequestAnswered ==
  \A c \in Conn : (pc[c] # "idle") ~> (pc[c] = "idle")

=============================================================================
