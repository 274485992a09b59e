---------------------------- MODULE IndexerProofs ----------------------------
(***************************************************************************)
(* Theorems about the indexer: IndexerStore, for any connections, files,   *)
(* memories and any number of ids and crashes, and IndexerDaemon, for any  *)
(* clients, requests and daemons.                                          *)
(***************************************************************************)
EXTENDS IndexerStore, IndexerDaemon, TLAPS, WellFoundedInduction

\* A set of ids has a greatest element.
LEMMA GreatestOf ==
  ASSUME NEW S, S \subseteq Id, S # {}
  PROVE  \E i \in S : \A j \in S : j <= i
<1> DEFINE Gap == {MaxId - i : i \in S}
<1>1. Gap \subseteq Nat /\ Gap # {}
  <2>1. \A i \in S : MaxId - i \in Nat
    BY StoreAssumption DEF Id
  <2> QED
    BY <2>1
<1>2. PICK x \in Gap : \A y \in Gap : ~(<<y, x>> \in OpToRel(<, Nat))
  <2> HIDE DEF Gap
  <2> QED
    BY <1>1, NatLessThanWellFounded, WFMin
<1>3. \A y \in Nat : y < x => <<y, x>> \in OpToRel(<, Nat)
  BY <1>1 DEF OpToRel
<1>4. \A y \in Gap : ~(y < x)
  BY <1>1, <1>2, <1>3
<1>5. PICK i \in S : x = MaxId - i
  BY <1>2
<1>6. \A j \in S : ~(MaxId - j < MaxId - i)
  BY <1>4, <1>5
<1> QED
  BY <1>5, <1>6, StoreAssumption DEF Id

\* The counter of a restarted daemon is above every id that has a node.
LEMMA NextIdAbove ==
  ASSUME TypeOK
  PROVE  NextId \in 1 .. MaxId + 1 /\ \A i \in Ids(nodes) : i < NextId
<1>1. CASE Ids(nodes) = {}
  BY <1>1, StoreAssumption DEF NextId
<1>2. CASE Ids(nodes) # {}
  <2>1. Ids(nodes) \subseteq Id
    BY DEF Ids
  <2>2. \E i \in Ids(nodes) : \A j \in Ids(nodes) : j <= i
    BY <1>2, <2>1, GreatestOf
  <2> DEFINE m == CHOOSE i \in Ids(nodes) : \A j \in Ids(nodes) : j <= i
  <2>3. m \in Ids(nodes) /\ \A j \in Ids(nodes) : j <= m
    BY <2>2
  <2>4. NextId = 1 + m
    BY <1>2 DEF NextId
  <2> HIDE DEF m
  <2> QED
    BY <2>1, <2>3, <2>4, StoreAssumption DEF Id
<1> QED
  BY <1>1, <1>2

LEMMA TypeInit == Init => TypeOK
<1> SUFFICES ASSUME Init PROVE TypeOK
  OBVIOUS
<1>1. nextId \in 1 .. MaxId + 1 /\ crashes \in 0 .. MaxCrash
  BY StoreAssumption DEF Init
<1>2. todo \in [Conn -> Seq(Text)]
  BY DEF Init
<1> QED
  BY <1>1, <1>2 DEF Init, TypeOK, Stage

\* What an answered request leaves of itself.
LEMMA FinishType ==
  ASSUME TypeOK, NEW c \in Conn, Finish(c)
  PROVE  /\ pc' \in [Conn -> Stage]
         /\ todo' \in [Conn -> Seq(Text)]
         /\ got' \in [Conn -> SUBSET (Id \X Text)]
         /\ cur' \in [Conn -> Id \cup {NoId}]
         /\ note' \in [Conn -> Memory \cup {NoText}]
         /\ hits' \in [Conn -> SUBSET (Id \X Text)]
<1>1. todo' \in [Conn -> Seq(Text)]
  <2>1. << >> \in Seq(Text)
    OBVIOUS
  <2> QED
    BY <2>1 DEF TypeOK, Finish
<1> QED
  BY <1>1 DEF TypeOK, Finish, Stage

\* The functions of a request that is still at work.
LEMMA HeadText ==
  ASSUME TypeOK, NEW c \in Conn, todo[c] # << >>
  PROVE  Head(todo[c]) \in Text /\ Tail(todo[c]) \in Seq(Text)
<1>1. todo[c] \in Seq(Text)
  BY DEF TypeOK
<1> QED
  BY <1>1
Busy(c)     == pc[c] \in {"insert", "put", "putting", "save", "saving"}
Unstored(c) == pc[c] \in {"insert", "put", "putting"}
Inserted(c) == pc[c] \in {"put", "putting", "save", "saving"}
Stored(c)   == pc[c] \in {"save", "saving"}

\* A request at work has an id below the counter and a function for it, and a
\* process that is down has no requests.
Working ==
  \A c \in Conn :
    /\ Busy(c) => cur[c] \in Id /\ cur[c] < nextId /\ todo[c] # << >>
    /\ pc[c] \in {"memory", "storing"} => note[c] \in Memory
    /\ ~up => pc[c] = "idle" /\ got[c] = {}

LEMMA TypeStep == TypeOK /\ Working /\ [Next]_vars => TypeOK'
<1> SUFFICES ASSUME TypeOK, Working, [Next]_vars PROVE TypeOK'
  OBVIOUS
<1> USE DEF memVars, diskVars, reqVars
<1>1. ASSUME NEW c \in Conn, NEW f \in File, IndexFile(c, f) PROVE TypeOK'
  <2>1. CASE Fail(c)
    BY <1>1, <2>1, FinishType DEF IndexFile, Fail, TypeOK
  <2>2. CASE ~Fail(c)
    <3>1. Signatures[f] \in Seq(Text)
      BY StoreAssumption
    <3> QED
      BY <1>1, <2>2, <3>1 DEF IndexFile, TypeOK, Stage
  <2> QED
    BY <2>1, <2>2
<1>2. ASSUME NEW c \in Conn, EmbedAndTakeId(c) PROVE TypeOK'
  <2>1. CASE Fail(c) /\ UNCHANGED nextId
    BY <1>2, <2>1, FinishType DEF EmbedAndTakeId, Fail, TypeOK
  <2>2. CASE ~(Fail(c) /\ UNCHANGED nextId)
    <3>1. nextId \in Id /\ nextId + 1 \in 1 .. MaxId + 1
      BY <1>2, <2>2, StoreAssumption DEF EmbedAndTakeId, TypeOK, Id
    <3>2. /\ cur' = [cur EXCEPT ![c] = nextId] /\ nextId' = nextId + 1
          /\ pc' = [pc EXCEPT ![c] = "insert"]
          /\ UNCHANGED <<todo, got, note, hits, acked, ackedMem, answer, up, vectors,
                         indexLock, writer, diskVars, orphaned, crashes>>
      BY <1>2, <2>2 DEF EmbedAndTakeId
    <3> QED
      BY <3>1, <3>2 DEF TypeOK, Stage, diskVars
  <2> QED
    BY <2>1, <2>2
<1>3. ASSUME NEW c \in Conn, Insert(c) PROVE TypeOK'
  <2>1. CASE Fail(c) /\ UNCHANGED vectors
    BY <1>3, <2>1, FinishType DEF Insert, Fail, TypeOK
  <2>2. CASE ~(Fail(c) /\ UNCHANGED vectors)
    <3>1. Head(todo[c]) \in Text
      BY <1>3, HeadText DEF Insert, Working, Busy
    <3>2. vectors' = [vectors EXCEPT ![cur[c]] = Head(todo[c])] /\ Goto(c, "put")
          /\ UNCHANGED <<cur, note, acked, ackedMem, answer>>
      BY <1>3, <2>2 DEF Insert
    <3>3. PICK t \in Text : vectors' = [vectors EXCEPT ![cur[c]] = t]
      BY <3>1, <3>2
    <3>4. vectors' \in [Id -> Text \cup {NoText}]
      BY <3>3 DEF TypeOK
    <3> QED
      BY <1>3, <3>2, <3>4 DEF Insert, Goto, TypeOK, Stage
  <2> QED
    BY <2>1, <2>2
<1>4. ASSUME NEW c \in Conn, BeginPutNode(c) PROVE TypeOK'
  BY <1>4 DEF BeginPutNode, Goto, TypeOK, Stage
<1>5. ASSUME NEW c \in Conn, CommitNode(c) PROVE TypeOK'
  <2>1. CASE Fail(c) /\ UNCHANGED nodes
    BY <1>5, <2>1, FinishType DEF CommitNode, Fail, TypeOK
  <2>2. CASE ~(Fail(c) /\ UNCHANGED nodes)
    <3>1. Head(todo[c]) \in Text
      BY <1>5, HeadText DEF CommitNode, Working, Busy
    <3>2. nodes' = [nodes EXCEPT ![cur[c]] = Head(todo[c])] /\ Goto(c, "save")
          /\ UNCHANGED <<cur, note, acked, ackedMem, answer>>
      BY <1>5, <2>2 DEF CommitNode
    <3>3. PICK t \in Text : nodes' = [nodes EXCEPT ![cur[c]] = t]
      BY <3>1, <3>2
    <3>4. nodes' \in [Id -> Text \cup {NoText}]
      BY <3>3 DEF TypeOK
    <3> QED
      BY <1>5, <3>2, <3>4 DEF CommitNode, Goto, TypeOK, Stage
  <2> QED
    BY <2>1, <2>2
<1>6. ASSUME NEW c \in Conn, BeginSave(c) PROVE TypeOK'
  BY <1>6 DEF BeginSave, Goto, TypeOK, Stage
<1>7. ASSUME NEW c \in Conn, CommitSave(c) PROVE TypeOK'
  <2>1. cur[c] \in Id /\ Head(todo[c]) \in Text /\ Tail(todo[c]) \in Seq(Text)
    BY <1>7, HeadText DEF CommitSave, Working, Busy
  <2>2. CASE Fail(c)
    BY <1>7, <2>2, FinishType DEF CommitSave, Fail, TypeOK
  <2>3. CASE graph' = vectors /\ NextFunction(c)
    <3>1. got[c] \cup {<<cur[c], Head(todo[c])>>} \subseteq Id \X Text
      BY <2>1 DEF TypeOK
    <3>u. indexLock' = NoConn /\ graph' = vectors
          /\ UNCHANGED <<up, vectors, nextId, writer, nodes, memories, uuids, orphaned,
                         crashes>>
      BY <1>7, <2>3 DEF CommitSave
    <3>2. CASE Len(todo[c]) > 1
      <4> DEFINE done == got[c] \cup {<<cur[c], Head(todo[c])>>}
      <4>1. /\ pc' = [pc EXCEPT ![c] = "embed"]
            /\ todo' = [todo EXCEPT ![c] = Tail(@)]
            /\ got' = [got EXCEPT ![c] = done]
            /\ cur' = [cur EXCEPT ![c] = NoId]
            /\ UNCHANGED <<note, hits, acked, ackedMem, answer>>
        BY <2>3, <3>2 DEF NextFunction
      <4>2. todo' \in [Conn -> Seq(Text)]
        BY <2>1, <4>1 DEF TypeOK
      <4>3. got' \in [Conn -> SUBSET (Id \X Text)]
        <5> HIDE DEF done
        <5>1. done \in SUBSET (Id \X Text)
          BY <3>1 DEF done
        <5> QED
          BY <4>1, <5>1 DEF TypeOK
      <4> QED
        BY <3>u, <4>1, <4>2, <4>3 DEF TypeOK, Stage
    <3>3. CASE ~(Len(todo[c]) > 1)
      <4>1. Finish(c) /\ acked' = acked \cup got[c] \cup {<<cur[c], Head(todo[c])>>}
            /\ UNCHANGED <<ackedMem, answer>>
        BY <2>3, <3>3 DEF NextFunction
      <4>2. acked' \subseteq Id \X Text
        BY <3>1, <4>1 DEF TypeOK
      <4> QED
        BY <3>u, <4>1, <4>2, FinishType DEF TypeOK
    <3> QED
      BY <3>2, <3>3
  <2> QED
    BY <1>7, <2>2, <2>3 DEF CommitSave
<1>8. ASSUME NEW c \in Conn, NEW m \in Memory, StoreMemory(c, m) PROVE TypeOK'
  <2>1. CASE Fail(c)
    BY <1>8, <2>1, FinishType DEF StoreMemory, Fail, TypeOK
  <2>2. CASE ~Fail(c)
    <3>1. Goto(c, "memory") /\ note' = [note EXCEPT ![c] = m]
          /\ UNCHANGED <<cur, acked, ackedMem, answer>>
      BY <1>8, <2>2 DEF StoreMemory
    <3> QED
      BY <1>8, <3>1 DEF StoreMemory, Goto, TypeOK, Stage
  <2> QED
    BY <2>1, <2>2
<1>9. ASSUME NEW c \in Conn, BeginPutMemory(c) PROVE TypeOK'
  BY <1>9 DEF BeginPutMemory, Goto, TypeOK, Stage
<1>10. ASSUME NEW c \in Conn, CommitMemory(c) PROVE TypeOK'
  <2>1. note[c] \in Memory
    BY <1>10 DEF CommitMemory, Working
  <2>2. Finish(c)
    BY <1>10 DEF CommitMemory, Fail
  <2> QED
    BY <1>10, <2>1, <2>2, FinishType DEF CommitMemory, Fail, TypeOK
<1>11. ASSUME NEW c \in Conn, Search(c) PROVE TypeOK'
  <2>1. PICK S \in SUBSET Ids(vectors) :
          hits' = [hits EXCEPT ![c] = {<<i, vectors[i]>> : i \in S}]
    BY <1>11 DEF Search
  <2>2. {<<i, vectors[i]>> : i \in S} \subseteq Id \X Text
    BY DEF Ids, TypeOK
  <2> QED
    BY <1>11, <2>1, <2>2 DEF Search, TypeOK, Stage
<1>12. ASSUME NEW c \in Conn, Lookup(c) PROVE TypeOK'
  <2>1. hits[c] \subseteq Id \X Text
    BY DEF TypeOK
  <2>2. answer' \subseteq Id \X Text \X Text
    BY <1>12, <2>1 DEF Lookup, TypeOK
  <2> QED
    BY <1>12, <2>2, FinishType DEF Lookup, TypeOK
<1>13. CASE Crash
  <2>1. crashes' \in 0 .. MaxCrash
    BY <1>13, StoreAssumption DEF Crash, TypeOK
  <2>2. todo' \in [Conn -> Seq(Text)] /\ pc' \in [Conn -> Stage]
    BY <1>13 DEF Crash, Stage
  <2>3. cur' \in [Conn -> Id \cup {NoId}] /\ note' \in [Conn -> Memory \cup {NoText}]
    BY <1>13 DEF Crash
  <2>4. got' \in [Conn -> SUBSET (Id \X Text)] /\ hits' \in [Conn -> SUBSET (Id \X Text)]
    BY <1>13 DEF Crash
  <2>5. orphaned' \subseteq Id
    BY <1>13 DEF Crash, Ids, TypeOK
  <2> QED
    BY <1>13, <2>1, <2>2, <2>3, <2>4, <2>5 DEF Crash, TypeOK
<1>14. CASE Restart
  BY <1>14, NextIdAbove DEF Restart, TypeOK
<1>15. CASE UNCHANGED vars
  BY <1>15 DEF vars, TypeOK
<1> QED
  BY <1>1, <1>2, <1>3, <1>4, <1>5, <1>6, <1>7, <1>8, <1>9, <1>10, <1>11, <1>12, <1>13,
     <1>14, <1>15 DEF Next, Step
-----------------------------------------------------------------------------
(***************************************************************************)
(* Why an acknowledged id stays durable.  Ids are handed out above every   *)
(* id that has a node, so no two requests work on one id and none on an id *)
(* that was acknowledged.  Its vector is therefore never overwritten, and  *)
(* every later save of the whole graph still contains it.                  *)
(***************************************************************************)

Apart ==
  \A c, d \in Conn : c # d /\ Busy(c) /\ Busy(d) => cur[c] # cur[d]

\* How far the id a request works on has got.
Progress ==
  \A c \in Conn :
    /\ Unstored(c) => nodes[cur[c]] = NoText
    /\ Inserted(c) => vectors[cur[c]] = Head(todo[c])
    /\ Stored(c) => nodes[cur[c]] = Head(todo[c])

Counted == up => \A i \in Ids(nodes) : i < nextId

Durable(a) == /\ nodes[a[1]] = a[2]
              /\ graph[a[1]] = a[2]
              /\ up => vectors[a[1]] = a[2]

\* Durable are the ids a client was told and those its request will tell.
Safe ==
  /\ \A a \in acked : Durable(a)
  /\ \A c \in Conn : \A a \in got[c] : Durable(a)
  /\ ackedMem \subseteq memories

IInv == TypeOK /\ Working /\ Apart /\ Progress /\ Counted /\ Safe

LEMMA IInvInit == Init => IInv
<1> SUFFICES ASSUME Init PROVE IInv
  OBVIOUS
<1>1. TypeOK
  BY TypeInit
<1>2. \A c \in Conn : pc[c] = "idle" /\ got[c] = {}
  BY DEF Init
<1>3. up /\ Ids(nodes) = {}
  BY DEF Init, Ids
<1>4. acked = {} /\ ackedMem = {}
  BY DEF Init
<1> QED
  BY <1>1, <1>2, <1>3, <1>4
     DEF IInv, Working, Apart, Progress, Counted, Safe, Busy, Unstored, Inserted, Stored

\* A step of one connection that touches neither vectors nor nodes and does not
\* leave it at work on an id.
LEMMA Quiet ==
  ASSUME IInv, TypeOK', NEW c \in Conn, up, up',
         \A d \in Conn \ {c} : /\ pc'[d] = pc[d] /\ todo'[d] = todo[d]
                               /\ cur'[d] = cur[d] /\ note'[d] = note[d],
         pc'[c] \in {"idle", "embed", "lookup", "memory", "storing"},
         pc'[c] \in {"memory", "storing"} => note'[c] \in Memory,
         UNCHANGED <<vectors, nodes, nextId>>
  PROVE  Working' /\ Apart' /\ Progress' /\ Counted'
<1>1. Working'
  BY DEF IInv, Working, Busy
<1>2. Apart'
  BY DEF IInv, Apart, Busy
<1>3. Progress'
  BY DEF IInv, Progress, Unstored, Inserted, Stored
<1>4. Counted'
  BY DEF IInv, Counted, Ids
<1> QED
  BY <1>1, <1>2, <1>3, <1>4

\* What stays durable: acknowledgements need not be looked at again when none
\* was added and the tables still hold them.
LEMMA StillSafe ==
  ASSUME IInv, up, up', UNCHANGED <<acked, ackedMem, memories>>,
         \A a \in Id \X Text : Durable(a) => Durable(a)',
         \A c \in Conn : got'[c] \subseteq got[c]
  PROVE  Safe'
<1>1. acked \subseteq Id \X Text /\ \A c \in Conn : got[c] \subseteq Id \X Text
  BY DEF IInv, TypeOK
<1> QED
  BY <1>1 DEF IInv, Safe

LEMMA UpWhenBusy == ASSUME IInv, NEW c \in Conn, pc[c] # "idle" PROVE up
BY DEF IInv, Working

\* An error answer forgets the request and leaves the store as it is.
LEMMA FailKeeps ==
  ASSUME IInv, TypeOK', NEW c \in Conn, up, Fail(c),
         UNCHANGED <<up, vectors, nodes, graph, memories, nextId>>
  PROVE  IInv'
<1>t. TypeOK
  BY DEF IInv
<1>1. \A d \in Conn \ {c} : /\ pc'[d] = pc[d] /\ todo'[d] = todo[d]
                              /\ cur'[d] = cur[d] /\ note'[d] = note[d]
  BY <1>t DEF Fail, Finish, TypeOK
<1>2. pc'[c] = "idle"
  BY <1>t DEF Fail, Finish, TypeOK
<1>3. Working' /\ Apart' /\ Progress' /\ Counted'
  BY <1>1, <1>2, Quiet
<1>4. \A d \in Conn : got'[d] \subseteq got[d]
  BY <1>t DEF Fail, Finish, TypeOK
<1>5. Safe'
  BY <1>4, StillSafe DEF Fail, Durable
<1> QED
  BY <1>3, <1>5 DEF IInv
\* The id that is taken is above all others.
LEMMA TakeIdStep == ASSUME IInv, TypeOK', NEW c \in Conn, EmbedAndTakeId(c) PROVE IInv'
<1>t. TypeOK /\ Working /\ Apart /\ Progress /\ Counted
  BY DEF IInv
<1>u. up
  BY UpWhenBusy DEF EmbedAndTakeId
<1>1. CASE Fail(c) /\ UNCHANGED nextId
  BY <1>1, <1>u, FailKeeps DEF EmbedAndTakeId, diskVars
<1>2. CASE ~(Fail(c) /\ UNCHANGED nextId)
  <2>1. /\ nextId <= MaxId /\ nextId' = nextId + 1
        /\ cur' = [cur EXCEPT ![c] = nextId] /\ pc' = [pc EXCEPT ![c] = "insert"]
        /\ UNCHANGED <<todo, got, note, acked, ackedMem, up, vectors, nodes, graph, memories>>
    BY <1>2 DEF EmbedAndTakeId, diskVars
  <2>2. nextId \in Id /\ nextId \in Nat
    BY <1>t, <2>1, StoreAssumption DEF TypeOK, Id
  <2>3. \A d \in Conn \ {c} : pc'[d] = pc[d] /\ cur'[d] = cur[d]
    BY <1>t, <2>1 DEF TypeOK
  <2>4. pc'[c] = "insert" /\ cur'[c] = nextId
    BY <1>t, <2>1 DEF TypeOK
  <2>5. todo'[c] # << >>
    BY <2>1 DEF EmbedAndTakeId
  <2>6. Working'
    BY <1>t, <1>u, <2>1, <2>2, <2>3, <2>4, <2>5 DEF Working, Busy, Id
  <2>7. Apart'
    BY <1>t, <2>2, <2>3, <2>4 DEF Working, Apart, Busy, Id
  <2>8. nodes[nextId] = NoText
    BY <1>t, <1>u, <2>2 DEF Counted, Ids
  <2>9. Progress'
    BY <1>t, <2>1, <2>3, <2>4, <2>8 DEF Progress, Unstored, Inserted, Stored
  <2>10. Counted'
    BY <1>t, <1>u, <2>1, <2>2 DEF Counted, Ids, Id
  <2>11. Safe'
    BY <1>u, <2>1, StillSafe DEF Durable
  <2> QED
    BY <2>6, <2>7, <2>9, <2>10, <2>11 DEF IInv
<1> QED
  BY <1>1, <1>2

\* The vector of a fresh id goes to the index; no durable id is touched.
LEMMA InsertStep == ASSUME IInv, TypeOK', NEW c \in Conn, Insert(c) PROVE IInv'
<1>t. TypeOK /\ Working /\ Apart /\ Progress /\ Counted
  BY DEF IInv
<1>u. up
  BY UpWhenBusy DEF Insert
<1>1. CASE Fail(c) /\ UNCHANGED vectors
  BY <1>1, <1>u, FailKeeps DEF Insert, diskVars
<1>2. CASE ~(Fail(c) /\ UNCHANGED vectors)
  <2> DEFINE t == Head(todo[c])
  <2>1. /\ vectors' = [vectors EXCEPT ![cur[c]] = t]
        /\ pc' = [pc EXCEPT ![c] = "put"]
        /\ UNCHANGED <<todo, got, cur, note, acked, ackedMem, up, nextId, nodes, graph,
                       memories>>
    BY <1>2 DEF Insert, Goto, diskVars
  <2>2. pc[c] = "insert" /\ Busy(c) /\ cur[c] \in Id /\ nodes[cur[c]] = NoText
    BY <1>t DEF Insert, Busy, Working, Progress, Unstored
  <2>3. pc'[c] = "put" /\ \A d \in Conn \ {c} : pc'[d] = pc[d]
    BY <1>t, <2>1 DEF TypeOK
  <2>4. vectors'[cur[c]] = t /\ \A i \in Id \ {cur[c]} : vectors'[i] = vectors[i]
    BY <1>t, <2>1, <2>2 DEF TypeOK
  <2> HIDE DEF t
  <2>5. Working'
    BY <1>t, <1>u, <2>1, <2>2, <2>3 DEF Working, Busy
  <2>6. Apart'
    BY <1>t, <2>1, <2>2, <2>3 DEF Apart, Busy
  <2>7. \A d \in Conn \ {c} : Busy(d) => cur[d] \in Id /\ cur[d] # cur[c]
    BY <1>t, <2>2 DEF Working, Apart
  <2>8. Progress'
    <3>1. ASSUME NEW d \in Conn \ {c}, Inserted(d)'
          PROVE  vectors'[cur'[d]] = Head(todo'[d])
      <4>1. Inserted(d) /\ Busy(d)
        BY <2>3, <3>1 DEF Inserted, Busy
      <4>2. vectors'[cur[d]] = vectors[cur[d]]
        BY <2>4, <2>7, <4>1
      <4> QED
        BY <1>t, <2>1, <4>1, <4>2 DEF Progress
    <3>2. vectors'[cur'[c]] = Head(todo'[c]) /\ nodes'[cur'[c]] = NoText
      BY <2>1, <2>2, <2>4 DEF t
    <3>3. ~Stored(c)'
      BY <2>3 DEF Stored
    <3> QED
      BY <1>t, <2>1, <2>3, <3>1, <3>2, <3>3 DEF Progress, Unstored, Stored
  <2>9. Counted'
    BY <1>t, <2>1 DEF Counted, Ids
  <2>10. \A a \in Id \X Text : Durable(a) => Durable(a)'
    <3>1. ASSUME NEW a \in Id \X Text, Durable(a) PROVE Durable(a)'
      <4>1. a[1] \in Id /\ a[1] # cur[c]
        BY <2>2, <3>1, StoreAssumption DEF Durable
      <4> QED
        BY <2>1, <2>4, <3>1, <4>1 DEF Durable
    <3> QED
      BY <3>1
  <2>11. Safe'
    BY <1>u, <2>1, <2>10, StillSafe
  <2> QED
    BY <2>5, <2>6, <2>8, <2>9, <2>11 DEF IInv
<1> QED
  BY <1>1, <1>2
\* Taking a lock or the write transaction.
LEMMA LockStep ==
  ASSUME IInv, TypeOK', NEW c \in Conn, BeginPutNode(c) \/ BeginSave(c)
  PROVE  IInv'
<1>t. TypeOK /\ Working /\ Apart /\ Progress /\ Counted
  BY DEF IInv
<1>u. up
  BY UpWhenBusy DEF BeginPutNode, BeginSave
<1>1. UNCHANGED <<todo, got, cur, note, acked, ackedMem, up, vectors, nextId, nodes, graph,
                  memories>>
  BY DEF BeginPutNode, BeginSave, Goto, diskVars
<1>2. /\ \/ pc[c] = "put" /\ pc'[c] = "putting"
         \/ pc[c] = "save" /\ pc'[c] = "saving"
      /\ \A d \in Conn \ {c} : pc'[d] = pc[d]
  BY <1>t DEF BeginPutNode, BeginSave, Goto, TypeOK
<1>3. \A d \in Conn : /\ Busy(d)' <=> Busy(d)
                      /\ Unstored(d)' <=> Unstored(d)
                      /\ Inserted(d)' <=> Inserted(d)
                      /\ Stored(d)' <=> Stored(d)
  BY <1>2 DEF Busy, Unstored, Inserted, Stored
<1>4. Working'
  BY <1>t, <1>u, <1>1, <1>2, <1>3 DEF Working
<1>5. Apart'
  BY <1>t, <1>1, <1>3 DEF Apart
<1>6. Progress'
  BY <1>t, <1>1, <1>3 DEF Progress
<1>7. Counted'
  BY <1>t, <1>1 DEF Counted, Ids
<1>8. Safe'
  BY <1>u, <1>1, StillSafe DEF Durable
<1> QED
  BY <1>4, <1>5, <1>6, <1>7, <1>8 DEF IInv

\* The node of a fresh id; no other request has that id and no durable one is it.
LEMMA CommitNodeStep == ASSUME IInv, TypeOK', NEW c \in Conn, CommitNode(c) PROVE IInv'
<1>t. TypeOK /\ Working /\ Apart /\ Progress /\ Counted
  BY DEF IInv
<1>u. up
  BY UpWhenBusy DEF CommitNode
<1>1. CASE Fail(c) /\ UNCHANGED nodes
  BY <1>1, <1>u, FailKeeps DEF CommitNode
<1>2. CASE ~(Fail(c) /\ UNCHANGED nodes)
  <2> DEFINE t == Head(todo[c])
  <2>1. /\ nodes' = [nodes EXCEPT ![cur[c]] = t]
        /\ pc' = [pc EXCEPT ![c] = "save"]
        /\ UNCHANGED <<todo, got, cur, note, acked, ackedMem, up, nextId, vectors, graph,
                       memories>>
    BY <1>2 DEF CommitNode, Goto
  <2>2. pc[c] = "putting" /\ Busy(c) /\ cur[c] \in Id /\ cur[c] < nextId
        /\ nodes[cur[c]] = NoText /\ vectors[cur[c]] = t
    BY <1>t DEF CommitNode, Busy, Working, Progress, Unstored, Inserted
  <2>3. pc'[c] = "save" /\ \A d \in Conn \ {c} : pc'[d] = pc[d]
    BY <1>t, <2>1 DEF TypeOK
  <2>4. nodes'[cur[c]] = t /\ \A i \in Id \ {cur[c]} : nodes'[i] = nodes[i]
    BY <1>t, <2>1, <2>2 DEF TypeOK
  <2> HIDE DEF t
  <2>5. Working'
    BY <1>t, <1>u, <2>1, <2>2, <2>3 DEF Working, Busy
  <2>6. Apart'
    BY <1>t, <2>1, <2>2, <2>3 DEF Apart, Busy
  <2>7. \A d \in Conn \ {c} : Busy(d) => cur[d] \in Id /\ cur[d] # cur[c]
    BY <1>t, <2>2 DEF Working, Apart
  <2>8. Progress'
    <3>1. ASSUME NEW d \in Conn \ {c}, Busy(d)'
          PROVE  nodes'[cur'[d]] = nodes[cur[d]]
      <4>1. Busy(d)
        BY <2>3, <3>1 DEF Busy
      <4> QED
        BY <2>1, <2>4, <2>7, <4>1
    <3>2. \A d \in Conn : Unstored(d)' \/ Stored(d)' => Busy(d)'
      BY DEF Unstored, Stored, Busy
    <3>3. vectors'[cur'[c]] = Head(todo'[c]) /\ nodes'[cur'[c]] = Head(todo'[c])
      BY <2>1, <2>2, <2>4 DEF t
    <3>4. ~Unstored(c)'
      BY <2>3 DEF Unstored
    <3>5. \A d \in Conn \ {c} : /\ Unstored(d)' <=> Unstored(d)
                                /\ Inserted(d)' <=> Inserted(d)
                                /\ Stored(d)' <=> Stored(d)
      BY <2>3 DEF Unstored, Inserted, Stored
    <3>6. ASSUME NEW d \in Conn \ {c}
          PROVE  /\ Unstored(d)' => nodes'[cur'[d]] = NoText
                 /\ Inserted(d)' => vectors'[cur'[d]] = Head(todo'[d])
                 /\ Stored(d)' => nodes'[cur'[d]] = Head(todo'[d])
      BY <1>t, <2>1, <3>1, <3>2, <3>5 DEF Progress
    <3> QED
      BY <3>3, <3>4, <3>6 DEF Progress
  <2>9. Counted'
    BY <1>t, <2>1, <2>2, <2>4 DEF Counted, Ids
  <2>10. \A a \in Id \X Text : Durable(a) => Durable(a)'
    <3>1. ASSUME NEW a \in Id \X Text, Durable(a) PROVE Durable(a)'
      <4>1. a[1] \in Id /\ a[1] # cur[c]
        BY <2>2, <3>1, StoreAssumption DEF Durable
      <4> QED
        BY <2>1, <2>4, <3>1, <4>1 DEF Durable
    <3> QED
      BY <3>1
  <2>11. Safe'
    BY <1>u, <2>1, <2>10, StillSafe
  <2> QED
    BY <2>5, <2>6, <2>8, <2>9, <2>11 DEF IInv
<1> QED
  BY <1>1, <1>2

\* The whole graph is saved: it holds every durable id, and the one being indexed
\* becomes durable, in the answer or in what the request has got so far.
LEMMA CommitSaveStep == ASSUME IInv, TypeOK', NEW c \in Conn, CommitSave(c) PROVE IInv'
<1>t. TypeOK /\ Working /\ Apart /\ Progress /\ Counted /\ Safe
  BY DEF IInv
<1>u. up
  BY UpWhenBusy DEF CommitSave
<1>1. CASE UNCHANGED graph /\ Fail(c)
  BY <1>1, <1>u, FailKeeps DEF CommitSave
<1>2. CASE graph' = vectors /\ NextFunction(c)
  <2>0. PICK new \in Id \X Text : new = <<cur[c], Head(todo[c])>>
    BY <1>t, HeadText DEF CommitSave, Working, Busy
  <2>1. UNCHANGED <<up, vectors, nextId, nodes, memories>>
    BY DEF CommitSave
  <2>2. cur[c] \in Id /\ nodes[cur[c]] = Head(todo[c]) /\ vectors[cur[c]] = Head(todo[c])
    BY <1>t DEF CommitSave, Working, Busy, Progress, Inserted, Stored
  <2>3. \A a \in Id \X Text : Durable(a) => Durable(a)'
    BY <1>2, <1>u, <2>1 DEF Durable
  <2>4. Durable(new)'
    BY <1>2, <2>0, <2>1, <2>2 DEF Durable
  <2>5. acked \subseteq Id \X Text /\ \A d \in Conn : got[d] \subseteq Id \X Text
    BY <1>t DEF TypeOK
  <2>6. CASE Len(todo[c]) > 1
    <3>1. /\ pc' = [pc EXCEPT ![c] = "embed"]
          /\ todo' = [todo EXCEPT ![c] = Tail(@)]
          /\ got' = [got EXCEPT ![c] = got[c] \cup {new}]
          /\ cur' = [cur EXCEPT ![c] = NoId]
          /\ UNCHANGED <<note, acked, ackedMem>>
      BY <1>2, <2>0, <2>6 DEF NextFunction
    <3>2. \A d \in Conn \ {c} : /\ pc'[d] = pc[d] /\ todo'[d] = todo[d]
                                /\ cur'[d] = cur[d] /\ note'[d] = note[d]
      BY <1>t, <3>1 DEF TypeOK
    <3>3. pc'[c] = "embed"
      BY <1>t, <3>1 DEF TypeOK
    <3>4. Working' /\ Apart' /\ Progress' /\ Counted'
      BY <1>u, <2>1, <3>2, <3>3, Quiet
    <3>5. \A d \in Conn : got'[d] \subseteq got[d] \cup {new}
      BY <1>t, <3>1 DEF TypeOK
    <3>6. Safe'
      BY <1>t, <2>1, <2>3, <2>4, <2>5, <3>1, <3>5 DEF Safe
    <3> QED
      BY <3>4, <3>6 DEF IInv
  <2>7. CASE ~(Len(todo[c]) > 1)
    <3>1. Finish(c) /\ acked' = acked \cup (got[c] \cup {new}) /\ UNCHANGED ackedMem
      BY <1>2, <2>0, <2>7 DEF NextFunction
    <3>2. \A d \in Conn \ {c} : /\ pc'[d] = pc[d] /\ todo'[d] = todo[d]
                                /\ cur'[d] = cur[d] /\ note'[d] = note[d]
      BY <1>t, <3>1 DEF Finish, TypeOK
    <3>3. pc'[c] = "idle"
      BY <1>t, <3>1 DEF Finish, TypeOK
    <3>4. Working' /\ Apart' /\ Progress' /\ Counted'
      BY <1>u, <2>1, <3>2, <3>3, Quiet
    <3>5. \A d \in Conn : got'[d] \subseteq got[d]
      BY <1>t, <3>1 DEF Finish, TypeOK
    <3>6. Safe'
      BY <1>t, <2>1, <2>3, <2>4, <2>5, <3>1, <3>5 DEF Safe
    <3> QED
      BY <3>4, <3>6 DEF IInv
  <2> QED
    BY <2>6, <2>7
<1> QED
  BY <1>1, <1>2 DEF CommitSave
\* The other steps of a request leave vectors, nodes and graph alone.
LEMMA OtherSteps ==
  ASSUME IInv, TypeOK', NEW c \in Conn,
         \/ \E f \in File : IndexFile(c, f)
         \/ \E m \in Memory : StoreMemory(c, m)
         \/ BeginPutMemory(c) \/ CommitMemory(c) \/ Search(c) \/ Lookup(c)
  PROVE  IInv'
<1>t. TypeOK /\ Working /\ Safe
  BY DEF IInv
<1>u. up /\ up'
  BY UpWhenBusy DEF IndexFile, StoreMemory, BeginPutMemory, CommitMemory, Search, Lookup,
                    memVars
<1>1. UNCHANGED <<vectors, nodes, graph, nextId, acked>>
  BY DEF IndexFile, StoreMemory, BeginPutMemory, CommitMemory, Search, Lookup, memVars,
         diskVars, Fail
<1>2. \A d \in Conn \ {c} : /\ pc'[d] = pc[d] /\ todo'[d] = todo[d]
                            /\ cur'[d] = cur[d] /\ note'[d] = note[d]
  <2> USE DEF IndexFile, StoreMemory, BeginPutMemory, CommitMemory, Search, Lookup, Fail,
              Finish, Goto
  <2>1. \A d \in Conn \ {c} : pc'[d] = pc[d]
    BY <1>t DEF TypeOK
  <2>2. \A d \in Conn \ {c} : todo'[d] = todo[d] /\ cur'[d] = cur[d]
    BY <1>t DEF TypeOK
  <2>3. \A d \in Conn \ {c} : note'[d] = note[d]
    BY <1>t DEF TypeOK
  <2> QED
    BY <2>1, <2>2, <2>3
<1>3. pc'[c] \in {"idle", "embed", "lookup", "memory", "storing"}
  BY <1>t DEF IndexFile, StoreMemory, BeginPutMemory, CommitMemory, Search, Lookup, Fail,
              Finish, Goto, TypeOK
<1>4. pc'[c] \in {"memory", "storing"} => note'[c] \in Memory
  BY <1>t DEF IndexFile, StoreMemory, BeginPutMemory, CommitMemory, Search, Lookup, Fail,
              Finish, Goto, TypeOK, Working
<1>5. \A d \in Conn : got'[d] \subseteq got[d]
  BY <1>t DEF IndexFile, StoreMemory, BeginPutMemory, CommitMemory, Search, Lookup, Fail,
              Finish, Goto, TypeOK
<1>6. ackedMem' \subseteq memories'
  BY <1>t DEF IndexFile, StoreMemory, BeginPutMemory, CommitMemory, Search, Lookup, Fail,
              memVars, diskVars, Safe
<1>7. Working' /\ Apart' /\ Progress' /\ Counted'
  BY <1>u, <1>1, <1>2, <1>3, <1>4, Quiet
<1>8. Safe'
  BY <1>t, <1>u, <1>1, <1>5, <1>6 DEF Safe, Durable
<1> QED
  BY <1>7, <1>8 DEF IInv

\* A crash drops the requests; the tables keep what was acknowledged.
LEMMA CrashStep == ASSUME IInv, TypeOK', Crash PROVE IInv'
<1>1. ~up' /\ \A c \in Conn : pc'[c] = "idle" /\ got'[c] = {}
  BY DEF Crash
<1>2. UNCHANGED <<nodes, graph, memories, acked, ackedMem>>
  BY DEF Crash, diskVars
<1> QED
  BY <1>1, <1>2 DEF IInv, Working, Apart, Progress, Counted, Safe, Durable, Busy, Unstored,
                    Inserted, Stored

\* A restart loads the graph, which holds every durable id.
LEMMA RestartStep == ASSUME IInv, TypeOK', Restart PROVE IInv'
<1>t. TypeOK /\ Working /\ Safe /\ ~up
  BY DEF IInv, Restart
<1>1. /\ up' /\ vectors' = graph /\ nextId' = NextId
      /\ UNCHANGED <<nodes, graph, memories, pc, got, cur, todo, note, acked, ackedMem>>
  BY DEF Restart, diskVars, reqVars
<1>2. \A c \in Conn : pc'[c] = "idle" /\ got'[c] = {}
  BY <1>t, <1>1 DEF Working
<1>3. Counted'
  BY <1>t, <1>1, NextIdAbove DEF Counted, Ids
<1>4. Working' /\ Apart' /\ Progress'
  BY <1>1, <1>2 DEF Working, Apart, Progress, Busy, Unstored, Inserted, Stored
<1>5. Safe'
  BY <1>t, <1>1, <1>2 DEF Safe, Durable
<1> QED
  BY <1>3, <1>4, <1>5 DEF IInv

LEMMA IInvStep == IInv /\ [Next]_vars => IInv'
<1> SUFFICES ASSUME IInv, [Next]_vars PROVE IInv'
  OBVIOUS
<1>t. TypeOK'
  BY TypeStep DEF IInv
<1>1. ASSUME NEW c \in Conn, Step(c) PROVE IInv'
  BY <1>1, <1>t, TakeIdStep, InsertStep, LockStep, CommitNodeStep, CommitSaveStep, OtherSteps
     DEF Step
<1>2. ASSUME NEW c \in Conn,
             \/ Search(c)
             \/ \E f \in File : IndexFile(c, f)
             \/ \E m \in Memory : StoreMemory(c, m)
      PROVE  IInv'
  BY <1>2, <1>t, OtherSteps
<1>3. CASE UNCHANGED vars
  BY <1>3, <1>t DEF vars, memVars, diskVars, reqVars, IInv, Working, Apart, Progress, Counted,
                    Safe, Durable, Busy, Unstored, Inserted, Stored, Ids
<1> QED
  BY <1>1, <1>2, <1>3, <1>t, CrashStep, RestartStep DEF Next

\* Every variable of the store keeps its type.
THEOREM TypeCorrect == Spec => []TypeOK
<1>1. IInv => TypeOK
  BY DEF IInv
<1> QED
  BY <1>1, IInvInit, IInvStep, PTL DEF Spec

\* An id that index_file answered stays in both tables, and in the index of a
\* running daemon, under the function it was given for; a memory that was
\* acknowledged stays in its table.
THEOREM AcknowledgedStays == Spec => []AckedDurable
<1>1. IInv => AckedDurable
  BY DEF IInv, Safe, Durable, AckedDurable
<1> QED
  BY <1>1, IInvInit, IInvStep, PTL DEF Spec

-----------------------------------------------------------------------------
(***************************************************************************)
(* What a search names.  Under an id that no crash orphaned, the saved     *)
(* graph lags the index but never contradicts it, the index never          *)
(* contradicts the node, and an id handed out has no vector yet; hits      *)
(* taken earlier are still what the index holds.                           *)
(***************************************************************************)
Consistent(i) ==
  /\ nodes[i] # NoText => /\ graph[i] \in {NoText, nodes[i]}
                          /\ up => vectors[i] \in {NoText, nodes[i]}
  /\ up => graph[i] \in {NoText, vectors[i]}
  /\ up /\ nextId <= i => vectors[i] = NoText
  /\ ~up /\ nodes[i] = NoText => graph[i] = NoText

Fresh(c) == pc[c] = "insert" /\ cur[c] \notin orphaned => vectors[cur[c]] = NoText

Current(c) == /\ \A h \in hits[c] : h[1] \in orphaned \/ vectors[h[1]] = h[2]
              /\ ~up => hits[c] = {}

NameInv ==
  /\ SearchNamesItsFunction
  /\ \A i \in Id \ orphaned : Consistent(i)
  /\ \A c \in Conn : Fresh(c) /\ Current(c)

LEMMA NameInit == Init => NameInv
<1> SUFFICES ASSUME Init PROVE NameInv
  OBVIOUS
<1>1. answer = {} /\ \A c \in Conn : pc[c] = "idle" /\ hits[c] = {}
  BY DEF Init
<1>2. \A i \in Id : nodes[i] = NoText /\ graph[i] = NoText /\ vectors[i] = NoText
  BY DEF Init
<1> QED
  BY <1>1, <1>2 DEF NameInv, SearchNamesItsFunction, Consistent, Fresh, Current

\* A step that writes neither the index nor a table, hands out no id and finds
\* no new hit.
LEMMA NameQuiet ==
  ASSUME NameInv, UNCHANGED <<up, vectors, nodes, graph, nextId, orphaned, answer>>,
         \A c \in Conn : /\ pc'[c] = "insert" => pc[c] = "insert" /\ cur'[c] = cur[c]
                         /\ hits'[c] \subseteq hits[c]
  PROVE  NameInv'
<1>1. \A i \in Id \ orphaned' : Consistent(i)'
  BY DEF NameInv, Consistent
<1>2. \A c \in Conn : Fresh(c)' /\ Current(c)'
  BY DEF NameInv, Fresh, Current
<1>3. SearchNamesItsFunction'
  BY DEF NameInv, SearchNamesItsFunction
<1> QED
  BY <1>1, <1>2, <1>3 DEF NameInv

LEMMA NameFail ==
  ASSUME TypeOK, NameInv, NEW c \in Conn, Fail(c),
         UNCHANGED <<up, vectors, nodes, graph, nextId, orphaned>>
  PROVE  NameInv'
<1>1. pc'[c] = "idle" /\ hits'[c] = {}
  BY DEF Fail, Finish, TypeOK
<1>2. \A d \in Conn \ {c} : pc'[d] = pc[d] /\ cur'[d] = cur[d] /\ hits'[d] = hits[d]
  BY DEF Fail, Finish, TypeOK
<1> QED
  BY <1>1, <1>2, NameQuiet DEF Fail

\* The id that is taken has no vector, unless a crash orphaned it.
LEMMA NameTakeId ==
  ASSUME IInv, NameInv, NEW c \in Conn, EmbedAndTakeId(c)
  PROVE  NameInv'
<1>t. TypeOK /\ up
  BY UpWhenBusy DEF IInv, EmbedAndTakeId
<1>1. CASE Fail(c) /\ UNCHANGED nextId
  BY <1>1, <1>t, NameFail DEF EmbedAndTakeId, diskVars
<1>2. CASE ~(Fail(c) /\ UNCHANGED nextId)
  <2>1. /\ nextId <= MaxId /\ nextId' = nextId + 1
        /\ cur' = [cur EXCEPT ![c] = nextId] /\ pc' = [pc EXCEPT ![c] = "insert"]
        /\ UNCHANGED <<hits, up, vectors, nodes, graph, orphaned, answer>>
    BY <1>2 DEF EmbedAndTakeId, diskVars
  <2>2. nextId \in Id /\ nextId \in Nat
    BY <1>t, <2>1, StoreAssumption DEF TypeOK, Id
  <2>3. /\ cur'[c] = nextId
        /\ \A d \in Conn \ {c} : pc'[d] = pc[d] /\ cur'[d] = cur[d]
    BY <1>t, <2>1 DEF TypeOK
  <2>4. \A i \in Id \ orphaned' : Consistent(i)'
    <3>1. \A i \in Id : nextId' <= i => nextId <= i
      BY <2>1, <2>2 DEF Id
    <3> QED
      BY <2>1, <3>1 DEF NameInv, Consistent
  <2>5. Fresh(c)'
    <3>1. nextId \notin orphaned => vectors[nextId] = NoText
      BY <1>t, <2>2 DEF NameInv, Consistent
    <3> QED
      BY <2>1, <2>3, <3>1 DEF Fresh
  <2>6. \A d \in Conn : Fresh(d)' /\ Current(d)'
    BY <2>1, <2>3, <2>5 DEF NameInv, Fresh, Current
  <2>7. SearchNamesItsFunction'
    BY <2>1 DEF NameInv, SearchNamesItsFunction
  <2> QED
    BY <2>4, <2>6, <2>7 DEF NameInv
<1> QED
  BY <1>1, <1>2

\* The vector is written where there was none: no hit and no saved graph has it.
LEMMA NameInsert ==
  ASSUME IInv, NameInv, NEW c \in Conn, Insert(c)
  PROVE  NameInv'
<1>t. TypeOK /\ up /\ Working /\ Apart /\ Progress
  BY UpWhenBusy DEF IInv, Insert
<1>1. CASE Fail(c) /\ UNCHANGED vectors
  BY <1>1, <1>t, NameFail DEF Insert, diskVars
<1>2. CASE ~(Fail(c) /\ UNCHANGED vectors)
  <2>1. /\ vectors' = [vectors EXCEPT ![cur[c]] = Head(todo[c])]
        /\ pc' = [pc EXCEPT ![c] = "put"]
        /\ UNCHANGED <<cur, hits, up, nextId, nodes, graph, orphaned, answer>>
    BY <1>2 DEF Insert, Goto, diskVars
  <2>2. /\ pc[c] = "insert" /\ Busy(c) /\ cur[c] \in Id /\ cur[c] < nextId
        /\ nodes[cur[c]] = NoText
    BY <1>t DEF Insert, Busy, Working, Progress, Unstored
  <2>3. pc'[c] = "put" /\ \A d \in Conn \ {c} : pc'[d] = pc[d]
    BY <1>t, <2>1 DEF TypeOK
  <2>4. \A i \in Id \ {cur[c]} : vectors'[i] = vectors[i]
    BY <1>t, <2>1, <2>2 DEF TypeOK
  <2>5. cur[c] \in orphaned \/ vectors[cur[c]] = NoText
    BY <2>2 DEF NameInv, Fresh
  <2>6. ASSUME NEW i \in Id \ orphaned' PROVE Consistent(i)'
    <3>1. CASE i = cur[c]
      <4>1. graph'[i] = NoText
        BY <1>t, <2>1, <2>5, <2>6, <3>1 DEF NameInv, Consistent
      <4>2. ~(nextId' <= i)
        BY <1>t, <2>1, <2>2, <3>1 DEF TypeOK, Id
      <4>3. nodes'[i] = NoText /\ up'
        BY <1>t, <2>1, <2>2, <3>1
      <4> QED
        BY <4>1, <4>2, <4>3 DEF Consistent
    <3>2. CASE i # cur[c]
      BY <2>1, <2>4, <2>6, <3>2 DEF NameInv, Consistent
    <3> QED
      BY <3>1, <3>2
  <2>7. ASSUME NEW d \in Conn PROVE Fresh(d)'
    <3>1. CASE d = c
      BY <2>3, <3>1 DEF Fresh
    <3>2. CASE d # c /\ pc[d] = "insert"
      <4>1. cur[d] \in Id /\ cur[d] # cur[c]
        BY <1>t, <2>2, <3>2 DEF Working, Apart, Busy
      <4> QED
        BY <2>1, <2>4, <4>1 DEF NameInv, Fresh
    <3>3. CASE d # c /\ pc[d] # "insert"
      BY <2>3, <3>3 DEF Fresh
    <3> QED
      BY <3>1, <3>2, <3>3
  <2>8. ASSUME NEW d \in Conn, NEW h \in hits[d]
        PROVE  h[1] \in orphaned \/ vectors'[h[1]] = h[2]
    <3>1. h[1] \in Id /\ h[2] \in Text
      BY <1>t DEF TypeOK
    <3>2. h[1] \in orphaned \/ vectors[h[1]] = h[2]
      BY DEF NameInv, Current
    <3> QED
      BY <2>4, <2>5, <3>1, <3>2, StoreAssumption
  <2>9. SearchNamesItsFunction'
    BY <2>1 DEF NameInv, SearchNamesItsFunction
  <2>10. \A d \in Conn : Current(d)'
    BY <1>t, <2>1, <2>8 DEF Current
  <2> QED
    BY <2>6, <2>7, <2>9, <2>10 DEF NameInv
<1> QED
  BY <1>1, <1>2

\* The node is written for the vector the index already holds.
LEMMA NameCommitNode ==
  ASSUME IInv, NameInv, NEW c \in Conn, CommitNode(c)
  PROVE  NameInv'
<1>t. TypeOK /\ up /\ Working /\ Progress
  BY UpWhenBusy DEF IInv, CommitNode
<1>1. CASE Fail(c) /\ UNCHANGED nodes
  BY <1>1, <1>t, NameFail DEF CommitNode
<1>2. CASE ~(Fail(c) /\ UNCHANGED nodes)
  <2>1. /\ nodes' = [nodes EXCEPT ![cur[c]] = Head(todo[c])]
        /\ pc' = [pc EXCEPT ![c] = "save"]
        /\ UNCHANGED <<cur, hits, up, nextId, vectors, graph, orphaned, answer>>
    BY <1>2 DEF CommitNode, Goto
  <2>2. cur[c] \in Id /\ vectors[cur[c]] = Head(todo[c])
    BY <1>t DEF CommitNode, Busy, Working, Progress, Inserted
  <2>3. pc'[c] = "save" /\ \A d \in Conn \ {c} : pc'[d] = pc[d]
    BY <1>t, <2>1 DEF TypeOK
  <2>4. /\ nodes'[cur[c]] = vectors[cur[c]]
        /\ \A i \in Id \ {cur[c]} : nodes'[i] = nodes[i]
    BY <1>t, <2>1, <2>2 DEF TypeOK
  <2>5. ASSUME NEW i \in Id \ orphaned' PROVE Consistent(i)'
    <3>1. CASE i = cur[c]
      BY <1>t, <2>1, <2>4, <2>5, <3>1 DEF NameInv, Consistent
    <3>2. CASE i # cur[c]
      BY <2>1, <2>4, <2>5, <3>2 DEF NameInv, Consistent
    <3> QED
      BY <3>1, <3>2
  <2>6. \A d \in Conn : Fresh(d)' /\ Current(d)'
    BY <2>1, <2>3 DEF NameInv, Fresh, Current
  <2>7. SearchNamesItsFunction'
    BY <2>1 DEF NameInv, SearchNamesItsFunction
  <2> QED
    BY <2>5, <2>6, <2>7 DEF NameInv
<1> QED
  BY <1>1, <1>2

\* The graph catches up with the index.
LEMMA NameCommitSave ==
  ASSUME IInv, NameInv, NEW c \in Conn, CommitSave(c)
  PROVE  NameInv'
<1>t. TypeOK /\ up
  BY UpWhenBusy DEF IInv, CommitSave
<1>1. CASE UNCHANGED graph /\ Fail(c)
  BY <1>1, <1>t, NameFail DEF CommitSave
<1>2. CASE graph' = vectors /\ NextFunction(c)
  <2>1. UNCHANGED <<up, vectors, nextId, nodes, orphaned, answer>>
    BY <1>2 DEF CommitSave, NextFunction
  <2>2. /\ pc'[c] # "insert" /\ hits'[c] \subseteq hits[c]
        /\ \A d \in Conn \ {c} : pc'[d] = pc[d] /\ cur'[d] = cur[d] /\ hits'[d] = hits[d]
    BY <1>t, <1>2 DEF NextFunction, Finish, TypeOK
  <2>3. \A i \in Id \ orphaned' : Consistent(i)'
    BY <1>t, <1>2, <2>1 DEF NameInv, Consistent
  <2>4. \A d \in Conn : Fresh(d)' /\ Current(d)'
    BY <2>1, <2>2 DEF NameInv, Fresh, Current
  <2>5. SearchNamesItsFunction'
    BY <2>1 DEF NameInv, SearchNamesItsFunction
  <2> QED
    BY <2>3, <2>4, <2>5 DEF NameInv
<1> QED
  BY <1>1, <1>2 DEF CommitSave

\* A vector search records what the index holds, and the read that follows it
\* finds a node that agrees.
LEMMA NameSearch ==
  ASSUME IInv, NameInv, NEW c \in Conn, Search(c)
  PROVE  NameInv'
<1>t. TypeOK
  BY DEF IInv
<1>1. /\ UNCHANGED <<up, vectors, nodes, graph, nextId, orphaned, answer, cur>>
      /\ pc'[c] = "lookup"
      /\ \A d \in Conn \ {c} : pc'[d] = pc[d] /\ hits'[d] = hits[d]
  BY <1>t DEF Search, memVars, diskVars, TypeOK
<1>2. Current(c)'
  <2>1. PICK S \in SUBSET Ids(vectors) : hits'[c] = {<<i, vectors[i]>> : i \in S}
    BY <1>t DEF Search, TypeOK
  <2> QED
    BY <1>1, <2>1 DEF Current, Search
<1>3. \A i \in Id \ orphaned' : Consistent(i)'
  BY <1>1 DEF NameInv, Consistent
<1>4. \A d \in Conn : Fresh(d)' /\ Current(d)'
  BY <1>1, <1>2 DEF NameInv, Fresh, Current
<1>5. SearchNamesItsFunction'
  BY <1>1 DEF NameInv, SearchNamesItsFunction
<1> QED
  BY <1>3, <1>4, <1>5 DEF NameInv

LEMMA NameLookup ==
  ASSUME IInv, NameInv, NEW c \in Conn, Lookup(c)
  PROVE  NameInv'
<1>t. TypeOK /\ up
  BY UpWhenBusy DEF IInv, Lookup
<1>1. /\ UNCHANGED <<up, vectors, nodes, graph, nextId, orphaned>>
      /\ pc'[c] = "idle" /\ hits'[c] = {}
      /\ \A d \in Conn \ {c} : pc'[d] = pc[d] /\ cur'[d] = cur[d] /\ hits'[d] = hits[d]
  BY <1>t DEF Lookup, Finish, memVars, diskVars, TypeOK
<1>2. ASSUME NEW h \in hits[c], nodes[h[1]] # NoText, h[1] \notin orphaned
      PROVE  h[2] = nodes[h[1]]
  <2>1. h[1] \in Id /\ h[2] \in Text
    BY <1>t, <1>2 DEF TypeOK
  <2>2. vectors[h[1]] = h[2]
    BY <1>2 DEF NameInv, Current
  <2> QED
    BY <1>t, <1>2, <2>1, <2>2, StoreAssumption DEF NameInv, Consistent
<1>3. SearchNamesItsFunction'
  <2>1. ASSUME NEW r \in answer' PROVE r[2] = r[3] \/ r[1] \in orphaned
    <3>1. PICK h \in hits[c] : nodes[h[1]] # NoText /\ r = <<h[1], h[2], nodes[h[1]]>>
      BY <2>1 DEF Lookup
    <3> QED
      BY <1>2, <3>1
  <2> QED
    BY <1>1, <2>1 DEF SearchNamesItsFunction
<1>4. \A i \in Id \ orphaned' : Consistent(i)'
  BY <1>1 DEF NameInv, Consistent
<1>5. \A d \in Conn : Fresh(d)' /\ Current(d)'
  BY <1>1 DEF NameInv, Fresh, Current
<1> QED
  BY <1>3, <1>4, <1>5 DEF NameInv

LEMMA NameOther ==
  ASSUME IInv, NameInv, NEW c \in Conn,
         \/ \E f \in File : IndexFile(c, f)
         \/ \E m \in Memory : StoreMemory(c, m)
         \/ BeginPutNode(c) \/ BeginSave(c) \/ BeginPutMemory(c) \/ CommitMemory(c)
  PROVE  NameInv'
<1>t. TypeOK
  BY DEF IInv
<1>1. UNCHANGED <<up, vectors, nodes, graph, nextId, orphaned, answer>>
  BY DEF IndexFile, StoreMemory, BeginPutNode, BeginSave, BeginPutMemory, CommitMemory,
         memVars, diskVars, Fail
<1>2. pc'[c] # "insert" /\ hits'[c] \subseteq hits[c]
  BY <1>t DEF IndexFile, StoreMemory, BeginPutNode, BeginSave, BeginPutMemory, CommitMemory,
              Fail, Finish, Goto, TypeOK
<1>3. \A d \in Conn \ {c} : pc'[d] = pc[d] /\ cur'[d] = cur[d] /\ hits'[d] = hits[d]
  BY <1>t DEF IndexFile, StoreMemory, BeginPutNode, BeginSave, BeginPutMemory, CommitMemory,
              Fail, Finish, Goto, TypeOK
<1> QED
  BY <1>1, <1>2, <1>3, NameQuiet

\* A crash orphans the saved ids without a node, and only those can be handed
\* out again with a vector in the graph.
LEMMA NameCrash == ASSUME IInv, NameInv, Crash PROVE NameInv'
<1>1. /\ up /\ ~up' /\ answer' = {}
      /\ orphaned' = orphaned \cup (Ids(graph) \ Ids(nodes))
      /\ UNCHANGED <<vectors, nodes, graph, nextId>>
      /\ \A c \in Conn : pc'[c] = "idle" /\ hits'[c] = {}
  BY DEF Crash, diskVars
<1>2. \A i \in Id \ orphaned' : Consistent(i)'
  BY <1>1 DEF NameInv, Consistent, Ids
<1> QED
  BY <1>1, <1>2 DEF NameInv, SearchNamesItsFunction, Fresh, Current

LEMMA NameRestart == ASSUME IInv, NameInv, Restart PROVE NameInv'
<1>t. TypeOK /\ Working /\ ~up
  BY DEF IInv, Restart
<1>1. /\ up' /\ vectors' = graph /\ nextId' = NextId
      /\ UNCHANGED <<nodes, graph, orphaned, answer, pc, cur, hits>>
  BY DEF Restart, diskVars, reqVars
<1>2. \A c \in Conn : pc[c] = "idle" /\ hits[c] = {}
  BY <1>t DEF Working, NameInv, Current
<1>3. ASSUME NEW i \in Id \ orphaned' PROVE Consistent(i)'
  <2>1. nextId' <= i => nodes[i] = NoText
    <3>1. i \in Ids(nodes) => i < NextId
      BY <1>t, NextIdAbove
    <3>2. NextId \in Nat /\ i \in Nat
      BY <1>t, NextIdAbove, StoreAssumption DEF Id
    <3> QED
      BY <1>1, <3>1, <3>2 DEF Ids
  <2> QED
    BY <1>t, <1>1, <1>3, <2>1 DEF NameInv, Consistent
<1>4. SearchNamesItsFunction'
  BY <1>1 DEF NameInv, SearchNamesItsFunction
<1> QED
  BY <1>1, <1>2, <1>3, <1>4 DEF NameInv, Fresh, Current

LEMMA NameNext == IInv /\ NameInv /\ [Next]_vars => NameInv'
<1> SUFFICES ASSUME IInv, NameInv, [Next]_vars PROVE NameInv'
  OBVIOUS
<1>1. ASSUME NEW c \in Conn, Step(c) PROVE NameInv'
  BY <1>1, NameTakeId, NameInsert, NameCommitNode, NameCommitSave, NameLookup, NameOther
     DEF Step
<1>2. ASSUME NEW c \in Conn,
             \/ Search(c)
             \/ \E f \in File : IndexFile(c, f)
             \/ \E m \in Memory : StoreMemory(c, m)
      PROVE  NameInv'
  BY <1>2, NameSearch, NameOther
<1>3. CASE UNCHANGED vars
  BY <1>3, NameQuiet DEF vars, memVars, diskVars, reqVars
<1> QED
  BY <1>1, <1>2, <1>3, NameCrash, NameRestart DEF Next

\* A search answer names the function whose vector matched, although the node is
\* read after the index mutex was released and the saved graph lags both; only an
\* id that a crash orphaned can be answered under another function's name.
THEOREM SearchNamesRight == Spec => []SearchNamesItsFunction
<1>1. NameInv => SearchNamesItsFunction
  BY DEF NameInv
<1> QED
  BY <1>1, IInvInit, IInvStep, NameInit, NameNext, PTL DEF Spec

-----------------------------------------------------------------------------
(***************************************************************************)
(* IndexerDaemon.                                                          *)
(***************************************************************************)
\* A daemon's number is not Nobody, and every call has a client.
LEMMA DaemonType == Nobody \notin Daemon /\ \A x \in Call : Owner[x] \in Client
BY DaemonAssumption DEF Nobody, Daemon

ClientTypes ==
  /\ cstate \in [Client -> CState]
  /\ sock \in [Client -> Call \cup {NoCall}]
  /\ resolver \in [Client -> Call \cup {NoCall}]
  /\ attempts \in [Client -> 0 .. MaxReconnect]
  /\ proc \in [Client -> Daemon \cup {Nobody}]

CallTypes ==
  /\ dial \in [Call -> Dial]
  /\ link \in [Call -> Link]
  /\ far \in [Call -> Daemon \cup {Nobody}]
  /\ stranded \in SUBSET Request

RequestTypes ==
  /\ status \in [Request -> Status]
  /\ via \in [Request -> Call \cup {NoCall}]

DaemonTypes ==
  /\ socketFile \in Daemon \cup {Nobody}
  /\ dstate \in [Daemon -> DState]
  /\ killed \in SUBSET Daemon

LEMMA TypeParts == DaemonTypeOK <=> ClientTypes /\ CallTypes /\ RequestTypes /\ DaemonTypes
BY DEF DaemonTypeOK, ClientTypes, CallTypes, RequestTypes, DaemonTypes

LEMMA DaemonTypeInit == DaemonInit => DaemonTypeOK
BY DaemonAssumption DEF DaemonInit, DaemonTypeOK, CState, DState, Status, Dial, Link

\* Settling and writing a request.
LEMMA SettleType ==
  ASSUME RequestTypes, NEW r \in Request, NEW v \in Status, Settle(r, v)
  PROVE  RequestTypes'
BY DEF Settle, Set, RequestTypes

LEMMA SentType ==
  ASSUME RequestTypes, NEW r \in Request, NEW x \in Call, Set(status, r, "sent"), Set(via, r, x)
  PROVE  RequestTypes'
BY DEF Set, RequestTypes, Status

LEMMA WriteType ==
  ASSUME RequestTypes, ClientTypes, NEW c \in Client, NEW r \in Request, Write(c, r)
  PROVE  RequestTypes'
<1>1. "err" \in Status /\ sock[c] \in Call \cup {NoCall}
  BY DEF Status, ClientTypes
<1>2. CASE Settle(r, "err")
  BY <1>1, <1>2, SettleType
<1>3. CASE sock[c] # NoCall /\ Set(status, r, "sent") /\ Set(via, r, sock[c])
  BY <1>1, <1>3, SentType
<1> QED
  BY <1>2, <1>3 DEF Write

LEMMA AttemptConnectionType ==
  ASSUME DaemonTypeOK, NEW c \in Client, NEW x \in Call, AttemptConnection(c, x)
  PROVE  DaemonTypeOK'
<1> USE DEF AttemptConnection, Set, requestVars, daemonVars
<1>p. ClientTypes /\ CallTypes /\ RequestTypes /\ DaemonTypes
  BY TypeParts
<1>1. ClientTypes'
  BY <1>p DEF ClientTypes
<1>2. CallTypes'
  BY <1>p DEF CallTypes, Dial, Link
<1>3. RequestTypes' /\ DaemonTypes'
  BY <1>p DEF RequestTypes, DaemonTypes
<1> QED
  BY <1>1, <1>2, <1>3, TypeParts, PTL

LEMMA HandleDisconnectionType ==
  ASSUME DaemonTypeOK, NEW c \in Client, HandleDisconnection(c)
  PROVE  /\ cstate' \in [Client -> CState]
         /\ attempts' \in [Client -> 0 .. MaxReconnect]
         /\ dial' \in [Call -> Dial]
<1>p. ClientTypes /\ CallTypes
  BY TypeParts
<1>1. CASE cstate[c] \notin {"connected", "connecting"}
  BY <1>1, <1>p DEF HandleDisconnection, ClientTypes, CallTypes
<1>2. CASE cstate[c] \in {"connected", "connecting"} /\ attempts[c] >= MaxReconnect
  BY <1>2, <1>p DEF HandleDisconnection, ClientTypes, CallTypes, Set, CState
<1>3. CASE cstate[c] \in {"connected", "connecting"} /\ ~(attempts[c] >= MaxReconnect)
  <2>1. attempts[c] + 1 \in 0 .. MaxReconnect
    BY <1>3, <1>p, DaemonAssumption DEF ClientTypes
  <2>2. attempts' = [attempts EXCEPT ![c] = attempts[c] + 1]
        /\ cstate' = [cstate EXCEPT ![c] = "reconnecting"]
        /\ \/ dial' = dial
           \/ \E t \in Timer : dial' = [dial EXCEPT ![t] = "armed"]
    BY <1>3 DEF HandleDisconnection, Set, FreeTimers
  <2>3. dial' \in [Call -> Dial]
    BY <1>p, <2>2 DEF CallTypes, Call, Dial
  <2> QED
    BY <1>p, <2>1, <2>2, <2>3 DEF ClientTypes, CState
<1> QED
  BY <1>1, <1>2, <1>3

\* An event that may settle the caller of the last connect().
LEMMA ResolverType ==
  ASSUME DaemonTypeOK, NEW c \in Client, resolver[c] \in Request, Settle(resolver[c], "err")
  PROVE  RequestTypes'
<1>1. "err" \in Status /\ RequestTypes
  BY TypeParts DEF Status
<1> QED
  BY <1>1, SettleType

LEMMA CallStepType ==
  ASSUME DaemonTypeOK, NEW c \in Client, NEW x \in Call, CallStep(c, x)
  PROVE  DaemonTypeOK'
<1>p. ClientTypes /\ CallTypes /\ RequestTypes /\ DaemonTypes
  BY TypeParts
<1> USE DEF Set, daemonVars, sockVars, requestVars
<1>1. CASE SocketExists(c, x) \/ SpawnWaited(c, x)
  BY <1>1, AttemptConnectionType DEF SocketExists, SpawnWaited
<1>2. CASE SpawnFails(c, x)
  <2>1. RequestTypes'
    <3>1. x \in Request /\ Settle(x, "err") /\ "err" \in Status
      BY <1>2 DEF SpawnFails, Status
    <3> QED
      BY <1>p, <3>1, SettleType
  <2>2. ClientTypes' /\ CallTypes' /\ DaemonTypes'
    BY <1>2, <1>p DEF SpawnFails, ClientTypes, CallTypes, DaemonTypes, Dial
  <2> QED
    BY <2>1, <2>2, TypeParts, PTL
<1>3. ASSUME NEW d \in Daemon, SpawnDaemon(c, x, d) PROVE DaemonTypeOK'
  <2>1. ClientTypes' /\ CallTypes' /\ RequestTypes'
    BY <1>3, <1>p DEF SpawnDaemon, ClientTypes, CallTypes, RequestTypes, Dial
  <2>2. DaemonTypes'
    BY <1>3, <1>p DEF SpawnDaemon, DaemonTypes, DState
  <2> QED
    BY <2>1, <2>2, TypeParts, PTL
<1>4. CASE ProcessEnds(c, x)
  <2>1. ClientTypes' /\ DaemonTypes'
    BY <1>4, <1>p DEF ProcessEnds, ClientTypes, DaemonTypes, CState
  <2>2. CallTypes'
    BY <1>4, <1>p DEF ProcessEnds, CallTypes, Dial, Link
  <2>3. RequestTypes'
    BY <1>4, <1>p DEF ProcessEnds, RequestTypes, Status
  <2> QED
    BY <2>1, <2>2, <2>3, TypeParts, PTL
<1>5. CASE Connected(c, x)
  <2>1. ClientTypes' /\ DaemonTypes'
    BY <1>5, <1>p, DaemonAssumption DEF Connected, ClientTypes, DaemonTypes, CState
  <2>2. CallTypes'
    BY <1>5, <1>p DEF Connected, CallTypes, DaemonTypes, Link
  <2>3. RequestTypes'
    <3>1. CASE resolver[c] \notin Request
      BY <1>5, <1>p, <3>1 DEF Connected, RequestTypes
    <3>2. CASE resolver[c] \in Request /\ sock[c] = x
      <4>1. Set(status, resolver[c], "sent") /\ Set(via, resolver[c], x)
        BY <1>5, <3>2 DEF Connected
      <4> QED
        BY <1>p, <3>2, <4>1, SentType
    <3>3. CASE resolver[c] \in Request /\ sock[c] # x
      <4>1. Write(c, resolver[c])
        BY <1>5, <3>3 DEF Connected
      <4> QED
        BY <1>p, <3>3, <4>1, WriteType
    <3> QED
      BY <3>1, <3>2, <3>3
  <2> QED
    BY <2>1, <2>2, <2>3, TypeParts, PTL
<1>6. CASE SocketError(c, x)
  <2>1. HandleDisconnection(c) /\ Set(link, x, "closing") /\ Set(resolver, c, NoCall)
        /\ UNCHANGED <<daemonVars, far, sock, stranded, proc>>
    BY <1>6 DEF SocketError
  <2>2. RequestTypes'
    <3>1. CASE resolver[c] \in Request
      BY <1>6, <3>1, ResolverType DEF SocketError
    <3>2. CASE resolver[c] \notin Request
      BY <1>6, <1>p, <3>2 DEF SocketError, RequestTypes
    <3> QED
      BY <3>1, <3>2
  <2>3. ClientTypes' /\ CallTypes' /\ DaemonTypes'
    BY <1>p, <2>1, HandleDisconnectionType DEF ClientTypes, CallTypes, DaemonTypes, Link
  <2> QED
    BY <2>2, <2>3, TypeParts, PTL
<1>7. CASE Closed(c, x)
  <2>1. HandleDisconnection(c) /\ Set(link, x, "none")
        /\ UNCHANGED <<daemonVars, far, sock, resolver, stranded, proc, requestVars>>
    BY <1>7 DEF Closed
  <2>2. ClientTypes' /\ CallTypes' /\ DaemonTypes' /\ RequestTypes'
    BY <1>p, <2>1, HandleDisconnectionType
       DEF ClientTypes, CallTypes, DaemonTypes, RequestTypes, Link
  <2> QED
    BY <2>2, TypeParts, PTL
<1>8. CASE ReconnectTimer(c, x)
  <2>1. ClientTypes' /\ CallTypes'
    <3>1. CASE cstate[c] \in {"connected", "connecting"}
      BY <1>8, <1>p, <3>1 DEF ReconnectTimer, ClientTypes, CallTypes, Dial
    <3>2. CASE cstate[c] \notin {"connected", "connecting"}
      BY <1>8, <1>p, <3>2 DEF ReconnectTimer, BeginConnect, ClientTypes, CallTypes, CState, Dial
    <3> QED
      BY <3>1, <3>2
  <2>2. RequestTypes' /\ DaemonTypes'
    BY <1>8, <1>p DEF ReconnectTimer, RequestTypes, DaemonTypes
  <2> QED
    BY <2>1, <2>2, TypeParts, PTL
<1> QED
  BY <1>1, <1>2, <1>3, <1>4, <1>5, <1>6, <1>7, <1>8 DEF CallStep

LEMMA RequestStepType ==
  ASSUME DaemonTypeOK, NEW r \in Request, NEW c \in Client,
         SendRequest(c, r) \/ Answered(r) \/ ShutdownAnswered(c, r) \/ RequestTimeout(r)
  PROVE  DaemonTypeOK'
<1>p. ClientTypes /\ CallTypes /\ RequestTypes /\ DaemonTypes
  BY TypeParts
<1>s. "ok" \in Status /\ "err" \in Status /\ "dialing" \in Status /\ r \in Call
  BY DEF Status, Call
<1> USE DEF Set, daemonVars, sockVars
<1>1. CASE SendRequest(c, r)
  <2>1. DaemonTypes' /\ UNCHANGED <<sockVars, attempts, proc>>
    BY <1>1, <1>p DEF SendRequest, DaemonTypes
  <2>2. CASE cstate[c] = "connected"
    <3>1. Write(c, r) /\ UNCHANGED <<cstate, dial>>
      BY <1>1, <2>2 DEF SendRequest
    <3>2. RequestTypes'
      BY <1>p, <3>1, WriteType
    <3>3. ClientTypes' /\ CallTypes'
      BY <1>p, <2>1, <3>1 DEF ClientTypes, CallTypes
    <3> QED
      BY <2>1, <3>2, <3>3, TypeParts, PTL
  <2>3. CASE cstate[c] = "connecting"
    <3>1. Settle(r, "err") /\ UNCHANGED <<cstate, dial>>
      BY <1>1, <2>3 DEF SendRequest
    <3>2. RequestTypes'
      BY <1>p, <1>s, <3>1, SettleType
    <3>3. ClientTypes' /\ CallTypes'
      BY <1>p, <2>1, <3>1 DEF ClientTypes, CallTypes
    <3> QED
      BY <2>1, <3>2, <3>3, TypeParts, PTL
  <2>4. CASE cstate[c] \notin {"connected", "connecting"}
    <3>1. BeginConnect(c, r) /\ status' = [status EXCEPT ![r] = "dialing"] /\ via' = via
      BY <1>1, <2>4 DEF SendRequest
    <3>2. RequestTypes'
      BY <1>p, <1>s, <3>1 DEF RequestTypes
    <3>3. ClientTypes' /\ CallTypes'
      BY <1>p, <1>s, <2>1, <3>1 DEF BeginConnect, ClientTypes, CallTypes, CState, Dial
    <3> QED
      BY <2>1, <3>2, <3>3, TypeParts, PTL
  <2> QED
    BY <2>2, <2>3, <2>4
<1>2. CASE Answered(r)
  <2>1. PICK v \in {"ok", "err"} : Settle(r, v)
    BY <1>2 DEF Answered
  <2>2. RequestTypes'
    BY <1>p, <1>s, <2>1, SettleType
  <2>3. ClientTypes' /\ CallTypes' /\ DaemonTypes'
    BY <1>2, <1>p DEF Answered, ClientTypes, CallTypes, DaemonTypes
  <2> QED
    BY <2>2, <2>3, TypeParts, PTL
<1>3. CASE ShutdownAnswered(c, r)
  <2>1. RequestTypes'
    BY <1>3, <1>p, <1>s, SettleType DEF ShutdownAnswered
  <2>2. dial' \in [Call -> Dial]
    <3>1. dial' = dial \/ \E t \in Timer : dial' = [dial EXCEPT ![t] = "none"]
      BY <1>3 DEF ShutdownAnswered
    <3> QED
      BY <1>p, <3>1 DEF CallTypes, Call, Dial
  <2>3. link' \in [Call -> Link]
    <3>1. link' = [x \in Call |-> IF x = sock[c] /\ link[x] # "none" THEN "closing" ELSE link[x]]
      BY <1>3 DEF ShutdownAnswered
    <3> QED
      BY <1>p, <3>1 DEF CallTypes, Link
  <2>4. stranded' \in SUBSET Request /\ far' = far
    BY <1>3, <1>p DEF ShutdownAnswered, CallTypes
  <2>5. ClientTypes'
    BY <1>3, <1>p DEF ShutdownAnswered, ClientTypes, CState
  <2>6. DaemonTypes'
    <3>1. CASE proc[c] # Nobody /\ Alive(proc[c])
      <4>1. proc[c] \in Daemon
        BY <1>p, <3>1 DEF ClientTypes
      <4> QED
        BY <1>3, <1>p, <3>1, <4>1 DEF ShutdownAnswered, DaemonTypes, DState
    <3>2. CASE ~(proc[c] # Nobody /\ Alive(proc[c]))
      BY <1>3, <1>p, <3>2 DEF ShutdownAnswered, DaemonTypes
    <3> QED
      BY <3>1, <3>2
  <2>7. CallTypes'
    BY <1>p, <2>2, <2>3, <2>4 DEF CallTypes
  <2> QED
    BY <2>1, <2>5, <2>6, <2>7, TypeParts, PTL
<1>4. CASE RequestTimeout(r)
  <2>1. RequestTypes'
    BY <1>4, <1>p, <1>s, SettleType DEF RequestTimeout
  <2>2. ClientTypes' /\ CallTypes' /\ DaemonTypes'
    BY <1>4, <1>p DEF RequestTimeout, ClientTypes, CallTypes, DaemonTypes
  <2> QED
    BY <2>1, <2>2, TypeParts, PTL
<1> QED
  BY <1>1, <1>2, <1>3, <1>4

LEMMA DaemonStepType ==
  ASSUME DaemonTypeOK, NEW d \in Daemon, DaemonStep(d) \/ GoIdle(d) \/ Kill(d)
  PROVE  DaemonTypeOK'
<1>1. UNCHANGED clientVars
  BY DEF DaemonStep, GoIdle, Kill, OpenDb, Bind, RemoveSocket, Exit
<1>2. DaemonTypes'
  BY TypeParts DEF DaemonStep, GoIdle, Kill, OpenDb, Bind, RemoveSocket, Exit, Set,
                   DaemonTypes, DState
<1>3. ClientTypes' /\ CallTypes' /\ RequestTypes'
  BY <1>1, TypeParts
     DEF clientVars, sockVars, requestVars, ClientTypes, CallTypes, RequestTypes
<1> QED
  BY <1>2, <1>3, TypeParts, PTL

LEMMA DaemonTypeStep == DaemonTypeOK /\ [DaemonNext]_connVars => DaemonTypeOK'
<1> SUFFICES ASSUME DaemonTypeOK, [DaemonNext]_connVars PROVE DaemonTypeOK'
  OBVIOUS
<1>1. CASE UNCHANGED connVars
  BY <1>1 DEF connVars, daemonVars, clientVars, sockVars, requestVars, DaemonTypeOK
<1>2. CASE DaemonNext
  <2>1. \A r \in Request : r \in Call
    BY DEF Call
  <2> QED
    BY <1>2, <2>1, CallStepType, RequestStepType, DaemonStepType, DaemonType DEF DaemonNext
<1> QED
  BY <1>1, <1>2

\* Every variable of the clients and the daemons keeps its type.
THEOREM DaemonTypeCorrect == DaemonSpec => []DaemonTypeOK
BY DaemonTypeInit, DaemonTypeStep, PTL DEF DaemonSpec
-----------------------------------------------------------------------------
(***************************************************************************)
(* The inductive invariant: the database lock admits one daemon at a time, *)
(* and the socket file belongs to that daemon from its bind to its         *)
(* clean-up, or to one that was killed.                                    *)
(***************************************************************************)

OneDb == \A d, e \in Daemon : HasDb(d) /\ HasDb(e) => d = e

Owned ==
  /\ \A d \in Daemon : dstate[d] \in {"listening", "closing"} => socketFile = d
  /\ socketFile # Nobody =>
       \/ dstate[socketFile] \in {"listening", "closing"}
       \/ dstate[socketFile] = "dead" /\ socketFile \in killed

DaemonInv == DaemonTypeOK /\ OneDb /\ Owned

\* A daemon that dies leaves the others and the socket file as they are.
LEMMA Dies ==
  ASSUME DaemonInv, NEW d \in Daemon, dstate' = [dstate EXCEPT ![d] = "dead"],
         killed' = killed \cup {d}, socketFile' = socketFile
  PROVE  OneDb' /\ Owned'
<1>1. socketFile \in Daemon \cup {Nobody}
  BY DEF DaemonInv, DaemonTypeOK
<1>2. dstate'[d] = "dead" /\ \A e \in Daemon \ {d} : dstate'[e] = dstate[e]
  BY DEF DaemonInv, DaemonTypeOK
<1> QED
  BY <1>1, <1>2, DaemonType DEF DaemonInv, OneDb, Owned, HasDb

LEMMA DaemonInvStep == DaemonInv /\ [DaemonNext]_connVars => DaemonInv'
<1> SUFFICES ASSUME DaemonInv, [DaemonNext]_connVars PROVE DaemonInv'
  OBVIOUS
<1>t. DaemonTypeOK /\ DaemonTypeOK'
  BY DaemonTypeStep DEF DaemonInv
<1>f. socketFile \in Daemon \cup {Nobody} /\ dstate \in [Daemon -> DState]
  BY <1>t DEF DaemonTypeOK
<1>u. UNCHANGED daemonVars => OneDb' /\ Owned'
  BY DEF DaemonInv, OneDb, Owned, HasDb, daemonVars
<1> SUFFICES OneDb' /\ Owned'
  BY <1>t DEF DaemonInv
<1> USE DEF Set
<1>1. ASSUME NEW c \in Client, NEW x \in Call, CallStep(c, x) PROVE OneDb' /\ Owned'
  <2>1. ASSUME NEW d \in Daemon, SpawnDaemon(c, x, d) PROVE OneDb' /\ Owned'
    <3>1. /\ dstate[d] = "unborn" /\ dstate' = [dstate EXCEPT ![d] = "starting"]
          /\ UNCHANGED <<socketFile, killed>>
      BY <2>1 DEF SpawnDaemon
    <3>2. dstate'[d] = "starting" /\ \A e \in Daemon \ {d} : dstate'[e] = dstate[e]
      BY <1>f, <3>1
    <3> QED
      BY <1>f, <3>1, <3>2, DaemonType DEF DaemonInv, OneDb, Owned, HasDb
  <2>2. CASE ~\E d \in Daemon : SpawnDaemon(c, x, d)
    BY <1>1, <1>u, <2>2 DEF CallStep, SocketExists, SpawnWaited, AttemptConnection, SpawnFails,
                            ProcessEnds, Connected, SocketError, Closed, ReconnectTimer
  <2> QED
    BY <2>1, <2>2
<1>2. ASSUME NEW r \in Request, NEW c \in Client,
             SendRequest(c, r) \/ Answered(r) \/ ShutdownAnswered(c, r) \/ RequestTimeout(r)
      PROVE  OneDb' /\ Owned'
  <2>1. CASE SendRequest(c, r) \/ Answered(r) \/ RequestTimeout(r)
    BY <1>u, <2>1 DEF SendRequest, Answered, RequestTimeout
  <2>2. CASE ShutdownAnswered(c, r)
    <3>1. CASE proc[c] # Nobody /\ Alive(proc[c])
      <4>1. proc[c] \in Daemon
        BY <1>t, <3>1 DEF DaemonTypeOK
      <4> QED
        BY <2>2, <3>1, <4>1, Dies DEF ShutdownAnswered
    <3>2. CASE ~(proc[c] # Nobody /\ Alive(proc[c]))
      BY <1>u, <2>2, <3>2 DEF ShutdownAnswered, daemonVars
    <3> QED
      BY <3>1, <3>2
  <2> QED
    BY <1>2, <2>1, <2>2
<1>3. ASSUME NEW d \in Daemon, DaemonStep(d) \/ GoIdle(d) \/ Kill(d)
      PROVE  OneDb' /\ Owned'
  <2>1. CASE OpenDb(d)
    <3>1. /\ dstate[d] = "starting" /\ UNCHANGED <<socketFile, killed>>
          /\ dstate' = [dstate EXCEPT ![d] =
                          IF \E e \in Daemon : HasDb(e) THEN "dead" ELSE "opened"]
      BY <2>1 DEF OpenDb
    <3>2. \A e \in Daemon \ {d} : dstate'[e] = dstate[e]
      BY <1>f, <3>1
    <3>3. CASE \E e \in Daemon : HasDb(e)
      <4>1. dstate'[d] = "dead"
        BY <1>f, <3>1, <3>3
      <4> QED
        BY <1>f, <3>1, <3>2, <4>1, DaemonType DEF DaemonInv, OneDb, Owned, HasDb
    <3>4. CASE ~\E e \in Daemon : HasDb(e)
      <4>1. dstate'[d] = "opened"
        BY <1>f, <3>1, <3>4
      <4> QED
        BY <1>f, <3>1, <3>2, <3>4, <4>1, DaemonType DEF DaemonInv, OneDb, Owned, HasDb
    <3> QED
      BY <3>3, <3>4
  <2>2. CASE Bind(d)
    <3>1. /\ dstate[d] = "opened" /\ socketFile' = d /\ killed' = killed
          /\ dstate' = [dstate EXCEPT ![d] = "listening"]
      BY <2>2 DEF Bind
    <3>2. dstate'[d] = "listening" /\ \A e \in Daemon \ {d} : dstate'[e] = dstate[e]
      BY <1>f, <3>1
    <3>3. \A e \in Daemon \ {d} : ~HasDb(e)
      BY <3>1 DEF DaemonInv, OneDb, HasDb
    <3> QED
      BY <3>1, <3>2, <3>3 DEF OneDb, Owned, HasDb
  <2>3. CASE GoIdle(d)
    <3>1. /\ dstate[d] = "listening" /\ UNCHANGED <<socketFile, killed>>
          /\ dstate' = [dstate EXCEPT ![d] = "closing"]
      BY <2>3 DEF GoIdle
    <3>2. dstate'[d] = "closing" /\ \A e \in Daemon \ {d} : dstate'[e] = dstate[e]
      BY <1>f, <3>1
    <3> QED
      BY <1>f, <3>1, <3>2, DaemonType DEF DaemonInv, OneDb, Owned, HasDb
  <2>4. CASE RemoveSocket(d)
    <3>1. /\ dstate[d] = "closing" /\ socketFile' = Nobody /\ killed' = killed
          /\ dstate' = [dstate EXCEPT ![d] = "exiting"]
      BY <2>4 DEF RemoveSocket
    <3>2. dstate'[d] = "exiting" /\ \A e \in Daemon \ {d} : dstate'[e] = dstate[e]
      BY <1>f, <3>1
    <3>3. \A e \in Daemon \ {d} : ~HasDb(e)
      BY <3>1 DEF DaemonInv, OneDb, HasDb
    <3> QED
      BY <3>1, <3>2, <3>3 DEF OneDb, Owned, HasDb
  <2>5. CASE Exit(d)
    <3>1. /\ dstate[d] = "exiting" /\ UNCHANGED <<socketFile, killed>>
          /\ dstate' = [dstate EXCEPT ![d] = "dead"]
      BY <2>5 DEF Exit
    <3>2. dstate'[d] = "dead" /\ \A e \in Daemon \ {d} : dstate'[e] = dstate[e]
      BY <1>f, <3>1
    <3> QED
      BY <1>f, <3>1, <3>2, DaemonType DEF DaemonInv, OneDb, Owned, HasDb
  <2>6. CASE Kill(d)
    BY <2>6, Dies DEF Kill
  <2> QED
    BY <1>3, <2>1, <2>2, <2>3, <2>4, <2>5, <2>6 DEF DaemonStep
<1>4. CASE UNCHANGED connVars
  BY <1>4, <1>u DEF connVars, daemonVars
<1>5. \A r \in Request : r \in Call
  BY DEF Call
<1> QED
  BY <1>1, <1>2, <1>3, <1>4, <1>5, DaemonType DEF DaemonNext

LEMMA DaemonInvInit == DaemonInit => DaemonInv
<1> SUFFICES ASSUME DaemonInit PROVE DaemonInv
  OBVIOUS
<1>1. \A d \in Daemon : dstate[d] = "unborn"
  BY DEF DaemonInit
<1> QED
  BY <1>1, DaemonTypeInit DEF DaemonInit, DaemonInv, OneDb, Owned, HasDb

\* The socket file leads to the daemon that listens, and one that leads nowhere
\* was left by a killed daemon, for any number of clients and daemons: the lock
\* of the database is taken before the bind and given back after the clean-up.
THEOREM SocketFileIsTruthful == DaemonSpec => []SocketFileTruthful
<1>1. DaemonInv => SocketFileTruthful
  BY DEF DaemonInv, OneDb, Owned, SocketFileTruthful
<1> QED
  BY <1>1, DaemonInvInit, DaemonInvStep, PTL DEF DaemonSpec
=============================================================================
