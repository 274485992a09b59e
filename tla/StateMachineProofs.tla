------------------------- MODULE StateMachineProofs -------------------------
(***************************************************************************)
(* Theorems about StateMachine, for any set of updates, overlapping in any *)
(* way, and any number of crashes.  Two invariants carry them: one for as  *)
(* long as no calls overlapped, where the update in flight has the files   *)
(* to itself, and one that counts inodes against acknowledged updates.     *)
(***************************************************************************)
EXTENDS StateMachine, TLAPS, FiniteSetTheorems

LEMMA TypeInit == Init => TypeOK
<1> SUFFICES ASSUME Init PROVE TypeOK
  OBVIOUS
<1>1. crashes \in 0 .. MaxCrashes
  BY StateAssumption DEF Init
<1>2. content \in [Inode -> {Doc(s) : s \in SUBSET Updates} \cup {Bad}]
  BY DEF Init
<1> QED
  BY <1>1, <1>2 DEF Init, TypeOK, Inode

LEMMA ReadType == TypeOK => Read \subseteq Updates
BY DEF TypeOK, Read, Inode, Doc, Bad

LEMMA TypeStep == TypeOK /\ [Next]_vars => TypeOK'
<1> SUFFICES ASSUME TypeOK, [Next]_vars PROVE TypeOK'
  OBVIOUS
<1>1. CASE load
  BY <1>1, ReadType DEF load, TypeOK, fsVars, history, Inode
<1>2. CASE Crash
  <2>1. crashes' \in 0 .. MaxCrashes
    BY <1>2, StateAssumption DEF Crash, TypeOK
  <2>2. pc' \in [Updates -> {"idle", "init", "open", "write", "rename", "done", "failed"}]
        /\ \A u \in Updates : pc'[u] # "write"
    BY <1>2 DEF Crash, TypeOK, InFlight
  <2> QED
    BY <1>2, <2>1, <2>2 DEF Crash, TypeOK, fsVars, history, Inode
<1>3. ASSUME NEW u \in Updates, update(u) PROVE TypeOK'
  BY <1>3 DEF update, TypeOK, fsVars, history, Inode
<1>4. ASSUME NEW u \in Updates, ApplyUpdater(u) PROVE TypeOK'
  BY <1>4 DEF ApplyUpdater, TypeOK, fsVars, history, Inode
<1>5. ASSUME NEW u \in Updates, OpenTmp(u) PROVE TypeOK'
  BY <1>5, StateAssumption DEF OpenTmp, TypeOK, history, Inode
<1>6. ASSUME NEW u \in Updates, WriteTmp(u) PROVE TypeOK'
  <2>1. PICK c \in {Doc(data[u])} \cup (IF content[fd[u]] = Bad THEN {} ELSE {Bad}) :
          content' = [content EXCEPT ![fd[u]] = c]
    BY <1>6 DEF WriteTmp
  <2>2. c \in {Doc(s) : s \in SUBSET Updates} \cup {Bad}
    BY DEF TypeOK
  <2> QED
    BY <1>6, <2>1, <2>2 DEF WriteTmp, TypeOK, history, Inode
<1>7. ASSUME NEW u \in Updates, WriteFails(u) PROVE TypeOK'
  BY <1>7 DEF WriteFails, TypeOK, history, Inode
<1>8. ASSUME NEW u \in Updates, Rename(u) PROVE TypeOK'
  BY <1>8 DEF Rename, TypeOK, history, Inode
<1>9. CASE UNCHANGED vars
  BY <1>9 DEF vars, fsVars, history, TypeOK
<1> QED
  BY <1>1, <1>2, <1>3, <1>4, <1>5, <1>6, <1>7, <1>8, <1>9 DEF Next, UpdateStep

\* Every variable of the state machine keeps its type, however many updates
\* overlap, fail or are cut off.
THEOREM TypeCorrect == Spec => []TypeOK
<1> QED
  BY TypeInit, TypeStep, PTL DEF Spec

-----------------------------------------------------------------------------
(***************************************************************************)
(* The inductive invariant while no calls have overlapped.                 *)
(***************************************************************************)

Single == \A u, v \in InFlight : u = v

\* state.json is complete and is never the file being written; an update creates
\* an inode only when it opens the temporary file, which it does once.
Files ==
  /\ json # None => content[json] # Bad /\ json # tmp
  /\ \A u \in Updates : json = u \/ tmp = u => pc[u] \notin {"idle", "init", "open"}

\* What the update in flight has in hand.
Writing ==
  \A u \in Updates :
    /\ pc[u] \in {"open", "write", "rename"} => data[u] = state /\ u \in state
    /\ pc[u] = "write" => tmp # None /\ fd[u] = tmp /\ content[tmp] = Bad
    /\ pc[u] = "rename" => tmp # None /\ content[tmp] = Doc(data[u])

\* The memory of a process that starts with no file, or has loaded the file, knows
\* all that is in it.
Current == loaded \/ crashes = 0

Book ==
  ~blind => /\ Current => Read \subseteq state
            /\ \A u \in Updates : pc[u] \in {"open", "write", "rename"} => Current
            /\ \A u \in Updates : pc[u] = "done" => u \in Read

Alone == Single /\ Files /\ Writing /\ Book

IInv == TypeOK /\ (~overlapped => Alone)

LEMMA ReadDoc == ASSUME NEW s, json # None, content[json] = Doc(s) PROVE Read = s
BY DEF Read, Doc

LEMMA ReadUnchanged ==
  ASSUME json' = json, json # None => content'[json] = content[json]
  PROVE  Read' = Read
BY DEF Read

LEMMA IInvInit == Init => IInv
<1> SUFFICES ASSUME Init PROVE IInv
  OBVIOUS
<1>1. InFlight = {}
  BY DEF Init, InFlight
<1>2. TypeOK
  BY TypeInit
<1>3. Read = {} /\ \A u \in Updates : pc[u] = "idle"
  BY DEF Init, Read
<1>4. Single /\ Writing /\ Book
  BY <1>1, <1>3 DEF Single, Writing, Book
<1>5. Files
  BY <1>3, StateAssumption DEF Init, Files
<1> QED
  BY <1>2, <1>4, <1>5 DEF IInv, Alone

\* Once calls have overlapped, that stays on record.
LEMMA OverlapStays == TypeOK /\ [Next]_vars => (overlapped => overlapped')
BY DEF Next, UpdateStep, load, Crash, update, ApplyUpdater, OpenTmp, WriteTmp, WriteFails,
       Rename, vars, history, TypeOK

LEMMA IInvStep == IInv /\ [Next]_vars => IInv'
<1>a. SUFFICES ASSUME IInv, [Next]_vars, ~overlapped' PROVE Alone'
  BY TypeStep DEF IInv
<1>i. TypeOK /\ Single /\ Files /\ Writing /\ Book
  BY <1>a, OverlapStays DEF IInv, Alone
<1>1. CASE load
  <2>1. InFlight = {} /\ InFlight' = {}
    BY <1>a, <1>1 DEF load, InFlight
  <2>2. Read' = Read /\ state' = Read
    BY <1>1 DEF load, fsVars, Read
  <2>3. Writing'
    BY <1>1, <2>1 DEF load, fsVars, Writing, InFlight
  <2>4. Files'
    BY <1>1, <1>i DEF load, fsVars, Files
  <2> QED
    BY <1>1, <1>i, <2>1, <2>2, <2>3, <2>4 DEF load, Alone, Single, Book, Current
<1>2. CASE Crash
  <2>1. InFlight' = {}
    BY <1>2, <1>i DEF Crash, InFlight, TypeOK
  <2>2. Read' = Read
    BY <1>2 DEF Crash, fsVars, Read
  <2>3. \A u \in Updates : pc'[u] \in {"failed", pc[u]}
    BY <1>2, <1>i DEF Crash, TypeOK
  <2>4. Writing'
    BY <2>1 DEF Writing, InFlight
  <2>5. Files'
    BY <1>2, <1>i, <2>3 DEF Crash, fsVars, Files
  <2> QED
    BY <1>2, <1>i, <2>1, <2>2, <2>3, <2>4, <2>5
       DEF Crash, Alone, Single, Book, Current, history, InFlight, TypeOK
<1>3. ASSUME NEW u \in Updates, update(u) PROVE Alone'
  <2>1. InFlight = {}
    BY <1>a, <1>3 DEF update
  <2>2. InFlight' = {u}
    BY <1>3, <1>i, <2>1 DEF update, InFlight, TypeOK
  <2>3. Read' = Read
    BY <1>3 DEF update, fsVars, Read
  <2>4. Writing'
    BY <1>3, <1>i DEF update, fsVars, Writing, TypeOK
  <2>5. Files'
    BY <1>3, <1>i DEF update, fsVars, Files, TypeOK
  <2>6. Book'
    BY <1>3, <1>i, <2>3 DEF update, Book, Current, TypeOK
  <2> QED
    BY <2>2, <2>4, <2>5, <2>6 DEF Alone, Single
<1>4. ASSUME NEW u \in Updates, ApplyUpdater(u) PROVE Alone'
  <2>1. InFlight = {u} /\ InFlight' = {u}
    BY <1>4, <1>i DEF ApplyUpdater, Single, InFlight, TypeOK
  <2>2. Read' = Read
    BY <1>4 DEF ApplyUpdater, fsVars, Read
  <2>3. data'[u] = state' /\ u \in state' /\ pc'[u] = "open"
    BY <1>4, <1>i DEF ApplyUpdater, TypeOK
  <2>4. \A v \in Updates : pc'[v] \in {"open", "write", "rename"} => v = u
    BY <2>1 DEF InFlight
  <2>5. Writing'
    BY <2>3, <2>4 DEF Writing
  <2>6. Files'
    BY <1>4, <1>i DEF ApplyUpdater, fsVars, Files, TypeOK
  <2>7. Book'
    <3>1. SUFFICES ASSUME ~blind'
                   PROVE  /\ Current' => Read' \subseteq state'
                          /\ \A v \in Updates : pc'[v] \in {"open", "write", "rename"} => Current'
                          /\ \A v \in Updates : pc'[v] = "done" => v \in Read'
      BY DEF Book
    <3>0. crashes \in Nat /\ (~(crashes > 0) => crashes = 0)
      BY <1>i, StateAssumption DEF TypeOK
    <3>2a. blind' = (blind \/ (~loaded /\ crashes > 0)) /\ loaded' = loaded /\ crashes' = crashes
      BY <1>4 DEF ApplyUpdater
    <3>2. ~blind /\ Current /\ Current'
      BY <3>0, <3>1, <3>2a, Zenon DEF Current
    <3>3. state' = state \cup {u} /\ \A v \in Updates : pc'[v] = "done" => pc[v] = "done"
      BY <1>4, <1>i DEF ApplyUpdater, TypeOK
    <3> QED
      BY <1>i, <2>2, <3>2, <3>3 DEF Book
  <2> QED
    BY <2>1, <2>5, <2>6, <2>7 DEF Alone, Single
<1>5. ASSUME NEW u \in Updates, OpenTmp(u) PROVE Alone'
  <2>1. InFlight = {u} /\ InFlight' = {u}
    BY <1>5, <1>i DEF OpenTmp, Single, InFlight, TypeOK
  <2>2. tmp' # None /\ tmp' \in Updates /\ json' = json /\ (json # None => json # tmp')
    BY <1>5, <1>i, StateAssumption DEF OpenTmp, Files, TypeOK, Inode
  <2>3. content'[tmp'] = Bad /\ \A n \in Inode : n # tmp' => content'[n] = content[n]
    BY <1>5, <1>i, <2>2 DEF OpenTmp, TypeOK, Inode
  <2>4. json # None => content'[json] = content[json]
    BY <1>i, <2>2, <2>3 DEF TypeOK
  <2>5. Read' = Read
    BY <2>2, <2>4, ReadUnchanged
  <2>6. pc'[u] = "write" /\ fd'[u] = tmp' /\ data'[u] = state' /\ u \in state'
    BY <1>5, <1>i DEF OpenTmp, TypeOK, Writing
  <2>7. \A v \in Updates : pc'[v] \in {"open", "write", "rename"} => v = u
    BY <2>1 DEF InFlight
  <2>8. Writing'
    BY <2>2, <2>3, <2>6, <2>7 DEF Writing
  <2>9. Files'
    BY <1>5, <1>i, <2>2, <2>4 DEF OpenTmp, Files, TypeOK
  <2>10. Book'
    BY <1>5, <1>i, <2>1, <2>5 DEF OpenTmp, Book, Current, history, TypeOK
  <2> QED
    BY <2>1, <2>8, <2>9, <2>10 DEF Alone, Single
<1>6. ASSUME NEW u \in Updates, WriteTmp(u) PROVE Alone'
  <2>1. InFlight = {u} /\ InFlight' = {u}
    BY <1>6, <1>i DEF WriteTmp, Single, InFlight, TypeOK
  <2>2. fd[u] = tmp /\ tmp # None /\ content[fd[u]] = Bad /\ (json # None => json # tmp)
    BY <1>6, <1>i DEF WriteTmp, Writing, Files
  <2>3. content' = [content EXCEPT ![tmp] = Doc(data[u])]
    BY <1>6, <2>2 DEF WriteTmp
  <2>4. content'[tmp] = Doc(data[u]) /\ (json # None => content'[json] = content[json])
    BY <1>i, <2>2, <2>3 DEF TypeOK
  <2>5. Read' = Read
    BY <1>6, <2>4, ReadUnchanged DEF WriteTmp
  <2>6. \A v \in Updates : pc'[v] \in {"open", "write", "rename"} => v = u
    BY <2>1 DEF InFlight
  <2>7. Writing'
    BY <1>6, <1>i, <2>2, <2>4, <2>6 DEF WriteTmp, Writing, TypeOK
  <2>8. Files'
    BY <1>6, <1>i, <2>2, <2>4 DEF WriteTmp, Files, TypeOK
  <2>9. Book'
    BY <1>6, <1>i, <2>1, <2>5 DEF WriteTmp, Book, Current, history, TypeOK
  <2> QED
    BY <2>1, <2>7, <2>8, <2>9 DEF Alone, Single
<1>7. ASSUME NEW u \in Updates, WriteFails(u) PROVE Alone'
  <2>1. InFlight = {u} /\ InFlight' = {}
    BY <1>7, <1>i DEF WriteFails, Single, InFlight, TypeOK
  <2>2. fd[u] = tmp /\ tmp # None /\ (json # None => json # tmp)
    BY <1>7, <1>i DEF WriteFails, Writing, Files
  <2>3. json # None => content'[json] = content[json]
    BY <1>7, <1>i, <2>2 DEF WriteFails, TypeOK
  <2>4. Read' = Read
    BY <1>7, <2>3, ReadUnchanged DEF WriteFails
  <2>5. Writing'
    BY <2>1 DEF Writing, InFlight
  <2>6. Files'
    BY <1>7, <1>i, <2>2, <2>3 DEF WriteFails, Files, TypeOK
  <2>7. Book'
    BY <1>7, <1>i, <2>1, <2>4 DEF WriteFails, Book, Current, history, TypeOK
  <2> QED
    BY <2>1, <2>5, <2>6, <2>7 DEF Alone, Single
<1>8. ASSUME NEW u \in Updates, Rename(u) PROVE Alone'
  <2>1. InFlight = {u} /\ InFlight' = {}
    BY <1>8, <1>i DEF Rename, Single, InFlight, TypeOK
  <2>2. tmp # None /\ content[tmp] = Doc(state) /\ u \in state
    BY <1>8, <1>i DEF Rename, Writing
  <2>3. json' = tmp /\ tmp' = None /\ pc' = [pc EXCEPT ![u] = "done"]
    BY <1>8, <2>2 DEF Rename
  <2>4. content' = content /\ state' = state /\ loaded' = loaded
    BY <1>8 DEF Rename
  <2>5. Read' = state
    BY <2>2, <2>3, <2>4 DEF Read, Doc
  <2>6. Writing'
    BY <2>1 DEF Writing, InFlight
  <2>7. content'[json'] # Bad
    BY <2>2, <2>3, <2>4 DEF Doc, Bad
  <2>8. Files'
    BY <1>i, <2>2, <2>3, <2>7, StateAssumption DEF Files, TypeOK
  <2>9. crashes' = crashes /\ blind' = blind
    BY <1>8 DEF Rename, history
  <2>10. Book'
    BY <1>8, <1>i, <2>2, <2>3, <2>4, <2>5, <2>9 DEF Rename, Book, Current, TypeOK
  <2> QED
    BY <2>1, <2>6, <2>8, <2>10 DEF Alone, Single
<1>9. CASE UNCHANGED vars
  <2>1. InFlight' = InFlight /\ Read' = Read /\ (Current' <=> Current)
    BY <1>9 DEF vars, fsVars, InFlight, Read, Current
  <2> QED
    BY <1>9, <1>i, <2>1 DEF vars, fsVars, history, Alone, Single, Files, Writing, Book
<1> QED
  BY <1>a, <1>1, <1>2, <1>3, <1>4, <1>5, <1>6, <1>7, <1>8, <1>9 DEF Next, UpdateStep

\* An update whose promise was fulfilled is in the file from then on, as long as no
\* calls overlap and every restarted process loads the file before it updates.
THEOREM Durable == Spec => []AckedDurable
<1>1. IInv => AckedDurable
  BY DEF IInv, Alone, Book, AckedDurable
<1>2. IInv /\ [Next]_vars => IInv'
  BY IInvStep
<1> QED
  BY <1>1, <1>2, IInvInit, PTL DEF Spec

-----------------------------------------------------------------------------
(***************************************************************************)
(* Overlapping updates.  Every rename that succeeds takes away an inode    *)
(* that some open created, and every update opens once.  When all the      *)
(* updates that opened have also renamed, each has created an inode of its *)
(* own, so no two wrote to the same one.                                   *)
(***************************************************************************)

Done    == {u \in Updates : pc[u] = "done"}
Created == {u \in Updates : fd[u] = u}

Count ==
  /\ IsFiniteSet(Done) /\ IsFiniteSet(Created)
  /\ Cardinality(Done) = Cardinality(Created \ {tmp})

\* An update has an inode open from its open on, and a named inode is one that the
\* update of that name created.
Opened ==
  /\ \A u \in Updates : pc[u] \in {"idle", "init", "open"} => fd[u] = None
  /\ tmp # None => fd[tmp] = tmp
  /\ json # None => fd[json] = json

\* The only writer of an inode finds it empty and leaves a document.
Only(u) == fd[u] = u /\ \A v \in Updates : fd[v] = u => v = u

Owned ==
  \A u \in Updates : Only(u) =>
    /\ pc[u] = "write" => content[u] = Bad
    /\ pc[u] \in {"rename", "done"} => content[u] # Bad

CInv == TypeOK /\ Count /\ Opened /\ Owned

LEMMA CInvInit == Init => CInv
<1> SUFFICES ASSUME Init PROVE CInv
  OBVIOUS
<1>1. TypeOK
  BY TypeInit
<1>2. Done = {} /\ Created = {} /\ Created \ {tmp} = {}
  BY StateAssumption DEF Init, Done, Created
<1>3. Count
  BY <1>2, FS_EmptySet DEF Count
<1>4. Opened /\ Owned
  BY StateAssumption DEF Init, Opened, Owned, Only
<1> QED
  BY <1>1, <1>3, <1>4 DEF CInv

LEMMA CountSame ==
  ASSUME Count, Done' = Done, Created' \ {tmp'} = Created \ {tmp}, IsFiniteSet(Created')
  PROVE  Count'
BY DEF Count

\* Steps that open, write and rename nothing.
LEMMA CInvQuiet ==
  ASSUME CInv, TypeOK', UNCHANGED <<fd, fsVars>>,
         \A u \in Updates : \/ pc'[u] = pc[u]
                            \/ pc'[u] = "failed" /\ pc[u] # "done"
                            \/ pc[u] = "idle" /\ pc'[u] = "init"
                            \/ pc[u] = "init" /\ pc'[u] = "open"
  PROVE  CInv'
<1>1. Done' = Done /\ Created' = Created /\ tmp' = tmp
  BY DEF Done, Created, fsVars
<1>2. Count'
  BY <1>1, CountSame DEF CInv, Count
<1>3. Opened'
  BY DEF CInv, Opened, fsVars
<1>4. Owned'
  BY DEF CInv, Owned, Only, fsVars
<1> QED
  BY <1>2, <1>3, <1>4 DEF CInv

LEMMA CInvOpen ==
  ASSUME CInv, TypeOK', NEW u \in Updates, OpenTmp(u)
  PROVE  CInv'
<1>1. fd[u] = None /\ u # None /\ u \notin Created /\ tmp # u /\ pc[u] = "open"
  BY StateAssumption DEF CInv, Opened, Created, OpenTmp
<1>2. fd' = [fd EXCEPT ![u] = tmp'] /\ fd'[u] = tmp'
      /\ \A v \in Updates : v # u => fd'[v] = fd[v]
  BY DEF OpenTmp, CInv, TypeOK
<1>3. pc'[u] = "write" /\ (\A v \in Updates : v # u => pc'[v] = pc[v]) /\ json' = json
  BY DEF OpenTmp, CInv, TypeOK
<1>4. tmp' \in Updates /\ content'[tmp'] = Bad
      /\ \A n \in Updates : n # tmp' => content'[n] = content[n]
  BY DEF OpenTmp, CInv, TypeOK, Inode
<1>5. Done' = Done
  BY <1>1, <1>3 DEF Done
<1>6. Count'
  <2>1. CASE tmp = None
    <3>1. tmp' = u
      BY <2>1 DEF OpenTmp
    <3>2. Created' = Created \cup {u}
      BY <1>2, <3>1 DEF Created
    <3>3. IsFiniteSet(Created')
      BY <3>2, FS_AddElement DEF CInv, Count
    <3>4. Created' \ {tmp'} = Created \ {tmp}
      BY <1>1, <2>1, <3>1, <3>2, StateAssumption DEF Created
    <3> QED
      BY <1>5, <3>3, <3>4, CountSame DEF CInv
  <2>2. CASE tmp # None
    <3>1. tmp' = tmp
      BY <2>2 DEF OpenTmp
    <3>2. Created' = Created
      BY <1>1, <1>2, <3>1 DEF Created
    <3> QED
      BY <1>5, <3>1, <3>2, CountSame DEF CInv, Count
  <2> QED
    BY <2>1, <2>2
<1>7. Opened'
  <2>1. tmp' # None => fd'[tmp'] = tmp'
    <3>1. CASE tmp = None
      BY <1>2, <3>1 DEF OpenTmp
    <3>2. CASE tmp # None
      BY <1>1, <1>2, <1>4, <3>2 DEF OpenTmp, CInv, Opened
    <3> QED
      BY <3>1, <3>2
  <2>2. json' # None => fd'[json'] = json'
    <3>1. SUFFICES ASSUME json # None PROVE fd'[json] = json
      BY <1>3
    <3>2. json \in Updates /\ fd[json] = json
      BY <3>1 DEF CInv, Opened, TypeOK, Inode
    <3> QED
      BY <1>1, <1>2, <3>2
  <2> QED
    BY <1>2, <1>3, <2>1, <2>2 DEF CInv, Opened
<1>8. Owned'
  <2>1. SUFFICES ASSUME NEW v \in Updates, Only(v)'
                 PROVE  /\ pc'[v] = "write" => content'[v] = Bad
                        /\ pc'[v] \in {"rename", "done"} => content'[v] # Bad
    BY DEF Owned
  <2>2. CASE v = u
    BY <1>2, <1>3, <1>4, <2>1, <2>2 DEF Only
  <2>3. CASE v # u
    <3>1. v # tmp'
      BY <1>2, <2>1, <2>3 DEF Only
    <3>2. Only(v)
      BY <1>1, <1>2, <2>1, <2>3, StateAssumption DEF Only
    <3> QED
      BY <1>3, <1>4, <2>3, <3>1, <3>2 DEF CInv, Owned
  <2> QED
    BY <2>2, <2>3
<1> QED
  BY <1>6, <1>7, <1>8 DEF CInv

LEMMA CInvWrite ==
  ASSUME CInv, TypeOK', NEW u \in Updates, WriteTmp(u) \/ WriteFails(u)
  PROVE  CInv'
<1>1. pc[u] = "write" /\ fd' = fd /\ tmp' = tmp /\ json' = json
      /\ fd[u] \in Updates
  BY DEF WriteTmp, WriteFails, CInv, TypeOK, Inode
<1>2. \A v \in Updates : v # u => pc'[v] = pc[v]
  BY DEF WriteTmp, WriteFails, CInv, TypeOK
<1>3. \A n \in Updates : n # fd[u] => content'[n] = content[n]
  BY <1>1 DEF WriteTmp, WriteFails, CInv, TypeOK, Inode
<1>4. pc'[u] \in {"rename", "failed"}
      /\ (pc'[u] = "rename" /\ content[fd[u]] = Bad => content'[fd[u]] # Bad)
  <2>1. CASE WriteTmp(u)
    BY <1>1, <2>1 DEF WriteTmp, CInv, TypeOK, Doc, Bad, Inode
  <2>2. CASE WriteFails(u)
    BY <2>2 DEF WriteFails, CInv, TypeOK
  <2> QED
    BY <2>1, <2>2
<1>5. Done' = Done /\ Created' = Created
  BY <1>1, <1>2, <1>4 DEF Done, Created
<1>6. Count'
  BY <1>1, <1>5, CountSame DEF CInv, Count
<1>7. Opened'
  BY <1>1, <1>2, <1>4 DEF CInv, Opened
<1>8. Owned'
  <2>1. SUFFICES ASSUME NEW v \in Updates, Only(v)'
                 PROVE  /\ pc'[v] = "write" => content'[v] = Bad
                        /\ pc'[v] \in {"rename", "done"} => content'[v] # Bad
    BY DEF Owned
  <2>2. Only(v)
    BY <1>1, <2>1 DEF Only
  <2>3. CASE v = u
    <3>1. fd[u] = u /\ content[u] = Bad
      BY <1>1, <2>2, <2>3 DEF CInv, Owned, Only
    <3> QED
      BY <1>4, <2>3, <3>1
  <2>4. CASE v # u
    <3>1. fd[u] # v
      BY <2>2, <2>4 DEF Only
    <3> QED
      BY <1>2, <1>3, <2>2, <2>4, <3>1 DEF CInv, Owned
  <2> QED
    BY <2>3, <2>4
<1> QED
  BY <1>6, <1>7, <1>8 DEF CInv

LEMMA CInvRename ==
  ASSUME CInv, TypeOK', NEW u \in Updates, Rename(u)
  PROVE  CInv'
<1>1. pc[u] = "rename" /\ fd' = fd /\ content' = content
  BY DEF Rename
<1>2. CASE tmp = None
  <2>1. UNCHANGED <<fd, fsVars>>
    BY <1>2 DEF Rename, fsVars
  <2>2. \A v \in Updates : pc'[v] = pc[v] \/ (pc'[v] = "failed" /\ pc[v] # "done")
    BY <1>1, <1>2 DEF Rename, CInv, TypeOK
  <2> QED
    BY <2>1, <2>2, CInvQuiet
<1>3. CASE tmp # None
  <2>1. json' = tmp /\ tmp' = None /\ pc' = [pc EXCEPT ![u] = "done"]
    BY <1>3 DEF Rename
  <2>2. tmp \in Created /\ tmp \in Updates
    BY <1>3 DEF CInv, Opened, TypeOK, Inode, Created
  <2>3. Created' = Created /\ Created' \ {tmp'} = Created /\ None \notin Created
    BY <1>1, <2>1, StateAssumption DEF Created
  <2>4. Done' = Done \cup {u} /\ u \notin Done
    BY <1>1, <2>1 DEF Done, CInv, TypeOK
  <2>5. IsFiniteSet(Done') /\ Cardinality(Done') = Cardinality(Done) + 1
    BY <2>4, FS_AddElement DEF CInv, Count
  <2>6. Cardinality(Created \ {tmp}) = Cardinality(Created) - 1
    BY <2>2, FS_RemoveElement DEF CInv, Count
  <2>7. Cardinality(Created) \in Nat
    BY FS_CardinalityType DEF CInv, Count
  <2>8. Count'
    <3>1. Cardinality(Done) = Cardinality(Created \ {tmp}) /\ IsFiniteSet(Created)
      BY DEF CInv, Count
    <3>2. Cardinality(Done') = Cardinality(Created)
      BY <2>5, <2>6, <2>7, <3>1
    <3>3. Cardinality(Done') = Cardinality(Created' \ {tmp'}) /\ IsFiniteSet(Created')
      BY <2>3, <3>1, <3>2, Zenon
    <3> QED
      BY <2>5, <3>3, Zenon DEF Count
  <2>9. Opened'
    BY <1>1, <1>3, <2>1, <2>2 DEF CInv, Opened, TypeOK
  <2>10. Owned'
    BY <1>1, <2>1 DEF CInv, Owned, Only, TypeOK
  <2> QED
    BY <2>8, <2>9, <2>10 DEF CInv
<1> QED
  BY <1>2, <1>3

LEMMA CInvStep == CInv /\ [Next]_vars => CInv'
<1> SUFFICES ASSUME CInv, [Next]_vars PROVE CInv'
  OBVIOUS
<1>t. TypeOK'
  BY TypeStep DEF CInv
<1>1. CASE load \/ UNCHANGED vars
  BY <1>1, <1>t, CInvQuiet DEF load, vars, fsVars
<1>2. CASE Crash
  <2>1. \A u \in Updates : pc'[u] = pc[u] \/ (pc'[u] = "failed" /\ pc[u] # "done")
    BY <1>2 DEF Crash, InFlight, CInv, TypeOK
  <2> QED
    BY <1>2, <1>t, <2>1, CInvQuiet DEF Crash
<1>3. ASSUME NEW u \in Updates, update(u) \/ ApplyUpdater(u) PROVE CInv'
  <2>1. \A v \in Updates : \/ pc'[v] = pc[v]
                           \/ pc[v] = "idle" /\ pc'[v] = "init"
                           \/ pc[v] = "init" /\ pc'[v] = "open"
    BY <1>3 DEF update, ApplyUpdater, CInv, TypeOK
  <2>2. UNCHANGED <<fd, fsVars>>
    BY <1>3 DEF update, ApplyUpdater
  <2> QED
    BY <1>t, <2>1, <2>2, CInvQuiet
<1>4. ASSUME NEW u \in Updates, OpenTmp(u) PROVE CInv'
  BY <1>4, <1>t, CInvOpen
<1>5. ASSUME NEW u \in Updates, WriteTmp(u) \/ WriteFails(u) PROVE CInv'
  BY <1>5, <1>t, CInvWrite
<1>6. ASSUME NEW u \in Updates, Rename(u) PROVE CInv'
  BY <1>6, <1>t, CInvRename
<1> QED
  BY <1>1, <1>2, <1>3, <1>4, <1>5, <1>6 DEF Next, UpdateStep

\* When no update is writing, renaming or rejected, the file is whole.
LEMMA AllDoneWhole ==
  ASSUME CInv, \A u \in Updates : pc[u] \notin {"write", "rename", "failed"}
  PROVE  Whole
<1>1. Created \subseteq Done
  BY StateAssumption DEF CInv, Opened, Created, Done, TypeOK
<1>2. IsFiniteSet(Created) /\ IsFiniteSet(Done) /\ IsFiniteSet(Created \ {tmp})
      /\ Cardinality(Done) = Cardinality(Created \ {tmp})
  BY FS_Subset DEF CInv, Count
<1>3. Cardinality(Created \ {tmp}) <= Cardinality(Created)
      /\ Cardinality(Created) <= Cardinality(Done)
  BY <1>1, <1>2, FS_Subset
<1>4. Cardinality(Created) = Cardinality(Done)
  BY <1>2, <1>3, FS_CardinalityType
<1>5. Created = Done
  BY <1>1, <1>2, <1>4, FS_Subset
<1>6. SUFFICES ASSUME json # None PROVE content[json] # Bad
  BY DEF Whole
<1>7. json \in Updates /\ json \in Created
  BY <1>6 DEF CInv, Opened, TypeOK, Inode, Created
<1>8. \A v \in Updates : fd[v] = json => v = json
  <2>1. SUFFICES ASSUME NEW v \in Updates, fd[v] = json PROVE v = json
    OBVIOUS
  <2>2. pc[v] = "done"
    BY <1>6, <2>1 DEF CInv, Opened, TypeOK
  <2> QED
    BY <1>5, <2>1, <2>2 DEF Created, Done
<1>9. Only(json) /\ pc[json] = "done"
  BY <1>5, <1>7, <1>8 DEF Only, Created, Done
<1> QED
  BY <1>7, <1>9 DEF CInv, Owned

\* state.json is spoilt only after calls overlapped, and only while some update is
\* writing or renaming or was rejected or cut off: while callers await each update
\* it is whole through failed writes and crashes, and it is whole whenever every
\* update so far was acknowledged.
THEOREM SpoiltByOverlap == Spec => []SpoiltOnlyByOverlap
<1>1. IInv /\ CInv => SpoiltOnlyByOverlap
  <2>1. IInv /\ ~overlapped => Whole
    BY DEF IInv, Alone, Files, Whole
  <2> QED
    BY <2>1, AllDoneWhole DEF SpoiltOnlyByOverlap
<1>2. IInv /\ [Next]_vars => IInv'
  BY IInvStep
<1> QED
  BY <1>1, <1>2, IInvInit, CInvInit, CInvStep, PTL DEF Spec

-----------------------------------------------------------------------------
(***************************************************************************)
(* The refinement.                                                         *)
(***************************************************************************)

LEMMA RefinesInit == Init => Abstract!Init
BY DEF Init, Abstract!Init, Read

\* Only load, the updater, a crash and the rename are steps of the promise.
LEMMA RefinesStep ==
  ASSUME IInv, [Next]_vars, ~overlapped
  PROVE  [Abstract!Next]_<<state, Read>>
<1>i. TypeOK /\ Single /\ Files /\ Writing /\ Book
  BY DEF IInv, Alone
<1> USE DEF Abstract!Next, Abstract!Apply, Abstract!Persist, Abstract!Lose, Abstract!Load
<1>1. CASE load
  BY <1>1 DEF load, fsVars, Read
<1>2. CASE Crash
  BY <1>2 DEF Crash, fsVars, Read
<1>3. ASSUME NEW u \in Updates, update(u) PROVE UNCHANGED <<state, Read>>
  BY <1>3 DEF update, fsVars, Read
<1>4. ASSUME NEW u \in Updates, ApplyUpdater(u) PROVE [Abstract!Next]_<<state, Read>>
  <2>1. state' = state \cup {u} /\ Read' = Read
    BY <1>4 DEF ApplyUpdater, fsVars, Read
  <2>2. CASE u \in state
    BY <2>1, <2>2
  <2>3. CASE u \notin state
    BY <2>1, <2>3
  <2> QED
    BY <2>2, <2>3
<1>5. ASSUME NEW u \in Updates, OpenTmp(u) PROVE UNCHANGED <<state, Read>>
  <2>1. tmp' \in Updates /\ (json # None => json # tmp')
    BY <1>5, <1>i DEF OpenTmp, Files, TypeOK, Inode
  <2>2. json # None => content'[json] = content[json]
    BY <1>5, <1>i, <2>1 DEF OpenTmp, TypeOK
  <2> QED
    BY <1>5, <2>2, ReadUnchanged DEF OpenTmp
<1>6. ASSUME NEW u \in Updates, WriteTmp(u) \/ WriteFails(u)
      PROVE  UNCHANGED <<state, Read>>
  <2>1. fd[u] = tmp /\ (json # None => json # tmp)
    BY <1>6, <1>i DEF WriteTmp, WriteFails, Writing, Files
  <2>2. json # None => content'[json] = content[json]
    BY <1>6, <1>i, <2>1 DEF WriteTmp, WriteFails, TypeOK
  <2> QED
    BY <1>6, <2>2, ReadUnchanged DEF WriteTmp, WriteFails
<1>7. ASSUME NEW u \in Updates, Rename(u) PROVE Read' = state /\ state' = state
  <2>1. tmp # None /\ content[tmp] = Doc(state)
    BY <1>7, <1>i DEF Rename, Writing
  <2> QED
    BY <1>7, <2>1 DEF Rename, Read, Doc
<1>8. CASE UNCHANGED vars
  BY <1>8 DEF vars, fsVars, Read
<1> QED
  BY <1>1, <1>2, <1>3, <1>4, <1>5, <1>6, <1>7, <1>8 DEF Next, UpdateStep

\* As long as no calls overlap, the temporary file and the rename are a state on
\* disk that is replaced atomically: every step of StateMachine is one of
\* DurableState, with or without a load() before the updates.
THEOREM Refinement == Spec => ImplementsDurableState
<1>1. IInv /\ [Next]_vars => IInv'
  BY IInvStep
<1>2. IInv /\ [Next]_vars => [overlapped \/ Abstract!Next]_<<state, Read>>
  BY RefinesStep
<1> QED
  BY <1>1, <1>2, IInvInit, RefinesInit, PTL DEF Spec, ImplementsDurableState
=============================================================================
