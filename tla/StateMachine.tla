---------------------------- MODULE StateMachine ----------------------------
(***************************************************************************)
(* StateMachine of src/core/state.ts: the orchestrator state in memory and *)
(* its file, written through one temporary file and a rename, by calls of  *)
(* update() that may overlap, fail, and be cut off by a crash.             *)
(*                                                                         *)
(* A state is the set of the updates applied to it.  Files are inodes, so  *)
(* that a write through an open descriptor follows the inode and not the   *)
(* name.                                                                   *)
(***************************************************************************)
EXTENDS Naturals

CONSTANTS
  Updates,     \* the calls of update() (recordProviderFailure and others are such)
  MaxCrashes,  \* bound on the crashes
  None

ASSUME StateAssumption ==
  /\ MaxCrashes \in Nat
  /\ None \notin Updates

VARIABLES
  state,    \* this.state
  loaded,   \* whether this process has called load()
  pc,       \* where a call of update() is
  data,     \* the serialised state it writes
  fd,       \* the inode it has open
  tmp,      \* the inode named state.json.tmp, or None
  json,     \* the inode named state.json, or None
  content,  \* what an inode holds
  crashes,
  overlapped,  \* history: some call was made while an update was in flight
  blind        \* history: a restarted process has updated without a load()

fsVars == <<tmp, json, content>>
history == <<overlapped, blind>>
vars == <<state, loaded, pc, data, fd, fsVars, crashes, history>>

\* An inode is named by the update that created it.  It holds a document, or
\* bytes that are none (nothing yet, or a mixture of two documents).
Inode  == Updates
Doc(s) == {s}
Bad    == {}

InFlight == {u \in Updates : pc[u] \in {"init", "open", "write", "rename"}}

Init ==
  /\ state = {}
  /\ loaded = FALSE
  /\ pc = [u \in Updates |-> "idle"]
  /\ data = [u \in Updates |-> {}]
  /\ fd = [u \in Updates |-> None]
  /\ tmp = None
  /\ json = None
  /\ content = [n \in Inode |-> Bad]
  /\ crashes = 0
  /\ overlapped = FALSE
  /\ blind = FALSE

-----------------------------------------------------------------------------
\* load(): a file that is missing or does not parse gives the initial state.  One
\* step reads and assigns: a load() that an update overlaps counts as overlapped.
Read == IF json = None THEN {} ELSE UNION content[json]

load ==
  /\ ~loaded
  /\ loaded' = TRUE
  /\ state' = Read
  /\ overlapped' = (overlapped \/ InFlight # {})
  /\ UNCHANGED <<pc, data, fd, fsVars, crashes, blind>>

\* A caller calls update(), which awaits init().  Nothing makes it call load()
\* first (the scheduler never does) or wait for the updates in flight.
update(u) ==
  /\ pc[u] = "idle"
  /\ pc' = [pc EXCEPT ![u] = "init"]
  /\ overlapped' = (overlapped \/ InFlight # {})
  /\ UNCHANGED <<state, loaded, data, fd, fsVars, crashes, blind>>

\* Mutant: the state is serialised before the updater runs.
ApplyUpdaterLate(u) ==
  /\ pc[u] = "init"
  /\ state' = state \cup {u}
  /\ data' = [data EXCEPT ![u] = state]
  /\ pc' = [pc EXCEPT ![u] = "open"]
  /\ blind' = (blind \/ (~loaded /\ crashes > 0))
  /\ UNCHANGED <<loaded, fd, fsVars, crashes, overlapped>>

\* After init(): the updater runs and the result is serialised.
ApplyUpdater(u) ==
  /\ pc[u] = "init"
  /\ state' = state \cup {u}
  /\ data' = [data EXCEPT ![u] = state']
  /\ pc' = [pc EXCEPT ![u] = "open"]
  /\ blind' = (blind \/ (~loaded /\ crashes > 0))
  /\ UNCHANGED <<loaded, fd, fsVars, crashes, overlapped>>

\* Mutant: the document is written straight to state.json.
OpenJson(u) ==
  /\ pc[u] = "open"
  /\ json' = IF json = None THEN u ELSE json
  /\ fd' = [fd EXCEPT ![u] = json']
  /\ content' = [content EXCEPT ![json'] = Bad]
  /\ pc' = [pc EXCEPT ![u] = "write"]
  /\ UNCHANGED <<state, loaded, data, tmp, crashes, history>>

\* writeFile opens the temporary file, creating or truncating it.
OpenTmp(u) ==
  /\ pc[u] = "open"
  /\ tmp' = IF tmp = None THEN u ELSE tmp
  /\ fd' = [fd EXCEPT ![u] = tmp']
  /\ content' = [content EXCEPT ![tmp'] = Bad]
  /\ pc' = [pc EXCEPT ![u] = "write"]
  /\ UNCHANGED <<state, loaded, data, json, crashes, history>>

\* It writes from the start of the file.  Over a longer document that another
\* call has just written, the end of that document stays behind.
WriteTmp(u) ==
  /\ pc[u] = "write"
  /\ \E c \in {Doc(data[u])} \cup (IF content[fd[u]] = Bad THEN {} ELSE {Bad}) :
       content' = [content EXCEPT ![fd[u]] = c]
  /\ pc' = [pc EXCEPT ![u] = "rename"]
  /\ UNCHANGED <<state, loaded, data, fd, tmp, json, crashes, history>>

\* Mutant: the rejection of writeFile is ignored.
WriteFailsIgnored(u) ==
  /\ pc[u] = "write"
  /\ content' = [content EXCEPT ![fd[u]] = Bad]
  /\ pc' = [pc EXCEPT ![u] = "rename"]
  /\ UNCHANGED <<state, loaded, data, fd, tmp, json, crashes, history>>

\* writeFile rejects, with part of the document written or none.
WriteFails(u) ==
  /\ pc[u] = "write"
  /\ content' = [content EXCEPT ![fd[u]] = Bad]
  /\ pc' = [pc EXCEPT ![u] = "failed"]
  /\ UNCHANGED <<state, loaded, data, fd, tmp, json, crashes, history>>

\* rename, which rejects when another call has moved the temporary file away.
Rename(u) ==
  /\ pc[u] = "rename"
  /\ IF tmp # None
     THEN json' = tmp /\ tmp' = None /\ pc' = [pc EXCEPT ![u] = "done"]
     ELSE pc' = [pc EXCEPT ![u] = "failed"] /\ UNCHANGED <<tmp, json>>
  /\ UNCHANGED <<state, loaded, data, fd, content, crashes, history>>

\* The process dies: memory and descriptors go, the files stay.
Crash ==
  /\ crashes < MaxCrashes
  /\ crashes' = crashes + 1
  /\ state' = {}
  /\ loaded' = FALSE
  /\ pc' = [u \in Updates |-> IF u \in InFlight THEN "failed" ELSE pc[u]]
  /\ UNCHANGED <<data, fd, fsVars, history>>

UpdateStep(u) == ApplyUpdater(u) \/ OpenTmp(u) \/ WriteTmp(u) \/ WriteFails(u)
                 \/ Rename(u)

Next == load \/ Crash \/ \E u \in Updates : update(u) \/ UpdateStep(u)

Spec == Init /\ [][Next]_vars

-----------------------------------------------------------------------------
TypeOK ==
  /\ state \subseteq Updates
  /\ loaded \in BOOLEAN
  /\ pc \in [Updates -> {"idle", "init", "open", "write", "rename", "done", "failed"}]
  /\ data \in [Updates -> SUBSET Updates]
  /\ fd \in [Updates -> Inode \cup {None}]
  /\ \A u \in Updates : pc[u] = "write" => fd[u] # None
  /\ tmp \in Inode \cup {None}
  /\ json \in Inode \cup {None}
  /\ content \in [Inode -> {Doc(s) : s \in SUBSET Updates} \cup {Bad}]
  /\ crashes \in 0 .. MaxCrashes
  /\ overlapped \in BOOLEAN
  /\ blind \in BOOLEAN

Whole == json # None => content[json] # Bad

\* "We never end up with a partially written or corrupted state.json" (the comment
\* of update()) as far as the code keeps it: the file is spoilt only after calls
\* overlapped, and then some update is still writing or renaming, or was rejected
\* or cut off.  So it is whole through failed writes and crashes while callers
\* await each update, and whole whenever all updates so far were acknowledged,
\* however they overlapped.
SpoiltOnlyByOverlap ==
  ~Whole => /\ overlapped
            /\ \E u \in Updates : pc[u] \in {"write", "rename", "failed"}

\* An update whose promise was fulfilled is in the file from then on, through
\* failed writes of later updates and crashes at any point of them, unless calls
\* overlapped (an older document may then be renamed last) or a restarted process
\* updated without a load() (it then writes from the initial state).
AckedDurable ==
  ~overlapped /\ ~blind => \A u \in Updates : pc[u] = "done" => u \in Read

\* To callers that let no calls overlap, the file system dance is a state that is
\* replaced atomically.
Abstract == INSTANCE DurableState WITH mem <- state, disk <- Read
ImplementsDurableState ==
  Abstract!Init /\ [][overlapped \/ Abstract!Next]_<<state, Read>>
=============================================================================
