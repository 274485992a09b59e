-------------------------- MODULE EventLedgerProofs --------------------------
(***************************************************************************)
(* Theorems about EventLedger: types for any number of writers, an unbroken*)
(* hash chain and acknowledged events in order for a single one, whatever  *)
(* appends fail; and about LedgerVerify: verify() accepts exactly the      *)
(* files such a writer leaves, and those without hashes.                   *)
(***************************************************************************)
EXTENDS EventLedger, LedgerVerify, TLAPS

-----------------------------------------------------------------------------
(***************************************************************************)
(* Types.                                                                  *)
(***************************************************************************)

\* A sealed line is a line, and its hash is one.
LEMMA SealedType ==
  ASSUME NEW prev \in Seq(Nat), NEW e \in Nat
  PROVE  /\ Sealed(prev, e) \in Lines
         /\ Sealed(prev, e).hash \in Seq(Nat)
         /\ Sealed(prev, e).kind = "event"
         /\ Sealed(prev, e).prev_hash = prev
BY DEF Sealed, hashEvent, Lines

LEMMA HashOfType ==
  ASSUME NEW line \in Lines
  PROVE  HashOf(line) \in Seq(Nat)
BY DEF HashOf, Lines, Legacy, Junk, GENESIS_PREV_HASH

FileType == /\ file \in Seq(Lines)
            /\ tailOpen \in BOOLEAN /\ (tailOpen => file # << >>)

\* Writing a line, or part of one, leaves a sequence of lines.
LEMMA WriteType ==
  ASSUME FileType, NEW line \in Lines, WriteLine(line) \/ WritePart(line)
  PROVE  FileType'
<1> USE DEF FileType
<1>1. Junk \in Lines
  BY DEF Lines
<1>2. ASSUME NEW l \in Lines
      PROVE  Append(file, l) \in Seq(Lines) /\ Append(file, l) # << >>
  OBVIOUS
<1>3. tailOpen => Glued \in Seq(Lines) /\ Glued # << >>
  <2> SUFFICES ASSUME tailOpen PROVE Glued \in Seq(Lines) /\ Glued # << >>
    OBVIOUS
  <2>1. Len(file) \in 1 .. Len(file)
    OBVIOUS
  <2> QED
    BY <1>1, <2>1 DEF Glued
<1>4. CASE WriteLine(line)
  BY <1>2, <1>3, <1>4 DEF WriteLine
<1>5. CASE UNCHANGED fileVars
  BY <1>5 DEF fileVars
<1>6. CASE /\ tailOpen' = TRUE
           /\ file' \in IF tailOpen THEN {Glued}
                       ELSE {Append(file, Junk), Append(file, line)}
  <2>1. CASE tailOpen
    BY <1>3, <1>6, <2>1
  <2>2. CASE ~tailOpen
    <3>1. file' \in {Append(file, Junk), Append(file, line)}
      BY <1>6, <2>2
    <3> QED
      BY <1>1, <1>2, <1>6, <3>1
  <2> QED
    BY <2>1, <2>2
<1>7. WritePart(line) => \/ UNCHANGED fileVars
                         \/ /\ tailOpen' = TRUE
                            /\ file' \in IF tailOpen THEN {Glued}
                                        ELSE {Append(file, Junk), Append(file, line)}
  BY DEF WritePart
<1> QED
  BY <1>4, <1>5, <1>6, <1>7

LEMMA InFlightType ==
  ASSUME TypeOK, NEW w \in Writers, queue[w] # << >>
  PROVE  InFlight(w) \in Lines
<1>1. Head(queue[w]) \in Nat /\ lastHash[w] \in Seq(Nat) /\ next \in Nat
  BY DEF TypeOK
<1>2. GENESIS_PREV_HASH \in Seq(Nat)
  BY DEF GENESIS_PREV_HASH
<1> QED
  BY <1>1, <1>2, SealedType DEF InFlight

LEMMA CutShortType ==
  ASSUME TypeOK, NEW w \in Writers, CutShort(w)
  PROVE  FileType' /\ next' \in Nat
<1>1. FileType /\ next \in Nat
  BY DEF TypeOK, FileType
<1>2. CASE queue[w] # << >> /\ init[w] \in {"genesis", "ready"}
  BY <1>1, <1>2, InFlightType, WriteType DEF CutShort
<1>3. CASE ~(queue[w] # << >> /\ init[w] \in {"genesis", "ready"})
  BY <1>1, <1>3 DEF CutShort, fileVars, FileType
<1> QED
  BY <1>2, <1>3

LEMMA TypeInit == Init => TypeOK
<1> SUFFICES ASSUME Init PROVE TypeOK
  OBVIOUS
<1>1. PICK n \in OldFiles : file = [k \in 1 .. n |-> Legacy]
  BY DEF Init
<1>2. n \in Nat /\ Legacy \in Lines
  BY LedgerAssumption DEF Lines
<1>3. file \in Seq(Lines)
  BY <1>1, <1>2
<1>4. << >> \in Seq(Nat) /\ 0 \in 0 .. MaxCrashes
  BY LedgerAssumption
<1> QED
  BY <1>3, <1>4 DEF Init, TypeOK, GENESIS_PREV_HASH

\* loadLastHash() runs only on a file with a last line, since the file never
\* becomes empty again.
LoadInv == \A w \in Writers : init[w] = "load" => file # << >>

LEMMA TypeNext == TypeOK /\ LoadInv /\ [Next]_vars => TypeOK'
<1> SUFFICES ASSUME TypeOK, LoadInv, [Next]_vars PROVE TypeOK'
  OBVIOUS
<1>0. FileType
  BY DEF TypeOK, FileType
<1>1. ASSUME NEW w \in Writers, log(w) PROVE TypeOK'
  <2>1. /\ calls' \in [Writers -> Seq(Nat)]
        /\ next' \in Nat
        /\ UNCHANGED <<file, tailOpen, init, lastHash, poisoned, acked, crashes, spoilt>>
    BY <1>1 DEF log, TypeOK, fileVars
  <2>2. CASE poisoned[w]
    <3>1. rejected' = rejected \cup {next} /\ queue' = queue
      BY <1>1, <2>2 DEF log
    <3> QED
      BY <2>1, <3>1 DEF TypeOK
  <2>3. CASE ~poisoned[w]
    <3>1. queue' = [queue EXCEPT ![w] = Append(@, next)] /\ rejected' = rejected
      BY <1>1, <2>3 DEF log
    <3>2. queue' \in [Writers -> Seq(Nat)]
      BY <3>1 DEF TypeOK
    <3>3. \A v \in Writers : poisoned[v] => queue'[v] = << >>
      BY <2>3, <3>1 DEF TypeOK
    <3> QED
      BY <2>1, <3>1, <3>2, <3>3 DEF TypeOK
  <2> QED
    BY <2>2, <2>3
<1>2. ASSUME NEW w \in Writers, InitStat(w) PROVE TypeOK'
  BY <1>2 DEF InitStat, TypeOK, fileVars
<1>3. ASSUME NEW w \in Writers, writeGenesis(w) PROVE TypeOK'
  <2> DEFINE line == Sealed(GENESIS_PREV_HASH, next)
  <2>1. line \in Lines /\ line.hash \in Seq(Nat)
    <3>1. GENESIS_PREV_HASH \in Seq(Nat) /\ next \in Nat
      BY DEF TypeOK, GENESIS_PREV_HASH
    <3> QED
      BY <3>1, SealedType
  <2> HIDE DEF line
  <2>2. WriteLine(line) /\ lastHash' = [lastHash EXCEPT ![w] = line.hash]
    BY <1>3 DEF writeGenesis, line
  <2>3. FileType'
    BY <1>0, <2>1, <2>2, WriteType
  <2> QED
    BY <1>3, <2>1, <2>2, <2>3 DEF writeGenesis, TypeOK, FileType
<1>4. ASSUME NEW w \in Writers, loadLastHash(w) PROVE TypeOK'
  <2>1. file # << >> /\ file \in Seq(Lines)
    BY <1>4 DEF LoadInv, loadLastHash, TypeOK
  <2>2. Last(file) \in Lines
    BY <2>1 DEF Last
  <2>3. HashOf(Last(file)) \in Seq(Nat)
    BY <2>2, HashOfType
  <2> QED
    BY <1>4, <2>3 DEF loadLastHash, TypeOK, fileVars
<1>5. ASSUME NEW w \in Writers, AppendEvent(w) PROVE TypeOK'
  <2> DEFINE line == Sealed(lastHash[w], Head(queue[w]))
  <2>1. Head(queue[w]) \in Nat /\ Tail(queue[w]) \in Seq(Nat)
    BY <1>5 DEF AppendEvent, TypeOK
  <2>2. line \in Lines /\ line.hash \in Seq(Nat)
    BY <2>1, SealedType DEF TypeOK
  <2> HIDE DEF line
  <2>3. WriteLine(line) /\ lastHash' = [lastHash EXCEPT ![w] = line.hash]
    BY <1>5 DEF AppendEvent, line
  <2>4. FileType'
    BY <1>0, <2>2, <2>3, WriteType
  <2>5. ~poisoned[w]
    BY <1>5 DEF AppendEvent, TypeOK
  <2> QED
    BY <1>5, <2>1, <2>2, <2>3, <2>4, <2>5 DEF AppendEvent, TypeOK, FileType
<1>6. ASSUME NEW w \in Writers, JobFails(w) PROVE TypeOK'
  <2>1. FileType' /\ next' \in Nat
    BY <1>6, CutShortType DEF JobFails
  <2>2. ToSet(queue[w]) \subseteq Nat
    BY DEF ToSet, TypeOK
  <2>3. poisoned' \in [Writers -> BOOLEAN] /\ queue' \in [Writers -> Seq(Nat)]
    BY <1>6 DEF JobFails, TypeOK
  <2>4. \A v \in Writers : poisoned'[v] => queue'[v] = << >>
    BY <1>6 DEF JobFails, TypeOK
  <2> QED
    BY <1>6, <2>1, <2>2, <2>3, <2>4 DEF JobFails, TypeOK, FileType
<1>7. ASSUME NEW w \in Writers, Crash(w) PROVE TypeOK'
  <2>1. FileType' /\ next' \in Nat
    BY <1>7, CutShortType DEF Crash
  <2>2. crashes' \in 0 .. MaxCrashes
    BY <1>7, LedgerAssumption DEF Crash, TypeOK
  <2> QED
    BY <1>7, <2>1, <2>2 DEF Crash, TypeOK, FileType, GENESIS_PREV_HASH
<1>8. CASE UNCHANGED vars
  BY <1>8 DEF vars, fileVars, writerVars, TypeOK
<1> QED
  BY <1>1, <1>2, <1>3, <1>4, <1>5, <1>6, <1>7, <1>8 DEF Next, WriterStep

\* The file never shrinks to nothing.
LEMMA NeverEmptied ==
  ASSUME TypeOK, [Next]_vars, file # << >>
  PROVE  file' # << >>
<1>0. file \in Seq(Lines) /\ Glued # << >>
  BY DEF TypeOK, Glued
<1>1. ASSUME NEW line, WriteLine(line) \/ WritePart(line) PROVE file' # << >>
  <2>1. file' \in {file, Glued, Append(file, line), Append(file, Junk)}
    BY <1>1 DEF WriteLine, WritePart, fileVars
  <2>2. Append(file, line) # << >> /\ Append(file, Junk) # << >>
    BY <1>0
  <2> QED
    BY <1>0, <2>1, <2>2
<1>2. ASSUME NEW w \in Writers, CutShort(w) PROVE file' # << >>
  BY <1>1, <1>2 DEF CutShort, fileVars
<1>3. CASE UNCHANGED file
  BY <1>3
<1> QED
  BY <1>1, <1>2, <1>3 DEF Next, WriterStep, log, InitStat, writeGenesis,
     loadLastHash, AppendEvent, JobFails, Crash, vars, fileVars

LEMMA LoadNext == TypeOK /\ LoadInv /\ [Next]_vars => LoadInv'
<1> SUFFICES ASSUME TypeOK, LoadInv, [Next]_vars,
                    NEW v \in Writers, init'[v] = "load"
             PROVE  file' # << >>
  BY DEF LoadInv
<1>1. CASE init[v] = "load"
  BY <1>1, NeverEmptied DEF LoadInv
<1>2. CASE init[v] # "load"
  <2>1. PICK w \in Writers : InitStat(w)
    BY <1>2 DEF TypeOK, Next, WriterStep, log, writeGenesis, loadLastHash,
       AppendEvent, JobFails, Crash, vars, writerVars
  <2>2. file # << >> /\ file' = file
    BY <1>2, <2>1 DEF InitStat, TypeOK, fileVars
  <2> QED
    BY <2>2
<1> QED
  BY <1>1, <1>2

\* The types hold for any number of ledger objects on the file; in particular a
\* rejected writeQueue leaves no call waiting.
THEOREM TypeCorrect == Spec => []TypeOK
<1>1. Init => LoadInv
  BY DEF Init, LoadInv
<1> QED
  BY <1>1, TypeInit, TypeNext, LoadNext, PTL DEF Spec

-----------------------------------------------------------------------------
(***************************************************************************)
(* The chain.  One object writes to the file.  While it has not failed,    *)
(* lastHash is the hash of the last line; once an append is torn, the      *)
(* object writes nothing more until a restart.                             *)
(***************************************************************************)
OneWriter == \E w : Writers = {w}

LinkInv ==
  /\ Chained
  /\ \A w \in Writers :
       /\ tailOpen => poisoned[w]
       /\ ~poisoned[w] /\ init[w] = "ready" =>
            file # << >> /\ lastHash[w] = HashOf(Last(file))
       /\ ~poisoned[w] /\ init[w] = "genesis" => file = << >>

ChainInv == ~spoilt => LinkInv

\* The hash the next line has to carry as prev_hash.
Expected == IF file = << >> THEN GENESIS_PREV_HASH ELSE HashOf(Last(file))

\* A line that carries it extends the chain.
LEMMA ExtendChain ==
  ASSUME TypeOK, Chained, ~tailOpen, NEW e \in Nat,
         Expected \in Seq(Nat), WriteLine(Sealed(Expected, e))
  PROVE  /\ Chained'
         /\ ~tailOpen'
         /\ file' # << >>
         /\ HashOf(Last(file')) = Sealed(Expected, e).hash
<1> DEFINE line == Sealed(Expected, e)
<1>1. line.kind = "event" /\ line.prev_hash = Expected
  BY SealedType
<1>2. file' = Append(file, line) /\ tailOpen' = FALSE
  BY DEF WriteLine
<1> HIDE DEF line
<1>3. file \in Seq(Lines)
  BY DEF TypeOK
<1>4. /\ Len(file') = Len(file) + 1
      /\ file'[Len(file) + 1] = line
      /\ \A n \in 1 .. Len(file) : file'[n] = file[n]
      /\ Len(file) \in Nat
      /\ file' # << >>
  BY <1>2, <1>3
<1>5. \A n \in 1 .. Len(file') :
        /\ file'[n].kind # "junk"
        /\ file'[n].kind = "event" =>
             file'[n].prev_hash = IF n = 1 THEN GENESIS_PREV_HASH ELSE HashOf(file'[n - 1])
  <2>1. TAKE n \in 1 .. Len(file')
  <2>2. CASE n <= Len(file)
    <3>1. n \in 1 .. Len(file) /\ n \in 1 .. CompleteLines
      BY <1>4, <2>2 DEF CompleteLines
    <3>2. n # 1 => n - 1 \in 1 .. Len(file)
      BY <3>1
    <3> QED
      BY <1>4, <3>1, <3>2 DEF Chained, CompleteLines
  <2>3. CASE n = Len(file) + 1
    <3>1. CASE file = << >>
      BY <1>1, <1>4, <2>3, <3>1 DEF Expected
    <3>2. CASE file # << >>
      <4>1. n # 1 /\ n - 1 = Len(file) /\ Len(file) \in 1 .. Len(file)
        BY <1>3, <1>4, <2>3, <3>2
      <4> QED
        BY <1>1, <1>4, <2>3, <3>2, <4>1 DEF Expected, Last
    <3> QED
      BY <3>1, <3>2
  <2> QED
    BY <1>4, <2>2, <2>3
<1>6. HashOf(Last(file')) = line.hash
  BY <1>1, <1>4 DEF Last, HashOf
<1> QED
  BY <1>2, <1>4, <1>5, <1>6 DEF Chained, CompleteLines, line

\* An append cut short spoils no complete line.
LEMMA TornChain ==
  ASSUME TypeOK, Chained, ~tailOpen, NEW line, WritePart(line)
  PROVE  Chained'
<1>1. file \in Seq(Lines)
  BY DEF TypeOK
<1>2. CASE UNCHANGED fileVars
  BY <1>2 DEF fileVars, Chained, CompleteLines
<1>3. ASSUME NEW l, file' = Append(file, l), tailOpen' = TRUE
      PROVE  Chained'
  <2>1. /\ Len(file') = Len(file) + 1
        /\ \A n \in 1 .. Len(file) : file'[n] = file[n]
        /\ Len(file) \in Nat
    BY <1>1, <1>3
  <2>2. SUFFICES ASSUME NEW n \in 1 .. Len(file'), n < Len(file')
                 PROVE  /\ file'[n].kind # "junk"
                        /\ file'[n].kind = "event" =>
                             file'[n].prev_hash = IF n = 1 THEN GENESIS_PREV_HASH
                                                  ELSE HashOf(file'[n - 1])
    BY <1>3 DEF Chained, CompleteLines
  <2>3. n \in 1 .. Len(file) /\ n \in 1 .. CompleteLines /\ (n # 1 => n - 1 \in 1 .. Len(file))
    BY <2>1, <2>2 DEF CompleteLines
  <2> QED
    BY <2>1, <2>3 DEF Chained, CompleteLines
<1>4. WritePart(line) => \/ UNCHANGED fileVars
                         \/ /\ tailOpen' = TRUE
                            /\ file' \in {Append(file, Junk), Append(file, line)}
  BY DEF WritePart
<1> QED
  BY <1>2, <1>3, <1>4

LEMMA ChainWriter ==
  ASSUME TypeOK, TypeOK', LoadInv, LinkInv, NEW w, Writers = {w}, WriterStep(w)
  PROVE  LinkInv'
<1>0. w \in Writers /\ \A v \in Writers : v = w
  OBVIOUS
<1>1. CASE InitStat(w)
  <2>1. UNCHANGED <<file, tailOpen, lastHash, poisoned>>
    BY <1>1 DEF InitStat, fileVars
  <2>2. init'[w] = IF file = << >> THEN "genesis" ELSE "load"
    BY <1>0, <1>1 DEF InitStat, TypeOK
  <2> QED
    BY <1>0, <2>1, <2>2 DEF LinkInv, Chained, CompleteLines
<1>2. CASE writeGenesis(w)
  <2>1. ~poisoned[w] /\ file = << >> /\ ~tailOpen /\ next \in Nat
    BY <1>0, <1>2 DEF writeGenesis, LinkInv, TypeOK
  <2>2. Expected = GENESIS_PREV_HASH /\ GENESIS_PREV_HASH \in Seq(Nat)
    BY <2>1 DEF Expected, GENESIS_PREV_HASH
  <2>3. /\ WriteLine(Sealed(Expected, next))
        /\ lastHash' = [lastHash EXCEPT ![w] = Sealed(Expected, next).hash]
    BY <1>2, <2>2 DEF writeGenesis
  <2>4. /\ Chained' /\ ~tailOpen' /\ file' # << >>
        /\ HashOf(Last(file')) = Sealed(Expected, next).hash
    BY <2>1, <2>2, <2>3, ExtendChain DEF LinkInv
  <2>5. init'[w] = "ready" /\ lastHash'[w] = Sealed(Expected, next).hash
    BY <1>0, <1>2, <2>3 DEF writeGenesis, TypeOK
  <2> QED
    BY <1>0, <2>4, <2>5 DEF LinkInv
<1>3. CASE loadLastHash(w)
  <2>1. UNCHANGED <<file, tailOpen, poisoned>> /\ file # << >>
    BY <1>0, <1>3 DEF loadLastHash, fileVars, LoadInv
  <2>2. init'[w] = "ready" /\ lastHash'[w] = HashOf(Last(file))
    BY <1>0, <1>3 DEF loadLastHash, TypeOK
  <2> QED
    BY <1>0, <2>1, <2>2 DEF LinkInv, Chained, CompleteLines
<1>4. CASE AppendEvent(w)
  <2>1. ~poisoned[w] /\ init[w] = "ready" /\ Head(queue[w]) \in Nat
    BY <1>0, <1>4 DEF AppendEvent, TypeOK
  <2>2. ~tailOpen /\ file # << >> /\ lastHash[w] = HashOf(Last(file))
    BY <1>0, <2>1 DEF LinkInv
  <2>3. Expected = lastHash[w] /\ lastHash[w] \in Seq(Nat)
    BY <1>0, <2>2 DEF Expected, TypeOK
  <2>4. /\ WriteLine(Sealed(Expected, Head(queue[w])))
        /\ lastHash' = [lastHash EXCEPT ![w] = Sealed(Expected, Head(queue[w])).hash]
    BY <1>4, <2>3 DEF AppendEvent
  <2>5. /\ Chained' /\ ~tailOpen' /\ file' # << >>
        /\ HashOf(Last(file')) = Sealed(Expected, Head(queue[w])).hash
    BY <2>1, <2>2, <2>3, <2>4, ExtendChain DEF LinkInv
  <2>6. /\ init' = init
        /\ lastHash'[w] = Sealed(Expected, Head(queue[w])).hash
    BY <1>0, <1>4, <2>4 DEF AppendEvent, TypeOK
  <2> QED
    BY <1>0, <2>1, <2>5, <2>6 DEF LinkInv
<1>5. CASE JobFails(w)
  <2>1. ~poisoned[w] /\ ~tailOpen
    BY <1>0, <1>5 DEF JobFails, TypeOK, LinkInv
  <2>2. WritePart(InFlight(w)) \/ UNCHANGED fileVars
    BY <1>5 DEF JobFails, CutShort
  <2>3. Chained'
    BY <2>1, <2>2, TornChain DEF LinkInv, fileVars, Chained, CompleteLines
  <2>4. poisoned'[w]
    BY <1>0, <1>5 DEF JobFails, TypeOK
  <2> QED
    BY <1>0, <2>3, <2>4 DEF LinkInv
<1> QED
  BY <1>1, <1>2, <1>3, <1>4, <1>5 DEF WriterStep

LEMMA ChainNext ==
  ASSUME OneWriter
  PROVE  TypeOK /\ TypeOK' /\ LoadInv /\ ChainInv /\ [Next]_vars => ChainInv'
<1> SUFFICES ASSUME TypeOK, TypeOK', LoadInv, ChainInv, [Next]_vars, ~spoilt'
             PROVE  LinkInv'
  BY DEF ChainInv
<1>0. PICK w : Writers = {w}
  BY DEF OneWriter
<1>1. LinkInv
  BY DEF ChainInv, TypeOK, Next, WriterStep, log, InitStat, writeGenesis,
     loadLastHash, AppendEvent, JobFails, Crash, vars
<1>2. CASE UNCHANGED <<file, tailOpen, init, lastHash, poisoned>>
  BY <1>1, <1>2 DEF LinkInv, Chained, CompleteLines
<1>3. CASE WriterStep(w)
  BY <1>0, <1>1, <1>3, ChainWriter
<1>4. CASE Crash(w)
  <2>1. ~tailOpen'
    BY <1>4 DEF Crash
  <2>2. UNCHANGED <<file, tailOpen>>
    BY <1>4, <2>1 DEF Crash, CutShort, WritePart, fileVars
  <2>3. init'[w] = "none"
    BY <1>0, <1>4 DEF Crash, TypeOK
  <2> QED
    BY <1>0, <1>1, <2>1, <2>2, <2>3 DEF LinkInv, Chained, CompleteLines
<1>5. log(w) \/ UNCHANGED vars => UNCHANGED <<file, tailOpen, init, lastHash, poisoned>>
  BY DEF log, vars, fileVars, writerVars
<1> QED
  BY <1>0, <1>2, <1>3, <1>4, <1>5 DEF Next

LEMMA ChainInit == Init => ChainInv
<1> SUFFICES ASSUME Init PROVE LinkInv
  BY DEF ChainInv
<1>1. PICK n \in OldFiles : file = [k \in 1 .. n |-> Legacy]
  BY DEF Init
<1>2. n \in Nat /\ Len(file) = n
  BY <1>1, LedgerAssumption
<1>3. \A k \in 1 .. Len(file) : file[k].kind = "legacy"
  BY <1>1, <1>2 DEF Legacy
<1> QED
  BY <1>2, <1>3 DEF Init, LinkInv, Chained, CompleteLines

\* With one ledger object on the file, every complete line commits to the one
\* before it, however many calls of log() overlap, whichever appends fail or are
\* torn, and across any number of restarts, as long as none of them finds the
\* last line unterminated.
THEOREM ChainUnbroken ==
  ASSUME OneWriter
  PROVE  Spec => []ChainIntact
<1>1. Init => LoadInv
  BY DEF Init, LoadInv
<1>2. ChainInv => ChainIntact
  BY DEF ChainInv, LinkInv, ChainIntact
<1> QED
  BY <1>1, <1>2, ChainInit, TypeInit, TypeNext, LoadNext, ChainNext, PTL DEF Spec

-----------------------------------------------------------------------------
(***************************************************************************)
(* Acknowledgements.  Events are numbered as they are created, so the calls*)
(* on an object are increasing numbers and so are the lines that hold them;*)
(* the genesis entry takes a number of its own in between.  A call is      *)
(* acknowledged, still queued, or (once the object has failed) neither, in *)
(* this order: `k` is the number of the acknowledged ones.                 *)
(***************************************************************************)

\* Every event so far has a number below the next one.
Numbered ==
  /\ \A e \in acked : e < next
  /\ \A n \in 1 .. Len(file) : file[n].kind = "event" => file[n].event < next
  /\ \A w \in Writers :
       /\ \A i \in DOMAIN calls[w] : calls[w][i] < next
       /\ \A i, j \in DOMAIN calls[w] : i < j => calls[w][i] < calls[w][j]

\* What is left of the calls on w when the first k are acknowledged.
AckedUpTo(w, k) ==
  /\ \A i \in DOMAIN calls[w] : calls[w][i] \in acked <=> i <= k
  /\ ~poisoned[w] =>
       /\ k + Len(queue[w]) = Len(calls[w])
       /\ \A i \in DOMAIN queue[w] : queue[w][i] = calls[w][k + i]

InTurn == \A w \in Writers : \E k \in 0 .. Len(calls[w]) : AckedUpTo(w, k)

\* The complete lines hold the acknowledged events, those of an object in order.
Recorded ==
  /\ \A e \in acked : \E n \in 1 .. CompleteLines : Holds(n, e)
  /\ \A w \in Writers : \A j \in DOMAIN calls[w], n \in 1 .. CompleteLines :
       Holds(n, calls[w][j]) =>
         /\ calls[w][j] \in acked
         /\ \A m \in 1 .. n - 1, i \in DOMAIN calls[w] : Holds(m, calls[w][i]) => i < j

OrderInv == ~spoilt => Numbered /\ InTurn /\ Recorded

\* A whole line is added at the end.
LEMMA LineAdded ==
  ASSUME TypeOK, ~tailOpen, NEW line, WriteLine(line)
  PROVE  /\ Len(file) \in Nat /\ CompleteLines = Len(file)
         /\ Len(file') = Len(file) + 1 /\ CompleteLines' = Len(file) + 1
         /\ file'[Len(file) + 1] = line
         /\ \A n \in 1 .. Len(file) : file'[n] = file[n]
<1>1. file \in Seq(Lines) /\ file' = Append(file, line) /\ ~tailOpen'
  BY DEF TypeOK, WriteLine
<1> QED
  BY <1>1 DEF CompleteLines

\* An append cut short changes no complete line, and adds no event but its own.
LEMMA LineTorn ==
  ASSUME TypeOK, ~tailOpen, NEW line, WritePart(line) \/ UNCHANGED fileVars
  PROVE  /\ Len(file) \in Nat /\ CompleteLines = Len(file)
         /\ CompleteLines' = CompleteLines
         /\ \A n \in 1 .. CompleteLines : file'[n] = file[n]
         /\ \A n \in 1 .. Len(file') : n \in 1 .. Len(file) \/ file'[n] \in {line, Junk}
<1>1. file \in Seq(Lines) /\ Len(file) \in Nat /\ CompleteLines = Len(file)
  BY DEF TypeOK, CompleteLines
<1>2. CASE UNCHANGED fileVars
  BY <1>1, <1>2 DEF fileVars, CompleteLines
<1>3. ASSUME NEW l \in {line, Junk}, file' = Append(file, l), tailOpen' = TRUE
      PROVE  /\ CompleteLines' = CompleteLines
             /\ \A n \in 1 .. CompleteLines : file'[n] = file[n]
             /\ \A n \in 1 .. Len(file') : n \in 1 .. Len(file) \/ file'[n] \in {line, Junk}
  <2>1. /\ Len(file') = Len(file) + 1 /\ file'[Len(file) + 1] = l
        /\ \A n \in 1 .. Len(file) : file'[n] = file[n]
    BY <1>1, <1>3
  <2>2. CompleteLines' = Len(file)
    BY <1>1, <1>3, <2>1 DEF CompleteLines
  <2>3. \A n \in 1 .. Len(file') : n \in 1 .. Len(file) \/ n = Len(file) + 1
    BY <1>1, <2>1
  <2> QED
    BY <1>1, <1>3, <2>1, <2>2, <2>3
<1>4. \/ UNCHANGED fileVars
      \/ \E l \in {line, Junk} : file' = Append(file, l) /\ tailOpen' = TRUE
  BY DEF WritePart
<1> QED
  BY <1>1, <1>2, <1>3, <1>4

\* A step that leaves the complete lines, the calls and the answers alone.
LEMMA RecordedKept ==
  ASSUME Recorded, CompleteLines' = CompleteLines,
         \A n \in 1 .. CompleteLines : file'[n] = file[n],
         CompleteLines \in Int, UNCHANGED <<calls, acked>>
  PROVE  Recorded'
<1>1. \A n \in 1 .. CompleteLines : \A m \in 1 .. n - 1 : m \in 1 .. CompleteLines
  OBVIOUS
<1>2. \A n \in 1 .. CompleteLines : \A e : Holds(n, e)' <=> Holds(n, e)
  BY DEF Holds
<1> QED
  BY <1>1, <1>2 DEF Recorded

\* The events of the file are numbers.
LEMMA EventNat ==
  ASSUME TypeOK
  PROVE  \A n \in 1 .. Len(file) : file[n].kind = "event" => file[n].event \in Nat
<1>1. \A n \in 1 .. Len(file) : file[n] \in Lines
  BY DEF TypeOK
<1>2. \A l \in Lines : l.kind = "event" => l.event \in Nat
  BY DEF Lines, Legacy, Junk
<1> QED
  BY <1>1, <1>2

\* So do the numbers of the events when the counter does not go back.
LEMMA NumberedKept ==
  ASSUME TypeOK, Numbered, next' \in Nat, next <= next',
         \A n \in 1 .. Len(file') :
           file'[n].kind = "event" =>
             (n \in 1 .. Len(file) /\ file'[n] = file[n]) \/ file'[n].event < next',
         UNCHANGED <<calls, acked>>
  PROVE  Numbered'
<1>1. /\ acked \subseteq Nat /\ next \in Nat
      /\ \A v \in Writers : calls[v] \in Seq(Nat)
      /\ \A n \in 1 .. Len(file) : file[n].kind = "event" => file[n].event \in Nat
  BY EventNat DEF TypeOK
<1>2. \A v \in Writers : \A i \in DOMAIN calls[v] : calls[v][i] \in Nat
  BY <1>1
<1> QED
  BY <1>1, <1>2 DEF Numbered

\* A call of log() is the last of the calls, and nothing holds its event yet.
LEMMA OrderLog ==
  ASSUME TypeOK, Numbered, InTurn, Recorded, NEW w, Writers = {w}, log(w)
  PROVE  Numbered' /\ InTurn' /\ Recorded'
<1> DEFINE c == calls[w]
           q == queue[w]
           N == Len(c)
           Q == Len(q)
<1>1. w \in Writers /\ \A v \in Writers : v = w
  OBVIOUS
<1>2. c \in Seq(Nat) /\ q \in Seq(Nat) /\ next \in Nat /\ N \in Nat
  BY <1>1 DEF TypeOK
<1>3. /\ next' = next + 1 /\ calls'[w] = Append(c, next)
      /\ UNCHANGED <<file, tailOpen, poisoned, acked>>
      /\ ~poisoned[w] => queue'[w] = Append(q, next)
  BY <1>1 DEF log, fileVars, TypeOK
<1>4. /\ DOMAIN c = 1 .. N /\ DOMAIN calls'[w] = 1 .. N + 1
      /\ Len(calls'[w]) = N + 1 /\ calls'[w][N + 1] = next
      /\ \A i \in 1 .. N : calls'[w][i] = c[i] /\ c[i] \in Nat
  BY <1>2, <1>3
<1>5. /\ \A i \in 1 .. N : c[i] < next
      /\ \A i, j \in 1 .. N : i < j => c[i] < c[j]
  BY <1>1, <1>4 DEF Numbered
<1>6. next \notin acked /\ \A n \in 1 .. Len(file) : ~Holds(n, next)
  BY <1>2 DEF Numbered, Holds
<1>7. CompleteLines' = CompleteLines /\ \A n \in 1 .. CompleteLines : n \in 1 .. Len(file)
  BY <1>3 DEF CompleteLines, TypeOK
<1> HIDE DEF c, N
<1>8. \A i, j \in DOMAIN calls'[w] : i < j => calls'[w][i] < calls'[w][j]
  <2> SUFFICES ASSUME NEW i \in 1 .. N + 1, NEW j \in 1 .. N + 1, i < j
               PROVE  calls'[w][i] < calls'[w][j]
    BY <1>4
  <2>1. i \in 1 .. N /\ (j \in 1 .. N \/ j = N + 1)
    BY <1>2
  <2> QED
    BY <1>4, <1>5, <2>1
<1>9. Numbered'
  <2>1. (\A e \in acked : e \in Nat) /\ \A n \in 1 .. Len(file) :
          file[n].kind = "event" => file[n].event \in Nat
    BY EventNat DEF TypeOK
  <2>2. \A i \in DOMAIN calls'[w] : calls'[w][i] < next'
    BY <1>2, <1>3, <1>4, <1>5
  <2>3. \A e \in acked : e < next'
    BY <1>2, <1>3, <2>1 DEF Numbered
  <2>4. \A n \in 1 .. Len(file) : file[n].kind = "event" => file[n].event < next'
    BY <1>2, <1>3, <2>1 DEF Numbered
  <2> QED
    BY <1>1, <1>3, <1>8, <2>2, <2>3, <2>4 DEF Numbered
<1>10. InTurn'
  <2>1. PICK k \in 0 .. N : AckedUpTo(w, k)
    BY <1>1 DEF InTurn, c, N
  <2>k. k \in Nat /\ k <= N
    BY <1>2
  <2>2. \A i \in DOMAIN calls'[w] : calls'[w][i] \in acked <=> i <= k
    <3>1. \A i \in 1 .. N : c[i] \in acked <=> i <= k
      BY <1>4, <2>1 DEF AckedUpTo, c
    <3>2. ~(N + 1 <= k)
      BY <1>2, <2>k
    <3>3. \A i \in 1 .. N + 1 : i \in 1 .. N \/ i = N + 1
      BY <1>2
    <3> QED
      BY <1>3, <1>4, <1>6, <3>1, <3>2, <3>3
  <2>3. ASSUME ~poisoned[w]
        PROVE  /\ k + Len(queue'[w]) = Len(calls'[w])
               /\ \A i \in DOMAIN queue'[w] : queue'[w][i] = calls'[w][k + i]
    <3>1. k + Q = N /\ \A i \in 1 .. Q : q[i] = c[k + i]
      <4>1. DOMAIN q = 1 .. Q
        BY <1>2
      <4> QED
        BY <2>1, <2>3, <4>1 DEF AckedUpTo, c, N
    <3>2. /\ Len(queue'[w]) = Q + 1 /\ queue'[w][Q + 1] = next
          /\ Q \in Nat /\ DOMAIN queue'[w] = 1 .. Q + 1
          /\ \A i \in 1 .. Q : queue'[w][i] = q[i]
      <4>1. queue'[w] = Append(q, next) /\ q \in Seq(Nat)
        BY <1>2, <1>3, <2>3
      <4> HIDE DEF q
      <4> QED
        BY <4>1
    <3> HIDE DEF q, Q
    <3>3. \A i \in 1 .. Q : k + i \in 1 .. N
      BY <1>2, <2>k, <3>1, <3>2
    <3>4. k + (Q + 1) = N + 1
      BY <1>2, <2>k, <3>1, <3>2
    <3>5. \A i \in 1 .. Q + 1 : i \in 1 .. Q \/ i = Q + 1
      BY <3>2
    <3> QED
      BY <1>4, <3>1, <3>2, <3>3, <3>4, <3>5
  <2>4. AckedUpTo(w, k)' /\ k \in 0 .. Len(calls'[w])
    <3>1. k \in 0 .. N + 1
      BY <1>2, <2>k
    <3> QED
      BY <1>3, <1>4, <2>2, <2>3, <3>1 DEF AckedUpTo
  <2> QED
    BY <1>1, <2>4 DEF InTurn
<1>11. Recorded'
  <2>1. \A n \in 1 .. CompleteLines : \A m \in 1 .. n - 1 : m \in 1 .. CompleteLines
    <3>1. CompleteLines \in Int
      BY DEF CompleteLines, TypeOK
    <3> QED
      BY <3>1
  <2>2. \A n, e : Holds(n, e)' <=> Holds(n, e)
    BY <1>3 DEF Holds
  <2>3. \A j \in DOMAIN calls'[w], n \in 1 .. CompleteLines :
          Holds(n, calls'[w][j]) => j \in 1 .. N /\ calls'[w][j] = c[j]
    BY <1>2, <1>4, <1>6, <1>7
  <2>4. \A j \in 1 .. N, n \in 1 .. CompleteLines : Holds(n, c[j]) =>
          /\ c[j] \in acked
          /\ \A m \in 1 .. n - 1, i \in 1 .. N : Holds(m, c[i]) => i < j
    BY <1>1, <1>4 DEF Recorded, c
  <2>5. \A e \in acked : \E n \in 1 .. CompleteLines : Holds(n, e)
    BY DEF Recorded
  <2>6. \A e \in acked' : \E n \in 1 .. CompleteLines' : Holds(n, e)'
    BY <1>3, <1>7, <2>2, <2>5
  <2>7. \A j \in DOMAIN calls'[w], n \in 1 .. CompleteLines' : Holds(n, calls[w][j])' =>
          /\ calls'[w][j] \in acked'
          /\ \A m \in 1 .. n - 1, i \in DOMAIN calls'[w] : Holds(m, calls[w][i])' => i < j
    BY <1>3, <1>7, <2>1, <2>2, <2>3, <2>4
  <2> QED
    BY <1>1, <2>6, <2>7 DEF Recorded
<1> QED
  BY <1>9, <1>10, <1>11

\* An append acknowledges the first call that waits, and its line is the last.
LEMMA OrderAppend ==
  ASSUME TypeOK, Numbered, InTurn, Recorded, ~tailOpen,
         NEW w, Writers = {w}, AppendEvent(w)
  PROVE  Numbered' /\ InTurn' /\ Recorded'
<1> DEFINE c == calls[w]
           q == queue[w]
           h == Head(q)
           N == Len(c)
           L == Len(file)
           Q == Len(q)
           Held(n, e) == file'[n].kind = "event" /\ file'[n].event = e
           line == Sealed(lastHash[w], h)
<1>1. w \in Writers /\ \A v \in Writers : v = w
  OBVIOUS
<1>2. c \in Seq(Nat) /\ q \in Seq(Nat) /\ q # << >> /\ next \in Nat /\ N \in Nat
      /\ ~poisoned[w]
  BY <1>1 DEF TypeOK, AppendEvent
<1>3. /\ WriteLine(line) /\ acked' = acked \cup {h} /\ queue'[w] = Tail(q)
      /\ UNCHANGED <<next, calls, poisoned>>
  BY <1>1 DEF AppendEvent, TypeOK
<1>4. /\ L \in Nat /\ CompleteLines = L /\ Len(file') = L + 1 /\ CompleteLines' = L + 1
      /\ file'[L + 1] = line /\ \A n \in 1 .. L : file'[n] = file[n]
  BY <1>3, LineAdded
<1>5. line.kind = "event" /\ line.event = h
  BY DEF Sealed
<1> HIDE DEF line
<1>6. PICK k \in 0 .. N : AckedUpTo(w, k)
  BY <1>1 DEF InTurn
<1>7. /\ Q \in Nat \ {0} /\ h = q[1] /\ DOMAIN q = 1 .. Q
      /\ DOMAIN Tail(q) = 1 .. Q - 1 /\ Len(Tail(q)) = Q - 1
      /\ \A i \in 1 .. Q - 1 : Tail(q)[i] = q[i + 1]
  BY <1>2
<1>8. k + Q = N /\ \A i \in 1 .. Q : q[i] = c[k + i]
  BY <1>2, <1>6, <1>7 DEF AckedUpTo
<1>k. k \in Nat /\ k <= N
  BY <1>2
<1>d. DOMAIN c = 1 .. N /\ \A i \in 1 .. N : c[i] \in Nat
  BY <1>2
<1>9. k + 1 \in 1 .. N /\ h = c[k + 1]
  <2> HIDE DEF c, q, h, N, Q
  <2> QED
    BY <1>2, <1>7, <1>8, <1>k
<1>10. /\ \A i \in 1 .. N : c[i] < next
       /\ \A i, j \in 1 .. N : i < j => c[i] < c[j]
  BY <1>1, <1>d DEF Numbered
<1>11. \A i \in 1 .. N : c[i] \in acked <=> i <= k
  BY <1>6, <1>d DEF AckedUpTo
<1> HIDE DEF c, q, h, N, L, Q
<1>12. \A i \in 1 .. N : c[i] = h => i = k + 1
  BY <1>k, <1>d, <1>9, <1>10
<1>13. Numbered'
  <2>1. h < next
    BY <1>9, <1>10
  <2> QED
    BY <1>3, <1>4, <1>5, <2>1 DEF Numbered, L
<1>14. InTurn'
  <2>1. \A i \in 1 .. N : c[i] \in acked' <=> i <= k + 1
    BY <1>k, <1>3, <1>9, <1>11, <1>12
  <2>2. /\ (k + 1) + Len(Tail(q)) = N
        /\ \A i \in 1 .. Q - 1 : Tail(q)[i] = c[(k + 1) + i]
    <3>1. \A i \in 1 .. Q - 1 : i + 1 \in 1 .. Q /\ (k + 1) + i = k + (i + 1)
      BY <1>k, <1>7
    <3>2. (k + 1) + (Q - 1) = N
      BY <1>k, <1>7, <1>8
    <3>3. \A i \in 1 .. Q - 1 : q[i + 1] = c[k + (i + 1)]
      BY <1>8, <3>1
    <3> QED
      BY <1>7, <3>1, <3>2, <3>3
  <2>3. AckedUpTo(w, k + 1)'
    BY <1>3, <1>7, <1>d, <2>1, <2>2 DEF AckedUpTo, c, N
  <2>4. k + 1 \in 0 .. Len(calls'[w])
    BY <1>2, <1>3, <1>9 DEF c, N
  <2> QED
    BY <1>1, <2>3, <2>4 DEF InTurn
<1>15. Recorded'
  <2>1. \A n \in 1 .. L : \A e : Held(n, e) <=> Holds(n, e)
    BY <1>4 DEF Holds
  <2>2. \A e : Held(L + 1, e) <=> e = h
    BY <1>4, <1>5
  <2>3. \A n \in 1 .. L + 1 : n \in 1 .. L \/ n = L + 1
    BY <1>4
  <2>4. \A e \in acked : \E n \in 1 .. L : Holds(n, e)
    BY <1>4 DEF Recorded
  <2>5. \A e \in acked' : \E n \in 1 .. L + 1 : Held(n, e)
    BY <1>3, <1>4, <2>1, <2>2, <2>4
  <2>6. \A j \in 1 .. N, n \in 1 .. L : Holds(n, c[j]) =>
          /\ c[j] \in acked
          /\ \A m \in 1 .. n - 1, i \in 1 .. N : Holds(m, c[i]) => i < j
    BY <1>1, <1>4, <1>d DEF Recorded, c
  <2>7. ASSUME NEW j \in 1 .. N, NEW n \in 1 .. L + 1, Held(n, c[j]),
               NEW m \in 1 .. n - 1, NEW i \in 1 .. N, Held(m, c[i])
        PROVE  c[j] \in acked' /\ i < j
    <3>m. m \in 1 .. L /\ Holds(m, c[i])
      BY <1>4, <2>1, <2>7
    <3>1. CASE n \in 1 .. L
      BY <1>3, <2>1, <2>6, <2>7, <3>m, <3>1
    <3>2. CASE n = L + 1
      <4>1. c[j] = h /\ j = k + 1
        BY <1>12, <2>2, <2>7, <3>2
      <4>2. c[i] \in acked
        BY <2>6, <3>m
      <4> QED
        BY <1>3, <1>k, <1>11, <4>1, <4>2
    <3> QED
      BY <2>3, <3>1, <3>2
  <2>8. ASSUME NEW j \in 1 .. N, NEW n \in 1 .. L + 1, Held(n, c[j])
        PROVE  c[j] \in acked'
    BY <1>3, <2>1, <2>2, <2>3, <2>6, <2>8
  <2> HIDE DEF Held
  <2>9. \A n, e : Held(n, e) <=> Holds(n, e)'
    BY DEF Held, Holds
  <2>10. /\ c = calls'[w] /\ DOMAIN c = 1 .. N /\ CompleteLines' = L + 1
    BY <1>3, <1>4, <1>d DEF c
  <2>11. \A e \in acked' : \E n \in 1 .. CompleteLines' : Held(n, e)
    BY <2>5, <2>10
  <2>12. \A j \in DOMAIN calls'[w], n \in 1 .. CompleteLines' : Held(n, calls'[w][j]) =>
           /\ calls'[w][j] \in acked'
           /\ \A m \in 1 .. n - 1, i \in DOMAIN calls'[w] : Held(m, calls'[w][i]) => i < j
    BY <2>7, <2>8, <2>10
  <2> QED
    BY <1>1, <2>9, <2>11, <2>12 DEF Recorded
<1> QED
  BY <1>13, <1>14, <1>15

\* A failed job leaves the calls behind it unanswered for good.
LEMMA OrderFail ==
  ASSUME TypeOK, TypeOK', Numbered, InTurn, Recorded, ~tailOpen,
         NEW w, Writers = {w}, JobFails(w)
  PROVE  Numbered' /\ InTurn' /\ Recorded'
<1>1. w \in Writers /\ \A v \in Writers : v = w
  OBVIOUS
<1>2. /\ queue[w] # << >> /\ CutShort(w) /\ poisoned'[w] /\ UNCHANGED <<calls, acked>>
      /\ queue[w] \in Seq(Nat) /\ next \in Nat /\ next' \in Nat /\ ~poisoned[w]
  BY <1>1 DEF JobFails, TypeOK
<1>3. next <= next' /\ (WritePart(InFlight(w)) \/ UNCHANGED fileVars)
  BY <1>2 DEF CutShort
<1>4. /\ Len(file) \in Nat /\ CompleteLines = Len(file) /\ CompleteLines' = CompleteLines
      /\ \A n \in 1 .. CompleteLines : file'[n] = file[n]
      /\ \A n \in 1 .. Len(file') : n \in 1 .. Len(file) \/ file'[n] \in {InFlight(w), Junk}
  BY <1>3, LineTorn
<1>5. Head(queue[w]) < next
  <2>1. PICK k \in 0 .. Len(calls[w]) : AckedUpTo(w, k)
    BY <1>1 DEF InTurn
  <2>2. k + Len(queue[w]) = Len(calls[w]) /\ \A i \in DOMAIN queue[w] : queue[w][i] = calls[w][k + i]
    BY <1>2, <2>1 DEF AckedUpTo
  <2>3. calls[w] \in Seq(Nat)
    BY <1>1 DEF TypeOK
  <2>4. k + 1 \in DOMAIN calls[w] /\ 1 \in DOMAIN queue[w]
    <3>1. Len(queue[w]) \in Nat \ {0} /\ DOMAIN queue[w] = 1 .. Len(queue[w])
      BY <1>2
    <3>2. Len(calls[w]) \in Nat /\ DOMAIN calls[w] = 1 .. Len(calls[w])
      BY <2>3
    <3> QED
      BY <2>2, <3>1, <3>2
  <2>5. Head(queue[w]) = calls[w][k + 1]
    BY <1>2, <2>2, <2>4
  <2> QED
    BY <1>1, <2>4, <2>5 DEF Numbered
<1>6. \A n \in 1 .. Len(file') : file'[n].kind = "event" =>
        (n \in 1 .. Len(file) /\ file'[n] = file[n]) \/ file'[n].event < next'
  <2> SUFFICES ASSUME NEW n \in 1 .. Len(file'), file'[n].kind = "event",
                      n \notin 1 .. Len(file)
               PROVE  file'[n].event < next'
    BY <1>4
  <2>1. file'[n] = InFlight(w)
    BY <1>4 DEF Junk
  <2>2. file' # file
    OBVIOUS
  <2>3. init[w] \in {"genesis", "ready"} /\ (init[w] = "genesis" => next' = next + 1)
        /\ (init[w] # "genesis" => next' = next)
    BY <1>2, <2>2 DEF CutShort, fileVars
  <2>4. InFlight(w).event = IF init[w] = "genesis" THEN next ELSE Head(queue[w])
    BY DEF InFlight, Sealed
  <2> QED
    BY <1>2, <1>5, <2>1, <2>3, <2>4
<1>7. Numbered'
  BY <1>2, <1>3, <1>6, NumberedKept
<1>8. InTurn'
  BY <1>1, <1>2 DEF InTurn, AckedUpTo
<1>9. Recorded'
  BY <1>2, <1>4, RecordedKept
<1> QED
  BY <1>7, <1>8, <1>9

LEMMA OrderNext ==
  ASSUME OneWriter
  PROVE  TypeOK /\ TypeOK' /\ ChainInv /\ OrderInv /\ [Next]_vars => OrderInv'
<1> SUFFICES ASSUME TypeOK, TypeOK', ChainInv, OrderInv, [Next]_vars, ~spoilt'
             PROVE  Numbered' /\ InTurn' /\ Recorded'
  BY DEF OrderInv
<1>0. PICK w : Writers = {w}
  BY DEF OneWriter
<1>1. LinkInv /\ Numbered /\ InTurn /\ Recorded
  BY DEF ChainInv, OrderInv, TypeOK, Next, WriterStep, log, InitStat, writeGenesis,
     loadLastHash, AppendEvent, JobFails, Crash, vars
<1>2. w \in Writers /\ \A v \in Writers : v = w
  BY <1>0
<1>3. CompleteLines \in Int /\ next \in Nat
  BY DEF CompleteLines, TypeOK
<1>4. CASE UNCHANGED <<file, tailOpen, next, queue, poisoned, calls, acked>>
  <2>1. Numbered'
    BY <1>1, <1>4 DEF Numbered
  <2>2. InTurn'
    BY <1>1, <1>4 DEF InTurn, AckedUpTo
  <2>3. Recorded'
    BY <1>1, <1>3, <1>4, RecordedKept DEF CompleteLines
  <2> QED
    BY <2>1, <2>2, <2>3
<1>5. CASE log(w)
  BY <1>0, <1>1, <1>5, OrderLog
<1>6. CASE writeGenesis(w)
  <2> DEFINE line == Sealed(GENESIS_PREV_HASH, next)
  <2>1. ~poisoned[w] /\ ~tailOpen /\ WriteLine(line) /\ next' = next + 1
        /\ UNCHANGED <<queue, poisoned, calls, acked>>
    BY <1>1, <1>2, <1>6 DEF writeGenesis, LinkInv
  <2>2. line.kind = "event" /\ line.event = next
    BY DEF Sealed
  <2> HIDE DEF line
  <2>3. /\ Len(file) \in Nat /\ CompleteLines = Len(file) /\ Len(file') = Len(file) + 1
        /\ CompleteLines' = Len(file) + 1 /\ file'[Len(file) + 1] = line
        /\ \A n \in 1 .. Len(file) : file'[n] = file[n]
    BY <2>1, LineAdded
  <2>4. \A n \in 1 .. Len(file) + 1 : n \in 1 .. Len(file) \/ n = Len(file) + 1
    BY <2>3
  <2>5. Numbered'
    <3>1. next' \in Nat /\ next <= next' /\ next < next'
      BY <1>3, <2>1
    <3> QED
      BY <1>1, <2>1, <2>2, <2>3, <2>4, <3>1, NumberedKept
  <2>6. InTurn'
    BY <1>1, <2>1 DEF InTurn, AckedUpTo
  <2>7. Recorded'
    <3> DEFINE L == Len(file)
               c == calls[w]
               Held(n, e) == file'[n].kind = "event" /\ file'[n].event = e
    <3>1. \A n \in 1 .. L : \A e : Held(n, e) <=> Holds(n, e)
      BY <2>3 DEF Holds
    <3>2. \A j \in DOMAIN c : c[j] # next /\ ~Held(L + 1, c[j])
      <4>1. \A j \in DOMAIN c : c[j] < next /\ c[j] \in Nat
        BY <1>1, <1>2 DEF Numbered, TypeOK
      <4> QED
        BY <1>3, <2>2, <2>3, <4>1
    <3>3. \A j \in DOMAIN c, n \in 1 .. L + 1 : Held(n, c[j]) => n \in 1 .. L /\ Holds(n, c[j])
      BY <2>4, <3>1, <3>2
    <3>4. \A n \in 1 .. L : \A m \in 1 .. n - 1 : m \in 1 .. L
      BY <2>3
    <3>5. \A j \in DOMAIN c, n \in 1 .. L : Holds(n, c[j]) =>
            /\ c[j] \in acked
            /\ \A m \in 1 .. n - 1, i \in DOMAIN c : Holds(m, c[i]) => i < j
      BY <1>1, <1>2, <2>3 DEF Recorded
    <3>6. \A e \in acked : \E n \in 1 .. L + 1 : Held(n, e)
      <4>1. \A e \in acked : \E n \in 1 .. L : Holds(n, e)
        BY <1>1, <2>3 DEF Recorded
      <4>2. \A n \in 1 .. L : n \in 1 .. L + 1
        BY <2>3
      <4> QED
        BY <3>1, <4>1, <4>2
    <3> HIDE DEF Held
    <3>7. \A n, e : Held(n, e) <=> Holds(n, e)'
      BY DEF Held, Holds
    <3>8. \A j \in DOMAIN c, n \in 1 .. L + 1 : Held(n, c[j]) =>
            /\ c[j] \in acked
            /\ \A m \in 1 .. n - 1, i \in DOMAIN c : Held(m, c[i]) => i < j
      BY <3>1, <3>3, <3>4, <3>5
    <3>9. c = calls'[w] /\ acked' = acked /\ CompleteLines' = L + 1
      BY <2>1, <2>3
    <3> HIDE DEF L, c
    <3> QED
      BY <1>2, <3>6, <3>7, <3>8, <3>9 DEF Recorded
  <2> QED
    BY <2>5, <2>6, <2>7
<1>7. CASE AppendEvent(w)
  <2>1. ~tailOpen
    BY <1>1, <1>2, <1>7 DEF AppendEvent, LinkInv, TypeOK
  <2> QED
    BY <1>0, <1>1, <1>7, <2>1, OrderAppend
<1>8. CASE JobFails(w)
  <2>1. ~tailOpen
    BY <1>1, <1>2, <1>8 DEF JobFails, LinkInv, TypeOK
  <2> QED
    BY <1>0, <1>1, <1>8, <2>1, OrderFail
<1>9. CASE Crash(w)
  <2>1. ~tailOpen' /\ calls'[w] = << >> /\ queue'[w] = << >> /\ UNCHANGED acked
    BY <1>2, <1>9 DEF Crash, TypeOK
  <2>2. UNCHANGED <<file, tailOpen>> /\ next' \in Nat /\ next <= next'
    BY <1>3, <1>9, <2>1 DEF Crash, CutShort, WritePart, fileVars
  <2>3. (\A e \in acked : e \in Nat) /\ \A n \in 1 .. Len(file) :
          file[n].kind = "event" => file[n].event \in Nat
    BY EventNat DEF TypeOK
  <2>4. Numbered'
    BY <1>1, <1>2, <1>3, <2>1, <2>2, <2>3 DEF Numbered
  <2>5. InTurn'
    BY <1>2, <2>1 DEF InTurn, AckedUpTo
  <2>6. Recorded'
    BY <1>1, <1>2, <2>1, <2>2 DEF Recorded, Holds, CompleteLines
  <2> QED
    BY <2>4, <2>5, <2>6
<1>10. InitStat(w) \/ loadLastHash(w) \/ UNCHANGED vars =>
         UNCHANGED <<file, tailOpen, next, queue, poisoned, calls, acked>>
  BY DEF InitStat, loadLastHash, vars, fileVars, writerVars
<1> QED
  BY <1>0, <1>4, <1>5, <1>6, <1>7, <1>8, <1>9, <1>10 DEF Next, WriterStep

\* With one ledger object on the file, an acknowledged event can be read back, the
\* acknowledged calls are a prefix of the calls, and the complete lines hold them
\* in that order and nothing else of the object's, through failed appends and
\* through restarts that do not find a torn line.
THEOREM AcknowledgedInOrder ==
  ASSUME OneWriter
  PROVE  Spec => []AckedInOrder
<1>1. Init => LoadInv /\ ChainInv
  BY ChainInit DEF Init, LoadInv
<1>2. Init => OrderInv
  <2> SUFFICES ASSUME Init PROVE Numbered /\ InTurn /\ Recorded
    BY DEF OrderInv
  <2>1. PICK n \in OldFiles : file = [k \in 1 .. n |-> Legacy]
    BY DEF Init
  <2>2. n \in Nat /\ Len(file) = n
    BY <2>1, LedgerAssumption
  <2>3. \A k \in 1 .. Len(file) : file[k].kind = "legacy"
    BY <2>1, <2>2 DEF Legacy
  <2>4. InTurn
    <3>1. \A w \in Writers : AckedUpTo(w, 0) /\ Len(calls[w]) = 0
      BY DEF Init, AckedUpTo
    <3> QED
      BY <3>1 DEF InTurn
  <2>5. acked = {} /\ \A w \in Writers : calls[w] = << >> /\ DOMAIN calls[w] = {}
    BY DEF Init
  <2>6. Numbered
    BY <2>3, <2>5 DEF Numbered
  <2>7. Recorded
    BY <2>5 DEF Recorded
  <2> QED
    BY <2>4, <2>6, <2>7
<1>3. TypeOK /\ OrderInv => AckedInOrder
  <2> SUFFICES ASSUME TypeOK, Numbered, InTurn, Recorded PROVE AckedInOrder
    BY DEF OrderInv, AckedInOrder
  <2>1. ASSUME NEW w \in Writers, NEW j \in DOMAIN calls[w], calls[w][j] \in acked,
               NEW i \in 1 .. j
        PROVE  calls[w][i] \in acked
    <3>1. calls[w] \in Seq(Nat)
      BY DEF TypeOK
    <3>2. PICK k \in 0 .. Len(calls[w]) : AckedUpTo(w, k)
      BY DEF InTurn
    <3>3. j \in 1 .. Len(calls[w]) /\ i \in DOMAIN calls[w] /\ i <= j /\ k \in Int
      BY <3>1
    <3>4. j <= k
      BY <2>1, <3>2 DEF AckedUpTo
    <3> QED
      BY <3>2, <3>3, <3>4 DEF AckedUpTo
  <2> QED
    BY <2>1 DEF Recorded, AckedInOrder
<1> QED
  BY <1>1, <1>2, <1>3, TypeInit, TypeNext, LoadNext, ChainNext, OrderNext, PTL DEF Spec

-----------------------------------------------------------------------------
(***************************************************************************)
(* verify(): what its loop knows after some lines, against the definition  *)
(* of an honest file.                                                      *)
(***************************************************************************)

VerifyLine == {Legacy, Half, Junk} \cup
              [kind : {"event"}, prev_hash : Seq(Nat), hash : Seq(Nat), event : Nat]

\* A hashed line is sealed when its hash is that of what it says.
LEMMA SealedLine ==
  ASSUME NEW l \in VerifyLine, l.kind = "event"
  PROVE  l = Sealed(l.prev_hash, l.event) <=> l.hash = hashEvent(l.prev_hash, l.event)
<1>1. l \in [kind : {"event"}, prev_hash : Seq(Nat), hash : Seq(Nat), event : Nat]
  BY DEF VerifyLine, Legacy, Half, Junk
<1> QED
  BY <1>1 DEF Sealed

\* What a line builds on is one hash.
LEMMA BuildsOnOne ==
  ASSUME NEW f, NEW k \in Nat, NEW g, NEW h, BuildsOn(f, k, g), BuildsOn(f, k, h)
  PROVE  g = h
<1>1. CASE \E j \in 1 .. k - 1 : f[j].kind = "event"
  <2>1. PICK j \in 1 .. k - 1 : /\ f[j].kind = "event" /\ g = f[j].hash
                                /\ \A m \in j + 1 .. k - 1 : f[m].kind # "event"
    BY <1>1 DEF BuildsOn
  <2>2. PICK i \in 1 .. k - 1 : /\ f[i].kind = "event" /\ h = f[i].hash
                                /\ \A m \in i + 1 .. k - 1 : f[m].kind # "event"
    BY <1>1 DEF BuildsOn
  <2>3. ~(i < j) /\ ~(j < i)
    BY <2>1, <2>2
  <2> QED
    BY <2>1, <2>2, <2>3
<1>2. CASE ~ \E j \in 1 .. k - 1 : f[j].kind = "event"
  BY <1>2 DEF BuildsOn
<1> QED
  BY <1>1, <1>2

\* A line without hashes changes nothing for the next one, a hashed one does.
LEMMA BuildsOnNext ==
  ASSUME NEW f, NEW k \in Nat \ {0}
  PROVE  /\ f[k].kind = "event" => BuildsOn(f, k + 1, f[k].hash)
         /\ \A h : BuildsOn(f, k, h) /\ f[k].kind # "event" => BuildsOn(f, k + 1, h)
<1>1. k + 1 - 1 = k /\ k \in 1 .. k /\ k + 1 .. k = {} /\ 1 .. k = (1 .. k - 1) \cup {k}
  OBVIOUS
<1>2. f[k].kind = "event" => BuildsOn(f, k + 1, f[k].hash)
  BY <1>1 DEF BuildsOn
<1>3. ASSUME NEW h, BuildsOn(f, k, h), f[k].kind # "event"
      PROVE  BuildsOn(f, k + 1, h)
  <2>1. CASE h = GENESIS_PREV_HASH /\ \A m \in 1 .. k - 1 : f[m].kind # "event"
    <3>1. \A m \in 1 .. k : f[m].kind # "event"
      BY <1>1, <1>3, <2>1
    <3>2. \A m \in 1 .. (k + 1) - 1 : f[m].kind # "event"
      BY <3>1
    <3> QED
      BY <2>1, <3>2 DEF BuildsOn
  <2>2. CASE \E j \in 1 .. k - 1 :
               /\ f[j].kind = "event" /\ h = f[j].hash
               /\ \A m \in j + 1 .. k - 1 : f[m].kind # "event"
    <3>1. PICK j \in 1 .. k - 1 : /\ f[j].kind = "event" /\ h = f[j].hash
                                  /\ \A m \in j + 1 .. k - 1 : f[m].kind # "event"
      BY <2>2
    <3>2. j \in 1 .. k /\ \A m \in j + 1 .. k : m \in j + 1 .. k - 1 \/ m = k
      OBVIOUS
    <3>3. \A m \in j + 1 .. k : f[m].kind # "event"
      BY <1>3, <3>1, <3>2
    <3> QED
      BY <1>1, <3>1, <3>2, <3>3 DEF BuildsOn
  <2> QED
    BY <1>3, <2>1, <2>2 DEF BuildsOn
<1> QED
  BY <1>2, <1>3

\* One more line.
LEMMA HonestNext ==
  ASSUME NEW f, NEW n \in Nat, HonestUpTo(f, n)
  PROVE  HonestUpTo(f, n + 1) <=>
           (f[n + 1].kind # "legacy" =>
              /\ f[n + 1].kind = "event"
              /\ f[n + 1] = Sealed(f[n + 1].prev_hash, f[n + 1].event)
              /\ BuildsOn(f, n + 1, f[n + 1].prev_hash))
<1>1. 1 .. n + 1 = (1 .. n) \cup {n + 1}
  OBVIOUS
<1> QED
  BY <1>1 DEF HonestUpTo

\* A file all of whose lines are hashed is honest when it is so up to its end.
LEMMA HonestAtEnd ==
  ASSUME NEW f \in Seq(VerifyLine), \A k \in DOMAIN f : f[k].kind = "event"
  PROVE  Honest(f) <=> HonestUpTo(f, Len(f))
<1>1. ASSUME NEW k \in DOMAIN f
      PROVE  BuildsOn(f, k, IF k = 1 THEN GENESIS_PREV_HASH ELSE f[k - 1].hash)
  <2>1. k \in Nat \ {0} /\ k \in 1 .. Len(f)
    OBVIOUS
  <2>2. CASE k = 1
    BY <2>2 DEF BuildsOn
  <2>3. CASE k # 1
    <3>1. k - 1 \in Nat \ {0} /\ k - 1 \in DOMAIN f /\ k - 1 + 1 = k
      BY <2>1, <2>3
    <3>2. f[k - 1].kind = "event"
      BY <3>1
    <3> QED
      BY <2>3, <3>1, <3>2, BuildsOnNext
  <2> QED
    BY <2>2, <2>3
<1>2. ASSUME NEW k \in DOMAIN f, NEW h, f[k] = Sealed(h, f[k].event)
      PROVE  f[k].prev_hash = h
  BY <1>2 DEF Sealed
<1>3. ASSUME Honest(f) PROVE HonestUpTo(f, Len(f))
  <2> SUFFICES ASSUME NEW k \in DOMAIN f
               PROVE  /\ f[k] = Sealed(f[k].prev_hash, f[k].event)
                      /\ BuildsOn(f, k, f[k].prev_hash)
    BY DEF HonestUpTo
  <2>1. f[k] = Sealed(IF k = 1 THEN GENESIS_PREV_HASH ELSE f[k - 1].hash, f[k].event)
    BY <1>3 DEF Honest
  <2>2. f[k].prev_hash = IF k = 1 THEN GENESIS_PREV_HASH ELSE f[k - 1].hash
    BY <1>2, <2>1
  <2> QED
    BY <1>1, <2>1, <2>2
<1>4. ASSUME HonestUpTo(f, Len(f)) PROVE Honest(f)
  <2> SUFFICES ASSUME NEW k \in DOMAIN f
               PROVE  f[k] = Sealed(IF k = 1 THEN GENESIS_PREV_HASH ELSE f[k - 1].hash, f[k].event)
    BY DEF Honest
  <2>1. k \in 1 .. Len(f) /\ k \in Nat /\ f[k].kind = "event"
    OBVIOUS
  <2>2. f[k] = Sealed(f[k].prev_hash, f[k].event) /\ BuildsOn(f, k, f[k].prev_hash)
    BY <1>4, <2>1 DEF HonestUpTo
  <2>3. f[k].prev_hash = IF k = 1 THEN GENESIS_PREV_HASH ELSE f[k - 1].hash
    BY <1>1, <2>1, <2>2, BuildsOnOne
  <2> QED
    BY <2>2, <2>3
<1> QED
  BY <1>3, <1>4

Unread == [ok |-> FALSE, brokenAt |-> -1]

\* AcceptsExactlyHonest, of a file f, an index a and an answer r.
Judged(f, a, r) ==
  /\ r # Pending => (r.ok <=> a >= 0 /\ (Honest(f) \/ AllLegacy(f)))
  /\ r.ok => (r.legacy <=> f # << >> /\ AllLegacy(f))
  /\ ~r.ok /\ r.brokenAt >= 0 =>
       HonestUpTo(f, r.brokenAt) /\ ~HonestUpTo(f, r.brokenAt + 1)

\* What the loop of verify() knows of the lines it has passed.
Passed(f, a, h, hashed, legacy) ==
  /\ BuildsOn(f, a + 1, h)
  /\ legacy <=> \E k \in 1 .. a : f[k].kind = "legacy"
  /\ hashed <=> \E k \in 1 .. a : f[k].kind = "event"

VerifyInv ==
  /\ lines \in Seq(VerifyLine)
  /\ at \in -1 .. Len(lines)
  /\ sawHashed \in BOOLEAN /\ sawLegacy \in BOOLEAN
  /\ at = -1 => /\ result \in {Pending, Unread}
                /\ prevHash = GENESIS_PREV_HASH /\ ~sawHashed /\ ~sawLegacy
  /\ at >= 0 => HonestUpTo(lines, at)
  /\ at >= 0 /\ result = Pending => Passed(lines, at, prevHash, sawHashed, sawLegacy)
  /\ Judged(lines, at, result)

\* A step that only edits the file leaves a sequence of lines.
LEMMA TamperType ==
  ASSUME lines \in Seq(VerifyLine), Tamper
  PROVE  lines' \in Seq(VerifyLine)
<1>1. {Junk, Half, Legacy} \subseteq VerifyLine
  BY DEF VerifyLine
<1>2. \A h \in Seq(Nat) : Sealed(h, 0) \in VerifyLine
  BY DEF VerifyLine, Sealed, hashEvent
<1>3. Sealed(GENESIS_PREV_HASH, 0) \in VerifyLine
  <2>1. GENESIS_PREV_HASH \in Seq(Nat)
    BY DEF GENESIS_PREV_HASH
  <2> QED
    BY <1>2, <2>1
<1>4. ASSUME NEW k \in DOMAIN lines, lines' = RemoveAt(lines, k)
      PROVE  lines' \in Seq(VerifyLine)
  <2>1. SubSeq(lines, 1, k - 1) \in Seq(VerifyLine) /\ SubSeq(lines, k + 1, Len(lines)) \in Seq(VerifyLine)
    OBVIOUS
  <2> QED
    BY <1>4, <2>1 DEF RemoveAt
<1>5. ASSUME NEW k \in DOMAIN lines, lines' = InsertAt(lines, k, lines[k])
      PROVE  lines' \in Seq(VerifyLine)
  <2>1. /\ SubSeq(lines, 1, k - 1) \in Seq(VerifyLine) /\ SubSeq(lines, k, Len(lines)) \in Seq(VerifyLine)
        /\ <<lines[k]>> \in Seq(VerifyLine)
    OBVIOUS
  <2> QED
    BY <1>5, <2>1 DEF InsertAt
<1>6. ASSUME NEW k \in DOMAIN lines, lines[k].kind = "event"
      PROVE  /\ [lines[k] EXCEPT !.event = 0] \in VerifyLine
             /\ Sealed(lines[k].prev_hash, 0) \in VerifyLine
  <2>1. lines[k] \in [kind : {"event"}, prev_hash : Seq(Nat), hash : Seq(Nat), event : Nat]
    <3>1. lines[k] \in VerifyLine
      OBVIOUS
    <3> QED
      BY <1>6, <3>1 DEF VerifyLine, Legacy, Half, Junk
  <2>2. [lines[k] EXCEPT !.event = 0] \in VerifyLine
    BY <2>1 DEF VerifyLine
  <2> QED
    BY <1>2, <2>1, <2>2
<1>7. \A l \in VerifyLine : Append(lines, l) \in Seq(VerifyLine)
  OBVIOUS
<1>8. \A k \in DOMAIN lines, l \in VerifyLine : [lines EXCEPT ![k] = l] \in Seq(VerifyLine)
  OBVIOUS
<1>9. \A j, k \in DOMAIN lines :
        j # k => [lines EXCEPT ![k] = lines[j], ![j] = lines[k]] \in Seq(VerifyLine)
  OBVIOUS
<1>10. CASE \E k \in DOMAIN lines :
          \/ lines' = RemoveAt(lines, k)
          \/ lines' = InsertAt(lines, k, lines[k])
          \/ \E j \in DOMAIN lines :
               j # k /\ lines' = [lines EXCEPT ![k] = lines[j], ![j] = lines[k]]
          \/ \E l \in {Junk, Half, Legacy} : lines' = [lines EXCEPT ![k] = l]
          \/ /\ lines[k].kind = "event"
             /\ \/ lines' = [lines EXCEPT ![k].event = 0]
                \/ lines' = [lines EXCEPT ![k] = Sealed(lines[k].prev_hash, 0)]
  <2>1. PICK k \in DOMAIN lines :
          \/ lines' = RemoveAt(lines, k)
          \/ lines' = InsertAt(lines, k, lines[k])
          \/ \E j \in DOMAIN lines :
               j # k /\ lines' = [lines EXCEPT ![k] = lines[j], ![j] = lines[k]]
          \/ \E l \in {Junk, Half, Legacy} : lines' = [lines EXCEPT ![k] = l]
          \/ /\ lines[k].kind = "event"
             /\ \/ lines' = [lines EXCEPT ![k].event = 0]
                \/ lines' = [lines EXCEPT ![k] = Sealed(lines[k].prev_hash, 0)]
    BY <1>10
  <2>2. CASE \E j \in DOMAIN lines :
               j # k /\ lines' = [lines EXCEPT ![k] = lines[j], ![j] = lines[k]]
    BY <1>9, <2>2
  <2>3. CASE \E l \in {Junk, Half, Legacy} : lines' = [lines EXCEPT ![k] = l]
    BY <1>1, <1>8, <2>3
  <2>4. CASE /\ lines[k].kind = "event"
             /\ \/ lines' = [lines EXCEPT ![k].event = 0]
                \/ lines' = [lines EXCEPT ![k] = Sealed(lines[k].prev_hash, 0)]
    BY <1>6, <1>8, <2>4
  <2> QED
    BY <1>4, <1>5, <2>1, <2>2, <2>3, <2>4
<1>11. CASE \E l \in {Junk, Half, Legacy, Sealed(GENESIS_PREV_HASH, 0)} : lines' = Append(lines, l)
  BY <1>1, <1>3, <1>7, <1>11
<1> QED
  BY <1>10, <1>11 DEF Tamper

LEMMA VerifyInitInv ==
  ASSUME VerifyInit
  PROVE  VerifyInv
<1>1. lines \in Seq(VerifyLine)
  <2>1. ASSUME NEW n \in Nat PROVE Chain(n) \in Seq(VerifyLine)
    <3>1. \A h \in Seq(Nat), e \in Nat : Sealed(h, e) \in VerifyLine
      BY DEF VerifyLine, Sealed, hashEvent
    <3>2. \A k \in 1 .. n : [j \in 1 .. k - 1 |-> j] \in Seq(Nat)
      OBVIOUS
    <3>3. ASSUME NEW k \in 1 .. n
          PROVE  Sealed([j \in 1 .. k - 1 |-> j], k) \in VerifyLine
      <4>1. k \in Nat
        OBVIOUS
      <4> HIDE DEF Sealed
      <4> QED
        BY <3>1, <3>2, <4>1
    <3> QED
      BY <3>3 DEF Chain
  <2>2. ASSUME NEW n \in Nat PROVE [k \in 1 .. n |-> Legacy] \in Seq(VerifyLine)
    <3>1. Legacy \in VerifyLine
      BY DEF VerifyLine
    <3> QED
      BY <3>1
  <2> QED
    <3>1. CASE \E n \in 0 .. MaxLines : lines = Chain(n)
      <4>1. PICK n \in 0 .. MaxLines : lines = Chain(n)
        BY <3>1
      <4>2. n \in Nat
        BY VerifyAssumption
      <4> QED
        BY <2>1, <4>1, <4>2
    <3>2. CASE \E n \in 1 .. 2 : lines = [k \in 1 .. n |-> Legacy]
      BY <2>2, <3>2
    <3> QED
      BY <3>1, <3>2 DEF VerifyInit
<1>2. Judged(lines, at, result)
  BY DEF Judged, VerifyInit, Pending
<1>3. -1 \in -1 .. Len(lines) /\ ~(-1 >= 0)
  BY <1>1
<1> QED
  BY <1>1, <1>2, <1>3 DEF VerifyInv, VerifyInit

\* Reading, or failing to.
LEMMA ReadFileInv ==
  ASSUME VerifyInv, ReadFile
  PROVE  VerifyInv'
<1> USE DEF VerifyInv
<1>1. /\ lines' = lines /\ prevHash' = prevHash /\ sawHashed' = sawHashed /\ sawLegacy' = sawLegacy
      /\ at = -1 /\ prevHash = GENESIS_PREV_HASH /\ ~sawHashed /\ ~sawLegacy
  BY DEF ReadFile
<1>2. CASE at' = 0 /\ result' = IF lines = << >> THEN [ok |-> TRUE, legacy |-> FALSE] ELSE Pending
  <2>1. HonestUpTo(lines, 0) /\ Passed(lines, 0, prevHash, sawHashed, sawLegacy)
    BY <1>1 DEF HonestUpTo, Passed, BuildsOn
  <2>2. CASE lines = << >>
    <3>1. Honest(lines)
      BY <2>2 DEF Honest
    <3>2. Judged(lines, 0, [ok |-> TRUE, legacy |-> FALSE])
      BY <2>2, <3>1 DEF Judged, Pending
    <3> QED
      BY <1>1, <1>2, <2>1, <2>2, <3>2
  <2>3. CASE lines # << >>
    <3>1. Judged(lines, 0, Pending)
      BY DEF Judged, Pending
    <3> QED
      BY <1>1, <1>2, <2>1, <2>3, <3>1
  <2> QED
    BY <2>2, <2>3
<1>3. CASE UNCHANGED at /\ result' = [ok |-> FALSE, brokenAt |-> -1]
  <2>1. Judged(lines, -1, Unread)
    BY DEF Judged, Unread, Pending
  <2> QED
    BY <1>1, <1>3, <2>1 DEF Unread
<1> QED
  BY <1>2, <1>3 DEF ReadFile

\* One iteration of the loop: the line has no hashes, continues the chain, or is
\* the first one that does not.
LEMMA CheckLineInv ==
  ASSUME VerifyInv, CheckLine
  PROVE  VerifyInv'
<1> DEFINE parsed == lines[at + 1]
<1>1. /\ lines \in Seq(VerifyLine) /\ lines' = lines
      /\ at \in 0 .. Len(lines) - 1 /\ at \in Nat /\ at + 1 \in 1 .. Len(lines)
      /\ at + 1 \in DOMAIN lines /\ parsed \in VerifyLine
      /\ result = Pending /\ HonestUpTo(lines, at)
      /\ Passed(lines, at, prevHash, sawHashed, sawLegacy)
      /\ sawHashed \in BOOLEAN /\ sawLegacy \in BOOLEAN
  BY DEF VerifyInv, CheckLine
<1>2. 1 .. at + 1 = (1 .. at) \cup {at + 1} /\ at + 1 >= 0 /\ at + 1 # -1 /\ at # -1 /\ at >= 0
  BY <1>1
<1>3. Judged(lines, at + 1, Pending) /\ at + 1 \in -1 .. Len(lines)
  BY <1>1 DEF Judged, Pending
<1>4. ASSUME ~HonestUpTo(lines, at + 1), result' = Broken, at' = at,
             sawHashed' \in BOOLEAN, sawLegacy' \in BOOLEAN
      PROVE  VerifyInv'
  <2>1. parsed.kind # "legacy"
    BY <1>1, <1>4, HonestNext
  <2>2. ~AllLegacy(lines)
    BY <1>1, <2>1 DEF AllLegacy
  <2>3. ~Honest(lines)
    <3> SUFFICES ASSUME Honest(lines) PROVE FALSE
      OBVIOUS
    <3>1. HonestUpTo(lines, Len(lines))
      <4>1. \A k \in DOMAIN lines : lines[k].kind = "event"
        BY DEF Honest
      <4> QED
        BY <1>1, <4>1, HonestAtEnd
    <3>2. 1 .. at + 1 \subseteq 1 .. Len(lines)
      BY <1>1
    <3> QED
      BY <1>4, <3>1, <3>2 DEF HonestUpTo
  <2>4. Broken # Pending /\ ~Broken.ok /\ Broken.brokenAt = at
    BY <1>1 DEF Broken, Pending
  <2>5. Judged(lines, at, Broken)
    BY <1>1, <1>4, <2>2, <2>3, <2>4 DEF Judged
  <2> QED
    BY <1>1, <1>2, <1>4, <2>4, <2>5 DEF VerifyInv
<1>5. CASE /\ parsed.kind = "legacy"
           /\ sawLegacy' = TRUE
           /\ at' = at + 1
           /\ UNCHANGED <<prevHash, sawHashed, result>>
  <2>1. HonestUpTo(lines, at + 1)
    BY <1>1, <1>5, HonestNext
  <2>2. BuildsOn(lines, at + 1 + 1, prevHash)
    BY <1>1, <1>5, BuildsOnNext DEF Passed
  <2>3. Passed(lines, at + 1, prevHash, sawHashed, TRUE)
    BY <1>1, <1>2, <1>5, <2>2 DEF Passed
  <2> QED
    BY <1>1, <1>2, <1>3, <1>5, <2>1, <2>3, Zenon DEF VerifyInv
<1>6. CASE /\ parsed.kind \in {"junk", "half"}
           /\ result' = Broken
           /\ UNCHANGED <<at, prevHash, sawHashed, sawLegacy>>
  <2>1. ~HonestUpTo(lines, at + 1)
    BY <1>1, <1>6, HonestNext
  <2> QED
    BY <1>1, <1>4, <1>6, <2>1
<1>7. CASE /\ parsed.kind = "event"
           /\ sawHashed' = TRUE
           /\ UNCHANGED sawLegacy
           /\ Links(parsed)
           /\ prevHash' = parsed.hash /\ at' = at + 1 /\ UNCHANGED result
  <2>1. parsed.prev_hash = prevHash /\ parsed = Sealed(parsed.prev_hash, parsed.event)
    BY <1>1, <1>7, SealedLine DEF Links
  <2>2. BuildsOn(lines, at + 1, parsed.prev_hash)
    BY <1>1, <2>1 DEF Passed
  <2>3. HonestUpTo(lines, at + 1)
    BY <1>1, <1>7, <2>1, <2>2, HonestNext
  <2>4. BuildsOn(lines, at + 1 + 1, parsed.hash)
    BY <1>1, <1>7, BuildsOnNext
  <2>5. Passed(lines, at + 1, parsed.hash, TRUE, sawLegacy)
    BY <1>1, <1>2, <1>7, <2>4 DEF Passed
  <2> QED
    BY <1>1, <1>2, <1>3, <1>7, <2>3, <2>5, Zenon DEF VerifyInv
<1>8. CASE /\ parsed.kind = "event"
           /\ sawHashed' = TRUE
           /\ UNCHANGED sawLegacy
           /\ ~Links(parsed)
           /\ result' = Broken /\ UNCHANGED <<at, prevHash>>
  <2>1. ASSUME HonestUpTo(lines, at + 1) PROVE FALSE
    <3>1. parsed = Sealed(parsed.prev_hash, parsed.event) /\ BuildsOn(lines, at + 1, parsed.prev_hash)
      BY <1>1, <1>8, <2>1, HonestNext
    <3>2. BuildsOn(lines, at + 1, prevHash)
      BY <1>1 DEF Passed
    <3>3. parsed.prev_hash = prevHash
      BY <1>1, <3>1, <3>2, BuildsOnOne
    <3> QED
      BY <1>1, <1>8, <3>1, <3>3, SealedLine DEF Links
  <2> QED
    BY <1>1, <1>4, <1>8, <2>1
<1> QED
  BY <1>5, <1>6, <1>7, <1>8 DEF CheckLine

\* The end of the loop.
LEMMA ConcludeInv ==
  ASSUME VerifyInv, Conclude
  PROVE  VerifyInv'
<1>1. /\ lines \in Seq(VerifyLine) /\ at = Len(lines) /\ at \in Nat /\ at >= 0 /\ at # -1
      /\ HonestUpTo(lines, Len(lines)) /\ DOMAIN lines = 1 .. Len(lines)
      /\ Passed(lines, Len(lines), prevHash, sawHashed, sawLegacy)
      /\ sawHashed \in BOOLEAN /\ sawLegacy \in BOOLEAN
      /\ UNCHANGED <<lines, edits, at, prevHash, sawHashed, sawLegacy>>
  BY DEF VerifyInv, Conclude
<1>2. /\ sawLegacy <=> \E k \in DOMAIN lines : lines[k].kind = "legacy"
      /\ sawHashed <=> \E k \in DOMAIN lines : lines[k].kind = "event"
      /\ \A k \in DOMAIN lines : lines[k].kind \in {"legacy", "event"}
  BY <1>1 DEF Passed, HonestUpTo
<1>3. ASSUME Judged(lines, at, result'), result' # Pending
      PROVE  VerifyInv'
  BY <1>1, <1>3 DEF VerifyInv
<1>4. CASE sawLegacy /\ sawHashed
  <2>1. ~Honest(lines) /\ ~AllLegacy(lines)
    BY <1>2, <1>4 DEF Honest, AllLegacy
  <2>2. result' = Unread
    BY <1>4 DEF Conclude, Unread
  <2>3. Unread # Pending /\ ~Unread.ok /\ ~(Unread.brokenAt >= 0)
    BY DEF Unread, Pending
  <2> QED
    BY <1>3, <2>1, <2>2, <2>3 DEF Judged
<1>5. CASE ~(sawLegacy /\ sawHashed)
  <2> DEFINE r == [ok |-> TRUE, legacy |-> sawLegacy /\ ~sawHashed]
  <2>1. result' = r
    BY <1>5 DEF Conclude
  <2>2. r.ok /\ r # Pending /\ r.legacy = (sawLegacy /\ ~sawHashed)
    BY DEF Pending
  <2>3. Honest(lines) \/ AllLegacy(lines)
    <3>1. CASE ~sawLegacy
      <4>1. \A k \in DOMAIN lines : lines[k].kind = "event"
        BY <1>2, <3>1
      <4> QED
        BY <1>1, <4>1, HonestAtEnd
    <3>2. CASE ~sawHashed
      BY <1>2, <3>2 DEF AllLegacy
    <3> QED
      BY <1>5, <3>1, <3>2
  <2>4. sawLegacy /\ ~sawHashed <=> lines # << >> /\ AllLegacy(lines)
    <3>1. (\E k \in DOMAIN lines : TRUE) <=> lines # << >>
      BY <1>1
    <3> QED
      BY <1>2, <3>1 DEF AllLegacy
  <2> QED
    BY <1>1, <1>3, <2>1, <2>2, <2>3, <2>4 DEF Judged
<1> QED
  BY <1>4, <1>5

\* verify() accepts the files whose lines are all sealed each on the one before,
\* those without any hashes, and no other, and names the first line that breaks
\* the chain, for files of any length and any edits of them.
THEOREM VerifyExact == VerifySpec => []AcceptsExactlyHonest
<1>1. VerifyInv /\ [VerifyNext]_verifyVars => VerifyInv'
  <2> SUFFICES ASSUME VerifyInv, [VerifyNext]_verifyVars PROVE VerifyInv'
    OBVIOUS
  <2>1. CASE Tamper
    <3>1. /\ lines' \in Seq(VerifyLine) /\ at' = -1 /\ result' = Pending
          /\ prevHash' = GENESIS_PREV_HASH /\ ~sawHashed' /\ ~sawLegacy'
          /\ sawHashed' \in BOOLEAN /\ sawLegacy' \in BOOLEAN
      BY <2>1, TamperType DEF VerifyInv, Tamper
    <3>2. -1 \in -1 .. Len(lines') /\ ~(-1 >= 0)
      BY <3>1
    <3>3. Judged(lines', -1, Pending)
      BY DEF Judged, Pending
    <3> QED
      BY <3>1, <3>2, <3>3 DEF VerifyInv
  <2>2. CASE UNCHANGED verifyVars
    BY <2>2 DEF verifyVars, VerifyInv
  <2> QED
    BY <2>1, <2>2, ReadFileInv, CheckLineInv, ConcludeInv DEF VerifyNext
<1>2. VerifyInv => AcceptsExactlyHonest
  BY DEF VerifyInv, Judged, AcceptsExactlyHonest
<1> QED
  BY <1>1, <1>2, VerifyInitInv, PTL DEF VerifySpec
=============================================================================
