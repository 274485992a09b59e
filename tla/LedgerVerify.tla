----------------------------- MODULE LedgerVerify -----------------------------
(***************************************************************************)
(* EventLedger.verify of src/core/ledger.ts: the loop over the lines of a  *)
(* file, run on honest files and on files that were tampered with, against *)
(* a definition of which files are honest that mentions no loop.           *)
(***************************************************************************)
EXTENDS LedgerHash, Integers, SequencesExt

CONSTANTS
  MaxLines,  \* length of the longest honest file
  MaxEdits   \* how many edits a tampered file is away from an honest one

ASSUME VerifyAssumption == MaxLines \in Nat /\ MaxEdits \in Nat

VARIABLES
  lines,      \* the lines being verified
  edits,      \* edits made to the file before verify() read it
  at,         \* the index i of the loop, from zero; -1 before the file is read
  prevHash,
  sawHashed,
  sawLegacy,
  result      \* the VerifyResult, or Pending

verifyVars == <<lines, edits, at, prevHash, sawHashed, sawLegacy, result>>

Pending == [ok |-> FALSE, brokenAt |-> -2]

\* The honest file with the events 1 .. n.
Chain(n) == [k \in 1 .. n |-> Sealed([j \in 1 .. k - 1 |-> j], k)]

VerifyInit ==
  /\ lines \in {Chain(n) : n \in 0 .. MaxLines} \cup {[k \in 1 .. n |-> Legacy] : n \in 1 .. 2}
  /\ edits = 0
  /\ at = -1
  /\ prevHash = GENESIS_PREV_HASH
  /\ sawHashed = FALSE
  /\ sawLegacy = FALSE
  /\ result = Pending

\* Somebody edits the file before it is verified: removes, repeats, moves or
\* spoils a line, changes an event without or with a new hash for its line, or
\* adds a line.
Tamper ==
  /\ at = -1 /\ result = Pending
  /\ edits < MaxEdits
  /\ edits' = edits + 1
  /\ \/ \E k \in DOMAIN lines :
          \/ lines' = RemoveAt(lines, k)
          \/ lines' = InsertAt(lines, k, lines[k])
          \/ \E j \in DOMAIN lines :
               j # k /\ lines' = [lines EXCEPT ![k] = lines[j], ![j] = lines[k]]
          \/ \E l \in {Junk, Half, Legacy} : lines' = [lines EXCEPT ![k] = l]
          \/ /\ lines[k].kind = "event"
             /\ \/ lines' = [lines EXCEPT ![k].event = 0]
                \/ lines' = [lines EXCEPT ![k] = Sealed(lines[k].prev_hash, 0)]
     \/ \E l \in {Junk, Half, Legacy, Sealed(GENESIS_PREV_HASH, 0)} : lines' = Append(lines, l)
  /\ UNCHANGED <<at, prevHash, sawHashed, sawLegacy, result>>

\* verify() reads the file, which may fail; an empty one is fine.
ReadFile ==
  /\ at = -1 /\ result = Pending
  /\ \/ at' = 0 /\ result' = IF lines = << >> THEN [ok |-> TRUE, legacy |-> FALSE] ELSE Pending
     \/ UNCHANGED at /\ result' = [ok |-> FALSE, brokenAt |-> -1]
  /\ UNCHANGED <<lines, edits, prevHash, sawHashed, sawLegacy>>

\* Mutant: the line is counted from one.
BrokenFromOne == [ok |-> FALSE, brokenAt |-> at + 1]
Broken == [ok |-> FALSE, brokenAt |-> at]

Links(parsed) == /\ parsed.prev_hash = prevHash
                 /\ parsed.hash = hashEvent(parsed.prev_hash, parsed.event)

\* One iteration.
CheckLine ==
  /\ at \in 0 .. Len(lines) - 1
  /\ result = Pending
  /\ LET parsed == lines[at + 1] IN
     \/ /\ parsed.kind = "legacy"
        /\ sawLegacy' = TRUE
        /\ at' = at + 1
        /\ UNCHANGED <<prevHash, sawHashed, result>>
     \/ /\ parsed.kind \in {"junk", "half"}
        /\ result' = Broken
        /\ UNCHANGED <<at, prevHash, sawHashed, sawLegacy>>
     \/ /\ parsed.kind = "event"
        /\ sawHashed' = TRUE
        /\ UNCHANGED sawLegacy
        /\ IF Links(parsed)
           THEN prevHash' = parsed.hash /\ at' = at + 1 /\ UNCHANGED result
           ELSE result' = Broken /\ UNCHANGED <<at, prevHash>>
  /\ UNCHANGED <<lines, edits>>

\* After the loop.
Conclude ==
  /\ at = Len(lines)
  /\ result = Pending
  /\ result' = IF sawLegacy /\ sawHashed THEN [ok |-> FALSE, brokenAt |-> -1]
               ELSE [ok |-> TRUE, legacy |-> sawLegacy /\ ~sawHashed]
  /\ UNCHANGED <<lines, edits, at, prevHash, sawHashed, sawLegacy>>

VerifyNext == Tamper \/ ReadFile \/ CheckLine \/ Conclude

VerifySpec == VerifyInit /\ [][VerifyNext]_verifyVars

-----------------------------------------------------------------------------
\* A file is honest when its lines are all sealed, each on top of the one before.
Honest(f) ==
  \A k \in DOMAIN f :
    /\ f[k].kind = "event"
    /\ f[k] = Sealed(IF k = 1 THEN GENESIS_PREV_HASH ELSE f[k - 1].hash, f[k].event)

AllLegacy(f) == \A k \in DOMAIN f : f[k].kind = "legacy"

\* h is the hash of the last hashed line before line k, or the genesis value.
BuildsOn(f, k, h) ==
  \/ h = GENESIS_PREV_HASH /\ \A m \in 1 .. k - 1 : f[m].kind # "event"
  \/ \E j \in 1 .. k - 1 :
       /\ f[j].kind = "event" /\ h = f[j].hash
       /\ \A m \in j + 1 .. k - 1 : f[m].kind # "event"

\* Up to line n, f is an honest file but for its unhashed lines.
HonestUpTo(f, n) ==
  \A k \in 1 .. n :
    f[k].kind # "legacy" =>
      /\ f[k].kind = "event"
      /\ f[k] = Sealed(f[k].prev_hash, f[k].event)
      /\ BuildsOn(f, k, f[k].prev_hash)

\* verify() accepts exactly the honest files and the files that carry no hashes
\* at all: every edit in the middle of a chain is noticed, and a file it cannot
\* read is not accepted.  A line it reports is the first one at which the hashed
\* lines stop being a chain.  An accepted file is called legacy when it has lines
\* and none of them is hashed.
AcceptsExactlyHonest ==
  /\ result # Pending =>
       (result.ok <=> at >= 0 /\ (Honest(lines) \/ AllLegacy(lines)))
  /\ result.ok => (result.legacy <=> lines # << >> /\ AllLegacy(lines))
  /\ ~result.ok /\ result.brokenAt >= 0 =>
       HonestUpTo(lines, result.brokenAt) /\ ~HonestUpTo(lines, result.brokenAt + 1)

=============================================================================
