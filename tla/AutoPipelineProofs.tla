------------------------- MODULE AutoPipelineProofs -------------------------
(***************************************************************************)
(* Theorems about AutoPipeline and the components it is composed of, for   *)
(* any replies of the model, any stored states and any number of lanes and *)
(* failing appends.                                                        *)
(***************************************************************************)
EXTENDS AutoPipeline, TLAPS, FiniteSetTheorems, WellFoundedInduction

-----------------------------------------------------------------------------
(***************************************************************************)
(* detectCycle, as facts about a reply r, the set v of visited tasks and   *)
(* the recursion stack f.                                                  *)
(***************************************************************************)
Task  == [id : Id, deps : Seq(Id)]
Frame == [id : Id, at : Nat]

IdsOf(r) == {r[i].id : i \in DOMAIN r}

\* Every dependency names a task of the reply.
Closed(r) == \A i \in DOMAIN r : \A j \in DOMAIN r[i].deps : r[i].deps[j] \in IdsOf(r)

\* The dependencies detectCycle follows from a task, in order and as a set.
DepsIn(r, t) ==
  r[CHOOSE i \in DOMAIN r : r[i].id = t /\ \A j \in DOMAIN r : r[j].id = t => j <= i].deps
Adj(r, t) == {DepsIn(r, t)[m] : m \in DOMAIN DepsIn(r, t)}

IdsOn(f) == {f[k].id : k \in DOMAIN f}

\* Tasks whose call of dfs has returned.
Finished(v, f) == v \ IdsOn(f)

\* The recursion stack is a path of the graph without repetition, and every
\* dependency that a call of dfs has behind it is finished, but for the one it
\* is waiting for.
Stack(r, v, f) ==
  /\ v \subseteq IdsOf(r)
  /\ \A k \in DOMAIN f : f[k].id \in v
  /\ \A k \in DOMAIN f : 1 <= f[k].at /\ f[k].at <= Len(DepsIn(r, f[k].id)) + 1
  /\ \A j, k \in DOMAIN f : f[j].id = f[k].id => j = k
  /\ \A k \in DOMAIN f : k < Len(f) => f[k + 1].id \in Adj(r, f[k].id)
  /\ \A k \in DOMAIN f : \A m \in DOMAIN DepsIn(r, f[k].id) : m < f[k].at =>
       \/ DepsIn(r, f[k].id)[m] \in Finished(v, f)
       \/ k < Len(f) /\ DepsIn(r, f[k].id)[m] = f[k + 1].id

\* A set of tasks that is closed under dependencies and has no cycle.
Sorted(r, F) ==
  /\ \A s \in F : Adj(r, s) \subseteq F
  /\ \A S \in SUBSET F : S # {} => \E s \in S : Adj(r, s) \cap S = {}

\* A nonempty set of positions has a greatest and a least one.
LEMMA LastPosition ==
  ASSUME NEW n \in Nat, NEW S \in SUBSET (1 .. n), S # {}
  PROVE  \E i \in S : \A j \in S : j <= i
<1> DEFINE Gap == {n - i : i \in S}
<1>1. Gap \subseteq Nat /\ Gap # {}
  <2>1. \A i \in S : n - i \in Nat
    OBVIOUS
  <2> QED
    BY <2>1
<1>2. PICK x \in Gap : \A y \in Gap : ~(<<y, x>> \in OpToRel(<, Nat))
  <2> HIDE DEF Gap
  <2> QED
    BY <1>1, NatLessThanWellFounded, WFMin
<1>3. \A y \in Nat : y < x => <<y, x>> \in OpToRel(<, Nat)
  BY <1>1 DEF OpToRel
<1>4. \A y \in Gap : ~(y < x)
  BY <1>1, <1>2, <1>3
<1>5. PICK i \in S : x = n - i
  BY <1>2
<1>6. \A j \in S : ~(n - j < n - i)
  BY <1>4, <1>5
<1> QED
  BY <1>5, <1>6

LEMMA FirstPosition ==
  ASSUME NEW S \in SUBSET Nat, S # {}
  PROVE  \E i \in S : \A j \in S : i <= j
<1>1. PICK i \in S : \A j \in S : ~(<<j, i>> \in OpToRel(<, Nat))
  BY NatLessThanWellFounded, WFMin
<1>2. \A j \in Nat : j < i => <<j, i>> \in OpToRel(<, Nat)
  BY DEF OpToRel
<1>3. \A j \in S : ~(j < i)
  BY <1>1, <1>2
<1>4. \A j \in S : i <= j
  <2> SUFFICES ASSUME NEW j \in S PROVE i <= j
    OBVIOUS
  <2>1. i \in Nat /\ j \in Nat /\ ~(j < i)
    BY <1>3
  <2> QED
    BY <2>1
<1> QED
  BY <1>4

\* What the map of detectCycle holds for an identifier: the dependencies of one
\* of the tasks that have it, all of them tasks of the reply.
LEMMA DepsShape ==
  ASSUME NEW r \in Seq(Task), Closed(r), NEW t \in IdsOf(r)
  PROVE  /\ \E i \in DOMAIN r : r[i].id = t /\ DepsIn(r, t) = r[i].deps
         /\ DepsIn(r, t) \in Seq(Id)
         /\ Adj(r, t) \subseteq IdsOf(r)
<1> DEFINE S == {i \in DOMAIN r : r[i].id = t}
<1>1. S # {} /\ S \in SUBSET (1 .. Len(r)) /\ Len(r) \in Nat
  BY DEF IdsOf
<1>2. \E i \in S : \A j \in S : j <= i
  BY <1>1, LastPosition
<1> DEFINE l == CHOOSE i \in DOMAIN r :
                  r[i].id = t /\ \A j \in DOMAIN r : r[j].id = t => j <= i
<1>3. l \in DOMAIN r /\ r[l].id = t
  BY <1>2
<1>4. DepsIn(r, t) = r[l].deps
  BY DEF DepsIn
<1> HIDE DEF l
<1>5. r[l] \in Task
  BY <1>3
<1>6. r[l].deps \in Seq(Id)
  BY <1>5 DEF Task
<1> QED
  BY <1>3, <1>4, <1>6 DEF Adj, Closed

LEMMA IdsAreIds ==
  ASSUME NEW r \in Seq(Task)
  PROVE  IdsOf(r) \subseteq Id
<1>1. \A i \in DOMAIN r : r[i] \in Task
  OBVIOUS
<1> QED
  BY <1>1 DEF IdsOf, Task

\* A finished task with all its dependencies finished joins the others.
LEMMA SortedGrows ==
  ASSUME NEW r, NEW F, NEW t, Sorted(r, F), t \notin F, Adj(r, t) \subseteq F
  PROVE  Sorted(r, F \cup {t})
<1>1. \A s \in F \cup {t} : Adj(r, s) \subseteq F \cup {t}
  BY DEF Sorted
<1>2. ASSUME NEW S \in SUBSET (F \cup {t}), S # {}
      PROVE  \E s \in S : Adj(r, s) \cap S = {}
  <2>1. CASE S \cap F = {}
    <3>1. t \in S /\ S \subseteq {t}
      BY <1>2, <2>1
    <3> QED
      BY <3>1
  <2>2. CASE S \cap F # {}
    <3>1. PICK s \in S \cap F : Adj(r, s) \cap (S \cap F) = {}
      BY <2>2 DEF Sorted
    <3>2. Adj(r, s) \subseteq F
      BY <3>1 DEF Sorted
    <3> QED
      BY <3>1, <3>2
  <2> QED
    BY <2>1, <2>2
<1> QED
  BY <1>1, <1>2 DEF Sorted

\* dfs is called for a task that was not visited, with an empty stack.
LEMMA RootStack ==
  ASSUME NEW r \in Seq(Task), Closed(r), NEW v, NEW t \in IdsOf(r), t \notin v,
         Stack(r, v, << >>), NEW f, f = << [id |-> t, at |-> 1] >>
  PROVE  /\ Stack(r, v \cup {t}, f)
         /\ Finished(v \cup {t}, f) = Finished(v, << >>)
<1>1. /\ DOMAIN f = {1} /\ Len(f) = 1 /\ f[1].id = t /\ f[1].at = 1
  OBVIOUS
<1>2. Finished(v \cup {t}, f) = Finished(v, << >>)
  BY <1>1 DEF Finished, IdsOn
<1>3. Len(DepsIn(r, t)) \in Nat /\ DOMAIN DepsIn(r, t) = 1 .. Len(DepsIn(r, t))
  BY DepsShape
<1>4. v \cup {t} \subseteq IdsOf(r)
  BY DEF Stack
<1> HIDE DEF Task
<1> QED
  BY <1>1, <1>2, <1>3, <1>4 DEF Stack

\* g is f after the loop of the innermost call has taken its next dependency.
Advanced(f, g) ==
  /\ g \in Seq(Frame) /\ Len(g) = Len(f)
  /\ \A k \in 1 .. Len(f) : /\ g[k].id = f[k].id
                            /\ g[k].at = IF k = Len(f) THEN f[k].at + 1 ELSE f[k].at

LEMMA Advance ==
  ASSUME NEW f \in Seq(Frame), f # << >>
  PROVE  Advanced(f, [f EXCEPT ![Len(f)].at = @ + 1])
<1> DEFINE n == Len(f)
           g == [f EXCEPT ![n] = [f[n] EXCEPT !.at = f[n].at + 1]]
<1>1. n \in Nat /\ n \in 1 .. n /\ DOMAIN f = 1 .. n
  OBVIOUS
<1>2. f[n] \in Frame
  BY <1>1
<1>3. /\ [f[n] EXCEPT !.at = f[n].at + 1] \in Frame
      /\ [f[n] EXCEPT !.at = f[n].at + 1].id = f[n].id
      /\ [f[n] EXCEPT !.at = f[n].at + 1].at = f[n].at + 1
  BY <1>2 DEF Frame
<1> DEFINE e == [f[n] EXCEPT !.at = f[n].at + 1]
<1> HIDE DEF e
<1>4. [f EXCEPT ![n] = e] \in Seq(Frame) /\ Len([f EXCEPT ![n] = e]) = n
  BY <1>1, <1>3 DEF e
<1>5. \A k \in 1 .. n : [f EXCEPT ![n] = e][k] = IF k = n THEN e ELSE f[k]
  BY <1>1
<1>6. g = [f EXCEPT ![n] = e]
  BY DEF e
<1>7. [f EXCEPT ![Len(f)].at = @ + 1] = g
  OBVIOUS
<1>8. e.id = f[n].id /\ e.at = f[n].at + 1
  BY <1>3 DEF e
<1> QED
  BY <1>4, <1>5, <1>6, <1>7, <1>8 DEF Advanced

\* What is known of the innermost call with a dependency left, or without one.
LEMMA TopShape ==
  ASSUME NEW r \in Seq(Task), Closed(r), NEW v, NEW f \in Seq(Frame), f # << >>,
         Stack(r, v, f)
  PROVE  /\ Len(f) \in Nat /\ Len(f) >= 1 /\ DOMAIN f = 1 .. Len(f)
         /\ \A k \in DOMAIN f : /\ f[k].at \in Nat
                                /\ f[k].id \in IdsOf(r)
                                /\ Len(DepsIn(r, f[k].id)) \in Nat
                                /\ DOMAIN DepsIn(r, f[k].id) = 1 .. Len(DepsIn(r, f[k].id))
<1>1. Len(f) \in Nat /\ Len(f) >= 1 /\ DOMAIN f = 1 .. Len(f)
  OBVIOUS
<1>2. \A k \in DOMAIN f : f[k] \in Frame
  OBVIOUS
<1>3. \A k \in DOMAIN f : f[k].at \in Nat
  BY <1>2 DEF Frame
<1>4. \A k \in DOMAIN f : f[k].id \in IdsOf(r)
  BY DEF Stack
<1>5. \A k \in DOMAIN f : DepsIn(r, f[k].id) \in Seq(Id)
  BY <1>4, DepsShape
<1>6. \A q \in Seq(Id) : Len(q) \in Nat /\ DOMAIN q = 1 .. Len(q)
  OBVIOUS
<1> QED
  BY <1>1, <1>3, <1>4, <1>5, <1>6

\* A dependency that is finished already is passed over.
LEMMA SkipStack ==
  ASSUME NEW r \in Seq(Task), Closed(r), NEW v, NEW f \in Seq(Frame), f # << >>,
         Stack(r, v, f), NEW g, Advanced(f, g),
         f[Len(f)].at <= Len(DepsIn(r, f[Len(f)].id)),
         DepsIn(r, f[Len(f)].id)[f[Len(f)].at] \in Finished(v, f)
  PROVE  Stack(r, v, g) /\ Finished(v, g) = Finished(v, f)
<1> DEFINE n == Len(f)
<1>1. /\ n \in Nat /\ n >= 1 /\ DOMAIN f = 1 .. n
      /\ \A k \in DOMAIN f : /\ f[k].at \in Nat
                             /\ Len(DepsIn(r, f[k].id)) \in Nat
                             /\ DOMAIN DepsIn(r, f[k].id) = 1 .. Len(DepsIn(r, f[k].id))
  BY TopShape
<1>2. DOMAIN g = DOMAIN f /\ Len(g) = n
  BY <1>1 DEF Advanced
<1>3. /\ \A k \in DOMAIN f : g[k].id = f[k].id
      /\ \A k \in DOMAIN f : k # n => g[k].at = f[k].at
      /\ n \in DOMAIN f /\ g[n].at = f[n].at + 1
  BY <1>1 DEF Advanced
<1>4. IdsOn(g) = IdsOn(f)
  BY <1>2, <1>3 DEF IdsOn
<1>5. Finished(v, g) = Finished(v, f)
  BY <1>4 DEF Finished
<1>6. \A k \in DOMAIN g : 1 <= g[k].at /\ g[k].at <= Len(DepsIn(r, g[k].id)) + 1
  BY <1>1, <1>2, <1>3 DEF Stack
<1>7. ASSUME NEW k \in DOMAIN g, NEW m \in DOMAIN DepsIn(r, g[k].id), m < g[k].at
      PROVE  \/ DepsIn(r, g[k].id)[m] \in Finished(v, g)
             \/ k < Len(g) /\ DepsIn(r, g[k].id)[m] = g[k + 1].id
  <2>1. CASE k = n
    <3>1. g[k].id = f[n].id /\ m \in Nat /\ (m < f[n].at \/ m = f[n].at)
      BY <1>1, <1>2, <1>3, <1>7, <2>1
    <3>2. CASE m = f[n].at
      BY <1>5, <3>1, <3>2
    <3>3. CASE m < f[n].at
      <4>1. DepsIn(r, f[n].id)[m] \in Finished(v, f)
        BY <1>1, <1>3, <1>7, <3>1, <3>3 DEF Stack
      <4> QED
        BY <1>5, <3>1, <4>1
    <3> QED
      BY <3>1, <3>2, <3>3
  <2>2. CASE k # n
    <3>1. k + 1 \in DOMAIN f /\ k < n
      BY <1>1, <1>2, <2>2
    <3>2. /\ g[k].id = f[k].id /\ g[k].at = f[k].at
          /\ g[k + 1].id = f[k + 1].id
      BY <1>2, <1>3, <2>2, <3>1
    <3>3. \/ DepsIn(r, f[k].id)[m] \in Finished(v, f)
          \/ DepsIn(r, f[k].id)[m] = f[k + 1].id
      BY <1>2, <1>7, <3>2 DEF Stack
    <3> QED
      BY <1>2, <1>5, <3>1, <3>2, <3>3
  <2> QED
    BY <2>1, <2>2
<1>8. \A k \in DOMAIN g : k < Len(g) => g[k + 1].id \in Adj(r, g[k].id)
  <2>1. \A k \in DOMAIN f : k < n => k + 1 \in DOMAIN f
    BY <1>1
  <2> QED
    BY <1>2, <1>3, <2>1 DEF Stack
<1>9. /\ \A k \in DOMAIN g : g[k].id \in v
      /\ \A j, k \in DOMAIN g : g[j].id = g[k].id => j = k
      /\ v \subseteq IdsOf(r)
  BY <1>2, <1>3 DEF Stack
<1> QED
  BY <1>5, <1>6, <1>7, <1>8, <1>9 DEF Stack

\* A dependency that was not visited gets a call of dfs of its own.
LEMMA PushStack ==
  ASSUME NEW r \in Seq(Task), Closed(r), NEW v, NEW f \in Seq(Frame), f # << >>,
         Stack(r, v, f), NEW g, Advanced(f, g), NEW d, d \notin v,
         f[Len(f)].at <= Len(DepsIn(r, f[Len(f)].id)),
         d = DepsIn(r, f[Len(f)].id)[f[Len(f)].at]
  PROVE  LET h == Append(g, [id |-> d, at |-> 1])
         IN  Stack(r, v \cup {d}, h) /\ Finished(v \cup {d}, h) = Finished(v, f)
<1> DEFINE n == Len(f)
           h == Append(g, [id |-> d, at |-> 1])
           w == v \cup {d}
<1>1. /\ n \in Nat /\ n >= 1 /\ DOMAIN f = 1 .. n
      /\ \A k \in DOMAIN f : /\ f[k].at \in Nat
                             /\ f[k].id \in IdsOf(r)
                             /\ Len(DepsIn(r, f[k].id)) \in Nat
                             /\ DOMAIN DepsIn(r, f[k].id) = 1 .. Len(DepsIn(r, f[k].id))
  BY TopShape
<1>2. g \in Seq(Frame) /\ Len(g) = n
  BY <1>1 DEF Advanced
<1>3. /\ DOMAIN h = DOMAIN f \cup {n + 1} /\ Len(h) = n + 1
      /\ h[n + 1].id = d /\ h[n + 1].at = 1
      /\ \A k \in DOMAIN f : h[k] = g[k]
  <2>1. Len(h) = n + 1 /\ DOMAIN h = 1 .. n + 1
    BY <1>1, <1>2
  <2>2. h[n + 1] = [id |-> d, at |-> 1] /\ \A k \in 1 .. n : h[k] = g[k]
    BY <1>1, <1>2
  <2> QED
    BY <1>1, <2>1, <2>2
<1>4. /\ \A k \in DOMAIN f : h[k].id = f[k].id
      /\ \A k \in DOMAIN f : k # n => h[k].at = f[k].at
      /\ n \in DOMAIN f /\ h[n].at = f[n].at + 1
  BY <1>1, <1>3 DEF Advanced
<1> HIDE DEF h
<1>0. /\ n = Len(f)
      /\ f[n].at <= Len(DepsIn(r, f[n].id))
      /\ d = DepsIn(r, f[n].id)[f[n].at]
  OBVIOUS
<1> HIDE DEF n
<1>5. n + 1 \notin DOMAIN f /\ \A k \in DOMAIN f : k < n => k + 1 \in DOMAIN f
  BY <1>1
<1>6. d \in Adj(r, f[n].id)
  <2>1. f[n].at \in DOMAIN DepsIn(r, f[n].id)
    BY <1>0, <1>1, <1>4 DEF Stack
  <2> QED
    BY <1>0, <2>1 DEF Adj
<1>7. d \in IdsOf(r) /\ Len(DepsIn(r, d)) \in Nat
  <2>1. d \in IdsOf(r)
    BY <1>1, <1>4, <1>6, DepsShape
  <2> QED
    BY <2>1, DepsShape
<1>8. IdsOn(h) = IdsOn(f) \cup {d}
  <2>1. ASSUME NEW x \in IdsOn(h) PROVE x \in IdsOn(f) \cup {d}
    <3>1. PICK k \in DOMAIN h : x = h[k].id
      BY <2>1 DEF IdsOn
    <3>2. CASE k \in DOMAIN f
      BY <1>4, <3>1, <3>2 DEF IdsOn
    <3>3. CASE k = n + 1
      BY <1>3, <3>1, <3>3
    <3> QED
      BY <1>3, <3>2, <3>3
  <2>2. ASSUME NEW x \in IdsOn(f) PROVE x \in IdsOn(h)
    <3>1. PICK k \in DOMAIN f : x = f[k].id
      BY <2>2 DEF IdsOn
    <3>2. k \in DOMAIN h /\ x = h[k].id
      BY <1>3, <1>4, <3>1
    <3> QED
      BY <3>2 DEF IdsOn
  <2>3. d \in IdsOn(h)
    <3>1. n + 1 \in DOMAIN h /\ d = h[n + 1].id
      BY <1>3
    <3> QED
      BY <3>1 DEF IdsOn
  <2> QED
    BY <2>1, <2>2, <2>3
<1>9. Finished(w, h) = Finished(v, f)
  BY <1>8 DEF Finished
<1>10. \A k \in DOMAIN h : 1 <= h[k].at /\ h[k].at <= Len(DepsIn(r, h[k].id)) + 1
  <2>1. ASSUME NEW k \in DOMAIN f
        PROVE  1 <= h[k].at /\ h[k].at <= Len(DepsIn(r, h[k].id)) + 1
    <3>1. 1 <= f[k].at /\ f[k].at <= Len(DepsIn(r, f[k].id)) + 1
      BY DEF Stack
    <3> QED
      BY <1>0, <1>1, <1>4, <3>1
  <2>2. 1 <= h[n + 1].at /\ h[n + 1].at <= Len(DepsIn(r, h[n + 1].id)) + 1
    <3>1. 1 <= 1 /\ 1 <= Len(DepsIn(r, d)) + 1
      BY <1>7
    <3> QED
      BY <1>3, <3>1, Zenon
  <2> QED
    BY <1>3, <2>1, <2>2
<1>11. \A k \in DOMAIN h : h[k].id \in w
  BY <1>3, <1>4 DEF Stack
<1>12. \A j, k \in DOMAIN h : h[j].id = h[k].id => j = k
  <2>1. \A k \in DOMAIN f : f[k].id # d
    BY DEF Stack
  <2> QED
    BY <1>3, <1>4, <2>1 DEF Stack
<1>13. \A k \in DOMAIN h : k < Len(h) => h[k + 1].id \in Adj(r, h[k].id)
  <2>1. ASSUME NEW k \in DOMAIN h, k < n + 1 PROVE h[k + 1].id \in Adj(r, h[k].id)
    <3>1. k \in DOMAIN f /\ (k = n \/ k < n)
      BY <1>1, <1>3, <2>1
    <3>2. CASE k = n
      BY <1>3, <1>4, <1>6, <3>2
    <3>3. CASE k < n
      BY <1>4, <1>5, <3>1, <3>3 DEF Stack
    <3> QED
      BY <3>1, <3>2, <3>3
  <2> QED
    BY <1>3, <2>1
<1>14. ASSUME NEW k \in DOMAIN h, NEW m \in DOMAIN DepsIn(r, h[k].id), m < h[k].at
       PROVE  \/ DepsIn(r, h[k].id)[m] \in Finished(w, h)
              \/ k < Len(h) /\ DepsIn(r, h[k].id)[m] = h[k + 1].id
  <2>1. CASE k = n + 1
    <3>1. m \in Nat /\ m >= 1
      <4>1. DepsIn(r, d) \in Seq(Id)
        BY <1>7, DepsShape
      <4> QED
        BY <1>3, <1>14, <2>1, <4>1
    <3> QED
      BY <1>3, <1>14, <2>1, <3>1
  <2>2. CASE k = n
    <3>1. m \in Nat /\ (m < f[n].at \/ m = f[n].at) /\ h[k].id = f[n].id
      BY <1>1, <1>4, <1>14, <2>2
    <3>2. CASE m = f[n].at
      <4>1. DepsIn(r, h[k].id)[m] = d /\ h[k + 1].id = d
        BY <1>0, <1>3, <2>2, <3>1, <3>2
      <4> QED
        BY <1>1, <1>3, <2>2, <4>1
    <3>3. CASE m < f[n].at
      <4>1. DepsIn(r, f[n].id)[m] \in Finished(v, f)
        BY <1>0, <1>1, <1>4, <1>14, <3>1, <3>3 DEF Stack
      <4> QED
        BY <1>9, <3>1, <4>1
    <3> QED
      BY <3>1, <3>2, <3>3
  <2>3. CASE k # n /\ k # n + 1
    <3>1. k \in DOMAIN f /\ k < n /\ k < n + 1 /\ k + 1 \in DOMAIN f
      BY <1>1, <1>3, <2>3
    <3>2. /\ h[k].id = f[k].id /\ h[k].at = f[k].at
          /\ h[k + 1].id = f[k + 1].id
      BY <1>4, <2>3, <3>1
    <3>3. \/ DepsIn(r, f[k].id)[m] \in Finished(v, f)
          \/ DepsIn(r, f[k].id)[m] = f[k + 1].id
      BY <1>14, <3>1, <3>2 DEF Stack
    <3> QED
      BY <1>3, <1>9, <3>1, <3>2, <3>3
  <2> QED
    BY <2>1, <2>2, <2>3
<1>15. w \subseteq IdsOf(r)
  BY <1>7 DEF Stack
<1>16. Stack(r, w, h)
  BY <1>10, <1>11, <1>12, <1>13, <1>14, <1>15 DEF Stack
<1> QED
  BY <1>9, <1>16 DEF h, n

\* A call without a dependency left returns, and its task is finished.
LEMMA ReturnStack ==
  ASSUME NEW r \in Seq(Task), Closed(r), NEW v, NEW f \in Seq(Frame), f # << >>,
         Stack(r, v, f), Sorted(r, Finished(v, f)),
         f[Len(f)].at > Len(DepsIn(r, f[Len(f)].id))
  PROVE  LET g == SubSeq(f, 1, Len(f) - 1)
         IN  Stack(r, v, g) /\ Sorted(r, Finished(v, g))
<1> DEFINE n == Len(f)
           g == SubSeq(f, 1, n - 1)
           t == f[n].id
<1>1. /\ n \in Nat /\ n >= 1 /\ DOMAIN f = 1 .. n
      /\ \A k \in DOMAIN f : /\ f[k].at \in Nat
                             /\ f[k].id \in IdsOf(r)
                             /\ Len(DepsIn(r, f[k].id)) \in Nat
                             /\ DOMAIN DepsIn(r, f[k].id) = 1 .. Len(DepsIn(r, f[k].id))
  BY TopShape
<1>2. DOMAIN g = 1 .. n - 1 /\ Len(g) = n - 1 /\ \A k \in 1 .. n - 1 : g[k] = f[k]
  BY <1>1
<1>3. /\ DOMAIN f = DOMAIN g \cup {n} /\ n \notin DOMAIN g
      /\ \A k \in DOMAIN g : k \in DOMAIN f /\ g[k] = f[k] /\ k < n
  BY <1>1, <1>2
<1> HIDE DEF g
<1>4. IdsOn(f) = IdsOn(g) \cup {t} /\ t \notin IdsOn(g) /\ t \in v
  <2>1. \A j \in DOMAIN g : f[j].id # t
    BY <1>3 DEF Stack
  <2>2. t \in v
    BY <1>3 DEF Stack
  <2>3. IdsOn(g) = {f[k].id : k \in DOMAIN g}
    BY <1>3 DEF IdsOn
  <2>4. IdsOn(f) = {f[k].id : k \in DOMAIN g \cup {n}}
    BY <1>3 DEF IdsOn
  <2> QED
    BY <2>1, <2>2, <2>3, <2>4
<1>5. Finished(v, g) = Finished(v, f) \cup {t} /\ t \notin Finished(v, f)
  BY <1>4 DEF Finished
<1>6. Adj(r, t) \subseteq Finished(v, f)
  <2>1. ASSUME NEW m \in DOMAIN DepsIn(r, t) PROVE DepsIn(r, t)[m] \in Finished(v, f)
    <3>1. n \in DOMAIN f /\ m < f[n].at /\ ~(n < Len(f))
      BY <1>1, <1>3, <2>1
    <3> QED
      BY <2>1, <3>1 DEF Stack
  <2> QED
    BY <2>1 DEF Adj
<1>7. Sorted(r, Finished(v, g))
  BY <1>5, <1>6, SortedGrows
<1>8. ASSUME NEW k \in DOMAIN g, NEW m \in DOMAIN DepsIn(r, g[k].id), m < g[k].at
      PROVE  \/ DepsIn(r, g[k].id)[m] \in Finished(v, g)
             \/ k < Len(g) /\ DepsIn(r, g[k].id)[m] = g[k + 1].id
  <2>1. \/ DepsIn(r, f[k].id)[m] \in Finished(v, f)
        \/ DepsIn(r, f[k].id)[m] = f[k + 1].id
    BY <1>3, <1>8 DEF Stack
  <2>2. CASE k + 1 = n
    BY <1>3, <1>5, <2>1, <2>2
  <2>3. CASE k + 1 # n
    <3>1. k < Len(g) /\ k + 1 \in DOMAIN g
      BY <1>1, <1>2, <2>3
    <3> QED
      BY <1>3, <1>5, <2>1, <3>1
  <2> QED
    BY <2>2, <2>3
<1>9. ASSUME NEW k \in DOMAIN g, k < Len(g) PROVE g[k + 1].id \in Adj(r, g[k].id)
  <2>1. k + 1 \in DOMAIN g
    BY <1>1, <1>2, <1>9
  <2> QED
    BY <1>3, <2>1 DEF Stack
<1>10. /\ v \subseteq IdsOf(r)
       /\ \A k \in DOMAIN g : g[k].id \in v
       /\ \A k \in DOMAIN g : 1 <= g[k].at /\ g[k].at <= Len(DepsIn(r, g[k].id)) + 1
       /\ \A j, k \in DOMAIN g : g[j].id = g[k].id => j = k
  BY <1>3 DEF Stack
<1>11. Stack(r, v, g)
  BY <1>8, <1>9, <1>10 DEF Stack
<1> QED
  BY <1>7, <1>11 DEF g

\* A path that ends where it began, along edges of the graph.
IsCyclePath(r, c) ==
  /\ Len(c) \in Nat /\ Len(c) >= 2
  /\ c[1] = c[Len(c)]
  /\ \A k \in 1 .. Len(c) - 1 : c[k] \in IdsOf(r) /\ c[k + 1] \in Adj(r, c[k])

\* The path that detectCycle returns: the stack from the task that was met again.
PathFrom(f, from, d) ==
  [k \in 1 .. Len(f) - from + 2 |->
     IF from + k - 1 <= Len(f) THEN f[from + k - 1].id ELSE d]

LEMMA CycleFound ==
  ASSUME NEW r \in Seq(Task), Closed(r), NEW v, NEW f \in Seq(Frame), f # << >>,
         Stack(r, v, f), NEW d, NEW from \in DOMAIN f, f[from].id = d,
         d \in Adj(r, f[Len(f)].id)
  PROVE  /\ PathFrom(f, from, d) \in Seq(Id)
         /\ IsCyclePath(r, PathFrom(f, from, d))
<1> DEFINE n == Len(f)
           c == PathFrom(f, from, d)
           l == n - from + 2
<1>1. n \in Nat /\ n >= 1 /\ DOMAIN f = 1 .. n /\ from \in Nat /\ 1 <= from /\ from <= n
  OBVIOUS
<1>2. d \in Adj(r, f[n].id)
  OBVIOUS
<1>3. \A k \in DOMAIN f : f[k] \in Frame
  OBVIOUS
<1>4. \A k \in DOMAIN f : f[k].id \in Id
  BY <1>3 DEF Frame
<1>5. \A k \in DOMAIN f : f[k].id \in IdsOf(r)
  BY DEF Stack
<1>0. \A k \in DOMAIN f : k < n => f[k + 1].id \in Adj(r, f[k].id)
  BY DEF Stack
<1> HIDE DEF n
<1>6. l \in Nat /\ l >= 2
  BY <1>1
<1>7. c = [k \in 1 .. l |-> IF from + k - 1 <= n THEN f[from + k - 1].id ELSE d]
  BY DEF PathFrom, n
<1> HIDE DEF c
<1>8. \A k \in 1 .. l : c[k] = IF from + k - 1 <= n THEN f[from + k - 1].id ELSE d
  BY <1>7
<1>9. \A k \in 1 .. l : from + k - 1 <= n => from + k - 1 \in DOMAIN f
  BY <1>1
<1>10. \A k \in 1 .. l : c[k] \in Id
  BY <1>4, <1>8, <1>9
<1>11. c \in Seq(Id) /\ Len(c) = l
  <2>1. c \in [1 .. l -> Id]
    BY <1>7, <1>10
  <2> HIDE DEF l
  <2> QED
    BY <1>6, <2>1
<1>12. c[1] = d /\ c[l] = d
  <2>1. from + 1 - 1 = from /\ ~(from + l - 1 <= n) /\ 1 \in 1 .. l /\ l \in 1 .. l
    BY <1>1, <1>6
  <2> QED
    BY <1>1, <1>8, <2>1
<1>13. ASSUME NEW k \in 1 .. l - 1 PROVE c[k] \in IdsOf(r) /\ c[k + 1] \in Adj(r, c[k])
  <2> DEFINE j == from + k - 1
  <2>1. /\ k \in 1 .. l /\ k + 1 \in 1 .. l /\ j <= n /\ j \in DOMAIN f
        /\ from + (k + 1) - 1 = j + 1
    BY <1>1, <1>6, <1>13
  <2>2. c[k] = f[j].id
    BY <1>8, <2>1
  <2>3. c[k + 1] = IF j + 1 <= n THEN f[j + 1].id ELSE d
    BY <1>8, <2>1
  <2>4. j \in Nat /\ (j < n \/ j = n)
    BY <1>1, <2>1
  <2>7. j \in DOMAIN f
    BY <2>1
  <2> HIDE DEF j
  <2>8. f[j].id \in IdsOf(r)
    BY <1>5, <2>7, Zenon
  <2>5. CASE j < n
    <3>1. j + 1 <= n
      BY <1>1, <2>4, <2>5
    <3>2. f[j + 1].id \in Adj(r, f[j].id)
      BY <1>0, <2>5, <2>7, Zenon
    <3> QED
      BY <2>2, <2>3, <2>8, <3>1, <3>2, Zenon
  <2>6. CASE j = n
    <3>1. ~(j + 1 <= n)
      BY <1>1, <2>6
    <3>2. c[k] = f[n].id /\ c[k + 1] = d
      BY <2>2, <2>3, <2>6, <3>1, Zenon
    <3> QED
      BY <1>2, <2>2, <2>8, <3>2, Zenon
  <2> QED
    BY <2>4, <2>5, <2>6
<1>14. IsCyclePath(r, c)
  BY <1>6, <1>11, <1>12, <1>13 DEF IsCyclePath
<1> QED
  BY <1>11, <1>14 DEF c

-----------------------------------------------------------------------------
(***************************************************************************)
(* TaskDecomposer.                                                         *)
(***************************************************************************)
Searching == {"dfs", "search", "inject", "mcp", "accepted"}

\* What Validate has established.
ReplyInv ==
  /\ dpc \in {"memory", "route"} => reply = << >>
  /\ dpc \in {"memory", "route", "parse"} => frames = << >> /\ visited = {}
  /\ dpc = "parse" /\ reply # Garbage => reply \in Seq(Task)
  /\ dpc \in Searching => reply \in Seq(Task) /\ Closed(reply)

DfsInv ==
  dpc = "dfs" =>
    Stack(reply, visited, frames) /\ Sorted(reply, Finished(visited, frames))

\* What detectCycle has established: the whole graph is sorted, or the path is
\* a cycle.
DagInv ==
  /\ dpc \in Searching \ {"dfs"} => Sorted(reply, IdsOf(reply))
  /\ cycle # << >> =>
       /\ dpc = "failed" /\ reply \in Seq(Task) /\ Closed(reply)
       /\ IsCyclePath(reply, cycle)

\* The loop of injectIndexerContext is left only behind the last task.
ContextInv ==
  /\ dpc \in {"mcp", "accepted"} => injectedCount \in {0, Len(reply)}
  /\ dpc = "inject" => injectedCount <= Len(reply)
  /\ dpc \in {"memory", "route", "parse", "dfs", "search"} => injectedCount = 0

DecomposerInv == ReplyInv /\ DfsInv /\ DagInv /\ ContextInv

\* The model's operators are those of this module for the reply it has.
LEMMA Bridge ==
  /\ ids = IdsOf(reply)
  /\ OnStack = IdsOn(frames)
  /\ \A t : graph(t) = DepsIn(reply, t)
BY DEF ids, IdsOf, OnStack, IdsOn, graph, LastOf, DepsIn

LEMMA EdgesAreDeps ==
  ASSUME reply \in Seq(Task), Closed(reply), NEW s \in ids, NEW t
  PROVE  /\ t \in Adj(reply, s) => Edge(s, t)
         /\ NoRepeats /\ Edge(s, t) => t \in Adj(reply, s)
<1>1. PICK i \in DOMAIN reply : reply[i].id = s /\ DepsIn(reply, s) = reply[i].deps
  BY Bridge, DepsShape
<1>2. ASSUME t \in Adj(reply, s) PROVE Edge(s, t)
  BY <1>1, <1>2 DEF Adj, Edge, DepsOf
<1>3. ASSUME NoRepeats, Edge(s, t) PROVE t \in Adj(reply, s)
  <2>1. PICK j \in DOMAIN reply : reply[j].id = s /\ t \in DepsOf(j)
    BY <1>3 DEF Edge
  <2>2. i = j
    BY <1>1, <1>3, <2>1 DEF NoRepeats
  <2> QED
    BY <1>1, <2>1, <2>2 DEF DepsOf, Adj
<1> QED
  BY <1>2, <1>3

LEMMA DagsOnly == ASSUME DecomposerInv PROVE AcceptsOnlyDags
<1>1. ASSUME dpc \in {"search", "inject", "mcp", "accepted"}, NoRepeats
      PROVE  Acyclic /\ \A i \in DOMAIN reply : DepsOf(i) \subseteq ids
  <2>1. reply \in Seq(Task) /\ Closed(reply) /\ Sorted(reply, IdsOf(reply))
    BY <1>1 DEF DecomposerInv, ReplyInv, DagInv, Searching
  <2>2. \A i \in DOMAIN reply : DepsOf(i) \subseteq ids
    BY <2>1, Bridge DEF Closed, DepsOf
  <2>3. ASSUME NEW S \in (SUBSET ids) \ {{}} PROVE \E s \in S : \A t \in S : ~Edge(s, t)
    <3>1. S \in SUBSET IdsOf(reply) /\ S # {}
      BY <2>3, Bridge
    <3>2. PICK s \in S : Adj(reply, s) \cap S = {}
      BY <2>1, <3>1 DEF Sorted
    <3>3. \A t \in S : ~Edge(s, t)
      BY <1>1, <2>1, <2>3, <3>2, EdgesAreDeps
    <3> QED
      BY <3>3
  <2> QED
    BY <2>2, <2>3 DEF Acyclic
<1>2. ASSUME cycle # << >>
      PROVE  /\ cycle[1] = cycle[Len(cycle)]
             /\ \A k \in 1 .. Len(cycle) - 1 : Edge(cycle[k], cycle[k + 1])
  <2>1. /\ reply \in Seq(Task) /\ Closed(reply)
        /\ IsCyclePath(reply, cycle)
    BY <1>2 DEF DecomposerInv, DagInv
  <2> QED
    BY <2>1, Bridge, EdgesAreDeps DEF IsCyclePath
<1> QED
  BY <1>1, <1>2 DEF AcceptsOnlyDags

\* What the model and this module know of the state while dfs runs.
LEMMA DfsState ==
  ASSUME DecomposerTypeOK, DecomposerInv, dpc = "dfs"
  PROVE  /\ reply \in Seq(Task) /\ Closed(reply)
         /\ frames \in Seq(Frame) /\ visited \subseteq Id
         /\ Stack(reply, visited, frames)
         /\ Sorted(reply, Finished(visited, frames))
         /\ cycle = << >> /\ injectedCount = 0
BY DEF DecomposerTypeOK, DecomposerInv, ReplyInv, DfsInv, DagInv, ContextInv, Searching, Frame

\* What has to be shown of a step that leaves dfs running.
LEMMA DfsGoesOn ==
  ASSUME DecomposerTypeOK, DecomposerInv, dpc = "dfs", dpc' = "dfs",
         UNCHANGED <<client, reply, cycle, injectedCount>>,
         frames' \in Seq(Frame), Stack(reply, visited', frames'),
         Sorted(reply, Finished(visited', frames'))
  PROVE  DecomposerTypeOK' /\ DecomposerInv'
<1>1. reply' = reply /\ cycle' = << >> /\ injectedCount' = 0 /\ reply \in Seq(Task) /\ Closed(reply)
  BY DfsState
<1>2. visited' \subseteq Id
  BY <1>1, IdsAreIds DEF Stack
<1>3. DecomposerTypeOK'
  BY <1>1, <1>2 DEF DecomposerTypeOK, Frame
<1>4. ReplyInv'
  BY <1>1 DEF ReplyInv, Searching
<1>5. DfsInv'
  BY <1>1 DEF DfsInv
<1>6. DagInv'
  BY <1>1 DEF DagInv, Searching
<1>7. ContextInv'
  BY <1>1 DEF ContextInv
<1> QED
  BY <1>3, <1>4, <1>5, <1>6, <1>7 DEF DecomposerInv

LEMMA RootStep ==
  ASSUME DecomposerTypeOK, DecomposerInv, DfsRoot
  PROVE  DecomposerTypeOK' /\ DecomposerInv'
<1> DEFINE i == CHOOSE i \in Roots : \A j \in Roots : i <= j
           t == reply[i].id
<1>1. /\ dpc = "dfs" /\ frames = << >> /\ Roots # {}
      /\ visited' = visited \cup {t}
      /\ frames' = << [id |-> t, at |-> 1] >>
      /\ UNCHANGED <<dpc, client, reply, cycle, injectedCount>>
  BY DEF DfsRoot
<1>2. /\ reply \in Seq(Task) /\ Closed(reply)
      /\ Stack(reply, visited, << >>)
      /\ Sorted(reply, Finished(visited, << >>))
  BY <1>1, DfsState
<1>3. Roots \subseteq Nat
  BY <1>2 DEF Roots
<1>4. \E k \in Roots : \A j \in Roots : k <= j
  BY <1>1, <1>3, FirstPosition
<1>5. i \in Roots
  BY <1>4
<1> HIDE DEF i
<1>6. t \in IdsOf(reply) /\ t \notin visited
  BY <1>5 DEF Roots, IdsOf
<1>7. t \in Id
  BY <1>2, <1>6, IdsAreIds
<1> HIDE DEF t
<1>8. frames' \in Seq(Frame)
  <2>1. [id |-> t, at |-> 1] \in Frame
    BY <1>7 DEF Frame
  <2> QED
    BY <1>1, <2>1
<1>9. /\ Stack(reply, visited', frames')
      /\ Finished(visited', frames') = Finished(visited, << >>)
  BY <1>1, <1>2, <1>6, RootStack
<1> QED
  BY <1>1, <1>2, <1>8, <1>9, DfsGoesOn

LEMMA DependencyStep ==
  ASSUME DecomposerTypeOK, DecomposerInv, DfsDependency
  PROVE  DecomposerTypeOK' /\ DecomposerInv'
<1> DEFINE n == Len(frames)
           q == DepsIn(reply, frames[n].id)
           d == q[frames[n].at]
           g == [frames EXCEPT ![Len(frames)].at = @ + 1]
<1>1. /\ dpc = "dfs" /\ frames # << >> /\ frames[n].at <= Len(q)
      /\ UNCHANGED <<client, reply, injectedCount>>
  BY Bridge DEF DfsDependency, Top
<1>2. /\ reply \in Seq(Task) /\ Closed(reply)
      /\ frames \in Seq(Frame)
      /\ Stack(reply, visited, frames)
      /\ Sorted(reply, Finished(visited, frames))
      /\ cycle = << >> /\ injectedCount = 0
  BY <1>1, DfsState
<1>3. /\ n \in Nat /\ n \in DOMAIN frames
      /\ frames[n].at \in Nat /\ frames[n].id \in IdsOf(reply)
      /\ Len(q) \in Nat /\ DOMAIN q = 1 .. Len(q)
  BY <1>1, <1>2, TopShape
<1>4. d \in Adj(reply, frames[n].id) /\ d \in IdsOf(reply)
  <2>1. frames[n].at \in DOMAIN q
    BY <1>1, <1>2, <1>3 DEF Stack
  <2>2. d \in Adj(reply, frames[n].id)
    BY <2>1 DEF Adj
  <2> QED
    BY <1>2, <1>3, <2>2, DepsShape
<1>5. d \in Id
  BY <1>2, <1>4, IdsAreIds
<1>6. Advanced(frames, g)
  BY <1>1, <1>2, Advance
<1>7. g \in Seq(Frame)
  BY <1>6 DEF Advanced
<1>8. \/ /\ d \notin visited
         /\ visited' = visited \cup {d}
         /\ frames' = Append(g, [id |-> d, at |-> 1])
         /\ UNCHANGED <<dpc, cycle>>
      \/ /\ d \in visited /\ ~IsCycle(d)
         /\ frames' = g
         /\ UNCHANGED <<dpc, cycle, visited>>
      \/ /\ d \in visited /\ IsCycle(d)
         /\ cycle' = PathFrom(frames, CHOOSE k \in DOMAIN frames : frames[k].id = d, d)
         /\ dpc' = "failed"
         /\ UNCHANGED <<frames, visited>>
  BY Bridge DEF DfsDependency, Top, PathFrom
<1>0. frames[Len(frames)].at <= Len(DepsIn(reply, frames[Len(frames)].id))
  BY <1>1
<1>9. CASE /\ d \notin visited
           /\ visited' = visited \cup {d}
           /\ frames' = Append(g, [id |-> d, at |-> 1])
           /\ UNCHANGED <<dpc, cycle>>
  <2>1. /\ Stack(reply, visited', frames')
        /\ Finished(visited', frames') = Finished(visited, frames)
    <3>1. d = DepsIn(reply, frames[Len(frames)].id)[frames[Len(frames)].at]
      OBVIOUS
    <3> HIDE DEF d, g, n, q
    <3>2. LET h == Append(g, [id |-> d, at |-> 1])
          IN  Stack(reply, visited \cup {d}, h)
              /\ Finished(visited \cup {d}, h) = Finished(visited, frames)
      <4>1. /\ reply \in Seq(Task) /\ Closed(reply) /\ frames \in Seq(Frame)
            /\ frames # << >> /\ Stack(reply, visited, frames) /\ d \notin visited
        BY <1>1, <1>2, <1>9, Zenon
      <4> QED
        BY <1>0, <1>6, <3>1, <4>1, PushStack
    <3> QED
      BY <1>9, <3>2, Zenon
  <2>2. frames' \in Seq(Frame)
    <3>1. [id |-> d, at |-> 1] \in Frame
      BY <1>5 DEF Frame
    <3> HIDE DEF d, g
    <3> QED
      BY <1>7, <1>9, <3>1
  <2> HIDE DEF d, g, n, q
  <2> QED
    BY <1>1, <1>2, <1>9, <2>1, <2>2, DfsGoesOn
<1>10. CASE /\ d \in visited /\ ~IsCycle(d)
            /\ frames' = g
            /\ UNCHANGED <<dpc, cycle, visited>>
  <2>1. d \in Finished(visited, frames)
    BY <1>10, Bridge DEF Finished, IsCycle
  <2>2. /\ Stack(reply, visited', frames')
        /\ Finished(visited', frames') = Finished(visited, frames)
    <3>1. DepsIn(reply, frames[Len(frames)].id)[frames[Len(frames)].at]
            \in Finished(visited, frames)
      BY <2>1
    <3> HIDE DEF d, g, n, q
    <3> QED
      BY <1>0, <1>1, <1>2, <1>6, <1>10, <3>1, SkipStack
  <2> HIDE DEF d, g, n, q
  <2> QED
    BY <1>1, <1>2, <1>7, <1>10, <2>2, DfsGoesOn
<1>11. CASE /\ d \in visited /\ IsCycle(d)
            /\ cycle' = PathFrom(frames, CHOOSE k \in DOMAIN frames : frames[k].id = d, d)
            /\ dpc' = "failed"
            /\ UNCHANGED <<frames, visited>>
  <2> DEFINE from == CHOOSE k \in DOMAIN frames : frames[k].id = d
  <2>1. from \in DOMAIN frames /\ frames[from].id = d
    BY <1>11 DEF IsCycle, OnStack
  <2>2. d \in Adj(reply, frames[Len(frames)].id)
    BY <1>4
  <2>3. cycle' = PathFrom(frames, from, d)
    BY <1>11
  <2> HIDE DEF from, d
  <2>4. cycle' \in Seq(Id) /\ IsCyclePath(reply, cycle')
    BY <1>1, <1>2, <2>1, <2>2, <2>3, CycleFound
  <2> HIDE DEF g, n, q
  <2>5. DecomposerTypeOK'
    BY <1>1, <1>11, <2>4 DEF DecomposerTypeOK
  <2>6. DagInv'
    BY <1>1, <1>2, <1>11, <2>4 DEF DagInv, Searching
  <2>7. ReplyInv' /\ DfsInv' /\ ContextInv'
    BY <1>11 DEF ReplyInv, DfsInv, ContextInv, Searching
  <2> QED
    BY <2>5, <2>6, <2>7 DEF DecomposerInv
<1> QED
  BY <1>8, <1>9, <1>10, <1>11

LEMMA ReturnStep ==
  ASSUME DecomposerTypeOK, DecomposerInv, DfsReturn
  PROVE  DecomposerTypeOK' /\ DecomposerInv'
<1>1. /\ dpc = "dfs" /\ frames # << >>
      /\ frames[Len(frames)].at > Len(DepsIn(reply, frames[Len(frames)].id))
      /\ frames' = SubSeq(frames, 1, Len(frames) - 1)
      /\ UNCHANGED <<dpc, client, reply, visited, cycle, injectedCount>>
  BY Bridge DEF DfsReturn, Top
<1>2. /\ reply \in Seq(Task) /\ Closed(reply)
      /\ frames \in Seq(Frame)
      /\ Stack(reply, visited, frames)
      /\ Sorted(reply, Finished(visited, frames))
  BY <1>1, DfsState
<1>3. /\ Stack(reply, visited', frames')
      /\ Sorted(reply, Finished(visited', frames'))
  BY <1>1, <1>2, ReturnStack
<1>4. frames' \in Seq(Frame)
  <2> HIDE DEF Frame
  <2> QED
    BY <1>1, <1>2
<1> QED
  BY <1>1, <1>3, <1>4, DfsGoesOn

\* The loop over the tasks ends: every task is visited, no call is open, and so
\* all tasks are finished.
LEMMA DoneStep ==
  ASSUME DecomposerTypeOK, DecomposerInv, DfsDone
  PROVE  DecomposerTypeOK' /\ DecomposerInv'
<1>1. /\ dpc = "dfs" /\ frames = << >> /\ Roots = {}
      /\ dpc' \in {"mcp", "search"}
      /\ UNCHANGED <<client, reply, frames, visited, cycle, injectedCount>>
  BY DEF DfsDone
<1>2. /\ reply \in Seq(Task) /\ Closed(reply)
      /\ Stack(reply, visited, frames)
      /\ Sorted(reply, Finished(visited, frames))
      /\ cycle = << >> /\ injectedCount = 0
  BY <1>1, DfsState
<1>3. Finished(visited, frames) = IdsOf(reply)
  <2>1. IdsOn(frames) = {}
    BY <1>1 DEF IdsOn
  <2>2. visited = IdsOf(reply)
    BY <1>1, <1>2 DEF Stack, Roots, IdsOf
  <2> QED
    BY <2>1, <2>2 DEF Finished
<1>4. Sorted(reply, IdsOf(reply))
  BY <1>2, <1>3
<1>5. DecomposerTypeOK'
  BY <1>1 DEF DecomposerTypeOK
<1>6. ReplyInv' /\ DfsInv' /\ DagInv' /\ ContextInv'
  BY <1>1, <1>2, <1>4 DEF ReplyInv, DfsInv, DagInv, ContextInv, Searching
<1> QED
  BY <1>5, <1>6 DEF DecomposerInv

LEMMA ValidateStep ==
  ASSUME DecomposerTypeOK, DecomposerInv, Validate
  PROVE  DecomposerTypeOK' /\ DecomposerInv'
<1>1. /\ dpc = "parse"
      /\ dpc' \in {"dfs", "failed"}
      /\ UNCHANGED <<client, reply, frames, visited, cycle, injectedCount>>
  BY DEF Validate
<1>2. frames = << >> /\ visited = {} /\ cycle = << >> /\ injectedCount = 0
  BY <1>1 DEF DecomposerInv, ReplyInv, DagInv, ContextInv
<1>3. DecomposerTypeOK'
  BY <1>1 DEF DecomposerTypeOK
<1>4. CASE dpc' = "failed"
  <2>1. ReplyInv' /\ DfsInv' /\ DagInv' /\ ContextInv'
    BY <1>1, <1>2, <1>4 DEF ReplyInv, DfsInv, DagInv, ContextInv, Searching
  <2> QED
    BY <1>3, <2>1 DEF DecomposerInv
<1>5. CASE dpc' = "dfs"
  <2>1. reply \in Seq(Task)
    BY <1>1, <1>5 DEF Validate, DecomposerInv, ReplyInv
  <2>2. \A i \in DOMAIN reply : DepsOf(i) \subseteq IdsOf(reply)
    BY <1>5, Bridge DEF Validate
  <2>3. Closed(reply)
    BY <2>2 DEF Closed, DepsOf
  <2>4. Finished({}, << >>) = {}
    BY DEF Finished
  <2>5. Stack(reply, {}, << >>) /\ Sorted(reply, {})
    BY DEF Stack, Sorted
  <2>6. ReplyInv' /\ DfsInv' /\ DagInv' /\ ContextInv'
    BY <1>1, <1>2, <1>5, <2>1, <2>3, <2>4, <2>5
    DEF ReplyInv, DfsInv, DagInv, ContextInv, Searching
  <2> QED
    BY <1>3, <2>6 DEF DecomposerInv
<1> QED
  BY <1>1, <1>4, <1>5

LEMMA DecomposerStepInv ==
  ASSUME DecomposerTypeOK, DecomposerInv, DecomposerStep \/ ClientImported
  PROVE  DecomposerTypeOK' /\ DecomposerInv'
<1> USE DEF DecomposerTypeOK, DecomposerInv, ReplyInv, DfsInv, DagInv, ContextInv, Searching
<1>1. CASE ClientImported
  BY <1>1 DEF ClientImported
<1>2. CASE fetchMemoryBlock
  BY <1>2 DEF fetchMemoryBlock
<1>3. CASE RoutePlanning
  <2>1. \A r \in Replies : r = Garbage \/ r \in Seq(Task)
    BY DecomposerAssumption DEF Task
  <2> QED
    BY <1>3, <2>1 DEF RoutePlanning
<1>4. CASE SearchPrompt
  <2>1. /\ dpc = "search" /\ dpc' \in {"inject", "mcp", "failed"} /\ injectedCount = 0
        /\ reply \in Seq(Task)
        /\ UNCHANGED <<client, reply, frames, visited, cycle, injectedCount>>
    BY <1>4 DEF SearchPrompt
  <2>2. 0 <= Len(reply)
    BY <2>1
  <2> QED
    BY <2>1, <2>2
<1>5. CASE InjectTask
  <2>1. /\ dpc = "inject" /\ injectedCount < Len(reply) /\ injectedCount' = injectedCount + 1
        /\ UNCHANGED <<dpc, client, reply, frames, visited, cycle>>
    BY <1>5 DEF InjectTask
  <2>2. reply \in Seq(Task) /\ injectedCount \in Nat
    BY <2>1
  <2>3. Len(reply) \in Nat
    BY <2>2
  <2>4. injectedCount' \in Nat /\ injectedCount' <= Len(reply)
    BY <2>1, <2>2, <2>3
  <2> QED
    BY <2>1, <2>4
<1>6. CASE InjectDone
  BY <1>6 DEF InjectDone
<1>7. CASE enhanceWithMCP
  BY <1>7 DEF enhanceWithMCP
<1> QED
  BY <1>1, <1>2, <1>3, <1>4, <1>5, <1>6, <1>7, ValidateStep, RootStep, DependencyStep, ReturnStep,
     DoneStep DEF DecomposerStep

LEMMA DecomposerInitInv ==
  ASSUME DecomposerInit PROVE DecomposerTypeOK /\ DecomposerInv
BY DEF DecomposerInit, DecomposerTypeOK, DecomposerInv, ReplyInv, DfsInv, DagInv, ContextInv,
       Searching

LEMMA DecomposerSame ==
  ASSUME DecomposerTypeOK, DecomposerInv, UNCHANGED decomposerVars
  PROVE  DecomposerTypeOK' /\ DecomposerInv'
BY DEF decomposerVars, DecomposerTypeOK, DecomposerInv, ReplyInv, DfsInv, DagInv, ContextInv,
       Searching

-----------------------------------------------------------------------------
(***************************************************************************)
(* Consolidator.                                                           *)
(***************************************************************************)

Branching == {"branch", "pull", "newBranch"}

\* While run merges: only lanes that count as successful and have been looked at are
\* merged, and a merge that failed left its lane out.  Unless a git process was
\* killed, the branch of the run is checked out, and while no merge failed all lanes
\* that were looked at are merged and no conflict is open behind the first of them.
Merges ==
  /\ merged \subseteq (successful \cap dirs) \ todo
  /\ allMerged => successful # {}
  /\ ~allMerged /\ successful # {} => (successful \cap dirs) \ (todo \cup merged) # {}
  /\ signalled \/ head = "run"
  /\ ~signalled /\ allMerged =>
       merged = (successful \cap dirs) \ todo /\ (merged # {} => ~merging)

ConsolidatorInv ==
  /\ cpc \in {"idle", "start", "load"} \cup Branching => merged = {} /\ todo = {}
  /\ cpc \in {"merge", "summary", "exit"} => Merges
  /\ cpc \in {"summary", "exit"} => todo = {}
  /\ ExitCodeMatchesRepository

\* The lanes that analyzeTaskResults finds are numbers.
LEMMA LanesAreNumbers ==
  ASSUME NEW d \in SUBSET Lane, NEW s \in Stored
  PROVE  SuccessfulLanes(d, s) \subseteq Nat /\ FailedLanes(d, s) \subseteq Nat
<1>1. IsFiniteSet(s) /\ d \subseteq Nat
  BY ConsolidatorAssumption
<1>2. Completed(s) \subseteq s /\ FailedIn(s) \subseteq s
  BY DEF Completed, FailedIn
<1>3. Cardinality(Completed(s)) \in Nat /\ Cardinality(FailedIn(s)) \in Nat
  <2>1. IsFiniteSet(Completed(s)) /\ IsFiniteSet(FailedIn(s))
    BY <1>1, <1>2, FS_Subset
  <2> QED
    BY <2>1, FS_CardinalityType
<1>4. ASSUME NEW a \in Nat, NEW b \in Nat
      PROVE  0 .. a - 1 \subseteq Nat /\ a .. a + b - 1 \subseteq Nat
  OBVIOUS
<1>5. SuccessfulLanes(d, s) \subseteq Nat
  BY <1>1, <1>3, <1>4 DEF SuccessfulLanes
<1> QED
  BY <1>1, <1>3, <1>4, <1>5 DEF FailedLanes

\* One worktree of mergeSuccessfulWorktrees.
LEMMA MergingStep ==
  ASSUME ConsolidatorTypeOK, ConsolidatorInv, NEW l \in todo,
         SkipMissing(l) \/ MergeLane(l) \/ MergeKilled(l) \/ MergeConflict(l)
  PROVE  ConsolidatorTypeOK' /\ ConsolidatorInv'
<1>1. cpc = "merge" /\ Merges /\ l \in successful
  BY DEF SkipMissing, MergeLane, MergeKilled, MergeConflict, ConsolidatorInv, ConsolidatorTypeOK
<1>2. /\ cpc' \in {"merge", "threw"}
      /\ todo' = todo \ {l}
      /\ UNCHANGED <<dirs, successful, failed, head, exitCode>>
  BY <1>1 DEF SkipMissing, MergeLane, MergeKilled, MergeConflict, LogThen
<1> DEFINE Kept == /\ Merges' /\ merged' \subseteq merged \cup dirs
                   /\ allMerged' \in BOOLEAN /\ merging' \in BOOLEAN /\ signalled' \in BOOLEAN
<1>3. Kept
  <2>1. CASE SkipMissing(l)
    <3>1. l \notin dirs /\ UNCHANGED <<merged, allMerged, merging, signalled>>
      BY <2>1 DEF SkipMissing
    <3> QED
      BY <1>1, <1>2, <3>1 DEF Merges, ConsolidatorTypeOK
  <2>2. CASE MergeLane(l)
    <3>1. /\ l \in dirs /\ ~merging /\ merged' = merged \cup {l}
          /\ UNCHANGED <<allMerged, merging, signalled>>
      BY <2>2 DEF MergeLane
    <3> QED
      BY <1>1, <1>2, <3>1 DEF Merges, ConsolidatorTypeOK
  <2>3. CASE MergeKilled(l)
    <3>1. /\ l \in dirs /\ merged' \in {merged, merged \cup {l}} /\ merging' \in {merging, TRUE}
          /\ signalled' = TRUE /\ UNCHANGED allMerged
      BY <2>3 DEF MergeKilled
    <3> QED
      BY <1>1, <1>2, <3>1 DEF Merges, ConsolidatorTypeOK
  <2>4. CASE MergeConflict(l)
    <3>1. /\ l \in dirs /\ allMerged' = FALSE /\ merging' \in {merging, TRUE}
          /\ UNCHANGED <<merged, signalled>>
      BY <2>4 DEF MergeConflict
    <3>2. l \in (successful \cap dirs) \ (todo' \cup merged)
      BY <1>1, <1>2, <3>1 DEF Merges
    <3> QED
      BY <1>1, <1>2, <3>1, <3>2 DEF Merges, ConsolidatorTypeOK
  <2> QED
    BY <2>1, <2>2, <2>3, <2>4
<1>4. ConsolidatorTypeOK'
  BY <1>2, <1>3 DEF ConsolidatorTypeOK
<1>5. ConsolidatorInv'
  BY <1>2, <1>3 DEF ConsolidatorInv, ExitCodeMatchesRepository, Branching
<1> QED
  BY <1>4, <1>5

LEMMA ConsolidatorStepInv ==
  ASSUME ConsolidatorTypeOK, ConsolidatorInv, ConsolidatorStep
  PROVE  ConsolidatorTypeOK' /\ ConsolidatorInv'
<1> USE DEF ConsolidatorTypeOK, ConsolidatorInv, ExitCodeMatchesRepository, Branching
<1>1. CASE StartConsolidation
  BY <1>1 DEF StartConsolidation, LogThen
<1>2. CASE analyzeTaskResults
  <2>1. /\ cpc = "load" /\ cpc' \in {"branch", "threw"}
        /\ UNCHANGED <<todo, merged, allMerged, merging, signalled, head, exitCode>>
    BY <1>2 DEF analyzeTaskResults
  <2>2. successful' \subseteq Nat /\ failed' \subseteq Nat /\ dirs' \subseteq Lane
    BY <1>2, LanesAreNumbers DEF analyzeTaskResults
  <2>3. todo' \subseteq successful'
    BY <2>1
  <2> QED
    BY <2>1, <2>2, <2>3
<1>3. CASE GitCannotStart
  BY <1>3 DEF GitCannotStart
<1>4. CASE CheckoutMain
  BY <1>4 DEF CheckoutMain
<1>5. CASE Pull
  BY <1>5 DEF Pull
<1>6. CASE CheckoutBranch
  <2>1. /\ cpc = "newBranch" /\ todo' = successful
        /\ head' \in {head, "run"} /\ signalled' \in {signalled, TRUE}
        /\ signalled' \/ head' = "run"
        /\ allMerged' = (successful # {}) /\ cpc' \in {"merge", "threw"}
        /\ UNCHANGED <<dirs, successful, failed, merged, merging, exitCode>>
    BY <1>6 DEF CheckoutBranch, LogThen
  <2>2. Merges'
    BY <2>1 DEF Merges
  <2>3. allMerged' \in BOOLEAN
    BY <2>1
  <2> QED
    BY <2>1, <2>2, <2>3
<1>7. CASE BranchFails
  BY <1>7 DEF BranchFails
<1>8. CASE \E l \in todo : SkipMissing(l) \/ MergeLane(l) \/ MergeKilled(l) \/ MergeConflict(l)
  BY <1>8, MergingStep
<1>9. CASE MergesDone
  BY <1>9 DEF MergesDone, Merges
<1>10. CASE generateSummary
  BY <1>10 DEF generateSummary, LogThen, Merges
<1>11. CASE FinishConsolidation
  <2>1. /\ cpc = "exit" /\ exitCode' = calculateExitCode /\ cpc' \in {"done", "threw"}
        /\ UNCHANGED <<dirs, successful, failed, todo, merged, allMerged, merging, signalled, head>>
    BY <1>11 DEF FinishConsolidation, LogThen
  <2>2. /\ exitCode' \in {0, 1, 2}
        /\ exitCode' = 0 => failed = {} /\ allMerged
        /\ exitCode' = 1 => successful = {}
        /\ exitCode' = 2 => successful # {} /\ (failed # {} \/ ~allMerged)
    BY <2>1 DEF calculateExitCode, Merges
  <2>3. Merges /\ todo = {}
    BY <2>1
  <2>4. exitCode' = 0 =>
          signalled \/ (head = "run" /\ merged = successful \cap dirs /\ (merged # {} => ~merging))
    BY <2>2, <2>3 DEF Merges
  <2>5. exitCode' = 1 => merged = {}
    BY <2>2, <2>3 DEF Merges
  <2>6. /\ exitCode' = 2 => failed # {} \/ ~(successful \cap dirs \subseteq merged)
        /\ exitCode' = 2 => signalled \/ head = "run"
    BY <2>2, <2>3 DEF Merges
  <2>7. exitCode' = 0 => successful # {}
    BY <2>2, <2>3 DEF Merges
  <2>8. ConsolidatorTypeOK'
    BY <2>1, <2>2
  <2>9. ExitCodeMatchesRepository'
    BY <2>1, <2>2, <2>4, <2>5, <2>6, <2>7
  <2>10. ConsolidatorInv'
    BY <2>1, <2>9
  <2> QED
    BY <2>8, <2>10
<1> QED
  BY <1>1, <1>2, <1>3, <1>4, <1>5, <1>6, <1>7, <1>8, <1>9, <1>10, <1>11 DEF ConsolidatorStep

LEMMA ConsolidatorInitInv ==
  ASSUME ConsolidatorInit PROVE ConsolidatorTypeOK /\ ConsolidatorInv
BY DEF ConsolidatorInit, ConsolidatorTypeOK, ConsolidatorInv, ExitCodeMatchesRepository, Branching

LEMMA ConsolidatorSame ==
  ASSUME ConsolidatorTypeOK, ConsolidatorInv, UNCHANGED consolidatorVars
  PROVE  ConsolidatorTypeOK' /\ ConsolidatorInv'
BY DEF consolidatorVars, consolidatorState, ConsolidatorTypeOK, ConsolidatorInv,
       ExitCodeMatchesRepository, Merges, Branching

\* A conflict may be ended by others before run begins.
LEMMA ConsolidatorIdle ==
  ASSUME ConsolidatorTypeOK, ConsolidatorInv, cpc = "idle", cpc' \in {"idle", "start"},
         merging' \in BOOLEAN,
         UNCHANGED <<dirs, successful, failed, todo, merged, allMerged, signalled, head, exitCode>>
  PROVE  ConsolidatorTypeOK' /\ ConsolidatorInv'
BY DEF ConsolidatorTypeOK, ConsolidatorInv, ExitCodeMatchesRepository, Branching

-----------------------------------------------------------------------------
(***************************************************************************)
(* Sandbox.                                                                *)
(***************************************************************************)

\* exec reports exit code 0 only for a command that was started, and that ended with
\* 0 or was cut off by a signal.
LEMMA GreenIsBacked ==
  ASSUME NEW o \in Outcomes
  PROVE  /\ o.tests \in TestVerdict
         /\ o.code = "green" => o.tests \in {"passed", "killed"}
<1>1. PICK x \in Execution :
        o = [code |-> exec(x), started |-> Started(x), tests |-> Verdict(x)]
  BY DEF Outcomes
<1>2. x \in Runs /\ ExitCodesAgree(x)
  BY DEF Execution
<1>3. /\ x.linux \in BOOLEAN /\ x.binary \in BOOLEAN /\ x.consent \in BOOLEAN
      /\ x.green \in BOOLEAN /\ x.logs \in BOOLEAN
      /\ x.child \in {"zero", "nonzero", "signal", "error"}
      /\ x.output \in {"json", "garbled", "none"}
  BY <1>2 DEF Runs
<1>4. Verdict(x) \in TestVerdict
  BY <1>3 DEF Verdict, TestVerdict
<1>5. ASSUME exec(x) = "green" PROVE Started(x) /\ (x.green \/ x.child = "signal")
  <2>1. CASE x.linux
    BY <1>2, <1>3, <1>5, <2>1 DEF exec, exited, logExecution, Started, ExitCodesAgree
  <2>2. CASE ~x.linux
    BY <1>2, <1>3, <1>5, <2>2 DEF exec, execBypassNonLinux, exited, logExecution, Started,
                                  ExitCodesAgree
  <2> QED
    BY <2>1, <2>2
<1>6. exec(x) = "green" => Verdict(x) \in {"passed", "killed"}
  BY <1>3, <1>5 DEF Verdict
<1>7. o.code = exec(x) /\ o.tests = Verdict(x)
  BY <1>1
<1> QED
  BY <1>4, <1>6, <1>7

-----------------------------------------------------------------------------
(***************************************************************************)
(* The command.                                                            *)
(***************************************************************************)
\* The types of the entries of a run.
EventType ==
  {"auto_command_started", "decomposition_completed", "sandbox_test_run",
   "improve_self_task_completed", "auto_command_completed", "consolidation_started",
   "branch_creation_failed", "branch_created", "worktree_merged", "merge_conflict",
   "summary_generated", "consolidation_completed", "lint_applied", "github_pr_skipped",
   "auto_command_failed"}

Line == [type : EventType, prev : Nat]

\* The lines of a type in the ledger file s.
On(s, a) == {i \in DOMAIN s : s[i].type = a}

\* t is s with a line of type x behind it.
Wrote(x, s, t) ==
  /\ On(t, x) = On(s, x) \cup {Len(t)}
  /\ \A a : a # x => On(t, a) = On(s, a)

LEMMA WriteLine ==
  ASSUME NEW s \in Seq(Line), NEW x \in EventType, NEW p \in Nat,
         NEW t, t = Append(s, [type |-> x, prev |-> p])
  PROVE  t \in Seq(Line) /\ Wrote(x, s, t)
<1> DEFINE e == [type |-> x, prev |-> p]
           n == Len(s)
<1>1. e \in Line /\ e.type = x
  BY DEF Line
<1>2. n \in Nat /\ DOMAIN s = 1 .. n
  OBVIOUS
<1> HIDE DEF e
<1>3. t = Append(s, e)
  BY DEF e
<1>4. /\ t \in Seq(Line) /\ Len(t) = n + 1 /\ DOMAIN t = 1 .. n + 1
      /\ t[n + 1] = e /\ \A i \in 1 .. n : t[i] = s[i]
  BY <1>1, <1>3
<1> HIDE DEF n
<1>5. DOMAIN t = DOMAIN s \cup {n + 1} /\ n + 1 \notin DOMAIN s
  BY <1>2, <1>4
<1>6. \A i \in DOMAIN s : t[i].type = s[i].type
  BY <1>2, <1>4
<1>7. t[n + 1].type = x
  BY <1>1, <1>4
<1>8. On(t, x) = On(s, x) \cup {n + 1}
  BY <1>5, <1>6, <1>7 DEF On
<1>9. \A a : a # x => On(t, a) = On(s, a)
  BY <1>5, <1>6, <1>7 DEF On
<1> QED
  BY <1>4, <1>8, <1>9 DEF Wrote

LedgerInv == lines \in Seq(Line) /\ lastHash \in Nat

\* An append of either object writes a line; a rejected one leaves the file alone.
LEMMA Writing ==
  ASSUME LedgerInv, NEW x \in EventType, Logged(x) \/ LoggedByOther(x)
  PROVE  LedgerInv' /\ Wrote(x, lines, lines')
<1>1. Len(lines) \in Nat /\ Len(lines) + 1 \in Nat
  BY DEF LedgerInv
<1>2. lastHash \in Nat /\ lastHash' \in Nat
  BY <1>1 DEF LedgerInv, Logged, LoggedByOther
<1>3. \E p \in Nat : lines' = Append(lines, [type |-> x, prev |-> p])
  BY <1>1, <1>2 DEF Logged, LoggedByOther
<1> QED
  BY <1>2, <1>3, WriteLine DEF LedgerInv

LEMMA NotWriting ==
  ASSUME LedgerInv, LogRejected \/ UNCHANGED ledgerVars
  PROVE  LedgerInv' /\ lines' = lines
BY DEF LedgerInv, LogRejected, ledgerVars

LEMMA WritingTo ==
  ASSUME LedgerInv, NEW x \in EventType, NEW next, LogTo(x, next)
  PROVE  /\ LedgerInv'
         /\ \/ stage' = next /\ Wrote(x, lines, lines')
            \/ stage' = "catch" /\ lines' = lines
BY Writing, NotWriting DEF LogTo

LEMMA WritingThen ==
  ASSUME LedgerInv, NEW x \in EventType, NEW next, LogThen(x, next)
  PROVE  /\ LedgerInv'
         /\ lines' = lines \/ Wrote(x, lines, lines')
BY Writing, NotWriting DEF LogThen

\* The consolidation begins when the command reports.
Early == {"load", "decompose", "execute", "test", "commit", "report"}

StageInv == stage \in Early => cpc = "idle"

EndInv ==
  /\ On(lines, "auto_command_failed") # {} => stage = "end"
  /\ stage = "end" <=> exit # 9
  /\ exit = 0 => /\ On(lines, "auto_command_failed") = {}
                 /\ Len(lines) \in On(lines, "summary_generated")
  /\ \A i \in On(lines, "auto_command_failed") : i = Len(lines) /\ exit = 1

\* runImproveSelf has the outcome of an execution in its hands, or none.
CommitInv ==
  /\ at \in Nat
  /\ sandboxResult \in Outcomes \cup {NoTests}
  /\ commits \subseteq {"passed", "killed"}

ComponentsInv ==
  /\ DecomposerTypeOK /\ DecomposerInv
  /\ ConsolidatorTypeOK /\ ConsolidatorInv

IInv ==
  /\ TypeOK /\ ComponentsInv /\ LedgerInv
  /\ StageInv /\ EndInv /\ CommitInv

\* The inductive invariant implies the properties the runs check.
LEMMA IInvImplies ==
  ASSUME IInv
  PROVE  /\ TypeOK /\ AcceptsOnlyDags /\ ContextForAllOrNone /\ ExitCodeMatchesRepository
         /\ ExitTellsOutcome /\ CommitsBackedByTests
<1>1. AcceptsOnlyDags
  BY DagsOnly DEF IInv, ComponentsInv
<1>2. ContextForAllOrNone
  BY DEF IInv, ComponentsInv, DecomposerInv, ContextInv, ContextForAllOrNone
<1>3. ExitCodeMatchesRepository
  BY DEF IInv, ComponentsInv, ConsolidatorInv
<1>4. \A a : Lines(a) = On(lines, a)
  BY DEF Lines, On
<1>5. ExitTellsOutcome
  BY <1>4 DEF IInv, EndInv, ExitTellsOutcome
<1>6. CommitsBackedByTests
  BY DEF IInv, CommitInv, CommitsBackedByTests
<1> QED
  BY <1>1, <1>2, <1>3, <1>5, <1>6 DEF IInv

LEMMA IInvInit == ASSUME Init PROVE IInv
<1>1. ComponentsInv
  BY DecomposerInitInv, ConsolidatorInitInv DEF Init, ComponentsInv
<1>2. LedgerInv /\ lines = << >>
  BY DEF Init, LedgerInit, LedgerInv
<1>3. \A a : On(lines, a) = {}
  BY <1>2 DEF On
<1>4. EndInv
  BY <1>3 DEF EndInv, Init
<1>5. StageInv /\ CommitInv
  BY DEF StageInv, CommitInv, Init, ConsolidatorInit
<1>6. TypeOK
  BY <1>1 DEF Init, TypeOK, ComponentsInv
<1> QED
  BY <1>1, <1>2, <1>4, <1>5, <1>6 DEF IInv

LEMMA ComponentsStep ==
  ASSUME IInv, [Next]_vars PROVE ComponentsInv'
<1> USE DEF ComponentsInv
<1>0. ComponentsInv /\ StageInv
  BY DEF IInv
<1>1. CASE Decompose
  <2>1. (DecomposerStep \/ ClientImported) /\ UNCHANGED consolidatorVars
    BY <1>1 DEF Decompose
  <2> QED
    BY <1>0, <2>1, DecomposerStepInv, ConsolidatorSame
<1>2. CASE Report
  <2>1. /\ cpc = "idle" /\ cpc' = "start" /\ UNCHANGED decomposerVars
        /\ UNCHANGED <<dirs, successful, failed, todo, merged, allMerged, merging, signalled,
                       head, exitCode>>
    BY <1>0, <1>2 DEF StageInv, Early, Report
  <2>2. merging' \in BOOLEAN
    BY <1>0, <2>1 DEF ConsolidatorTypeOK
  <2> QED
    BY <1>0, <2>1, <2>2, ConsolidatorIdle, DecomposerSame
<1>3. CASE Consolidate
  <2>1. ConsolidatorStep /\ UNCHANGED decomposerVars
    BY <1>3 DEF Consolidate
  <2> QED
    BY <1>0, <2>1, ConsolidatorStepInv, DecomposerSame
<1>4. CASE CommitTask \/ NoCommit
  <2>1. /\ cpc = "idle" /\ UNCHANGED decomposerVars
        /\ UNCHANGED consolidatorState
    BY <1>0, <1>4 DEF StageInv, Early, CommitTask, NoCommit
  <2>2. merging' \in BOOLEAN
    <3>1. merging \in BOOLEAN
      BY <1>0 DEF ConsolidatorTypeOK
    <3>2. merging' = FALSE \/ merging' = merging \/ merging' = (merging /\ ~TestsPassed)
      BY <1>4 DEF CommitTask, NoCommit
    <3> QED
      BY <3>1, <3>2
  <2>3. ConsolidatorTypeOK' /\ ConsolidatorInv'
    BY <1>0, <2>1, <2>2, ConsolidatorIdle DEF consolidatorState
  <2> QED
    BY <1>0, <2>1, <2>3, DecomposerSame
<1>5. ASSUME UNCHANGED <<decomposerVars, consolidatorVars>> PROVE ComponentsInv'
  BY <1>0, <1>5, DecomposerSame, ConsolidatorSame
<1> HIDE DEF ComponentsInv
<1> QED
  BY <1>1, <1>2, <1>3, <1>4, <1>5
  DEF Next, vars, Load, DecompositionFailed, DecompositionCompleted, Execute, RunTests, ImproveSelfDone,
      Consolidated, runBiomeLint, createGitHubPullRequest, GenerateSummary, Finish, Catch

\* What a step of the consolidation may write to the ledger.
Quiet == {"consolidation_started", "branch_creation_failed", "branch_created", "worktree_merged",
          "merge_conflict", "summary_generated", "consolidation_completed"}

LEMMA ConsolidatorWrites ==
  ASSUME LedgerInv, ConsolidatorStep
  PROVE  /\ LedgerInv'
         /\ lines' = lines \/ \E x \in Quiet : Wrote(x, lines, lines')
<1>1. LogRejected \/ UNCHANGED ledgerVars => LedgerInv' /\ lines' = lines
  BY NotWriting
<1>2. ASSUME NEW x \in Quiet, NEW next, LogThen(x, next)
      PROVE  LedgerInv' /\ (lines' = lines \/ Wrote(x, lines, lines'))
  BY <1>2, WritingThen DEF EventType, Quiet
<1>3. CASE StartConsolidation
  BY <1>2, <1>3 DEF StartConsolidation, Quiet
<1>4. CASE analyzeTaskResults \/ GitCannotStart \/ CheckoutMain \/ Pull
  BY <1>1, <1>4 DEF analyzeTaskResults, GitCannotStart, CheckoutMain, Pull
<1>5. CASE BranchFails
  <2>1. Logged("branch_creation_failed") \/ LogRejected
    BY <1>5 DEF BranchFails
  <2> QED
    BY <1>1, <2>1, Writing DEF EventType, Quiet
<1>6. CASE CheckoutBranch
  BY <1>2, <1>6 DEF CheckoutBranch, Quiet
<1>7. CASE \E l \in todo : SkipMissing(l) \/ MergeLane(l) \/ MergeKilled(l) \/ MergeConflict(l)
  <2>1. \/ UNCHANGED ledgerVars
        \/ LogThen("worktree_merged", "merge") \/ LogThen("merge_conflict", "merge")
    BY <1>7 DEF SkipMissing, MergeLane, MergeKilled, MergeConflict
  <2> QED
    BY <1>1, <1>2, <2>1 DEF Quiet
<1>8. CASE MergesDone
  BY <1>1, <1>8 DEF MergesDone
<1>9. CASE generateSummary
  BY <1>1, <1>2, <1>9 DEF generateSummary, Quiet
<1>10. CASE FinishConsolidation
  BY <1>2, <1>10 DEF FinishConsolidation, Quiet
<1> QED
  BY <1>3, <1>4, <1>5, <1>6, <1>7, <1>8, <1>9, <1>10 DEF ConsolidatorStep

\* The stage and the record of the outcome: one step per action.
LEMMA StageStep ==
  ASSUME IInv, [Next]_vars
  PROVE  LedgerInv' /\ StageInv' /\ EndInv'
<1>0. LedgerInv /\ StageInv /\ EndInv
  BY DEF IInv
<1> USE DEF EventType, StageInv, EndInv, Early, Wrote
<1>1. CASE Load
  <2>1. LogTo("auto_command_started", "decompose") /\ stage = "load" /\ UNCHANGED <<exit, cpc>>
    BY <1>1 DEF Load, consolidatorVars, consolidatorState
  <2> QED
    BY <1>0, <2>1, WritingTo
<1>2. CASE Decompose
  <2>1. UNCHANGED <<stage, exit, cpc, ledgerVars>>
    BY <1>2 DEF Decompose, pipeVars, consolidatorVars, consolidatorState
  <2> QED
    BY <1>0, <2>1, NotWriting
<1>3. CASE DecompositionFailed
  <2>1. /\ stage = "decompose" /\ UNCHANGED cpc
        /\ \/ Logged("auto_command_failed") /\ stage' = "end" /\ exit' = 1
           \/ LogRejected /\ stage' = "catch" /\ UNCHANGED exit
    BY <1>3 DEF DecompositionFailed, consolidatorVars, consolidatorState
  <2> QED
    BY <1>0, <2>1, Writing, NotWriting
<1>4. CASE DecompositionCompleted
  <2>1. LogTo("decomposition_completed", "execute") /\ stage = "decompose" /\ UNCHANGED <<exit, cpc>>
    BY <1>4 DEF DecompositionCompleted, consolidatorVars, consolidatorState
  <2> QED
    BY <1>0, <2>1, WritingTo
<1>5. CASE Execute
  <2>1. /\ stage = "execute" /\ stage' \in {"test", "report", "catch"}
        /\ UNCHANGED <<exit, cpc, ledgerVars>>
    BY <1>5 DEF Execute, Throws, consolidatorVars, consolidatorState
  <2> QED
    BY <1>0, <2>1, NotWriting
<1>6. CASE RunTests
  <2>1. /\ stage = "test" /\ UNCHANGED <<exit, cpc>>
        /\ LogTo("sandbox_test_run", "commit") \/ Throws
    BY <1>6 DEF RunTests, consolidatorVars, consolidatorState
  <2>2. CASE Throws
    BY <1>0, <2>1, <2>2, NotWriting DEF Throws
  <2>3. CASE LogTo("sandbox_test_run", "commit")
    BY <1>0, <2>1, <2>3, WritingTo
  <2> QED
    BY <2>1, <2>2, <2>3
<1>7. CASE CommitTask
  <2>1. LogTo("improve_self_task_completed", "test") /\ stage = "commit" /\ UNCHANGED <<exit, cpc>>
    BY <1>7 DEF CommitTask, consolidatorVars, consolidatorState
  <2> QED
    BY <1>0, <2>1, WritingTo
<1>8. CASE NoCommit
  <2>1. /\ stage = "commit" /\ UNCHANGED <<exit, cpc>>
        /\ LogTo("improve_self_task_completed", "test") \/ Throws
    BY <1>8 DEF NoCommit, consolidatorVars, consolidatorState
  <2>2. CASE Throws
    BY <1>0, <2>1, <2>2, NotWriting DEF Throws
  <2>3. CASE LogTo("improve_self_task_completed", "test")
    BY <1>0, <2>1, <2>3, WritingTo
  <2> QED
    BY <2>1, <2>2, <2>3
<1>9. CASE ImproveSelfDone
  <2>1. /\ stage = "test" /\ stage' = "report" /\ UNCHANGED <<exit, cpc, ledgerVars>>
    BY <1>9 DEF ImproveSelfDone, consolidatorVars, consolidatorState
  <2> QED
    BY <1>0, <2>1, NotWriting
<1>10. CASE Report
  <2>1. LogTo("auto_command_completed", "consolidate") /\ stage = "report" /\ UNCHANGED exit
    BY <1>10 DEF Report
  <2> QED
    BY <1>0, <2>1, WritingTo
<1>11. CASE Consolidate
  <2>1. /\ stage = "consolidate" /\ stage' \in {"consolidate", "catch"} /\ UNCHANGED exit
        /\ ConsolidatorStep
    BY <1>11 DEF Consolidate
  <2>2. /\ LedgerInv'
        /\ lines' = lines \/ \E x \in Quiet : Wrote(x, lines, lines')
    BY <1>0, <2>1, ConsolidatorWrites
  <2>3. On(lines', "auto_command_failed") = On(lines, "auto_command_failed")
    BY <2>2 DEF Quiet
  <2> QED
    BY <1>0, <2>1, <2>2, <2>3
<1>12. CASE Consolidated
  <2>1. LogTo("consolidation_completed", "lint") /\ stage = "consolidate" /\ UNCHANGED <<exit, cpc>>
    BY <1>12 DEF Consolidated, consolidatorVars, consolidatorState
  <2> QED
    BY <1>0, <2>1, WritingTo
<1>13. CASE runBiomeLint
  <2>1. /\ stage = "lint" /\ UNCHANGED <<exit, cpc>>
        /\ LogTo("lint_applied", "pr") \/ Throws
    BY <1>13 DEF runBiomeLint, consolidatorVars, consolidatorState
  <2>2. CASE Throws
    BY <1>0, <2>1, <2>2, NotWriting DEF Throws
  <2>3. CASE LogTo("lint_applied", "pr")
    BY <1>0, <2>1, <2>3, WritingTo
  <2> QED
    BY <2>1, <2>2, <2>3
<1>14. CASE createGitHubPullRequest
  <2>1. LogTo("github_pr_skipped", "summary") /\ stage = "pr" /\ UNCHANGED <<exit, cpc>>
    BY <1>14 DEF createGitHubPullRequest, consolidatorVars, consolidatorState
  <2> QED
    BY <1>0, <2>1, WritingTo
<1>15. CASE GenerateSummary
  <2>1. /\ stage = "summary" /\ UNCHANGED <<exit, cpc>>
        /\ \/ LoggedByOther("summary_generated") /\ stage' = "finish"
           \/ Throws
    BY <1>15 DEF GenerateSummary, consolidatorVars, consolidatorState
  <2> QED
    BY <1>0, <2>1, Writing, NotWriting DEF Throws
<1>16. CASE Finish
  <2>1. /\ stage = "finish" /\ UNCHANGED cpc
        /\ \/ Logged("summary_generated") /\ stage' = "end" /\ exit' = 0
           \/ LogRejected /\ stage' = "catch" /\ UNCHANGED exit
    BY <1>16 DEF Finish, consolidatorVars, consolidatorState
  <2> QED
    BY <1>0, <2>1, Writing, NotWriting
<1>17. CASE Catch
  <2>1. /\ stage = "catch" /\ stage' = "end" /\ exit' = 1 /\ UNCHANGED cpc
        /\ Logged("auto_command_failed") \/ LogRejected
    BY <1>17 DEF Catch, consolidatorVars, consolidatorState
  <2> QED
    BY <1>0, <2>1, Writing, NotWriting
<1>18. CASE UNCHANGED vars
  <2>1. UNCHANGED <<stage, exit, cpc, ledgerVars>>
    BY <1>18 DEF vars, pipeVars, consolidatorVars, consolidatorState
  <2> QED
    BY <1>0, <2>1, NotWriting
<1> HIDE DEF EventType, StageInv, EndInv, Early, Wrote
<1> QED
  BY <1>1, <1>2, <1>3, <1>4, <1>5, <1>6, <1>7, <1>8, <1>9, <1>10, <1>11, <1>12, <1>13, <1>14,
     <1>15, <1>16, <1>17, <1>18 DEF Next

\* runImproveSelf: a commit is made on the outcome exec has reported.
LEMMA CommitStep ==
  ASSUME IInv, [Next]_vars PROVE CommitInv'
<1>0. CommitInv
  BY DEF IInv
<1>1. CASE RunTests
  BY <1>0, <1>1 DEF RunTests, CommitInv
<1>2. CASE CommitTask
  <2>1. /\ sandboxResult.code = "green" /\ sandboxResult' = NoTests /\ at' = at + 1
        /\ commits' = commits \cup {sandboxResult.tests}
    BY <1>2 DEF CommitTask, TestsPassed
  <2>2. sandboxResult \in Outcomes
    <3>1. NoTests.code = "red"
      BY DEF NoTests
    <3> QED
      BY <1>0, <2>1, <3>1 DEF CommitInv
  <2>3. sandboxResult.tests \in {"passed", "killed"}
    BY <2>1, <2>2, GreenIsBacked
  <2>4. commits' \subseteq {"passed", "killed"}
    BY <1>0, <2>1, <2>3 DEF CommitInv
  <2>5. at' \in Nat
    BY <1>0, <2>1 DEF CommitInv
  <2> QED
    BY <2>1, <2>4, <2>5 DEF CommitInv
<1>3. CASE NoCommit
  <2>1. at' = at + 1 /\ sandboxResult' = NoTests /\ commits' = commits
    BY <1>3 DEF NoCommit
  <2>2. at' \in Nat
    BY <1>0, <2>1 DEF CommitInv
  <2> QED
    BY <1>0, <2>1, <2>2 DEF CommitInv
<1>4. ASSUME UNCHANGED <<at, sandboxResult, commits>> PROVE CommitInv'
  BY <1>0, <1>4 DEF CommitInv
<1>5. CASE Decompose \/ UNCHANGED vars
  BY <1>4, <1>5 DEF Decompose, vars, pipeVars
<1>6. CASE \/ Load \/ DecompositionFailed \/ DecompositionCompleted \/ Execute \/ ImproveSelfDone
           \/ Report \/ Consolidate \/ Consolidated
  BY <1>4, <1>6 DEF Load, DecompositionFailed, DecompositionCompleted, Execute, ImproveSelfDone,
                    Report, Consolidate, Consolidated
<1>7. CASE runBiomeLint \/ createGitHubPullRequest \/ GenerateSummary \/ Finish \/ Catch
  BY <1>4, <1>7 DEF runBiomeLint, createGitHubPullRequest, GenerateSummary, Finish, Catch
<1> QED
  BY <1>1, <1>2, <1>3, <1>5, <1>6, <1>7 DEF Next

\* The variables of the command itself keep their types.
PipeTypeOK ==
  /\ stage \in {"load", "decompose", "execute", "test", "commit", "report", "consolidate",
                "lint", "pr", "summary", "finish", "catch", "end"}
  /\ improveSelf \in BOOLEAN
  /\ dirty \in BOOLEAN
  /\ exit \in {0, 1, 9}

LEMMA PipeStep ==
  ASSUME IInv, [Next]_vars PROVE PipeTypeOK'
<1>0. PipeTypeOK
  BY DEF IInv, TypeOK, PipeTypeOK
<1> USE DEF PipeTypeOK
<1>1. CASE Load
  BY <1>0, <1>1 DEF Load, LogTo
<1>2. CASE Decompose
  BY <1>0, <1>2 DEF Decompose, pipeVars
<1>3. CASE DecompositionFailed
  BY <1>0, <1>3 DEF DecompositionFailed
<1>4. CASE DecompositionCompleted
  BY <1>0, <1>4 DEF DecompositionCompleted, LogTo
<1>5. CASE Execute
  BY <1>0, <1>5 DEF Execute, Throws
<1>6. CASE RunTests
  <2>1. stage' \in {"commit", "catch"} /\ UNCHANGED <<improveSelf, exit>>
    BY <1>6 DEF RunTests, LogTo, Throws
  <2>2. PICK o \in Outcomes : dirty' \in {dirty, dirty \/ o.started}
    BY <1>6 DEF RunTests
  <2>3. dirty' \in BOOLEAN
    <3>1. (dirty \/ o.started) \in BOOLEAN
      OBVIOUS
    <3> QED
      BY <1>0, <2>2, <3>1
  <2> QED
    BY <1>0, <2>1, <2>3
<1>7. CASE CommitTask
  BY <1>0, <1>7 DEF CommitTask, LogTo
<1>8. CASE NoCommit
  BY <1>0, <1>8 DEF NoCommit, LogTo, Throws
<1>9. CASE ImproveSelfDone
  BY <1>0, <1>9 DEF ImproveSelfDone
<1>10. CASE Report
  BY <1>0, <1>10 DEF Report, LogTo
<1>11. CASE Consolidate
  BY <1>0, <1>11 DEF Consolidate
<1>12. CASE Consolidated
  BY <1>0, <1>12 DEF Consolidated, LogTo
<1>13. CASE runBiomeLint
  BY <1>0, <1>13 DEF runBiomeLint, BiomeRewrites, LogTo, Throws
<1>14. CASE createGitHubPullRequest
  BY <1>0, <1>14 DEF createGitHubPullRequest, LogTo
<1>15. CASE GenerateSummary
  BY <1>0, <1>15 DEF GenerateSummary, Throws
<1>16. CASE Finish
  BY <1>0, <1>16 DEF Finish
<1>17. CASE Catch
  BY <1>0, <1>17 DEF Catch
<1>18. CASE UNCHANGED vars
  BY <1>0, <1>18 DEF vars, pipeVars
<1> HIDE DEF PipeTypeOK
<1> QED
  BY <1>1, <1>2, <1>3, <1>4, <1>5, <1>6, <1>7, <1>8, <1>9, <1>10, <1>11, <1>12, <1>13, <1>14,
     <1>15, <1>16, <1>17, <1>18 DEF Next

LEMMA IInvStep ==
  ASSUME IInv, [Next]_vars PROVE IInv'
<1>1. ComponentsInv' /\ LedgerInv' /\ StageInv' /\ EndInv' /\ CommitInv' /\ PipeTypeOK'
  BY ComponentsStep, StageStep, CommitStep, PipeStep
<1>2. TypeOK'
  <2>1. /\ at' \in Nat /\ commits' \subseteq TestVerdict
        /\ sandboxResult' \in Outcomes \cup {NoTests}
    BY <1>1 DEF CommitInv, TestVerdict
  <2>2. DecomposerTypeOK' /\ ConsolidatorTypeOK'
    BY <1>1 DEF ComponentsInv
  <2> QED
    BY <1>1, <2>1, <2>2 DEF TypeOK, PipeTypeOK
<1> QED
  BY <1>1, <1>2 DEF IInv

\* The inductive invariant holds in every reachable state.
LEMMA Inductive == Spec => []IInv
<1>1. Init => IInv
  BY IInvInit
<1>2. IInv /\ [Next]_vars => IInv'
  BY IInvStep
<1> QED
  BY <1>1, <1>2, PTL DEF Spec

\* The state of `apohara auto`, its decomposer and its consolidator keeps its type.
THEOREM TypeCorrect == Spec => []TypeOK
<1>1. IInv => TypeOK
  BY IInvImplies
<1> QED
  BY <1>1, Inductive, PTL

\* detectCycle of decomposer.ts: whatever plan the model replies with, a plan that
\* is handed on has no cycle and a cycle that is reported is one.
THEOREM AcceptsDags == Spec => []AcceptsOnlyDags
<1>1. IInv => AcceptsOnlyDags
  BY IInvImplies
<1> QED
  BY <1>1, Inductive, PTL

\* injectIndexerContext: however long the plan, and whichever of its calls fail, the
\* loop over the tasks is left only when all of them carry context, or it is never
\* entered.
THEOREM ContextAllOrNone == Spec => []ContextForAllOrNone
<1>1. IInv => ContextForAllOrNone
  BY IInvImplies
<1> QED
  BY <1>1, Inductive, PTL

\* Consolidator.run: what its exit code says of the repository is true, for any
\* lanes, any stored state, any merges that fail and any conflict left by an earlier
\* run or by the pull, as long as no git process was killed by a signal.
THEOREM ExitCodeHonest == Spec => []ExitCodeMatchesRepository
<1>1. IInv => ExitCodeMatchesRepository
  BY IInvImplies
<1> QED
  BY <1>1, Inductive, PTL

\* The exit code of the process agrees with the last entry of the ledger.
THEOREM ExitAgrees == Spec => []ExitTellsOutcome
<1>1. IInv => ExitTellsOutcome
  BY IInvImplies
<1> QED
  BY <1>1, Inductive, PTL

\* runImproveSelf and Isolator.exec: no commit is made for tests that failed, were
\* refused or never started, on any platform and with any fault of the sandbox.
THEOREM CommitsBacked == Spec => []CommitsBackedByTests
<1>1. IInv => CommitsBackedByTests
  BY IInvImplies
<1> QED
  BY <1>1, Inductive, PTL
=============================================================================
