-------------------------- MODULE EventQueueProofs --------------------------
(* Proofs about EventQueue: the loops of the heap methods end, what they    *)
(* leave is a heap of the same events, and so the queue is a TimedEvents.   *)
EXTENDS EventQueue, FiniteSetTheorems, WellFoundedInduction, TLAPS

-----------------------------------------------------------------------------
(* Loops.  What an induction would give is taken from the least element of  *)
(* a set of counterexamples.                                                *)

LEMMA LeastNatural ==
    ASSUME NEW T \in SUBSET Nat, T # {}
    PROVE  \E i \in T : \A j \in T : i <= j
<1>1. PICK i \in T : \A j \in T : ~(<<j, i>> \in OpToRel(<, Nat))
  BY WFMin, NatLessThanWellFounded
<1>2. \A j \in T : ~(j < i)
  BY <1>1 DEF OpToRel
<1>3. QED
  BY <1>2

(* f takes each state in S to where a loop ends that stops in T and         *)
(* otherwise goes on in step[s].                                            *)
IsLoop(f, S, T, step) == f = [s \in S |-> IF s \in T THEN s ELSE f[step[s]]]

(* There is such a function, whether or not the loop ends: what it ends in  *)
(* is the stopping state among those it reaches.                            *)
LEMMA LoopExists ==
    ASSUME NEW S, NEW T \in SUBSET S, NEW step \in [S \ T -> S]
    PROVE  \E f : IsLoop(f, S, T, step)
<1> DEFINE Closed(s, L) == s \in L /\ \A r \in L \ T : step[r] \in L
           Reach(s) == {r \in S : \A L \in SUBSET S : Closed(s, L) => r \in L}
           End(s) == CHOOSE r : r \in Reach(s) /\ r \in T
           f == [s \in S |-> End(s)]
<1>1. ASSUME NEW s \in S
      PROVE  Closed(s, Reach(s))
  OBVIOUS
<1>2. ASSUME NEW s \in S, s \in T
      PROVE  Reach(s) = {s}
  <2>1. Closed(s, {s})
    BY <1>2
  <2>2. QED
    BY <1>1, <1>2, <2>1, ZenonT(30)
<1>3. ASSUME NEW s \in S \ T
      PROVE  Reach(s) = {s} \cup Reach(step[s])
  <2>1. step[s] \in S
    OBVIOUS
  <2>2. Closed(step[s], Reach(s))
    BY <1>1
  <2>3. Closed(s, {s} \cup Reach(step[s]))
    BY <1>1, <2>1
  <2>4. Reach(s) \in SUBSET S /\ {s} \cup Reach(step[s]) \in SUBSET S
    OBVIOUS
  <2>5. Reach(step[s]) \subseteq Reach(s)
    BY <2>2, <2>4
  <2>6. Reach(s) \subseteq {s} \cup Reach(step[s])
    BY <2>3, <2>4
  <2>7. QED
    BY <2>5, <2>6, <1>1
<1> HIDE DEF Reach
<1>4. ASSUME NEW s \in S, s \in T
      PROVE  End(s) = s
  BY <1>2, <1>4
<1>5. ASSUME NEW s \in S \ T
      PROVE  End(s) = End(step[s])
  <2>1. \A r : (r \in Reach(s) /\ r \in T) <=> (r \in Reach(step[s]) /\ r \in T)
    BY <1>3
  <2>2. QED
    BY <2>1
<1> HIDE DEF End
<1>6. \A s \in S : f[s] = IF s \in T THEN s ELSE f[step[s]]
  <2>1. ASSUME NEW s \in S
        PROVE  f[s] = IF s \in T THEN s ELSE f[step[s]]
    <3>1. CASE s \in T
      BY <3>1, <1>4
    <3>2. CASE s \notin T
      <4>1. step[s] \in S
        BY <3>2
      <4>2. QED
        BY <3>2, <4>1, <1>5
    <3>3. QED
      BY <3>1, <3>2
  <2>2. QED
    BY <2>1
<1>7. f = [s \in S |-> f[s]]
  OBVIOUS
<1> HIDE DEF f
<1>8. [s \in S |-> f[s]] = [s \in S |-> IF s \in T THEN s ELSE f[step[s]]]
  BY <1>6
<1>9. QED
  BY <1>7, <1>8 DEF IsLoop

(* A loop whose every step keeps an invariant I and lowers a rank ends, in  *)
(* a state where I holds and it may stop.                                   *)
LEMMA LoopEnds ==
    ASSUME NEW S, NEW T, NEW step, NEW f,
           IsLoop(f, S, T, step),
           NEW I \in SUBSET S, NEW rank \in [I -> Nat],
           \A s \in I \ T : step[s] \in I /\ rank[step[s]] < rank[s],
           NEW c \in I
    PROVE  f[c] \in I /\ f[c] \in T
<1> DEFINE Bad == {s \in I : ~(f[s] \in I /\ f[s] \in T)}
           Ranks == {rank[s] : s \in Bad}
<1>1. SUFFICES ASSUME Bad # {}
               PROVE  FALSE
  OBVIOUS
<1>2. Ranks \in SUBSET Nat /\ Ranks # {}
  BY <1>1
<1>3. PICK k \in Ranks : \A j \in Ranks : k <= j
  BY <1>2, LeastNatural
<1>4. PICK s \in Bad : k = rank[s]
  BY <1>3
<1>5. s \notin T
  BY DEF IsLoop
<1>6. f[s] = f[step[s]]
  BY <1>5 DEF IsLoop
<1>7. step[s] \in Bad
  BY <1>5, <1>6
<1>8. rank[step[s]] \in Ranks
  BY <1>7
<1>9. rank[step[s]] < rank[s] /\ rank[s] \in Nat /\ rank[step[s]] \in Nat
  BY <1>5
<1>10. k <= rank[step[s]]
  BY <1>3, <1>8
<1>11. QED
  BY <1>4, <1>9, <1>10

-----------------------------------------------------------------------------
(* Heaps.  Parent(j) is the index above j; a heap in the middle of a loop   *)
(* may have slots beyond the n in use.                                      *)

Parent(j) == (j - 1) \div 2

HeapsOf(D, n) == [queue : [D -> Events], pos : [Events -> Nat], n : {n}]

(* The slots in use hold E, each event at the index its pos names.          *)
Placed(g, E) ==
    /\ \A i \in 0..g.n - 1 : g.queue[i] \in E /\ g.pos[g.queue[i]] = i
    /\ \A e \in E : g.pos[e] \in 0..g.n - 1 /\ g.queue[g.pos[e]] = e

(* Events outside E keep their pos.                                         *)
PosKept(g, h, E) == \A e \in Events \ E : g.pos[e] = h.pos[e]

InOrder(g, t, j) == t[g.queue[Parent(j)]] <= t[g.queue[j]]
Ordered(g, t) == \A j \in 1..g.n - 1 : InOrder(g, t, j)

(* What k sits on does not come later than what hangs under k.              *)
Bridged(g, t, k) ==
    \A j \in 1..g.n - 1 : Parent(j) = k /\ k > 0 => t[g.queue[Parent(k)]] <= t[g.queue[j]]

(* Only k may be too early for its place.                                   *)
OrderedAbove(g, t, k) ==
    /\ \A j \in 1..g.n - 1 : j # k => InOrder(g, t, j)
    /\ Bridged(g, t, k)

(* Only k may be too late for its place, or, if it is k0, too early.        *)
OrderedBelow(g, t, k, k0) ==
    /\ \A j \in 1..g.n - 1 : Parent(j) # k /\ ~(j = k /\ k = k0) => InOrder(g, t, j)
    /\ Bridged(g, t, k)

LEMMA ParentBelow ==
    ASSUME NEW j \in Nat, j > 0
    PROVE  /\ Parent(j) \in Nat /\ Parent(j) < j
           /\ j = 2 * Parent(j) + 1 \/ j = 2 * Parent(j) + 2
BY DEF Parent

LEMMA ParentOfChild ==
    ASSUME NEW i \in Nat
    PROVE  Parent(2 * i + 1) = i /\ Parent(2 * i + 2) = i
BY DEF Parent

(* What evheap_cond_swap does with two different slots.                     *)
LEMMA CondSwap ==
    ASSUME NEW D \in SUBSET Nat, NEW n, NEW g \in HeapsOf(D, n), NEW t \in [Events -> Nat],
           NEW low \in D, NEW high \in D, low # high
    PROVE  LET s == evheap_cond_swap(g, t, low, high)
           IN  /\ s.swapped \in BOOLEAN
               /\ s.swapped <=> t[g.queue[high]] <= t[g.queue[low]]
               /\ s.swapped =>
                    /\ s.heap \in HeapsOf(D, n)
                    /\ s.heap.n = g.n
                    /\ s.heap.queue = [i \in D |-> IF i = low THEN g.queue[high]
                                                   ELSE IF i = high THEN g.queue[low]
                                                   ELSE g.queue[i]]
                    /\ s.heap.pos = [e \in Events |-> IF e = g.queue[low] THEN high
                                                      ELSE IF e = g.queue[high] THEN low
                                                      ELSE g.pos[e]]
<1> DEFINE a == g.queue[low]
           b == g.queue[high]
           swap == [queue |-> [g.queue EXCEPT ![low] = b, ![high] = a],
                    pos |-> [g.pos EXCEPT ![b] = low, ![a] = high],
                    n |-> g.n]
<1>1. /\ g.queue \in [D -> Events] /\ g.pos \in [Events -> Nat] /\ g.n = n
      /\ a \in Events /\ b \in Events /\ t[a] \in Nat /\ t[b] \in Nat
  BY DEF HeapsOf
<1>2. CASE t[a] < t[b]
  <2>1. evheap_cond_swap(g, t, low, high) = [swapped |-> FALSE, heap |-> g]
    BY <1>2 DEF evheap_cond_swap
  <2>2. QED
    BY <1>1, <1>2, <2>1
<1>3. CASE ~(t[a] < t[b])
  <2>1. evheap_cond_swap(g, t, low, high) = [swapped |-> TRUE, heap |-> swap]
    BY <1>3 DEF evheap_cond_swap
  <2>2. t[b] <= t[a]
    BY <1>1, <1>3
  <2>3. swap \in HeapsOf(D, n)
    BY <1>1 DEF HeapsOf
  <2>4. /\ swap.queue = [i \in D |-> IF i = low THEN b ELSE IF i = high THEN a ELSE g.queue[i]]
        /\ swap.pos = [e \in Events |-> IF e = a THEN high ELSE IF e = b THEN low ELSE g.pos[e]]
        /\ swap.n = g.n
    BY <1>1
  <2>5. QED
    BY <1>1, <2>1, <2>2, <2>3, <2>4
<1>4. QED
  BY <1>2, <1>3

-----------------------------------------------------------------------------
(* evheap_bubble_up.                                                        *)

UpSwap(t, c) == evheap_cond_swap(c.heap, t, Parent(c.at), c.at)
UpGoes(t, c) == c.at > 0 /\ UpSwap(t, c).swapped
UpNext(t, c) == [heap |-> UpSwap(t, c).heap, at |-> Parent(c.at)]
UpEnds(h, t) == {c \in Cells(h) : ~UpGoes(t, c)}
UpSteps(h, t) == [c \in Cells(h) \ UpEnds(h, t) |-> UpNext(t, c)]

LEMMA UpStep ==
    ASSUME NEW m \in Nat, NEW h, DOMAIN h.queue = 0..m, NEW t \in [Events -> Nat],
           NEW c \in Cells(h), UpGoes(t, c)
    PROVE  /\ UpNext(t, c) \in Cells(h)
           /\ UpNext(t, c).at < c.at
<1>1. c.heap \in HeapsOf(0..m, h.n) /\ c.at \in 0..m
  BY DEF Cells, HeapsOf
<1>2. c.at \in Nat /\ c.at > 0
  BY <1>1 DEF UpGoes
<1>3. Parent(c.at) \in 0..m /\ Parent(c.at) < c.at
  BY <1>1, <1>2, ParentBelow
<1>4. UpSwap(t, c).heap \in HeapsOf(0..m, h.n)
  <2>1. 0..m \in SUBSET Nat /\ Parent(c.at) # c.at /\ UpSwap(t, c).swapped
    BY <1>1, <1>3 DEF UpGoes
  <2> HIDE DEF HeapsOf
  <2>2. QED
    BY <1>1, <1>3, <2>1, CondSwap DEF UpSwap
<1>5. QED
  BY <1>3, <1>4 DEF UpNext, Cells, HeapsOf

(* The loop as the lemmas about loops have it.                              *)
LEMMA UpLoop ==
    ASSUME NEW m \in Nat, NEW h, DOMAIN h.queue = 0..m, NEW t \in [Events -> Nat], NEW idx
    PROVE  \E f : /\ IsLoop(f, Cells(h), UpEnds(h, t), UpSteps(h, t))
                  /\ evheap_bubble_up(h, t, idx) = f[[heap |-> h, at |-> idx]].heap
<1> DEFINE S == Cells(h)
           T == UpEnds(h, t)
           step == UpSteps(h, t)
           loop == CHOOSE f : f = [c \in S |-> IF UpGoes(t, c) THEN f[UpNext(t, c)] ELSE c]
<1>1. T \in SUBSET S /\ step \in [S \ T -> S]
  BY UpStep DEF UpEnds, UpSteps
<1>2. PICK f : IsLoop(f, S, T, step)
  <2> HIDE DEF S, T, step
  <2>1. QED
    BY <1>1, LoopExists
<1>3. \A g : IsLoop(g, S, T, step)
              <=> g = [c \in S |-> IF UpGoes(t, c) THEN g[UpNext(t, c)] ELSE c]
  BY DEF IsLoop, UpEnds, UpSteps
<1>4. f = [c \in S |-> IF UpGoes(t, c) THEN f[UpNext(t, c)] ELSE c]
  BY <1>2, <1>3
<1>5. loop = [c \in S |-> IF UpGoes(t, c) THEN loop[UpNext(t, c)] ELSE c]
  BY <1>4
<1>6. evheap_bubble_up(h, t, idx) = loop[[heap |-> h, at |-> idx]].heap
  BY DEF evheap_bubble_up, UpGoes, UpNext, UpSwap, Parent
<1> HIDE DEF loop
<1>7. IsLoop(loop, S, T, step)
  BY <1>5, <1>3
<1>8. QED
  BY <1>6, <1>7

(* A swap of two slots in use leaves every event where its pos says.        *)
LEMMA SwapPlaced ==
    ASSUME NEW m \in Nat, NEW n \in Nat, n <= m + 1, NEW g \in HeapsOf(0..m, n),
           NEW t \in [Events -> Nat], NEW E \in SUBSET Events, Placed(g, E),
           NEW low \in 0..n - 1, NEW high \in 0..n - 1, low # high,
           evheap_cond_swap(g, t, low, high).swapped
    PROVE  LET s == evheap_cond_swap(g, t, low, high).heap
           IN  /\ Placed(s, E)
               /\ \A e \in Events \ E : s.pos[e] = g.pos[e]
<1> DEFINE s == evheap_cond_swap(g, t, low, high).heap
           a == g.queue[low]
           b == g.queue[high]
<1>1. low \in 0..m /\ high \in 0..m /\ 0..m \in SUBSET Nat
  OBVIOUS
<1>2. /\ g.n = n
      /\ s.n = n
      /\ \A i \in 0..n - 1 : s.queue[i] = IF i = low THEN b ELSE IF i = high THEN a ELSE g.queue[i]
      /\ \A e \in Events : s.pos[e] = IF e = a THEN high ELSE IF e = b THEN low ELSE g.pos[e]
  <2>1. /\ s.n = g.n
        /\ s.queue = [i \in 0..m |-> IF i = low THEN b ELSE IF i = high THEN a ELSE g.queue[i]]
        /\ s.pos = [e \in Events |-> IF e = a THEN high ELSE IF e = b THEN low ELSE g.pos[e]]
    <3> HIDE DEF HeapsOf
    <3>1. QED
      BY <1>1, CondSwap
  <2>2. g.n = n
    BY DEF HeapsOf
  <2> HIDE DEF s, a, b
  <2>3. QED
    BY <2>1, <2>2
<1>3. /\ a \in E /\ b \in E /\ g.pos[a] = low /\ g.pos[b] = high
  BY <1>2 DEF Placed
<1> HIDE DEF s, a, b
<1>4. ASSUME NEW i \in 0..n - 1
      PROVE  s.queue[i] \in E /\ s.pos[s.queue[i]] = i
  <2>1. g.queue[i] \in E /\ g.pos[g.queue[i]] = i
    BY <1>2 DEF Placed
  <2>2. QED
    BY <1>2, <1>3, <2>1
<1>5. ASSUME NEW e \in E
      PROVE  s.pos[e] \in 0..n - 1 /\ s.queue[s.pos[e]] = e
  <2>1. g.pos[e] \in 0..n - 1 /\ g.queue[g.pos[e]] = e
    BY <1>2 DEF Placed
  <2>2. QED
    BY <1>2, <1>3, <2>1, SMTT(30) DEF a, b
<1>6. \A e \in Events \ E : s.pos[e] = g.pos[e]
  BY <1>2, <1>3
<1>7. QED
  BY <1>2, <1>4, <1>5, <1>6 DEF Placed, s

(* The times in s, the heap g after a swap, slot by slot.                   *)
TimesSwapped(g, s, t, low, high) ==
    /\ s.n = g.n
    /\ t[g.queue[high]] <= t[g.queue[low]]
    /\ t[s.queue[low]] = t[g.queue[high]] /\ t[s.queue[high]] = t[g.queue[low]]
    /\ \A i \in 0..g.n - 1 : t[g.queue[i]] \in Nat
    /\ \A i \in 0..g.n - 1 : i # low /\ i # high => t[s.queue[i]] = t[g.queue[i]]

LEMMA SwapTimes ==
    ASSUME NEW m \in Nat, NEW n \in Nat, n <= m + 1, NEW g \in HeapsOf(0..m, n),
           NEW t \in [Events -> Nat],
           NEW low \in 0..n - 1, NEW high \in 0..n - 1, low # high,
           evheap_cond_swap(g, t, low, high).swapped
    PROVE  TimesSwapped(g, evheap_cond_swap(g, t, low, high).heap, t, low, high)
<1> DEFINE s == evheap_cond_swap(g, t, low, high).heap
           a == g.queue[low]
           b == g.queue[high]
<1>1. low \in 0..m /\ high \in 0..m /\ 0..m \in SUBSET Nat
  OBVIOUS
<1>2. /\ s.n = g.n
      /\ s.queue = [i \in 0..m |-> IF i = low THEN b ELSE IF i = high THEN a ELSE g.queue[i]]
      /\ t[b] <= t[a]
  <2> HIDE DEF HeapsOf
  <2>1. QED
    BY <1>1, CondSwap
<1>3. g.n = n /\ g.queue \in [0..m -> Events]
  BY DEF HeapsOf
<1>4. \A i \in 0..n - 1 : t[g.queue[i]] \in Nat
  BY <1>3
<1> HIDE DEF s
<1>5. QED
  BY <1>2, <1>3, <1>4 DEF s, TimesSwapped

LEMMA SwapAbove ==
    ASSUME NEW m \in Nat, NEW n \in Nat, n <= m + 1, NEW g \in HeapsOf(0..m, n),
           NEW t \in [Events -> Nat], NEW k \in 1..n - 1, OrderedAbove(g, t, k),
           evheap_cond_swap(g, t, Parent(k), k).swapped
    PROVE  OrderedAbove(evheap_cond_swap(g, t, Parent(k), k).heap, t, Parent(k))
<1> DEFINE s == evheap_cond_swap(g, t, Parent(k), k).heap
<1>1. PICK p : p = Parent(k)
  OBVIOUS
<1>2. p \in 0..n - 1 /\ p < k
  BY <1>1, ParentBelow
<1>3. /\ s.n = n /\ g.n = n
      /\ t[g.queue[k]] <= t[g.queue[p]]
      /\ t[s.queue[p]] = t[g.queue[k]] /\ t[s.queue[k]] = t[g.queue[p]]
      /\ \A i \in 0..n - 1 : t[g.queue[i]] \in Nat
      /\ \A i \in 0..n - 1 : i # p /\ i # k => t[s.queue[i]] = t[g.queue[i]]
  <2>1. k \in 0..n - 1 /\ p # k /\ evheap_cond_swap(g, t, p, k).swapped
    BY <1>1, <1>2
  <2>2. s = evheap_cond_swap(g, t, p, k).heap
    BY <1>1
  <2> HIDE DEF s
  <2>3. TimesSwapped(g, s, t, p, k) /\ g.n = n
    BY <1>2, <2>1, <2>2, SwapTimes DEF HeapsOf
  <2>4. QED
    BY <2>3 DEF TimesSwapped
<1> HIDE DEF s
<1>4. ASSUME NEW j \in 1..n - 1
      PROVE  /\ Parent(j) \in 0..n - 1 /\ Parent(j) < j
             /\ j # k => t[g.queue[Parent(j)]] <= t[g.queue[j]]
             /\ Parent(j) = k => t[g.queue[p]] <= t[g.queue[j]]
  <2>1. Parent(j) \in 0..n - 1 /\ Parent(j) < j
    BY ParentBelow
  <2>2. QED
    BY <1>1, <1>3, <2>1 DEF OrderedAbove, InOrder, Bridged
<1>5. ASSUME NEW j \in 1..n - 1, j # p
      PROVE  t[s.queue[Parent(j)]] <= t[s.queue[j]]
  <2>1. CASE j = k
    BY <2>1, <1>1, <1>3
  <2>2. CASE j # k /\ Parent(j) = k
    BY <2>2, <1>2, <1>3, <1>4, <1>5
  <2>3. CASE j # k /\ Parent(j) = p
    <3>1. t[g.queue[p]] <= t[g.queue[j]]
      BY <2>3, <1>4
    <3>2. t[s.queue[Parent(j)]] = t[g.queue[k]] /\ t[s.queue[j]] = t[g.queue[j]]
      BY <2>3, <1>3, <1>5
    <3>3. t[g.queue[k]] \in Nat /\ t[g.queue[p]] \in Nat /\ t[g.queue[j]] \in Nat
      BY <1>2, <1>3
    <3>4. QED
      BY <1>3, <3>1, <3>2, <3>3
  <2>4. CASE j # k /\ Parent(j) # k /\ Parent(j) # p
    <3>1. Parent(j) \in 0..n - 1 /\ t[g.queue[Parent(j)]] <= t[g.queue[j]]
      BY <2>4, <1>4
    <3>2. t[s.queue[Parent(j)]] = t[g.queue[Parent(j)]]
      BY <2>4, <3>1, <1>3
    <3>3. j \in 0..n - 1 /\ t[s.queue[j]] = t[g.queue[j]]
      BY <2>4, <1>3, <1>5
    <3>4. QED
      BY <3>1, <3>2, <3>3
  <2>5. QED
    BY <2>1, <2>2, <2>3, <2>4
<1>6. ASSUME NEW j \in 1..n - 1, Parent(j) = p, p > 0
      PROVE  t[s.queue[Parent(p)]] <= t[s.queue[j]]
  <2>1. p \in 1..n - 1 /\ p # k
    BY <1>2, <1>6
  <2>2. Parent(p) \in 0..n - 1 /\ Parent(p) < p /\ t[g.queue[Parent(p)]] <= t[g.queue[p]]
    BY <2>1, <1>4
  <2>3. t[s.queue[Parent(p)]] = t[g.queue[Parent(p)]]
    BY <2>2, <1>2, <1>3
  <2>4. t[g.queue[p]] <= t[s.queue[j]]
    <3>1. CASE j = k
      BY <3>1, <1>2, <1>3
    <3>2. CASE j # k
      <4>1. j # p
        BY <1>4, <1>6
      <4>2. QED
        BY <3>2, <4>1, <1>3, <1>4, <1>6
    <3>3. QED
      BY <3>1, <3>2
  <2>5. t[g.queue[Parent(p)]] \in Nat /\ t[g.queue[p]] \in Nat /\ t[s.queue[j]] \in Nat
    <3>1. t[s.queue[j]] = t[g.queue[p]] \/ t[s.queue[j]] = t[g.queue[j]]
      BY <1>2, <1>3, <1>4, <1>6
    <3>2. QED
      BY <1>2, <1>3, <2>2, <3>1
  <2>6. QED
    BY <2>2, <2>3, <2>4, <2>5
<1>7. QED
  BY <1>1, <1>3, <1>5, <1>6 DEF OrderedAbove, InOrder, Bridged, s

(* A heap in which only k may be too early becomes a heap.                  *)
LEMMA BubbleUp ==
    ASSUME NEW m \in Nat, NEW n \in Nat, n <= m + 1, NEW h \in HeapsOf(0..m, n),
           NEW t \in [Events -> Nat], NEW E \in SUBSET Events, NEW k \in 0..n - 1,
           Placed(h, E), OrderedAbove(h, t, k)
    PROVE  LET g == evheap_bubble_up(h, t, k)
           IN  /\ g \in HeapsOf(0..m, n)
               /\ Placed(g, E) /\ Ordered(g, t)
               /\ \A e \in Events \ E : g.pos[e] = h.pos[e]
<1> DEFINE S == Cells(h)
           T == UpEnds(h, t)
           step == UpSteps(h, t)
           start == [heap |-> h, at |-> k]
           I == {c \in S : /\ c.at \in 0..n - 1
                           /\ Placed(c.heap, E) /\ OrderedAbove(c.heap, t, c.at)
                           /\ \A e \in Events \ E : c.heap.pos[e] = h.pos[e]}
           rank == [c \in I |-> c.at]
<1>1. DOMAIN h.queue = 0..m /\ h.n = n /\ k \in 0..m
  BY DEF HeapsOf
<1>2. \A c \in S : c.heap \in HeapsOf(0..m, n) /\ c.at \in 0..m
  BY <1>1 DEF Cells, HeapsOf
<1>3. start \in I
  BY <1>1 DEF Cells, HeapsOf
<1>4. PICK f : IsLoop(f, S, T, step) /\ evheap_bubble_up(h, t, k) = f[start].heap
  BY <1>1, UpLoop
<1>5. ASSUME NEW c \in I, c \notin T
      PROVE  UpNext(t, c) \in I /\ UpNext(t, c).at < c.at
  <2>1. UpGoes(t, c) /\ c.at \in Nat /\ c.at > 0 /\ c.at \in 1..n - 1
    BY <1>5 DEF UpEnds, UpGoes
  <2>2. UpNext(t, c) \in S /\ UpNext(t, c).at < c.at
    BY <1>1, <2>1, UpStep
  <2>3. UpNext(t, c).at = Parent(c.at) /\ UpNext(t, c).heap = UpSwap(t, c).heap
    BY DEF UpNext
  <2>4. Parent(c.at) \in 0..n - 1 /\ Parent(c.at) # c.at
    BY <2>1, ParentBelow
  <2>5. PICK g : g = c.heap
    OBVIOUS
  <2>6. PICK j \in 1..n - 1 : j = c.at
    BY <2>1
  <2>7. g \in HeapsOf(0..m, n) /\ Placed(g, E) /\ OrderedAbove(g, t, j)
    BY <1>2, <2>5, <2>6
  <2>8. evheap_cond_swap(g, t, Parent(j), j).swapped
    BY <2>1, <2>5, <2>6 DEF UpGoes, UpSwap
  <2>9. OrderedAbove(UpSwap(t, c).heap, t, Parent(c.at))
    BY <2>5, <2>6, <2>7, <2>8, SwapAbove DEF UpSwap
  <2>10. /\ Placed(UpSwap(t, c).heap, E)
         /\ \A e \in Events \ E : UpSwap(t, c).heap.pos[e] = c.heap.pos[e]
    <3>1. j \in 0..n - 1 /\ Parent(j) \in 0..n - 1 /\ Parent(j) # j
      BY <2>4, <2>6
    <3>2. QED
      BY <2>5, <2>6, <2>7, <2>8, <3>1, SwapPlaced, SMTT(30) DEF UpSwap
  <2>11. QED
    BY <2>2, <2>3, <2>4, <2>9, <2>10
<1>6. I \in SUBSET S /\ rank \in [I -> Nat]
  OBVIOUS
<1>7. \A c \in I \ T : step[c] \in I /\ rank[step[c]] < rank[c]
  BY <1>5 DEF UpSteps
<1>8. f[start] \in I /\ f[start] \in T
  <2> HIDE DEF S, T, step, I, rank, start
  <2>1. QED
    BY <1>3, <1>4, <1>6, <1>7, LoopEnds
<1>9. PICK c : c = f[start]
  OBVIOUS
<1>10. /\ c \in S /\ c.at \in 0..n - 1 /\ ~UpGoes(t, c)
       /\ Placed(c.heap, E) /\ OrderedAbove(c.heap, t, c.at)
       /\ \A e \in Events \ E : c.heap.pos[e] = h.pos[e]
  BY <1>8, <1>9 DEF UpEnds
<1>11. ASSUME NEW j \in 1..n - 1
       PROVE  InOrder(c.heap, t, j)
  <2>1. c.heap \in HeapsOf(0..m, n) /\ c.heap.n = n
    BY <1>2, <1>10 DEF HeapsOf
  <2>2. CASE j # c.at
    BY <1>10, <2>1, <2>2 DEF OrderedAbove
  <2>3. CASE j = c.at
    <3>1. ~evheap_cond_swap(c.heap, t, Parent(j), j).swapped
      BY <2>3, <1>10 DEF UpGoes, UpSwap
    <3>2. Parent(j) \in 0..m /\ j \in 0..m /\ Parent(j) # j /\ 0..m \in SUBSET Nat
      BY ParentBelow
    <3>3. ~(t[c.heap.queue[j]] <= t[c.heap.queue[Parent(j)]])
      BY <2>1, <3>1, <3>2, CondSwap
    <3>4. t[c.heap.queue[j]] \in Nat /\ t[c.heap.queue[Parent(j)]] \in Nat
      BY <2>1, <3>2 DEF HeapsOf
    <3>5. QED
      BY <3>3, <3>4 DEF InOrder
  <2>4. QED
    BY <2>2, <2>3
<1>12. Ordered(c.heap, t)
  <2>1. c.heap.n = n
    BY <1>2, <1>10 DEF HeapsOf
  <2>2. QED
    BY <1>11, <2>1 DEF Ordered
<1>13. QED
  BY <1>2, <1>4, <1>9, <1>10, <1>12

-----------------------------------------------------------------------------
(* evheap_bubble_down.                                                      *)

DownSwap(t, c) == evheap_cond_swap(c.heap, t, c.at, EarlierChild(c.heap, t, c.at))
DownGoes(n, t, c) == 2 * c.at + 1 < n /\ DownSwap(t, c).swapped
DownNext(t, c) == [heap |-> DownSwap(t, c).heap, at |-> EarlierChild(c.heap, t, c.at)]
DownEnds(h, n, t) == {c \in Cells(h) : ~DownGoes(n, t, c)}
DownSteps(h, n, t) == [c \in Cells(h) \ DownEnds(h, n, t) |-> DownNext(t, c)]

(* child is one of k, and no other is earlier.                              *)
Earliest(g, t, k, child) ==
    /\ child \in 1..g.n - 1 /\ child > k /\ Parent(child) = k
    /\ \A j \in 1..g.n - 1 : Parent(j) = k => t[g.queue[child]] <= t[g.queue[j]]

LEMMA EarlierChildOf ==
    ASSUME NEW m \in Nat, NEW n \in Nat, n <= m + 1, NEW g \in HeapsOf(0..m, n),
           NEW t \in [Events -> Nat], NEW k \in Nat, 2 * k + 1 < n
    PROVE  /\ Earliest(g, t, k, EarlierChild(g, t, k)) /\ g.n = n
           /\ EarlierChild(g, t, k) \in 1..n - 1 /\ EarlierChild(g, t, k) > k
<1> DEFINE left == 2 * k + 1
<1>1. Parent(left) = k /\ Parent(left + 1) = k
  BY ParentOfChild DEF Parent
<1>2. g.n = n /\ \A i \in 0..n - 1 : t[g.queue[i]] \in Nat
  BY DEF HeapsOf
<1>3. ASSUME NEW j \in 1..n - 1, Parent(j) = k
      PROVE  j = left \/ j = left + 1
  <2>1. j \in Nat /\ j > 0
    OBVIOUS
  <2>2. j = 2 * Parent(j) + 1 \/ j = 2 * Parent(j) + 2
    BY <2>1, ParentBelow
  <2>3. QED
    BY <1>3, <2>2
<1>4. left \in 1..n - 1 /\ left > k /\ t[g.queue[left]] \in Nat
  BY <1>2
<1>5. CASE left + 1 < n /\ t[g.queue[left]] > t[g.queue[left + 1]]
  <2>1. left + 1 \in 1..n - 1 /\ t[g.queue[left + 1]] \in Nat
    BY <1>2, <1>5
  <2>2. EarlierChild(g, t, k) = left + 1
    BY <1>2, <1>5 DEF EarlierChild
  <2>3. \A j \in 1..n - 1 : Parent(j) = k => t[g.queue[left + 1]] <= t[g.queue[j]]
    BY <1>3, <1>4, <1>5, <2>1
  <2>4. left + 1 > k
    BY <1>4
  <2>5. QED
    BY <1>1, <1>2, <2>1, <2>2, <2>3, <2>4 DEF Earliest
<1>6. CASE ~(left + 1 < n /\ t[g.queue[left]] > t[g.queue[left + 1]])
  <2>1. EarlierChild(g, t, k) = left
    BY <1>2, <1>6 DEF EarlierChild
  <2>2. ASSUME NEW j \in 1..n - 1, Parent(j) = k
        PROVE  t[g.queue[left]] <= t[g.queue[j]]
    <3>1. CASE j = left
      BY <3>1, <1>4
    <3>2. CASE j = left + 1
      <4>1. left + 1 < n /\ t[g.queue[left + 1]] \in Nat
        BY <3>2, <1>2
      <4>2. QED
        BY <3>2, <4>1, <1>4, <1>6
    <3>3. QED
      BY <3>1, <3>2, <2>2, <1>3
  <2>3. QED
    BY <1>1, <1>2, <1>4, <2>1, <2>2 DEF Earliest
<1>7. QED
  BY <1>5, <1>6

LEMMA DownStep ==
    ASSUME NEW m \in Nat, NEW n \in Nat, n <= m + 1, NEW h, DOMAIN h.queue = 0..m, h.n = n,
           NEW t \in [Events -> Nat], NEW c \in Cells(h), DownGoes(n, t, c)
    PROVE  /\ DownNext(t, c) \in Cells(h)
           /\ DownNext(t, c).at > c.at /\ DownNext(t, c).at < n
<1>1. c.heap \in HeapsOf(0..m, n) /\ c.at \in 0..m
  BY DEF Cells, HeapsOf
<1>2. PICK child : child = EarlierChild(c.heap, t, c.at)
  OBVIOUS
<1>3. child \in 1..n - 1 /\ child > c.at
  <2>1. c.at \in Nat /\ 2 * c.at + 1 < n
    BY <1>1 DEF DownGoes
  <2> HIDE DEF HeapsOf
  <2>2. QED
    BY <1>1, <1>2, <2>1, EarlierChildOf
<1>4. DownSwap(t, c).heap \in HeapsOf(0..m, n)
  <2>1. 0..m \in SUBSET Nat /\ child \in 0..m /\ child # c.at /\ DownSwap(t, c).swapped
    BY <1>1, <1>3 DEF DownGoes
  <2>2. QED
    BY <1>1, <1>2, <2>1, CondSwap DEF DownSwap
<1>5. child \in 0..m
  BY <1>3
<1>6. DownNext(t, c) = [heap |-> DownSwap(t, c).heap, at |-> child]
  BY <1>2 DEF DownNext
<1>7. [heap |-> DownSwap(t, c).heap, at |-> child] \in Cells(h)
  BY <1>4, <1>5 DEF Cells, HeapsOf
<1>8. DownNext(t, c).at = child /\ child < n
  BY <1>3, <1>6
<1>9. QED
  BY <1>3, <1>6, <1>7, <1>8

LEMMA DownLoop ==
    ASSUME NEW m \in Nat, NEW n \in Nat, n <= m + 1, NEW h, DOMAIN h.queue = 0..m, h.n = n,
           NEW t \in [Events -> Nat], NEW idx
    PROVE  \E f : /\ IsLoop(f, Cells(h), DownEnds(h, n, t), DownSteps(h, n, t))
                  /\ evheap_bubble_down(h, t, idx) = f[[heap |-> h, at |-> idx]].heap
<1> DEFINE S == Cells(h)
           T == DownEnds(h, n, t)
           step == DownSteps(h, n, t)
           loop == CHOOSE f : f = [c \in S |-> IF DownGoes(n, t, c) THEN f[DownNext(t, c)] ELSE c]
<1>1. T \in SUBSET S /\ step \in [S \ T -> S]
  BY DownStep DEF DownEnds, DownSteps
<1>2. PICK f : IsLoop(f, S, T, step)
  <2> HIDE DEF S, T, step
  <2>1. QED
    BY <1>1, LoopExists
<1>3. \A g : IsLoop(g, S, T, step)
              <=> g = [c \in S |-> IF DownGoes(n, t, c) THEN g[DownNext(t, c)] ELSE c]
  BY DEF IsLoop, DownEnds, DownSteps
<1>4. f = [c \in S |-> IF DownGoes(n, t, c) THEN f[DownNext(t, c)] ELSE c]
  BY <1>2, <1>3
<1>5. loop = [c \in S |-> IF DownGoes(n, t, c) THEN loop[DownNext(t, c)] ELSE c]
  BY <1>4
<1>6. evheap_bubble_down(h, t, idx) = loop[[heap |-> h, at |-> idx]].heap
  BY DEF evheap_bubble_down, DownGoes, DownNext, DownSwap
<1> HIDE DEF loop
<1>7. IsLoop(loop, S, T, step)
  BY <1>5, <1>3
<1>8. QED
  BY <1>6, <1>7

LEMMA SwapBelow ==
    ASSUME NEW m \in Nat, NEW n \in Nat, n <= m + 1, NEW g \in HeapsOf(0..m, n),
           NEW t \in [Events -> Nat], NEW k0 \in Nat, NEW k \in Nat, k >= k0,
           NEW child, Earliest(g, t, k, child),
           OrderedBelow(g, t, k, k0), evheap_cond_swap(g, t, k, child).swapped
    PROVE  OrderedBelow(evheap_cond_swap(g, t, k, child).heap, t, child, k0)
<1> DEFINE s == evheap_cond_swap(g, t, k, child).heap
<1>1. /\ child \in 1..n - 1 /\ child > k /\ Parent(child) = k
      /\ \A j \in 1..n - 1 : Parent(j) = k => t[g.queue[child]] <= t[g.queue[j]]
  BY DEF Earliest, HeapsOf
<1>2. k \in 0..n - 1 /\ child \in 0..n - 1
  BY <1>1
<1>3. /\ s.n = n /\ g.n = n
      /\ t[g.queue[child]] <= t[g.queue[k]]
      /\ t[s.queue[k]] = t[g.queue[child]] /\ t[s.queue[child]] = t[g.queue[k]]
      /\ \A i \in 0..n - 1 : t[g.queue[i]] \in Nat
      /\ \A i \in 0..n - 1 : i # k /\ i # child => t[s.queue[i]] = t[g.queue[i]]
  <2>1. k # child /\ evheap_cond_swap(g, t, k, child).swapped
    BY <1>1
  <2>2. s = evheap_cond_swap(g, t, k, child).heap
    OBVIOUS
  <2> HIDE DEF s
  <2>3. TimesSwapped(g, s, t, k, child) /\ g.n = n
    BY <1>2, <2>1, <2>2, SwapTimes DEF HeapsOf
  <2>4. QED
    BY <2>3 DEF TimesSwapped
<1> HIDE DEF s
<1>4. ASSUME NEW j \in 1..n - 1
      PROVE  /\ Parent(j) \in 0..n - 1 /\ Parent(j) < j
             /\ Parent(j) # k /\ ~(j = k /\ k = k0) => t[g.queue[Parent(j)]] <= t[g.queue[j]]
             /\ Parent(j) = k /\ k > 0 => t[g.queue[Parent(k)]] <= t[g.queue[j]]
  <2>1. Parent(j) \in 0..n - 1 /\ Parent(j) < j
    BY ParentBelow
  <2>2. QED
    BY <1>3, <2>1 DEF OrderedBelow, InOrder, Bridged
<1>5. ASSUME NEW j \in 1..n - 1, Parent(j) # child
      PROVE  t[s.queue[Parent(j)]] <= t[s.queue[j]]
  <2>1. CASE j = child
    BY <2>1, <1>1, <1>3
  <2>2. CASE j # child /\ Parent(j) = k
    <3>1. t[g.queue[child]] <= t[g.queue[j]] /\ j # k
      BY <2>2, <1>1, <1>4
    <3>2. t[s.queue[Parent(j)]] = t[g.queue[child]] /\ t[s.queue[j]] = t[g.queue[j]]
      BY <2>2, <3>1, <1>3, <1>5
    <3>3. QED
      BY <3>1, <3>2
  <2>3. CASE j = k
    <3>1. k > 0 /\ t[g.queue[Parent(k)]] <= t[g.queue[child]]
      BY <2>3, <1>1, <1>4, <1>5
    <3>2. Parent(k) \in 0..n - 1 /\ Parent(k) # k /\ Parent(k) # child
      BY <2>3, <1>4, <1>5
    <3>3. t[s.queue[Parent(j)]] = t[g.queue[Parent(k)]] /\ t[s.queue[j]] = t[g.queue[child]]
      BY <2>3, <3>2, <1>3
    <3>4. QED
      BY <3>1, <3>3
  <2>4. CASE j # child /\ j # k /\ Parent(j) # k
    <3>1. Parent(j) \in 0..n - 1 /\ t[g.queue[Parent(j)]] <= t[g.queue[j]]
      BY <2>4, <1>4
    <3>2. t[s.queue[Parent(j)]] = t[g.queue[Parent(j)]]
      BY <2>4, <3>1, <1>3, <1>5
    <3>3. j \in 0..n - 1 /\ t[s.queue[j]] = t[g.queue[j]]
      BY <2>4, <1>3, <1>5
    <3>4. QED
      BY <3>1, <3>2, <3>3
  <2>5. QED
    BY <2>1, <2>2, <2>3, <2>4
<1>6. ASSUME NEW j \in 1..n - 1, Parent(j) = child
      PROVE  t[s.queue[Parent(child)]] <= t[s.queue[j]]
  <2>1. Parent(j) # k /\ j # k /\ j # child
    BY <1>1, <1>4, <1>6
  <2>2. t[g.queue[child]] <= t[g.queue[j]]
    BY <2>1, <1>4, <1>6
  <2>3. t[s.queue[Parent(child)]] = t[g.queue[child]]
    BY <1>1, <1>3
  <2>4. j \in 0..n - 1 /\ t[s.queue[j]] = t[g.queue[j]]
    BY <2>1, <1>3
  <2>5. QED
    BY <2>2, <2>3, <2>4
<1>7. QED
  BY <1>3, <1>5, <1>6 DEF OrderedBelow, InOrder, Bridged, s

(* A heap in which only k may be misplaced becomes one in which the event   *)
(* at k may at most be too early.                                           *)
LEMMA BubbleDown ==
    ASSUME NEW m \in Nat, NEW n \in Nat, n <= m + 1, NEW h \in HeapsOf(0..m, n),
           NEW t \in [Events -> Nat], NEW E \in SUBSET Events, NEW k0 \in 0..n - 1,
           Placed(h, E), OrderedBelow(h, t, k0, k0)
    PROVE  LET g == evheap_bubble_down(h, t, k0)
           IN  /\ g \in HeapsOf(0..m, n)
               /\ Placed(g, E) /\ OrderedAbove(g, t, k0)
               /\ \A e \in Events \ E : g.pos[e] = h.pos[e]
<1> DEFINE S == Cells(h)
           T == DownEnds(h, n, t)
           step == DownSteps(h, n, t)
           start == [heap |-> h, at |-> k0]
           I == {c \in S : /\ c.at \in k0..n - 1
                           /\ Placed(c.heap, E) /\ OrderedBelow(c.heap, t, c.at, k0)
                           /\ \A e \in Events \ E : c.heap.pos[e] = h.pos[e]}
           rank == [c \in I |-> n - c.at]
<1>1. DOMAIN h.queue = 0..m /\ h.n = n /\ k0 \in 0..m
  BY DEF HeapsOf
<1>2. \A c \in S : c.heap \in HeapsOf(0..m, n) /\ c.at \in 0..m
  BY <1>1 DEF Cells, HeapsOf
<1>3. start \in I
  BY <1>1 DEF Cells, HeapsOf
<1>4. PICK f : IsLoop(f, S, T, step) /\ evheap_bubble_down(h, t, k0) = f[start].heap
  BY <1>1, DownLoop, SMTT(30)
<1>5. ASSUME NEW c \in I, c \notin T
      PROVE  DownNext(t, c) \in I /\ DownNext(t, c).at > c.at
  <2>1. DownGoes(n, t, c) /\ c.at \in Nat /\ c.at >= k0
    BY <1>5 DEF DownEnds
  <2>2. DownNext(t, c) \in S /\ DownNext(t, c).at > c.at /\ DownNext(t, c).at < n
    BY <1>1, <2>1, DownStep
  <2>3. PICK g : g = c.heap
    OBVIOUS
  <2>4. PICK k \in Nat : k = c.at
    BY <2>1
  <2>5. PICK child : child = EarlierChild(g, t, k)
    OBVIOUS
  <2>6. g \in HeapsOf(0..m, n) /\ Placed(g, E) /\ OrderedBelow(g, t, k, k0) /\ k >= k0 /\ 2 * k + 1 < n
    BY <1>2, <2>1, <2>3, <2>4 DEF DownGoes
  <2>7. /\ DownNext(t, c).at = child
        /\ DownNext(t, c).heap = evheap_cond_swap(g, t, k, child).heap
        /\ evheap_cond_swap(g, t, k, child).swapped
    BY <2>1, <2>3, <2>4, <2>5 DEF DownNext, DownGoes, DownSwap
  <2>8. OrderedBelow(DownNext(t, c).heap, t, child, k0)
    <3> HIDE DEF S, I
    <3>1. Earliest(g, t, k, child)
      BY <2>5, <2>6, EarlierChildOf
    <3>2. QED
      BY <2>6, <2>7, <3>1, SwapBelow
  <2>9. child \in 0..n - 1 /\ k \in 0..n - 1 /\ child # k
    <3> HIDE DEF S, I
    <3>1. QED
      BY <2>5, <2>6, EarlierChildOf
  <2>10. /\ Placed(DownNext(t, c).heap, E)
         /\ \A e \in Events \ E : DownNext(t, c).heap.pos[e] = g.pos[e]
    BY <2>6, <2>7, <2>9, SwapPlaced
  <2>11. DownNext(t, c).at \in k0..n - 1
    BY <2>4, <2>6, <2>7, <2>9, <2>2
  <2>12. \A e \in Events \ E : g.pos[e] = h.pos[e]
    BY <2>3
  <2>13. QED
    BY <2>2, <2>7, <2>8, <2>10, <2>11, <2>12
<1>6. I \in SUBSET S /\ rank \in [I -> Nat]
  OBVIOUS
<1>7. \A c \in I \ T : step[c] \in I /\ rank[step[c]] < rank[c]
  <2>1. ASSUME NEW c \in I \ T
        PROVE  step[c] \in I /\ rank[step[c]] < rank[c]
    <3>1. DownNext(t, c) \in I /\ DownNext(t, c).at > c.at
      BY <1>5
    <3>2. step[c] = DownNext(t, c)
      BY DEF DownSteps
    <3>3. rank[DownNext(t, c)] = n - DownNext(t, c).at /\ rank[c] = n - c.at
      BY <3>1
    <3>4. c.at \in Nat /\ DownNext(t, c).at \in Nat
      BY <3>1
    <3> HIDE DEF I, rank, step
    <3>5. QED
      BY <3>1, <3>2, <3>3, <3>4
  <2>2. QED
    BY <2>1
<1>8. f[start] \in I /\ f[start] \in T
  <2> HIDE DEF S, T, step, I, rank, start
  <2>1. QED
    BY <1>3, <1>4, <1>6, <1>7, LoopEnds
<1>9. PICK c : c = f[start]
  OBVIOUS
<1>10. /\ c \in S /\ c.at \in k0..n - 1 /\ ~DownGoes(n, t, c)
       /\ Placed(c.heap, E) /\ OrderedBelow(c.heap, t, c.at, k0)
       /\ \A e \in Events \ E : c.heap.pos[e] = h.pos[e]
  BY <1>8, <1>9 DEF DownEnds
<1>11. PICK g : g = c.heap
  OBVIOUS
<1>12. PICK k \in k0..n - 1 : k = c.at
  BY <1>10
<1>13. g \in HeapsOf(0..m, n) /\ g.n = n /\ OrderedBelow(g, t, k, k0)
  BY <1>2, <1>10, <1>11, <1>12 DEF HeapsOf
<1>14. \A i \in 0..n - 1 : t[g.queue[i]] \in Nat
  BY <1>13, SMTT(30) DEF HeapsOf
<1>15. ASSUME NEW j \in 1..n - 1, Parent(j) = k
       PROVE  t[g.queue[k]] <= t[g.queue[j]]
  <2>1. k \in Nat /\ 2 * k + 1 < n
    BY <1>15, ParentBelow
  <2>2. PICK child : child = EarlierChild(g, t, k)
    OBVIOUS
  <2>3. child \in 1..n - 1 /\ child > k /\ t[g.queue[child]] <= t[g.queue[j]]
    <3>1. Earliest(g, t, k, child) /\ g.n = n
      BY <1>13, <2>1, <2>2, EarlierChildOf
    <3>2. QED
      BY <1>15, <3>1 DEF Earliest
  <2>4. ~evheap_cond_swap(g, t, k, child).swapped
    BY <1>10, <1>11, <1>12, <2>1, <2>2 DEF DownGoes, DownSwap
  <2>5. 0..m \in SUBSET Nat /\ k \in 0..m /\ child \in 0..m /\ k # child
    BY <2>3
  <2>6. ~(t[g.queue[child]] <= t[g.queue[k]])
    BY <1>13, <2>4, <2>5, CondSwap
  <2>7. t[g.queue[child]] \in Nat /\ t[g.queue[k]] \in Nat /\ t[g.queue[j]] \in Nat
    BY <1>14, <2>3
  <2>8. QED
    BY <2>3, <2>6, <2>7
<1>16. ASSUME NEW j \in 1..n - 1, ~(j = k /\ k = k0)
       PROVE  InOrder(g, t, j)
  BY <1>13, <1>15, <1>16 DEF OrderedBelow, InOrder
<1>17. ASSUME NEW j \in 1..n - 1, j # k0
       PROVE  InOrder(g, t, j)
  BY <1>16, <1>17
<1>18. ASSUME NEW j \in 1..n - 1, Parent(j) = k0, k0 > 0
       PROVE  t[g.queue[Parent(k0)]] <= t[g.queue[j]]
  <2>1. CASE k = k0
    BY <1>13, <1>18, <2>1 DEF OrderedBelow, Bridged
  <2>2. CASE k # k0
    <3>1. k0 \in 1..n - 1 /\ Parent(k0) \in 0..n - 1
      BY <1>18, ParentBelow
    <3>2. InOrder(g, t, k0) /\ InOrder(g, t, j)
      BY <3>1, <2>2, <1>16, <1>17, <1>18
    <3>3. t[g.queue[Parent(k0)]] <= t[g.queue[k0]] /\ t[g.queue[k0]] <= t[g.queue[j]]
      BY <3>2, <1>18 DEF InOrder
    <3>4. t[g.queue[Parent(k0)]] \in Nat /\ t[g.queue[k0]] \in Nat /\ t[g.queue[j]] \in Nat
      BY <3>1, <1>14
    <3>5. QED
      BY <3>3, <3>4
  <2>3. QED
    BY <2>1, <2>2
<1>19. OrderedAbove(g, t, k0)
  BY <1>13, <1>17, <1>18 DEF OrderedAbove, Bridged
<1>20. QED
  BY <1>4, <1>9, <1>10, <1>11, <1>13, <1>19

-----------------------------------------------------------------------------
(* evheap_set_size.                                                         *)

Want(m) == IF m < 1 THEN 1 ELSE m
FittingSizes(m) == {s \in Nat \ {0} : Want(m) <= s /\ s < 3 * Want(m)}
NextSize(m, s) == IF s < Want(m) THEN 2 * s ELSE s \div 2
NextSizes(m) == [s \in (Nat \ {0}) \ FittingSizes(m) |-> NextSize(m, s)]

(* The powers of two: the least set with 1 and the double of each member.   *)
PowersOfTwo ==
    {p \in Nat : \A S \in SUBSET Nat : 1 \in S /\ (\A q \in S : 2 * q \in S) => p \in S}

LEMMA SetSizeLoop ==
    ASSUME NEW m \in Nat, NEW sz
    PROVE  \E f : /\ IsLoop(f, Nat \ {0}, FittingSizes(m), NextSizes(m))
                  /\ evheap_set_size(sz, m) = f[sz]
<1> DEFINE S == Nat \ {0}
           w == Want(m)
           loop == CHOOSE f : f = [s \in S |-> IF s < w THEN f[2 * s]
                                               ELSE IF s >= 3 * w THEN f[s \div 2] ELSE s]
<1>1. w \in Nat /\ w >= 1
  BY DEF Want
<1>2. FittingSizes(m) \in SUBSET S /\ NextSizes(m) \in [S \ FittingSizes(m) -> S]
  <2>1. ASSUME NEW s \in S \ FittingSizes(m)
        PROVE  NextSize(m, s) \in S
    <3>1. s \in Nat /\ s > 0 /\ (s < w \/ s >= 3 * w)
      BY <1>1 DEF FittingSizes
    <3> HIDE DEF w
    <3>2. 2 * s \in S /\ (s >= 3 * w => s \div 2 \in S)
      BY <1>1, <3>1
    <3>3. QED
      BY <3>1, <3>2, <1>1 DEF NextSize, w
  <2>2. QED
    BY <2>1 DEF FittingSizes, NextSizes
<1>3. PICK f : IsLoop(f, S, FittingSizes(m), NextSizes(m))
  <2> HIDE DEF S
  <2>1. QED
    BY <1>2, LoopExists
<1>4. \A g : IsLoop(g, S, FittingSizes(m), NextSizes(m))
              <=> g = [s \in S |-> IF s < w THEN g[2 * s]
                                   ELSE IF s >= 3 * w THEN g[s \div 2] ELSE s]
  <2>1. ASSUME NEW g, NEW s \in S
        PROVE  (IF s \in FittingSizes(m) THEN s ELSE g[NextSizes(m)[s]])
                 = IF s < w THEN g[2 * s] ELSE IF s >= 3 * w THEN g[s \div 2] ELSE s
    <3>1. CASE s < w
      BY <3>1, <1>1 DEF FittingSizes, NextSizes, NextSize
    <3>2. CASE s >= 3 * w
      BY <3>2, <1>1 DEF FittingSizes, NextSizes, NextSize
    <3>3. CASE w <= s /\ s < 3 * w
      BY <3>3, <1>1 DEF FittingSizes
    <3>4. QED
      BY <3>1, <3>2, <3>3, <1>1
  <2> HIDE DEF S, w
  <2>2. QED
    BY <2>1 DEF IsLoop
<1>5. f = [s \in S |-> IF s < w THEN f[2 * s] ELSE IF s >= 3 * w THEN f[s \div 2] ELSE s]
  BY <1>3, <1>4
<1>6. loop = [s \in S |-> IF s < w THEN loop[2 * s] ELSE IF s >= 3 * w THEN loop[s \div 2] ELSE s]
  BY <1>5
<1>7. evheap_set_size(sz, m) = loop[sz]
  BY DEF evheap_set_size, Want
<1> HIDE DEF loop
<1>8. IsLoop(loop, S, FittingSizes(m), NextSizes(m))
  BY <1>6, <1>4
<1>9. QED
  BY <1>7, <1>8

(* The steps of the loop stay in I.                                         *)
StaysIn(m, I) ==
    \A s \in I : /\ s \in Nat \ {0}
                 /\ s < Want(m) => 2 * s \in I
                 /\ s >= 3 * Want(m) => s \div 2 \in I

(* The size it ends with fits, and is in any set its steps stay in.         *)
LEMMA SetSizeEnds ==
    ASSUME NEW m, m \in Nat, NEW I, StaysIn(m, I), NEW sz \in I
    PROVE  /\ evheap_set_size(sz, m) \in I
           /\ Want(m) <= evheap_set_size(sz, m)
           /\ evheap_set_size(sz, m) < 3 * Want(m)
<1> DEFINE S == Nat \ {0}
           T == FittingSizes(m)
           step == NextSizes(m)
           w == Want(m)
           rank == [s \in I |-> IF s \in T THEN 0 ELSE IF s < w THEN w - s ELSE s]
<1>1. w \in Nat /\ w >= 1
  BY DEF Want
<1>2. rank \in [I -> Nat]
  BY <1>1 DEF StaysIn
<1>3. PICK f : IsLoop(f, S, T, step) /\ evheap_set_size(sz, m) = f[sz]
  BY SetSizeLoop
<1>4. \A s \in I \ T : step[s] \in I /\ rank[step[s]] < rank[s]
  <2>1. ASSUME NEW s \in I \ T
        PROVE  step[s] \in I /\ rank[step[s]] < rank[s]
    <3>1. s \in Nat /\ s >= 1 /\ s \notin T
      BY DEF StaysIn
    <3>2. s < w \/ s >= 3 * w
      BY <3>1, <1>1 DEF FittingSizes
    <3>3. CASE s < w
      <4>1. step[s] = 2 * s /\ 2 * s \in I
        BY <3>1, <3>3 DEF NextSizes, NextSize, StaysIn
      <4>2. rank[s] = w - s
        BY <3>1, <3>3
      <4>3. rank[2 * s] = IF 2 * s \in T THEN 0 ELSE IF 2 * s < w THEN w - 2 * s ELSE 2 * s
        BY <4>1
      <4>4. 2 * s < w \/ 2 * s \in T
        BY <3>1, <3>3, <1>1 DEF FittingSizes
      <4> HIDE DEF rank, T, step, w
      <4>5. rank[2 * s] < w - s
        BY <1>1, <3>1, <3>3, <4>3, <4>4
      <4>6. QED
        BY <4>1, <4>2, <4>5
    <3>4. CASE s >= 3 * w
      <4>1. ~(s < w)
        BY <3>1, <3>4, <1>1
      <4>2. step[s] = s \div 2 /\ s \div 2 \in I
        BY <3>1, <3>4, <4>1 DEF NextSizes, NextSize, StaysIn
      <4>3. rank[s] = s
        BY <3>1, <4>1
      <4>4. rank[s \div 2] = IF s \div 2 \in T THEN 0 ELSE IF s \div 2 < w THEN w - (s \div 2) ELSE s \div 2
        BY <4>2
      <4> HIDE DEF rank, T, step, w
      <4>5. s \div 2 \in Nat /\ s \div 2 < s /\ ~(s \div 2 < w)
        BY <1>1, <3>1, <3>4
      <4>6. rank[s \div 2] < s
        BY <3>1, <4>4, <4>5
      <4>7. QED
        BY <4>2, <4>3, <4>6
    <3>5. QED
      BY <3>2, <3>3, <3>4
  <2>2. QED
    BY <2>1
<1>5. f[sz] \in I /\ f[sz] \in T
  <2>1. I \in SUBSET S
    BY DEF StaysIn
  <2> HIDE DEF S, T, step, rank
  <2>2. QED
    BY <1>2, <1>3, <1>4, <2>1, LoopEnds
<1>6. QED
  BY <1>3, <1>5 DEF FittingSizes

LEMMA PowerOfTwo ==
    /\ PowersOfTwo \in SUBSET (Nat \ {0})
    /\ 1 \in PowersOfTwo /\ 3 \notin PowersOfTwo
    /\ \A p \in PowersOfTwo : 2 * p \in PowersOfTwo
    /\ \A p \in PowersOfTwo : p >= 2 => p \div 2 \in PowersOfTwo
<1> DEFINE Closed(S) == 1 \in S /\ \A q \in S : 2 * q \in S
<1>1. ASSUME NEW S \in SUBSET Nat, Closed(S)
      PROVE  PowersOfTwo \subseteq S
  BY <1>1 DEF PowersOfTwo
<1>2. 1 \in PowersOfTwo
  BY DEF PowersOfTwo
<1>3. ASSUME NEW p \in PowersOfTwo
      PROVE  2 * p \in PowersOfTwo
  <2>1. p \in Nat /\ 2 * p \in Nat
    BY DEF PowersOfTwo
  <2>2. ASSUME NEW S \in SUBSET Nat, Closed(S)
        PROVE  2 * p \in S
    BY <1>1, <2>2
  <2>3. QED
    BY <2>1, <2>2 DEF PowersOfTwo
<1> DEFINE Doubles == {1} \cup {2 * q : q \in PowersOfTwo}
<1>4. PowersOfTwo \subseteq Nat
  BY DEF PowersOfTwo
<1>5. Doubles \in SUBSET Nat /\ Closed(Doubles)
  <2>1. \A q \in Doubles : q \in PowersOfTwo
    BY <1>2, <1>3
  <2>2. QED
    BY <1>4, <2>1
<1>6. PowersOfTwo \subseteq Doubles
  <2> HIDE DEF Doubles
  <2>1. QED
    BY <1>1, <1>5
<1>7. ASSUME NEW p \in PowersOfTwo
      PROVE  p = 1 \/ \E q \in PowersOfTwo : p = 2 * q
  BY <1>6
<1>8. 0 \notin PowersOfTwo
  <2>1. (Nat \ {0}) \in SUBSET Nat /\ Closed(Nat \ {0})
    OBVIOUS
  <2>2. QED
    BY <1>1, <2>1
<1>9. 3 \notin PowersOfTwo
  <2>1. SUFFICES ASSUME 3 \in PowersOfTwo
                 PROVE  FALSE
    OBVIOUS
  <2>2. PICK q \in PowersOfTwo : 3 = 2 * q
    BY <1>7, <2>1
  <2>3. q \in Nat
    BY <1>4
  <2>4. QED
    BY <2>2, <2>3
<1>10. ASSUME NEW p \in PowersOfTwo, p >= 2
       PROVE  p \div 2 \in PowersOfTwo
  <2>1. PICK q \in PowersOfTwo : p = 2 * q
    BY <1>7, <1>10
  <2>2. q \in Nat
    BY <1>4
  <2>3. p \div 2 = q
    BY <2>1, <2>2
  <2>4. QED
    BY <2>1, <2>3
<1>11. PowersOfTwo \in SUBSET (Nat \ {0})
  BY <1>4, <1>8
<1>12. QED
  BY <1>2, <1>3, <1>9, <1>10, <1>11

(* From a power of two, the array stays one, fits what is in use, and still *)
(* has room for one entry more after it was shrunk for one entry less.      *)
LEMMA SetSizeFits ==
    ASSUME NEW m \in Nat, NEW sz \in PowersOfTwo
    PROVE  /\ evheap_set_size(sz, m) \in PowersOfTwo
           /\ Want(m) <= evheap_set_size(sz, m)
           /\ evheap_set_size(sz, m) < 3 * Want(m)
<1>1. Want(m) \in Nat /\ Want(m) >= 1
  BY DEF Want
<1>2. PowersOfTwo \in SUBSET (Nat \ {0})
  BY PowerOfTwo
<1>3. ASSUME NEW s \in PowersOfTwo
      PROVE  2 * s \in PowersOfTwo /\ (s >= 3 * Want(m) => s \div 2 \in PowersOfTwo)
  <2>1. s >= 3 * Want(m) => s >= 2
    BY <1>1, <1>2
  <2>2. QED
    BY <2>1, PowerOfTwo
<1>4. StaysIn(m, PowersOfTwo)
  BY <1>2, <1>3 DEF StaysIn
<1>5. QED
  BY <1>4, SetSizeEnds

LEMMA SlotAllocated ==
    ASSUME NEW n \in Nat, n > 0, NEW sz \in PowersOfTwo, n <= sz
    PROVE  n <= evheap_set_size(sz, n - 1)
<1> DEFINE I == {s \in PowersOfTwo : n <= s}
           w == Want(n - 1)
<1>1. PowersOfTwo \in SUBSET (Nat \ {0}) /\ 3 \notin PowersOfTwo
  BY PowerOfTwo
<1>2. w \in Nat /\ w >= 1 /\ w <= n /\ n <= w + 1 /\ n - 1 \in Nat
  BY DEF Want
<1>3. ASSUME NEW s \in I
      PROVE  ~(s < w) /\ (s >= 3 * w => s \div 2 \in I)
  <2>1. s \in Nat /\ s > 0 /\ n <= s /\ s # 3 /\ s \in PowersOfTwo
    BY <1>1
  <2> HIDE DEF w, I
  <2>2. ~(s < w)
    BY <1>2, <2>1
  <2>3. ASSUME s >= 3 * w
        PROVE  s >= 2 /\ n <= s \div 2
    BY <1>2, <2>1, <2>3
  <2>4. QED
    BY <2>1, <2>2, <2>3, PowerOfTwo DEF I
<1>4. StaysIn(n - 1, I) /\ sz \in I
  BY <1>1, <1>3 DEF StaysIn
<1>5. evheap_set_size(sz, n - 1) \in I
  <2> HIDE DEF I
  <2>1. QED
    BY <1>2, <1>4, SetSizeEnds
<1>6. QED
  BY <1>5

-----------------------------------------------------------------------------
(* evheap_add and evheap_remove.                                            *)

LEMMA AddSound ==
    ASSUME NEW n \in Nat, NEW h \in HeapsOf(0..n - 1, n), NEW t \in [Events -> Nat],
           NEW E \in SUBSET Events, Placed(h, E), Ordered(h, t), NEW ev \in Events \ E
    PROVE  LET g == evheap_add(h, t, ev)
           IN  /\ g \in HeapsOf(0..n, n + 1)
               /\ Placed(g, E \cup {ev}) /\ Ordered(g, t)
               /\ PosKept(g, h, E \cup {ev})
<1> DEFINE put == [queue |-> [i \in 0..n |-> IF i = n THEN ev ELSE h.queue[i]],
                   pos |-> [h.pos EXCEPT ![ev] = n],
                   n |-> n + 1]
<1>1. h.queue \in [0..n - 1 -> Events] /\ h.pos \in [Events -> Nat] /\ h.n = n
  BY DEF HeapsOf
<1>2. evheap_add(h, t, ev) = evheap_bubble_up(put, t, n)
  BY <1>1 DEF evheap_add
<1>3. put \in HeapsOf(0..n, n + 1)
  <2>1. \A i \in 0..n : i # n => i \in 0..n - 1
    OBVIOUS
  <2>2. put.queue \in [0..n -> Events] /\ put.pos \in [Events -> Nat]
    BY <1>1, <2>1
  <2>3. QED
    BY <2>2 DEF HeapsOf
<1>4. /\ put.n = n + 1 /\ put.queue[n] = ev /\ put.pos[ev] = n
      /\ \A i \in 0..n - 1 : put.queue[i] = h.queue[i]
      /\ \A e \in Events : e # ev => put.pos[e] = h.pos[e]
  BY <1>1
<1> HIDE DEF put
<1>5. Placed(put, E \cup {ev})
  <2>1. \A i \in 0..n : i = n \/ i \in 0..n - 1
    OBVIOUS
  <2>2. ASSUME NEW i \in 0..n
        PROVE  put.queue[i] \in E \cup {ev} /\ put.pos[put.queue[i]] = i
    <3>1. CASE i = n
      BY <3>1, <1>4
    <3>2. CASE i \in 0..n - 1
      <4>1. h.queue[i] \in E /\ h.pos[h.queue[i]] = i
        BY <3>2, <1>1 DEF Placed
      <4>2. QED
        BY <3>2, <4>1, <1>4
    <3>3. QED
      BY <3>1, <3>2, <2>1
  <2>3. ASSUME NEW e \in E \cup {ev}
        PROVE  put.pos[e] \in 0..n /\ put.queue[put.pos[e]] = e
    <3>1. CASE e = ev
      BY <3>1, <1>4
    <3>2. CASE e \in E
      <4>1. h.pos[e] \in 0..n - 1 /\ h.queue[h.pos[e]] = e
        BY <3>2, <1>1 DEF Placed
      <4>2. e # ev /\ h.pos[e] \in 0..n
        BY <3>2, <4>1
      <4>3. QED
        BY <4>1, <4>2, <1>4
    <3>3. QED
      BY <3>1, <3>2
  <2>4. put.n - 1 = n
    BY <1>4
  <2>5. QED
    BY <2>2, <2>3, <2>4 DEF Placed
<1>6. OrderedAbove(put, t, n)
  <2>1. ASSUME NEW j \in 1..n
        PROVE  /\ Parent(j) \in 0..n - 1
               /\ j # n => t[put.queue[Parent(j)]] <= t[put.queue[j]]
    <3>1. Parent(j) \in Nat /\ Parent(j) < j
      BY ParentBelow
    <3>2. Parent(j) \in 0..n - 1
      BY <3>1
    <3>3. ASSUME j # n
          PROVE  t[put.queue[Parent(j)]] <= t[put.queue[j]]
      <4>1. j \in 1..h.n - 1 /\ j \in 0..n - 1
        BY <3>3, <1>1
      <4>2. QED
        BY <4>1, <3>2, <1>4 DEF Ordered, InOrder
    <3>4. QED
      BY <3>2, <3>3
  <2>2. \A j \in 1..n : Parent(j) # n
    BY <2>1
  <2>3. put.n - 1 = n
    BY <1>4
  <2>4. QED
    BY <2>1, <2>2, <2>3 DEF OrderedAbove, InOrder, Bridged
<1>7. /\ evheap_bubble_up(put, t, n) \in HeapsOf(0..n, n + 1)
      /\ Placed(evheap_bubble_up(put, t, n), E \cup {ev}) /\ Ordered(evheap_bubble_up(put, t, n), t)
      /\ \A e \in Events \ (E \cup {ev}) : evheap_bubble_up(put, t, n).pos[e] = put.pos[e]
  <2>1. n + 1 \in Nat /\ n + 1 <= n + 1 /\ n \in 0..(n + 1) - 1 /\ E \cup {ev} \in SUBSET Events
    OBVIOUS
  <2>2. QED
    BY <1>3, <1>5, <1>6, <2>1, BubbleUp
<1>8. PosKept(evheap_bubble_up(put, t, n), h, E \cup {ev})
  BY <1>4, <1>7 DEF PosKept
<1>9. QED
  BY <1>2, <1>7, <1>8

(* Where a loop may stop at once it changes nothing.                        *)
LEMMA BubbleNothing ==
    ASSUME NEW m \in Nat, NEW n \in Nat, n <= m + 1, NEW h \in HeapsOf(0..m, n),
           NEW t \in [Events -> Nat], NEW k \in 0..m
    PROVE  /\ 2 * k + 1 >= n => evheap_bubble_down(h, t, k) = h
           /\ (k > 0 => ~evheap_cond_swap(h, t, Parent(k), k).swapped) => evheap_bubble_up(h, t, k) = h
<1> DEFINE start == [heap |-> h, at |-> k]
<1>1. DOMAIN h.queue = 0..m /\ h.n = n
  BY DEF HeapsOf
<1>2. start \in Cells(h)
  BY <1>1 DEF Cells, HeapsOf
<1>3. start.heap = h /\ start.at = k
  OBVIOUS
<1>4. ASSUME 2 * k + 1 >= n
      PROVE  evheap_bubble_down(h, t, k) = h
  <2>1. ~DownGoes(n, t, start)
    BY <1>4 DEF DownGoes
  <2>2. start \in DownEnds(h, n, t)
    BY <1>2, <2>1 DEF DownEnds
  <2>3. PICK f : IsLoop(f, Cells(h), DownEnds(h, n, t), DownSteps(h, n, t))
                 /\ evheap_bubble_down(h, t, k) = f[start].heap
    BY <1>1, DownLoop
  <2> HIDE DEF start
  <2>4. f[start] = start
    BY <1>2, <2>2, <2>3 DEF IsLoop
  <2>5. QED
    BY <1>3, <2>3, <2>4
<1>5. ASSUME k > 0 => ~evheap_cond_swap(h, t, Parent(k), k).swapped
      PROVE  evheap_bubble_up(h, t, k) = h
  <2>1. ~UpGoes(t, start)
    BY <1>5 DEF UpGoes, UpSwap
  <2>2. start \in UpEnds(h, t)
    BY <1>2, <2>1 DEF UpEnds
  <2>3. PICK f : IsLoop(f, Cells(h), UpEnds(h, t), UpSteps(h, t))
                 /\ evheap_bubble_up(h, t, k) = f[start].heap
    BY <1>1, UpLoop
  <2> HIDE DEF start
  <2>4. f[start] = start
    BY <1>2, <2>2, <2>3 DEF IsLoop
  <2>5. QED
    BY <1>3, <2>3, <2>4
<1>6. QED
  BY <1>4, <1>5

NoTies(t, E) == \A e, f \in E : t[e] = t[f] => e = f

(* evheap_remove up to where the array is cut: the last entry in the place  *)
(* of ev.                                                                   *)
Moved(h, ev) ==
    [queue |-> [h.queue EXCEPT ![h.pos[ev]] = h.queue[h.n - 1]],
     pos |-> [h.pos EXCEPT ![h.queue[h.n - 1]] = h.pos[ev]],
     n |-> h.n - 1]
Cut(g) == [g EXCEPT !.queue = Restrict(g.queue, 0..g.n - 1)]

LEMMA CutSound ==
    ASSUME NEW M \in Nat, NEW g \in HeapsOf(0..M, M), NEW t, NEW E
    PROVE  /\ Cut(g) \in HeapsOf(0..M - 1, M)
           /\ Cut(g).pos = g.pos
           /\ Placed(g, E) => Placed(Cut(g), E)
           /\ Ordered(g, t) => Ordered(Cut(g), t)
<1>1. g.n = M /\ g.queue \in [0..M -> Events] /\ g.pos \in [Events -> Nat]
  BY DEF HeapsOf
<1>2. g = [queue |-> g.queue, pos |-> g.pos, n |-> g.n]
  BY DEF HeapsOf
<1>3. PICK q : q = [i \in 0..M - 1 |-> g.queue[i]]
  OBVIOUS
<1>4. \A i \in 0..M - 1 : i \in 0..M
  OBVIOUS
<1>5. q \in [0..M - 1 -> Events] /\ \A i \in 0..M - 1 : q[i] = g.queue[i]
  BY <1>1, <1>3, <1>4
<1>6. Cut(g) = [g EXCEPT !.queue = q]
  <2>1. Restrict(g.queue, 0..g.n - 1) = q
    BY <1>1, <1>3 DEF Restrict
  <2>2. QED
    BY <2>1 DEF Cut
<1>7. Cut(g).queue = q /\ Cut(g).pos = g.pos /\ Cut(g).n = M
  BY <1>1, <1>2, <1>6
<1>8. Cut(g) \in HeapsOf(0..M - 1, M)
  <2>1. [g EXCEPT !.queue = q] = [queue |-> q, pos |-> g.pos, n |-> g.n]
    BY <1>2
  <2>2. QED
    BY <1>1, <1>5, <1>6, <2>1 DEF HeapsOf
<1>9. Placed(g, E) => Placed(Cut(g), E)
  BY <1>1, <1>5, <1>7 DEF Placed
<1>10. ASSUME Ordered(g, t)
       PROVE  Ordered(Cut(g), t)
  <2>1. ASSUME NEW j \in 1..M - 1
        PROVE  InOrder(Cut(g), t, j)
    <3>1. Parent(j) \in 0..M - 1 /\ j \in 0..M - 1
      BY ParentBelow
    <3>2. InOrder(g, t, j)
      BY <1>1, <1>10 DEF Ordered
    <3>3. QED
      BY <1>5, <1>7, <3>1, <3>2 DEF InOrder
  <2>2. QED
    BY <1>7, <2>1 DEF Ordered
<1>11. QED
  BY <1>7, <1>8, <1>9, <1>10

(* An entry that is not the last one: the entry moved into its place goes   *)
(* down or up.                                                              *)
LEMMA RemoveInner ==
    ASSUME NEW M \in Nat, NEW h \in HeapsOf(0..M, M + 1), NEW t \in [Events -> Nat],
           NEW E \in SUBSET Events, Placed(h, E), Ordered(h, t),
           NEW ev \in E, h.pos[ev] # M
    PROVE  LET down == evheap_bubble_down(Moved(h, ev), t, h.pos[ev])
               up == evheap_bubble_up(down, t, down.pos[ev])
           IN  /\ up \in HeapsOf(0..M, M)
               /\ Placed(up, E \ {ev}) /\ Ordered(up, t)
               /\ PosKept(up, h, E \ {ev})
<1>1. h.queue \in [0..M -> Events] /\ h.pos \in [Events -> Nat] /\ h.n = M + 1 /\ h.n - 1 = M
  <2>1. h.queue \in [0..M -> Events] /\ h.pos \in [Events -> Nat] /\ h.n = M + 1
    BY DEF HeapsOf
  <2>2. h.n - 1 = M
    BY <2>1
  <2>3. QED
    BY <2>1, <2>2
<1>2. PICK k : k = h.pos[ev]
  OBVIOUS
<1>3. PICK last : last = h.queue[M]
  OBVIOUS
<1>4. PICK g : g = Moved(h, ev)
  OBVIOUS
<1>5. PICK F : F = E \ {ev}
  OBVIOUS
<1>6. k \in 0..M - 1 /\ h.queue[k] = ev
  BY <1>1, <1>2 DEF Placed
<1>7. last \in E /\ last \in Events /\ h.pos[last] = M /\ last # ev
  BY <1>1, <1>2, <1>3, <1>6 DEF Placed
<1>8. /\ g \in HeapsOf(0..M, M)
      /\ g.n = M /\ g.queue[k] = last /\ g.pos[last] = k
      /\ \A i \in 0..M - 1 : i # k => g.queue[i] = h.queue[i]
      /\ \A e \in Events : e # last => g.pos[e] = h.pos[e]
  <2>1. g = [queue |-> [h.queue EXCEPT ![k] = last], pos |-> [h.pos EXCEPT ![last] = k], n |-> M]
    BY <1>1, <1>2, <1>3, <1>4 DEF Moved
  <2>2. k \in 0..M /\ k \in Nat
    BY <1>6
  <2>3. QED
    BY <1>1, <1>7, <2>1, <2>2 DEF HeapsOf
<1>9. Placed(g, F)
  <2>1. ASSUME NEW i \in 0..M - 1
        PROVE  g.queue[i] \in F /\ g.pos[g.queue[i]] = i
    <3>1. h.queue[i] \in E /\ h.pos[h.queue[i]] = i
      BY <1>1 DEF Placed
    <3>2. QED
      BY <3>1, <1>2, <1>5, <1>6, <1>7, <1>8
  <2>2. ASSUME NEW e \in F
        PROVE  g.pos[e] \in 0..M - 1 /\ g.queue[g.pos[e]] = e
    <3>1. h.pos[e] \in 0..M /\ h.queue[h.pos[e]] = e
      BY <1>1, <1>5 DEF Placed
    <3>2. CASE e = last
      BY <3>2, <1>6, <1>8
    <3>3. CASE e # last
      <4>1. h.pos[e] # k /\ h.pos[e] # M
        BY <3>1, <3>3, <1>3, <1>5, <1>6
      <4>2. h.pos[e] \in 0..M - 1 /\ e \in Events
        BY <3>1, <4>1, <1>5
      <4>3. QED
        BY <3>1, <3>3, <4>1, <4>2, <1>8
    <3>4. QED
      BY <3>2, <3>3
  <2>3. QED
    BY <2>1, <2>2, <1>8 DEF Placed
<1>10. OrderedBelow(g, t, k, k)
  <2>1. ASSUME NEW j \in 1..M - 1
        PROVE  /\ Parent(j) \in 0..M - 1 /\ Parent(j) < j
               /\ t[h.queue[Parent(j)]] <= t[h.queue[j]]
    <3>1. Parent(j) \in 0..M - 1 /\ Parent(j) < j
      BY ParentBelow
    <3>2. j \in 1..h.n - 1
      BY <1>1
    <3>3. QED
      BY <3>1, <3>2 DEF Ordered, InOrder
  <2>2. ASSUME NEW j \in 1..M - 1, Parent(j) # k, j # k
        PROVE  t[g.queue[Parent(j)]] <= t[g.queue[j]]
    <3>1. j \in 0..M - 1
      OBVIOUS
    <3>2. QED
      BY <2>1, <2>2, <3>1, <1>8
  <2>3. ASSUME NEW j \in 1..M - 1, Parent(j) = k, k > 0
        PROVE  t[g.queue[Parent(k)]] <= t[g.queue[j]]
    <3>1. k \in 1..M - 1
      BY <2>3, <1>6
    <3>2. /\ Parent(k) \in 0..M - 1 /\ Parent(k) # k
          /\ t[h.queue[Parent(k)]] <= t[h.queue[k]]
      BY <2>1, <3>1
    <3>3. j \in 0..M - 1 /\ j # k /\ t[h.queue[k]] <= t[h.queue[j]]
      BY <2>1, <2>3
    <3>4. g.queue[Parent(k)] = h.queue[Parent(k)] /\ g.queue[j] = h.queue[j]
      BY <3>2, <3>3, <1>8
    <3>5. h.queue[Parent(k)] \in Events /\ h.queue[k] \in Events /\ h.queue[j] \in Events
      BY <1>1, <1>6, <3>2, <3>3
    <3>6. t[h.queue[Parent(k)]] \in Nat /\ t[h.queue[k]] \in Nat /\ t[h.queue[j]] \in Nat
      BY <3>5
    <3>7. QED
      BY <3>2, <3>3, <3>4, <3>6
  <2>4. QED
    BY <2>2, <2>3, <1>8 DEF OrderedBelow, InOrder, Bridged
<1>11. F \in SUBSET Events /\ ev \in Events \ F
  BY <1>5
<1>12. PICK down : down = evheap_bubble_down(g, t, k)
  OBVIOUS
<1>13. /\ down \in HeapsOf(0..M, M)
       /\ Placed(down, F) /\ OrderedAbove(down, t, k)
       /\ \A e \in Events \ F : down.pos[e] = g.pos[e]
  BY <1>6, <1>8, <1>9, <1>10, <1>11, <1>12, BubbleDown
<1>14. down.pos[ev] = k
  BY <1>2, <1>7, <1>8, <1>11, <1>13
<1>15. PICK up : up = evheap_bubble_up(down, t, k)
  OBVIOUS
<1>16. /\ up \in HeapsOf(0..M, M)
       /\ Placed(up, F) /\ Ordered(up, t)
       /\ \A e \in Events \ F : up.pos[e] = down.pos[e]
  <2>1. M <= M + 1
    OBVIOUS
  <2>2. QED
    BY <1>6, <1>11, <1>13, <1>15, <2>1, BubbleUp
<1>17. PosKept(up, h, F)
  BY <1>5, <1>7, <1>8, <1>13, <1>16 DEF PosKept
<1>18. QED
  BY <1>2, <1>4, <1>5, <1>12, <1>14, <1>15, <1>16, <1>17

(* The last entry: it is still in the slot beyond the used part, and stays  *)
(* there if its parent is earlier.                                          *)
LEMMA RemoveLast ==
    ASSUME NEW M \in Nat, NEW h \in HeapsOf(0..M, M + 1), NEW t \in [Events -> Nat],
           NEW E \in SUBSET Events, Placed(h, E), Ordered(h, t),
           NoTies(t, E),
           NEW ev \in E, h.pos[ev] = M
    PROVE  LET g == Moved(h, ev)
           IN  /\ evheap_bubble_down(g, t, M) = g
               /\ evheap_bubble_up(g, t, M) = g
               /\ g \in HeapsOf(0..M, M)
               /\ Placed(g, E \ {ev}) /\ Ordered(g, t)
               /\ PosKept(g, h, E \ {ev})
<1>1. h.queue \in [0..M -> Events] /\ h.pos \in [Events -> Nat] /\ h.n = M + 1 /\ h.n - 1 = M
  <2>1. h.queue \in [0..M -> Events] /\ h.pos \in [Events -> Nat] /\ h.n = M + 1
    BY DEF HeapsOf
  <2>2. h.n - 1 = M
    BY <2>1
  <2>3. QED
    BY <2>1, <2>2
<1>2. h.queue[M] = ev /\ M \in 0..M
  BY <1>1 DEF Placed
<1>3. PICK g : g = Moved(h, ev)
  OBVIOUS
<1>4. g = [queue |-> h.queue, pos |-> h.pos, n |-> M]
  <2>1. [h.queue EXCEPT ![M] = ev] = h.queue
    BY <1>1, <1>2
  <2>2. [h.pos EXCEPT ![ev] = M] = h.pos
    BY <1>1
  <2>3. QED
    BY <1>1, <1>2, <1>3, <2>1, <2>2 DEF Moved
<1>5. g.queue = h.queue /\ g.pos = h.pos /\ g.n = M /\ g \in HeapsOf(0..M, M)
  BY <1>1, <1>4 DEF HeapsOf
<1>6. \A i \in 0..M - 1 : i \in 0..M /\ h.queue[i] \in E /\ h.pos[h.queue[i]] = i
  BY <1>1 DEF Placed
<1>7. Placed(g, E \ {ev})
  <2>1. \A i \in 0..M - 1 : h.queue[i] # ev
    BY <1>6
  <2>2. ASSUME NEW e \in E \ {ev}
        PROVE  h.pos[e] \in 0..M - 1 /\ h.queue[h.pos[e]] = e
    <3>1. h.pos[e] \in 0..M /\ h.queue[h.pos[e]] = e
      BY <1>1 DEF Placed
    <3>2. h.pos[e] # M
      BY <3>1, <1>2
    <3>3. QED
      BY <3>1, <3>2
  <2>3. QED
    BY <1>5, <1>6, <2>1, <2>2 DEF Placed
<1>8. Ordered(g, t)
  <2>1. \A j \in 1..M - 1 : InOrder(h, t, j)
    BY <1>1 DEF Ordered
  <2>2. QED
    BY <1>5, <2>1 DEF Ordered, InOrder
<1>9. evheap_bubble_down(g, t, M) = g
  <2>1. M <= M + 1 /\ 2 * M + 1 >= M /\ M \in 0..M
    OBVIOUS
  <2>2. QED
    BY <1>5, <2>1, BubbleNothing
<1>10. ASSUME M > 0
       PROVE  ~evheap_cond_swap(g, t, Parent(M), M).swapped
  <2>1. Parent(M) \in 0..M /\ Parent(M) # M /\ M \in 0..M /\ 0..M \in SUBSET Nat
    BY <1>10, ParentBelow
  <2>2. PICK above : above = h.queue[Parent(M)]
    OBVIOUS
  <2>3. above \in E /\ above # ev
    BY <1>1, <2>1, <2>2 DEF Placed
  <2>4. t[above] <= t[ev]
    <3>1. InOrder(h, t, M)
      BY <1>1, <1>10 DEF Ordered
    <3>2. QED
      BY <1>2, <2>2, <3>1 DEF InOrder
  <2>5. t[above] \in Nat /\ t[ev] \in Nat /\ t[above] # t[ev]
    BY <2>3 DEF NoTies
  <2>6. ~(t[ev] <= t[above])
    BY <2>4, <2>5
  <2>7. PICK p : p = Parent(M)
    OBVIOUS
  <2>8. p \in 0..M /\ M \in 0..M /\ p # M /\ 0..M \in SUBSET Nat
    BY <2>1, <2>7
  <2>9. ~(t[g.queue[M]] <= t[g.queue[p]])
    BY <1>2, <1>5, <2>2, <2>6, <2>7
  <2>10. ~evheap_cond_swap(g, t, p, M).swapped
    BY <1>5, <2>8, <2>9, CondSwap
  <2>11. QED
    BY <2>7, <2>10
<1>11. evheap_bubble_up(g, t, M) = g
  <2>1. M <= M + 1 /\ M \in 0..M
    OBVIOUS
  <2>2. QED
    BY <1>5, <1>10, <2>1, BubbleNothing
<1>12. QED
  BY <1>3, <1>5, <1>7, <1>8, <1>9, <1>11 DEF PosKept

LEMMA RemoveSound ==
    ASSUME NEW M \in Nat, NEW h \in HeapsOf(0..M, M + 1), NEW t \in [Events -> Nat],
           NEW E \in SUBSET Events, Placed(h, E), Ordered(h, t), NoTies(t, E),
           NEW ev \in E
    PROVE  LET g == evheap_remove(h, t, ev)
           IN  /\ g \in HeapsOf(0..M - 1, M)
               /\ Placed(g, E \ {ev}) /\ Ordered(g, t)
               /\ PosKept(g, h, E \ {ev})
<1>3. h.n = M + 1 /\ h.n - 1 = M
  <2>1. h.n = M + 1
    BY DEF HeapsOf
  <2>2. QED
    BY <2>1
<1>4. PICK k : k = h.pos[ev]
  OBVIOUS
<1>5. PICK g : g = Moved(h, ev)
  OBVIOUS
<1>6. PICK down : down = evheap_bubble_down(g, t, k)
  OBVIOUS
<1>7. PICK up : up = evheap_bubble_up(down, t, down.pos[ev])
  OBVIOUS
<1>8. k \in 0..M /\ h.queue[k] = ev
  BY <1>3, <1>4 DEF Placed
<1>9. g.n = M /\ g.pos[ev] = k
  <2>1. h.pos \in [Events -> Nat] /\ ev \in Events
    BY DEF HeapsOf
  <2>2. g = [queue |-> [h.queue EXCEPT ![k] = h.queue[M]], pos |-> [h.pos EXCEPT ![h.queue[M]] = k], n |-> M]
    BY <1>3, <1>4, <1>5 DEF Moved
  <2>3. [h.pos EXCEPT ![h.queue[M]] = k][ev] = k
    BY <2>1, <1>4
  <2>4. QED
    BY <2>2, <2>3
<1>10. evheap_remove(h, t, ev) = [up EXCEPT !.queue = Restrict(up.queue, 0..M - 1)]
  <2>1. k <= M
    BY <1>8
  <2>2. evheap_remove(h, t, ev)
          = LET dn == IF g.pos[ev] <= g.n THEN evheap_bubble_down(g, t, g.pos[ev]) ELSE g
                u == IF g.pos[ev] <= g.n THEN evheap_bubble_up(dn, t, dn.pos[ev]) ELSE dn
            IN  [u EXCEPT !.queue = Restrict(u.queue, 0..g.n - 1)]
    BY <1>5 DEF evheap_remove, Moved
  <2>3. g.pos[ev] <= g.n
    BY <1>9, <2>1
  <2>4. QED
    BY <1>6, <1>7, <1>9, <2>2, <2>3
<1>11. /\ up \in HeapsOf(0..M, M)
       /\ Placed(up, E \ {ev}) /\ Ordered(up, t)
       /\ PosKept(up, h, E \ {ev})
  <2>1. CASE k # M
    <3>1. LET d == evheap_bubble_down(Moved(h, ev), t, h.pos[ev])
              u == evheap_bubble_up(d, t, d.pos[ev])
          IN  /\ u \in HeapsOf(0..M, M)
              /\ Placed(u, E \ {ev}) /\ Ordered(u, t)
              /\ PosKept(u, h, E \ {ev})
      <4>1. h.pos[ev] # M
        BY <1>4, <2>1
      <4>2. QED
        BY <4>1, RemoveInner
    <3>2. QED
      BY <1>4, <1>5, <1>6, <1>7, <3>1
  <2>2. CASE k = M
    <3>1. /\ evheap_bubble_down(g, t, M) = g
          /\ evheap_bubble_up(g, t, M) = g
          /\ g \in HeapsOf(0..M, M)
          /\ Placed(g, E \ {ev}) /\ Ordered(g, t)
          /\ PosKept(g, h, E \ {ev})
      <4>1. h.pos[ev] = M
        BY <1>4, <2>2
      <4>2. QED
        BY <1>5, <4>1, RemoveLast
    <3>2. up = g
      BY <1>6, <1>7, <1>9, <2>2, <3>1
    <3>3. QED
      BY <3>1, <3>2
  <2>3. QED
    BY <2>1, <2>2
<1>12. up.n = M
  BY <1>11 DEF HeapsOf
<1>13. evheap_remove(h, t, ev) = Cut(up)
  BY <1>10, <1>12 DEF Cut
<1>14. QED
  BY <1>11, <1>13, CutSound DEF PosKept

-----------------------------------------------------------------------------
(* The head, and emptying the queue.                                        *)

LEMMA UpTo ==
    ASSUME NEW n \in Nat, NEW S, 0 \in S, \A k \in 0..n - 1 : k \in S => k + 1 \in S
    PROVE  \A k \in 0..n : k \in S
<1> DEFINE Bad == {k \in 0..n : k \notin S}
<1>1. SUFFICES ASSUME Bad # {}
               PROVE  FALSE
  OBVIOUS
<1>2. Bad \in SUBSET Nat
  OBVIOUS
<1>3. PICK k \in Bad : \A j \in Bad : k <= j
  <2> HIDE DEF Bad
  <2>1. QED
    BY <1>1, <1>2, LeastNatural
<1>4. k \in 0..n /\ k \notin S /\ k # 0
  OBVIOUS
<1>5. k - 1 \in 0..n - 1 /\ k - 1 \in 0..n /\ (k - 1) + 1 = k /\ ~(k <= k - 1)
  BY <1>4
<1>6. k - 1 \notin Bad
  BY <1>3, <1>5
<1>7. k - 1 \in S
  BY <1>5, <1>6
<1>8. QED
  BY <1>4, <1>5, <1>7

LEMMA HeadEarliest ==
    ASSUME NEW n \in Nat, NEW h \in HeapsOf(0..n - 1, n), NEW t \in [Events -> Nat],
           Ordered(h, t), NEW i \in 0..n - 1
    PROVE  t[h.queue[0]] <= t[h.queue[i]]
<1> DEFINE Late(j) == t[h.queue[0]] > t[h.queue[j]]
           Bad == {j \in 0..n - 1 : Late(j)}
<1>1. h.n = n /\ \A j \in 0..n - 1 : t[h.queue[j]] \in Nat
  BY DEF HeapsOf
<1>2. SUFFICES ASSUME Bad # {}
               PROVE  FALSE
  <2>1. 0 \in 0..n - 1
    OBVIOUS
  <2>2. QED
    BY <1>1, <1>2, <2>1
<1>3. Bad \in SUBSET Nat
  OBVIOUS
<1>4. PICK k \in Bad : \A j \in Bad : k <= j
  <2> HIDE DEF Bad
  <2>1. QED
    BY <1>2, <1>3, LeastNatural
<1>5. k \in 0..n - 1 /\ Late(k)
  OBVIOUS
<1>6. k # 0
  <2>1. t[h.queue[k]] \in Nat
    BY <1>1, <1>5
  <2>2. QED
    BY <1>5, <2>1
<1>7. k \in 1..h.n - 1
  BY <1>1, <1>5, <1>6
<1>8. InOrder(h, t, k)
  BY <1>7 DEF Ordered
<1>9. Parent(k) \in 0..n - 1 /\ Parent(k) < k
  BY <1>5, <1>6, ParentBelow
<1>10. Parent(k) \notin Bad
  <2>1. ~(k <= Parent(k))
    BY <1>5, <1>9
  <2>2. QED
    BY <1>4, <2>1
<1>11. ~Late(Parent(k))
  BY <1>9, <1>10
<1>12. t[h.queue[Parent(k)]] \in Nat /\ t[h.queue[k]] \in Nat /\ t[h.queue[0]] \in Nat
  BY <1>1, <1>5, <1>9
<1>13. QED
  BY <1>5, <1>8, <1>11, <1>12 DEF InOrder

Drained(h, t, n, f) ==
    f = [k \in 0..n |-> IF k = 0 THEN h ELSE evheap_remove(f[k - 1], t, evheap_head(f[k - 1]))]

LEMMA DrainedExists ==
    ASSUME NEW n \in Nat, NEW h, NEW t
    PROVE  \E f : Drained(h, t, n, f)
<1> DEFINE Next1(g) == evheap_remove(g, t, evheap_head(g))
           S == {k \in 0..n : \E f : Drained(h, t, k, f)}
<1>1. 0 \in S
  <2> DEFINE f == [k \in 0..0 |-> h]
  <2>1. f = [k \in 0..0 |-> IF k = 0 THEN h ELSE Next1(f[k - 1])]
    OBVIOUS
  <2> HIDE DEF f
  <2>2. Drained(h, t, 0, f)
    BY <2>1 DEF Drained
  <2>3. 0 \in 0..n
    OBVIOUS
  <2>4. QED
    BY <2>2, <2>3
<1>2. ASSUME NEW k \in 0..n - 1, k \in S
      PROVE  k + 1 \in S
  <2>1. PICK f : Drained(h, t, k, f)
    BY <1>2
  <2> HIDE DEF Next1
  <2>2. f = [j \in 0..k |-> IF j = 0 THEN h ELSE Next1(f[j - 1])]
    BY <2>1 DEF Drained, Next1
  <2> DEFINE g == [j \in 0..k + 1 |-> IF j = k + 1 THEN Next1(f[k]) ELSE f[j]]
  <2>3. ASSUME NEW j \in 0..k + 1
        PROVE  g[j] = IF j = 0 THEN h ELSE Next1(g[j - 1])
    <3>1. CASE j = k + 1
      <4>1. k \in 0..k + 1 /\ k # k + 1 /\ j # 0 /\ j - 1 = k
        BY <3>1
      <4>2. g[k] = f[k]
        BY <4>1
      <4>3. QED
        BY <3>1, <4>1, <4>2
    <3>2. CASE j # k + 1
      <4>1. j \in 0..k
        BY <3>2
      <4>2. g[j] = f[j] /\ f[j] = IF j = 0 THEN h ELSE Next1(f[j - 1])
        BY <3>2, <4>1, <2>2
      <4>3. j # 0 => j - 1 \in 0..k + 1 /\ j - 1 # k + 1
        BY <4>1
      <4>4. j # 0 => g[j - 1] = f[j - 1]
        BY <4>3
      <4> HIDE DEF g
      <4>5. QED
        BY <4>2, <4>4
    <3>3. QED
      BY <3>1, <3>2
  <2>4. g = [j \in 0..k + 1 |-> g[j]]
    OBVIOUS
  <2> HIDE DEF g
  <2>5. [j \in 0..k + 1 |-> g[j]] = [j \in 0..k + 1 |-> IF j = 0 THEN h ELSE Next1(g[j - 1])]
    BY <2>3
  <2>6. Drained(h, t, k + 1, g)
    BY <2>4, <2>5 DEF Drained, Next1
  <2>7. k + 1 \in 0..n
    OBVIOUS
  <2>8. QED
    BY <2>6, <2>7
<1>3. n \in S
  <2> HIDE DEF S
  <2>1. \A k \in 0..n : k \in S
    BY <1>1, <1>2, UpTo
  <2>2. QED
    BY <2>1
<1>4. QED
  BY <1>3

LEMMA DrainedAll ==
    ASSUME NEW n \in Nat, NEW h \in HeapsOf(0..n - 1, n), NEW t \in [Events -> Nat],
           NEW E \in SUBSET Events, Placed(h, E), Ordered(h, t), NoTies(t, E)
    PROVE  DrainedFrom(h, t) = E
<1> DEFINE loop == CHOOSE f : Drained(h, t, n, f)
<1>1. h.n = n
  BY DEF HeapsOf
<1>2. DrainedFrom(h, t) = {evheap_head(loop[k]) : k \in 0..n - 1}
  BY <1>1 DEF DrainedFrom, Drained
<1>3. Drained(h, t, n, loop)
  BY DrainedExists
<1>4. PICK f : f = loop
  OBVIOUS
<1> HIDE DEF loop
<1>5. f = [k \in 0..n |-> IF k = 0 THEN h ELSE evheap_remove(f[k - 1], t, evheap_head(f[k - 1]))]
  BY <1>3, <1>4 DEF Drained
<1> DEFINE Heads(k) == {evheap_head(f[j]) : j \in 0..k - 1}
           Left(k) == E \ Heads(k)
           S == {k \in 0..n : /\ f[k] \in HeapsOf(0..(n - k) - 1, n - k)
                              /\ Placed(f[k], Left(k)) /\ Ordered(f[k], t)}
<1>6. f[0] = h
  <2>1. 0 \in 0..n
    OBVIOUS
  <2>2. QED
    BY <1>5, <2>1
<1>7. \A k \in 0..n - 1 : f[k + 1] = evheap_remove(f[k], t, evheap_head(f[k]))
  <2>1. ASSUME NEW k \in 0..n - 1
        PROVE  f[k + 1] = evheap_remove(f[k], t, evheap_head(f[k]))
    <3>1. k + 1 \in 0..n /\ k + 1 # 0 /\ (k + 1) - 1 = k
      OBVIOUS
    <3>2. QED
      BY <1>5, <3>1
  <2>2. QED
    BY <2>1
<1>8. ASSUME NEW k \in 0..n - 1, k \in S
      PROVE  /\ evheap_head(f[k]) \in Left(k)
             /\ k + 1 \in S
  <2>1. PICK M \in Nat : M + 1 = n - k
    <3>1. (n - k) - 1 \in Nat /\ ((n - k) - 1) + 1 = n - k
      OBVIOUS
    <3>2. QED
      BY <3>1
  <2>2. PICK g : g = f[k]
    OBVIOUS
  <2>3. PICK F : F = Left(k)
    OBVIOUS
  <2>4. (n - k) - 1 = M /\ n - (k + 1) = M
    BY <2>1
  <2>5. g \in HeapsOf(0..M, M + 1) /\ Placed(g, F) /\ Ordered(g, t)
    BY <1>8, <2>1, <2>2, <2>3, <2>4
  <2>6. PICK ev : ev = evheap_head(g)
    OBVIOUS
  <2>7. g.n = M + 1 /\ ev = g.queue[0] /\ 0 \in 0..g.n - 1
    <3>1. g.n = M + 1
      BY <2>5 DEF HeapsOf
    <3>2. QED
      BY <2>6, <3>1 DEF evheap_head
  <2>8. ev \in F
    BY <2>5, <2>7 DEF Placed
  <2>9. F \in SUBSET Events /\ NoTies(t, F)
    BY <2>3 DEF NoTies
  <2>10. PICK u : u = evheap_remove(g, t, ev)
    OBVIOUS
  <2>11. u \in HeapsOf(0..M - 1, M) /\ Placed(u, F \ {ev}) /\ Ordered(u, t)
    BY <2>5, <2>8, <2>9, <2>10, RemoveSound
  <2>12. f[k + 1] = u
    BY <1>7, <2>2, <2>6, <2>10
  <2>13. Left(k + 1) = F \ {ev}
    <3>1. (k + 1) - 1 = k /\ \A j : j \in 0..k <=> j \in 0..k - 1 \/ j = k
      OBVIOUS
    <3>2. Heads(k + 1) = Heads(k) \cup {ev}
      BY <2>2, <2>6, <3>1
    <3> HIDE DEF Heads
    <3>3. QED
      BY <2>3, <3>2
  <2>14. k + 1 \in 0..n
    OBVIOUS
  <2> HIDE DEF Left
  <2>15. QED
    BY <2>2, <2>3, <2>4, <2>6, <2>8, <2>11, <2>12, <2>13, <2>14
<1>9. 0 \in S
  <2>1. Left(0) = E
    OBVIOUS
  <2>2. n - 0 = n /\ (n - 0) - 1 = n - 1 /\ 0 \in 0..n
    OBVIOUS
  <2> HIDE DEF Left
  <2>3. QED
    BY <1>6, <2>1, <2>2
<1>10. \A k \in 0..n : k \in S
  <2> HIDE DEF S, Left
  <2>1. QED
    BY <1>8, <1>9, UpTo
<1>11. Left(n) = {}
  <2>1. n \in S /\ n - n = 0
    <3> HIDE DEF S
    <3>1. QED
      BY <1>10
  <2>2. Placed(f[n], Left(n)) /\ f[n].n = 0
    BY <2>1 DEF HeapsOf
  <2> HIDE DEF Left
  <2>3. \A e \in Left(n) : f[n].pos[e] \in 0..0 - 1
    BY <2>2 DEF Placed
  <2>4. QED
    BY <2>3
<1>12. \A k \in 0..n - 1 : evheap_head(f[k]) \in E
  <2>1. ASSUME NEW k \in 0..n - 1
        PROVE  evheap_head(f[k]) \in E
    <3>1. k \in S
      <4> HIDE DEF S
      <4>1. QED
        BY <1>10
    <3>2. evheap_head(f[k]) \in Left(k)
      <4> HIDE DEF S, Left
      <4>1. QED
        BY <1>8, <3>1
    <3>3. QED
      BY <3>2
  <2>2. QED
    BY <2>1
<1>13. Heads(n) = E
  BY <1>11, <1>12
<1>14. QED
  BY <1>2, <1>4, <1>13

-----------------------------------------------------------------------------
(* The invariant.                                                           *)

HeapRec(q, p, n) == [queue |-> q, pos |-> p, n |-> n]

(* q, p and n are a heap of E ordered by t, in which no times are equal.    *)
SoundHeap(q, p, n, t, E) ==
    /\ HeapRec(q, p, n) \in HeapsOf(0..n - 1, n)
    /\ Placed(HeapRec(q, p, n), E)
    /\ Ordered(HeapRec(q, p, n), t)
    /\ NoTies(t, E)

(* The events in the queue: all that are allocated but the one being run.   *)
Pending == live \ (IF pc = "callback" THEN {evt} ELSE {})

QueueInv ==
    /\ count \in Nat
    /\ pos \in [Events -> 0..Cardinality(Events)]
    /\ event_time \in [Events -> 0..MaxTime]
    /\ live \in SUBSET Events
    /\ pc \in {"loop", "poll", "callback"}
    /\ evt \in Events \cup {NULL}
    /\ inputs \in BOOLEAN
    /\ now \in 0..MaxTime
    /\ SoundHeap(queue, pos, count, event_time, Pending)
    /\ size \in PowersOfTwo /\ Want(count) <= size /\ size < 3 * Want(count)
    /\ pc = "poll" /\ ~inputs => evt = evheap_head(Heap)
    /\ pc = "callback" => evt \in live

LEMMA CountOf ==
    ASSUME NEW n \in Nat, NEW q, DOMAIN q = 0..n - 1
    PROVE  Cardinality(DOMAIN q) = n
<1>1. Cardinality(0..n - 1) = IF 0 > n - 1 THEN 0 ELSE (n - 1) - 0 + 1
  <2>1. 0 \in Int /\ n - 1 \in Int
    OBVIOUS
  <2>2. QED
    BY <2>1, FS_Interval
<1>2. QED
  BY <1>1

(* Freeing events outside E does not touch a heap of E.                     *)
LEMMA SoundAgain ==
    ASSUME NEW q, NEW p, NEW n \in Nat, NEW t, NEW E \in SUBSET Events, SoundHeap(q, p, n, t, E),
           NEW p2 \in [Events -> Nat], NEW t2, \A e \in E : p2[e] = p[e] /\ t2[e] = t[e]
    PROVE  SoundHeap(q, p2, n, t2, E)
<1>1. q \in [0..n - 1 -> Events] /\ p \in [Events -> Nat]
  BY DEF SoundHeap, HeapRec, HeapsOf
<1>2. /\ \A i \in 0..n - 1 : q[i] \in E /\ p[q[i]] = i
      /\ \A e \in E : p[e] \in 0..n - 1 /\ q[p[e]] = e
  BY DEF SoundHeap, HeapRec, Placed
<1>3. HeapRec(q, p2, n) \in HeapsOf(0..n - 1, n)
  BY <1>1 DEF HeapRec, HeapsOf
<1>4. Placed(HeapRec(q, p2, n), E)
  BY <1>2 DEF HeapRec, Placed
<1>5. Ordered(HeapRec(q, p2, n), t2)
  <2>1. ASSUME NEW j \in 1..n - 1
        PROVE  t2[q[Parent(j)]] <= t2[q[j]]
    <3>1. Parent(j) \in 0..n - 1 /\ j \in 0..n - 1
      BY ParentBelow
    <3>2. t[q[Parent(j)]] <= t[q[j]]
      BY DEF SoundHeap, HeapRec, Ordered, InOrder
    <3>3. QED
      BY <1>2, <3>1, <3>2
  <2>2. QED
    BY <2>1 DEF HeapRec, Ordered, InOrder
<1>6. NoTies(t2, E)
  BY DEF SoundHeap, NoTies
<1>7. QED
  BY <1>3, <1>4, <1>5, <1>6 DEF SoundHeap

(* A heap has no more entries than there are events.                        *)
LEMMA SoundCount ==
    ASSUME NEW q, NEW p, NEW n \in Nat, NEW t, NEW E \in SUBSET Events, SoundHeap(q, p, n, t, E)
    PROVE  n <= Cardinality(Events) /\ Cardinality(Events) \in Nat
<1>1. q \in [0..n - 1 -> Events]
  BY DEF SoundHeap, HeapRec, HeapsOf
<1>2. \A i \in 0..n - 1 : p[q[i]] = i
  BY DEF SoundHeap, HeapRec, Placed
<1>3. q \in Injection(0..n - 1, Events)
  BY <1>1, <1>2 DEF Injection, IsInjective
<1>4. IsFiniteSet(Events)
  BY EventQueueAssumption
<1>5. Cardinality(0..n - 1) <= Cardinality(Events)
  BY <1>3, <1>4, FS_Injection
<1>6. Cardinality(0..n - 1) = n
  BY <1>1, CountOf
<1>7. Cardinality(Events) \in Nat
  BY EventQueueAssumption, FS_CardinalityType
<1>8. QED
  BY <1>5, <1>6, <1>7

(* What the heap methods return is a heap again, and has its parts.         *)
LEMMA SoundParts ==
    ASSUME NEW n \in Nat, NEW g \in HeapsOf(0..n - 1, n), NEW t, NEW E,
           Placed(g, E), Ordered(g, t), NoTies(t, E)
    PROVE  SoundHeap(g.queue, g.pos, n, t, E)
<1>1. g = HeapRec(g.queue, g.pos, n)
  BY DEF HeapsOf, HeapRec
<1>2. QED
  BY <1>1 DEF SoundHeap

LEMMA SoundAdd ==
    ASSUME NEW q, NEW p, NEW n \in Nat, NEW t \in [Events -> Nat],
           NEW E \in SUBSET Events, SoundHeap(q, p, n, t, E),
           NEW ev \in Events \ E, NEW d \in Nat, \A e \in E : t[e] # d,
           NEW u \in [Events -> Nat], u = [t EXCEPT ![ev] = d]
    PROVE  LET g == evheap_add(HeapRec(q, p, n), u, ev)
           IN  /\ SoundHeap(g.queue, g.pos, n + 1, u, E \cup {ev})
               /\ PosKept(g, HeapRec(q, p, n), E \cup {ev})
<1>1. PICK h : h = HeapRec(q, p, n)
  OBVIOUS
<1>2. SoundHeap(q, p, n, u, E)
  <2>1. p \in [Events -> Nat]
    BY DEF SoundHeap, HeapRec, HeapsOf
  <2>2. \A e \in E : p[e] = p[e] /\ u[e] = t[e]
    OBVIOUS
  <2>3. QED
    BY <2>1, <2>2, SoundAgain
<1>3. h \in HeapsOf(0..n - 1, n) /\ Placed(h, E) /\ Ordered(h, u)
  BY <1>1, <1>2 DEF SoundHeap
<1>4. PICK g : g = evheap_add(h, u, ev)
  OBVIOUS
<1>5. /\ g \in HeapsOf(0..n, n + 1)
      /\ Placed(g, E \cup {ev}) /\ Ordered(g, u)
      /\ PosKept(g, h, E \cup {ev})
  BY <1>3, <1>4, AddSound
<1>6. NoTies(u, E \cup {ev})
  <2>1. u[ev] = d /\ \A e \in E : u[e] = t[e] /\ u[e] # d
    OBVIOUS
  <2>2. NoTies(t, E)
    BY DEF SoundHeap
  <2>3. QED
    BY <2>1, <2>2 DEF NoTies
<1>7. g \in HeapsOf(0..(n + 1) - 1, n + 1) /\ n + 1 \in Nat
  BY <1>5
<1>8. SoundHeap(g.queue, g.pos, n + 1, u, E \cup {ev})
  BY <1>5, <1>6, <1>7, SoundParts
<1>9. QED
  BY <1>1, <1>4, <1>5, <1>8

LEMMA SoundRemove ==
    ASSUME NEW q, NEW p, NEW n \in Nat, NEW t \in [Events -> Nat],
           NEW E \in SUBSET Events, SoundHeap(q, p, n, t, E), NEW ev \in E
    PROVE  LET g == evheap_remove(HeapRec(q, p, n), t, ev)
           IN  /\ n > 0
               /\ SoundHeap(g.queue, g.pos, n - 1, t, E \ {ev})
               /\ PosKept(g, HeapRec(q, p, n), E \ {ev})
<1>1. PICK h : h = HeapRec(q, p, n)
  OBVIOUS
<1>2. h \in HeapsOf(0..n - 1, n) /\ Placed(h, E) /\ Ordered(h, t) /\ NoTies(t, E)
  BY <1>1 DEF SoundHeap
<1>3. n > 0
  <2>1. h.pos[ev] \in 0..n - 1
    BY <1>2 DEF Placed, HeapsOf
  <2>2. QED
    BY <2>1
<1>4. PICK M \in Nat : M = n - 1
  BY <1>3
<1>5. n = M + 1 /\ h \in HeapsOf(0..M, M + 1)
  <2>1. n = M + 1
    BY <1>4
  <2>2. QED
    BY <1>2, <1>4, <2>1
<1>6. PICK g : g = evheap_remove(h, t, ev)
  OBVIOUS
<1>7. /\ g \in HeapsOf(0..M - 1, M)
      /\ Placed(g, E \ {ev}) /\ Ordered(g, t)
      /\ PosKept(g, h, E \ {ev})
  BY <1>2, <1>5, <1>6, RemoveSound
<1>8. NoTies(t, E \ {ev})
  BY <1>2 DEF NoTies
<1>9. SoundHeap(g.queue, g.pos, M, t, E \ {ev})
  BY <1>7, <1>8, SoundParts
<1>10. QED
  BY <1>1, <1>3, <1>4, <1>6, <1>7, <1>9

LEMMA SoundPos ==
    ASSUME NEW q, NEW p, NEW n \in Nat, NEW t, NEW E \in SUBSET Events, SoundHeap(q, p, n, t, E),
           \A e \in Events \ E : p[e] \in 0..Cardinality(Events)
    PROVE  p \in [Events -> 0..Cardinality(Events)]
<1>1. n <= Cardinality(Events) /\ Cardinality(Events) \in Nat
  BY SoundCount
<1>2. p \in [Events -> Nat]
  BY DEF SoundHeap, HeapRec, HeapsOf
<1>3. \A e \in E : p[e] \in 0..n - 1
  BY DEF SoundHeap, HeapRec, Placed
<1>4. \A e \in E : p[e] \in 0..Cardinality(Events)
  BY <1>1, <1>3
<1>5. QED
  BY <1>2, <1>4

(* What every action starts from.                                           *)
LEMMA InvParts ==
    ASSUME QueueInv
    PROVE  /\ Heap = HeapRec(queue, pos, count) /\ count \in Nat
           /\ DOMAIN queue = 0..count - 1
           /\ pos \in [Events -> Nat] /\ event_time \in [Events -> Nat]
           /\ Pending \in SUBSET Events
           /\ \A e \in Events : pos[e] \in 0..Cardinality(Events)
           /\ Cardinality(Events) \in Nat
           /\ Range(queue) = Pending
<1>1. Cardinality(Events) \in Nat
  BY EventQueueAssumption, FS_CardinalityType
<1>2. \A n \in Nat : 0..n \subseteq Nat
  OBVIOUS
<1>3. event_time \in [Events -> 0..MaxTime] /\ 0..MaxTime \subseteq Nat
  BY <1>2, EventQueueAssumption DEF QueueInv
<1>4. pos \in [Events -> 0..Cardinality(Events)] /\ 0..Cardinality(Events) \subseteq Nat
  BY <1>1, <1>2 DEF QueueInv
<1>5. pos \in [Events -> Nat] /\ event_time \in [Events -> Nat]
  BY <1>3, <1>4
<1>6. SoundHeap(queue, pos, count, event_time, Pending) /\ count \in Nat
  BY DEF QueueInv
<1>7. DOMAIN queue = 0..count - 1
  BY <1>6 DEF SoundHeap, HeapRec, HeapsOf
<1>8. Range(queue) = Pending
  <2>1. /\ \A i \in 0..count - 1 : queue[i] \in Pending
        /\ \A e \in Pending : pos[e] \in 0..count - 1 /\ queue[pos[e]] = e
    BY <1>6 DEF SoundHeap, HeapRec, Placed
  <2>2. QED
    BY <1>7, <2>1 DEF Range
<1>9. Pending \in SUBSET Events
  BY DEF QueueInv, Pending
<1>10. QED
  BY <1>1, <1>4, <1>5, <1>6, <1>7, <1>8, <1>9 DEF Heap, HeapRec

LEMMA InitInv == Init => QueueInv
<1> SUFFICES ASSUME Init
             PROVE  QueueInv
  OBVIOUS
<1>1. queue \in [0..0 - 1 -> Events] /\ DOMAIN queue = 0..0 - 1
  BY DEF Init
<1>2. count = 0
  BY <1>1, CountOf DEF count
<1>3. Cardinality(Events) \in Nat
  BY EventQueueAssumption, FS_CardinalityType
<1>4. /\ pos \in [Events -> 0..Cardinality(Events)] /\ pos \in [Events -> Nat]
      /\ event_time \in [Events -> 0..MaxTime]
      /\ live \in SUBSET Events /\ pc = "loop" /\ evt = NULL /\ inputs \in BOOLEAN /\ now \in 0..MaxTime
  <2>1. 0 \in 0..Cardinality(Events) /\ 0 \in 0..MaxTime
    BY <1>3, EventQueueAssumption
  <2>2. inputs \in BOOLEAN
    BY DEF Init
  <2>3. QED
    BY <2>1, <2>2 DEF Init
<1>5. Pending = {}
  BY DEF Init, Pending
<1>6. SoundHeap(queue, pos, 0, event_time, {})
  BY <1>1, <1>4 DEF SoundHeap, HeapRec, HeapsOf, Placed, Ordered, NoTies
<1>7. size \in PowersOfTwo /\ Want(0) <= size /\ size < 3 * Want(0)
  <2>1. size = 1 /\ Want(0) = 1
    BY DEF Init, Want
  <2>2. QED
    BY <2>1, PowerOfTwo
<1>8. QED
  BY <1>2, <1>4, <1>5, <1>6, <1>7 DEF QueueInv

LEMMA ScheduleInv ==
    ASSUME QueueInv, ~TiesPossible, NEW e \in Events, NEW d \in Delays, schedule_event(e, d)
    PROVE  QueueInv'
<1>1. PICK n \in Nat : n = count
  BY InvParts
<1>2. PICK time : time = now + d
  OBVIOUS
<1>3. time \in 0..MaxTime /\ time \in Nat
  BY <1>2, EventQueueAssumption DEF QueueInv, schedule_event
<1>4. e \in Events \ Pending /\ e \notin live
  BY DEF Pending, schedule_event
<1>5. SoundHeap(queue, pos, n, event_time, Pending)
  BY <1>1 DEF QueueInv
<1>6. \A f \in Pending : event_time[f] # time
  BY <1>2, InvParts DEF schedule_event
<1>7. PICK u : u = event_time'
  OBVIOUS
<1>8. u = [event_time EXCEPT ![e] = time] /\ u \in [Events -> Nat] /\ u \in [Events -> 0..MaxTime]
  BY <1>2, <1>3, <1>7, InvParts DEF schedule_event, QueueInv
<1>9. PICK g : g = evheap_add(HeapRec(queue, pos, n), u, e)
  OBVIOUS
<1>10. queue' = g.queue /\ pos' = g.pos
  BY <1>1, <1>7, <1>9, InvParts DEF schedule_event
<1>11. SoundHeap(g.queue, g.pos, n + 1, u, Pending \cup {e})
       /\ PosKept(g, HeapRec(queue, pos, n), Pending \cup {e})
  BY <1>3, <1>4, <1>5, <1>6, <1>8, <1>9, InvParts, SoundAdd
<1>12. Pending' = Pending \cup {e}
  <2>1. live' = live \cup {e} /\ pc' = pc /\ evt' = evt
    BY DEF schedule_event
  <2>2. pc = "callback" => evt # e
    BY <1>4 DEF QueueInv
  <2>3. QED
    BY <2>1, <2>2 DEF Pending
<1>13. n + 1 \in Nat /\ (n + 1) - 1 = n
  OBVIOUS
<1>14. count' = n + 1
  <2>1. DOMAIN queue' = 0..(n + 1) - 1
    BY <1>10, <1>11 DEF SoundHeap, HeapRec, HeapsOf
  <2>2. QED
    BY <1>13, <2>1, CountOf DEF count
<1>15. pos' \in [Events -> 0..Cardinality(Events)]
  <2>1. PICK E : E = Pending \cup {e}
    OBVIOUS
  <2>2. E \in SUBSET Events /\ SoundHeap(queue', pos', n + 1, u, E)
    BY <1>10, <1>11, <2>1, InvParts
  <2>3. \A f \in Events \ E : pos'[f] \in 0..Cardinality(Events)
    BY <1>10, <1>11, <2>1, InvParts DEF PosKept, HeapRec
  <2>4. QED
    BY <1>13, <2>2, <2>3, SoundPos
<1>16. size' \in PowersOfTwo /\ Want(n + 1) <= size' /\ size' < 3 * Want(n + 1)
  <2>1. size \in PowersOfTwo /\ size' = evheap_set_size(size, n + 1)
    BY <1>1 DEF QueueInv, schedule_event
  <2>2. QED
    BY <1>13, <2>1, SetSizeFits
<1>17. SoundHeap(queue', pos', count', event_time', Pending')
  BY <1>7, <1>10, <1>11, <1>12, <1>14
<1>18. /\ live' \in SUBSET Events /\ pc' = pc /\ evt' = evt /\ now' = now
       /\ inputs' = (pc = "poll") /\ live \subseteq live'
  BY DEF schedule_event, QueueInv
<1>19. /\ pc' \in {"loop", "poll", "callback"} /\ evt' \in Events \cup {NULL} /\ now' \in 0..MaxTime
       /\ inputs' \in BOOLEAN /\ ~(pc' = "poll" /\ ~inputs')
       /\ (pc' = "callback" => evt' \in live')
  BY <1>18 DEF QueueInv
<1>20. event_time' \in [Events -> 0..MaxTime] /\ count' \in Nat
  BY <1>7, <1>8, <1>13, <1>14
<1>21. QED
  BY <1>14, <1>15, <1>16, <1>17, <1>18, <1>19, <1>20 DEF QueueInv

(* What is common to the actions that take ev out of the heap.              *)
LEMMA TakenOut ==
    ASSUME QueueInv, NEW ev \in Pending,
           NEW g, g = evheap_remove(Heap, event_time, ev), queue' = g.queue,
           size' = evheap_set_size(size, count - 1)
    PROVE  /\ count' \in Nat
           /\ SoundHeap(queue', g.pos, count', event_time, Pending \ {ev})
           /\ g.pos \in [Events -> 0..Cardinality(Events)]
           /\ size' \in PowersOfTwo /\ Want(count') <= size' /\ size' < 3 * Want(count')
<1>1. PICK n \in Nat : n = count
  BY InvParts
<1>2. SoundHeap(queue, pos, n, event_time, Pending)
  BY <1>1 DEF QueueInv
<1>3. g = evheap_remove(HeapRec(queue, pos, n), event_time, ev)
  BY <1>1, InvParts
<1>4. PICK E : E = Pending \ {ev}
  OBVIOUS
<1>5. n > 0 /\ SoundHeap(g.queue, g.pos, n - 1, event_time, E) /\ PosKept(g, HeapRec(queue, pos, n), E)
  <2>1. PICK P : P = Pending
    OBVIOUS
  <2>2. P \in SUBSET Events /\ event_time \in [Events -> Nat] /\ ev \in P
    BY <2>1, InvParts
  <2>3. SoundHeap(queue, pos, n, event_time, P)
    BY <1>2, <2>1
  <2>4. /\ n > 0 /\ SoundHeap(g.queue, g.pos, n - 1, event_time, P \ {ev})
        /\ PosKept(g, HeapRec(queue, pos, n), P \ {ev})
    BY <1>3, <2>2, <2>3, SoundRemove
  <2>5. QED
    BY <1>4, <2>1, <2>4
<1>6. n - 1 \in Nat
  BY <1>5
<1>7. count' = n - 1
  <2>1. DOMAIN queue' = 0..(n - 1) - 1
    BY <1>5 DEF SoundHeap, HeapRec, HeapsOf
  <2>2. QED
    BY <1>6, <2>1, CountOf DEF count
<1>8. g.pos \in [Events -> 0..Cardinality(Events)]
  <2>1. \A f \in Events \ E : g.pos[f] \in 0..Cardinality(Events)
    BY <1>5, InvParts DEF PosKept, HeapRec
  <2>2. E \in SUBSET Events
    BY <1>4, InvParts
  <2>3. QED
    BY <1>5, <1>6, <2>1, <2>2, SoundPos
<1>9. size' \in PowersOfTwo /\ Want(n - 1) <= size' /\ size' < 3 * Want(n - 1)
  <2>1. size \in PowersOfTwo /\ size' = evheap_set_size(size, n - 1)
    BY <1>1 DEF QueueInv
  <2>2. QED
    BY <1>6, <2>1, SetSizeFits
<1>10. QED
  BY <1>4, <1>5, <1>6, <1>7, <1>8, <1>9

LEMMA DestroyInv ==
    ASSUME QueueInv, NEW e \in Events, destroy_event(e)
    PROVE  QueueInv'
<1>1. e \in Pending
  BY DEF destroy_event, Pending
<1>2. PICK g : g = evheap_remove(Heap, event_time, e)
  OBVIOUS
<1>3. /\ queue' = g.queue
      /\ pos' = [f \in Events |-> IF f \in {e} THEN 0 ELSE g.pos[f]]
      /\ event_time' = [f \in Events |-> IF f \in {e} THEN 0 ELSE event_time[f]]
      /\ live' = live \ {e}
      /\ size' = evheap_set_size(size, count - 1)
      /\ inputs' = (pc = "poll")
      /\ pc' = pc /\ evt' = evt /\ now' = now
  BY <1>2 DEF destroy_event, HeapAfterFree
<1>4. /\ count' \in Nat
      /\ SoundHeap(queue', g.pos, count', event_time, Pending \ {e})
      /\ g.pos \in [Events -> 0..Cardinality(Events)]
      /\ size' \in PowersOfTwo /\ Want(count') <= size' /\ size' < 3 * Want(count')
  BY <1>1, <1>2, <1>3, TakenOut
<1>5. Pending' = Pending \ {e}
  BY <1>3 DEF Pending
<1>6. /\ pos' \in [Events -> 0..Cardinality(Events)] /\ pos' \in [Events -> Nat]
      /\ event_time' \in [Events -> 0..MaxTime]
  <2>1. 0 \in 0..Cardinality(Events) /\ 0 \in 0..MaxTime
    BY EventQueueAssumption, InvParts
  <2>2. event_time \in [Events -> 0..MaxTime]
    BY DEF QueueInv
  <2>3. pos' \in [Events -> 0..Cardinality(Events)] /\ event_time' \in [Events -> 0..MaxTime]
    BY <1>3, <1>4, <2>1, <2>2
  <2>4. QED
    BY <2>3
<1>7. SoundHeap(queue', pos', count', event_time', Pending')
  <2>1. PICK E : E = Pending \ {e}
    OBVIOUS
  <2>2. E \in SUBSET Events /\ \A f \in E : pos'[f] = g.pos[f] /\ event_time'[f] = event_time[f]
    BY <1>3, <2>1, InvParts
  <2>3. PICK p2 : p2 = pos'
    OBVIOUS
  <2>4. PICK t2 : t2 = event_time'
    OBVIOUS
  <2>5. PICK q : q = queue'
    OBVIOUS
  <2>6. PICK n \in Nat : n = count'
    BY <1>4
  <2>7. /\ p2 \in [Events -> Nat]
        /\ \A f \in E : p2[f] = g.pos[f] /\ t2[f] = event_time[f]
    BY <1>6, <2>2, <2>3, <2>4
  <2>8. SoundHeap(q, g.pos, n, event_time, E)
    BY <1>4, <2>1, <2>5, <2>6
  <2>9. SoundHeap(q, p2, n, t2, E)
    BY <2>2, <2>7, <2>8, SoundAgain
  <2>10. QED
    BY <1>5, <2>1, <2>3, <2>4, <2>5, <2>6, <2>9
<1>8. /\ live' \in SUBSET Events /\ inputs' \in BOOLEAN /\ ~(pc' = "poll" /\ ~inputs')
      /\ pc' \in {"loop", "poll", "callback"} /\ evt' \in Events \cup {NULL} /\ now' \in 0..MaxTime
  BY <1>3 DEF QueueInv
<1>9. pc' = "callback" => evt' \in live'
  BY <1>3 DEF QueueInv, destroy_event
<1>10. QED
  BY <1>4, <1>6, <1>7, <1>8, <1>9 DEF QueueInv

LEMMA ClearInv ==
    ASSUME QueueInv, clear_event_queue
    PROVE  QueueInv'
<1>1. PICK n \in Nat : n = count
  BY InvParts
<1>2. DrainedFrom(Heap, event_time) = live /\ Pending = live
  <2>1. Pending = live
    BY DEF Pending, clear_event_queue
  <2>2. PICK h : h = HeapRec(queue, pos, n)
    OBVIOUS
  <2>3. h \in HeapsOf(0..n - 1, n) /\ Placed(h, Pending) /\ Ordered(h, event_time) /\ NoTies(event_time, Pending)
    BY <1>1, <2>2 DEF QueueInv, SoundHeap
  <2>4. Heap = h
    BY <1>1, <2>2, InvParts
  <2>5. QED
    BY <2>1, <2>3, <2>4, InvParts, DrainedAll
<1>3. /\ queue' = << >>
      /\ pos' = [f \in Events |-> IF f \in live THEN 0 ELSE pos[f]]
      /\ event_time' = [f \in Events |-> IF f \in live THEN 0 ELSE event_time[f]]
      /\ live' = {}
      /\ size' = evheap_set_size(size, 0)
      /\ pc' = "loop" /\ evt' = evt /\ inputs' = inputs /\ now' = now
  <2>1. [Heap EXCEPT !.queue = << >>].queue = << >> /\ [Heap EXCEPT !.queue = << >>].pos = pos
    BY DEF Heap
  <2>2. HeapAfterFree([Heap EXCEPT !.queue = << >>], live)
    BY <1>2 DEF clear_event_queue
  <2>3. QED
    BY <2>1, <2>2 DEF clear_event_queue, HeapAfterFree
<1>4. /\ pos' \in [Events -> 0..Cardinality(Events)] /\ pos' \in [Events -> Nat]
      /\ event_time' \in [Events -> 0..MaxTime]
  <2>1. 0 \in 0..Cardinality(Events) /\ 0 \in 0..MaxTime
    BY EventQueueAssumption, InvParts
  <2>2. event_time \in [Events -> 0..MaxTime] /\ pos \in [Events -> 0..Cardinality(Events)]
    BY DEF QueueInv
  <2>3. pos' \in [Events -> 0..Cardinality(Events)] /\ event_time' \in [Events -> 0..MaxTime]
    BY <1>3, <2>1, <2>2
  <2>4. QED
    BY <2>3
<1>5. queue' \in [0..0 - 1 -> Events] /\ DOMAIN queue' = 0..0 - 1
  BY <1>3
<1>6. count' = 0
  BY <1>5, CountOf DEF count
<1>7. Pending' = {}
  BY <1>3 DEF Pending
<1>8. SoundHeap(queue', pos', 0, event_time', {})
  BY <1>4, <1>5 DEF SoundHeap, HeapRec, HeapsOf, Placed, Ordered, NoTies
<1>9. size' \in PowersOfTwo /\ Want(0) <= size' /\ size' < 3 * Want(0)
  <2>1. size \in PowersOfTwo /\ 0 \in Nat
    BY DEF QueueInv
  <2>2. QED
    BY <1>3, <2>1, SetSizeFits
<1>10. /\ live' \in SUBSET Events /\ inputs' \in BOOLEAN /\ pc' = "loop"
       /\ evt' \in Events \cup {NULL} /\ now' \in 0..MaxTime
  BY <1>3 DEF QueueInv
<1>11. QED
  BY <1>4, <1>6, <1>7, <1>8, <1>9, <1>10 DEF QueueInv

(* The head is an event of the queue, unless there is none.                 *)
LEMMA HeadPending ==
    ASSUME QueueInv
    PROVE  /\ evheap_head(Heap) \in Pending \/ evheap_head(Heap) = NULL
           /\ evheap_head(Heap) # NULL =>
                \A f \in Pending : event_time[evheap_head(Heap)] <= event_time[f]
<1>1. PICK n \in Nat : n = count
  BY InvParts
<1>2. PICK h : h = HeapRec(queue, pos, n)
  OBVIOUS
<1>3. Heap = h
  BY <1>1, <1>2, InvParts
<1>4. h \in HeapsOf(0..n - 1, n) /\ Placed(h, Pending) /\ Ordered(h, event_time)
  BY <1>1, <1>2 DEF QueueInv, SoundHeap
<1>5. h.n = n
  BY <1>4 DEF HeapsOf
<1>6. CASE n = 0
  BY <1>3, <1>5, <1>6 DEF evheap_head
<1>7. CASE n # 0
  <2>1. evheap_head(h) = h.queue[0] /\ 0 \in 0..h.n - 1
    BY <1>5, <1>7 DEF evheap_head
  <2>2. evheap_head(h) \in Pending
    BY <1>4, <2>1 DEF Placed
  <2>3. ASSUME NEW f \in Pending
        PROVE  event_time[h.queue[0]] <= event_time[f]
    <3>1. h.pos[f] \in 0..n - 1 /\ h.queue[h.pos[f]] = f
      BY <1>4, <1>5 DEF Placed
    <3>2. event_time[h.queue[0]] <= event_time[h.queue[h.pos[f]]]
      BY <1>4, <3>1, InvParts, HeadEarliest
    <3>3. QED
      BY <3>1, <3>2
  <2>4. QED
    BY <1>3, <2>1, <2>2, <2>3
<1>8. QED
  BY <1>6, <1>7

LEMMA PollExecuteInv ==
    ASSUME QueueInv, PollExecute
    PROVE  QueueInv'
<1>1. evt \in Pending /\ Pending = live
  <2>1. pc = "poll" /\ ~inputs /\ evt # NULL
    BY DEF PollExecute
  <2>2. evt = evheap_head(Heap)
    BY <2>1 DEF QueueInv
  <2>3. QED
    BY <2>1, <2>2, HeadPending DEF Pending
<1>2. PICK g : g = evheap_remove(Heap, event_time, evt)
  OBVIOUS
<1>3. /\ queue' = g.queue /\ pos' = g.pos
      /\ size' = evheap_set_size(size, count - 1)
      /\ pc' = "callback" /\ evt' = evt /\ event_time' = event_time
      /\ live' = live /\ inputs' = inputs /\ now' = now
  BY <1>2 DEF PollExecute
<1>4. /\ count' \in Nat
      /\ SoundHeap(queue', g.pos, count', event_time, Pending \ {evt})
      /\ g.pos \in [Events -> 0..Cardinality(Events)]
      /\ size' \in PowersOfTwo /\ Want(count') <= size' /\ size' < 3 * Want(count')
  BY <1>1, <1>2, <1>3, TakenOut
<1>5. Pending' = Pending \ {evt}
  BY <1>1, <1>3 DEF Pending
<1>6. SoundHeap(queue', pos', count', event_time', Pending')
  BY <1>3, <1>4, <1>5
<1>7. /\ pos' \in [Events -> 0..Cardinality(Events)]
      /\ event_time' \in [Events -> 0..MaxTime]
      /\ live' \in SUBSET Events /\ inputs' \in BOOLEAN
      /\ evt' \in Events \cup {NULL} /\ now' \in 0..MaxTime
  BY <1>3, <1>4 DEF QueueInv
<1>8. pc' = "callback" /\ evt' \in live'
  BY <1>1, <1>3
<1>9. QED
  BY <1>4, <1>6, <1>7, <1>8 DEF QueueInv

LEMMA CallbackReturnInv ==
    ASSUME QueueInv, CallbackReturn
    PROVE  QueueInv'
<1>1. /\ queue' = queue
      /\ pos' = [f \in Events |-> IF f \in {evt} THEN 0 ELSE pos[f]]
      /\ event_time' = [f \in Events |-> IF f \in {evt} THEN 0 ELSE event_time[f]]
      /\ live' = live \ {evt}
      /\ pc = "callback" /\ pc' = "loop" /\ evt' = NULL
      /\ size' = size /\ inputs' = inputs /\ now' = now
  BY DEF CallbackReturn, HeapAfterFree, Heap
<1>2. /\ pos' \in [Events -> 0..Cardinality(Events)] /\ pos' \in [Events -> Nat]
      /\ event_time' \in [Events -> 0..MaxTime]
  <2>1. 0 \in 0..Cardinality(Events) /\ 0 \in 0..MaxTime
    BY EventQueueAssumption, InvParts
  <2>2. event_time \in [Events -> 0..MaxTime] /\ pos \in [Events -> 0..Cardinality(Events)]
    BY DEF QueueInv
  <2>3. pos' \in [Events -> 0..Cardinality(Events)] /\ event_time' \in [Events -> 0..MaxTime]
    BY <1>1, <2>1, <2>2
  <2>4. QED
    BY <2>3, InvParts
<1>3. Pending' = Pending /\ evt \notin Pending
  BY <1>1 DEF Pending
<1>4. count' = count
  BY <1>1 DEF count
<1>5. SoundHeap(queue', pos', count', event_time', Pending')
  <2>1. PICK p2 : p2 = pos'
    OBVIOUS
  <2>2. PICK t2 : t2 = event_time'
    OBVIOUS
  <2>3. PICK n \in Nat : n = count
    BY InvParts
  <2>4. PICK E : E = Pending
    OBVIOUS
  <2>5. /\ E \in SUBSET Events /\ p2 \in [Events -> Nat]
        /\ \A f \in E : p2[f] = pos[f] /\ t2[f] = event_time[f]
    BY <1>1, <1>2, <1>3, <2>1, <2>2, <2>4, InvParts
  <2>6. SoundHeap(queue, pos, n, event_time, E)
    BY <2>3, <2>4 DEF QueueInv
  <2>7. SoundHeap(queue, p2, n, t2, E)
    BY <2>5, <2>6, SoundAgain
  <2>8. QED
    BY <1>1, <1>3, <1>4, <2>1, <2>2, <2>3, <2>4, <2>7
<1>6. /\ live' \in SUBSET Events /\ inputs' \in BOOLEAN
      /\ evt' \in Events \cup {NULL} /\ now' \in 0..MaxTime /\ pc' = "loop"
      /\ count' \in Nat /\ size' \in PowersOfTwo /\ Want(count') <= size' /\ size' < 3 * Want(count')
  BY <1>1, <1>4 DEF QueueInv
<1>7. QED
  BY <1>2, <1>5, <1>6 DEF QueueInv

(* The steps that leave the queue alone.                                    *)
LEMMA QueueKept ==
    ASSUME QueueInv, UNCHANGED <<queue, pos, event_time, size, live>>,
           Pending' = Pending,
           pc' \in {"loop", "poll", "callback"}, evt' \in Events \cup {NULL},
           inputs' \in BOOLEAN, now' \in 0..MaxTime,
           pc' = "poll" /\ ~inputs' => evt' = evheap_head(Heap),
           pc' = "callback" => evt' \in live
    PROVE  QueueInv'
<1>1. count' = count
  BY DEF count
<1>2. Heap' = Heap
  BY <1>1 DEF Heap
<1>3. SoundHeap(queue', pos', count', event_time', Pending')
  BY <1>1 DEF QueueInv
<1>4. evheap_head(Heap)' = evheap_head(Heap)
  BY <1>2 DEF evheap_head
<1>5. /\ count' \in Nat /\ size' \in PowersOfTwo /\ Want(count') <= size' /\ size' < 3 * Want(count')
      /\ pos' \in [Events -> 0..Cardinality(Events)]
      /\ event_time' \in [Events -> 0..MaxTime]
      /\ live' \in SUBSET Events
  BY <1>1 DEF QueueInv
<1>6. pc' = "poll" /\ ~inputs' => evt' = evheap_head(Heap)'
  BY <1>4
<1>7. pc' = "callback" => evt' \in live'
  OBVIOUS
<1>8. QED
  BY <1>3, <1>5, <1>6, <1>7 DEF QueueInv

LEMMA NextInv ==
    ASSUME QueueInv, ~TiesPossible, [Next]_vars
    PROVE  QueueInv'
<1>1. ASSUME NEW e \in Events, NEW d \in Delays, schedule_event(e, d)
      PROVE  QueueInv'
  BY <1>1, ScheduleInv
<1>2. ASSUME NEW e \in Events, destroy_event(e)
      PROVE  QueueInv'
  BY <1>2, DestroyInv
<1>3. CASE clear_event_queue
  BY <1>3, ClearInv
<1>4. CASE PollStart
  <2>1. /\ UNCHANGED <<queue, pos, event_time, size, live>> /\ pc = "loop" /\ pc' = "poll"
        /\ evt' = evheap_head(Heap) /\ inputs' = FALSE /\ now' = now
    BY <1>4 DEF PollStart
  <2>2. Pending' = Pending
    BY <2>1 DEF Pending
  <2>3. evt' \in Events \cup {NULL}
    BY <2>1, HeadPending, InvParts
  <2>4. now' \in 0..MaxTime
    BY <2>1 DEF QueueInv
  <2>5. QED
    BY <2>1, <2>2, <2>3, <2>4, QueueKept
<1>5. CASE PollReturn
  <2>1. /\ UNCHANGED <<queue, pos, event_time, size, live>> /\ pc = "poll" /\ pc' = "loop"
        /\ evt' = NULL /\ inputs' = FALSE /\ now' = now
    BY <1>5 DEF PollReturn
  <2>2. Pending' = Pending
    BY <2>1 DEF Pending
  <2>3. now' \in 0..MaxTime
    BY <2>1 DEF QueueInv
  <2>4. QED
    BY <2>1, <2>2, <2>3, QueueKept
<1>6. CASE PollExecute
  BY <1>6, PollExecuteInv
<1>7. CASE CallbackReturn
  BY <1>7, CallbackReturnInv
<1>8. CASE Tick
  <2>1. /\ UNCHANGED <<queue, pos, event_time, size, live>> /\ pc' = pc
        /\ evt' = evt /\ inputs' = inputs /\ now < MaxTime /\ now' = now + 1
    BY <1>8 DEF Tick, loopVars
  <2>2. Pending' = Pending
    BY <2>1 DEF Pending
  <2>3. /\ pc' \in {"loop", "poll", "callback"} /\ evt' \in Events \cup {NULL}
        /\ inputs' \in BOOLEAN /\ now' \in 0..MaxTime
    BY <2>1, EventQueueAssumption DEF QueueInv
  <2>4. /\ pc' = "poll" /\ ~inputs' => evt' = evheap_head(Heap)
        /\ pc' = "callback" => evt' \in live
    BY <2>1 DEF QueueInv
  <2>5. QED
    BY <2>1, <2>2, <2>3, <2>4, QueueKept
<1>9. CASE UNCHANGED vars
  <2>1. /\ UNCHANGED <<queue, pos, event_time, size, live>> /\ pc' = pc
        /\ evt' = evt /\ inputs' = inputs /\ now' = now
    BY <1>9 DEF vars
  <2>2. Pending' = Pending
    BY <2>1 DEF Pending
  <2>3. /\ pc' \in {"loop", "poll", "callback"} /\ evt' \in Events \cup {NULL}
        /\ inputs' \in BOOLEAN /\ now' \in 0..MaxTime
    BY <2>1 DEF QueueInv
  <2>4. /\ pc' = "poll" /\ ~inputs' => evt' = evheap_head(Heap)
        /\ pc' = "callback" => evt' \in live
    BY <2>1 DEF QueueInv
  <2>5. QED
    BY <2>1, <2>2, <2>3, <2>4, QueueKept
<1>10. QED
  BY <1>1, <1>2, <1>3, <1>4, <1>5, <1>6, <1>7, <1>8, <1>9 DEF Next

-----------------------------------------------------------------------------
(* What the invariant says of the properties of EventQueue.                 *)

(* The array of the heap, and what its loops keep in it.                    *)
LEMMA InvTyped == QueueInv => TypeOK
<1> SUFFICES ASSUME QueueInv
             PROVE  TypeOK
  OBVIOUS
<1>1. queue \in [0..count - 1 -> Events]
  BY DEF QueueInv, SoundHeap, HeapRec, HeapsOf
<1>2. size \in Nat \ {0}
  BY PowerOfTwo DEF QueueInv
<1>3. QED
  BY <1>1, <1>2 DEF QueueInv, TypeOK

LEMMA InvHeapSound == QueueInv => HeapSound
<1> SUFFICES ASSUME QueueInv
             PROVE  HeapSound
  OBVIOUS
<1>1. PICK n \in Nat : n = count
  BY InvParts
<1>2. PICK h : h = HeapRec(queue, pos, n)
  OBVIOUS
<1>3. /\ h.queue = queue /\ h.pos = pos /\ h.n = n
      /\ Placed(h, Pending) /\ Ordered(h, event_time)
  BY <1>1, <1>2 DEF QueueInv, SoundHeap, HeapRec
<1>4. DOMAIN queue = 0..n - 1
  BY <1>1, InvParts
<1>5. HeapHoldsPending
  <2>1. Range(queue) = Pending
    BY InvParts
  <2>2. \A i \in DOMAIN queue : pos[queue[i]] = i
    BY <1>3, <1>4 DEF Placed
  <2>3. QED
    BY <2>1, <2>2 DEF HeapHoldsPending, Pending
<1>6. HeapOrdered
  <2> SUFFICES ASSUME NEW i \in DOMAIN queue, NEW child \in {2 * i + 1, 2 * i + 2} \cap DOMAIN queue
               PROVE  event_time[queue[i]] <= event_time[queue[child]]
    BY DEF HeapOrdered
  <2>1. i \in Nat /\ child \in 1..n - 1
    BY <1>4
  <2>2. Parent(child) = i
    BY <2>1, ParentOfChild
  <2>3. InOrder(h, event_time, child)
    BY <1>3, <2>1 DEF Ordered
  <2>4. QED
    BY <1>3, <2>2, <2>3 DEF InOrder
<1>7. QED
  BY <1>5, <1>6 DEF HeapSound

LEMMA InvSizeFits == QueueInv => SizeFits
<1> SUFFICES ASSUME QueueInv
             PROVE  SizeFits
  OBVIOUS
<1>1. PICK n \in Nat : n = count
  BY InvParts
<1>2. size \in PowersOfTwo /\ size \in Nat /\ Want(n) <= size /\ size < 3 * Want(n)
  BY <1>1, PowerOfTwo DEF QueueInv
<1>3. n > 0 => n <= evheap_set_size(size, n - 1)
  <2> SUFFICES ASSUME n > 0
               PROVE  n <= evheap_set_size(size, n - 1)
    OBVIOUS
  <2>1. n <= size
    BY <1>2 DEF Want
  <2>2. QED
    BY <1>2, <2>1, SlotAllocated
<1>4. count > 0 => evheap_set_size(size, count - 1) >= count
  <2>1. PICK s : s = evheap_set_size(size, n - 1)
    OBVIOUS
  <2>2. QED
    BY <1>1, <1>3, <2>1
<1>5. QED
  BY <1>1, <1>2, <1>4 DEF SizeFits, Want

-----------------------------------------------------------------------------
(* The queue is a TimedEvents: these are its variables.                     *)
Due == [e \in Range(queue) |-> event_time[e]]
Running == IF pc = "callback" THEN evt ELSE NULL

LEMMA InvRange == QueueInv => Range(queue) = Pending
BY InvParts

LEMMA InvRangeNext == QueueInv' => (Range(queue) = Pending)'
BY InvRange, PTL

(* The pending events with their times, after a step that changes neither.  *)
LEMMA DueKept ==
    ASSUME QueueInv, QueueInv', Pending' = Pending,
           \A f \in Pending : event_time'[f] = event_time[f]
    PROVE  Due' = Due
<1>1. Range(queue) = Pending /\ (Range(queue))' = Pending
  BY InvRange, InvRangeNext
<1>2. QED
  BY <1>1 DEF Due

(* The pending events with their times, after a step that takes e out.      *)
LEMMA DueWithout ==
    ASSUME QueueInv, QueueInv', NEW e, Pending' = Pending \ {e},
           \A f \in Pending \ {e} : event_time'[f] = event_time[f]
    PROVE  Due' = Abstract!Restrict(Due, DOMAIN Due \ {e})
<1>1. Range(queue) = Pending /\ (Range(queue))' = Pending \ {e}
  BY InvRange, InvRangeNext
<1>2. DOMAIN Due \ {e} = Pending \ {e} /\ \A f \in Pending : Due[f] = event_time[f]
  BY <1>1 DEF Due
<1>3. Due' = [f \in Pending \ {e} |-> event_time[f]]
  BY <1>1 DEF Due
<1>4. QED
  BY <1>2, <1>3 DEF Abstract!Restrict

LEMMA ScheduleAdds ==
    ASSUME QueueInv, QueueInv', NEW e \in Events, NEW d \in Delays, schedule_event(e, d)
    PROVE  Abstract!AbsNext
<1>1. PICK t : t = now + d
  OBVIOUS
<1>2. t \in 0..MaxTime
  <2>1. now \in Nat /\ d \in Nat /\ now + d <= MaxTime
    BY EventQueueAssumption DEF QueueInv, schedule_event
  <2>2. QED
    BY <1>1, <2>1, EventQueueAssumption
<1>3. /\ live' = live \cup {e} /\ e \notin live /\ pc' = pc /\ evt' = evt /\ now' = now
      /\ event_time' = [event_time EXCEPT ![e] = t]
  BY <1>1 DEF schedule_event
<1>4. pc = "callback" => evt \in live
  BY DEF QueueInv
<1>5. Pending' = Pending \cup {e} /\ e \notin Pending /\ Running # e
  BY <1>3, <1>4, EventQueueAssumption DEF Pending, Running
<1>6. Range(queue) = Pending /\ (Range(queue))' = Pending \cup {e}
  BY <1>5, InvRange, InvRangeNext
<1>7. DOMAIN Due = Pending /\ \A f \in Pending : Due[f] = event_time[f]
  BY <1>6 DEF Due
<1>8. \A f \in Pending \cup {e} : event_time'[f] = IF f = e THEN t ELSE Due[f]
  BY <1>3, <1>7, InvParts
<1>9. Due' = [f \in Pending \cup {e} |-> event_time'[f]]
  BY <1>6 DEF Due
<1>10. Due' = [f \in DOMAIN Due \cup {e} |-> IF f = e THEN t ELSE Due[f]]
  BY <1>7, <1>8, <1>9
<1>11. Running' = Running
  BY <1>3 DEF Running
<1>12. Abstract!Add(e, t)
  BY <1>3, <1>5, <1>7, <1>10, <1>11 DEF Abstract!Add, Due, Running
<1>13. QED
  BY <1>2, <1>12 DEF Abstract!AbsNext

LEMMA DestroyCancels ==
    ASSUME QueueInv, QueueInv', NEW e \in Events, destroy_event(e)
    PROVE  Abstract!AbsNext
<1>1. /\ e \in Pending /\ live' = live \ {e} /\ pc' = pc /\ evt' = evt /\ now' = now
      /\ event_time' = [f \in Events |-> IF f \in {e} THEN 0 ELSE event_time[f]]
  BY DEF destroy_event, HeapAfterFree, Pending
<1>2. Pending' = Pending \ {e} /\ Pending \in SUBSET Events
  BY <1>1, InvParts DEF Pending
<1>3. \A f \in Pending \ {e} : event_time'[f] = event_time[f]
  BY <1>1, <1>2
<1>4. Due' = Abstract!Restrict(Due, DOMAIN Due \ {e})
  BY <1>2, <1>3, DueWithout
<1>5. e \in DOMAIN Due
  BY <1>1, InvRange DEF Due
<1>6. Running' = Running
  BY <1>1 DEF Running
<1>7. Abstract!Cancel(e)
  BY <1>1, <1>4, <1>5, <1>6 DEF Abstract!Cancel, Due, Running
<1>8. QED
  BY <1>7 DEF Abstract!AbsNext

LEMMA ClearCancelsAll ==
    ASSUME QueueInv, QueueInv', clear_event_queue
    PROVE  Abstract!AbsNext
<1>1. /\ queue' = << >> /\ pc = "loop" /\ pc' = pc /\ now' = now
  BY DEF clear_event_queue, HeapAfterFree
<1>2. (Range(queue))' = {}
  BY <1>1 DEF Range
<1>3. Due' = << >>
  BY <1>2 DEF Due
<1>4. Running' = Running
  BY <1>1 DEF Running
<1>5. Abstract!CancelAll
  BY <1>1, <1>3, <1>4 DEF Abstract!CancelAll, Due, Running
<1>6. QED
  BY <1>5 DEF Abstract!AbsNext

LEMMA ExecuteRuns ==
    ASSUME QueueInv, QueueInv', PollExecute
    PROVE  Abstract!AbsNext
<1>1. /\ pc = "poll" /\ ~inputs /\ evt # NULL /\ event_time[evt] <= now
      /\ pc' = "callback" /\ evt' = evt /\ live' = live /\ now' = now
      /\ event_time' = event_time
  BY DEF PollExecute
<1>2. evt = evheap_head(Heap)
  BY <1>1 DEF QueueInv
<1>3. evt \in Pending /\ \A f \in Pending : event_time[evt] <= event_time[f]
  BY <1>1, <1>2, HeadPending
<1>4. Pending' = Pending \ {evt}
  BY <1>1 DEF Pending
<1>5. Due' = Abstract!Restrict(Due, DOMAIN Due \ {evt})
  BY <1>1, <1>4, DueWithout
<1>6. DOMAIN Due = Pending /\ \A f \in Pending : Due[f] = event_time[f]
  BY InvRange DEF Due
<1>7. Running = NULL /\ Running' = evt
  BY <1>1 DEF Running
<1>8. Due[evt] <= now /\ \A f \in DOMAIN Due : Due[evt] <= Due[f]
  BY <1>1, <1>3, <1>6
<1>9. PICK e \in Events : e = evt
  BY <1>3, InvParts
<1>10. Abstract!Run(e)
  BY <1>1, <1>3, <1>5, <1>6, <1>7, <1>8, <1>9 DEF Abstract!Run, Due, Running
<1>11. QED
  BY <1>10 DEF Abstract!AbsNext

LEMMA ReturnFinishes ==
    ASSUME QueueInv, QueueInv', CallbackReturn
    PROVE  Abstract!AbsNext
<1>1. /\ live' = live \ {evt} /\ pc = "callback" /\ pc' = "loop" /\ now' = now
      /\ event_time' = [f \in Events |-> IF f \in {evt} THEN 0 ELSE event_time[f]]
  BY DEF CallbackReturn, HeapAfterFree
<1>2. Pending' = Pending /\ evt \notin Pending
  BY <1>1 DEF Pending
<1>3. Due' = Due
  <2>1. \A f \in Pending : event_time'[f] = event_time[f]
    BY <1>1, <1>2, InvParts
  <2>2. QED
    BY <1>2, <2>1, DueKept
<1>4. evt # NULL
  BY <1>1, EventQueueAssumption DEF QueueInv
<1>5. Running # NULL /\ Running' = NULL
  BY <1>1, <1>4 DEF Running
<1>6. Abstract!Finish
  BY <1>1, <1>3, <1>5 DEF Abstract!Finish, Due, Running
<1>7. QED
  BY <1>6 DEF Abstract!AbsNext

LEMMA StepRefines ==
    QueueInv /\ QueueInv' /\ [Next]_vars => [Abstract!AbsNext]_(Abstract!absVars)
<1> SUFFICES ASSUME QueueInv, QueueInv', [Next]_vars
             PROVE  [Abstract!AbsNext]_(Abstract!absVars)
  OBVIOUS
<1>1. ASSUME NEW e \in Events, NEW d \in Delays, schedule_event(e, d)
      PROVE  Abstract!AbsNext
  BY <1>1, ScheduleAdds
<1>2. ASSUME NEW e \in Events, destroy_event(e)
      PROVE  Abstract!AbsNext
  BY <1>2, DestroyCancels
<1>3. CASE clear_event_queue
  BY <1>3, ClearCancelsAll
<1>4. CASE PollStart \/ PollReturn
  <2>1. /\ UNCHANGED <<queue, event_time, now>> /\ pc # "callback" /\ pc' # "callback"
    BY <1>4 DEF PollStart, PollReturn
  <2>2. UNCHANGED Abstract!absVars
    BY <2>1 DEF Abstract!absVars
  <2>3. QED
    BY <2>2
<1>5. CASE PollExecute
  BY <1>5, ExecuteRuns
<1>6. CASE CallbackReturn
  BY <1>6, ReturnFinishes
<1>7. CASE Tick
  <2>1. UNCHANGED <<queue, event_time, pc, evt>> /\ now < MaxTime /\ now' = now + 1
    BY <1>7 DEF Tick, loopVars
  <2>2. Abstract!Advance
    BY <2>1 DEF Abstract!Advance
  <2>3. QED
    BY <2>2 DEF Abstract!AbsNext
<1>8. CASE UNCHANGED vars
  <2>1. UNCHANGED <<queue, event_time, pc, evt, now>>
    BY <1>8 DEF vars
  <2>2. UNCHANGED Abstract!absVars
    BY <2>1 DEF Abstract!absVars
  <2>3. QED
    BY <2>2
<1>9. QED
  BY <1>1, <1>2, <1>3, <1>4, <1>5, <1>6, <1>7, <1>8 DEF Next

-----------------------------------------------------------------------------
(* The heap is sound, and its head is what the poll holds, in every state a *)
(* queue of events at distinct times can be in: with equal times            *)
(* evheap_remove can leave the removed event in the heap, as                *)
(* EventQueueTies.cfg shows.                                                *)
THEOREM InvariantHolds == ~TiesPossible => (Spec => []QueueInv)
<1> SUFFICES ASSUME ~TiesPossible
             PROVE  Spec => []QueueInv
  OBVIOUS
<1>1. Init => QueueInv
  BY InitInv
<1>2. QueueInv /\ [Next]_vars => QueueInv'
  BY NextInv
<1>3. QED
  BY <1>1, <1>2, PTL DEF Spec

(* The array holds count events, every pos is an index it can have, and     *)
(* event_poll_full holds an event or nothing.                               *)
THEOREM TypeCorrect == ~TiesPossible => (Spec => []TypeOK)
BY InvariantHolds, InvTyped, PTL

(* For every number of events and every order of scheduling, destroying by  *)
(* pointer, clearing and running them: the heap holds the pending events,   *)
(* each at its own pos, and no node is later than its children.             *)
THEOREM HeapStaysSound == ~TiesPossible => (Spec => []HeapSound)
BY InvariantHolds, InvHeapSound, PTL

(* evheap_set_size keeps the array large enough, the slot that is read      *)
(* after the array was shrunk included, and less than three times too large.*)
THEOREM SizeIsKept == ~TiesPossible => (Spec => []SizeFits)
BY InvariantHolds, InvSizeFits, PTL

(* The heap of pointers is a TimedEvents: event_poll_full runs only a due   *)
(* event, never one before another that is due earlier, and an event that   *)
(* was scheduled stays until it is run or destroyed.                        *)
THEOREM QueueImplementsTimedEvents == ~TiesPossible => (Spec => RefinesTimedEvents)
<1> SUFFICES ASSUME ~TiesPossible
             PROVE  Spec => RefinesTimedEvents
  OBVIOUS
<1>1. Init => Abstract!AbsInit
  <2> SUFFICES ASSUME Init
               PROVE  Abstract!AbsInit
    OBVIOUS
  <2>1. Range(queue) = {}
    BY DEF Init, Range
  <2>2. [e \in Range(queue) |-> event_time[e]] = << >>
    BY <2>1
  <2>3. QED
    BY <2>2 DEF Init, Abstract!AbsInit
<1>2. QueueInv /\ QueueInv' /\ [Next]_vars => [Abstract!AbsNext]_(Abstract!absVars)
  BY StepRefines
<1>3. Spec => []QueueInv
  BY InvariantHolds
<1>4. QED
  BY <1>1, <1>2, <1>3, PTL DEF Spec, RefinesTimedEvents, Abstract!AbsSpec
=============================================================================
