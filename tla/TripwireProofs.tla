--------------------------- MODULE TripwireProofs ---------------------------
(***************************************************************************)
(* Proofs about the ransomware tripwire, for any window, threshold and     *)
(* skew, any number of operations and any order of their delivery.         *)
(***************************************************************************)
EXTENDS Tripwire, FiniteSetTheorems, TLAPS

-----------------------------------------------------------------------------
(***************************************************************************)
(* Finite sets of numbers, and induction by their least element.           *)
(***************************************************************************)

LEMMA IntervalPart ==
  ASSUME NEW n \in Nat, NEW S, S \subseteq 0 .. n
  PROVE  IsFiniteSet(S) /\ Cardinality(S) \in Nat
<1>1. IsFiniteSet(0 .. n)
  BY FS_Interval
<1>2. IsFiniteSet(S)
  BY <1>1, FS_Subset
<1>. QED
  BY <1>2, FS_CardinalityType

LEMMA LeastElement ==
  ASSUME NEW S, S \subseteq Nat, S # {}
  PROVE  \E x \in S : \A y \in S : x <= y
<1>1. PICK x \in S : \A y \in S : ~(<<y, x>> \in OpToRel(<, Nat))
  BY NatLessThanWellFounded, WFMin, Zenon
<1>2. ASSUME NEW y \in S
      PROVE  ~(y < x)
  <2>1. <<y, x>> \in Nat \X Nat /\ <<y, x>>[1] = y /\ <<y, x>>[2] = x
    OBVIOUS
  <2>. QED
    BY <1>1, <2>1, Zenon DEF OpToRel
<1>3. \A y \in S : x <= y
  BY <1>2
<1>. QED
  BY <1>3

-----------------------------------------------------------------------------
(***************************************************************************)
(* AtPlaces: what retain and filter keep.                                  *)
(***************************************************************************)

\* How many places of I come before i.
Before(I, i) == Cardinality({j \in I : j < i})

\* A later place has more before it; so places have different ranks, and the
\* ranks are all there.
LEMMA RankIsBijection ==
  ASSUME NEW n \in Nat, NEW I, I \subseteq 1 .. n
  PROVE  /\ Cardinality(I) \in Nat
         /\ \A i \in I : Before(I, i) \in 0 .. Cardinality(I) - 1
         /\ \A i, j \in I : Before(I, i) = Before(I, j) => i = j
         /\ \A k \in 1 .. Cardinality(I) : \E i \in I : Before(I, i) = k - 1
<1>. DEFINE c == Cardinality(I)
<1>1. I \subseteq 0 .. n
  OBVIOUS
<1>2. IsFiniteSet(I) /\ c \in Nat
  BY <1>1, IntervalPart
<1>. HIDE DEF c
<1>3. ASSUME NEW S, NEW T, T \subseteq I, S \subseteq T, NEW i \in T, i \notin S
      PROVE  Cardinality(S) \in Nat /\ Cardinality(S) < Cardinality(T)
  <2>1. IsFiniteSet(T) /\ Cardinality(T) \in Nat
    BY <1>1, <1>3, IntervalPart
  <2>2. S \in SUBSET T
    BY <1>3
  <2>3. /\ IsFiniteSet(S) /\ Cardinality(S) <= Cardinality(T)
        /\ Cardinality(T) = Cardinality(S) => T = S
    BY <2>1, <2>2, FS_Subset
  <2>4. Cardinality(S) \in Nat
    BY <2>3, FS_CardinalityType
  <2>5. T # S
    BY <1>3
  <2>. QED
    BY <2>1, <2>3, <2>4, <2>5
<1>4. ASSUME NEW i \in I
      PROVE  Before(I, i) \in 0 .. c - 1
  <2>1. /\ {j \in I : j < i} \subseteq I /\ i \notin {j \in I : j < i}
    BY <1>1
  <2>2. Before(I, i) \in Nat /\ Before(I, i) < c
    BY <1>3, <2>1 DEF Before, c
  <2>. QED
    BY <1>2, <2>2
<1>5. ASSUME NEW i \in I, NEW j \in I, i < j
      PROVE  Before(I, i) < Before(I, j)
  <2>. DEFINE S == {k \in I : k < i}
              T == {k \in I : k < j}
  <2>1. T \subseteq I /\ S \subseteq T /\ i \in T /\ i \notin S
    <3>1. \A k \in I : k \in Nat
      BY <1>1
    <3>2. ASSUME NEW k \in I, k < i PROVE k < j
      BY <1>5, <3>1, <3>2
    <3>3. ~(i < i)
      BY <3>1
    <3>. QED
      BY <1>5, <3>2, <3>3
  <2>2. Before(I, i) = Cardinality(S) /\ Before(I, j) = Cardinality(T)
    BY DEF Before
  <2>. HIDE DEF S, T
  <2>. QED
    BY <1>3, <2>1, <2>2
<1>6. ASSUME NEW i \in I, NEW j \in I, Before(I, i) = Before(I, j)
      PROVE  i = j
  <2>1. i \in Nat /\ j \in Nat
    BY <1>1
  <2>2. Before(I, i) \in Nat
    BY <1>2, <1>4
  <2>3. ~(i < j) /\ ~(j < i)
    BY <1>5, <1>6, <2>2
  <2>. QED
    BY <2>1, <2>3
<1>. DEFINE f == [i \in I |-> Before(I, i) + 1]
<1>7. f \in Injection(I, 1 .. c)
  <2>1. \A i \in I : Before(I, i) \in Nat /\ Before(I, i) + 1 \in 1 .. c
    BY <1>2, <1>4
  <2>2. f \in [I -> 1 .. c]
    BY <2>1
  <2>3. ASSUME NEW i \in I, NEW j \in I, f[i] = f[j]
        PROVE  i = j
    <3>1. Before(I, i) = Before(I, j)
      BY <2>1, <2>3
    <3>. QED
      BY <1>6, <3>1
  <2>. HIDE DEF f
  <2>. QED
    BY <2>2, <2>3 DEF Injection, IsInjective
<1>8. f \in Surjection(I, 1 .. c)
  <2>1. IsFiniteSet(1 .. c) /\ Cardinality(1 .. c) = c
    BY <1>2, FS_Interval
  <2>. HIDE DEF f
  <2>. QED
    BY <1>7, <2>1, FS_Injection DEF c
<1>9. ASSUME NEW k \in 1 .. c
      PROVE  \E i \in I : Before(I, i) = k - 1
  <2>1. PICK i \in I : f[i] = k
    <3>. HIDE DEF f
    <3>. QED
      BY <1>8 DEF Surjection
  <2>2. Before(I, i) \in Nat /\ Before(I, i) + 1 = k
    BY <1>2, <1>4, <2>1
  <2>. QED
    BY <1>2, <2>2
<1>. QED
  BY <1>2, <1>4, <1>6, <1>9 DEF c

\* AtPlaces keeps the elements at the places and no other, and the last one
\* stays the last.
LEMMA PlacesKept ==
  ASSUME NEW S, NEW es \in Seq(S), NEW I, I \subseteq DOMAIN es
  PROVE  /\ AtPlaces(es, I) \in Seq(S)
         /\ ToSet(AtPlaces(es, I)) = {es[i] : i \in I}
         /\ Len(es) \in I =>
              /\ AtPlaces(es, I) # <<>>
              /\ AtPlaces(es, I)[Len(AtPlaces(es, I))] = es[Len(es)]
<1>. DEFINE c == Cardinality(I)
            n == Len(es)
            place(k) == CHOOSE i \in I : Before(I, i) = k - 1
            kept == [k \in 1 .. c |-> es[place(k)]]
<1>1. n \in Nat /\ I \subseteq 1 .. n
  OBVIOUS
<1>2. /\ c \in Nat
      /\ \A i \in I : Before(I, i) \in 0 .. c - 1
      /\ \A i, j \in I : Before(I, i) = Before(I, j) => i = j
      /\ \A k \in 1 .. c : \E i \in I : Before(I, i) = k - 1
  BY <1>1, RankIsBijection
<1>3. AtPlaces(es, I) = kept
  BY DEF AtPlaces, Before
<1>. HIDE DEF c
<1>4. \A k \in 1 .. c : place(k) \in I /\ Before(I, place(k)) = k - 1
  BY <1>2
<1>5. \A i \in I : Before(I, i) + 1 \in 1 .. c /\ place(Before(I, i) + 1) = i
  <2>1. TAKE i \in I
  <2>2. /\ Before(I, i) + 1 \in 1 .. c
        /\ (Before(I, i) + 1) - 1 = Before(I, i)
    BY <1>2
  <2>3. place(Before(I, i) + 1) \in I
        /\ Before(I, place(Before(I, i) + 1)) = Before(I, i)
    BY <1>4, <2>2
  <2>. HIDE DEF place
  <2>. QED
    BY <1>2, <2>2, <2>3
<1>. HIDE DEF place
<1>6. kept \in Seq(S) /\ Len(kept) = c /\ DOMAIN kept = 1 .. c
  <2>1. \A k \in 1 .. c : es[place(k)] \in S
    BY <1>1, <1>4
  <2>. QED
    BY <1>2, <2>1
<1>7. ToSet(kept) = {es[i] : i \in I}
  <2>1. ToSet(kept) = {kept[k] : k \in 1 .. c}
    BY <1>6 DEF ToSet
  <2>2. \A k \in 1 .. c : kept[k] = es[place(k)]
    OBVIOUS
  <2>. HIDE DEF kept
  <2>3. ASSUME NEW k \in 1 .. c
        PROVE  kept[k] \in {es[i] : i \in I}
    BY <1>4, <2>2
  <2>4. ASSUME NEW i \in I
        PROVE  es[i] \in {kept[k] : k \in 1 .. c}
    BY <1>5, <2>2
  <2>. QED
    BY <2>1, <2>3, <2>4
<1>8. ASSUME n \in I
      PROVE  kept # <<>> /\ kept[Len(kept)] = es[n]
  <2>1. {j \in I : j < n} = I \ {n}
    BY <1>1
  <2>2. IsFiniteSet(I)
    <3>1. I \subseteq 0 .. n
      BY <1>1
    <3>. QED
      BY <1>1, <3>1, IntervalPart
  <2>3. Cardinality(I \ {n}) = c - 1
    BY <1>8, <2>2, FS_RemoveElement DEF c
  <2>4. Before(I, n) = c - 1
    BY <2>1, <2>3 DEF Before
  <2>5. c \in 1 .. c /\ place(c) = n
    BY <1>2, <1>5, <1>8, <2>4
  <2>. QED
    BY <1>6, <2>5
<1>. QED
  BY <1>3, <1>6, <1>7, <1>8

-----------------------------------------------------------------------------
(***************************************************************************)
(* Blocks, by induction over the events.                                   *)
(***************************************************************************)

\* g is the concatenation of the blocks of es as far as n.
IsUpTo(g, es, n) ==
  g = [k \in 0 .. n |-> IF k = 0 THEN <<>> ELSE g[k - 1] \o es[k].blocks]

LEMMA UpToExists ==
  ASSUME NEW es, NEW n \in Nat
  PROVE  \E g : IsUpTo(g, es, n)
<1>. DEFINE T == {m \in Nat : ~\E g : IsUpTo(g, es, m)}
<1>. SUFFICES ASSUME T # {} PROVE FALSE
  OBVIOUS
<1>1. PICK m \in T : \A y \in T : m <= y
  <2>1. T \subseteq Nat
    OBVIOUS
  <2>. HIDE DEF T
  <2>. QED
    BY <2>1, LeastElement
<1>2. m \in Nat /\ ~\E g : IsUpTo(g, es, m)
  OBVIOUS
<1>3. CASE m = 0
  <2>. DEFINE g == [k \in 0 .. 0 |-> <<>>]
  <2>1. g = [k \in 0 .. 0 |->
               IF k = 0 THEN <<>> ELSE g[k - 1] \o es[k].blocks]
    OBVIOUS
  <2>. QED
    BY <1>2, <1>3, <2>1 DEF IsUpTo
<1>4. CASE m # 0
  <2>1. m - 1 \in Nat /\ m - 1 \notin T
    BY <1>1, <1>2, <1>4
  <2>2. PICK g : IsUpTo(g, es, m - 1)
    BY <2>1
  <2>. DEFINE h == [k \in 0 .. m |->
                      IF k = m THEN g[m - 1] \o es[m].blocks ELSE g[k]]
  <2>3. DOMAIN g = 0 .. m - 1 /\ \A k \in 0 .. m - 1 :
          g[k] = IF k = 0 THEN <<>> ELSE g[k - 1] \o es[k].blocks
    BY <2>2 DEF IsUpTo
  <2>4. ASSUME NEW k \in 0 .. m
        PROVE  h[k] = IF k = 0 THEN <<>> ELSE h[k - 1] \o es[k].blocks
    <3>1. CASE k = m
      <4>1. k - 1 \in 0 .. m /\ k - 1 # m /\ k # 0
        BY <1>2, <1>4, <3>1
      <4>. QED
        BY <3>1, <4>1
    <3>2. CASE k # m
      <4>1. k \in 0 .. m - 1 /\ (k # 0 => k - 1 \in 0 .. m /\ k - 1 # m)
        BY <1>2, <3>2
      <4>. QED
        BY <2>3, <3>2, <4>1
    <3>. QED
      BY <3>1, <3>2
  <2>5. IsUpTo(h, es, m)
    <3>1. h = [k \in 0 .. m |-> h[k]]
      OBVIOUS
    <3>. HIDE DEF h
    <3>. QED
      BY <2>4, <3>1 DEF IsUpTo
  <2>. QED
    BY <1>2, <2>5
<1>. QED
  BY <1>3, <1>4

LEMMA BlocksTyped ==
  ASSUME NEW es, Len(es) \in Nat,
         \A k \in 1 .. Len(es) : es[k].blocks \in Seq(Nat)
  PROVE  Blocks(es) \in Seq(Nat)
<1>. DEFINE n == Len(es)
            u == BlocksUpTo(es)
            T == {k \in 0 .. n : u[k] \notin Seq(Nat)}
<1>1. IsUpTo(u, es, n)
  <2>1. u = CHOOSE g : IsUpTo(g, es, n)
    BY DEF BlocksUpTo, IsUpTo
  <2>. HIDE DEF u, n
  <2>2. \E g : IsUpTo(g, es, n)
    BY UpToExists DEF n
  <2>. QED
    BY <2>1, <2>2
<1>. HIDE DEF u
<1>2. \A k \in 0 .. n : u[k] = IF k = 0 THEN <<>> ELSE u[k - 1] \o es[k].blocks
  BY <1>1 DEF IsUpTo
<1>3. ASSUME T # {} PROVE FALSE
  <2>1. PICK m \in T : \A y \in T : m <= y
    <3>1. T \subseteq Nat
      OBVIOUS
    <3>. HIDE DEF T
    <3>. QED
      BY <1>3, <3>1, LeastElement
  <2>2. m \in 0 .. n /\ u[m] \notin Seq(Nat)
    BY <2>1
  <2>3. m # 0
    <3>1. <<>> \in Seq(Nat)
      OBVIOUS
    <3>. QED
      BY <1>2, <2>2, <3>1
  <2>4. m - 1 \in 0 .. n /\ m \in 1 .. n /\ ~(m <= m - 1)
    BY <2>2, <2>3
  <2>5. u[m - 1] \in Seq(Nat)
    BY <2>1, <2>4
  <2>6. u[m] = u[m - 1] \o es[m].blocks /\ es[m].blocks \in Seq(Nat)
    BY <1>2, <2>2, <2>3, <2>4
  <2>. QED
    BY <2>2, <2>5, <2>6
<1>4. u[n] \in Seq(Nat)
  BY <1>3
<1>. QED
  BY <1>4 DEF Blocks, u

-----------------------------------------------------------------------------
(***************************************************************************)
(* The tracker.                                                            *)
(***************************************************************************)

Operations ==
  [id: Nat, ts: Nat, pid: Pids, path: Files, blocks: Payloads,
   rename: BOOLEAN]

\* Operations are stamped in the past; the clock does not leave one in flight
\* behind by more than the skew.  What was recommended last, and the operations
\* that still count, are as the properties say.
TripwireInv ==
  /\ clock \in Nat /\ ops \in Nat
  /\ inflight \subseteq Operations /\ delivered \subseteq Operations
  /\ events \in Seq(Operations)
  /\ ToSet(events) \subseteq delivered
  /\ \A e \in inflight : e.ts <= clock /\ clock <= e.ts + MaxSkew
  /\ \A e \in delivered : e.ts <= clock
  /\ WindowIsComplete
  /\ SuspensionNeedsBurst

\* The operations of one process.
LEMMA OfKeeps ==
  ASSUME NEW S, NEW es \in Seq(S), NEW pid
  PROVE  /\ Of(es, pid) \in Seq(S)
         /\ ToSet(Of(es, pid)) = {e \in ToSet(es) : e.pid = pid}
<1>. DEFINE I == {i \in DOMAIN es : es[i].pid = pid}
<1>1. I \subseteq DOMAIN es
  OBVIOUS
<1>2. {es[i] : i \in I} = {e \in ToSet(es) : e.pid = pid}
  BY DEF ToSet
<1>3. Of(es, pid) = AtPlaces(es, I)
  BY DEF Of
<1>. HIDE DEF I
<1>. QED
  BY <1>1, <1>2, <1>3, PlacesKept

\* Recording e keeps what is in the window that ends at e, and e as the last.
LEMMA PurgeKeeps ==
  ASSUME NEW es \in Seq(Operations), NEW e \in Operations
  PROVE  LET after == Purge(Append(es, e), e.ts) IN
         /\ after \in Seq(Operations)
         /\ ToSet(after) =
              {f \in ToSet(es) \cup {e} : f.ts + Window >= e.ts}
<1>. DEFINE all == Append(es, e)
            I == {i \in DOMAIN all : all[i].ts + Window >= e.ts}
<1>1. all \in Seq(Operations) /\ I \subseteq DOMAIN all
  OBVIOUS
<1>2. ToSet(all) = ToSet(es) \cup {e}
  <2>1. /\ Len(es) \in Nat /\ DOMAIN es = 1 .. Len(es)
        /\ DOMAIN all = 1 .. Len(es) + 1
        /\ all[Len(es) + 1] = e
        /\ \A i \in 1 .. Len(es) : all[i] = es[i]
    OBVIOUS
  <2>. HIDE DEF all
  <2>2. DOMAIN all = DOMAIN es \cup {Len(es) + 1}
    BY <2>1
  <2>. QED
    BY <2>1, <2>2 DEF ToSet
<1>3. {all[i] : i \in I} = {f \in ToSet(all) : f.ts + Window >= e.ts}
  BY DEF ToSet
<1>4. Purge(all, e.ts) = AtPlaces(all, I)
  BY DEF Purge
<1>. HIDE DEF all, I
<1>5. /\ AtPlaces(all, I) \in Seq(Operations)
      /\ ToSet(AtPlaces(all, I)) = {all[i] : i \in I}
  BY <1>1, PlacesKept
<1>. QED
  BY <1>2, <1>3, <1>4, <1>5 DEF all

\* A suspension has ciphertext, an anomaly and the files for evidence.
LEMMA SuspensionHasEvidence ==
  ASSUME NEW es \in Seq(Operations),
         RecommendedAction(es) = "SuspendAndAlert"
  PROVE  /\ Cardinality({e.path : e \in ToSet(es)}) >= FileThreshold
         /\ EvidenceCount(es) >= 3
<1>. DEFINE b == Blocks(es)
            E == {k \in 1 .. 4 :
                    \/ k = 1 /\ HighCount(b) > 0
                    \/ k = 2 /\ IsAnomalous(b)
                    \/ k = 3 /\ Cardinality({i \in DOMAIN es : es[i].rename}) >= 3
                    \/ k = 4 /\ Cardinality(FilesOf(es)) >= FileThreshold}
<1>1. IsAnomalous(b) /\ Cardinality(FilesOf(es)) >= FileThreshold
  BY DEF RecommendedAction
<1>2. FilesOf(es) = {e.path : e \in ToSet(es)}
  BY DEF FilesOf, ToSet
<1>3. b \in Seq(Nat)
  <2>1. Len(es) \in Nat
    OBVIOUS
  <2>2. ASSUME NEW k \in 1 .. Len(es)
        PROVE  es[k].blocks \in Seq(Nat)
    <3>1. es[k] \in Operations
      OBVIOUS
    <3>2. es[k].blocks \in Payloads
      BY <3>1 DEF Operations
    <3>. QED
      BY <3>2, TripwireAssumption
  <2>. QED
    BY <2>1, <2>2, BlocksTyped
<1>4. EvidenceCount(es) = Cardinality(E)
  BY DEF EvidenceCount
<1>. HIDE DEF b
<1>5. HighCount(b) > 0
  <2>. DEFINE H == {i \in DOMAIN b : b[i] >= 795}
  <2>1. b # <<>> /\ (10 * HighCount(b) >= 7 * Len(b) \/ HighCount(b) >= 2)
    BY <1>1 DEF IsAnomalous
  <2>2. Len(b) \in Nat /\ Len(b) >= 1
    BY <1>3, <2>1
  <2>3. H \subseteq 0 .. Len(b)
    BY <1>3
  <2>4. Cardinality(H) \in Nat /\ HighCount(b) = Cardinality(H)
    BY <2>2, <2>3, IntervalPart DEF HighCount
  <2>. HIDE DEF H
  <2>. QED
    BY <2>1, <2>2, <2>4
<1>6. {1, 2, 4} \subseteq E /\ E \subseteq 0 .. 4
  BY <1>1, <1>5
<1>. HIDE DEF E
<1>7. IsFiniteSet(E) /\ Cardinality(E) \in Nat
  BY <1>6, IntervalPart
<1>8. Cardinality({1, 2, 4}) = 3
  <2>. DEFINE X == {1} \cup {2}
  <2>1. IsFiniteSet({1}) /\ Cardinality({1}) = 1
    BY FS_Singleton
  <2>2. IsFiniteSet(X) /\ Cardinality(X) = 2
    BY <2>1, FS_AddElement
  <2>3. 4 \notin X /\ X \cup {4} = {1, 2, 4}
    OBVIOUS
  <2>. HIDE DEF X
  <2>4. Cardinality(X \cup {4}) = Cardinality(X) + 1
    BY <2>2, <2>3, FS_AddElement
  <2>5. Cardinality(X \cup {4}) = 3
    BY <2>2, <2>4
  <2>. QED
    BY <2>3, <2>5
<1>9. Cardinality({1, 2, 4}) <= Cardinality(E)
  BY <1>6, <1>7, FS_Subset
<1>10. Cardinality(E) >= 3
  BY <1>7, <1>8, <1>9
<1>. QED
  BY <1>1, <1>2, <1>4, <1>10

LEMMA ProcessKeeps ==
  ASSUME TripwireInv, NEW e \in inflight, ProcessEvent(e)
  PROVE  TripwireInv'
<1>1. /\ clock \in Nat /\ ops \in Nat
      /\ inflight \subseteq Operations /\ delivered \subseteq Operations
      /\ events \in Seq(Operations) /\ ToSet(events) \subseteq delivered
      /\ \A f \in inflight : f.ts <= clock /\ clock <= f.ts + MaxSkew
      /\ \A f \in delivered : f.ts <= clock
  BY DEF TripwireInv
<1>2. /\ inflight' = inflight \ {e} /\ delivered' = delivered \cup {e}
      /\ events' = Purge(Append(events, e), e.ts)
      /\ UNCHANGED <<clock, ops>>
  BY DEF ProcessEvent
<1>3. \A f \in Operations : f.ts \in Nat
  BY DEF Operations
<1>4. e \in Operations /\ e.ts \in Nat /\ e.ts <= clock /\ clock <= e.ts + MaxSkew
  BY <1>1, <1>3
<1>5. /\ events' \in Seq(Operations)
      /\ ToSet(events') =
           {f \in ToSet(events) \cup {e} : f.ts + Window >= e.ts}
  BY <1>1, <1>2, <1>4, PurgeKeeps
<1>6. /\ delivered' \subseteq Operations
      /\ ToSet(events') \subseteq delivered'
      /\ \A f \in delivered' : f.ts <= clock
      /\ \A f \in inflight' : f.ts <= clock /\ clock <= f.ts + MaxSkew
  BY <1>1, <1>2, <1>4, <1>5
<1>7. WindowIsComplete'
  <2>1. ASSUME NEW f \in delivered', \A n \in delivered' : f.ts + Window >= n.ts
        PROVE  f \in ToSet(events')
    <3>1. f.ts + Window >= e.ts
      BY <1>2, <2>1
    <3>2. f \in ToSet(events) \cup {e}
      BY <1>2, <2>1 DEF TripwireInv, WindowIsComplete
    <3>. QED
      BY <1>5, <3>1, <3>2
  <2>. QED
    BY <2>1 DEF WindowIsComplete
<1>8. SuspensionNeedsBurst'
  <2>. DEFINE mine == Of(events', e.pid)
  <2>1. last' = [pid |-> e.pid, action |-> RecommendedAction(mine),
                 evidence |-> EvidenceCount(mine), of |-> ToSet(mine)]
    BY DEF ProcessEvent
  <2>2. /\ mine \in Seq(Operations)
        /\ ToSet(mine) = {f \in ToSet(events') : f.pid = e.pid}
    BY <1>5, OfKeeps
  <2>. HIDE DEF mine
  <2>3. /\ last'.pid = e.pid /\ last'.action = RecommendedAction(mine)
        /\ last'.evidence = EvidenceCount(mine) /\ last'.of = ToSet(mine)
    BY <2>1
  <2>4. ASSUME NEW f \in ToSet(mine), NEW g \in ToSet(mine)
        PROVE  f.pid = e.pid /\ f.ts - g.ts <= Window + MaxSkew
    <3>1. /\ f \in Operations /\ g \in Operations /\ f.pid = e.pid
          /\ f.ts <= clock /\ g.ts + Window >= e.ts
      BY <1>5, <1>6, <2>2
    <3>. QED
      BY <1>1, <1>3, <1>4, <3>1, TripwireAssumption
  <2>5. RecommendedAction(mine) = "SuspendAndAlert" =>
          /\ Cardinality({f.path : f \in ToSet(mine)}) >= FileThreshold
          /\ EvidenceCount(mine) >= 3
    BY <2>2, SuspensionHasEvidence
  <2>. QED
    BY <2>3, <2>4, <2>5 DEF SuspensionNeedsBurst
<1>. QED
  BY <1>1, <1>2, <1>5, <1>6, <1>7, <1>8 DEF TripwireInv

LEMMA TripwireStep ==
  ASSUME TripwireInv, [Next]_vars
  PROVE  TripwireInv'
<1>1. /\ clock \in Nat /\ ops \in Nat
      /\ inflight \subseteq Operations /\ delivered \subseteq Operations
      /\ \A f \in inflight : f.ts <= clock /\ clock <= f.ts + MaxSkew
      /\ \A f \in delivered : f.ts <= clock
  BY DEF TripwireInv
<1>2. \A f \in Operations : f.ts \in Nat
  BY DEF Operations
<1>3. ASSUME NEW pid \in Pids, NEW path \in Files, NEW blocks \in Payloads,
             NEW rename \in BOOLEAN, Operate(pid, path, blocks, rename)
      PROVE  TripwireInv'
  <2>. DEFINE new == Operation(ops', clock, pid, path, blocks, rename)
  <2>1. /\ ops' = ops + 1 /\ inflight' = inflight \cup {new}
        /\ UNCHANGED <<clock, delivered, events, last>>
    BY <1>3 DEF Operate
  <2>2. ops' \in Nat
    BY <1>1, <2>1
  <2>3. new \in Operations /\ new.ts = clock
    BY <1>1, <2>2, Zenon DEF Operations, Operation
  <2>. HIDE DEF new
  <2>4. inflight' \subseteq Operations
        /\ \A f \in inflight' : f.ts <= clock /\ clock <= f.ts + MaxSkew
    BY <1>1, <2>1, <2>3, TripwireAssumption
  <2>. QED
    BY <2>1, <2>2, <2>4
      DEF TripwireInv, WindowIsComplete, SuspensionNeedsBurst
<1>4. ASSUME NEW e \in inflight, ProcessEvent(e)
      PROVE  TripwireInv'
  BY <1>4, ProcessKeeps
<1>5. CASE Tick
  <2>1. /\ clock' = clock + 1
        /\ \A e \in inflight : clock < e.ts + MaxSkew
        /\ UNCHANGED <<ops, inflight, delivered, events, last>>
    BY <1>5 DEF Tick
  <2>2. clock' \in Nat /\ \A f \in delivered : f.ts <= clock'
    BY <1>1, <1>2, <2>1
  <2>3. \A f \in inflight : f.ts <= clock' /\ clock' <= f.ts + MaxSkew
    BY <1>1, <1>2, <2>1, TripwireAssumption
  <2>. QED
    BY <2>1, <2>2, <2>3
      DEF TripwireInv, WindowIsComplete, SuspensionNeedsBurst
<1>6. CASE UNCHANGED vars
  BY <1>6 DEF vars, TripwireInv, WindowIsComplete, SuspensionNeedsBurst
<1>. QED
  BY <1>3, <1>4, <1>5, <1>6 DEF Next

LEMMA TripwireInvariant == Spec => []TripwireInv
<1>1. Init => TripwireInv
  <2>. SUFFICES ASSUME Init PROVE TripwireInv
    OBVIOUS
  <2>1. /\ clock = 0 /\ ops = 0 /\ inflight = {} /\ delivered = {}
        /\ events = <<>> /\ last.action = "Alert"
    BY DEF Init
  <2>2. <<>> \in Seq(Operations) /\ ToSet(<<>>) = {}
    BY DEF ToSet
  <2>. QED
    BY <2>1, <2>2 DEF TripwireInv, WindowIsComplete, SuspensionNeedsBurst
<1>. QED
  BY <1>1, TripwireStep, PTL DEF Spec

\* However late and in whatever order operations are delivered, none that is
\* within the window of the newest one is purged (purge_expired).
THEOREM WindowComplete == Spec => []WindowIsComplete
<1>1. TripwireInv => WindowIsComplete
  BY DEF TripwireInv
<1>. QED
  BY <1>1, TripwireInvariant, PTL

\* Whatever the payloads, a suspension is recommended only over enough files
\* of one process within the window and the skew, with three items of evidence
\* (evaluate_pid).
THEOREM SuspensionOverBurst == Spec => []SuspensionNeedsBurst
<1>1. TripwireInv => SuspensionNeedsBurst
  BY DEF TripwireInv
<1>. QED
  BY <1>1, TripwireInvariant, PTL

-----------------------------------------------------------------------------
(***************************************************************************)
(* The buckets of the tensor matrix.                                       *)
(***************************************************************************)

LEMMA QuotientGrows ==
  ASSUME NEW a \in Nat, NEW b \in Nat, NEW s \in Nat \ {0}, a <= b
  PROVE  a \div s \in Nat /\ a \div s <= b \div s
<1>. DEFINE p == a \div s
            q == b \div s
<1>1. p \in Nat /\ q \in Nat
  OBVIOUS
<1>2. s * p <= a /\ b < s * q + s
  OBVIOUS
<1>. HIDE DEF p, q
<1>3. ASSUME q < p PROVE FALSE
  <2>1. PICK d \in Nat : p = q + 1 + d
    <3>1. p - q - 1 \in Nat /\ p = q + 1 + (p - q - 1)
      BY <1>1, <1>3
    <3>. QED
      BY <3>1
  <2>2. s * p = s * q + s + s * d
    BY <1>1, <2>1
  <2>3. s * d \in Nat /\ s * q \in Nat
    BY <1>1, <2>1
  <2>. HIDE <1>1
  <2>. QED
    BY <1>2, <2>2, <2>3
<1>. QED
  BY <1>1, <1>3 DEF p, q

\* Where bucket i begins, from the start of the window.
Edge(i) == (i * Window) \div Slots

LEMMA EdgesGrow ==
  /\ Edge(0) = 0 /\ Edge(Slots) = Window
  /\ \A i, j \in Nat : i <= j => Edge(i) \in Nat /\ Edge(i) <= Edge(j)
<1>1. Window \in Nat /\ Slots \in Nat \ {0}
  BY TripwireAssumption
<1>2. Edge(0) = 0
  BY <1>1 DEF Edge
<1>3. Edge(Slots) = Window
  BY <1>1 DEF Edge
<1>4. ASSUME NEW i \in Nat, NEW j \in Nat, i <= j
      PROVE  Edge(i) \in Nat /\ Edge(i) <= Edge(j)
  <2>1. i * Window \in Nat /\ j * Window \in Nat /\ i * Window <= j * Window
    BY <1>1, <1>4
  <2>. QED
    BY <1>1, <2>1, QuotientGrows DEF Edge
<1>. QED
  BY <1>2, <1>3, <1>4

\* A distance from the start of the window that is less than the window falls
\* between two edges, and only two.
LEMMA OneBucket ==
  ASSUME NEW d \in Nat, d < Window
  PROVE  \E i \in 0 .. Slots - 1 :
           \A j \in 0 .. Slots - 1 : (Edge(j) <= d /\ d < Edge(j + 1)) <=> j = i
<1>1. Window \in Nat /\ Slots \in Nat /\ Slots >= 1
  BY TripwireAssumption
<1>. DEFINE T == {j \in 0 .. Slots : d < Edge(j)}
<1>2. PICK m \in T : \A y \in T : m <= y
  <2>1. Slots \in T
    BY <1>1, EdgesGrow
  <2>2. T \subseteq Nat
    BY <1>1
  <2>. HIDE DEF T
  <2>. QED
    BY <2>1, <2>2, LeastElement
<1>3. m \in 0 .. Slots /\ d < Edge(m) /\ m # 0
  BY EdgesGrow
<1>4. m - 1 \in 0 .. Slots - 1 /\ ~(d < Edge(m - 1))
  <2>1. m - 1 \in 0 .. Slots - 1 /\ m - 1 \in 0 .. Slots /\ ~(m <= m - 1)
    BY <1>1, <1>3
  <2>. QED
    BY <1>2, <2>1
<1>5. \A j \in 0 .. Slots : Edge(j) \in Nat
  <2>1. TAKE j \in 0 .. Slots
  <2>2. j \in Nat /\ j <= j
    BY <1>1
  <2>. QED
    BY <2>2, EdgesGrow
<1>6. ASSUME NEW j \in 0 .. Slots - 1, Edge(j) <= d, d < Edge(j + 1)
      PROVE  j = m - 1
  <2>1. /\ j \in Nat /\ j + 1 \in Nat /\ j + 1 \in 0 .. Slots /\ m \in Nat
        /\ j \in 0 .. Slots
    BY <1>1, <1>3
  <2>2. m <= j + 1
    BY <1>2, <1>6, <2>1
  <2>3. ~(m <= j)
    <3>1. ASSUME m <= j PROVE FALSE
      <4>1. Edge(m) <= Edge(j) /\ Edge(m) \in Nat /\ Edge(j) \in Nat
        BY <1>5, <2>1, <3>1, EdgesGrow
      <4>. QED
        BY <1>3, <1>6, <4>1
    <3>. QED
      BY <3>1
  <2>. QED
    BY <2>1, <2>2, <2>3
<1>7. Edge(m - 1) <= d /\ d < Edge((m - 1) + 1)
  <2>1. (m - 1) + 1 = m /\ m - 1 \in 0 .. Slots
    BY <1>1, <1>3
  <2>2. Edge(m - 1) \in Nat
    BY <1>5, <2>1
  <2>. QED
    BY <1>3, <1>4, <2>1, <2>2
<1>. QED
  BY <1>4, <1>6, <1>7

\* The buckets leave out and share no event of the window that came before the
\* last one, also when the number of slots does not divide the window
\* (evaluate_pid).
THEOREM BucketsExact == Spec => []BucketsPartition
<1>. DEFINE l == events[Len(events)]
<1>1. ASSUME TripwireInv, events # <<>>, NEW e \in ToSet(Of(events, l.pid)),
             WindowStart(l.ts) <= e.ts, e.ts < l.ts
      PROVE  Cardinality({i \in 0 .. Slots - 1 : e \in Matrix[i]}) = 1
  <2>. DEFINE d == e.ts - WindowStart(l.ts)
  <2>1. events \in Seq(Operations) /\ Len(events) \in Nat /\ Len(events) >= 1
    BY <1>1 DEF TripwireInv
  <2>2. e \in Operations
    <3>1. e \in ToSet(events)
      BY <1>1, <2>1, OfKeeps
    <3>. QED
      BY <2>1, <3>1 DEF ToSet
  <2>3. l \in Operations
    BY <2>1
  <2>4. e.ts \in Nat /\ l.ts \in Nat
    BY <2>2, <2>3 DEF Operations
  <2>5. WindowStart(l.ts) \in Nat /\ d \in Nat /\ d < Window
    BY <1>1, <2>4, TripwireAssumption DEF WindowStart
  <2>6. PICK i \in 0 .. Slots - 1 : \A j \in 0 .. Slots - 1 :
          (Edge(j) <= d /\ d < Edge(j + 1)) <=> j = i
    BY <2>5, OneBucket
  <2>7. ASSUME NEW j \in 0 .. Slots - 1
        PROVE  e \in Matrix[j] <=> (Edge(j) <= d /\ d < Edge(j + 1))
    <3>1. Matrix[j] = Bucket(Of(events, l.pid), l.ts, j)
      BY <1>1 DEF Matrix
    <3>2. e \in Matrix[j] <=> /\ WindowStart(l.ts) + Edge(j) <= e.ts
                              /\ e.ts < WindowStart(l.ts) + Edge(j + 1)
      BY <1>1, <3>1 DEF Bucket, BucketStart, Edge
    <3>3. Edge(j) \in Nat /\ Edge(j + 1) \in Nat
      <4>1. j \in Nat /\ j + 1 \in Nat /\ j <= j /\ j + 1 <= j + 1
        BY TripwireAssumption
      <4>. QED
        BY <4>1, EdgesGrow
    <3>. QED
      BY <2>4, <2>5, <3>2, <3>3
  <2>. HIDE DEF d, l
  <2>8. {j \in 0 .. Slots - 1 : e \in Matrix[j]} = {i}
    BY <2>6, <2>7
  <2>. QED
    BY <2>8, FS_Singleton
<1>2. TripwireInv => BucketsPartition
  BY <1>1 DEF BucketsPartition
<1>. QED
  BY <1>2, TripwireInvariant, PTL
=============================================================================
