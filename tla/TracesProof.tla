---------------------------- MODULE TracesProof ----------------------------
(***************************************************************************)
(* What the tools that watch an application keep to, in whatever order     *)
(* their commands, its answers and its failures come.  The watch loops of  *)
(* cf-metrics and cf-events show documents once and in order.  A session   *)
(* of cf-live-trace that is not running holds nothing open, a hook that    *)
(* stays in the application is reported, and events are handed over once   *)
(* and in order.  A recording of cf-function-trace ends with the           *)
(* application disarmed, and a process that exits leaves no tunnel and no  *)
(* session, unless it says that it failed to.                              *)
(***************************************************************************)
EXTENDS LiveTrace, FunctionTrace, Watch, SequenceTheorems, FiniteSetTheorems, WellFoundedInduction,
        TLAPS

(***************************************************************************)
(* Numbers in their order, and the filter that keeps it.                   *)
(***************************************************************************)
Ascending(s) == \A i, j \in 1..Len(s) : i < j => s[i] < s[j]

\* Some number of a set of numbers is its least.
LEMMA Least ==
  ASSUME NEW T \in SUBSET Nat, T # {}
  PROVE  \E n \in T : \A m \in T : n <= m
  <1> DEFINE R == {p \in Nat \X Nat : p[1] < p[2]}
  <1>1. IsWellFoundedOn(R, Nat)
    BY NatLessThanWellFounded DEF OpToRel
  <1>2. \A m, n \in Nat : m < n => <<m, n>> \in R
    OBVIOUS
  <1> HIDE DEF R
  <1>3. PICK n \in T : \A m \in T : <<m, n>> \notin R
    BY <1>1, WFMin
  <1>4. \A m \in T : ~(m < n)
    BY <1>2, <1>3
  <1> QED
    BY <1>4

\* The elements of a finite set of numbers are numbered in their order.
LEMMA Numbered ==
  ASSUME NEW z \in Nat, NEW L \in SUBSET (1..z), NEW n \in 1..Cardinality(L)
  PROVE  \E i \in L : Cardinality({j \in L : j <= i}) = n
  <1> DEFINE To(m) == {j \in L : j <= m}
  <1>0. \A j \in L : j \in Nat /\ 1 <= j /\ j <= z
    OBVIOUS
  <1>1. \A m \in 0..z : IsFiniteSet(To(m)) /\ Cardinality(To(m)) \in Nat
    <2>1. IsFiniteSet(1..z)
      BY FS_Interval
    <2>2. \A m \in 0..z : To(m) \subseteq 1..z
      OBVIOUS
    <2> HIDE DEF To
    <2> QED
      BY <2>1, <2>2, FS_Subset, FS_CardinalityType
  <1>2. To(z) = L /\ To(0) = {} /\ Cardinality(To(0)) = 0 /\ z \in 0..z /\ 0 \in 0..z
    <2>1. \A j \in L : j <= z /\ ~(j <= 0)
      BY <1>0
    <2>2. To(z) = L /\ To(0) = {}
      BY <2>1, Zenon
    <2> QED
      BY <2>2, FS_EmptySet
  <1>n. n \in Nat /\ n >= 1 /\ Cardinality(L) >= n
    BY <1>1, <1>2
  <1> HIDE DEF To
  <1> DEFINE T == {m \in 0..z : Cardinality(To(m)) >= n}
  <1>3. z \in T /\ T \in SUBSET Nat
    BY <1>2, <1>n
  <1>4. PICK m \in T : \A k \in T : m <= k
    <2> HIDE DEF T
    <2> QED
      BY <1>3, Least
  <1>5. m \in 1..z
    BY <1>2, <1>4, <1>n
  <1>6. m \in 0..z /\ m - 1 \in 0..z /\ m - 1 \notin T
    <2>1. m \in 1..z /\ \A k \in T : m <= k /\ k \in Nat
      BY <1>3, <1>4, <1>5
    <2> HIDE DEF T
    <2> QED
      BY <2>1
  <1>7. Cardinality(To(m - 1)) < n
    BY <1>1, <1>6, <1>n
  <1>8. m \in L
    <2> SUFFICES ASSUME m \notin L PROVE FALSE
      OBVIOUS
    <2>0. \A j \in L : j <= m <=> j <= m - 1
      BY <1>0, <1>5
    <2>1. To(m) = To(m - 1)
      BY <2>0 DEF To
    <2>2. Cardinality(To(m)) >= n
      BY <1>4
    <2> QED
      <3>1. Cardinality(To(m)) \in Nat
        BY <1>1, <1>6
      <3>2. Cardinality(To(m)) < n
        BY <1>7, <2>1
      <3> QED
        BY <1>n, <2>2, <3>1, <3>2
  <1>9. To(m) = To(m - 1) \cup {m} /\ m \notin To(m - 1)
    <2>1. (\A j \in L : j <= m <=> j <= m - 1 \/ j = m) /\ ~(m <= m - 1)
      BY <1>0, <1>5
    <2> QED
      BY <1>8, <2>1, Zenon DEF To
  <1>10. Cardinality(To(m)) = Cardinality(To(m - 1)) + 1
    BY <1>1, <1>6, <1>9, FS_AddElement
  <1>11. Cardinality(To(m)) = n
    <2>1. Cardinality(To(m)) >= n
      BY <1>4
    <2> QED
      BY <1>1, <1>6, <1>7, <1>10, <1>n, <2>1
  <1> QED
    BY <1>8, <1>11 DEF To

\* The filter picks what is not gone, all of it and in its order.
PicksAll(q, gone, f, pick) ==
    /\ pick \in [1..Len(f) -> 1..Len(q)]
    /\ \A n, o \in 1..Len(f) : n < o => pick[n] < pick[o]
    /\ \A n \in 1..Len(f) : q[pick[n]] \notin gone /\ f[n] = q[pick[n]]
    /\ \A i \in 1..Len(q) : q[i] \notin gone => \E n \in 1..Len(f) : pick[n] = i

LEMMA Picks ==
  ASSUME NEW S, NEW q \in Seq(S), NEW gone
  PROVE  /\ Filtered(q, gone) \in Seq(S)
         /\ \E pick : PicksAll(q, gone, Filtered(q, gone), pick)
  <1> DEFINE L == {i \in DOMAIN q : q[i] \notin gone}
             To(i) == {j \in L : j <= i}
             Nth(n) == CHOOSE i \in L : Cardinality(To(i)) = n
             d == Cardinality(L)
  <1>1. DOMAIN q = 1..Len(q) /\ Len(q) \in Nat /\ \A i \in 1..Len(q) : q[i] \in S
    BY LenProperties, ElementOfSeq
  <1>2. L \in SUBSET (1..Len(q)) /\ IsFiniteSet(L) /\ d \in Nat
    <2>1. L \in SUBSET (1..Len(q)) /\ IsFiniteSet(1..Len(q))
      BY <1>1, FS_Interval
    <2> HIDE DEF L
    <2> QED
      BY <2>1, FS_Subset, FS_CardinalityType
  <1>l. (\A i \in L : i \in Nat) /\ \A i : IsFiniteSet(To(i)) /\ Cardinality(To(i)) \in Nat
    <2>1. (\A i \in L : i \in Nat) /\ \A i : To(i) \subseteq L
      BY <1>2
    <2> HIDE DEF L, To
    <2> QED
      BY <1>2, <2>1, FS_Subset, FS_CardinalityType
  <1>3. \A n \in 1..d : Nth(n) \in L /\ Cardinality(To(Nth(n))) = n
    <2> SUFFICES ASSUME NEW n \in 1..d
                 PROVE  Nth(n) \in L /\ Cardinality(To(Nth(n))) = n
      OBVIOUS
    <2>1. \E i \in L : Cardinality(To(i)) = n
      <3> HIDE DEF L
      <3> QED
        BY <1>1, <1>2, Numbered
    <2> HIDE DEF L, Nth, To
    <2>2. Nth(n) = CHOOSE i \in L : Cardinality(To(i)) = n
      BY DEF Nth
    <2> QED
      BY <2>1, <2>2
  <1>4. Filtered(q, gone) = [n \in 1..d |-> q[Nth(n)]]
    BY Zenon DEF Filtered
  <1> HIDE DEF Nth, d
  <1>o. ASSUME NEW i \in L, NEW j \in L, i < j
        PROVE  Cardinality(To(i)) < Cardinality(To(j))
    <2>1. To(i) \subseteq To(j) /\ j \in To(j) /\ j \notin To(i)
      <3> HIDE DEF L
      <3> QED
        BY <1>l, <1>o
    <2>2. Cardinality(To(i)) <= Cardinality(To(j)) /\ Cardinality(To(i)) # Cardinality(To(j))
      <3> HIDE DEF L, To
      <3> QED
        BY <1>l, <2>1, FS_Subset
    <2> HIDE DEF L, To
    <2> QED
      BY <1>l, <2>2
  <1>5. ASSUME NEW n \in 1..d, NEW o \in 1..d, n < o
        PROVE  Nth(n) < Nth(o)
    <2> HIDE DEF L, To
    <2>1. Nth(n) \in L /\ Nth(o) \in L /\ Nth(n) \in Nat /\ Nth(o) \in Nat
      BY <1>3, <1>l
    <2>2. Cardinality(To(Nth(n))) = n /\ Cardinality(To(Nth(o))) = o
      BY <1>3
    <2>3. ~(Nth(o) < Nth(n)) /\ Nth(o) # Nth(n)
      <3>1. Nth(o) < Nth(n) => o < n
        BY <1>o, <2>1, <2>2
      <3> QED
        BY <1>5, <1>2, <2>2, <3>1
    <2> QED
      BY <2>1, <2>3
  <1>6. \A n \in 1..d : Nth(n) \in 1..Len(q) /\ q[Nth(n)] \in S /\ q[Nth(n)] \notin gone
    BY <1>1, <1>3
  <1>7. ASSUME NEW i \in 1..Len(q), q[i] \notin gone
        PROVE  \E n \in 1..d : Nth(n) = i
    <2>1. i \in L /\ i \in To(i) /\ To(i) \subseteq L
      BY <1>1, <1>7
    <2>2. Cardinality(To(i)) \in 1..d
      <3> HIDE DEF L, To
      <3>1. Cardinality(To(i)) <= d
        BY <1>2, <2>1, FS_Subset DEF d
      <3>2. Cardinality(To(i)) # 0
        BY <1>l, <2>1, FS_EmptySet
      <3> QED
        BY <1>l, <1>2, <3>1, <3>2
    <2>3. Nth(Cardinality(To(i))) \in L
          /\ Cardinality(To(Nth(Cardinality(To(i))))) = Cardinality(To(i))
      <3> HIDE DEF L, To
      <3> QED
        BY <1>3, <2>2
    <2> HIDE DEF L, To
    <2>4. Nth(Cardinality(To(i))) = i
      <3> DEFINE m == Nth(Cardinality(To(i)))
      <3>1. m \in L /\ m \in Nat /\ i \in Nat /\ Cardinality(To(m)) = Cardinality(To(i))
        BY <1>l, <2>1, <2>3
      <3> HIDE DEF m
      <3>2. ~(m < i) /\ ~(i < m)
        BY <1>o, <1>l, <2>1, <3>1
      <3>3. m = i
        BY <3>1, <3>2
      <3> QED
        BY <3>3 DEF m
    <2> QED
      BY <2>2, <2>4
  <1> HIDE DEF L, To
  <1> DEFINE f == Filtered(q, gone)
             pick == [n \in 1..d |-> Nth(n)]
  <1>8. f \in Seq(S) /\ Len(f) = d /\ \A n \in 1..d : f[n] = q[Nth(n)]
    <2> DEFINE v(n) == q[Nth(n)]
    <2>2. \A n \in 1..d : v(n) \in S
      BY <1>6
    <2>3. f = [n \in 1..d |-> v(n)]
      BY <1>4
    <2> HIDE DEF v, f
    <2>4. f \in Seq(S) /\ Len(f) = d /\ \A n \in 1..d : f[n] = v(n)
      BY <1>2, <2>2, <2>3
    <2> QED
      BY <2>4 DEF v
  <1> HIDE DEF f
  <1>9. pick \in [1..Len(f) -> 1..Len(q)] /\ \A n \in 1..Len(f) : pick[n] = Nth(n)
    BY <1>6, <1>8
  <1> HIDE DEF pick
  <1>10. /\ \A n, o \in 1..Len(f) : n < o => pick[n] < pick[o]
         /\ \A n \in 1..Len(f) : q[pick[n]] \notin gone /\ f[n] = q[pick[n]]
    BY <1>5, <1>6, <1>8, <1>9
  <1>11. \A i \in 1..Len(q) : q[i] \notin gone => \E n \in 1..Len(f) : pick[n] = i
    BY <1>7, <1>8, <1>9
  <1>12. PicksAll(q, gone, f, pick)
    BY <1>9, <1>10, <1>11 DEF PicksAll
  <1> QED
    BY <1>8, <1>12 DEF f

\* The filter keeps the order.
LEMMA Filters ==
  ASSUME NEW q \in Seq(Nat), Ascending(q), NEW gone
  PROVE  /\ Filtered(q, gone) \in Seq(Nat) /\ Ascending(Filtered(q, gone))
         /\ \A n \in 1..Len(Filtered(q, gone)) :
               \E i \in 1..Len(q) : q[i] \notin gone /\ Filtered(q, gone)[n] = q[i]
  <1> DEFINE f == Filtered(q, gone)
  <1>1. f \in Seq(Nat) /\ \E pick : PicksAll(q, gone, f, pick)
    BY Picks
  <1> HIDE DEF f
  <1>2. PICK pick : PicksAll(q, gone, f, pick)
    BY <1>1
  <1>3. \A n \in 1..Len(f) : pick[n] \in 1..Len(q)
    BY <1>2 DEF PicksAll
  <1>4. \A n, o \in 1..Len(f) : n < o => f[n] < f[o]
    BY <1>2, <1>3 DEF Ascending, PicksAll
  <1>5. \A n \in 1..Len(f) : \E i \in 1..Len(q) : q[i] \notin gone /\ f[n] = q[i]
    BY <1>2, <1>3 DEF PicksAll
  <1> QED
    BY <1>1, <1>4, <1>5 DEF f, Ascending

(***************************************************************************)
(* The watch loops of cf-metrics and cf-events.                            *)
(***************************************************************************)
\* Documents once each and in their order.
Listing(s) == s \in Seq(Documents) /\ IsInjective(s) /\ InTime(s)

LEMMA Elements ==
  ASSUME NEW S, NEW s \in Seq(S)
  PROVE  /\ ToSet(s) \subseteq S /\ DOMAIN s = 1..Len(s) /\ Len(s) \in Nat
         /\ \A d : d \in ToSet(s) <=> \E i \in 1..Len(s) : s[i] = d
  BY LenProperties, ElementOfSeq DEF ToSet

LEMMA FilteredListing ==
  ASSUME NEW q, Listing(q), NEW gone
  PROVE  /\ Listing(Filtered(q, gone))
         /\ \A d : d \in ToSet(Filtered(q, gone)) <=> d \in ToSet(q) /\ d \notin gone
  <1> DEFINE f == Filtered(q, gone)
  <1>0. q \in Seq(Documents)
    BY DEF Listing
  <1>1. f \in Seq(Documents) /\ \E pick : PicksAll(q, gone, f, pick)
    BY <1>0, Picks
  <1> HIDE DEF f
  <1>p. PICK pick : PicksAll(q, gone, f, pick)
    BY <1>1
  <1>2. /\ pick \in [1..Len(f) -> 1..Len(q)]
        /\ \A n, o \in 1..Len(f) : n < o => pick[n] < pick[o]
        /\ \A n \in 1..Len(f) : q[pick[n]] \notin gone /\ f[n] = q[pick[n]]
        /\ \A i \in 1..Len(q) : q[i] \notin gone => \E n \in 1..Len(f) : pick[n] = i
    BY <1>p DEF PicksAll
  <1>3. /\ DOMAIN q = 1..Len(q) /\ DOMAIN f = 1..Len(f) /\ Len(f) \in Nat /\ Len(q) \in Nat
        /\ \A d : d \in ToSet(q) <=> \E i \in 1..Len(q) : q[i] = d
        /\ \A d : d \in ToSet(f) <=> \E i \in 1..Len(f) : f[i] = d
    BY <1>0, <1>1, Elements
  <1>4. IsInjective(f)
    <2>1. \A a, b \in 1..Len(f) : pick[a] = pick[b] => ~(a < b) /\ ~(b < a)
      BY <1>2, <1>3
    <2>2. \A a, b \in 1..Len(f) : pick[a] = pick[b] => a = b
      BY <1>3, <2>1
    <2>3. \A a, b \in 1..Len(f) : f[a] = f[b] => pick[a] = pick[b]
      BY <1>2, <1>3 DEF Listing, IsInjective
    <2> QED
      BY <1>3, <2>2, <2>3 DEF IsInjective
  <1>5. InTime(f)
    BY <1>2, <1>3 DEF Listing, InTime
  <1>6. \A d : d \in ToSet(f) <=> d \in ToSet(q) /\ d \notin gone
    <2>1. ASSUME NEW d \in ToSet(f) PROVE d \in ToSet(q) /\ d \notin gone
      <3>1. PICK n \in 1..Len(f) : f[n] = d
        BY <1>3
      <3>2. pick[n] \in 1..Len(q) /\ q[pick[n]] = d /\ d \notin gone
        BY <1>2, <3>1
      <3> QED
        BY <1>3, <3>2
    <2>2. ASSUME NEW d \in ToSet(q), d \notin gone PROVE d \in ToSet(f)
      <3>1. PICK i \in 1..Len(q) : q[i] = d
        BY <1>3
      <3>2. PICK n \in 1..Len(f) : pick[n] = i
        BY <1>2, <2>2, <3>1
      <3>3. f[n] = d
        BY <1>2, <3>1, <3>2
      <3> QED
        BY <1>3, <3>3
    <2> QED
      BY <2>1, <2>2
  <1> QED
    BY <1>1, <1>4, <1>5, <1>6 DEF f, Listing

\* A page holds what it is a page of.
LEMMA PageFits ==
  ASSUME landed \in Seq(Nat), NEW S \in SUBSET Documents, NEW page \in Chronological(S)
  PROVE  /\ Listing(page) /\ ToSet(page) = S
         /\ page = <<>> => S = {}
         /\ page # <<>> => Last(page) \in S /\ \A d \in S : landed[d] <= landed[Last(page)]
  <1>1. Documents = 1..Len(landed) /\ Len(landed) \in Nat
    BY LenProperties DEF Documents
  <1>2. IsFiniteSet(S) /\ Cardinality(S) \in Nat
    <2>1. IsFiniteSet(1..Len(landed)) /\ S \in SUBSET (1..Len(landed))
      BY <1>1, FS_Interval
    <2> QED
      BY <2>1, FS_Subset, FS_CardinalityType
  <1> DEFINE D == 1..Cardinality(S)
  <1>3. page \in [D -> S] /\ (\A i, j \in D : i # j => page[i] # page[j]) /\ InTime(page)
    BY DEF Chronological, SetToSeqs
  <1>4. page \in Seq(S) /\ Len(page) = Cardinality(S) /\ DOMAIN page = D
    BY <1>2, <1>3
  <1>5. IsInjective(page)
    BY <1>3, <1>4 DEF IsInjective
  <1>6. IsFiniteSet(D) /\ Cardinality(D) = Cardinality(S)
    <2> DEFINE c == Cardinality(S)
    <2>1. c \in Nat
      BY <1>2
    <2> HIDE DEF c
    <2>2. IsFiniteSet(1..c) /\ Cardinality(1..c) = c
      BY <2>1, FS_Interval
    <2> QED
      BY <2>2 DEF c
  <1>7. page \in Surjection(D, S)
    <2> HIDE DEF D
    <2>1. page \in Injection(D, S)
      BY <1>3, <1>5 DEF Injection
    <2> QED
      BY <1>2, <1>6, <2>1, FS_Injection
  <1>8. ToSet(page) = S
    <2>1. \A d : d \in ToSet(page) <=> \E i \in D : page[i] = d
      BY <1>4, Zenon DEF ToSet
    <2>2. \A d : d \in S <=> \E i \in D : page[i] = d
      BY <1>7, <1>3 DEF Surjection
    <2> QED
      BY <2>1, <2>2
  <1>9. Listing(page)
    <2>1. page \in Seq(Documents)
      BY <1>4, SeqMonotonic
    <2> QED
      BY <1>3, <1>5, <2>1 DEF Listing
  <1>10. page = <<>> => S = {}
    BY <1>2, <1>4, FS_EmptySet
  <1>11. ASSUME page # <<>>
         PROVE  Last(page) \in S /\ \A d \in S : landed[d] <= landed[Last(page)]
    <2>1. Cardinality(S) \in D /\ Last(page) = page[Cardinality(S)]
      <3>1. Cardinality(S) # 0
        BY <1>4, <1>11
      <3> QED
        BY <1>2, <1>4, <3>1 DEF Last
    <2>2. \A d \in S : \E i \in D : page[i] = d
      BY <1>7 DEF Surjection
    <2>3. \A d \in S : landed[d] \in Nat
      BY <1>1, ElementOfSeq
    <2>4. \A i \in D : i < Cardinality(S) \/ i = Cardinality(S)
      BY <1>2
    <2>5. \A i, j \in D : i < j => landed[page[i]] <= landed[page[j]]
      BY <1>3, <1>4 DEF InTime
    <2> HIDE DEF D
    <2>6. \A i \in D : landed[page[i]] <= landed[Last(page)]
      BY <1>3, <2>1, <2>3, <2>4, <2>5
    <2> QED
      BY <1>3, <2>1, <2>2, <2>6
  <1> QED
    BY <1>8, <1>9, <1>10, <1>11

\* Two listings, the one before the other.
LEMMA Joined ==
  ASSUME landed \in Seq(Nat), NEW s, NEW t, Listing(s), Listing(t),
         \A d \in ToSet(t) : d \notin ToSet(s),
         \A d \in ToSet(s), e \in ToSet(t) : landed[d] <= landed[e]
  PROVE  Listing(s \o t) /\ \A d : d \in ToSet(s \o t) <=> d \in ToSet(s) \/ d \in ToSet(t)
  <1> DEFINE u == s \o t
  <1>1. s \in Seq(Documents) /\ t \in Seq(Documents)
    BY DEF Listing
  <1>2. /\ u \in Seq(Documents) /\ Len(u) = Len(s) + Len(t)
        /\ \A i \in 1..Len(s) + Len(t) : u[i] = IF i <= Len(s) THEN s[i] ELSE t[i - Len(s)]
    BY <1>1, ConcatProperties
  <1> HIDE DEF u
  <1>3. /\ DOMAIN s = 1..Len(s) /\ DOMAIN t = 1..Len(t) /\ DOMAIN u = 1..Len(u)
        /\ Len(s) \in Nat /\ Len(t) \in Nat
        /\ \A d : d \in ToSet(s) <=> \E i \in 1..Len(s) : s[i] = d
        /\ \A d : d \in ToSet(t) <=> \E i \in 1..Len(t) : t[i] = d
        /\ \A d : d \in ToSet(u) <=> \E i \in 1..Len(u) : u[i] = d
    BY <1>1, <1>2, Elements
  <1>4. \A i \in 1..Len(u) : \/ i \in 1..Len(s) /\ u[i] = s[i]
                             \/ i - Len(s) \in 1..Len(t) /\ ~(i \in 1..Len(s)) /\ u[i] = t[i - Len(s)]
    BY <1>2, <1>3
  <1>5. IsInjective(u)
    <2> SUFFICES ASSUME NEW a \in 1..Len(u), NEW b \in 1..Len(u), u[a] = u[b] PROVE a = b
      BY <1>3 DEF IsInjective
    <2>1. CASE a \in 1..Len(s) /\ b \in 1..Len(s)
      BY <1>3, <1>4, <2>1 DEF Listing, IsInjective
    <2>2. CASE ~(a \in 1..Len(s)) /\ ~(b \in 1..Len(s))
      <3>1. a - Len(s) = b - Len(s)
        <4>1. t[a - Len(s)] = t[b - Len(s)]
          BY <1>4, <2>2
        <4>2. a - Len(s) \in DOMAIN t /\ b - Len(s) \in DOMAIN t
          BY <1>3, <1>4, <2>2
        <4> QED
          BY <4>1, <4>2 DEF Listing, IsInjective
      <3> QED
        BY <1>2, <1>3, <3>1
    <2>3. CASE a \in 1..Len(s) /\ ~(b \in 1..Len(s))
      BY <1>3, <1>4, <2>3
    <2>4. CASE ~(a \in 1..Len(s)) /\ b \in 1..Len(s)
      <3>1. u[a] \in ToSet(t) /\ u[b] \in ToSet(s)
        BY <1>3, <1>4, <2>4
      <3> QED
        BY <3>1
    <2> QED
      BY <2>1, <2>2, <2>3, <2>4, Zenon
  <1>6. InTime(u)
    <2> SUFFICES ASSUME NEW a \in 1..Len(u), NEW b \in 1..Len(u), a < b
                 PROVE  landed[u[a]] <= landed[u[b]]
      BY <1>3 DEF InTime
    <2>1. CASE a \in 1..Len(s) /\ b \in 1..Len(s)
      BY <1>3, <1>4, <2>1 DEF Listing, InTime
    <2>2. CASE ~(a \in 1..Len(s)) /\ ~(b \in 1..Len(s))
      <3>1. a - Len(s) < b - Len(s) /\ a - Len(s) \in 1..Len(t) /\ b - Len(s) \in 1..Len(t)
        BY <1>2, <1>3, <1>4, <2>2
      <3>2. landed[t[a - Len(s)]] <= landed[t[b - Len(s)]]
        BY <1>3, <3>1 DEF Listing, InTime
      <3> QED
        BY <1>4, <2>2, <3>2
    <2>3. CASE a \in 1..Len(s) /\ ~(b \in 1..Len(s))
      BY <1>3, <1>4, <2>3
    <2>4. CASE ~(a \in 1..Len(s)) /\ b \in 1..Len(s)
      BY <1>2, <1>3, <2>4
    <2> QED
      BY <2>1, <2>2, <2>3, <2>4
  <1>7. \A d : d \in ToSet(u) <=> d \in ToSet(s) \/ d \in ToSet(t)
    <2>1. \A i \in 1..Len(s) : i \in 1..Len(u) /\ u[i] = s[i]
      BY <1>2, <1>3
    <2>2. \A i \in 1..Len(t) : i + Len(s) \in 1..Len(u) /\ u[i + Len(s)] = t[i]
      <3> SUFFICES ASSUME NEW i \in 1..Len(t)
                   PROVE  i + Len(s) \in 1..Len(u) /\ u[i + Len(s)] = t[i]
        OBVIOUS
      <3>1. i + Len(s) \in 1..Len(u) /\ ~(i + Len(s) <= Len(s)) /\ i + Len(s) - Len(s) = i
        BY <1>2, <1>3
      <3> QED
        BY <1>2, <3>1
    <2>3. ASSUME NEW d \in ToSet(u) PROVE d \in ToSet(s) \/ d \in ToSet(t)
      <3>1. PICK i \in 1..Len(u) : u[i] = d
        BY <1>3
      <3>2. CASE i \in 1..Len(s) /\ u[i] = s[i]
        BY <1>3, <3>1, <3>2
      <3>3. CASE i - Len(s) \in 1..Len(t) /\ u[i] = t[i - Len(s)]
        BY <1>3, <3>1, <3>3
      <3> QED
        BY <1>4, <3>2, <3>3
    <2>4. ASSUME NEW d \in ToSet(s) PROVE d \in ToSet(u)
      BY <1>3, <2>1
    <2>5. ASSUME NEW d \in ToSet(t) PROVE d \in ToSet(u)
      BY <1>3, <2>2
    <2> QED
      BY <2>3, <2>4, <2>5
  <1> QED
    BY <1>2, <1>5, <1>6, <1>7 DEF u, Listing

\* The last time printed is that of a document shown, and none is later.
LEMMA LastPrintedFits ==
  ASSUME landed \in Seq(Nat), Listing(shown)
  PROVE  /\ LastPrinted \in Nat
         /\ \A d \in ToSet(shown) : landed[d] <= LastPrinted
         /\ LastPrinted = 0 \/ \E d \in ToSet(shown) : landed[d] = LastPrinted
  <1> DEFINE T == {0} \cup {landed[d] : d \in ToSet(shown)}
  <1>1. /\ shown \in Seq(Documents) /\ DOMAIN shown = 1..Len(shown) /\ Len(shown) \in Nat
        /\ ToSet(shown) \subseteq Documents
        /\ \A d : d \in ToSet(shown) <=> \E i \in 1..Len(shown) : shown[i] = d
    BY Elements DEF Listing
  <1>2. \A d \in Documents : landed[d] \in Nat
    BY ElementOfSeq, LenProperties DEF Documents
  <1>3. T \subseteq Nat /\ \E m \in T : \A n \in T : m >= n
    <2>1. CASE Len(shown) = 0
      BY <1>1, <2>1
    <2>2. CASE Len(shown) # 0
      <3> DEFINE m == landed[shown[Len(shown)]]
      <3>1. Len(shown) \in 1..Len(shown) /\ m \in T /\ m \in Nat
        BY <1>1, <1>2, <2>2
      <3>2. \A i \in 1..Len(shown) : landed[shown[i]] <= m
        <4>1. \A n \in Nat : \A i \in 1..n : i < n \/ i = n
          OBVIOUS
        <4> HIDE DEF T
        <4>2. \A i, j \in 1..Len(shown) : i < j => landed[shown[i]] <= landed[shown[j]]
          BY <1>1 DEF Listing, InTime
        <4>3. m <= m
          BY <3>1
        <4> QED
          BY <1>1, <3>1, <4>1, <4>2, <4>3
      <3> HIDE DEF m
      <3>3. \A d \in ToSet(shown) : landed[d] <= m /\ landed[d] \in Nat
        BY <1>1, <1>2, <3>2
      <3> QED
        BY <3>1, <3>3
    <2> QED
      BY <1>1, <2>1, <2>2
  <1>4. LastPrinted = CHOOSE m \in T : \A n \in T : m >= n
    BY DEF LastPrinted, Max
  <1> HIDE DEF T
  <1>5. LastPrinted \in T /\ LastPrinted \in Nat /\ \A n \in T : LastPrinted >= n
    BY <1>3, <1>4
  <1> QED
    BY <1>3, <1>5 DEF T

WatchRecord == [of : Loops, at : {"starting", "polling", "ended"}, cursor : Nat,
                seen : SUBSET Documents, replaying : BOOLEAN, retried : BOOLEAN]

WatchFits ==
    /\ landed \in Seq(Nat \ {0}) /\ instant \in Nat \ {0}
    /\ watch \in WatchRecord
    /\ Listing(shown) /\ missed \subseteq Documents /\ missed \cap ToSet(shown) = {}
    /\ watch.replaying => watch.retried
    /\ watch.at = "starting" => shown = <<>> /\ missed = {}

\* The log behind the cursor, and what is remembered as seen at it, is shown or missed.
BehindIsKnown ==
    watch.at = "polling" =>
        \A d \in Documents : d \notin Matching \/ d \in watch.seen
                               => d \in ToSet(shown) \/ d \in missed

\* Where the cursor of cf-metrics is: a replay begins behind it, or at a time printed, ...
CursorFits ==
    watch.of = "metrics" /\ watch.at = "polling" =>
        /\ \A d \in watch.seen : landed[d] = watch.cursor
        /\ ~watch.retried =>
              /\ \/ watch.cursor <= Seed
                 \/ \E e \in ToSet(shown) : watch.cursor <= landed[e]
              /\ \A d \in missed : landed[d] < watch.cursor
\* ... and what a poll can bring once more is remembered, or not printed in a replay.
        /\ ~watch.replaying =>
              \A d \in ToSet(shown) \cup missed :
                 landed[d] < watch.cursor \/ (landed[d] = watch.cursor /\ d \in watch.seen)
        /\ watch.replaying =>
              \A d \in missed : \/ landed[d] < watch.cursor \/ d \in watch.seen
                                \/ \E e \in ToSet(shown) : landed[d] <= landed[e]

\* Whatever cf-events has handled is not after its cursor.
EventsFit ==
    watch.of = "events" /\ watch.at = "polling" =>
        \A d \in ToSet(shown) \cup missed : landed[d] <= watch.cursor

WatchInv == WatchFits /\ BehindIsKnown /\ CursorFits /\ EventsFit

LEMMA TimesAreNumbers ==
  ASSUME landed \in Seq(Nat \ {0})
  PROVE  /\ landed \in Seq(Nat) /\ Documents = 1..Len(landed) /\ Len(landed) \in Nat
         /\ \A d \in Documents : landed[d] \in Nat /\ landed[d] > 0
  <1>1. landed \in Seq(Nat)
    <2>1. Nat \ {0} \subseteq Nat
      OBVIOUS
    <2> QED
      BY <2>1, SeqMonotonic
  <1>2. Documents = 1..Len(landed) /\ Len(landed) \in Nat
    BY LenProperties DEF Documents
  <1>3. \A d \in 1..Len(landed) : landed[d] \in Nat \ {0}
    BY ElementOfSeq
  <1> QED
    BY <1>1, <1>2, <1>3

LEMMA WatchBegins == WatchInit => WatchInv
  <1> SUFFICES ASSUME WatchInit PROVE WatchInv
    OBVIOUS
  <1>1. landed = <<>> /\ instant = 1 /\ shown = <<>> /\ missed = {} /\ watch.at = "starting"
        /\ ~watch.replaying
    BY DEF WatchInit
  <1>2. landed \in Seq(Nat \ {0})
    BY <1>1
  <1>3. watch \in WatchRecord
    <2>1. PICK l \in Loops : watch = [of |-> l, at |-> "starting", cursor |-> 0, seen |-> {},
                                     replaying |-> FALSE, retried |-> FALSE]
      BY DEF WatchInit
    <2> QED
      BY <2>1 DEF WatchRecord
  <1>4. Listing(shown)
    <2>1. shown \in Seq(Documents) /\ DOMAIN shown = {}
      BY <1>1
    <2> QED
      BY <2>1 DEF Listing, IsInjective, InTime
  <1> QED
    BY <1>1, <1>2, <1>3, <1>4 DEF WatchInv, WatchFits, BehindIsKnown, CursorFits, EventsFit

\* A loop is entered, at first or for a replay.
LEMMA WatchEnters ==
  ASSUME WatchInv, NEW again \in BOOLEAN, EntersLoop(again),
         ~again => watch.at = "starting",
         again => watch.of = "metrics" /\ watch.at = "polling" /\ ~watch.retried
  PROVE  WatchInv'
  <1> DEFINE new == (Documents \ ToSet(shown)) \ Matching'
  <1>0. landed' = landed /\ instant' = instant /\ shown' = shown /\ missed' = missed \cup new
    BY DEF EntersLoop
  <1>1. /\ landed \in Seq(Nat) /\ Documents' = Documents /\ Listing(shown)' /\ Listing(shown)
        /\ \A d \in Documents : landed[d] \in Nat
        /\ missed \subseteq Documents /\ missed \cap ToSet(shown) = {}
        /\ instant \in Nat /\ Lookback \in Nat
    BY <1>0, TimesAreNumbers, WatchAssumption
       DEF WatchInv, WatchFits, Listing, InTime, Documents
  <1>2. Seed \in Nat /\ Seed' = Seed
    BY <1>0, <1>1 DEF Seed
  <1>3. /\ watch' \in WatchRecord' /\ watch'.of = watch.of /\ watch'.at = "polling"
        /\ watch'.cursor = Seed /\ watch'.seen = {} /\ watch'.replaying = again
        /\ watch'.retried = again /\ watch.of \in Loops /\ watch.cursor \in Nat
    BY <1>0, <1>1, <1>2 DEF WatchInv, WatchFits, WatchRecord, EntersLoop
  <1>4. \A d : d \in Matching' <=>
            d \in Documents /\ IF watch.of = "metrics" THEN landed[d] >= Seed ELSE landed[d] > Seed
    BY <1>0, <1>1, <1>3 DEF Matching
  <1>5. WatchFits'
    <2>1. missed' \subseteq Documents /\ missed' \cap ToSet(shown) = {}
      BY <1>0, <1>1
    <2> HIDE DEF new
    <2> QED
      BY <1>0, <1>1, <1>3, <2>1 DEF WatchInv, WatchFits
  <1>6. BehindIsKnown'
    BY <1>0, <1>1, <1>3 DEF BehindIsKnown
  <1>7. \A d \in new : landed[d] <= Seed /\ (watch.of = "metrics" => landed[d] < Seed)
    BY <1>1, <1>2, <1>4
  <1>8. ToSet(shown) \subseteq Documents /\ ToSet(shown') = ToSet(shown)
    BY <1>0, <1>1, Elements DEF Listing
  <1>9. watch.at = "starting" => ToSet(shown) = {} /\ missed = {}
    <2>1. shown = <<>> => ToSet(shown) = {}
      BY DEF ToSet
    <2> QED
      BY <2>1 DEF WatchInv, WatchFits
  <1> HIDE DEF new
  <1>10. CursorFits'
    <2> SUFFICES ASSUME watch.of = "metrics"
                 PROVE CursorFits'
      BY <1>3 DEF CursorFits
    <2>1. CASE ~again
      <3>1. \A d \in ToSet(shown') \cup missed' : landed'[d] < watch'.cursor
        BY <1>0, <1>3, <1>7, <1>8, <1>9, <2>1
      <3>2. watch'.cursor <= Seed'
        BY <1>2, <1>3
      <3> QED
        BY <1>3, <2>1, <3>1, <3>2 DEF CursorFits
    <2>2. CASE again
      <3>1. /\ watch.cursor <= Seed \/ \E e \in ToSet(shown) : watch.cursor <= landed[e]
            /\ \A d \in missed : landed[d] < watch.cursor
        BY <2>2 DEF WatchInv, CursorFits
      <3>2. \A d \in missed : landed[d] < Seed \/ \E e \in ToSet(shown) : landed[d] <= landed[e]
        BY <1>1, <1>2, <1>3, <1>8, <3>1
      <3>3. \A d \in missed' : \/ landed'[d] < watch'.cursor
                               \/ \E e \in ToSet(shown') : landed'[d] <= landed'[e]
        BY <1>0, <1>3, <1>7, <1>8, <3>2
      <3>4. watch'.seen = {} /\ watch'.retried = TRUE /\ watch'.replaying = TRUE
        BY <1>3, <2>2
      <3>5. \A d \in watch'.seen : landed'[d] = watch'.cursor
        BY <3>4
      <3> QED
        BY <3>3, <3>4, <3>5, Zenon DEF CursorFits
    <2> QED
      BY <2>1, <2>2
  <1>11. EventsFit'
    <2> SUFFICES ASSUME watch.of = "events"
                 PROVE  EventsFit'
      BY <1>3 DEF EventsFit
    <2>1. ~again
      OBVIOUS
    <2> QED
      BY <1>0, <1>3, <1>7, <1>8, <1>9, <2>1 DEF EventsFit
  <1> QED
    BY <1>5, <1>6, <1>10, <1>11 DEF WatchInv

\* A document lands.
LEMMA WatchLands == WatchInv /\ LandsDocument => WatchInv'
  <1> SUFFICES ASSUME WatchInv, LandsDocument PROVE WatchInv'
    OBVIOUS
  <1> DEFINE z == Len(landed) + 1
  <1>1. /\ landed \in Seq(Nat) /\ landed \in Seq(Nat \ {0})
        /\ Documents = 1..Len(landed) /\ Len(landed) \in Nat
        /\ \A d \in Documents : landed[d] \in Nat
        /\ missed \subseteq Documents /\ missed \cap ToSet(shown) = {} /\ Listing(shown)
        /\ instant \in Nat \ {0} /\ watch \in WatchRecord
    BY TimesAreNumbers DEF WatchInv, WatchFits
  <1>2. PICK time \in {instant - 1, instant} \ {0} :
           /\ landed' = Append(landed, time)
           /\ missed' = IF watch.at = "polling" /\ Len(landed) + 1 \notin Matching'
                        THEN missed \cup {Len(landed) + 1} ELSE missed
    BY DEF LandsDocument
  <1>3. time \in Nat \ {0}
    BY <1>1
  <1>4. /\ landed' \in Seq(Nat \ {0}) /\ Documents' = Documents \cup {z} /\ z \notin Documents
        /\ \A d \in Documents : landed'[d] = landed[d]
        /\ landed'[z] = time
    <2>1. /\ Append(landed, time) \in Seq(Nat \ {0}) /\ Len(Append(landed, time)) = z
          /\ \A d \in 1..Len(landed) : Append(landed, time)[d] = landed[d]
          /\ Append(landed, time)[z] = time
      BY <1>1, <1>3, AppendProperties
    <2>2. Documents' = 1..z
      BY <1>2, <2>1, LenProperties DEF Documents
    <2>3. 1..z = 1..Len(landed) \cup {z} /\ z \notin 1..Len(landed)
      BY <1>1
    <2> QED
      BY <1>1, <1>2, <2>1, <2>2, <2>3
  <1>5. instant' = instant /\ watch' = watch /\ shown' = shown /\ Seed' = Seed
    BY DEF LandsDocument, Seed
  <1>6. ToSet(shown) \subseteq Documents /\ ToSet(shown') = ToSet(shown)
    BY <1>1, <1>5, Elements DEF Listing
  <1>7. missed' \subseteq missed \cup {z} /\ missed \subseteq missed'
    BY <1>2
  <1>8. z \in missed' => watch.at = "polling" /\ z \notin Matching'
    BY <1>1, <1>2, <1>4
  <1> HIDE DEF z
  <1>9. Listing(shown)'
    <2>1. shown \in Seq(Documents')
      BY <1>1, <1>4, SeqMonotonic DEF Listing
    <2>2. \A i \in DOMAIN shown : shown[i] \in Documents
      BY <1>1, Elements, ElementOfSeq DEF Listing
    <2> QED
      BY <1>1, <1>4, <1>5, <2>1, <2>2 DEF Listing, InTime
  <1>10. WatchFits'
    <2>1. watch \in WatchRecord'
      BY <1>1, <1>4 DEF WatchRecord
    <2>2. missed' \subseteq Documents' /\ missed' \cap ToSet(shown') = {}
      BY <1>1, <1>4, <1>6, <1>7
    <2>3. watch.at = "starting" => missed' = {}
      BY <1>7, <1>8 DEF WatchInv, WatchFits
    <2> QED
      BY <1>1, <1>4, <1>5, <1>9, <2>1, <2>2, <2>3 DEF WatchInv, WatchFits
  <1>11. /\ watch.seen \subseteq Documents /\ watch.cursor \in Nat
    BY <1>1 DEF WatchRecord
  <1>12. \A d \in Documents : d \in Matching' <=> d \in Matching
    BY <1>4, <1>5 DEF Matching
  <1>13. BehindIsKnown'
    <2> SUFFICES ASSUME watch.at = "polling", NEW d \in Documents \cup {z},
                        d \notin Matching' \/ d \in watch.seen
                 PROVE  d \in ToSet(shown) \/ d \in missed'
      BY <1>4, <1>5 DEF BehindIsKnown
    <2>1. CASE d = z
      BY <1>2, <1>4, <1>11, <2>1 DEF z
    <2>2. CASE d \in Documents
      BY <1>7, <1>12, <2>2 DEF WatchInv, BehindIsKnown
    <2> QED
      BY <2>1, <2>2
  <1>14. z \in missed' => /\ watch.of = "metrics" => landed'[z] < watch.cursor
                          /\ landed'[z] <= watch.cursor
    <2>1. z \notin Matching' => ~(IF watch.of = "metrics" THEN landed'[z] >= watch.cursor
                                                          ELSE landed'[z] > watch.cursor)
      BY <1>4, <1>5 DEF Matching
    <2> QED
      BY <1>3, <1>4, <1>8, <1>11, <2>1
  <1>15. CursorFits'
    <2> SUFFICES ASSUME watch.of = "metrics", watch.at = "polling"
                 PROVE CursorFits'
      BY <1>5 DEF CursorFits
    <2>1. \A d \in watch.seen : landed'[d] = watch.cursor
      BY <1>4, <1>11 DEF WatchInv, CursorFits
    <2>2. ~watch.retried =>
              /\ watch.cursor <= Seed \/ \E e \in ToSet(shown) : watch.cursor <= landed'[e]
              /\ \A d \in missed' : landed'[d] < watch.cursor
      BY <1>1, <1>4, <1>6, <1>7, <1>14 DEF WatchInv, CursorFits
    <2>3. ~watch.replaying =>
              \A d \in ToSet(shown) \cup missed' :
                 landed'[d] < watch.cursor \/ (landed'[d] = watch.cursor /\ d \in watch.seen)
      <3>1. ~watch.replaying =>
              \A d \in ToSet(shown) \cup missed :
                 landed[d] < watch.cursor \/ (landed[d] = watch.cursor /\ d \in watch.seen)
        BY DEF WatchInv, CursorFits
      <3>2. ToSet(shown) \cup missed \subseteq Documents
            /\ ToSet(shown) \cup missed' \subseteq (ToSet(shown) \cup missed) \cup (missed' \cap {z})
        BY <1>1, <1>6, <1>7
      <3>3. \A d \in ToSet(shown) \cup missed : landed'[d] = landed[d]
        BY <1>4, <3>2
      <3>4. \A d \in ToSet(shown) \cup missed' :
               d \in ToSet(shown) \cup missed \/ (d = z /\ z \in missed')
        BY <3>2
      <3> HIDE <3>2
      <3>5. z \in missed' => landed'[z] < watch.cursor
        BY <1>14
      <3> QED
        BY <3>1, <3>3, <3>4, <3>5
    <2>4. watch.replaying =>
              \A d \in missed' : \/ landed'[d] < watch.cursor \/ d \in watch.seen
                                 \/ \E e \in ToSet(shown) : landed'[d] <= landed'[e]
      BY <1>1, <1>4, <1>6, <1>7, <1>14 DEF WatchInv, CursorFits
    <2> QED
      BY <1>5, <2>1, <2>2, <2>3, <2>4 DEF CursorFits
  <1>16. EventsFit'
    BY <1>1, <1>4, <1>5, <1>6, <1>7, <1>14 DEF WatchInv, EventsFit
  <1> QED
    BY <1>10, <1>13, <1>15, <1>16 DEF WatchInv

\* What a poll of cf-metrics takes from the log: the page is between the old cursor and the
\* new one, all that is before the new one is in it, and what is at the new one is seen.
LEMMA CursorAdvances ==
  ASSUME WatchInv, watch.of = "metrics", watch.at = "polling",
         NEW S \in OldestPages, NEW page \in Chronological(S),
         NEW to, to = AdvanceCursor(page, watch.seen \cup ToSet(page))
  PROVE  /\ to.cursor \in Nat /\ to.seen \subseteq Documents /\ watch.cursor <= to.cursor
         /\ S \subseteq Documents /\ Listing(page) /\ ToSet(page) = S
         /\ \A d \in S : /\ watch.cursor <= landed[d] /\ landed[d] <= to.cursor
                         /\ landed[d] = to.cursor => d \in to.seen
         /\ \A d \in watch.seen : landed[d] < to.cursor \/ d \in to.seen
         /\ \A d \in to.seen : landed[d] = to.cursor /\ (d \in watch.seen \/ d \in S)
         /\ \A d \in Documents : watch.cursor <= landed[d] /\ landed[d] < to.cursor => d \in S
         /\ to.cursor = watch.cursor
               \/ \E d \in S : landed[d] = to.cursor /\ watch.cursor < to.cursor
  <1>1. /\ landed \in Seq(Nat) /\ \A d \in Documents : landed[d] \in Nat
        /\ watch.cursor \in Nat /\ watch.seen \subseteq Documents
        /\ \A d \in watch.seen : landed[d] = watch.cursor
    BY TimesAreNumbers DEF WatchInv, WatchFits, WatchRecord, CursorFits
  <1>2. \A d : d \in Matching <=> d \in Documents /\ landed[d] >= watch.cursor
    BY DEF Matching
  <1>3. S \subseteq Matching /\ \A d \in S, e \in Matching \ S : landed[d] <= landed[e]
    <2>1. S \in PageSets /\ \A d \in S, e \in Matching \ S : landed[d] <= landed[e]
      BY DEF OldestPages
    <2>2. S \subseteq Matching
      BY <2>1 DEF PageSets, kSubset
    <2> QED
      BY <2>1, <2>2
  <1>4. S \in SUBSET Documents
    BY <1>2, <1>3
  <1>5. /\ Listing(page) /\ ToSet(page) = S
        /\ page = <<>> => S = {}
        /\ page # <<>> => Last(page) \in S /\ \A d \in S : landed[d] <= landed[Last(page)]
    BY <1>1, <1>4, PageFits
  <1>6. \A d \in S : landed[d] \in Nat /\ watch.cursor <= landed[d]
    BY <1>1, <1>2, <1>3
  <1>7. CASE page = <<>>
    <2>1. to.cursor = watch.cursor /\ to.seen = watch.seen /\ S = {}
      BY <1>5, <1>7 DEF AdvanceCursor
    <2> QED
      BY <1>1, <1>4, <1>5, <2>1
  <1>8. CASE page # <<>> /\ landed[Last(page)] = watch.cursor
    <2>1. to.cursor = watch.cursor /\ to.seen = watch.seen \cup S
      BY <1>5, <1>8 DEF AdvanceCursor
    <2>2. \A d \in S : landed[d] = watch.cursor
      BY <1>1, <1>5, <1>6, <1>8
    <2>3. \A d \in Documents : ~(watch.cursor <= landed[d] /\ landed[d] < to.cursor)
      BY <1>1, <2>1
    <2>4. to.seen \subseteq Documents /\ \A d \in S : landed[d] = to.cursor /\ d \in to.seen
      BY <1>1, <1>4, <2>1, <2>2
    <2>5. to.cursor \in Nat /\ watch.cursor <= to.cursor /\ \A d \in S : landed[d] <= to.cursor
      <3>1. \A n \in Nat : n <= n
        OBVIOUS
      <3>2. to.cursor \in Nat /\ to.cursor = watch.cursor /\ to.cursor <= to.cursor
        BY <1>1, <2>1, <3>1
      <3> QED
        BY <2>4, <3>2
    <2> QED
      BY <1>1, <1>4, <1>5, <1>6, <2>1, <2>3, <2>4, <2>5
  <1>9. CASE page # <<>> /\ landed[Last(page)] # watch.cursor
    <2> DEFINE l == Last(page)
    <2>1. /\ to.cursor = landed[l] /\ to.seen = {d \in S : landed[d] = landed[l]}
          /\ l \in S /\ \A d \in S : landed[d] <= landed[l]
      BY <1>5, <1>9 DEF AdvanceCursor
    <2>2. landed[l] \in Nat /\ watch.cursor < landed[l]
      BY <1>1, <1>6, <1>9, <2>1
    <2>3. \A d \in Documents : watch.cursor <= landed[d] /\ landed[d] < landed[l] => d \in S
      BY <1>1, <1>2, <1>3, <2>1, <2>2
    <2> HIDE DEF l
    <2>4. to.seen \subseteq Documents /\ \A d \in to.seen : landed[d] = to.cursor /\ d \in S
      BY <1>4, <2>1
    <2>5. \A d \in S : /\ watch.cursor <= landed[d] /\ landed[d] <= to.cursor
                       /\ landed[d] = to.cursor => d \in to.seen
      BY <1>6, <2>1
    <2>6. \A d \in watch.seen : landed[d] < to.cursor
      BY <1>1, <2>1, <2>2
    <2> QED
      BY <1>1, <1>4, <1>5, <2>1, <2>2, <2>3, <2>4, <2>5, <2>6
  <1> QED
    BY <1>7, <1>8, <1>9

\* A poll of cf-metrics.
LEMMA MetricsArePolled == WatchInv /\ PollsMetrics => WatchInv'
  <1> SUFFICES ASSUME WatchInv, PollsMetrics PROVE WatchInv'
    OBVIOUS
  <1>1. /\ watch.of = "metrics" /\ watch.at = "polling" /\ landed' = landed /\ instant' = instant
    BY DEF PollsMetrics
  <1>2. PICK S \in OldestPages : \E page \in Chronological(S) :
          LET fresh == Filtered(page, watch.seen)
              advanced == AdvanceCursor(page, watch.seen \cup ToSet(page))
          IN /\ shown' = shown \o Printed(fresh)
             /\ watch' = [watch EXCEPT !.cursor = advanced.cursor, !.seen = advanced.seen,
                                       !.replaying = @ /\ Printed(fresh) = <<>>]
             /\ missed' = missed \cup (ToSet(fresh) \ ToSet(shown'))
    BY DEF PollsMetrics
  <1>3. PICK page \in Chronological(S) :
          LET fresh == Filtered(page, watch.seen)
              advanced == AdvanceCursor(page, watch.seen \cup ToSet(page))
          IN /\ shown' = shown \o Printed(fresh)
             /\ watch' = [watch EXCEPT !.cursor = advanced.cursor, !.seen = advanced.seen,
                                       !.replaying = @ /\ Printed(fresh) = <<>>]
             /\ missed' = missed \cup (ToSet(fresh) \ ToSet(shown'))
    BY <1>2
  <1> DEFINE fresh == Filtered(page, watch.seen)
             to == AdvanceCursor(page, watch.seen \cup ToSet(page))
             p == Printed(fresh)
  <1>4. /\ shown' = shown \o p
        /\ watch' = [watch EXCEPT !.cursor = to.cursor, !.seen = to.seen,
                                  !.replaying = @ /\ p = <<>>]
        /\ missed' = missed \cup (ToSet(fresh) \ ToSet(shown'))
    BY <1>3
  <1>5. /\ to.cursor \in Nat /\ to.seen \subseteq Documents /\ watch.cursor <= to.cursor
        /\ S \subseteq Documents /\ Listing(page) /\ ToSet(page) = S
        /\ \A d \in S : /\ watch.cursor <= landed[d] /\ landed[d] <= to.cursor
                        /\ landed[d] = to.cursor => d \in to.seen
        /\ \A d \in watch.seen : landed[d] < to.cursor \/ d \in to.seen
        /\ \A d \in to.seen : landed[d] = to.cursor /\ (d \in watch.seen \/ d \in S)
        /\ \A d \in Documents : watch.cursor <= landed[d] /\ landed[d] < to.cursor => d \in S
        /\ to.cursor = watch.cursor
               \/ \E d \in S : landed[d] = to.cursor /\ watch.cursor < to.cursor
    BY <1>1, CursorAdvances
  <1> HIDE DEF to
  <1>6. Listing(fresh) /\ \A d : d \in ToSet(fresh) <=> d \in S /\ d \notin watch.seen
    BY <1>5, FilteredListing
  <1> HIDE DEF fresh
  <1>7. Listing(p) /\ \A d : d \in ToSet(p) <=> /\ d \in S /\ d \notin watch.seen
                                                /\ ~(watch.replaying /\ landed[d] <= LastPrinted)
    <2> DEFINE gone == {d \in Documents : watch.replaying /\ landed[d] <= LastPrinted}
    <2>1. p = Filtered(fresh, gone)
      BY DEF Printed
    <2>2. Listing(p) /\ \A d : d \in ToSet(p) <=> d \in ToSet(fresh) /\ d \notin gone
      <3> HIDE DEF gone, p
      <3> QED
        BY <1>6, <2>1, FilteredListing
    <2>3. \A d \in Documents : d \in gone <=> watch.replaying /\ landed[d] <= LastPrinted
      OBVIOUS
    <2> HIDE DEF gone, p
    <2> QED
      BY <1>5, <1>6, <2>2, <2>3
  <1> HIDE DEF p
  <1>8. /\ landed \in Seq(Nat) /\ \A d \in Documents : landed[d] \in Nat /\ landed[d] > 0
        /\ watch.cursor \in Nat /\ watch.seen \subseteq Documents
        /\ Listing(shown) /\ ToSet(shown) \subseteq Documents
        /\ missed \subseteq Documents /\ \A d \in missed : d \notin ToSet(shown)
    BY TimesAreNumbers, Elements DEF WatchInv, WatchFits, WatchRecord, Listing
  <1>9. /\ \A d \in watch.seen : landed[d] = watch.cursor
        /\ ~watch.replaying =>
              \A d \in ToSet(shown) \cup missed :
                 landed[d] < watch.cursor \/ (landed[d] = watch.cursor /\ d \in watch.seen)
        /\ watch.replaying =>
              \A d \in missed : \/ landed[d] < watch.cursor \/ d \in watch.seen
                                \/ \E e \in ToSet(shown) : landed[d] <= landed[e]
    BY <1>1 DEF WatchInv, CursorFits
  <1>10. /\ LastPrinted \in Nat
         /\ \A d \in ToSet(shown) : landed[d] <= LastPrinted
         /\ LastPrinted = 0 \/ \E d \in ToSet(shown) : landed[d] = LastPrinted
    BY <1>8, LastPrintedFits
  \* What is printed is neither shown nor missed before, nor earlier than what is shown.
  <1>11. \A d \in ToSet(p) : /\ d \in S /\ d \in Documents /\ d \notin ToSet(shown) /\ d \notin missed
                             /\ \A e \in ToSet(shown) : landed[e] <= landed[d]
    <2> SUFFICES ASSUME NEW d \in ToSet(p)
                 PROVE  /\ d \in S /\ d \in Documents /\ d \notin ToSet(shown) /\ d \notin missed
                        /\ \A e \in ToSet(shown) : landed[e] <= landed[d]
      OBVIOUS
    <2>1. /\ d \in S /\ d \in Documents /\ landed[d] \in Nat /\ watch.cursor <= landed[d]
          /\ d \notin watch.seen /\ ~(watch.replaying /\ landed[d] <= LastPrinted)
      BY <1>5, <1>7, <1>8
    <2>2. CASE ~watch.replaying
      <3>1. \A e \in ToSet(shown) \cup missed : landed[e] < watch.cursor
               \/ (landed[e] = watch.cursor /\ e \in watch.seen)
        BY <1>9, <2>2
      <3>2. d \notin ToSet(shown) \cup missed
        BY <1>8, <2>1, <3>1
      <3> QED
        BY <1>8, <2>1, <3>1, <3>2
    <2>3. CASE watch.replaying
      <3>1. landed[d] > LastPrinted
        BY <1>10, <2>1, <2>3
      <3>2. \A e \in ToSet(shown) : landed[e] \in Nat /\ landed[e] <= LastPrinted
        BY <1>8, <1>10
      <3>3. \A e \in missed : \/ landed[e] < watch.cursor \/ e \in watch.seen
                              \/ \E g \in ToSet(shown) : landed[e] <= landed[g]
        BY <1>9, <2>3
      <3>4. d \notin ToSet(shown)
        BY <1>10, <2>1, <3>1, <3>2
      <3>5. d \notin missed
        BY <1>8, <1>10, <2>1, <3>1, <3>2, <3>3
      <3> QED
        BY <1>10, <2>1, <3>1, <3>2, <3>4, <3>5
    <2> QED
      BY <2>2, <2>3
  <1>12. Listing(shown \o p)
         /\ \A d : d \in ToSet(shown \o p) <=> d \in ToSet(shown) \/ d \in ToSet(p)
    BY <1>7, <1>8, <1>11, Joined
  <1>13. Listing(shown') /\ \A d : d \in ToSet(shown') <=> d \in ToSet(shown) \/ d \in ToSet(p)
    BY <1>4, <1>12
  <1>14. \A d : d \in missed' <=> d \in missed \/ (d \in S /\ d \notin watch.seen /\ d \notin ToSet(shown'))
    BY <1>4, <1>6
  <1>15. Documents' = Documents /\ Listing(shown)'
    BY <1>1, <1>13 DEF Listing, InTime, Documents
  <1>16. /\ watch' \in WatchRecord /\ watch'.of = "metrics" /\ watch'.at = "polling"
         /\ watch'.cursor = to.cursor /\ watch'.seen = to.seen /\ watch'.retried = watch.retried
         /\ watch'.replaying = (watch.replaying /\ p = <<>>)
    BY <1>1, <1>4, <1>5 DEF WatchInv, WatchFits, WatchRecord
  <1>17. WatchFits'
    <2>1. missed' \subseteq Documents /\ missed' \cap ToSet(shown') = {}
      BY <1>5, <1>8, <1>11, <1>13, <1>14
    <2>2. watch'.replaying => watch'.retried
      BY <1>16 DEF WatchInv, WatchFits
    <2>3. watch' \in WatchRecord'
      BY <1>15, <1>16 DEF WatchRecord
    <2> QED
      BY <1>1, <1>15, <1>16, <2>1, <2>2, <2>3 DEF WatchInv, WatchFits
  \* All of the page is shown or missed by now.
  <1>18. \A d \in Documents : d \in S \/ d \in watch.seen \/ landed[d] < watch.cursor
                                => d \in ToSet(shown') \/ d \in missed'
    <2> SUFFICES ASSUME NEW d \in Documents, d \in S \/ d \in watch.seen \/ landed[d] < watch.cursor
                 PROVE  d \in ToSet(shown') \/ d \in missed'
      OBVIOUS
    <2>1. CASE d \in S /\ d \notin watch.seen
      BY <1>14, <2>1
    <2>2. CASE d \in watch.seen \/ landed[d] < watch.cursor
      <3>1. d \notin Matching \/ d \in watch.seen
        BY <1>1, <1>8, <2>2 DEF Matching
      <3>2. d \in ToSet(shown) \/ d \in missed
        BY <1>1, <3>1 DEF WatchInv, BehindIsKnown
      <3> QED
        BY <1>13, <1>14, <3>2
    <2> QED
      BY <2>1, <2>2
  <1>19. BehindIsKnown'
    <2> SUFFICES ASSUME NEW d \in Documents, d \notin Matching' \/ d \in to.seen
                 PROVE  d \in ToSet(shown') \/ d \in missed'
      BY <1>15, <1>16 DEF BehindIsKnown
    <2>1. d \notin Matching' => landed[d] < to.cursor
      BY <1>1, <1>5, <1>8, <1>15, <1>16 DEF Matching
    <2>2. d \in S \/ d \in watch.seen \/ landed[d] < watch.cursor
      BY <1>5, <1>8, <2>1
    <2> QED
      BY <1>18, <2>2
  \* The new cursor is at or behind nothing that was not there to be seen.
  <1>20. \A d \in ToSet(p) \cup S : d \in Documents
            /\ (landed[d] < to.cursor \/ (landed[d] = to.cursor /\ d \in to.seen))
    BY <1>5, <1>8, <1>11
  <1>21. \A d \in Documents : landed[d] < watch.cursor \/ d \in watch.seen
            => landed[d] < to.cursor \/ (landed[d] = to.cursor /\ d \in to.seen)
    BY <1>5, <1>8
  <1>22. CursorFits'
    <2>1. \A d \in to.seen : landed[d] = to.cursor
      BY <1>5
    <2>2. ASSUME ~watch.retried
          PROVE  /\ \/ to.cursor <= Seed
                    \/ \E e \in ToSet(shown') : to.cursor <= landed[e]
                 /\ \A d \in missed' : landed[d] < to.cursor
      <3>1. ~watch.replaying /\ watch.replaying \in BOOLEAN
        BY <2>2 DEF WatchInv, WatchFits, WatchRecord
      <3>2. /\ watch.cursor <= Seed \/ \E e \in ToSet(shown) : watch.cursor <= landed[e]
            /\ \A d \in missed : landed[d] < watch.cursor
        BY <1>1, <2>2 DEF WatchInv, CursorFits
      <3>3. \A d : d \in ToSet(p) <=> d \in S /\ d \notin watch.seen
        BY <1>7, <3>1
      <3>4. \A d \in missed' : d \in missed
        BY <1>13, <1>14, <3>3
      <3>5. \A d \in missed' : landed[d] < to.cursor
        BY <1>5, <1>8, <3>2, <3>4
      <3>6. CASE to.cursor = watch.cursor
        BY <1>13, <3>2, <3>5, <3>6
      <3>7. CASE \E d \in S : landed[d] = to.cursor /\ watch.cursor < to.cursor
        <4>1. PICK d \in S : landed[d] = to.cursor /\ watch.cursor < to.cursor
          BY <3>7
        <4>2. d \notin watch.seen
          BY <1>5, <1>8, <1>9, <4>1
        <4>3. d \in ToSet(shown') /\ to.cursor <= landed[d]
          BY <1>5, <1>13, <3>3, <4>1, <4>2
        <4> QED
          BY <3>5, <4>3
      <3> QED
        BY <1>5, <3>6, <3>7
    <2>3. ASSUME ~(watch.replaying /\ p = <<>>)
          PROVE  \A d \in ToSet(shown') \cup missed' :
                    landed[d] < to.cursor \/ (landed[d] = to.cursor /\ d \in to.seen)
      <3>1. \A d \in ToSet(shown) \cup missed :
                    landed[d] < to.cursor \/ (landed[d] = to.cursor /\ d \in to.seen)
        <4>1. CASE ~watch.replaying
          BY <1>8, <1>9, <1>21, <4>1
        <4>2. CASE watch.replaying
          <5>1. PICK g \in ToSet(p) : TRUE
            <6>1. p # <<>> /\ p \in Seq(Documents)
              BY <1>7, <2>3, <4>2 DEF Listing
            <6>2. Len(p) \in 1..Len(p)
              BY <6>1, EmptySeq
            <6> QED
              BY <6>1, <6>2, Elements
          <5>2. g \in S /\ g \in Documents /\ landed[g] > LastPrinted /\ landed[g] <= to.cursor
            BY <1>5, <1>7, <1>8, <1>10, <4>2
          <5>3. \A d \in ToSet(shown) : landed[d] < to.cursor
            BY <1>5, <1>8, <1>10, <5>2
          <5>4. \A d \in missed : \/ landed[d] < watch.cursor \/ d \in watch.seen
                                  \/ landed[d] < to.cursor
            BY <1>5, <1>8, <1>9, <4>2, <5>3
          <5> QED
            BY <1>8, <1>21, <5>3, <5>4
        <4> QED
          BY <4>1, <4>2
      <3>2. \A d \in ToSet(shown') \cup missed' :
               d \in ToSet(shown) \cup missed \/ d \in ToSet(p) \cup S
        BY <1>13, <1>14
      <3> QED
        BY <1>20, <3>1, <3>2
    <2>4. ASSUME watch.replaying, p = <<>>
          PROVE  \A d \in missed' : \/ landed[d] < to.cursor \/ d \in to.seen
                                    \/ \E e \in ToSet(shown') : landed[d] <= landed[e]
      <3>1. \A d \in missed : \/ landed[d] < watch.cursor \/ d \in watch.seen
                              \/ \E e \in ToSet(shown') : landed[d] <= landed[e]
        BY <1>9, <1>13, <2>4
      <3> QED
        BY <1>8, <1>14, <1>20, <1>21, <3>1
    <2>5. Seed' = Seed
      BY <1>1 DEF Seed
    <2> QED
      BY <1>1, <1>16, <2>1, <2>2, <2>3, <2>4, <2>5 DEF CursorFits
  <1>23. EventsFit'
    BY <1>16 DEF EventsFit
  <1> QED
    BY <1>17, <1>19, <1>22, <1>23 DEF WatchInv

\* A poll of cf-events.
LEMMA EventsArePolled == WatchInv /\ PollsEvents => WatchInv'
  <1> SUFFICES ASSUME WatchInv, PollsEvents PROVE WatchInv'
    OBVIOUS
  <1>1. /\ watch.of = "events" /\ watch.at = "polling" /\ landed' = landed /\ instant' = instant
    BY DEF PollsEvents
  <1>2. PICK S \in NewestPages : \E page \in Chronological(S) :
          /\ shown' = shown \o Filtered(page, watch.seen)
          /\ watch' = [watch EXCEPT !.seen = @ \cup S,
                                    !.cursor = IF S = {} THEN @ ELSE landed[Last(page)]]
          /\ missed' = missed \cup (Matching \ S)
    BY DEF PollsEvents
  <1>3. PICK page \in Chronological(S) :
          /\ shown' = shown \o Filtered(page, watch.seen)
          /\ watch' = [watch EXCEPT !.seen = @ \cup S,
                                    !.cursor = IF S = {} THEN @ ELSE landed[Last(page)]]
          /\ missed' = missed \cup (Matching \ S)
    BY <1>2
  <1> DEFINE fresh == Filtered(page, watch.seen)
             c == IF S = {} THEN watch.cursor ELSE landed[Last(page)]
  <1>4. /\ landed \in Seq(Nat) /\ \A d \in Documents : landed[d] \in Nat /\ landed[d] > 0
        /\ Documents = 1..Len(landed) /\ Len(landed) \in Nat
        /\ watch.cursor \in Nat /\ watch.seen \subseteq Documents
        /\ Listing(shown) /\ ToSet(shown) \subseteq Documents
        /\ missed \subseteq Documents /\ \A d \in missed : d \notin ToSet(shown)
    BY TimesAreNumbers, Elements DEF WatchInv, WatchFits, WatchRecord, Listing
  <1>5. \A d \in ToSet(shown) \cup missed : landed[d] <= watch.cursor
    BY <1>1 DEF WatchInv, EventsFit
  <1>6. \A d : d \in Matching <=> d \in Documents /\ landed[d] > watch.cursor
    BY <1>1 DEF Matching
  <1>7. /\ S \subseteq Matching /\ \A d \in S, e \in Matching \ S : landed[d] >= landed[e]
        /\ S = {} => Matching = {}
    <2>1. S \in PageSets /\ \A d \in S, e \in Matching \ S : landed[d] >= landed[e]
      BY DEF NewestPages
    <2>2. S = Matching \/ (S \subseteq Matching /\ Cardinality(S) = FetchLimit)
      BY <2>1 DEF PageSets, kSubset
    <2>3. S = {} => Cardinality(S) = 0
      BY FS_EmptySet
    <2> QED
      BY <2>1, <2>2, <2>3, WatchAssumption
  <1>8. S \in SUBSET Documents
    BY <1>6, <1>7
  <1>9. /\ Listing(page) /\ ToSet(page) = S
        /\ page = <<>> => S = {}
        /\ page # <<>> => Last(page) \in S /\ \A d \in S : landed[d] <= landed[Last(page)]
    BY <1>4, <1>8, PageFits
  \* The cursor moves to the last of the page; all that matched is up to it.
  <1>10. c \in Nat /\ watch.cursor <= c /\ \A d \in Matching : landed[d] <= c
    <2>1. CASE S = {}
      BY <1>4, <1>7, <2>1
    <2>2. CASE S # {}
      <3> DEFINE l == Last(page)
      <3>1. l \in S /\ (\A d \in S : landed[d] <= landed[l]) /\ c = landed[l]
        BY <1>9, <2>2
      <3>2. l \in Documents /\ landed[l] \in Nat /\ landed[l] > watch.cursor
        BY <1>4, <1>6, <1>8, <1>7, <3>1
      <3> HIDE DEF l, c
      <3>3. \A d \in Matching : landed[d] \in Nat /\ landed[d] <= landed[l]
        BY <1>4, <1>6, <1>7, <3>1, <3>2
      <3> QED
        BY <1>4, <3>1, <3>2, <3>3
    <2> QED
      BY <2>1, <2>2
  <1>11. Listing(fresh) /\ \A d : d \in ToSet(fresh) <=> d \in S /\ d \notin watch.seen
    BY <1>9, FilteredListing
  <1>12. /\ shown' = shown \o fresh
         /\ watch' = [watch EXCEPT !.seen = watch.seen \cup S, !.cursor = c]
         /\ missed' = missed \cup (Matching \ S)
    BY <1>3
  <1> HIDE DEF fresh, c
  <1>13. \A d \in ToSet(fresh) : d \notin ToSet(shown) /\ d \notin missed
            /\ \A e \in ToSet(shown) : landed[e] <= landed[d]
    BY <1>4, <1>5, <1>6, <1>7, <1>11
  <1>14. Listing(shown') /\ \A d : d \in ToSet(shown') <=> d \in ToSet(shown) \/ d \in ToSet(fresh)
    <2>1. Listing(shown \o fresh)
          /\ \A d : d \in ToSet(shown \o fresh) <=> d \in ToSet(shown) \/ d \in ToSet(fresh)
      BY <1>4, <1>11, <1>13, Joined
    <2> QED
      BY <1>12, <2>1
  <1>15. Documents' = Documents /\ Listing(shown)'
    BY <1>1, <1>14 DEF Listing, InTime, Documents
  <1>16. /\ watch' \in WatchRecord /\ watch'.of = "events" /\ watch'.at = "polling"
         /\ watch'.cursor = c /\ watch'.seen = watch.seen \cup S
         /\ watch'.replaying = watch.replaying /\ watch'.retried = watch.retried
    BY <1>1, <1>4, <1>8, <1>10, <1>12 DEF WatchInv, WatchFits, WatchRecord
  <1>17. WatchFits'
    <2>1. missed' \subseteq Documents
      BY <1>4, <1>6, <1>12
    <2>2. \A d \in Matching \ S : d \notin ToSet(shown')
      BY <1>4, <1>5, <1>6, <1>11, <1>14
    <2>3. missed' \cap ToSet(shown') = {}
      BY <1>4, <1>12, <1>13, <1>14, <2>2
    <2>4. watch'.replaying => watch'.retried
      BY <1>16 DEF WatchInv, WatchFits
    <2>5. watch' \in WatchRecord'
      BY <1>15, <1>16 DEF WatchRecord
    <2> QED
      BY <1>1, <1>15, <1>16, <2>1, <2>3, <2>4, <2>5 DEF WatchInv, WatchFits
  <1>18. BehindIsKnown'
    <2> SUFFICES ASSUME NEW d \in Documents, d \notin Matching' \/ d \in watch.seen \cup S
                 PROVE  d \in ToSet(shown') \/ d \in missed'
      BY <1>15, <1>16 DEF BehindIsKnown
    <2>1. d \notin Matching \/ d \in watch.seen => d \in ToSet(shown) \/ d \in missed
      BY <1>1 DEF WatchInv, BehindIsKnown
    <2>2. d \notin Matching \/ d \in watch.seen => d \in ToSet(shown') \/ d \in missed'
      BY <1>12, <1>14, <2>1
    <2>3. d \in Matching /\ d \notin watch.seen => d \in ToSet(shown') \/ d \in missed'
      BY <1>11, <1>12, <1>14
    <2> QED
      BY <2>2, <2>3
  <1>19. CursorFits'
    BY <1>16 DEF CursorFits
  <1>20. EventsFit'
    <2>1. \A d \in ToSet(shown') \cup missed' : d \in ToSet(shown) \cup missed \/ d \in Matching
      BY <1>7, <1>11, <1>12, <1>14
    <2>2. \A d \in ToSet(shown) \cup missed : d \in Documents /\ landed[d] <= watch.cursor
      BY <1>4, <1>5
    <2>3. \A d \in ToSet(shown') \cup missed' : landed[d] <= c
      BY <1>4, <1>10, <2>1, <2>2
    <2> QED
      BY <1>1, <1>16, <2>3 DEF EventsFit
  <1> QED
    BY <1>17, <1>18, <1>19, <1>20 DEF WatchInv

LEMMA WatchEnds == WatchInv /\ EndsWatch => WatchInv'
  <1> SUFFICES ASSUME WatchInv, EndsWatch PROVE WatchInv'
    OBVIOUS
  <1>1. /\ watch' \in WatchRecord /\ watch'.at = "ended"
        /\ watch'.replaying = watch.replaying /\ watch'.retried = watch.retried
    BY DEF EndsWatch, WatchInv, WatchFits, WatchRecord
  <1>2. landed' = landed /\ instant' = instant /\ shown' = shown /\ missed' = missed
    BY DEF EndsWatch
  <1>3. WatchFits'
    <2>1. Documents' = Documents /\ Listing(shown)'
      BY <1>2 DEF Listing, InTime, Documents, WatchInv, WatchFits
    <2>2. WatchRecord' = WatchRecord
      BY <2>1 DEF WatchRecord
    <2> QED
      BY <1>1, <1>2, <2>1, <2>2 DEF WatchInv, WatchFits
  <1> QED
    BY <1>1, <1>3 DEF WatchInv, BehindIsKnown, CursorFits, EventsFit

\* Time passes.
LEMMA WatchTicks == WatchInv /\ TicksClock => WatchInv'
  <1> SUFFICES ASSUME WatchInv, TicksClock PROVE WatchInv'
    OBVIOUS
  <1>1. landed' = landed /\ watch' = watch /\ shown' = shown /\ missed' = missed
    BY DEF TicksClock
  <1>2. instant' = instant + 1 /\ instant \in Nat \ {0} /\ instant' \in Nat \ {0}
    BY DEF TicksClock, WatchInv, WatchFits
  <1>3. Seed \in Nat /\ Seed' \in Nat /\ Seed <= Seed' /\ watch.cursor \in Nat
    BY <1>2, WatchAssumption DEF Seed, WatchInv, WatchFits, WatchRecord
  <1>4. Documents' = Documents /\ Listing(shown)' /\ Matching' = Matching
    BY <1>1 DEF Listing, InTime, Documents, Matching, WatchInv, WatchFits
  <1>5. WatchFits'
    <2>1. WatchRecord' = WatchRecord
      BY <1>4 DEF WatchRecord
    <2> QED
      BY <1>1, <1>2, <1>4, <2>1 DEF WatchInv, WatchFits
  <1>6. BehindIsKnown'
    BY <1>1, <1>4 DEF WatchInv, BehindIsKnown
  <1>7. CursorFits'
    <2>1. watch.cursor <= Seed => watch.cursor <= Seed'
      BY <1>3
    <2> QED
      BY <1>1, <2>1 DEF WatchInv, CursorFits
  <1>8. EventsFit'
    BY <1>1 DEF WatchInv, EventsFit
  <1> QED
    BY <1>5, <1>6, <1>7, <1>8 DEF WatchInv

LEMMA WatchStutters == WatchInv /\ UNCHANGED watchvars => WatchInv'
  <1> SUFFICES ASSUME WatchInv, UNCHANGED watchvars PROVE WatchInv'
    OBVIOUS
  <1>1. /\ landed' = landed /\ instant' = instant /\ watch' = watch /\ shown' = shown
        /\ missed' = missed
    BY DEF watchvars
  <1>2. Documents' = Documents /\ Listing(shown)' /\ Matching' = Matching /\ Seed' = Seed
    BY <1>1 DEF Listing, InTime, Documents, Matching, Seed, WatchInv, WatchFits
  <1>3. WatchRecord' = WatchRecord
    BY <1>2 DEF WatchRecord
  <1> QED
    BY <1>1, <1>2, <1>3 DEF WatchInv, WatchFits, BehindIsKnown, CursorFits, EventsFit

LEMMA WatchSteps == WatchInv /\ [WatchNext]_watchvars => WatchInv'
  <1>1. WatchInv /\ StartsWatch => WatchInv'
    BY WatchEnters DEF StartsWatch
  <1>2. WatchInv /\ RetriesWatch => WatchInv'
    BY WatchEnters DEF RetriesWatch
  <1> QED
    BY <1>1, <1>2, MetricsArePolled, EventsArePolled, WatchEnds, WatchLands, WatchTicks,
       WatchStutters DEF WatchNext

\* Both loops show documents in chronological order and each once, also across the replay
\* after a rejected credential, and leave none where no poll brings it any more unless it
\* is one they could not have shown: however many documents of one time land, in whatever
\* order, for any page size and lookback.
THEOREM WatchShowsAllOnceInOrder == WatchSpec => []WatchPassesNothing
  <1>1. WatchInv => WatchPassesNothing
    <2>1. WatchInv => IsInjective(shown) /\ InTime(shown) /\ missed \cap ToSet(shown) = {}
      BY DEF WatchInv, WatchFits, Listing
    <2>2. WatchInv => (watch.at = "polling" =>
                         Documents \ (Matching \ watch.seen) \subseteq ToSet(shown) \cup missed)
      BY DEF WatchInv, BehindIsKnown
    <2> QED
      BY <2>1, <2>2 DEF WatchPassesNothing
  <1> QED
    BY WatchBegins, WatchSteps, <1>1, PTL DEF WatchSpec

\* The log stays within its bounds, and the cursor within the times of the log and the clock.
TimesBounded ==
    /\ landed \in Seq(1..MaxInstant) /\ Len(landed) <= MaxLanded
    /\ instant \in 1..MaxInstant /\ watch.cursor <= MaxInstant

LEMMA TimesStayBounded == WatchInv /\ TimesBounded /\ [WatchNext]_watchvars => TimesBounded'
  <1> SUFFICES ASSUME WatchInv, TimesBounded, [WatchNext]_watchvars PROVE TimesBounded'
    OBVIOUS
  <1>1. /\ landed \in Seq(Nat) /\ watch \in WatchRecord /\ MaxInstant \in Nat /\ MaxLanded \in Nat
        /\ Documents = 1..Len(landed) /\ Len(landed) \in Nat
        /\ \A d \in Documents : landed[d] \in 1..MaxInstant
    BY TimesAreNumbers, WatchAssumption, ElementOfSeq DEF WatchInv, WatchFits, TimesBounded
  <1>2. ASSUME NEW again \in BOOLEAN, EntersLoop(again) PROVE TimesBounded'
    <2>1. watch'.cursor = Seed /\ landed' = landed /\ instant' = instant
      BY <1>1, <1>2 DEF EntersLoop, WatchRecord
    <2> QED
      BY <1>1, <2>1, WatchAssumption DEF TimesBounded, Seed
  <1>3. CASE PollsMetrics
    <2>0. PICK S \in OldestPages : \E page \in Chronological(S) :
            LET advanced == AdvanceCursor(page, watch.seen \cup ToSet(page))
                fresh == Filtered(page, watch.seen)
            IN watch' = [watch EXCEPT !.cursor = advanced.cursor, !.seen = advanced.seen,
                                      !.replaying = @ /\ Printed(fresh) = <<>>]
      BY <1>3 DEF PollsMetrics
    <2>1. PICK page \in Chronological(S) :
            LET advanced == AdvanceCursor(page, watch.seen \cup ToSet(page))
                fresh == Filtered(page, watch.seen)
            IN watch' = [watch EXCEPT !.cursor = advanced.cursor, !.seen = advanced.seen,
                                      !.replaying = @ /\ Printed(fresh) = <<>>]
      BY <2>0
    <2> DEFINE to == AdvanceCursor(page, watch.seen \cup ToSet(page))
    <2>a. watch.of = "metrics" /\ watch.at = "polling"
      BY <1>3 DEF PollsMetrics
    <2>b. \E new, replays : watch' = [watch EXCEPT !.cursor = to.cursor, !.seen = new,
                                                   !.replaying = replays]
      BY <2>1, Zenon
    <2> HIDE DEF to
    <2>2. /\ S \subseteq Documents
          /\ to.cursor = watch.cursor \/ \E d \in S : landed[d] = to.cursor
      BY <2>a, CursorAdvances DEF to
    <2>3. watch'.cursor = to.cursor /\ landed' = landed /\ instant' = instant
      BY <1>1, <1>3, <2>b DEF PollsMetrics, WatchRecord
    <2> QED
      BY <1>1, <2>2, <2>3 DEF TimesBounded
  <1>4. CASE PollsEvents
    <2>0. PICK S \in NewestPages : \E page \in Chronological(S) :
            watch' = [watch EXCEPT !.seen = @ \cup S,
                                   !.cursor = IF S = {} THEN @ ELSE landed[Last(page)]]
      BY <1>4 DEF PollsEvents
    <2>1. PICK page \in Chronological(S) :
            watch' = [watch EXCEPT !.seen = @ \cup S,
                                   !.cursor = IF S = {} THEN @ ELSE landed[Last(page)]]
      BY <2>0
    <2>2. S \in SUBSET Documents
      BY <2>1 DEF NewestPages, PageSets, Matching, kSubset
    <2>3. S # {} => Last(page) \in S
      BY <1>1, <2>2, PageFits
    <2>4. watch'.cursor = IF S = {} THEN watch.cursor ELSE landed[Last(page)]
      BY <1>1, <2>1 DEF WatchRecord
    <2>5. landed' = landed /\ instant' = instant
      BY <1>4 DEF PollsEvents
    <2>6. S # {} => landed[Last(page)] \in 1..MaxInstant
      BY <1>1, <2>2, <2>3
    <2>7. watch'.cursor <= MaxInstant
      BY <1>1, <2>4, <2>6 DEF TimesBounded
    <2> QED
      BY <2>5, <2>7 DEF TimesBounded
  <1>5. CASE EndsWatch
    <2>1. watch'.cursor = watch.cursor /\ landed' = landed /\ instant' = instant
      BY <1>1, <1>5 DEF EndsWatch, WatchRecord
    <2> QED
      BY <2>1 DEF TimesBounded
  <1>6. CASE LandsDocument
    <2>1. PICK time \in {instant - 1, instant} \ {0} : landed' = Append(landed, time)
      BY <1>6 DEF LandsDocument
    <2>2. time \in 1..MaxInstant
      BY <1>1 DEF TimesBounded
    <2>3. landed' \in Seq(1..MaxInstant) /\ Len(landed') = Len(landed) + 1
      BY <2>1, <2>2, AppendProperties DEF TimesBounded
    <2>4. Len(landed) < MaxLanded /\ watch' = watch /\ instant' = instant
      BY <1>6 DEF LandsDocument
    <2> QED
      BY <1>1, <2>3, <2>4 DEF TimesBounded
  <1>7. CASE TicksClock
    BY <1>1, <1>7 DEF TicksClock, TimesBounded
  <1>8. CASE UNCHANGED watchvars
    BY <1>8 DEF watchvars, TimesBounded
  <1> QED
    BY <1>2, <1>3, <1>4, <1>5, <1>6, <1>7, <1>8 DEF WatchNext, StartsWatch, RetriesWatch

\* The log, the clock and both loops keep their types and their bounds.
THEOREM WatchKeepsTypes == WatchSpec => []WatchTypeOK
  <1>1. WatchInit => TimesBounded
    <2> SUFFICES ASSUME WatchInit PROVE TimesBounded
      OBVIOUS
    <2>1. landed = <<>> /\ instant = 1 /\ watch.cursor = 0
      BY DEF WatchInit
    <2>2. landed \in Seq(1..MaxInstant) /\ Len(landed) = 0
      BY <2>1, EmptySeq
    <2> QED
      BY <2>1, <2>2, WatchAssumption DEF TimesBounded
  <1>2. WatchInv /\ TimesBounded => WatchTypeOK
    <2> SUFFICES ASSUME WatchInv, TimesBounded PROVE WatchTypeOK
      OBVIOUS
    <2>1. watch \in WatchRecord /\ missed \subseteq Documents /\ shown \in Seq(Documents)
      BY DEF WatchInv, WatchFits, Listing
    <2>2. Len(landed) \in 0..MaxLanded /\ landed \in [1..Len(landed) -> 1..MaxInstant]
      BY LenProperties, WatchAssumption DEF TimesBounded
    <2>3. landed \in BoundedSeq(1..MaxInstant, MaxLanded)
      BY <2>2 DEF BoundedSeq, SeqOf
    <2>4. watch \in [of : Loops, at : {"starting", "polling", "ended"}, cursor : 0..MaxInstant,
                     seen : SUBSET Documents, replaying : BOOLEAN, retried : BOOLEAN]
      BY <2>1, WatchAssumption DEF TimesBounded, WatchRecord
    <2>5. ToSet(shown) \subseteq Documents
      BY <2>1, Elements
    <2> QED
      BY <2>1, <2>3, <2>4, <2>5 DEF TimesBounded, WatchTypeOK
  <1> QED
    BY WatchBegins, WatchSteps, TimesStayBounded, <1>1, <1>2, PTL DEF WatchSpec

(***************************************************************************)
(* The session of cf-live-trace.                                           *)
(***************************************************************************)
StartPcs == {"idle", "preparing", "tunnel", "connecting", "installing", "installed", "awaiting",
             "unhooking", "unhooked", "closing", "done"}
StopPcs == {"idle", "awaiting", "unhooking", "unhooked", "closing", "done"}
DrainPcs == {"idle", "draining", "drained", "unhooking", "unhooked", "closing"}
TracePcs == StartPcs \cup StopPcs \cup DrainPcs

Connections == Starts \cup {Nobody}
ActorRecord == [at : TracePcs, on : Connections, hook : BOOLEAN, uninstall : BOOLEAN, gone : BOOLEAN]
\* Everyone is where one of his kind can be, and holds what a start has opened.
ActorsFit ==
    /\ act \in [Actors -> ActorRecord]
    /\ \A k \in Starts : act[k].at \in StartPcs
    /\ \A k \in Stops : act[k].at \in StopPcs
    /\ act[Drain].at \in DrainPcs
    /\ handle \in [tunnel : Connections, client : Connections]
    /\ open \in [tunnels : SUBSET Starts, clients : SUBSET Starts]

Unstoppable == {"connecting", "installing", "installed"}
Unhooking == {"awaiting", "unhooking", "unhooked"}
TearDown == Unhooking \cup {"closing"}
Busy(a) == act[a].at \notin Resting

\* The state says who is at work.
StateFits ==
    /\ \A k, l \in Starts : Busy(k) /\ Busy(l) => k = l
    /\ \A k \in Starts : Busy(k) =>
          /\ ~Busy(Drain)
          /\ stopRequested => trace.state \in {"stopping", "stopped"} /\ act[k].at \notin Unstoppable
          /\ ~stopRequested => trace.state = "starting"
    /\ \A j \in Stops : Busy(j) => stopRequested /\ trace.state \in {"stopping", "stopped", "error"}
    /\ Busy(Drain) =>
          /\ \A j \in Stops : Busy(j) => At(j, "awaiting")
          /\ trace.state = "streaming" \/ \E j \in Stops : Busy(j)

\* What is open is what the session holds or somebody is about to close, ...
OpenIsHeld ==
    /\ \A t \in open.tunnels : t = handle.tunnel
    /\ \A c \in open.clients :
          c = handle.client \/ \E a \in Actors : At(a, "closing") /\ act[a].on = c

\* ... and what it holds is in use, or somebody is on his way to release it.
HeldIsUsed ==
    /\ handle.client # Nobody =>
          \/ trace.state = "streaming"
          \/ \E k \in Starts : act[k].at \in {"installing", "installed"}
          \/ \E a \in Actors : act[a].at \in Unhooking
    /\ handle.tunnel # Nobody =>
          \/ trace.state = "streaming"
          \/ \E k \in Starts : act[k].at \in Unstoppable
          \/ \E a \in Actors : act[a].at \in TearDown
    /\ \A a \in Actors :
          /\ act[a].at \in {"preparing", "tunnel", "connecting", "closing"} => handle.client = Nobody
          /\ act[a].at \in {"preparing", "tunnel"} => handle.tunnel = Nobody

PollsFit ==
    polling => trace.state = "streaming" /\ \A a \in Actors : act[a].at \notin TearDown

\* One timer polls, if any.
OneTimer == timers = IF polling THEN 1 ELSE 0

Orderly == StateFits /\ OpenIsHeld /\ HeldIsUsed /\ PollsFit
LiveInv == ActorsFit /\ OneTimer /\ ("late" \notin strays => Orderly)

USE LiveTraceAssumption

\* An actor moves, moves on with a connection, or is set anew.
LEMMA ActorMoves ==
  ASSUME act \in [Actors -> ActorRecord], NEW a \in Actors, NEW pc \in TracePcs,
         act' = [act EXCEPT ![a].at = pc]
  PROVE  /\ act' \in [Actors -> ActorRecord] /\ act'[a].at = pc
         /\ act'[a].on = act[a].on /\ act'[a].hook = act[a].hook
         /\ act'[a].uninstall = act[a].uninstall /\ act'[a].gone = act[a].gone
         /\ \A b \in Actors \ {a} : act'[b] = act[b]
  BY DEF ActorRecord

LEMMA ActorSends ==
  ASSUME act \in [Actors -> ActorRecord], NEW a \in Actors, NEW pc \in TracePcs, NEW c \in Connections,
         act' = [act EXCEPT ![a].at = pc, ![a].on = c]
  PROVE  /\ act' \in [Actors -> ActorRecord] /\ act'[a].at = pc
         /\ act'[a].on = c /\ act'[a].hook = act[a].hook
         /\ act'[a].uninstall = act[a].uninstall /\ act'[a].gone = act[a].gone
         /\ \A b \in Actors \ {a} : act'[b] = act[b]
  BY DEF ActorRecord

LEMMA ActorKnows ==
  ASSUME act \in [Actors -> ActorRecord], NEW a \in Actors, NEW pc \in TracePcs, NEW c \in Connections,
         NEW g \in BOOLEAN, act' = [act EXCEPT ![a].at = pc, ![a].on = c, ![a].gone = g]
  PROVE  /\ act' \in [Actors -> ActorRecord] /\ act'[a].at = pc
         /\ act'[a].on = c /\ act'[a].hook = act[a].hook
         /\ act'[a].uninstall = act[a].uninstall /\ act'[a].gone = g
         /\ \A b \in Actors \ {a} : act'[b] = act[b]
  BY DEF ActorRecord

LEMMA ActorClosesOff ==
  ASSUME act \in [Actors -> ActorRecord], NEW a \in Actors, NEW c \in Connections, NEW g \in BOOLEAN,
         act' = [act EXCEPT ![a].at = "closing", ![a].on = c, ![a].gone = g]
  PROVE  /\ act' \in [Actors -> ActorRecord] /\ act'[a].at = "closing"
         /\ act'[a].on = c /\ act'[a].hook = act[a].hook
         /\ act'[a].uninstall = act[a].uninstall /\ act'[a].gone = g
         /\ \A b \in Actors \ {a} : act'[b] = act[b]
  BY DEF ActorRecord, TracePcs, StopPcs

LEMMA ActorStops ==
  ASSUME act \in [Actors -> ActorRecord], NEW a \in Actors, NEW pc \in TracePcs,
         NEW u \in BOOLEAN, NEW h \in BOOLEAN,
         act' = [act EXCEPT ![a].at = pc, ![a].uninstall = u, ![a].hook = h]
  PROVE  /\ act' \in [Actors -> ActorRecord] /\ act'[a].at = pc
         /\ act'[a].on = act[a].on /\ act'[a].hook = h
         /\ act'[a].uninstall = u /\ act'[a].gone = act[a].gone
         /\ \A b \in Actors \ {a} : act'[b] = act[b]
  BY DEF ActorRecord

LEMMA ActorSet ==
  ASSUME act \in [Actors -> ActorRecord], NEW a \in Actors, NEW pc \in TracePcs,
         act' = [act EXCEPT ![a] = Actor(pc)]
  PROVE  /\ act' \in [Actors -> ActorRecord] /\ act'[a] = Actor(pc) /\ act'[a].at = pc
         /\ act'[a].hook = FALSE /\ act'[a].uninstall = FALSE /\ act'[a].gone = FALSE
         /\ \A b \in Actors \ {a} : act'[b] = act[b]
  <1>1. Actor(pc) \in ActorRecord
    BY DEF Actor, ActorRecord, Connections
  <1>2. /\ Actor(pc).at = pc /\ Actor(pc).hook = FALSE /\ Actor(pc).uninstall = FALSE
        /\ Actor(pc).gone = FALSE
    BY DEF Actor
  <1> QED
    BY <1>1, <1>2

LEMMA LiveBegins == TraceInit => LiveInv
  <1> SUFFICES ASSUME TraceInit PROVE LiveInv
    OBVIOUS
  <1>1. Actor("idle") \in ActorRecord /\ Actor("idle").at = "idle"
    BY DEF Actor, ActorRecord, Connections, TracePcs, StartPcs
  <1>2. act \in [Actors -> ActorRecord] /\ \A a \in Actors : act[a].at = "idle"
    BY <1>1 DEF TraceInit
  <1>3. ActorsFit
    BY <1>2 DEF TraceInit, ActorsFit, Actors, StartPcs, StopPcs, DrainPcs, Connections
  <1>4. StateFits
    BY <1>2 DEF StateFits, Busy, Resting, Actors
  <1>5. OpenIsHeld /\ HeldIsUsed /\ PollsFit /\ OneTimer
    BY <1>2 DEF TraceInit, OpenIsHeld, HeldIsUsed, PollsFit, OneTimer
  <1> QED
    BY <1>3, <1>4, <1>5 DEF LiveInv, Orderly

----------------------------------------------------------------------------
LEMMA StartBegins ==
  ASSUME LiveInv, NEW k \in Starts, StartsTrace(k)
  PROVE  LiveInv'
  <1>0. k \in Actors /\ Drain \in Actors /\ Starts \subseteq Actors /\ Stops \subseteq Actors
    BY DEF Actors
  <1>t. /\ act \in [Actors -> ActorRecord]
        /\ UNCHANGED <<handle, open, timers, polling>> /\ stopRequested' = FALSE
        /\ act[k].at = "idle" /\ trace'.state = "starting" /\ ~IsRunning
    BY DEF LiveInv, ActorsFit, StartsTrace, Posts, At
  <1>1. /\ act' \in [Actors -> ActorRecord] /\ act'[k].at = "preparing"
        /\ \A b \in Actors \ {k} : act'[b] = act[b]
    BY <1>0, <1>t, ActorMoves DEF StartsTrace, TracePcs, StartPcs
  <1>2. ActorsFit' /\ OneTimer'
    BY <1>0, <1>t, <1>1 DEF LiveInv, ActorsFit, OneTimer, StartPcs
  <1>3. ASSUME "late" \notin strays'
        PROVE  Orderly'
    <2>1. Orderly /\ InProgress(Starts \cup Stops) = {}
      BY <1>3 DEF StartsTrace, Strayed, LiveInv
    <2>2. /\ \A a \in Actors : act[a].at \in {"idle", "done"}
          /\ trace.state # "streaming"
      BY <1>t, <2>1 DEF InProgress, Orderly, StateFits, Busy, Resting, IsRunning, Running, Actors
    <2>3. StateFits'
      BY <1>0, <1>t, <1>1, <2>2 DEF StateFits, Busy, Resting
    <2>4. handle.client = Nobody /\ handle.tunnel = Nobody /\ ~polling
      BY <1>0, <2>1, <2>2 DEF Orderly, HeldIsUsed, PollsFit, Unhooking, TearDown, Unstoppable
    <2>5. OpenIsHeld'
      BY <1>0, <1>t, <1>1, <2>1, <2>2 DEF Orderly, OpenIsHeld, At
    <2>6. HeldIsUsed' /\ PollsFit'
      BY <1>t, <2>4 DEF HeldIsUsed, PollsFit
    <2> QED
      BY <2>3, <2>5, <2>6 DEF Orderly
  <1> QED
    BY <1>2, <1>3 DEF LiveInv

\* What a start knows that is on its way, and what it may change.
LEMMA OnItsWay ==
  ASSUME Orderly, NEW k \in Starts, Busy(k)
  PROVE  /\ \A a \in Starts \ {k} : ~Busy(a)
         /\ ~Busy(Drain) /\ ~polling
         /\ ~stopRequested => trace.state = "starting" /\ \A j \in Stops : ~Busy(j)
         /\ stopRequested => trace.state \in {"stopping", "stopped"}
                               /\ act[k].at \notin Unstoppable
  BY DEF Orderly, StateFits, PollsFit

LEMMA StartPrepares ==
  ASSUME LiveInv, NEW k \in Starts, Prepares(k) \/ StopsLateTunnel(k)
  PROVE  LiveInv'
  <1>0. k \in Actors /\ Drain \in Actors /\ Starts \subseteq Actors /\ Stops \subseteq Actors
    BY DEF Actors
  <1>t. /\ act \in [Actors -> ActorRecord]
        /\ UNCHANGED <<handle, open, timers, polling, stopRequested, strays>>
        /\ act[k].at \in {"preparing", "tunnel"}
    BY DEF LiveInv, ActorsFit, Prepares, StopsLateTunnel, At
  <1>1. /\ act' \in [Actors -> ActorRecord]
        /\ \A b \in Actors \ {k} : act'[b] = act[b]
        /\ \/ stopRequested /\ act'[k].at = "done" /\ trace' = trace
           \/ ~stopRequested /\ act'[k].at = "tunnel" /\ trace'.state = "starting"
    <2>1. CASE act' = [act EXCEPT ![k] = Actor("done")] /\ stopRequested /\ trace' = trace
      BY <1>0, <1>t, <2>1, ActorSet DEF TracePcs, StartPcs
    <2>2. CASE act' = [act EXCEPT ![k].at = "tunnel"] /\ Posts("starting", FALSE) /\ ~stopRequested
      BY <1>0, <1>t, <2>2, ActorMoves DEF TracePcs, StartPcs, Posts
    <2> QED
      BY <2>1, <2>2 DEF Prepares, StopsLateTunnel
  <1>2. ActorsFit' /\ OneTimer'
    BY <1>0, <1>t, <1>1 DEF LiveInv, ActorsFit, OneTimer, StartPcs
  <1>3. ASSUME "late" \notin strays'
        PROVE  Orderly'
    <2>1. Orderly
      BY <1>3, <1>t DEF LiveInv
    <2>2. Busy(k)
      BY <1>t DEF Busy, Resting
    <2>3. StateFits'
      BY <1>0, <1>t, <1>1, <2>1, <2>2, OnItsWay DEF Orderly, StateFits, Busy, Resting, Unstoppable
    <2>4. OpenIsHeld'
      BY <1>0, <1>t, <1>1, <2>1 DEF Orderly, OpenIsHeld, At
    <2>5. handle.client = Nobody /\ handle.tunnel = Nobody
      BY <1>0, <1>t, <2>1 DEF Orderly, HeldIsUsed
    <2>6. HeldIsUsed' /\ PollsFit'
      BY <1>t, <2>1, <2>2, <2>5, OnItsWay DEF HeldIsUsed, PollsFit
    <2> QED
      BY <2>3, <2>4, <2>6 DEF Orderly
  <1> QED
    BY <1>2, <1>3 DEF LiveInv

LEMMA StartOpens ==
  ASSUME LiveInv, NEW k \in Starts, TunnelOpens(k) \/ Attaches(k)
  PROVE  LiveInv'
  <1>0. k \in Actors /\ Drain \in Actors /\ Starts \subseteq Actors /\ Stops \subseteq Actors
           /\ k # Nobody /\ k \in Connections
    BY DEF Actors, Connections
  <1>t. /\ act \in [Actors -> ActorRecord]
        /\ UNCHANGED <<timers, polling, stopRequested, strays>>
        /\ handle \in [tunnel : Connections, client : Connections]
        /\ open \in [tunnels : SUBSET Starts, clients : SUBSET Starts]
    BY DEF LiveInv, ActorsFit, TunnelOpens, Attaches
  <1>1. /\ act' \in [Actors -> ActorRecord] /\ handle' \in [tunnel : Connections, client : Connections]
        /\ open' \in [tunnels : SUBSET Starts, clients : SUBSET Starts]
        /\ \A b \in Actors \ {k} : act'[b] = act[b]
        /\ \/ /\ act[k].at = "tunnel" /\ act'[k].at = "connecting" /\ ~stopRequested
              /\ trace' = trace
              /\ handle'.tunnel = k /\ handle'.client = handle.client
              /\ open'.tunnels = open.tunnels \cup {k} /\ open'.clients = open.clients
           \/ /\ act[k].at = "connecting" /\ act'[k].at = "installing"
              /\ trace'.state = "starting"
              /\ handle'.client = k /\ handle'.tunnel = handle.tunnel
              /\ open'.clients = open.clients \cup {k} /\ open'.tunnels = open.tunnels
    <2>1. CASE TunnelOpens(k)
      <3>1. /\ act' \in [Actors -> ActorRecord] /\ act'[k].at = "connecting"
            /\ \A b \in Actors \ {k} : act'[b] = act[b]
        BY <1>0, <1>t, <2>1, ActorMoves DEF TunnelOpens, TracePcs, StartPcs
      <3>2. /\ handle' = [handle EXCEPT !.tunnel = k]
            /\ open' = [open EXCEPT !.tunnels = open.tunnels \cup {k}]
            /\ trace' = trace /\ act[k].at = "tunnel" /\ ~stopRequested
        BY <2>1 DEF TunnelOpens, At
      <3> QED
        BY <1>0, <1>t, <3>1, <3>2
    <2>2. CASE Attaches(k)
      <3>1. /\ act' \in [Actors -> ActorRecord] /\ act'[k].at = "installing"
            /\ \A b \in Actors \ {k} : act'[b] = act[b]
        BY <1>0, <1>t, <2>2, ActorSends DEF Attaches, TracePcs, StartPcs
      <3>2. /\ handle' = [handle EXCEPT !.client = k]
            /\ open' = [open EXCEPT !.clients = open.clients \cup {k}]
            /\ trace'.state = "starting" /\ act[k].at = "connecting"
        BY <2>2 DEF Attaches, At, Posts
      <3> QED
        BY <1>0, <1>t, <3>1, <3>2
    <2> QED
      BY <2>1, <2>2
  <1>2. ActorsFit' /\ OneTimer'
    BY <1>0, <1>t, <1>1 DEF LiveInv, ActorsFit, OneTimer, StartPcs
  <1>3. ASSUME "late" \notin strays'
        PROVE  Orderly'
    <2>1. Orderly
      BY <1>3, <1>t DEF LiveInv
    <2>2. Busy(k) /\ (act[k].at = "tunnel" \/ act[k].at \in Unstoppable)
      BY <1>1 DEF Busy, Resting, Unstoppable
    <2>3. StateFits'
      BY <1>0, <1>t, <1>1, <2>1, <2>2, OnItsWay DEF Orderly, StateFits, Busy, Resting, Unstoppable
    <2>4. /\ handle.client = Nobody /\ open.clients = {} 
          /\ act[k].at = "tunnel" => handle.tunnel = Nobody /\ open.tunnels = {}
          /\ \A a \in Actors \ {k} : act[a].at \notin {"preparing", "tunnel", "connecting", "closing"}
      <3>1. handle.client = Nobody /\ (act[k].at = "tunnel" => handle.tunnel = Nobody)
        BY <1>0, <1>1, <2>1 DEF Orderly, HeldIsUsed
      <3>2. \A a \in Actors \ {k} : act[a].at \in {"idle", "done"}
        BY <1>1, <2>1, <2>2, OnItsWay DEF Busy, Resting, Actors
      <3>3. Nobody \notin open.clients /\ Nobody \notin open.tunnels
        BY <1>t
      <3>4. \A a \in Actors : ~At(a, "closing")
        BY <1>1, <3>2 DEF At
      <3> QED
        BY <2>1, <3>1, <3>2, <3>3, <3>4 DEF Orderly, OpenIsHeld
    <2>5. OpenIsHeld'
      BY <1>0, <1>t, <1>1, <2>1, <2>4 DEF Orderly, OpenIsHeld
    <2>6. HeldIsUsed'
      BY <1>0, <1>t, <1>1, <2>1, <2>4 DEF HeldIsUsed, Unstoppable
    <2>7. PollsFit'
      BY <1>t, <2>1, <2>2, OnItsWay DEF PollsFit
    <2> QED
      BY <2>3, <2>5, <2>6, <2>7 DEF Orderly
  <1> QED
    BY <1>2, <1>3 DEF LiveInv

LEMMA StartStreams ==
  ASSUME LiveInv, NEW k \in Starts, Streams(k)
  PROVE  LiveInv'
  <1>0. k \in Actors /\ Drain \in Actors /\ Starts \subseteq Actors /\ Stops \subseteq Actors
    BY DEF Actors
  <1>t. /\ act \in [Actors -> ActorRecord]
        /\ UNCHANGED <<handle, open, stopRequested, strays>>
        /\ act[k].at = "installed" /\ trace'.state = "streaming"
        /\ timers' = (IF polling THEN timers ELSE timers + 1) /\ polling' = TRUE
    BY DEF LiveInv, ActorsFit, Streams, At, Posts
  <1>1. /\ act' \in [Actors -> ActorRecord] /\ act'[k].at = "done"
        /\ \A b \in Actors \ {k} : act'[b] = act[b]
    BY <1>0, <1>t, ActorSet DEF Streams, TracePcs, StartPcs
  <1>2. ActorsFit' /\ OneTimer'
    BY <1>0, <1>t, <1>1 DEF LiveInv, ActorsFit, OneTimer, StartPcs
  <1>3. ASSUME "late" \notin strays'
        PROVE  Orderly'
    <2>1. Orderly
      BY <1>3, <1>t DEF LiveInv
    <2>2. Busy(k) /\ act[k].at \in Unstoppable
      BY <1>t DEF Busy, Resting, Unstoppable
    <2>3. \A a \in Actors : act'[a].at \in {"idle", "done"}
      BY <1>1, <2>1, <2>2, OnItsWay DEF Busy, Resting, Actors
    <2>4. StateFits'
      BY <1>0, <2>3 DEF StateFits, Busy, Resting
    <2>5. OpenIsHeld'
      BY <1>0, <1>t, <1>1, <2>1 DEF Orderly, OpenIsHeld, At
    <2>6. HeldIsUsed' /\ PollsFit'
      BY <1>t, <2>3 DEF HeldIsUsed, PollsFit, TearDown, Unhooking
    <2> QED
      BY <2>4, <2>5, <2>6 DEF Orderly
  <1> QED
    BY <1>2, <1>3 DEF LiveInv

LEMMA StartGivesUp ==
  ASSUME LiveInv, NEW k \in Starts, StartFails(k)
  PROVE  LiveInv'
  <1>0. k \in Actors /\ Drain \in Actors /\ Starts \subseteq Actors /\ Stops \subseteq Actors
    BY DEF Actors
  <1>t. /\ act \in [Actors -> ActorRecord]
        /\ UNCHANGED <<handle, open, stopRequested, trace>> /\ strays \subseteq strays'
        /\ act[k].at \in {"preparing", "tunnel", "connecting", "installing"}
        /\ timers' = (IF polling THEN timers - 1 ELSE timers) /\ polling' = FALSE
    BY DEF LiveInv, ActorsFit, StartFails, At, Strayed, StopsPolling
  <1>1. /\ act' \in [Actors -> ActorRecord] /\ act'[k].at = "awaiting"
        /\ \A b \in Actors \ {k} : act'[b] = act[b]
    BY <1>0, <1>t, ActorSet DEF StartFails, TracePcs, StartPcs
  <1>2. ActorsFit' /\ OneTimer'
    BY <1>0, <1>t, <1>1 DEF LiveInv, ActorsFit, OneTimer, StartPcs
  <1>3. ASSUME "late" \notin strays'
        PROVE  Orderly'
    <2>1. Orderly
      BY <1>3, <1>t DEF LiveInv
    <2>2. Busy(k)
      BY <1>t DEF Busy, Resting
    <2>3. StateFits'
      BY <1>0, <1>t, <1>1, <2>1, <2>2, OnItsWay DEF Orderly, StateFits, Busy, Resting, Unstoppable
    <2>4. OpenIsHeld'
      BY <1>0, <1>t, <1>1, <2>1 DEF Orderly, OpenIsHeld, At
    <2>5. HeldIsUsed' /\ PollsFit'
      BY <1>0, <1>t, <1>1, <2>1 DEF Orderly, HeldIsUsed, PollsFit, TearDown, Unhooking, Unstoppable
    <2> QED
      BY <2>3, <2>4, <2>5 DEF Orderly
  <1> QED
    BY <1>2, <1>3 DEF LiveInv

----------------------------------------------------------------------------
\* The drain.
LEMMA DrainWorks ==
  ASSUME LiveInv, StartsDrain \/ HandsOver \/ DrainTimesOut
  PROVE  LiveInv'
  <1>0. Drain \in Actors /\ Drain \notin Starts /\ Drain \notin Stops /\ Starts \subseteq Actors
           /\ Stops \subseteq Actors /\ Actors = Starts \cup Stops \cup {Drain}
    BY DEF Actors
  <1>t. /\ act \in [Actors -> ActorRecord]
        /\ UNCHANGED <<handle, open, stopRequested, trace, timers, polling, strays>>
        /\ handle.client \in Connections
    BY DEF LiveInv, ActorsFit, StartsDrain, HandsOver, DrainTimesOut, Evaluates
  <1>1. /\ act' \in [Actors -> ActorRecord]
        /\ \A b \in Actors \ {Drain} : act'[b] = act[b]
        /\ \/ /\ act'[Drain].at = "draining" /\ act[Drain].at = "idle"
              /\ handle.client # Nobody /\ trace.state = "streaming"
           \/ act'[Drain].at = "idle" /\ act[Drain].at \in {"draining", "drained"}
    <2>1. CASE StartsDrain
      BY <1>0, <1>t, <2>1, ActorSends DEF StartsDrain, Evaluates, TracePcs, DrainPcs
    <2>2. CASE HandsOver \/ DrainTimesOut
      BY <1>0, <1>t, <2>2, ActorSet DEF HandsOver, DrainTimesOut, At, TracePcs, DrainPcs
    <2> QED
      BY <2>1, <2>2
  <1>2. ActorsFit' /\ OneTimer'
    BY <1>0, <1>t, <1>1 DEF LiveInv, ActorsFit, OneTimer, DrainPcs
  <1>3. ASSUME "late" \notin strays'
        PROVE  Orderly'
    <2>1. Orderly
      BY <1>3, <1>t DEF LiveInv
    <2>2. StateFits'
      BY <1>0, <1>t, <1>1, <2>1 DEF Orderly, StateFits, Busy, Resting, At
    <2>3. OpenIsHeld'
      BY <1>0, <1>t, <1>1, <2>1 DEF Orderly, OpenIsHeld, At
    <2>4. HeldIsUsed' /\ PollsFit'
      BY <1>0, <1>t, <1>1, <2>1 DEF Orderly, HeldIsUsed, PollsFit, TearDown, Unhooking, Unstoppable
    <2> QED
      BY <2>2, <2>3, <2>4 DEF Orderly
  <1> QED
    BY <1>2, <1>3 DEF LiveInv

\* A teardown is to unhook, or finds that another has.
LEMMA TearingDown ==
  ASSUME act \in [Actors -> ActorRecord], handle.client \in Connections, NEW a \in Actors, NEW what,
         TearsDown(a, what)
  PROVE  /\ act' \in [Actors -> ActorRecord]
         /\ \A b \in Actors \ {a} : act'[b] = act[b]
         /\ act'[a].hook = act[a].hook /\ act'[a].uninstall = act[a].uninstall
         /\ \/ /\ handle.client = Nobody /\ act'[a].at = "closing" /\ act'[a].on = Nobody
               /\ sent' = sent
            \/ /\ handle.client # Nobody /\ act'[a].at = "unhooking" 
               /\ act'[a].gone = act[a].gone
               /\ sent' = Append(sent, [by |-> a, what |-> what, ack |-> drains.ack, on |-> handle.client])
  <1>1. {"closing", "unhooking"} \subseteq TracePcs /\ Nobody \in Connections
    BY DEF TracePcs, StopPcs, Connections
  <1>2. CASE handle.client = Nobody
    <2>1. /\ act' = [act EXCEPT ![a].at = "closing", ![a].on = Nobody, ![a].gone = TRUE]
          /\ sent' = sent
      BY <1>2 DEF TearsDown
    <2> QED
      BY <1>1, <1>2, <2>1, ActorKnows
  <1>3. CASE handle.client # Nobody
    BY <1>1, <1>3, ActorSends DEF TearsDown, Evaluates
  <1> QED
    BY <1>2, <1>3

LEMMA DrainEnds ==
  ASSUME LiveInv, DrainFails
  PROVE  LiveInv'
  <1>0. Drain \in Actors /\ Drain \notin Starts /\ Drain \notin Stops /\ Starts \subseteq Actors
           /\ Stops \subseteq Actors /\ Actors = Starts \cup Stops \cup {Drain}
    BY DEF Actors
  <1>t. /\ act \in [Actors -> ActorRecord]
        /\ UNCHANGED <<handle, open, stopRequested, trace, strays>>
        /\ timers' = (IF polling THEN timers - 1 ELSE timers) /\ polling' = FALSE
        /\ handle.client \in Connections /\ act[Drain].at \in {"draining", "drained"}
    BY DEF LiveInv, ActorsFit, DrainFails, StopsPolling
  <1>1. /\ act' \in [Actors -> ActorRecord]
        /\ \A b \in Actors \ {Drain} : act'[b] = act[b]
        /\ \/ act'[Drain].at = "unhooking"
           \/ act'[Drain].at = "closing" /\ handle.client = Nobody
    BY <1>0, <1>t, TearingDown DEF DrainFails
  <1>2. ActorsFit' /\ OneTimer'
    BY <1>0, <1>t, <1>1 DEF LiveInv, ActorsFit, OneTimer, DrainPcs
  <1>3. ASSUME "late" \notin strays'
        PROVE  Orderly'
    <2>1. Orderly
      BY <1>3, <1>t DEF LiveInv
    <2>2. StateFits'
      BY <1>0, <1>t, <1>1, <2>1 DEF Orderly, StateFits, Busy, Resting, At
    <2>3. OpenIsHeld'
      BY <1>0, <1>t, <1>1, <2>1 DEF Orderly, OpenIsHeld, At
    <2>4. HeldIsUsed' /\ PollsFit'
      BY <1>0, <1>t, <1>1, <2>1 DEF Orderly, HeldIsUsed, PollsFit, TearDown, Unhooking, Unstoppable
    <2> QED
      BY <2>2, <2>3, <2>4 DEF Orderly
  <1> QED
    BY <1>2, <1>3 DEF LiveInv

----------------------------------------------------------------------------
\* The stops.
LEMMA StopFindsNothing ==
  ASSUME LiveInv, NEW k \in Stops, StopsIdle(k)
  PROVE  LiveInv'
  <1>0. k \in Actors /\ Drain \in Actors /\ Starts \subseteq Actors /\ Stops \subseteq Actors
           /\ k \notin Starts
    BY DEF Actors
  <1>t. /\ act \in [Actors -> ActorRecord] /\ act[k].at = "idle" /\ ~IsRunning
        /\ UNCHANGED <<handle, open, timers, polling>> /\ strays \subseteq strays' /\ stopRequested' = TRUE
        /\ trace'.state = "stopped" \/ (trace' = trace /\ trace.state = "error")
    <2>1. act \in [Actors -> ActorRecord]
      BY DEF LiveInv, ActorsFit
    <2>2. \/ trace.state = "error" /\ trace' = trace /\ strays' = strays
          \/ Posts("stopped", FALSE) /\ Strayed(MayHook)
      BY DEF StopsIdle
    <2>3. /\ strays \subseteq strays'
          /\ trace'.state = "stopped" \/ (trace' = trace /\ trace.state = "error")
      <3>1. CASE trace.state = "error" /\ trace' = trace /\ strays' = strays
        BY <3>1
      <3>2. CASE Posts("stopped", FALSE) /\ Strayed(MayHook)
        <4> DEFINE may == MayHook
        <4>1. strays' = strays \cup may
          BY <3>2 DEF Strayed
        <4>2. trace' = [state |-> "stopped", remains |-> FALSE]
          BY <3>2 DEF Posts
        <4> HIDE DEF may
        <4> QED
          BY <4>1, <4>2
      <3> QED
        BY <2>2, <3>1, <3>2
    <2>4. act[k].at = "idle" /\ ~IsRunning
      BY DEF StopsIdle, At
    <2>5. UNCHANGED <<handle, open, timers, polling>> /\ stopRequested' = TRUE
      BY DEF StopsIdle
    <2> QED
      BY <2>1, <2>3, <2>4, <2>5
  <1>1. /\ act' \in [Actors -> ActorRecord] /\ act'[k].at = "done"
        /\ \A b \in Actors \ {k} : act'[b] = act[b]
    BY <1>0, <1>t, ActorSet DEF StopsIdle, TracePcs, StartPcs
  <1>2. ActorsFit' /\ OneTimer'
    BY <1>0, <1>t, <1>1 DEF LiveInv, ActorsFit, OneTimer, StopPcs
  <1>3. ASSUME "late" \notin strays'
        PROVE  Orderly'
    <2>1. Orderly /\ trace.state \notin {"starting", "streaming", "stopping"}
      BY <1>3, <1>t DEF LiveInv, IsRunning, Running
    <2>2. StateFits'
      BY <1>0, <1>t, <1>1, <2>1 DEF Orderly, StateFits, Busy, Resting, At, Unstoppable
    <2>3. OpenIsHeld'
      BY <1>0, <1>t, <1>1, <2>1 DEF Orderly, OpenIsHeld, At
    <2>4. HeldIsUsed' /\ PollsFit'
      BY <1>0, <1>t, <1>1, <2>1 DEF Orderly, HeldIsUsed, PollsFit, TearDown, Unhooking, Unstoppable
    <2> QED
      BY <2>2, <2>3, <2>4 DEF Orderly
  <1> QED
    BY <1>2, <1>3 DEF LiveInv

LEMMA StopBegins ==
  ASSUME LiveInv, NEW k \in Stops, NEW uninstall \in BOOLEAN, StopsTrace(k, uninstall)
  PROVE  LiveInv'
  <1>0. k \in Actors /\ Drain \in Actors /\ Starts \subseteq Actors /\ Stops \subseteq Actors
           /\ k \notin Starts
    BY DEF Actors
  <1>t. /\ act \in [Actors -> ActorRecord] /\ act[k].at = "idle" /\ IsRunning
        /\ UNCHANGED <<handle, open>> /\ stopRequested' = TRUE
        /\ timers' = (IF polling THEN timers - 1 ELSE timers) /\ polling' = FALSE
        /\ trace'.state = "stopping"
    BY DEF LiveInv, ActorsFit, StopsTrace, At, Posts, StopsPolling
  <1>1. /\ act' \in [Actors -> ActorRecord] /\ act'[k].at = "awaiting"
        /\ \A b \in Actors \ {k} : act'[b] = act[b]
    <2>1. act' = [act EXCEPT ![k].at = "awaiting", ![k].uninstall = uninstall,
                             ![k].hook = handle.client # Nobody]
      BY DEF StopsTrace
    <2> DEFINE h == handle.client # Nobody
    <2>2. h \in BOOLEAN
      OBVIOUS
    <2> HIDE DEF h
    <2>3. act' = [act EXCEPT ![k].at = "awaiting", ![k].uninstall = uninstall, ![k].hook = h]
      BY <2>1 DEF h
    <2> QED
      BY <1>0, <1>t, <2>2, <2>3, ActorStops DEF TracePcs, StopPcs
  <1>2. ActorsFit' /\ OneTimer'
    BY <1>0, <1>t, <1>1 DEF LiveInv, ActorsFit, OneTimer, StopPcs
  <1>3. ASSUME "late" \notin strays'
        PROVE  Orderly'
    <2>1. Orderly /\ \A s \in Starts : act[s].at \notin Unstoppable
      BY <1>3 DEF StopsTrace, Strayed, LiveInv, Unstoppable
    <2>2. StateFits'
      BY <1>0, <1>t, <1>1, <2>1 DEF Orderly, StateFits, Busy, Resting, At
    <2>3. OpenIsHeld'
      BY <1>0, <1>t, <1>1, <2>1 DEF Orderly, OpenIsHeld, At
    <2>4. HeldIsUsed' /\ PollsFit'
      BY <1>0, <1>t, <1>1, <2>1 DEF Orderly, HeldIsUsed, PollsFit, TearDown, Unhooking
    <2> QED
      BY <2>2, <2>3, <2>4 DEF Orderly
  <1> QED
    BY <1>2, <1>3 DEF LiveInv

----------------------------------------------------------------------------
\* The teardown.
LEMMA TeardownGoesOn ==
  ASSUME LiveInv, NEW a \in Actors,
         Unhooks(a) \/ \E answered \in BOOLEAN : LeavesHook(a, answered)
  PROVE  LiveInv'
  <1>0. Drain \in Actors /\ Drain \notin Starts /\ Drain \notin Stops /\ Starts \subseteq Actors
           /\ Stops \subseteq Actors /\ Actors = Starts \cup Stops \cup {Drain} /\ Starts \cap Stops = {}
    BY DEF Actors
  <1>t. /\ act \in [Actors -> ActorRecord]
        /\ UNCHANGED <<open, stopRequested, trace, timers, polling>> /\ strays \subseteq strays'
        /\ handle \in [tunnel : Connections, client : Connections]
    BY DEF LiveInv, ActorsFit, Unhooks, LeavesHook, Strayed
  <1>1. /\ act' \in [Actors -> ActorRecord]
        /\ \A b \in Actors \ {a} : act'[b] = act[b]
        /\ \/ /\ act[a].at = "awaiting" /\ act[Drain].at = "idle" /\ handle' = handle
              /\ \/ act'[a].at = "unhooking"
                 \/ act'[a].at = "closing" /\ handle.client = Nobody
           \/ /\ act[a].at \in {"unhooking", "unhooked"} /\ act'[a].at = "closing"
              /\ act'[a].on = handle.client
              /\ handle' = [handle EXCEPT !.client = Nobody]
    <2>1. CASE Unhooks(a)
      BY <1>0, <1>t, <2>1, TearingDown DEF Unhooks, At
    <2>2. ASSUME NEW answered \in BOOLEAN, LeavesHook(a, answered)
          PROVE  /\ act' \in [Actors -> ActorRecord]
                 /\ \A b \in Actors \ {a} : act'[b] = act[b]
                 /\ act[a].at \in {"unhooking", "unhooked"} /\ act'[a].at = "closing"
                 /\ act'[a].on = handle.client
                 /\ handle' = [handle EXCEPT !.client = Nobody]
      <3> DEFINE g == answered /\ act[a].uninstall
      <3>1. act[a].uninstall \in BOOLEAN
        BY <1>t DEF ActorRecord
      <3>2. g \in BOOLEAN
        BY <3>1
      <3> HIDE DEF g
      <3>3. /\ act' = [act EXCEPT ![a].at = "closing", ![a].on = handle.client, ![a].gone = g]
            /\ act[a].at \in {"unhooking", "unhooked"}
            /\ handle' = [handle EXCEPT !.client = Nobody]
        BY <2>2 DEF LeavesHook, At, g
      <3>4. "closing" \in TracePcs /\ handle.client \in Connections
        BY <1>t DEF TracePcs, StopPcs
      <3>5. /\ act' \in [Actors -> ActorRecord]
            /\ \A b \in Actors \ {a} : act'[b] = act[b]
            /\ act'[a].at = "closing" /\ act'[a].on = handle.client
        <4>1. act[a].uninstall \in BOOLEAN /\ handle.client \in Connections
          BY <3>1, <3>4
        <4>2. act \in [Actors -> ActorRecord]
          BY <1>t
        <4> QED
          BY <3>2, <3>3, <4>1, <4>2, ActorClosesOff
      <3> QED
        BY <3>3, <3>5
    <2> QED
      BY <2>1, <2>2
  <1>2. ActorsFit' /\ OneTimer'
    <2>1. handle' \in [tunnel : Connections, client : Connections]
      BY <1>t, <1>1 DEF Connections
    <2> QED
      BY <1>0, <1>t, <1>1, <2>1 DEF LiveInv, ActorsFit, OneTimer, DrainPcs, StopPcs, StartPcs
  <1>3. ASSUME "late" \notin strays'
        PROVE  Orderly'
    <2>1. Orderly
      BY <1>3, <1>t DEF LiveInv
    <2>2. handle'.tunnel = handle.tunnel /\ handle'.client \in {handle.client, Nobody}
      BY <1>t, <1>1
    <2>3. StateFits'
      BY <1>0, <1>t, <1>1, <2>1 DEF Orderly, StateFits, Busy, Resting, At, Unstoppable
    <2>4. OpenIsHeld'
      <3>1. \A c \in open.clients : c = handle.client \/ \E b \in Actors : At(b, "closing") /\ act[b].on = c
        BY <2>1 DEF Orderly, OpenIsHeld
      <3>2. \A b \in Actors : act[b].at = "closing" => act'[b] = act[b]
        BY <1>1
      <3>3. handle' = handle \/ (act'[a].at = "closing" /\ act'[a].on = handle.client)
        BY <1>1
      <3>4. \A c \in open.clients : c = handle'.client \/ \E b \in Actors : act'[b].at = "closing" /\ act'[b].on = c
        BY <3>1, <3>2, <3>3 DEF At
      <3> QED
        BY <1>t, <2>1, <2>2, <3>4 DEF Orderly, OpenIsHeld, At
    <2>5. HeldIsUsed'
      <3>1. \A b \in Actors : act'[b].at \in {"preparing", "tunnel", "connecting"} => act[b].at = act'[b].at
        BY <1>1
      <3>2. (act'[a].at = "closing" /\ handle'.client = Nobody) \/ (act'[a].at \in Unhooking /\ handle' = handle)
        BY <1>t, <1>1 DEF Unhooking
      <3>3. \A b \in Actors : act[b].at = "closing" => handle'.client = Nobody
        BY <2>1, <2>2 DEF Orderly, HeldIsUsed
      <3>4. act'[a].at \in TearDown
        BY <1>1 DEF TearDown, Unhooking
      <3> QED
        BY <1>t, <1>1, <2>1, <2>2, <3>1, <3>2, <3>3, <3>4 DEF Orderly, HeldIsUsed
    <2>6. PollsFit'
      BY <1>t, <1>1, <2>1 DEF Orderly, PollsFit, TearDown, Unhooking
    <2> QED
      BY <2>3, <2>4, <2>5, <2>6 DEF Orderly
  <1> QED
    BY <1>2, <1>3 DEF LiveInv

LEMMA TeardownEnds ==
  ASSUME LiveInv, NEW a \in Actors, Closes(a)
  PROVE  LiveInv'
  <1>0. Drain \in Actors /\ Drain \notin Starts /\ Drain \notin Stops /\ Starts \subseteq Actors
           /\ Stops \subseteq Actors /\ Actors = Starts \cup Stops \cup {Drain} /\ Starts \cap Stops = {}
           /\ Nobody \notin Starts /\ Nobody \in Connections
    BY DEF Actors, Connections
  <1>t. /\ act \in [Actors -> ActorRecord] /\ act[a].at = "closing"
        /\ UNCHANGED <<stopRequested, timers, polling, strays>>
        /\ handle \in [tunnel : Connections, client : Connections]
        /\ open \in [tunnels : SUBSET Starts, clients : SUBSET Starts]
    BY DEF LiveInv, ActorsFit, Closes, At
  <1>1. /\ act' \in [Actors -> ActorRecord]
        /\ \A b \in Actors \ {a} : act'[b] = act[b]
        /\ act'[a].at = IF a = Drain THEN "idle" ELSE "done"
    BY <1>0, <1>t, ActorSet DEF Closes, TracePcs, StopPcs
  <1>2. /\ handle'.client = handle.client /\ handle'.tunnel = Nobody
        /\ handle' \in [tunnel : Connections, client : Connections]
        /\ open'.tunnels = open.tunnels \ {handle.tunnel}
        /\ open'.clients = open.clients \ {act[a].on}
        /\ open' \in [tunnels : SUBSET Starts, clients : SUBSET Starts]
    BY <1>0, <1>t DEF Closes
  <1>3. ActorsFit' /\ OneTimer'
    BY <1>0, <1>t, <1>1, <1>2 DEF LiveInv, ActorsFit, OneTimer, DrainPcs, StopPcs, StartPcs
  <1>4. ASSUME "late" \notin strays'
        PROVE  Orderly'
    <2>1. Orderly
      BY <1>4, <1>t DEF LiveInv
    <2>2. \/ a \in Starts /\ stopRequested /\ trace' = trace
          \/ a \in Starts /\ ~stopRequested /\ trace'.state = "error"
          \/ a \in Stops /\ trace'.state = "stopped"
          \/ a = Drain /\ trace'.state = "error"
      BY DEF Closes, PostsEnd, Posts
    <2>3. handle.client = Nobody /\ ~polling
      BY <1>t, <2>1 DEF Orderly, HeldIsUsed, PollsFit, TearDown
    <2>4. StateFits'
      <3>1. CASE a \in Starts
        <4>1. Busy(a)
          BY <1>t DEF Busy, Resting
        <4>2. /\ \A b \in Starts : ~Busy(b)'
              /\ ~Busy(Drain)' /\ \A b \in Stops : Busy(b)' => Busy(b)
          BY <1>0, <1>1, <2>1, <3>1, <4>1, OnItsWay DEF Busy, Resting
        <4>3. \A b \in Stops : Busy(b) => stopRequested /\ trace.state \in {"stopping", "stopped", "error"}
          BY <2>1 DEF Orderly, StateFits
        <4> QED
          BY <1>0, <1>t, <2>2, <3>1, <4>2, <4>3 DEF StateFits
      <3>2. CASE a \in Stops
        BY <1>0, <1>t, <1>1, <2>1, <2>2, <3>2 DEF Orderly, StateFits, Busy, Resting, At, Unstoppable
      <3>3. CASE a = Drain
        BY <1>0, <1>t, <1>1, <2>1, <2>2, <3>3 DEF Orderly, StateFits, Busy, Resting, At, Unstoppable
      <3> QED
        BY <1>0, <3>1, <3>2, <3>3
    <2>5. OpenIsHeld'
      BY <1>0, <1>t, <1>1, <1>2, <2>1 DEF Orderly, OpenIsHeld, At
    <2>6. HeldIsUsed' /\ PollsFit'
      BY <1>t, <1>2, <2>3 DEF HeldIsUsed, PollsFit
    <2> QED
      BY <2>4, <2>5, <2>6 DEF Orderly
  <1> QED
    BY <1>3, <1>4 DEF LiveInv

----------------------------------------------------------------------------
\* The application: an answer moves whoever waits for it.
LEMMA AppMoves ==
  ASSUME act \in [Actors -> ActorRecord], AppRuns \/ Serves \/ Vanishes
  PROVE  /\ act' \in [Actors -> ActorRecord]
         /\ \A b \in Actors :
              /\ act'[b].on = act[b].on /\ act'[b].hook = act[b].hook
              /\ act'[b].uninstall = act[b].uninstall /\ act'[b].gone = act[b].gone
              /\ \/ act'[b].at = act[b].at
                 \/ act[b].at = "installing" /\ act'[b].at = "installed"
                 \/ act[b].at = "draining" /\ act'[b].at = "drained"
                 \/ act[b].at = "unhooking" /\ act'[b].at = "unhooked"
  <1>1. CASE act' = act
    BY <1>1
  <1>2. ASSUME NEW r, Hears(r)
        PROVE  /\ act' \in [Actors -> ActorRecord]
               /\ \A b \in Actors :
                    /\ act'[b].on = act[b].on /\ act'[b].hook = act[b].hook
                    /\ act'[b].uninstall = act[b].uninstall /\ act'[b].gone = act[b].gone
                    /\ \/ act'[b].at = act[b].at
                       \/ act[b].at = "installing" /\ act'[b].at = "installed"
                       \/ act[b].at = "draining" /\ act'[b].at = "drained"
                       \/ act[b].at = "unhooking" /\ act'[b].at = "unhooked"
    <2> DEFINE now == CASE act[r.by].at = "installing" -> "installed"
                        [] act[r.by].at = "draining" -> "drained"
                        [] act[r.by].at = "unhooking" -> "unhooked"
    <2>1. act' = [act EXCEPT ![r.by].at = now] /\ act[r.by].at \in {"installing", "draining", "unhooking"}
      BY <1>2 DEF Hears
    <2>2. now \in TracePcs /\ (\/ act[r.by].at = "installing" /\ now = "installed"
                               \/ act[r.by].at = "draining" /\ now = "drained"
                               \/ act[r.by].at = "unhooking" /\ now = "unhooked")
      BY <2>1 DEF TracePcs, StartPcs, DrainPcs
    <2> HIDE DEF now
    <2>3. CASE r.by \in Actors
      <3>1. act' \in [Actors -> ActorRecord] /\ act'[r.by].at = now
             /\ act'[r.by].on = act[r.by].on /\ act'[r.by].hook = act[r.by].hook
             /\ act'[r.by].uninstall = act[r.by].uninstall /\ act'[r.by].gone = act[r.by].gone
             /\ \A b \in Actors \ {r.by} : act'[b] = act[b]
        BY <2>1, <2>2, <2>3, ActorMoves
      <3> QED
        BY <2>2, <3>1
    <2>4. CASE r.by \notin Actors
      <3>1. act' = act
        BY <2>1, <2>4
      <3> QED
        BY <3>1
    <2> QED
      BY <2>3, <2>4
  <1> QED
    BY <1>1, <1>2 DEF AppRuns, Serves, Vanishes

LEMMA AppGoesOn ==
  ASSUME LiveInv, AppRuns \/ Serves \/ Vanishes
  PROVE  LiveInv'
  <1>0. Drain \in Actors /\ Starts \subseteq Actors /\ Stops \subseteq Actors
    BY DEF Actors
  <1>t. act \in [Actors -> ActorRecord]
        /\ UNCHANGED <<trace, stopRequested, handle, open, timers, polling, strays>>
    BY DEF LiveInv, ActorsFit, AppRuns, Serves, Vanishes
  <1>1. /\ act' \in [Actors -> ActorRecord]
        /\ \A b \in Actors :
              /\ act'[b].on = act[b].on
              /\ \/ act'[b].at = act[b].at
                 \/ act[b].at = "installing" /\ act'[b].at = "installed"
                 \/ act[b].at = "draining" /\ act'[b].at = "drained"
                 \/ act[b].at = "unhooking" /\ act'[b].at = "unhooked"
    BY <1>t, AppMoves
  <1>2. ActorsFit' /\ OneTimer'
    BY <1>0, <1>t, <1>1 DEF LiveInv, ActorsFit, OneTimer, DrainPcs, StopPcs, StartPcs
  <1>3. ASSUME "late" \notin strays'
        PROVE  Orderly'
    <2>1. Orderly
      BY <1>3, <1>t DEF LiveInv
    <2>2. \A b \in Actors :
             /\ Busy(b)' <=> Busy(b)
             /\ \A pc \in {"awaiting", "closing", "preparing", "tunnel", "connecting"} :
                   act'[b].at = pc <=> act[b].at = pc
             /\ act'[b].at \in Unhooking <=> act[b].at \in Unhooking
             /\ act'[b].at \in {"installing", "installed"} <=> act[b].at \in {"installing", "installed"}
      BY <1>1 DEF Busy, Resting, Unhooking
    <2>3. StateFits'
      BY <1>0, <1>t, <2>1, <2>2 DEF Orderly, StateFits, At, Unstoppable
    <2>4. OpenIsHeld'
      BY <1>0, <1>t, <1>1, <2>1, <2>2 DEF Orderly, OpenIsHeld, At
    <2>5. HeldIsUsed' /\ PollsFit'
      BY <1>0, <1>t, <2>1, <2>2 DEF Orderly, HeldIsUsed, PollsFit, TearDown, Unstoppable
    <2> QED
      BY <2>3, <2>4, <2>5 DEF Orderly
  <1> QED
    BY <1>2, <1>3 DEF LiveInv

LEMMA LiveSteps == LiveInv /\ [TraceNext]_tracevars => LiveInv'
  <1> SUFFICES ASSUME LiveInv, [TraceNext]_tracevars PROVE LiveInv'
    OBVIOUS
  <1>1. CASE UNCHANGED tracevars
    BY <1>1 DEF tracevars, LiveInv, ActorsFit, OneTimer, Orderly, StateFits, OpenIsHeld, HeldIsUsed,
                PollsFit, Busy, At
  <1>2. Starts \subseteq Actors /\ Stops \subseteq Actors
    BY DEF Actors
  <1> QED
    BY <1>1, <1>2, StartBegins, StartPrepares, StartOpens, StartStreams, StartGivesUp, DrainWorks,
       DrainEnds, StopFindsNothing, StopBegins, TeardownGoesOn, TeardownEnds, AppGoesOn
    DEF TraceNext

\* "close the tunnel on exit" (README.md:210): a session that is stopped or has failed, and
\* in which nothing is in progress, holds no tunnel, no connection and no timer, for any
\* number of starts and stops one after the other and at the same time.
THEOREM NothingStaysOpen == TraceSpec => []RestsClosed
  <1>1. LiveInv => RestsClosed
    <2> SUFFICES ASSUME LiveInv, "late" \notin strays, InProgress(Actors) = {}, ~IsRunning
                 PROVE  open = [tunnels |-> {}, clients |-> {}] /\ timers = 0
      BY DEF RestsClosed
    <2>1. Orderly /\ ActorsFit /\ OneTimer
      BY DEF LiveInv
    <2>2. \A a \in Actors : act[a].at \in {"idle", "done"}
      BY DEF InProgress, Resting
    <2>3. trace.state # "streaming"
      BY DEF IsRunning, Running
    <2>4. handle.client = Nobody /\ handle.tunnel = Nobody /\ ~polling
      BY <2>1, <2>2, <2>3 DEF Orderly, HeldIsUsed, PollsFit, Unstoppable, Unhooking, TearDown, Actors
    <2>5. open \in [tunnels : SUBSET Starts, clients : SUBSET Starts]
      BY <2>1 DEF ActorsFit
    <2>6. open.clients = {} /\ open.tunnels = {}
      BY <2>1, <2>2, <2>4, <2>5 DEF Orderly, OpenIsHeld, At
    <2> QED
      BY <2>1, <2>4, <2>5, <2>6 DEF OneTimer
  <1> QED
    BY <1>1, LiveBegins, LiveSteps, PTL DEF TraceSpec

(***************************************************************************)
(* What is left of the hook.                                               *)
(***************************************************************************)
Purposes == {"install", "uninstall", "disable", "drain"}
Expression == [by : Actors, what : Purposes, ack : Nat, on : Connections]
\* The expressions that the application has not run.
InTransit == {sent[i] : i \in 1..Len(sent)}

HookTypeOK ==
    /\ sent \in Seq(Expression)
    /\ DOMAIN drains = {"ack", "timeouts", "id", "events"} /\ {drains.ack, drains.id} \subseteq Nat
    /\ DOMAIN app = {"hook", "queue", "served", "pending", "id", "next"}
    /\ {app.id, app.next} \subseteq Nat

\* An installation is under way only while its start waits for it; a start that is not
\* installing has found no hook and leaves none, ...
StartsFit ==
    /\ \A r \in InTransit : r.what = "install" => r.by \in Starts /\ At(r.by, "installing")
    /\ \A k \in Starts : Busy(k) /\ act[k].at \notin {"installing", "installed"} => app.hook = "none"

\* ... a stop that ends over a hook knows of one and does not hold it for gone, ...
StopsFit ==
    \A j \in Stops :
        /\ act[j].at \in {"idle", "awaiting"} => ~act[j].gone /\ \A r \in InTransit : r.by # j
        /\ At(j, "awaiting") => act[j].hook \/ handle.client = Nobody
        /\ At(j, "unhooking") =>
              \A r \in InTransit :
                 r.by = j => r.what = IF act[j].uninstall THEN "uninstall" ELSE "disable"
        /\ At(j, "unhooked") /\ act[j].uninstall => app.hook = "none"
        /\ act[j].at \in {"unhooking", "unhooked", "closing"} /\ app.hook # "none"
              => act[j].hook /\ ~act[j].gone

\* ... and the last state says so.
EndFits == trace.state \in {"stopped", "error"} => app.hook = "none" \/ trace.remains

HookFits == StartsFit /\ StopsFit /\ EndFits
HookInv == LiveInv /\ HookTypeOK /\ (strays = {} => HookFits)

\* An expression is sent, and runs or is lost.
LEMMA SentGrows ==
  ASSUME sent \in Seq(Expression), NEW e \in Expression, sent' = Append(sent, e)
  PROVE  sent' \in Seq(Expression) /\ InTransit' = InTransit \cup {e}
  <1>1. /\ sent' \in Seq(Expression) /\ Len(sent') = Len(sent) + 1 /\ Len(sent) \in Nat
        /\ sent'[Len(sent) + 1] = e
        /\ \A i \in 1..Len(sent) : sent'[i] = sent[i]
    BY AppendProperties, LenProperties
  <1>2. 1..Len(sent') = (1..Len(sent)) \cup {Len(sent) + 1}
    BY <1>1
  <1> QED
    BY <1>1, <1>2 DEF InTransit

LEMMA SentShrinks ==
  ASSUME sent \in Seq(Expression), sent # <<>>, sent' = Tail(sent)
  PROVE  /\ sent' \in Seq(Expression) /\ InTransit' \subseteq InTransit
         /\ Head(sent) \in InTransit /\ Head(sent) \in Expression
         /\ (~\E i \in 2..Len(sent) : sent[i].by = Head(sent).by)
               => \A r \in InTransit' : r.by # Head(sent).by
  <1>1. /\ Len(sent) \in Nat /\ Len(sent) > 0 /\ \A i \in 1..Len(sent) : sent[i] \in Expression
        /\ sent' \in Seq(Expression) /\ Len(sent') = Len(sent) - 1
        /\ \A i \in 1..Len(sent') : sent'[i] = sent[i + 1]
        /\ Head(sent) = sent[1]
    BY HeadTailProperties, LenProperties, EmptySeq, ElementOfSeq
  <1>2. /\ \A i \in 1..Len(sent') : i + 1 \in 2..Len(sent) /\ i + 1 \in 1..Len(sent)
        /\ 1 \in 1..Len(sent)
    BY <1>1
  <1> QED
    BY <1>1, <1>2 DEF InTransit

LEMMA HookBegins == TraceInit => HookInv
  <1> SUFFICES ASSUME TraceInit PROVE HookInv
    OBVIOUS
  <1>1. LiveInv
    BY LiveBegins
  <1>2. Actor("idle").at = "idle" /\ Actor("idle").gone = FALSE
    BY DEF Actor
  <1>3. \A a \in Actors : act[a].at = "idle" /\ ~act[a].gone
    BY <1>2 DEF TraceInit
  <1>4. sent = <<>> /\ sent \in Seq(Expression) /\ InTransit = {}
    BY EmptySeq DEF TraceInit, InTransit
  <1>5. HookTypeOK
    BY <1>4 DEF TraceInit, HookTypeOK, NoDrain
  <1>6. StartsFit /\ EndFits
    BY <1>3, <1>4 DEF TraceInit, StartsFit, EndFits, Busy, Resting, Actors
  <1>7. StopsFit
    BY <1>3, <1>4 DEF TraceInit, StopsFit, At, Actors
  <1> QED
    BY <1>1, <1>5, <1>6, <1>7 DEF HookInv, HookFits

\* What a step keeps that leaves the expressions and the hook alone, and moves no stop.
LEMMA HookKept ==
  ASSUME HookFits, act \in [Actors -> ActorRecord],
         InTransit' = InTransit, app' = app,
         \A j \in Stops : act'[j] = act[j],
         \A k \in Starts : /\ At(k, "installing") => At(k, "installing")'
                           /\ (Busy(k) /\ act[k].at \notin {"installing", "installed"})'
                                 => app.hook = "none",
         handle'.client = handle.client \/ handle'.client = Nobody
           \/ \A j \in Stops : ~At(j, "awaiting"),
         EndFits'
  PROVE  HookFits'
  <1>1. StartsFit'
    BY DEF HookFits, StartsFit, At
  <1>2. StopsFit'
    BY DEF HookFits, StopsFit, At
  <1> QED
    BY <1>1, <1>2 DEF HookFits

\* What the invariant knows of a step that leaves nothing unsure.
LEMMA HookContext ==
  ASSUME HookInv, strays \subseteq strays', strays' = {}
  PROVE  Orderly /\ HookFits
  BY DEF HookInv, LiveInv

LEMMA StartsOverNoHook ==
  ASSUME HookInv, NEW k \in Starts,
         StartsTrace(k) \/ Prepares(k) \/ StopsLateTunnel(k) \/ TunnelOpens(k) \/ StartFails(k)
  PROVE  HookTypeOK' /\ (strays' = {} => HookFits')
  <1>0. k \in Actors /\ k \notin Stops /\ Starts \subseteq Actors /\ Stops \subseteq Actors
    BY DEF Actors
  <1>t. /\ act \in [Actors -> ActorRecord] /\ HookTypeOK /\ strays \subseteq strays'
        /\ UNCHANGED <<sent, app>> /\ handle'.client = handle.client
    <2>1. act \in [Actors -> ActorRecord] /\ HookTypeOK /\ handle \in [tunnel : Connections, client : Connections]
      BY DEF HookInv, LiveInv, ActorsFit
    <2>2. strays \subseteq strays' /\ UNCHANGED <<sent, app>>
      BY DEF StartsTrace, Prepares, StopsLateTunnel, TunnelOpens, StartFails, Strayed
    <2>3. handle' = handle \/ handle' = [handle EXCEPT !.tunnel = k]
      BY DEF StartsTrace, Prepares, StopsLateTunnel, TunnelOpens, StartFails
    <2> QED
      BY <2>1, <2>2, <2>3
  <1>1. HookTypeOK'
    <2>1. drains' = drains \/ drains' = [drains EXCEPT !.ack = NoDrain]
      BY DEF StartsTrace, Prepares, StopsLateTunnel, TunnelOpens, StartFails
    <2> QED
      BY <1>t, <2>1 DEF HookTypeOK, NoDrain
  <1>2. ASSUME strays' = {}
        PROVE  HookFits'
    <2>1. Orderly /\ HookFits /\ InTransit' = InTransit
      BY <1>t, <1>2, HookContext DEF InTransit
    <2>2. \A b \in Actors \ {k} : act'[b] = act[b]
      BY <1>0, <1>t DEF StartsTrace, Prepares, StopsLateTunnel, TunnelOpens, StartFails
    <2>3. app.hook = "none" /\ ~At(k, "installing")
      <3>1. CASE StartsTrace(k)
        BY <1>2, <3>1 DEF StartsTrace, Strayed, MayHook, At
      <3>2. CASE ~StartsTrace(k)
        <4>1. act[k].at \in {"preparing", "tunnel", "connecting"}
          BY <1>2, <3>2 DEF Prepares, StopsLateTunnel, TunnelOpens, StartFails, Strayed, At
        <4> QED
          BY <2>1, <4>1 DEF HookFits, StartsFit, Busy, Resting, At
      <3> QED
        BY <3>1, <3>2
    <2>4. EndFits'
      BY <1>t, <2>3 DEF EndFits
    <2>5. \A l \in Starts : At(l, "installing") => At(l, "installing")'
      BY <1>0, <2>2, <2>3 DEF At
    <2>6. \A j \in Stops : act'[j] = act[j]
      BY <1>0, <2>2
    <2> QED
      BY <1>t, <2>1, <2>3, <2>4, <2>5, <2>6, HookKept
  <1> QED
    BY <1>1, <1>2

LEMMA StartsHook ==
  ASSUME HookInv, NEW k \in Starts, Attaches(k)
  PROVE  HookTypeOK' /\ (strays' = {} => HookFits')
  <1>0. k \in Actors /\ k \notin Stops /\ Starts \subseteq Actors /\ Stops \subseteq Actors /\ k \in Connections
    BY DEF Actors, Connections
  <1>t. /\ act \in [Actors -> ActorRecord] /\ HookTypeOK /\ strays' = strays
        /\ app' = app /\ drains' = drains /\ trace'.state = "starting"
        /\ act[k].at = "connecting"
    BY DEF HookInv, LiveInv, ActorsFit, Attaches, Posts, At
  <1> DEFINE e == [by |-> k, what |-> "install", ack |-> NoDrain, on |-> k]
  <1>1. e \in Expression /\ e.by = k
    BY <1>0 DEF Expression, Purposes, NoDrain
  <1>2. sent' = Append(sent, e)
    BY DEF Attaches
  <1> HIDE DEF e
  <1>3. sent' \in Seq(Expression) /\ InTransit' = InTransit \cup {e}
    BY <1>t, <1>1, <1>2, SentGrows DEF HookTypeOK
  <1>4. HookTypeOK'
    BY <1>t, <1>3 DEF HookTypeOK
  <1>5. ASSUME strays' = {}
        PROVE  HookFits'
    <2>1. Orderly /\ HookFits
      BY <1>t, <1>5, HookContext
    <2>2. act'[k].at = "installing" /\ \A b \in Actors \ {k} : act'[b] = act[b]
      BY <1>0, <1>t, ActorSends DEF Attaches, TracePcs, StartPcs
    <2>3. (\A a \in Starts \ {k} : ~Busy(a)) /\ (\A j \in Stops : ~Busy(j))
      BY <1>t, <2>1, OnItsWay DEF Busy, Resting, Unstoppable
    <2>4. \A r \in InTransit' : r \in InTransit \/ r.by = k
      BY <1>1, <1>3
    <2>5. StartsFit'
      <3>1. \A r \in InTransit' : r.what = "install" => r.by \in Starts /\ At(r.by, "installing")'
        BY <1>0, <2>1, <2>2, <2>4 DEF HookFits, StartsFit, At
      <3>2. \A l \in Starts : Busy(l)' => l = k
        BY <1>0, <2>2, <2>3 DEF Busy
      <3> QED
        BY <2>2, <3>1, <3>2 DEF StartsFit
    <2>6. StopsFit'
      <3>1. \A j \in Stops : act'[j] = act[j] /\ act[j].at \in {"idle", "done"}
        BY <1>0, <2>2, <2>3 DEF Busy, Resting
      <3> QED
        BY <1>0, <2>1, <2>4, <3>1 DEF HookFits, StopsFit, At
    <2>7. EndFits'
      BY <1>t DEF EndFits
    <2> QED
      BY <2>5, <2>6, <2>7 DEF HookFits
  <1> QED
    BY <1>4, <1>5

\* Steps that neither look at the hook nor send to it.
LEMMA GoesOnOverHook ==
  ASSUME HookInv, NEW a \in Starts \cup {Drain},
         \/ a \in Starts /\ Streams(a)
         \/ a = Drain /\ (HandsOver \/ DrainTimesOut)
  PROVE  HookTypeOK' /\ (strays' = {} => HookFits')
  <1>0. a \in Actors /\ a \notin Stops /\ Starts \subseteq Actors /\ Stops \subseteq Actors /\ Drain \notin Starts
    BY DEF Actors
  <1>t. /\ act \in [Actors -> ActorRecord] /\ HookTypeOK /\ strays' = strays
        /\ UNCHANGED <<sent, app, handle>>
        /\ trace' = trace \/ trace'.state = "streaming"
    BY DEF HookInv, LiveInv, ActorsFit, Streams, HandsOver, DrainTimesOut, Posts
  <1>1. HookTypeOK'
    <2>1. \/ drains' = [drains EXCEPT !.timeouts = 0]
          \/ drains' = [drains EXCEPT !.ack = drains.id, !.id = NoDrain, !.events = <<>>]
          \/ drains' = [drains EXCEPT !.timeouts = drains.timeouts + 1]
      BY DEF Streams, HandsOver, DrainTimesOut
    <2>2. DOMAIN drains = {"ack", "timeouts", "id", "events"} /\ drains.ack \in Nat /\ drains.id \in Nat
      BY <1>t DEF HookTypeOK
    <2>3. DOMAIN drains' = DOMAIN drains /\ drains'.ack \in Nat /\ drains'.id \in Nat
      <3>1. CASE drains' = [drains EXCEPT !.timeouts = 0]
        BY <2>2, <3>1
      <3>2. CASE drains' = [drains EXCEPT !.ack = drains.id, !.id = NoDrain, !.events = <<>>]
        BY <2>2, <3>2 DEF NoDrain
      <3>3. CASE drains' = [drains EXCEPT !.timeouts = drains.timeouts + 1]
        BY <2>2, <3>3
      <3> QED
        BY <2>1, <3>1, <3>2, <3>3
    <2> QED
      BY <1>t, <2>2, <2>3 DEF HookTypeOK
  <1>2. ASSUME strays' = {}
        PROVE  HookFits'
    <2>1. HookFits /\ InTransit' = InTransit
      BY <1>t, <1>2, HookContext DEF InTransit
    <2>2. /\ \A b \in Actors \ {a} : act'[b] = act[b]
          /\ act'[a].at \in {"idle", "done"} /\ act[a].at # "installing" 
          /\ a \in Starts => act'[a].at = "done"
      <3>1. CASE a \in Starts /\ Streams(a)
        BY <1>0, <1>t, <3>1, ActorSet DEF Streams, At, TracePcs, StartPcs
      <3>2. CASE a = Drain /\ (HandsOver \/ DrainTimesOut)
        BY <1>0, <1>t, <3>2, ActorSet DEF HandsOver, DrainTimesOut, At, TracePcs, DrainPcs
      <3> QED
        BY <3>1, <3>2
    <2>3. EndFits'
      BY <1>t, <2>1 DEF HookFits, EndFits
    <2>4. \A k \in Starts : /\ At(k, "installing") => At(k, "installing")'
                            /\ (Busy(k) /\ act[k].at \notin {"installing", "installed"})' => app.hook = "none"
      BY <1>0, <2>1, <2>2 DEF HookFits, StartsFit, At, Busy, Resting
    <2>5. \A j \in Stops : act'[j] = act[j]
      BY <1>0, <2>2
    <2> QED
      BY <1>t, <2>1, <2>3, <2>4, <2>5, HookKept
  <1> QED
    BY <1>1, <1>2

\* A drain, or the teardown of a start or of the drain, sends an expression.
LEMMA SendsToHook ==
  ASSUME HookInv, NEW a \in Starts \cup {Drain}, NEW e \in Expression,
         e.by = a, e.what # "install",
         sent' = Append(sent, e) \/ sent' = sent,
         UNCHANGED <<app, handle, trace>>, strays \subseteq strays',
         DOMAIN drains' = DOMAIN drains, drains'.ack = drains.ack, drains'.id \in Nat,
         a \in Starts => act[a].at = "awaiting",
         \A b \in Actors \ {a} : act'[b] = act[b]
  PROVE  HookTypeOK' /\ (strays' = {} => HookFits')
  <1>0. a \in Actors /\ a \notin Stops /\ Starts \subseteq Actors /\ Stops \subseteq Actors /\ Drain \notin Starts
    BY DEF Actors
  <1>t. act \in [Actors -> ActorRecord] /\ HookTypeOK
    BY DEF HookInv, LiveInv, ActorsFit
  <1>1. sent' \in Seq(Expression) /\ (InTransit' = InTransit \cup {e} \/ InTransit' = InTransit)
    <2>1. CASE sent' = sent
      BY <1>t, <2>1 DEF HookTypeOK, InTransit
    <2>2. CASE sent' = Append(sent, e)
      BY <1>t, <2>2, SentGrows DEF HookTypeOK
    <2> QED
      BY <2>1, <2>2
  <1>2. HookTypeOK'
    BY <1>t, <1>1 DEF HookTypeOK
  <1>3. ASSUME strays' = {}
        PROVE  HookFits'
    <2>1. HookFits
      BY <1>3, HookContext
    <2>2. \A r \in InTransit' : r \in InTransit \/ (r.by = a /\ r.what # "install")
      BY <1>1
    <2>3. StartsFit'
      <3>1. \A k \in Starts : At(k, "installing") => At(k, "installing")'
        BY <1>0 DEF At
      <3>2. \A k \in Starts : Busy(k)' /\ act'[k].at \notin {"installing", "installed"} => app.hook = "none"
        BY <1>0, <2>1 DEF HookFits, StartsFit, Busy, Resting
      <3> QED
        BY <2>1, <2>2, <3>1, <3>2 DEF HookFits, StartsFit
    <2>4. StopsFit'
      <3>1. \A j \in Stops : act'[j] = act[j]
        BY <1>0
      <3> QED
        BY <1>0, <2>1, <2>2, <3>1 DEF HookFits, StopsFit, At
    <2>5. EndFits'
      BY <2>1 DEF HookFits, EndFits
    <2> QED
      BY <2>3, <2>4, <2>5 DEF HookFits
  <1> QED
    BY <1>2, <1>3

LEMMA DrainSends ==
  ASSUME HookInv, StartsDrain \/ DrainFails
  PROVE  HookTypeOK' /\ (strays' = {} => HookFits')
  <1>0. Drain \in Actors
    BY DEF Actors
  <1>t. /\ act \in [Actors -> ActorRecord] /\ handle.client \in Connections
        /\ DOMAIN drains = {"ack", "timeouts", "id", "events"} /\ drains.ack \in Nat /\ drains.id \in Nat
    BY DEF HookInv, LiveInv, ActorsFit, HookTypeOK
  <1>1. UNCHANGED <<app, handle, trace, strays>>
    BY DEF StartsDrain, DrainFails
  <1> DEFINE Asks(what) == [by |-> Drain, what |-> what, ack |-> drains.ack, on |-> handle.client]
  <1>2. \A what \in {"drain", "disable"} :
           Asks(what) \in Expression /\ Asks(what).by = Drain /\ Asks(what).what # "install"
    BY <1>0, <1>t DEF Expression, Purposes
  <1>3. /\ DOMAIN drains' = DOMAIN drains /\ drains'.ack = drains.ack /\ drains'.id \in Nat
    <2>1. drains' = drains \/ drains' = [drains EXCEPT !.timeouts = 0, !.id = NoDrain, !.events = <<>>]
      BY DEF StartsDrain, DrainFails
    <2>2. CASE drains' = drains
      BY <1>t, <2>2
    <2>3. CASE drains' = [drains EXCEPT !.timeouts = 0, !.id = NoDrain, !.events = <<>>]
      BY <1>t, <2>3 DEF NoDrain
    <2> QED
      BY <2>1, <2>2, <2>3
  <1>4. CASE StartsDrain
    <2>1. sent' = Append(sent, Asks("drain"))
      BY <1>4 DEF StartsDrain, Evaluates
    <2>2. \A b \in Actors \ {Drain} : act'[b] = act[b]
      BY <1>t, <1>4 DEF StartsDrain, Evaluates
    <2> HIDE DEF Asks
    <2> QED
      BY <1>1, <1>2, <1>3, <2>1, <2>2, SendsToHook, LiveTraceAssumption
  <1>5. CASE DrainFails
    <2>1. /\ sent' = Append(sent, Asks("disable")) \/ sent' = sent
          /\ \A b \in Actors \ {Drain} : act'[b] = act[b]
      BY <1>0, <1>t, <1>5, TearingDown DEF DrainFails
    <2> HIDE DEF Asks
    <2> QED
      BY <1>1, <1>2, <1>3, <2>1, SendsToHook
  <1> QED
    BY <1>4, <1>5

LEMMA StartUnhooks ==
  ASSUME HookInv, NEW k \in Starts, Unhooks(k)
  PROVE  HookTypeOK' /\ (strays' = {} => HookFits')
  <1>0. k \in Actors
    BY DEF Actors
  <1>t. /\ act \in [Actors -> ActorRecord] /\ handle.client \in Connections
        /\ DOMAIN drains = {"ack", "timeouts", "id", "events"} /\ drains.ack \in Nat /\ drains.id \in Nat
    BY DEF HookInv, LiveInv, ActorsFit, HookTypeOK
  <1>1. UNCHANGED <<app, handle, trace>> /\ strays \subseteq strays' /\ act[k].at = "awaiting"
    BY DEF Unhooks, Strayed, At
  <1> DEFINE what == IF act[k].uninstall THEN "uninstall" ELSE "disable"
             e == [by |-> k, what |-> what, ack |-> drains.ack, on |-> handle.client]
  <1>2. e \in Expression /\ e.by = k /\ e.what # "install"
    BY <1>0, <1>t DEF Expression, Purposes
  <1>3. /\ DOMAIN drains' = DOMAIN drains /\ drains'.ack = drains.ack /\ drains'.id \in Nat
    <2>1. drains' = [drains EXCEPT !.timeouts = 0]
      BY DEF Unhooks
    <2> QED
      BY <1>t, <2>1
  <1>4. TearsDown(k, what)
    BY DEF Unhooks
  <1>5. /\ sent' = Append(sent, e) \/ sent' = sent
        /\ \A b \in Actors \ {k} : act'[b] = act[b]
    <2> HIDE DEF what
    <2> QED
      BY <1>0, <1>t, <1>4, TearingDown
  <1> HIDE DEF e
  <1> QED
    BY <1>1, <1>2, <1>3, <1>5, SendsToHook

\* A stop sends its expression, or finds the connection taken and no hook.
LEMMA StopUnhooks ==
  ASSUME HookInv, NEW j \in Stops, Unhooks(j)
  PROVE  HookTypeOK' /\ (strays' = {} => HookFits')
  <1>0. j \in Actors /\ j \notin Starts /\ Starts \subseteq Actors /\ Stops \subseteq Actors
    BY DEF Actors
  <1>t. /\ act \in [Actors -> ActorRecord] /\ handle.client \in Connections /\ HookTypeOK
        /\ DOMAIN drains = {"ack", "timeouts", "id", "events"} /\ drains.ack \in Nat /\ drains.id \in Nat
    BY DEF HookInv, LiveInv, ActorsFit, HookTypeOK
  <1>1. /\ UNCHANGED <<app, handle, trace>> /\ strays \subseteq strays' /\ act[j].at = "awaiting"
        /\ drains' = [drains EXCEPT !.timeouts = 0]
        /\ strays' = {} /\ handle.client = Nobody => app.hook = "none"
    BY DEF Unhooks, Strayed, At, MayHook
  <1> DEFINE what == IF act[j].uninstall THEN "uninstall" ELSE "disable"
             e == [by |-> j, what |-> what, ack |-> drains.ack, on |-> handle.client]
  <1>2. e \in Expression /\ e.by = j /\ e.what = what /\ e.what # "install"
    BY <1>0, <1>t DEF Expression, Purposes
  <1>3. /\ \A b \in Actors \ {j} : act'[b] = act[b]
        /\ act'[j].hook = act[j].hook /\ act'[j].uninstall = act[j].uninstall
        /\ \/ handle.client = Nobody /\ act'[j].at = "closing" /\ sent' = sent
           \/ /\ handle.client # Nobody /\ act'[j].at = "unhooking" /\ act'[j].gone = act[j].gone
              /\ sent' = Append(sent, e)
    <2>1. TearsDown(j, what)
      BY DEF Unhooks
    <2> HIDE DEF what
    <2> QED
      BY <1>0, <1>t, <2>1, TearingDown
  <1>4. what = IF act[j].uninstall THEN "uninstall" ELSE "disable"
    OBVIOUS
  <1> HIDE DEF e, what
  <1>5. /\ sent' \in Seq(Expression)
        /\ sent' = sent => InTransit' = InTransit
        /\ sent' = Append(sent, e) => InTransit' = InTransit \cup {e}
    <2>1. CASE sent' = sent
      <3>1. InTransit' = InTransit /\ sent' \in Seq(Expression)
        BY <1>t, <2>1 DEF HookTypeOK, InTransit
      <3>2. sent' = Append(sent, e) => InTransit' = InTransit \cup {e}
        BY <1>2, <1>t, SentGrows DEF HookTypeOK
      <3> QED
        BY <3>1, <3>2
    <2>2. CASE sent' # sent
      BY <1>2, <1>3, <1>t, <2>2, SentGrows DEF HookTypeOK
    <2> QED
      BY <2>1, <2>2
  <1>6. HookTypeOK'
    BY <1>t, <1>1, <1>5 DEF HookTypeOK
  <1>7. ASSUME strays' = {}
        PROVE  HookFits'
    <2>1. HookFits
      BY <1>1, <1>7, HookContext
    <2>2. \A r \in InTransit' : r \in InTransit \/ (r = e /\ act'[j].at = "unhooking")
      BY <1>3, <1>5
    <2>3. StartsFit'
      <3>1. \A k \in Starts : act'[k] = act[k]
        BY <1>0, <1>3
      <3> QED
        BY <1>1, <1>2, <2>1, <2>2, <3>1 DEF HookFits, StartsFit, At, Busy
    <2>4. ~act[j].gone /\ (act[j].hook \/ handle.client = Nobody) /\ \A r \in InTransit : r.by # j
      BY <1>1, <2>1 DEF HookFits, StopsFit, At
    <2>5. StopsFit'
      <3>1. ASSUME NEW i \in Stops, i # j
            PROVE  act'[i] = act[i] /\ \A r \in InTransit' : r.by = i => r \in InTransit
        BY <1>0, <1>2, <1>3, <2>2, <3>1
      <3>2. /\ \A r \in InTransit' :
                  r.by = j => r.what = IF act'[j].uninstall THEN "uninstall" ELSE "disable"
            /\ act'[j].at \in {"unhooking", "closing"}
            /\ app'.hook # "none" => act'[j].hook /\ ~act'[j].gone
        BY <1>1, <1>2, <1>3, <1>4, <1>7, <2>2, <2>4
      <3>3. ASSUME NEW i \in Stops
            PROVE  /\ act'[i].at \in {"idle", "awaiting"} =>
                        ~act'[i].gone /\ \A r \in InTransit' : r.by # i
                   /\ act'[i].at = "awaiting" => act'[i].hook \/ handle'.client = Nobody
                   /\ act'[i].at = "unhooking" =>
                         \A r \in InTransit' :
                            r.by = i => r.what = IF act'[i].uninstall THEN "uninstall" ELSE "disable"
                   /\ act'[i].at = "unhooked" /\ act'[i].uninstall => app'.hook = "none"
                   /\ act'[i].at \in {"unhooking", "unhooked", "closing"} /\ app'.hook # "none"
                         => act'[i].hook /\ ~act'[i].gone
        <4>1. CASE i = j
          BY <3>2, <4>1
        <4>2. CASE i # j
          BY <1>1, <2>1, <3>1, <4>2 DEF HookFits, StopsFit, At
        <4> QED
          BY <4>1, <4>2
      <3> QED
        BY <3>3 DEF StopsFit, At
    <2>6. EndFits'
      BY <1>1, <2>1 DEF HookFits, EndFits
    <2> QED
      BY <2>3, <2>5, <2>6 DEF HookFits
  <1> QED
    BY <1>6, <1>7

\* A stop begins, or ends where nothing runs.
LEMMA StopsOverHook ==
  ASSUME HookInv, NEW j \in Stops,
         StopsIdle(j) \/ \E uninstall \in BOOLEAN : StopsTrace(j, uninstall)
  PROVE  HookTypeOK' /\ (strays' = {} => HookFits')
  <1>0. j \in Actors /\ j \notin Starts /\ Starts \subseteq Actors /\ Stops \subseteq Actors
    BY DEF Actors
  <1>t. /\ act \in [Actors -> ActorRecord] /\ HookTypeOK
        /\ UNCHANGED <<app, handle, drains, sent>> /\ act[j].at = "idle"
    BY DEF HookInv, LiveInv, ActorsFit, StopsIdle, StopsTrace, At
  <1>1. HookTypeOK' /\ InTransit' = InTransit
    BY <1>t DEF HookTypeOK, InTransit
  <1>2. strays \subseteq strays'
    BY DEF StopsIdle, StopsTrace, Strayed
  <1>3. /\ act' \in [Actors -> ActorRecord] /\ \A b \in Actors \ {j} : act'[b] = act[b]
        /\ \/ act'[j].at = "done"
           \/ /\ act'[j].at = "awaiting" /\ act'[j].gone = act[j].gone
              /\ act'[j].hook \/ handle.client = Nobody
    <2>1. CASE StopsIdle(j)
      BY <1>0, <1>t, <2>1, ActorSet DEF StopsIdle, TracePcs, StartPcs
    <2>2. ASSUME NEW uninstall \in BOOLEAN, StopsTrace(j, uninstall)
          PROVE  /\ act' \in [Actors -> ActorRecord] /\ \A b \in Actors \ {j} : act'[b] = act[b]
                 /\ act'[j].at = "awaiting" /\ act'[j].gone = act[j].gone
                 /\ act'[j].hook \/ handle.client = Nobody
      <3> DEFINE h == handle.client # Nobody
      <3>1. h \in BOOLEAN /\ (h \/ handle.client = Nobody)
        OBVIOUS
      <3>2. act' = [act EXCEPT ![j].at = "awaiting", ![j].uninstall = uninstall, ![j].hook = h]
        BY <2>2 DEF StopsTrace
      <3> HIDE DEF h
      <3>3. "awaiting" \in TracePcs
        BY DEF TracePcs, StopPcs
      <3>4. /\ act' \in [Actors -> ActorRecord] /\ act'[j].at = "awaiting"
            /\ act'[j].hook = h /\ act'[j].gone = act[j].gone
            /\ \A b \in Actors \ {j} : act'[b] = act[b]
        BY <1>0, <1>t, <3>1, <3>2, <3>3, ActorStops
      <3> QED
        BY <3>1, <3>4
    <2> QED
      BY <2>1, <2>2
  <1>4. ASSUME strays' = {}
        PROVE  HookFits'
    <2>1. HookFits
      BY <1>2, <1>4, HookContext
    <2>2. StartsFit'
      <3>1. \A k \in Starts : act'[k] = act[k]
        BY <1>0, <1>3
      <3> QED
        BY <1>1, <1>t, <2>1, <3>1 DEF HookFits, StartsFit, At, Busy
    <2>3. StopsFit'
      <3>1. ~act[j].gone /\ \A r \in InTransit : r.by # j
        BY <1>t, <2>1 DEF HookFits, StopsFit
      <3> QED
        BY <1>0, <1>1, <1>3, <1>t, <2>1, <3>1 DEF HookFits, StopsFit, At
    <2>4. EndFits'
      <3>1. CASE trace' = trace
        BY <1>t, <2>1, <3>1 DEF HookFits, EndFits
      <3>2. CASE trace' # trace /\ StopsIdle(j)
        <4>1. Strayed(MayHook)
          BY <3>2 DEF StopsIdle
        <4>2. app.hook = "none"
          BY <1>4, <4>1 DEF Strayed, MayHook
        <4> QED
          BY <1>t, <4>2 DEF EndFits
      <3>3. CASE ~StopsIdle(j)
        <4> DEFINE h == handle.client # Nobody
        <4>1. trace' = [state |-> "stopping", remains |-> h]
          BY <3>3 DEF StopsTrace, Posts
        <4> HIDE DEF h
        <4> QED
          BY <4>1 DEF EndFits
      <3> QED
        BY <3>1, <3>2, <3>3
    <2> QED
      BY <2>2, <2>3, <2>4 DEF HookFits
  <1> QED
    BY <1>1, <1>4

\* The expression was answered, or is given up.
LEMMA LeavesOverHook ==
  ASSUME HookInv, NEW a \in Actors, NEW answered \in BOOLEAN, LeavesHook(a, answered)
  PROVE  HookTypeOK' /\ (strays' = {} => HookFits')
  <1>0. Starts \subseteq Actors /\ Stops \subseteq Actors /\ Starts \cap Stops = {}
    BY DEF Actors
  <1>t. /\ act \in [Actors -> ActorRecord] /\ HookTypeOK /\ handle.client \in Connections
        /\ UNCHANGED <<app, drains, sent, strays, trace>>
        /\ handle \in [tunnel : Connections, client : Connections]
        /\ handle' = [handle EXCEPT !.client = Nobody]
        /\ act[a].at \in {"unhooking", "unhooked"} /\ (answered => act[a].at = "unhooked")
    BY DEF HookInv, LiveInv, ActorsFit, LeavesHook, At
  <1>1. HookTypeOK' /\ InTransit' = InTransit /\ handle'.client = Nobody
    BY <1>t DEF HookTypeOK, InTransit
  <1> DEFINE g == answered /\ act[a].uninstall
  <1>2. g \in BOOLEAN /\ act' = [act EXCEPT ![a].at = "closing", ![a].on = handle.client, ![a].gone = g]
    <2>1. act[a].uninstall \in BOOLEAN
      BY <1>t DEF ActorRecord
    <2> QED
      BY <2>1 DEF LeavesHook
  <1>3. g => act[a].at = "unhooked" /\ act[a].uninstall
    BY <1>t
  <1> HIDE DEF g
  <1>4. /\ act'[a].at = "closing" /\ act'[a].hook = act[a].hook /\ act'[a].gone = g
        /\ \A b \in Actors \ {a} : act'[b] = act[b]
    BY <1>t, <1>2, ActorClosesOff
  <1>5. ASSUME strays' = {}
        PROVE  HookFits'
    <2>1. HookFits
      BY <1>t, <1>5, HookContext
    <2>2. StartsFit'
      BY <1>0, <1>1, <1>4, <1>t, <2>1 DEF HookFits, StartsFit, At, Busy, Resting
    <2>3. StopsFit'
      <3>1. a \in Stops /\ app.hook # "none" => act'[a].hook /\ ~act'[a].gone
        BY <1>3, <1>4, <1>t, <2>1 DEF HookFits, StopsFit, At
      <3> QED
        BY <1>0, <1>1, <1>4, <1>t, <2>1, <3>1 DEF HookFits, StopsFit, At
    <2>4. EndFits'
      BY <1>t, <2>1 DEF HookFits, EndFits
    <2> QED
      BY <2>2, <2>3, <2>4 DEF HookFits
  <1> QED
    BY <1>1, <1>5

LEMMA EndsOverHook ==
  ASSUME HookInv, NEW a \in Actors, Closes(a)
  PROVE  HookTypeOK' /\ (strays' = {} => HookFits')
  <1>0. /\ Starts \subseteq Actors /\ Stops \subseteq Actors /\ Starts \cap Stops = {}
        /\ Drain \notin Starts /\ Drain \notin Stops /\ Actors = Starts \cup Stops \cup {Drain}
    BY DEF Actors
  <1>t. /\ act \in [Actors -> ActorRecord] /\ HookTypeOK /\ handle \in [tunnel : Connections, client : Connections]
        /\ UNCHANGED <<app, drains, sent, strays>>
        /\ handle' = [handle EXCEPT !.tunnel = Nobody]
        /\ act[a].at = "closing"
    BY DEF HookInv, LiveInv, ActorsFit, Closes, At
  <1>1. HookTypeOK' /\ InTransit' = InTransit /\ handle'.client = handle.client
    BY <1>t DEF HookTypeOK, InTransit
  <1>2. /\ act' \in [Actors -> ActorRecord]
        /\ \A b \in Actors \ {a} : act'[b] = act[b]
        /\ act'[a].at = IF a = Drain THEN "idle" ELSE "done"
    BY <1>0, <1>t, ActorSet DEF Closes, TracePcs, StopPcs
  <1>3. ASSUME strays' = {}
        PROVE  HookFits'
    <2>1. HookFits
      BY <1>t, <1>3, HookContext
    <2>2. StartsFit'
      BY <1>0, <1>1, <1>2, <1>t, <2>1 DEF HookFits, StartsFit, At, Busy, Resting
    <2>3. StopsFit'
      BY <1>0, <1>1, <1>2, <1>t, <2>1 DEF HookFits, StopsFit, At
    <2>4. EndFits'
      <3>1. CASE a \in Starts
        <4>1. app.hook = "none"
          BY <1>t, <2>1, <3>1 DEF HookFits, StartsFit, Busy, Resting
        <4> QED
          BY <1>t, <4>1 DEF EndFits
      <3>2. CASE a \in Stops
        <4>1. trace' = [state |-> "stopped", remains |-> act[a].hook /\ ~act[a].gone]
          BY <1>0, <3>2 DEF Closes, PostsEnd, Posts
        <4>2. app.hook # "none" => act[a].hook /\ ~act[a].gone
          BY <1>t, <2>1, <3>2 DEF HookFits, StopsFit
        <4> QED
          BY <1>t, <4>1, <4>2 DEF EndFits
      <3>3. CASE a = Drain
        BY <1>0, <3>3 DEF Closes, PostsEnd, Posts, EndFits
      <3> QED
        BY <1>0, <3>1, <3>2, <3>3
    <2> QED
      BY <2>2, <2>3, <2>4 DEF HookFits
  <1> QED
    BY <1>1, <1>3

----------------------------------------------------------------------------
\* The application runs an expression: only an installation brings a hook.
LEMMA DrainKeepsHook ==
  ASSUME HookTypeOK, NEW ack \in Nat
  PROVE  /\ DOMAIN Drained(ack) = DOMAIN app /\ Drained(ack).hook = app.hook
         /\ Drained(ack).id \in Nat /\ Drained(ack).next \in Nat
  <1>1. ASSUME NEW q
        PROVE  /\ DOMAIN [app EXCEPT !.queue = q, !.id = NoDrain, !.pending = <<>>] = DOMAIN app
               /\ [app EXCEPT !.queue = q, !.id = NoDrain, !.pending = <<>>].hook = app.hook
               /\ [app EXCEPT !.queue = q, !.id = NoDrain, !.pending = <<>>].id \in Nat
               /\ [app EXCEPT !.queue = q, !.id = NoDrain, !.pending = <<>>].next \in Nat
    BY DEF HookTypeOK, NoDrain
  <1>2. ASSUME NEW q, NEW b
        PROVE  /\ DOMAIN [app EXCEPT !.queue = q, !.pending = b, !.id = app.next, !.next = app.next + 1] = DOMAIN app
               /\ [app EXCEPT !.queue = q, !.pending = b, !.id = app.next, !.next = app.next + 1].hook = app.hook
               /\ [app EXCEPT !.queue = q, !.pending = b, !.id = app.next, !.next = app.next + 1].id \in Nat
               /\ [app EXCEPT !.queue = q, !.pending = b, !.id = app.next, !.next = app.next + 1].next \in Nat
    BY DEF HookTypeOK
  <1> DEFINE kept == IF Acknowledges(ack) THEN Filtered(app.queue, ToSet(app.pending))
                     ELSE app.queue
             batch == SubSeq(kept, 1, IF Len(kept) < BatchSize THEN Len(kept) ELSE BatchSize)
  <1>3. Drained(ack) = IF app.id # NoDrain /\ ~Acknowledges(ack) THEN app
                       ELSE IF batch = <<>> THEN [app EXCEPT !.queue = kept, !.id = NoDrain, !.pending = <<>>]
                       ELSE [app EXCEPT !.queue = kept, !.pending = batch, !.id = app.next, !.next = app.next + 1]
    BY DEF Drained
  <1> HIDE DEF kept, batch
  <1>4. \/ Drained(ack) = app
        \/ Drained(ack) = [app EXCEPT !.queue = kept, !.id = NoDrain, !.pending = <<>>]
        \/ Drained(ack) = [app EXCEPT !.queue = kept, !.pending = batch, !.id = app.next, !.next = app.next + 1]
    BY <1>3
  <1>5. app.id \in Nat /\ app.next \in Nat
    BY DEF HookTypeOK
  <1>6. CASE Drained(ack) = app
    BY <1>5, <1>6
  <1>7. CASE Drained(ack) = [app EXCEPT !.queue = kept, !.id = NoDrain, !.pending = <<>>]
    <2> DEFINE y == [app EXCEPT !.queue = kept, !.id = NoDrain, !.pending = <<>>]
    <2>1. DOMAIN y = DOMAIN app /\ y.hook = app.hook /\ y.id \in Nat /\ y.next \in Nat
      BY <1>1
    <2> HIDE DEF y
    <2>2. Drained(ack) = y
      BY <1>7 DEF y
    <2> QED
      BY <2>1, <2>2
  <1>8. CASE Drained(ack) = [app EXCEPT !.queue = kept, !.pending = batch, !.id = app.next, !.next = app.next + 1]
    <2> DEFINE y == [app EXCEPT !.queue = kept, !.pending = batch, !.id = app.next, !.next = app.next + 1]
    <2>1. DOMAIN y = DOMAIN app /\ y.hook = app.hook /\ y.id \in Nat /\ y.next \in Nat
      BY <1>2
    <2> HIDE DEF y
    <2>2. Drained(ack) = y
      BY <1>8 DEF y
    <2> QED
      BY <2>1, <2>2
  <1> QED
    BY <1>4, <1>6, <1>7, <1>8

LEMMA HookRuns ==
  ASSUME HookTypeOK, NEW r \in Expression, app' = Hooked(r.what, r.ack)
  PROVE  /\ DOMAIN app' = DOMAIN app /\ app'.id \in Nat /\ app'.next \in Nat
         /\ app'.hook # "none" => app.hook # "none" \/ r.what = "install"
         /\ r.what = "uninstall" => app'.hook = "none"
  <1>1. r.what \in Purposes /\ r.ack \in Nat
    BY DEF Expression
  <1>0. /\ DOMAIN app = {"hook", "queue", "served", "pending", "id", "next"}
        /\ app.id \in Nat /\ app.next \in Nat
    BY DEF HookTypeOK
  <1>2. CASE r.what = "install"
    <2>1. app' = [app EXCEPT !.hook = "on", !.queue = <<>>, !.pending = <<>>, !.id = NoDrain, !.next = 1]
      BY <1>2 DEF Hooked
    <2>2. DOMAIN app' = DOMAIN app /\ app'.id = NoDrain /\ app'.next = 1
      BY <1>0, <2>1
    <2> QED
      BY <1>2, <2>2 DEF NoDrain
  <1>3. CASE r.what = "uninstall"
    <2>1. app' = [app EXCEPT !.hook = "none", !.queue = <<>>, !.pending = <<>>, !.id = NoDrain]
      BY <1>3 DEF Hooked
    <2>2. DOMAIN app' = DOMAIN app /\ app'.id = NoDrain /\ app'.next = app.next /\ app'.hook = "none"
      BY <1>0, <2>1
    <2> QED
      BY <1>0, <1>3, <2>2 DEF NoDrain
  <1>4. CASE r.what = "disable"
    <2>1. app' = [app EXCEPT !.hook = IF app.hook = "none" THEN "none" ELSE "off"]
      BY <1>4 DEF Hooked
    <2> QED
      BY <1>4, <2>1 DEF HookTypeOK
  <1>5. CASE r.what = "drain"
    <2>1. app' = Drained(r.ack)
      BY <1>5 DEF Hooked
    <2> QED
      BY <1>1, <1>5, <2>1, DrainKeepsHook
  <1> QED
    BY <1>1, <1>2, <1>3, <1>4, <1>5 DEF Purposes

\* What the application does to a hook, its step may do.
LEMMA AppKeepsHook ==
  ASSUME Orderly, HookFits, act \in [Actors -> ActorRecord],
         UNCHANGED <<trace, handle>>, InTransit' \subseteq InTransit,
         \A b \in Actors :
              /\ act'[b].on = act[b].on /\ act'[b].hook = act[b].hook
              /\ act'[b].uninstall = act[b].uninstall /\ act'[b].gone = act[b].gone
              /\ \/ act'[b].at = act[b].at
                 \/ act[b].at = "installing" /\ act'[b].at = "installed"
                 \/ act[b].at = "draining" /\ act'[b].at = "drained"
                 \/ act[b].at = "unhooking" /\ act'[b].at = "unhooked",
         \A b \in Actors : act'[b].at # act[b].at =>
              /\ \A r \in InTransit' : r.by # b
              /\ b \in Stops /\ act[b].uninstall => app'.hook = "none",
         app'.hook # "none" => app.hook # "none" \/ \E k \in Starts : At(k, "installing")
  PROVE  HookFits'
  <1>0. Starts \subseteq Actors /\ Stops \subseteq Actors
    BY DEF Actors
  <1>1. ASSUME NEW k \in Starts, At(k, "installing")
        PROVE  /\ \A l \in Starts : Busy(l) => l = k
               /\ \A j \in Stops : ~Busy(j)
               /\ trace.state = "starting"
    <2>1. Busy(k) /\ act[k].at \in Unstoppable
      BY <1>1 DEF At, Busy, Resting, Unstoppable
    <2> QED
      BY <2>1, OnItsWay
  <1>2. StartsFit'
    <2>1. \A r \in InTransit' : r.what = "install" => r.by \in Starts /\ At(r.by, "installing")'
      BY <1>0 DEF HookFits, StartsFit, At
    <2>2. ASSUME NEW k \in Starts, Busy(k)', act'[k].at \notin {"installing", "installed"}
          PROVE  app'.hook = "none"
      <3>1. Busy(k) /\ act[k].at \notin {"installing", "installed"}
        BY <1>0, <2>2 DEF Busy, Resting
      <3>2. app.hook = "none" /\ ~\E l \in Starts : At(l, "installing")
        BY <1>1, <3>1 DEF HookFits, StartsFit, At
      <3> QED
        BY <3>2
    <2> QED
      BY <2>1, <2>2 DEF StartsFit
  <1>3. ASSUME NEW j \in Stops, act'[j].at \in {"unhooking", "unhooked", "closing"}, app'.hook # "none"
        PROVE  /\ act'[j].hook /\ ~act'[j].gone
               /\ act'[j].at = "unhooked" => ~act'[j].uninstall
    <2>1. act[j].at \in {"unhooking", "unhooked", "closing"} /\ Busy(j)
      BY <1>0, <1>3 DEF Busy, Resting
    <2>2. app.hook # "none"
      BY <1>1, <1>3, <2>1
    <2>3. act[j].hook /\ ~act[j].gone
      BY <2>1, <2>2 DEF HookFits, StopsFit
    <2>4. act'[j].at = "unhooked" => ~act[j].uninstall
      <3>1. CASE act'[j].at = act[j].at
        <4>1. act[j].at = "unhooked" /\ act[j].uninstall => app.hook = "none"
          BY DEF HookFits, StopsFit, At
        <4> QED
          BY <2>2, <3>1, <4>1
      <3>2. CASE act'[j].at # act[j].at
        BY <1>0, <1>3, <3>2
      <3> QED
        BY <3>1, <3>2
    <2> QED
      BY <1>0, <2>3, <2>4
  <1>4. StopsFit'
    <2>1. ASSUME NEW j \in Stops
          PROVE  /\ act'[j].at \in {"idle", "awaiting"} =>
                      ~act'[j].gone /\ \A r \in InTransit' : r.by # j
                 /\ act'[j].at = "awaiting" => act'[j].hook \/ handle'.client = Nobody
                 /\ act'[j].at = "unhooking" =>
                       \A r \in InTransit' :
                          r.by = j => r.what = IF act'[j].uninstall THEN "uninstall" ELSE "disable"
      <3>1. act'[j].at \in {"idle", "awaiting", "unhooking"} => act[j].at = act'[j].at
        BY <1>0
      <3>2. /\ act'[j].hook = act[j].hook /\ act'[j].uninstall = act[j].uninstall
            /\ act'[j].gone = act[j].gone
        BY <1>0
      <3> QED
        BY <3>1, <3>2 DEF HookFits, StopsFit, At
    <2> QED
      BY <1>3, <2>1 DEF StopsFit, At
  <1>5. EndFits'
    <2>1. trace.state \in {"stopped", "error"} /\ app'.hook # "none" => app.hook # "none"
      BY <1>1
    <2> QED
      BY <2>1 DEF HookFits, EndFits
  <1> QED
    BY <1>2, <1>4, <1>5 DEF HookFits

LEMMA AppHooks ==
  ASSUME HookInv, AppRuns \/ Serves \/ Vanishes
  PROVE  HookTypeOK' /\ (strays' = {} => HookFits')
  <1>t. /\ act \in [Actors -> ActorRecord] /\ HookTypeOK
        /\ UNCHANGED <<trace, handle, strays>>
    BY DEF HookInv, LiveInv, ActorsFit, AppRuns, Serves, Vanishes
  <1>1. /\ act' \in [Actors -> ActorRecord]
        /\ \A b \in Actors :
              /\ act'[b].on = act[b].on /\ act'[b].hook = act[b].hook
              /\ act'[b].uninstall = act[b].uninstall /\ act'[b].gone = act[b].gone
              /\ \/ act'[b].at = act[b].at
                 \/ act[b].at = "installing" /\ act'[b].at = "installed"
                 \/ act[b].at = "draining" /\ act'[b].at = "drained"
                 \/ act[b].at = "unhooking" /\ act'[b].at = "unhooked"
    BY <1>t, AppMoves
  <1>2. CASE Serves
    <2>1. UNCHANGED <<act, sent, drains>> /\ InTransit' = InTransit
      BY <1>2 DEF Serves, InTransit
    <2>2. DOMAIN app' = DOMAIN app /\ app'.hook = app.hook /\ app'.id = app.id /\ app'.next = app.next
      <3> DEFINE q == IF app.hook # "on" THEN app.queue
                      ELSE Append(IF Len(app.queue) >= QueueSize THEN Tail(app.queue) ELSE app.queue,
                                  app.served + 1)
      <3>1. app' = [app EXCEPT !.served = app.served + 1, !.queue = q]
        BY <1>2 DEF Serves
      <3> HIDE DEF q
      <3> QED
        BY <1>t, <3>1 DEF HookTypeOK
    <2>3. HookTypeOK'
      BY <1>t, <2>1, <2>2 DEF HookTypeOK
    <2>4. strays' = {} => HookFits'
      BY <1>t, <1>1, <2>1, <2>2, HookContext, AppKeepsHook
    <2> QED
      BY <2>3, <2>4
  <1>3. CASE Vanishes
    <2>1. UNCHANGED <<act, app, drains>> /\ sent # <<>> /\ sent' = Tail(sent)
      BY <1>3 DEF Vanishes
    <2>2. sent' \in Seq(Expression) /\ InTransit' \subseteq InTransit
      BY <1>t, <2>1, SentShrinks DEF HookTypeOK
    <2>3. HookTypeOK'
      BY <1>t, <2>1, <2>2 DEF HookTypeOK
    <2>4. strays' = {} => HookFits'
      BY <1>t, <1>1, <2>1, <2>2, HookContext, AppKeepsHook
    <2> QED
      BY <2>3, <2>4
  <1>4. CASE AppRuns
    <2> DEFINE r == Head(sent)
    <2>1. sent # <<>> /\ sent' = Tail(sent) /\ app' = Hooked(r.what, r.ack)
      BY <1>4 DEF AppRuns
    <2>2. /\ sent' \in Seq(Expression) /\ InTransit' \subseteq InTransit
          /\ r \in InTransit /\ r \in Expression
          /\ (~\E i \in 2..Len(sent) : sent[i].by = r.by) => \A s \in InTransit' : s.by # r.by
      BY <1>t, <2>1, SentShrinks DEF HookTypeOK
    <2>3. \/ Hears(r) /\ (drains' = drains \/ drains' = [drains EXCEPT !.timeouts = 0, !.id = app'.id, !.events = app'.pending])
          \/ act' = act /\ drains' = drains
      BY <1>4 DEF AppRuns
    <2> HIDE DEF r
    <2>4. /\ DOMAIN app' = DOMAIN app /\ app'.id \in Nat /\ app'.next \in Nat
          /\ app'.hook # "none" => app.hook # "none" \/ r.what = "install"
          /\ r.what = "uninstall" => app'.hook = "none"
      BY <1>t, <2>1, <2>2, HookRuns
    <2>5. HookTypeOK'
      <3>1. DOMAIN drains' = DOMAIN drains /\ drains'.ack = drains.ack /\ drains'.id \in Nat
        <4>1. CASE drains' = drains
          BY <1>t, <4>1 DEF HookTypeOK
        <4>2. CASE drains' = [drains EXCEPT !.timeouts = 0, !.id = app'.id, !.events = app'.pending]
          BY <1>t, <2>4, <4>2 DEF HookTypeOK
        <4> QED
          BY <2>3, <4>1, <4>2
      <3> QED
        BY <1>t, <2>2, <2>4, <3>1 DEF HookTypeOK
    <2>6. ASSUME strays' = {}
          PROVE  HookFits'
      <3>1. Orderly /\ HookFits
        BY <1>t, <2>6, HookContext
      <3>2. ASSUME NEW b \in Actors, act'[b].at # act[b].at
            PROVE  /\ \A s \in InTransit' : s.by # b
                   /\ b \in Stops /\ act[b].uninstall => app'.hook = "none"
        <4>1. Hears(r)
          BY <2>3, <3>2
        <4>2. b = r.by /\ \A s \in InTransit' : s.by # b
          BY <1>t, <2>2, <3>2, <4>1 DEF Hears
        <4>3. ASSUME b \in Stops, act[b].uninstall
              PROVE  app'.hook = "none"
          <5>1. act[b].at \in StopPcs
            BY <4>3 DEF HookInv, LiveInv, ActorsFit
          <5>2. act[b].at = "unhooking"
            BY <1>1, <3>2, <5>1 DEF StopPcs
          <5>3. r.what = "uninstall"
            BY <2>2, <3>1, <4>2, <4>3, <5>2 DEF HookFits, StopsFit, At
          <5> QED
            BY <2>4, <5>3
        <4> QED
          BY <4>2, <4>3
      <3>3. app'.hook # "none" => app.hook # "none" \/ \E k \in Starts : At(k, "installing")
        BY <2>2, <2>4, <3>1 DEF HookFits, StartsFit
      <3> QED
        BY <1>t, <1>1, <2>2, <3>1, <3>2, <3>3, AppKeepsHook
    <2> QED
      BY <2>5, <2>6
  <1> QED
    BY <1>2, <1>3, <1>4

LEMMA HookSteps == HookInv /\ [TraceNext]_tracevars => HookInv'
  <1> SUFFICES ASSUME HookInv, [TraceNext]_tracevars PROVE HookInv'
    OBVIOUS
  <1>1. LiveInv'
    BY LiveSteps DEF HookInv
  <1>2. HookTypeOK' /\ (strays' = {} => HookFits')
    <2>1. CASE UNCHANGED tracevars
      <3>1. InTransit' = InTransit
        BY <2>1 DEF tracevars, InTransit
      <3> QED
        BY <2>1, <3>1 DEF tracevars, HookInv, HookTypeOK, HookFits, StartsFit, StopsFit, EndFits, At, Busy
    <2>2. /\ Starts \subseteq Actors /\ Stops \subseteq Actors /\ Drain \in Actors
      BY DEF Actors
    <2>3. CASE \E k \in Starts : \/ StartsTrace(k) \/ Prepares(k) \/ StopsLateTunnel(k)
                                 \/ TunnelOpens(k) \/ StartFails(k) \/ Attaches(k) \/ Streams(k)
      BY <2>2, <2>3, StartsOverNoHook, StartsHook, GoesOnOverHook
    <2>4. CASE StartsDrain \/ HandsOver \/ DrainFails \/ DrainTimesOut
      BY <2>2, <2>4, DrainSends, GoesOnOverHook
    <2>5. CASE \E k \in Stops : StopsIdle(k) \/ \E uninstall \in BOOLEAN : StopsTrace(k, uninstall)
      BY <2>5, StopsOverHook
    <2>6. CASE \E a \in Starts \cup Stops : Unhooks(a)
      BY <2>6, StartUnhooks, StopUnhooks
    <2>7. CASE \E a \in Actors : (\E answered \in BOOLEAN : LeavesHook(a, answered)) \/ Closes(a)
      BY <2>7, LeavesOverHook, EndsOverHook
    <2>8. CASE Serves \/ AppRuns \/ Vanishes
      BY <2>8, AppHooks
    <2> QED
      BY <2>1, <2>3, <2>4, <2>5, <2>6, <2>7, <2>8 DEF TraceNext
  <1> QED
    BY <1>1, <1>2 DEF HookInv

\* "the runtime hook can remain disabled or installed until the app process restarts.
\* Progress events report this state" (README.md:223): a session at rest, stopped or failed,
\* whose last state does not say that a hook remains has left none in the application,
\* unless it said so without having looked.
THEOREM NoHookGoesUnreported == TraceSpec => []HookIsReported
  <1>1. HookInv => HookIsReported
    BY DEF HookInv, HookFits, EndFits, HookIsReported
  <1> QED
    BY <1>1, HookBegins, HookSteps, PTL DEF TraceSpec

(***************************************************************************)
(* What is handed to onEvents.                                             *)
(***************************************************************************)
Among(e, s) == \E i \in 1..Len(s) : s[i] = e
Beyond(e, s) == \A i \in 1..Len(s) : s[i] < e
Served(s) == s \in Seq(Nat) /\ \A i \in 1..Len(s) : s[i] <= app.served

\* Events are numbered as they come, and an event in the queue is in the pending drain or
\* newer than all of that and of what was handed over.
QueueFits ==
    /\ app.served \in Nat
    /\ Served(app.queue) /\ Served(app.pending) /\ Served(delivered)
    /\ Ascending(app.queue) /\ Ascending(app.pending) /\ Ascending(delivered)
    /\ app.id < app.next
    /\ app.id = NoDrain => app.pending = <<>>
    /\ \A i \in 1..Len(app.queue) :
          \/ Among(app.queue[i], app.pending)
          \/ Beyond(app.queue[i], app.pending) /\ Beyond(app.queue[i], delivered)

ForgottenFits == \A e \in forgotten : Among(e, delivered)

PendingIsDelivered == \A i \in 1..Len(app.pending) : Among(app.pending[i], delivered)
PendingIsNew == \A i \in 1..Len(app.pending) : Beyond(app.pending[i], delivered)

\* A drain on its way acknowledges what was handed over, if anything, and is not of a
\* session that an installation on its way begins.
SentFits ==
    /\ \A i \in 1..Len(sent) : sent[i].what = "drain" =>
          /\ sent[i].ack < app.next
          /\ sent[i].ack # NoDrain /\ sent[i].ack = app.id => PendingIsDelivered
    /\ \A i, j \in 1..Len(sent) : i < j /\ sent[i].what = "install" => sent[j].what # "drain"

\* While a session streams only its drains are on their way, and they acknowledge the last
\* that was handed over.
InSession ==
    \/ act[Drain].at \in {"draining", "drained"}
    \/ trace.state = "streaming" /\ act[Drain].at = "idle"

DrainsFit ==
    InSession =>
        /\ \A i \in 1..Len(sent) :
              sent[i].what = "drain" /\ sent[i].by = Drain /\ sent[i].ack = drains.ack
        /\ drains.ack < app.next
        /\ drains.ack = app.id => PendingIsDelivered
        /\ drains.ack # app.id => PendingIsNew

\* What was heard is the pending drain, which was not handed over yet.
AnswerFits ==
    act[Drain].at = "drained" =>
        /\ sent = <<>> /\ drains.id = app.id /\ drains.events = app.pending
        /\ app.id # NoDrain => drains.ack # app.id

\* A start waits for the last expression that was sent.
OnlyInstalls(k) ==
    \A i \in 1..Len(sent) : sent[i].by = k => i = Len(sent) /\ sent[i].what = "install"
Silent(k) == \A i \in 1..Len(sent) : sent[i].by # k
InstallsFit ==
    \A k \in Starts :
        /\ Busy(k) => drains.ack = NoDrain
        /\ act[k].at \in {"idle", "preparing", "tunnel", "connecting"} => Silent(k)
        /\ act[k].at = "installing" => OnlyInstalls(k)
        /\ act[k].at = "installed" => sent = <<>> /\ app.id = NoDrain

DeliveryFits == QueueFits /\ ForgottenFits /\ SentFits /\ DrainsFit /\ AnswerFits /\ InstallsFit
DeliveryInv == HookInv /\ ("late" \notin strays => DeliveryFits)

LEMMA DeliveryBegins == TraceInit => DeliveryInv
  <1> SUFFICES ASSUME TraceInit PROVE DeliveryInv
    OBVIOUS
  <1>1. HookInv
    BY HookBegins
  <1>2. <<>> \in Seq(Nat) /\ Len(<<>>) = 0
    BY EmptySeq
  <1>3. QueueFits /\ ForgottenFits
    <2>1. /\ app.queue = <<>> /\ app.pending = <<>> /\ delivered = <<>> /\ app.served = 0
          /\ app.id = NoDrain /\ app.next = 1 /\ forgotten = {}
      BY DEF TraceInit
    <2> QED
      BY <1>2, <2>1 DEF QueueFits, ForgottenFits, Served, Ascending, NoDrain
  <1>4. Actor("idle").at = "idle"
    BY DEF Actor
  <1>5. \A a \in Actors : act[a].at = "idle"
    BY <1>4 DEF TraceInit
  <1>6. sent = <<>> /\ trace.state = "idle"
    BY DEF TraceInit
  <1>7. SentFits /\ DrainsFit /\ AnswerFits /\ InstallsFit
    BY <1>2, <1>5, <1>6 DEF SentFits, DrainsFit, InSession, AnswerFits, InstallsFit, Silent, Busy,
       Resting, Actors
  <1> QED
    BY <1>1, <1>3, <1>7 DEF DeliveryInv, HookInv, DeliveryFits

\* What the invariant knows of a step that is not late.
LEMMA DeliveryContext ==
  ASSUME DeliveryInv, strays \subseteq strays', "late" \notin strays'
  PROVE  Orderly /\ DeliveryFits
  BY DEF DeliveryInv, HookInv, LiveInv

\* What a step keeps that leaves the events and the expressions alone.
LEMMA EventsKept ==
  ASSUME DeliveryFits, UNCHANGED <<app, sent, delivered, forgotten>>,
         InSession' => InSession /\ drains'.ack = drains.ack,
         act'[Drain].at = "drained" => act[Drain].at = "drained" /\ drains' = drains,
         \A k \in Starts :
            /\ Busy(k)' => drains'.ack = NoDrain
            /\ act'[k].at \in {"idle", "preparing", "tunnel", "connecting"}
                  => act[k].at \in {"idle", "preparing", "tunnel", "connecting"}
            /\ act'[k].at \in {"installing", "installed"} => act'[k].at = act[k].at
  PROVE  DeliveryFits'
  <1>1. PendingIsDelivered' <=> PendingIsDelivered
    BY DEF PendingIsDelivered
  <1>2. PendingIsNew' <=> PendingIsNew
    BY DEF PendingIsNew
  <1>3. QueueFits' /\ ForgottenFits'
    BY DEF DeliveryFits, QueueFits, ForgottenFits, Served
  <1>4. SentFits'
    BY <1>1 DEF DeliveryFits, SentFits
  <1>5. DrainsFit'
    BY <1>1, <1>2 DEF DeliveryFits, DrainsFit
  <1>6. AnswerFits'
    BY DEF DeliveryFits, AnswerFits
  <1>7. InstallsFit'
    BY DEF DeliveryFits, InstallsFit, Silent, OnlyInstalls
  <1> QED
    BY <1>3, <1>4, <1>5, <1>6, <1>7 DEF DeliveryFits

\* The starts, until they send.
LEMMA StartsDeliver ==
  ASSUME DeliveryInv, NEW k \in Starts,
         StartsTrace(k) \/ Prepares(k) \/ StopsLateTunnel(k) \/ TunnelOpens(k) \/ StartFails(k)
  PROVE  "late" \notin strays' => DeliveryFits'
  <1> SUFFICES ASSUME "late" \notin strays' PROVE DeliveryFits'
    OBVIOUS
  <1>0. k \in Actors /\ Starts \subseteq Actors /\ Drain \in Actors /\ Drain \notin Starts
    BY DEF Actors
  <1>t. /\ act \in [Actors -> ActorRecord] /\ HookTypeOK
        /\ strays \subseteq strays' /\ UNCHANGED <<sent, app, delivered, forgotten>>
    BY DEF DeliveryInv, HookInv, LiveInv, ActorsFit, StartsTrace, Prepares, StopsLateTunnel, TunnelOpens,
       StartFails, Strayed
  <1>1. Orderly /\ DeliveryFits
    BY <1>t, DeliveryContext
  <1>2. \A b \in Actors \ {k} : act'[b] = act[b]
    BY <1>0, <1>t DEF StartsTrace, Prepares, StopsLateTunnel, TunnelOpens, StartFails
  <1>3. CASE StartsTrace(k)
    <2>1. act[k].at = "idle" /\ act'[k].at = "preparing" /\ trace'.state = "starting"
      BY <1>0, <1>3, <1>t, ActorMoves DEF StartsTrace, TracePcs, StartPcs, At, Posts
    <2>2. drains'.ack = NoDrain
      BY <1>3, <1>t DEF StartsTrace, HookTypeOK
    <2>3. ~Busy(Drain)
      <3>1. InProgress(Starts \cup Stops) = {} /\ trace.state # "streaming"
        BY <1>3 DEF StartsTrace, Strayed, IsRunning, Running
      <3> QED
        BY <1>1, <3>1 DEF Orderly, StateFits, InProgress, Busy
    <2>4. ~InSession' /\ act'[Drain].at # "drained"
      BY <1>0, <1>2, <2>1, <2>3 DEF InSession, Busy, Resting
    <2>5. \A l \in Starts : l # k => act'[l] = act[l]
      BY <1>0, <1>2
    <2> QED
      BY <1>t, <1>1, <2>1, <2>2, <2>4, <2>5, EventsKept
  <1>4. CASE ~StartsTrace(k)
    <2>1. /\ act[k].at \in {"preparing", "tunnel", "connecting", "installing"} /\ drains' = drains
          /\ trace' = trace \/ trace'.state = "starting"
      BY <1>4 DEF Prepares, StopsLateTunnel, TunnelOpens, StartFails, At, Posts
    <2>2. act'[k].at \in {"done", "tunnel", "connecting", "awaiting"}
          /\ (act'[k].at \in {"tunnel", "connecting"} => act[k].at \in {"preparing", "tunnel"})
      <3>1. CASE Prepares(k)
        BY <1>0, <1>t, <3>1, ActorMoves, ActorSet DEF Prepares, TracePcs, StartPcs, At
      <3>2. CASE StopsLateTunnel(k)
        BY <1>0, <1>t, <3>2, ActorSet DEF StopsLateTunnel, TracePcs, StartPcs, At
      <3>3. CASE TunnelOpens(k)
        BY <1>0, <1>t, <3>3, ActorMoves DEF TunnelOpens, TracePcs, StartPcs, At
      <3>4. CASE StartFails(k)
        <4>1. act' = [act EXCEPT ![k] = Actor("awaiting")]
          BY <3>4 DEF StartFails
        <4>2. act'[k].at = "awaiting"
          BY <1>0, <1>t, <4>1, ActorSet DEF TracePcs, StartPcs
        <4> QED
          BY <4>2
      <3> QED
        BY <1>4, <3>1, <3>2, <3>3, <3>4
    <2>3. Busy(k)
      BY <2>1 DEF Busy, Resting
    <2>4. ~Busy(Drain) /\ trace.state # "streaming"
      BY <1>1, <2>3, OnItsWay
    <2>5. ~InSession' /\ act'[Drain].at # "drained"
      BY <1>0, <1>2, <2>1, <2>4 DEF InSession, Busy, Resting
    <2>6. drains.ack = NoDrain
      BY <1>1, <2>3 DEF DeliveryFits, InstallsFit
    <2>7. \A l \in Starts : l # k => act'[l] = act[l]
      BY <1>0, <1>2
    <2> QED
      BY <1>t, <1>1, <2>1, <2>2, <2>5, <2>6, <2>7, EventsKept
  <1> QED
    BY <1>3, <1>4

\* A session begins with nothing on its way and nothing pending.
LEMMA StreamsDeliver ==
  ASSUME DeliveryInv, NEW k \in Starts, Streams(k)
  PROVE  "late" \notin strays' => DeliveryFits'
  <1> SUFFICES ASSUME "late" \notin strays' PROVE DeliveryFits'
    OBVIOUS
  <1>0. k \in Actors /\ Starts \subseteq Actors /\ Drain \in Actors /\ Drain \notin Starts
    BY DEF Actors
  <1>t. /\ act \in [Actors -> ActorRecord] /\ HookTypeOK
        /\ strays' = strays /\ UNCHANGED <<sent, app, delivered, forgotten>>
        /\ act[k].at = "installed" /\ trace'.state = "streaming"
        /\ drains' = [drains EXCEPT !.timeouts = 0]
    BY DEF DeliveryInv, HookInv, LiveInv, ActorsFit, Streams, At, Posts
  <1>1. Orderly /\ DeliveryFits /\ Busy(k)
    BY <1>t, DeliveryContext DEF Busy, Resting
  <1>2. act'[k].at = "done" /\ \A b \in Actors \ {k} : act'[b] = act[b]
    BY <1>0, <1>t, ActorSet DEF Streams, TracePcs, StartPcs
  <1>3. /\ sent = <<>> /\ app.id = NoDrain /\ drains.ack = NoDrain
        /\ drains'.ack = NoDrain
    BY <1>t, <1>1 DEF DeliveryFits, InstallsFit, HookTypeOK
  <1>4. \A a \in Starts : ~Busy(a)'
    BY <1>0, <1>1, <1>2, OnItsWay DEF Busy, Resting
  <1>5. ~Busy(Drain)
    BY <1>1, OnItsWay
  <1>6. QueueFits' /\ ForgottenFits'
    BY <1>t, <1>1 DEF DeliveryFits, QueueFits, ForgottenFits, Served
  <1>7. SentFits'
    <2>1. Len(sent) = 0
      BY <1>3
    <2> QED
      BY <1>t, <2>1 DEF SentFits
  <1>8. DrainsFit'
    <2>1. Len(sent) = 0 /\ app.pending = <<>> /\ app.id < app.next
      BY <1>1, <1>3 DEF DeliveryFits, QueueFits
    <2> QED
      BY <1>t, <1>3, <2>1 DEF DrainsFit, PendingIsDelivered, PendingIsNew
  <1>9. AnswerFits'
    BY <1>0, <1>2, <1>5 DEF AnswerFits, Busy, Resting
  <1>10. InstallsFit'
    <2>1. Len(sent) = 0
      BY <1>3
    <2> QED
      BY <1>t, <1>3, <1>4, <2>1 DEF InstallsFit, Silent, OnlyInstalls, Busy, Resting
  <1> QED
    BY <1>6, <1>7, <1>8, <1>9, <1>10 DEF DeliveryFits

\* An expression more.
LEMMA SentIsLonger ==
  ASSUME sent \in Seq(Expression), NEW e \in Expression, sent' = Append(sent, e)
  PROVE  /\ Len(sent) \in Nat /\ Len(sent') = Len(sent) + 1 /\ sent'[Len(sent) + 1] = e
         /\ \A i \in 1..Len(sent) : sent'[i] = sent[i]
         /\ \A i \in 1..Len(sent') : i \in 1..Len(sent) \/ i = Len(sent')
  BY AppendProperties, LenProperties

LEMMA LongerFits ==
  ASSUME sent \in Seq(Expression), SentFits, UNCHANGED <<app, delivered>>,
         NEW e \in Expression, sent' = Append(sent, e), e.what # "drain"
  PROVE  SentFits'
  <1>1. PendingIsDelivered' <=> PendingIsDelivered
    BY DEF PendingIsDelivered
  <1>2. /\ Len(sent) \in Nat /\ Len(sent') = Len(sent) + 1 /\ sent'[Len(sent) + 1] = e
        /\ \A i \in 1..Len(sent) : sent'[i] = sent[i]
        /\ \A i \in 1..Len(sent') : i \in 1..Len(sent) \/ i = Len(sent')
    BY SentIsLonger
  <1>3. \A i \in 1..Len(sent') : sent'[i].what = "drain" =>
             i \in 1..Len(sent) /\ sent'[i] = sent[i] /\ sent[i].what = "drain"
    BY <1>2
  <1>4. \A i \in 1..Len(sent') : sent'[i].what = "drain" =>
          /\ sent'[i].ack < app.next
          /\ sent'[i].ack # NoDrain /\ sent'[i].ack = app.id => PendingIsDelivered
    BY <1>3 DEF SentFits
  <1>5. ASSUME NEW i \in 1..Len(sent'), NEW j \in 1..Len(sent'), i < j, sent'[i].what = "install",
               sent'[j].what = "drain"
        PROVE  FALSE
    <2>1. j \in 1..Len(sent) /\ sent[j].what = "drain"
      BY <1>3, <1>5
    <2>2. i \in 1..Len(sent) /\ sent[i].what = "install"
      BY <1>2, <1>5, <2>1
    <2> QED
      BY <1>5, <2>1, <2>2 DEF SentFits
  <1> QED
    BY <1>1, <1>4, <1>5 DEF SentFits

LEMMA AttachesDelivers ==
  ASSUME DeliveryInv, NEW k \in Starts, Attaches(k)
  PROVE  "late" \notin strays' => DeliveryFits'
  <1> SUFFICES ASSUME "late" \notin strays' PROVE DeliveryFits'
    OBVIOUS
  <1>0. k \in Actors /\ k \in Connections /\ Starts \subseteq Actors /\ Drain \in Actors /\ Drain \notin Starts
    BY DEF Actors, Connections
  <1>t. /\ act \in [Actors -> ActorRecord] /\ HookTypeOK
        /\ strays' = strays /\ UNCHANGED <<drains, app, delivered, forgotten>>
        /\ act[k].at = "connecting" /\ trace'.state = "starting"
    BY DEF DeliveryInv, HookInv, LiveInv, ActorsFit, Attaches, At, Posts
  <1>1. Orderly /\ DeliveryFits /\ Busy(k)
    BY <1>t, DeliveryContext DEF Busy, Resting
  <1>2. act'[k].at = "installing" /\ \A b \in Actors \ {k} : act'[b] = act[b]
    BY <1>0, <1>t, ActorSends DEF Attaches, TracePcs, StartPcs
  <1> DEFINE e == [by |-> k, what |-> "install", ack |-> NoDrain, on |-> k]
  <1>3. e \in Expression /\ e.by = k /\ e.what = "install" /\ sent' = Append(sent, e)
    BY <1>0 DEF Expression, Purposes, NoDrain, Attaches
  <1> HIDE DEF e
  <1>4. /\ Len(sent) \in Nat /\ Len(sent') = Len(sent) + 1 /\ sent'[Len(sent) + 1] = e
        /\ \A i \in 1..Len(sent) : sent'[i] = sent[i]
        /\ \A i \in 1..Len(sent') : i \in 1..Len(sent) \/ i = Len(sent')
    BY <1>t, <1>3, SentIsLonger DEF HookTypeOK
  <1>5. QueueFits' /\ ForgottenFits'
    BY <1>t, <1>1 DEF DeliveryFits, QueueFits, ForgottenFits, Served
  <1>6. SentFits'
    BY <1>t, <1>1, <1>3, LongerFits DEF HookTypeOK, DeliveryFits
  <1>7. ~Busy(Drain) /\ \A l \in Starts : l # k => ~Busy(l)
    BY <1>1, OnItsWay
  <1>8. DrainsFit' /\ AnswerFits'
    BY <1>0, <1>t, <1>2, <1>7 DEF DrainsFit, AnswerFits, InSession, Busy, Resting
  <1>9. InstallsFit'
    <2>1. drains.ack = NoDrain /\ Silent(k) /\ \A l \in Starts : act[l].at = "idle" => Silent(l)
      BY <1>t, <1>1 DEF DeliveryFits, InstallsFit
    <2>2. OnlyInstalls(k)'
      BY <1>3, <1>4, <2>1 DEF OnlyInstalls, Silent
    <2>3. \A l \in Starts : l # k => act'[l].at \in {"idle", "done"} /\ (act'[l].at = "idle" => Silent(l)')
      BY <1>0, <1>2, <1>3, <1>4, <1>7, <2>1 DEF Silent, Busy, Resting
    <2> QED
      BY <1>t, <1>2, <2>1, <2>2, <2>3 DEF InstallsFit, Busy, Resting
  <1> QED
    BY <1>5, <1>6, <1>8, <1>9 DEF DeliveryFits

----------------------------------------------------------------------------
\* The drain.
LEMMA DrainSendsInOrder ==
  ASSUME DeliveryInv, StartsDrain
  PROVE  "late" \notin strays' => DeliveryFits'
  <1> SUFFICES ASSUME "late" \notin strays' PROVE DeliveryFits'
    OBVIOUS
  <1>0. Starts \subseteq Actors /\ Drain \in Actors /\ Drain \notin Starts
    BY DEF Actors
  <1>t. /\ act \in [Actors -> ActorRecord] /\ HookTypeOK /\ handle.client \in Connections
        /\ strays' = strays /\ UNCHANGED <<drains, app, delivered, forgotten, trace>>
        /\ act[Drain].at = "idle" /\ trace.state = "streaming"
        /\ act' = [act EXCEPT ![Drain].at = "draining", ![Drain].on = handle.client]
    BY DEF DeliveryInv, HookInv, LiveInv, ActorsFit, StartsDrain, Evaluates
  <1>1. Orderly /\ DeliveryFits /\ InSession
    BY <1>t, DeliveryContext DEF InSession
  <1>2. act'[Drain].at = "draining" /\ \A b \in Actors \ {Drain} : act'[b] = act[b]
    BY <1>0, <1>t, ActorSends DEF TracePcs, DrainPcs
  <1> DEFINE e == [by |-> Drain, what |-> "drain", ack |-> drains.ack, on |-> handle.client]
  <1>3. /\ e \in Expression /\ e.by = Drain /\ e.what = "drain" /\ e.ack = drains.ack
        /\ sent' = Append(sent, e)
    BY <1>0, <1>t DEF Expression, Purposes, HookTypeOK, StartsDrain, Evaluates
  <1> HIDE DEF e
  <1>4. /\ Len(sent) \in Nat /\ Len(sent') = Len(sent) + 1 /\ sent'[Len(sent) + 1] = e
        /\ \A i \in 1..Len(sent) : sent'[i] = sent[i]
        /\ \A i \in 1..Len(sent') : i \in 1..Len(sent) \/ i = Len(sent')
    BY <1>t, <1>3, SentIsLonger DEF HookTypeOK
  <1>5. QueueFits' /\ ForgottenFits'
    BY <1>t, <1>1 DEF DeliveryFits, QueueFits, ForgottenFits, Served
  <1>6. /\ \A i \in 1..Len(sent') :
              sent'[i].what = "drain" /\ sent'[i].by = Drain /\ sent'[i].ack = drains.ack
        /\ drains.ack < app.next
        /\ drains.ack = app.id => PendingIsDelivered
        /\ drains.ack # app.id => PendingIsNew
    <2>1. /\ \A i \in 1..Len(sent) :
                sent[i].what = "drain" /\ sent[i].by = Drain /\ sent[i].ack = drains.ack
          /\ drains.ack < app.next
          /\ drains.ack = app.id => PendingIsDelivered
          /\ drains.ack # app.id => PendingIsNew
      BY <1>1 DEF DeliveryFits, DrainsFit
    <2> QED
      BY <1>3, <1>4, <2>1
  <1>7. (PendingIsDelivered' <=> PendingIsDelivered) /\ (PendingIsNew' <=> PendingIsNew)
    BY <1>t DEF PendingIsDelivered, PendingIsNew
  <1>8. SentFits' /\ DrainsFit'
    BY <1>t, <1>6, <1>7 DEF SentFits, DrainsFit
  <1>9. AnswerFits'
    BY <1>2 DEF AnswerFits
  <1>10. InstallsFit'
    <2>1. \A k \in Starts : ~Busy(k) /\ act'[k] = act[k]
      BY <1>0, <1>t, <1>1, <1>2, OnItsWay DEF Orderly, StateFits
    <2>2. \A k \in Starts : act[k].at = "idle" => Silent(k)'
      BY <1>0, <1>6 DEF Silent
    <2> QED
      BY <2>1, <2>2 DEF InstallsFit, Busy, Resting
  <1> QED
    BY <1>5, <1>8, <1>9, <1>10 DEF DeliveryFits

LEMMA HandsOverInOrder ==
  ASSUME DeliveryInv, HandsOver
  PROVE  "late" \notin strays' => DeliveryFits'
  <1> SUFFICES ASSUME "late" \notin strays' PROVE DeliveryFits'
    OBVIOUS
  <1>0. Starts \subseteq Actors /\ Drain \in Actors /\ Drain \notin Starts
    BY DEF Actors
  <1>t. /\ act \in [Actors -> ActorRecord] /\ HookTypeOK
        /\ strays' = strays /\ UNCHANGED <<sent, app, forgotten, trace>>
        /\ act[Drain].at = "drained" /\ delivered' = delivered \o drains.events
        /\ drains' = [drains EXCEPT !.ack = drains.id, !.id = NoDrain, !.events = <<>>]
    BY DEF DeliveryInv, HookInv, LiveInv, ActorsFit, HandsOver, At
  <1>1. Orderly /\ DeliveryFits /\ InSession
    BY <1>t, DeliveryContext DEF InSession
  <1>2. act'[Drain].at = "idle" /\ \A b \in Actors \ {Drain} : act'[b] = act[b]
    BY <1>0, <1>t, ActorMoves, ActorSet DEF HandsOver, TracePcs, DrainPcs
  <1>3. /\ sent = <<>> /\ drains.id = app.id /\ drains.events = app.pending
        /\ app.id # NoDrain => drains.ack # app.id
    BY <1>t, <1>1 DEF DeliveryFits, AnswerFits
  <1>4. drains'.ack = app.id
    BY <1>t, <1>3 DEF HookTypeOK
  <1>5. PendingIsNew
    <2>1. CASE app.id = NoDrain
      <3>1. app.pending = <<>>
        BY <1>1, <2>1 DEF DeliveryFits, QueueFits
      <3> QED
        BY <3>1 DEF PendingIsNew
    <2>2. CASE app.id # NoDrain
      BY <1>1, <1>3, <2>2 DEF DeliveryFits, DrainsFit
    <2> QED
      BY <2>1, <2>2
  <1>q. /\ Served(app.pending) /\ Served(delivered) /\ Ascending(app.pending) /\ Ascending(delivered)
        /\ app.pending \in Seq(Nat) /\ delivered \in Seq(Nat)
    BY <1>1 DEF DeliveryFits, QueueFits, Served
  <1> DEFINE old == delivered
             more == app.pending
             all == delivered'
  <1>c. old \in Seq(Nat) /\ more \in Seq(Nat) /\ all = old \o more
    BY <1>t, <1>3, <1>q
  <1> HIDE DEF old, more, all
  <1>d. /\ all \in Seq(Nat) /\ Len(all) = Len(old) + Len(more)
        /\ Len(old) \in Nat /\ Len(more) \in Nat
        /\ \A i \in 1..Len(old) : all[i] = old[i]
        /\ \A i \in 1..Len(more) : all[Len(old) + i] = more[i]
    BY <1>c, ConcatProperties, LenProperties
  <1>e. \A i \in 1..Len(all) :
              \/ i \in 1..Len(old)
              \/ i - Len(old) \in 1..Len(more) /\ all[i] = more[i - Len(old)]
    <2> SUFFICES ASSUME NEW i \in 1..Len(all), i \notin 1..Len(old)
                 PROVE  i - Len(old) \in 1..Len(more) /\ all[i] = more[i - Len(old)]
      OBVIOUS
    <2>1. i - Len(old) \in 1..Len(more) /\ i = Len(old) + (i - Len(old))
      BY <1>d
    <2> QED
      BY <1>d, <2>1
  <1>6. /\ delivered' \in Seq(Nat) /\ Len(delivered') = Len(delivered) + Len(app.pending)
        /\ Len(delivered) \in Nat /\ Len(app.pending) \in Nat
        /\ \A i \in 1..Len(delivered) : delivered'[i] = delivered[i]
        /\ \A i \in 1..Len(app.pending) : delivered'[Len(delivered) + i] = app.pending[i]
        /\ \A i \in 1..Len(delivered') :
              \/ i \in 1..Len(delivered)
              \/ i - Len(delivered) \in 1..Len(app.pending)
                   /\ delivered'[i] = app.pending[i - Len(delivered)]
    BY <1>d, <1>e DEF old, more, all
  <1>7. Ascending(delivered')
    <2> SUFFICES ASSUME NEW i \in 1..Len(delivered'), NEW j \in 1..Len(delivered'), i < j
                 PROVE  delivered'[i] < delivered'[j]
      BY DEF Ascending
    <2>1. CASE j \in 1..Len(delivered)
      <3>1. i \in 1..Len(delivered)
        BY <1>6, <2>1
      <3>2. delivered[i] < delivered[j]
        BY <1>q, <2>1, <3>1 DEF Ascending
      <3> QED
        BY <1>6, <2>1, <3>1, <3>2
    <2>2. CASE i \in 1..Len(delivered) /\ j \notin 1..Len(delivered)
      BY <1>5, <1>6, <2>2 DEF PendingIsNew, Beyond
    <2>3. CASE i \notin 1..Len(delivered) /\ j \notin 1..Len(delivered)
      <3>1. /\ i - Len(delivered) \in 1..Len(app.pending) /\ j - Len(delivered) \in 1..Len(app.pending)
            /\ i - Len(delivered) < j - Len(delivered)
            /\ delivered'[i] = app.pending[i - Len(delivered)]
            /\ delivered'[j] = app.pending[j - Len(delivered)]
        BY <1>6, <2>3
      <3> QED
        BY <1>q, <3>1 DEF Ascending
    <2> QED
      BY <1>6, <2>1, <2>2, <2>3
  <1>8. Served(delivered)'
    <2>1. \A i \in 1..Len(delivered') : delivered'[i] <= app.served
      BY <1>6, <1>q DEF Served
    <2> QED
      BY <1>t, <1>6, <2>1 DEF Served
  <1>9. QueueFits'
    <2>1. \A i \in 1..Len(app.queue) :
             \/ Among(app.queue[i], app.pending)
             \/ Beyond(app.queue[i], app.pending) /\ Beyond(app.queue[i], delivered')
      <3>1. \A i \in 1..Len(app.queue) :
               \/ Among(app.queue[i], app.pending)
               \/ Beyond(app.queue[i], app.pending) /\ Beyond(app.queue[i], delivered)
        BY <1>1 DEF DeliveryFits, QueueFits
      <3>2. \A x : Beyond(x, app.pending) /\ Beyond(x, delivered) => Beyond(x, delivered')
        BY <1>6 DEF Beyond
      <3> QED
        BY <3>1, <3>2
    <2>2. /\ app.served \in Nat /\ Served(app.queue) /\ Ascending(app.queue)
          /\ app.id < app.next /\ (app.id = NoDrain => app.pending = <<>>)
      BY <1>1 DEF DeliveryFits, QueueFits
    <2>3. Served(app.queue)' /\ Served(app.pending)'
      BY <1>t, <1>q, <2>2 DEF Served
    <2> QED
      BY <1>t, <1>q, <1>7, <1>8, <2>1, <2>2, <2>3 DEF QueueFits
  <1>10. \A x : Among(x, delivered) => Among(x, delivered')
    <2> SUFFICES ASSUME NEW x, NEW i \in 1..Len(delivered), delivered[i] = x
                 PROVE  \E j \in 1..Len(delivered') : delivered'[j] = x
      BY DEF Among
    <2>1. i \in 1..Len(delivered') /\ delivered'[i] = x
      BY <1>6
    <2> QED
      BY <2>1
  <1>11. ForgottenFits'
    BY <1>t, <1>1, <1>10 DEF DeliveryFits, ForgottenFits
  <1>12. PendingIsDelivered'
    <2> SUFFICES ASSUME NEW i \in 1..Len(app.pending)
                 PROVE  Among(app.pending[i], delivered')
      BY <1>t DEF PendingIsDelivered
    <2>1. Len(delivered) + i \in 1..Len(delivered')
      <3>1. \A m, n \in Nat : \A k \in 1..n : m + k \in 1..m + n
        OBVIOUS
      <3> QED
        BY <1>6, <3>1
    <2>2. delivered'[Len(delivered) + i] = app.pending[i]
      BY <1>6
    <2> QED
      BY <2>1, <2>2 DEF Among
  <1>13. Len(sent') = 0 /\ sent' = <<>>
    BY <1>t, <1>3
  <1>14. SentFits'
    BY <1>13 DEF SentFits
  <1>15. DrainsFit'
    <2>1. app.id < app.next
      BY <1>1 DEF DeliveryFits, QueueFits
    <2> QED
      BY <1>t, <1>4, <1>12, <1>13, <2>1 DEF DrainsFit
  <1>16. AnswerFits'
    BY <1>2 DEF AnswerFits
  <1>17. InstallsFit'
    <2>1. \A k \in Starts : ~Busy(k) /\ act'[k] = act[k]
      <3>1. Busy(Drain)
        BY <1>t DEF Busy, Resting
      <3> QED
        BY <1>0, <1>1, <1>2, <3>1, OnItsWay
    <2> QED
      BY <1>13, <2>1 DEF InstallsFit, Busy, Resting, Silent, OnlyInstalls
  <1> QED
    BY <1>9, <1>11, <1>14, <1>15, <1>16, <1>17 DEF DeliveryFits

LEMMA DrainGivesUp ==
  ASSUME DeliveryInv, DrainTimesOut
  PROVE  "late" \notin strays' => DeliveryFits'
  <1> SUFFICES ASSUME "late" \notin strays' PROVE DeliveryFits'
    OBVIOUS
  <1>0. Starts \subseteq Actors /\ Drain \in Actors /\ Drain \notin Starts
    BY DEF Actors
  <1>t. /\ act \in [Actors -> ActorRecord] /\ HookTypeOK
        /\ strays' = strays /\ UNCHANGED <<sent, app, delivered, forgotten, trace>>
        /\ act[Drain].at = "draining" /\ drains'.ack = drains.ack
    BY DEF DeliveryInv, HookInv, LiveInv, ActorsFit, DrainTimesOut, At, HookTypeOK
  <1>1. Orderly /\ DeliveryFits /\ InSession /\ Busy(Drain)
    BY <1>t, DeliveryContext DEF InSession, Busy, Resting
  <1>2. act'[Drain].at = "idle" /\ \A b \in Actors \ {Drain} : act'[b] = act[b]
    BY <1>0, <1>t, ActorMoves, ActorSet DEF DrainTimesOut, TracePcs, DrainPcs
  <1>3. \A k \in Starts : ~Busy(k) /\ act'[k] = act[k]
    BY <1>0, <1>1, <1>2, OnItsWay
  <1>4. \A k \in Starts : ~Busy(k)'
    BY <1>3 DEF Busy
  <1> QED
    BY <1>t, <1>1, <1>2, <1>3, <1>4, EventsKept

\* Whoever tears down may send an expression more, after the session.
LEMMA TeardownFits ==
  ASSUME DeliveryFits, sent \in Seq(Expression), UNCHANGED <<app, delivered, forgotten>>,
         drains'.ack = drains.ack, NEW a \in Actors, NEW e \in Expression,
         e.by = a, e.what \in {"disable", "uninstall"},
         sent' = sent \/ sent' = Append(sent, e),
         ~InSession', act'[Drain].at # "drained", act'[a].at \in {"unhooking", "closing"},
         \A b \in Actors \ {a} : act'[b] = act[b], Busy(a),
         \A k \in Starts \ {a} : act[k].at \notin {"installing", "installed"}
  PROVE  DeliveryFits'
  <1>0. Starts \subseteq Actors
    BY DEF Actors
  <1>1. QueueFits' /\ ForgottenFits'
    BY DEF DeliveryFits, QueueFits, ForgottenFits, Served
  <1>2. SentFits'
    <2>1. CASE sent' = sent
      <3>1. PendingIsDelivered' <=> PendingIsDelivered
        BY DEF PendingIsDelivered
      <3> QED
        BY <2>1, <3>1 DEF DeliveryFits, SentFits
    <2>2. CASE sent' = Append(sent, e)
      BY <2>2, LongerFits DEF DeliveryFits
    <2> QED
      BY <2>1, <2>2
  <1>3. DrainsFit' /\ AnswerFits'
    BY DEF DrainsFit, AnswerFits
  <1>4. \A k \in Starts \ {a} : Silent(k) => Silent(k)'
    <2>1. CASE sent' = sent
      BY <2>1 DEF Silent
    <2>2. CASE sent' = Append(sent, e)
      <3>1. /\ Len(sent) \in Nat /\ Len(sent') = Len(sent) + 1 /\ sent'[Len(sent) + 1] = e
            /\ \A i \in 1..Len(sent) : sent'[i] = sent[i]
            /\ \A i \in 1..Len(sent') : i \in 1..Len(sent) \/ i = Len(sent')
        BY <2>2, SentIsLonger
      <3> QED
        BY <3>1 DEF Silent
    <2> QED
      BY <2>1, <2>2
  <1>5. InstallsFit'
    <2>1. \A k \in Starts : Busy(k)' => Busy(k)
      BY <1>0 DEF Busy
    <2>2. \A k \in Starts : act'[k].at \in {"idle", "preparing", "tunnel", "connecting", "installing", "installed"}
                              => k # a /\ act'[k] = act[k]
      BY <1>0
    <2>3. \A k \in Starts \ {a} : act'[k].at \notin {"installing", "installed"}
      BY <1>0
    <2> QED
      BY <1>4, <2>1, <2>2, <2>3 DEF DeliveryFits, InstallsFit
  <1> QED
    BY <1>1, <1>2, <1>3, <1>5 DEF DeliveryFits

LEMMA DrainFailsInOrder ==
  ASSUME DeliveryInv, DrainFails
  PROVE  "late" \notin strays' => DeliveryFits'
  <1> SUFFICES ASSUME "late" \notin strays' PROVE DeliveryFits'
    OBVIOUS
  <1>0. Starts \subseteq Actors /\ Drain \in Actors /\ Drain \notin Starts
    BY DEF Actors
  <1>t. /\ act \in [Actors -> ActorRecord] /\ handle.client \in Connections /\ HookTypeOK
        /\ strays' = strays /\ UNCHANGED <<app, delivered, forgotten, trace>>
        /\ act[Drain].at \in {"draining", "drained"} /\ drains'.ack = drains.ack
        /\ TearsDown(Drain, "disable")
    BY DEF DeliveryInv, HookInv, LiveInv, ActorsFit, DrainFails, HookTypeOK
  <1>1. Orderly /\ DeliveryFits /\ Busy(Drain)
    BY <1>t, DeliveryContext DEF Busy, Resting
  <1> DEFINE e == [by |-> Drain, what |-> "disable", ack |-> drains.ack, on |-> handle.client]
  <1>2. e \in Expression /\ e.by = Drain /\ e.what = "disable"
    BY <1>0, <1>t DEF Expression, Purposes, HookTypeOK
  <1>3. /\ \A b \in Actors \ {Drain} : act'[b] = act[b]
        /\ act'[Drain].at \in {"unhooking", "closing"}
        /\ sent' = sent \/ sent' = Append(sent, e)
    BY <1>0, <1>t, TearingDown
  <1> HIDE DEF e
  <1>4. ~InSession' /\ act'[Drain].at # "drained"
    BY <1>3 DEF InSession
  <1>5. \A k \in Starts : ~Busy(k)
    BY <1>1, OnItsWay
  <1>6. \A k \in Starts \ {Drain} : act[k].at \notin {"installing", "installed"}
    BY <1>5 DEF Busy, Resting
  <1> QED
    BY <1>0, <1>t, <1>1, <1>2, <1>3, <1>4, <1>6, TeardownFits DEF HookTypeOK

LEMMA UnhooksInOrder ==
  ASSUME DeliveryInv, NEW a \in Starts \cup Stops, Unhooks(a)
  PROVE  "late" \notin strays' => DeliveryFits'
  <1> SUFFICES ASSUME "late" \notin strays' PROVE DeliveryFits'
    OBVIOUS
  <1>0. a \in Actors /\ a # Drain /\ Starts \subseteq Actors /\ Drain \in Actors /\ Drain \notin Starts
    BY DEF Actors
  <1> DEFINE what == IF act[a].uninstall THEN "uninstall" ELSE "disable"
  <1>t. /\ act \in [Actors -> ActorRecord] /\ handle.client \in Connections /\ HookTypeOK
        /\ strays \subseteq strays' /\ UNCHANGED <<app, delivered, forgotten, trace>>
        /\ act[a].at = "awaiting" /\ act[Drain].at = "idle" /\ drains'.ack = drains.ack
        /\ TearsDown(a, what)
    BY DEF DeliveryInv, HookInv, LiveInv, ActorsFit, Unhooks, HookTypeOK, Strayed, At
  <1>w. what \in {"uninstall", "disable"}
    OBVIOUS
  <1> HIDE DEF what
  <1>1. Orderly /\ DeliveryFits /\ Busy(a)
    BY <1>t, DeliveryContext DEF Busy, Resting
  <1> DEFINE e == [by |-> a, what |-> what, ack |-> drains.ack, on |-> handle.client]
  <1>2. e \in Expression /\ e.by = a /\ e.what \in {"disable", "uninstall"}
    BY <1>0, <1>t, <1>w DEF Expression, Purposes, HookTypeOK
  <1>3. /\ \A b \in Actors \ {a} : act'[b] = act[b]
        /\ act'[a].at \in {"unhooking", "closing"}
        /\ sent' = sent \/ sent' = Append(sent, e)
    BY <1>0, <1>t, TearingDown
  <1> HIDE DEF e
  <1>4. trace.state # "streaming" /\ \A k \in Starts \ {a} : act[k].at \notin {"installing", "installed"}
    <2>1. CASE a \in Starts
      <3>1. trace.state # "streaming" /\ \A k \in Starts \ {a} : ~Busy(k)
        BY <1>1, <2>1, OnItsWay
      <3> QED
        BY <3>1 DEF Busy, Resting
    <2>2. CASE a \in Stops
      <3>1. stopRequested /\ trace.state # "streaming"
        BY <1>1, <2>2 DEF Orderly, StateFits
      <3>2. \A k \in Starts : Busy(k) => act[k].at \notin Unstoppable
        BY <1>1, <3>1, OnItsWay
      <3> QED
        BY <3>1, <3>2 DEF Busy, Resting, Unstoppable
    <2> QED
      BY <2>1, <2>2
  <1>5. ~InSession' /\ act'[Drain].at # "drained"
    BY <1>0, <1>t, <1>3, <1>4 DEF InSession
  <1> QED
    BY <1>0, <1>t, <1>1, <1>2, <1>3, <1>4, <1>5, TeardownFits DEF HookTypeOK

\* The rest of a stop and of a teardown.
LEMMA StopsKeepOrder ==
  ASSUME DeliveryInv, NEW k \in Stops, StopsIdle(k) \/ \E uninstall \in BOOLEAN : StopsTrace(k, uninstall)
  PROVE  "late" \notin strays' => DeliveryFits'
  <1> SUFFICES ASSUME "late" \notin strays' PROVE DeliveryFits'
    OBVIOUS
  <1>0. k \notin Starts /\ k # Drain /\ Starts \subseteq Actors /\ Drain \in Actors
    BY DEF Actors
  <1>t. act \in [Actors -> ActorRecord]
    BY DEF DeliveryInv, HookInv, LiveInv, ActorsFit
  <1>1. /\ UNCHANGED <<app, sent, delivered, forgotten, drains>>
        /\ \A b \in Actors \ {k} : act'[b] = act[b]
        /\ trace'.state = trace.state \/ trace'.state \in {"stopped", "stopping"}
        /\ strays \subseteq strays'
    <2>1. CASE StopsIdle(k)
      <3> DEFINE may == MayHook
      <3>1. /\ UNCHANGED <<app, sent, delivered, forgotten, drains>>
            /\ act' = [act EXCEPT ![k] = Actor("done")]
            /\ \/ UNCHANGED <<trace, strays>>
               \/ Posts("stopped", FALSE) /\ Strayed(may)
        BY <2>1 DEF StopsIdle
      <3> HIDE DEF may
      <3> QED
        BY <1>t, <3>1 DEF Posts, Strayed
    <2>2. ASSUME NEW uninstall \in BOOLEAN, StopsTrace(k, uninstall)
          PROVE  /\ UNCHANGED <<app, sent, delivered, forgotten, drains>>
                 /\ \A b \in Actors \ {k} : act'[b] = act[b]
                 /\ trace'.state = "stopping" /\ strays \subseteq strays'
      <3>1. /\ UNCHANGED <<app, sent, delivered, forgotten, drains>>
            /\ trace'.state = "stopping" /\ strays \subseteq strays'
        BY <2>2 DEF StopsTrace, Posts, Strayed
      <3>2. act' = [act EXCEPT ![k].at = "awaiting", ![k].uninstall = uninstall,
                               ![k].hook = handle.client # Nobody]
        BY <2>2 DEF StopsTrace
      <3>3. \A b \in Actors \ {k} : act'[b] = act[b]
        BY <1>t, <3>2
      <3> QED
        BY <3>1, <3>3
    <2> QED
      BY <2>1, <2>2
  <1>2. DeliveryFits
    BY <1>1, DeliveryContext
  <1>3. InSession' => InSession
    BY <1>0, <1>1 DEF InSession
  <1>4. \A l \in Starts : act'[l] = act[l]
    BY <1>0, <1>1
  <1>5. \A l \in Starts : (Busy(l)' => Busy(l)) /\ (Busy(l) => drains.ack = NoDrain)
    BY <1>2, <1>4 DEF Busy, DeliveryFits, InstallsFit
  <1>6. act'[Drain] = act[Drain]
    BY <1>0, <1>1
  <1> QED
    BY <1>1, <1>2, <1>3, <1>4, <1>5, <1>6, EventsKept

LEMMA TeardownKeepsOrder ==
  ASSUME DeliveryInv, NEW a \in Actors, Closes(a) \/ \E answered \in BOOLEAN : LeavesHook(a, answered)
  PROVE  "late" \notin strays' => DeliveryFits'
  <1> SUFFICES ASSUME "late" \notin strays' PROVE DeliveryFits'
    OBVIOUS
  <1>0. Drain \notin Starts /\ Drain \notin Stops /\ Starts \subseteq Actors /\ Drain \in Actors
    BY DEF Actors
  <1>t. act \in [Actors -> ActorRecord]
    BY DEF DeliveryInv, HookInv, LiveInv, ActorsFit
  <1>1. /\ UNCHANGED <<app, sent, delivered, forgotten, drains, strays>>
        /\ \A b \in Actors \ {a} : act'[b] = act[b]
        /\ act'[a].at \in {"closing", "idle", "done"} /\ act[a].at \in {"unhooking", "unhooked", "closing"}
        /\ a = Drain => trace'.state = "error" \/ act'[a].at = "closing"
        /\ a # Drain => act'[a].at # "idle"
        /\ trace'.state = trace.state \/ trace'.state \in {"stopped", "error"}
    <2>1. CASE Closes(a)
      <3>1. /\ UNCHANGED <<app, sent, delivered, forgotten, drains, strays>> /\ act[a].at = "closing"
            /\ act' = [act EXCEPT ![a] = Actor(IF a = Drain THEN "idle" ELSE "done")]
            /\ a = Drain => trace'.state = "error"
            /\ trace'.state = trace.state \/ trace'.state \in {"stopped", "error"}
        BY <1>0, <2>1 DEF Closes, PostsEnd, Posts, At
      <3>2. /\ \A b \in Actors \ {a} : act'[b] = act[b]
            /\ act'[a].at = IF a = Drain THEN "idle" ELSE "done"
        BY <1>t, <3>1, ActorSet DEF TracePcs, StopPcs
      <3> QED
        BY <3>1, <3>2
    <2>2. ASSUME NEW answered \in BOOLEAN, LeavesHook(a, answered)
          PROVE  /\ UNCHANGED <<app, sent, delivered, forgotten, drains, strays, trace>>
                 /\ act[a].at \in {"unhooking", "unhooked"}
                 /\ \A b \in Actors \ {a} : act'[b] = act[b]
                 /\ act'[a].at = "closing"
      <3> DEFINE g == answered /\ act[a].uninstall
      <3>1. /\ UNCHANGED <<app, sent, delivered, forgotten, drains, strays, trace>>
            /\ act[a].at \in {"unhooking", "unhooked"}
            /\ act' = [act EXCEPT ![a].at = "closing", ![a].on = handle.client, ![a].gone = g]
        BY <2>2 DEF LeavesHook, At
      <3> HIDE DEF g
      <3>2. \A b \in Actors \ {a} : act'[b] = act[b]
        BY <1>t, <3>1
      <3>3. act'[a].at = "closing"
        BY <1>t, <3>1 DEF ActorRecord
      <3> QED
        BY <3>1, <3>2, <3>3
    <2> QED
      BY <2>1, <2>2
  <1>2. DeliveryFits
    BY <1>1, DeliveryContext
  <1>3. InSession' => InSession
    BY <1>0, <1>1 DEF InSession
  <1>4. \A l \in Starts : act'[l] = act[l] \/ (act'[l].at \in {"closing", "done"} /\ Busy(l))
    <2>1. \A l \in Starts : l # a => act'[l] = act[l]
      BY <1>0, <1>1
    <2>2. a \in Starts => act'[a].at \in {"closing", "done"} /\ Busy(a)
      BY <1>0, <1>1 DEF Busy, Resting
    <2> QED
      BY <2>1, <2>2
  <1>5. \A l \in Starts : Busy(l)' => drains.ack = NoDrain
    BY <1>2, <1>4 DEF Busy, DeliveryFits, InstallsFit
  <1>6. act'[Drain].at = "drained" => act[Drain].at = "drained"
    BY <1>0, <1>1
  <1>7. \A l \in Starts :
            /\ act'[l].at \in {"idle", "preparing", "tunnel", "connecting"}
                  => act[l].at \in {"idle", "preparing", "tunnel", "connecting"}
            /\ act'[l].at \in {"installing", "installed"} => act'[l].at = act[l].at
    BY <1>4
  <1> QED
    BY <1>1, <1>2, <1>3, <1>5, <1>6, <1>7, EventsKept

----------------------------------------------------------------------------
\* The application.
LEMMA SentIsShorter ==
  ASSUME sent \in Seq(Expression), sent # <<>>, sent' = Tail(sent)
  PROVE  /\ Len(sent) \in Nat /\ Len(sent') = Len(sent) - 1 /\ 1 \in 1..Len(sent)
         /\ Head(sent) = sent[1]
         /\ \A i \in 1..Len(sent') : i + 1 \in 1..Len(sent) /\ sent'[i] = sent[i + 1]
         /\ Len(sent) = 1 => sent' = <<>>
  <1>1. /\ Len(sent) \in Nat /\ Len(sent) > 0 /\ sent' \in Seq(Expression)
        /\ Len(sent') = Len(sent) - 1 /\ Head(sent) = sent[1]
        /\ \A i \in 1..Len(sent') : sent'[i] = sent[i + 1]
    BY HeadTailProperties, LenProperties, EmptySeq
  <1>2. Len(sent) = 1 => sent' = <<>>
    BY <1>1, EmptySeq
  <1> QED
    BY <1>1, <1>2

\* What the expressions fit that are left.
LEMMA RestFits ==
  ASSUME sent \in Seq(Expression), sent # <<>>, sent' = Tail(sent), InstallsFit,
         drains'.ack = drains.ack,
         \A k \in Starts :
            \/ act'[k].at = act[k].at
            \/ act[k].at = "unhooking" /\ act'[k].at = "unhooked"
            \/ /\ act[k].at = "installing" /\ act'[k].at = "installed"
               /\ sent[1].by = k /\ (sent[1].what = "install" => app'.id = NoDrain)
  PROVE  InstallsFit'
  <1>1. /\ Len(sent) \in Nat /\ Len(sent') = Len(sent) - 1 /\ 1 \in 1..Len(sent)
        /\ \A i \in 1..Len(sent') : i + 1 \in 1..Len(sent) /\ sent'[i] = sent[i + 1]
        /\ Len(sent) = 1 => sent' = <<>>
    BY SentIsShorter
  <1>2. \A k \in Starts : (Silent(k) => Silent(k)') /\ (OnlyInstalls(k) => OnlyInstalls(k)')
    <2>1. ASSUME NEW k \in Starts, Silent(k) PROVE Silent(k)'
      BY <1>1, <2>1 DEF Silent
    <2>2. ASSUME NEW k \in Starts, OnlyInstalls(k), NEW i \in 1..Len(sent'), sent'[i].by = k
          PROVE  i = Len(sent') /\ sent'[i].what = "install"
      <3>1. i + 1 \in 1..Len(sent) /\ sent'[i] = sent[i + 1]
        BY <1>1, <2>2
      <3>2. i + 1 = Len(sent) /\ sent[i + 1].what = "install"
        BY <2>2, <3>1 DEF OnlyInstalls
      <3>3. Len(sent') = Len(sent) - 1 /\ Len(sent) \in Nat /\ i \in Int
        BY <1>1, <2>2
      <3>4. i = Len(sent')
        BY <3>2, <3>3
      <3> QED
        BY <3>1, <3>2, <3>4
    <2> QED
      BY <2>1, <2>2 DEF OnlyInstalls
  <1>3. \A k \in Starts : act'[k].at = "installed" => sent' = <<>> /\ app'.id = NoDrain
    <2> SUFFICES ASSUME NEW k \in Starts, act'[k].at = "installed"
                 PROVE  sent' = <<>> /\ app'.id = NoDrain
      OBVIOUS
    <2>1. act[k].at # "installed"
      BY DEF InstallsFit
    <2>2. OnlyInstalls(k) /\ sent[1].by = k /\ (sent[1].what = "install" => app'.id = NoDrain)
      BY <2>1 DEF InstallsFit
    <2>3. sent[1].what = "install" /\ Len(sent) = 1
      BY <1>1, <2>2 DEF OnlyInstalls
    <2> QED
      BY <1>1, <2>2, <2>3
  <1>4. \A k \in Starts : Busy(k)' <=> Busy(k)
    BY DEF Busy, Resting
  <1> QED
    BY <1>2, <1>3, <1>4 DEF InstallsFit

\* The queue takes another event, and may lose its oldest.
LEMMA QueueTakes ==
  ASSUME NEW q \in Seq(Nat), Ascending(q), NEW n \in Nat, \A i \in 1..Len(q) : q[i] <= n
  PROVE  /\ Append(q, n + 1) \in Seq(Nat) /\ Ascending(Append(q, n + 1))
         /\ \A i \in 1..Len(Append(q, n + 1)) :
               \/ i \in 1..Len(q) /\ Append(q, n + 1)[i] = q[i]
               \/ Append(q, n + 1)[i] = n + 1
  <1> DEFINE s == Append(q, n + 1)
  <1>1. /\ s \in Seq(Nat) /\ Len(s) = Len(q) + 1 /\ Len(q) \in Nat /\ s[Len(q) + 1] = n + 1
        /\ \A i \in 1..Len(q) : s[i] = q[i] /\ q[i] \in Nat
    BY AppendProperties, LenProperties, ElementOfSeq
  <1> HIDE DEF s
  <1>2. \A i \in 1..Len(s) : i \in 1..Len(q) \/ i = Len(q) + 1
    BY <1>1
  <1>3. Ascending(s)
    <2> SUFFICES ASSUME NEW i \in 1..Len(s), NEW j \in 1..Len(s), i < j
                 PROVE  s[i] < s[j]
      BY DEF Ascending
    <2>1. i \in 1..Len(q)
      BY <1>1
    <2>2. CASE j \in 1..Len(q)
      BY <1>1, <2>1, <2>2 DEF Ascending
    <2>3. CASE j = Len(q) + 1
      <3>1. s[i] = q[i] /\ q[i] \in Nat /\ q[i] <= n /\ s[j] = n + 1
        BY <1>1, <2>1, <2>3
      <3> QED
        BY <3>1
    <2> QED
      BY <1>2, <2>2, <2>3
  <1> QED
    BY <1>1, <1>2, <1>3 DEF s

LEMMA QueueDrops ==
  ASSUME NEW q \in Seq(Nat), Ascending(q), q # <<>>
  PROVE  /\ Tail(q) \in Seq(Nat) /\ Ascending(Tail(q))
         /\ \A i \in 1..Len(Tail(q)) : \E j \in 1..Len(q) : Tail(q)[i] = q[j]
  <1> DEFINE s == Tail(q)
  <1>1. /\ s \in Seq(Nat) /\ Len(s) = Len(q) - 1 /\ Len(q) \in Nat /\ Len(q) > 0
        /\ \A i \in 1..Len(s) : s[i] = q[i + 1]
    BY HeadTailProperties, LenProperties, EmptySeq
  <1> HIDE DEF s
  <1>2. \A i \in 1..Len(s) : i + 1 \in 1..Len(q) /\ s[i] = q[i + 1]
    BY <1>1
  <1>3. Ascending(s)
    <2> SUFFICES ASSUME NEW i \in 1..Len(s), NEW j \in 1..Len(s), i < j
                 PROVE  s[i] < s[j]
      BY DEF Ascending
    <2>1. /\ i + 1 \in 1..Len(q) /\ j + 1 \in 1..Len(q) /\ i + 1 < j + 1
          /\ s[i] = q[i + 1] /\ s[j] = q[j + 1]
      BY <1>1, <1>2
    <2> QED
      BY <2>1 DEF Ascending
  <1> QED
    BY <1>1, <1>2, <1>3 DEF s

\* A request is served.
LEMMA ServesInOrder ==
  ASSUME DeliveryInv, Serves
  PROVE  "late" \notin strays' => DeliveryFits'
  <1> SUFFICES ASSUME "late" \notin strays' PROVE DeliveryFits'
    OBVIOUS
  <1>t. /\ HookTypeOK /\ strays' = strays
        /\ UNCHANGED <<trace, act, drains, sent, delivered, forgotten>>
    BY DEF DeliveryInv, HookInv, Serves
  <1>1. DeliveryFits
    BY <1>t, DeliveryContext
  <1> DEFINE n == app.served
             q == app.queue
             cut == IF Len(q) >= QueueSize THEN Tail(q) ELSE q
             full == Append(cut, n + 1)
  <1>2. /\ app'.pending = app.pending /\ app'.id = app.id /\ app'.next = app.next
        /\ app'.served = n + 1 /\ app'.queue = IF app.hook # "on" THEN q ELSE full
    BY <1>t DEF Serves, HookTypeOK
  <1>3. /\ q \in Seq(Nat) /\ Ascending(q) /\ n \in Nat /\ \A i \in 1..Len(q) : q[i] <= n /\ q[i] \in Nat
        /\ Served(app.pending) /\ Served(delivered) /\ Ascending(app.pending) /\ Ascending(delivered)
    BY <1>1, ElementOfSeq DEF DeliveryFits, QueueFits, Served
  <1> HIDE DEF n, q
  <1>4. /\ cut \in Seq(Nat) /\ Ascending(cut)
        /\ \A i \in 1..Len(cut) : \E j \in 1..Len(q) : cut[i] = q[j]
    <2>1. CASE Len(q) >= QueueSize
      <3>1. q # <<>>
        BY <2>1, EmptySeq
      <3> QED
        BY <1>3, <2>1, <3>1, QueueDrops
    <2>2. CASE ~(Len(q) >= QueueSize)
      BY <1>3, <2>2
    <2> QED
      BY <2>1, <2>2
  <1> HIDE DEF cut
  <1>5. \A i \in 1..Len(cut) : cut[i] <= n
    BY <1>3, <1>4
  <1>6. /\ full \in Seq(Nat) /\ Ascending(full)
        /\ \A i \in 1..Len(full) : \/ i \in 1..Len(cut) /\ full[i] = cut[i]
                                   \/ full[i] = n + 1
    BY <1>3, <1>4, <1>5, QueueTakes
  <1> HIDE DEF full
  <1>7. \A i \in 1..Len(full) : (\E j \in 1..Len(q) : full[i] = q[j]) \/ full[i] = n + 1
    BY <1>4, <1>6
  <1>8. /\ app'.queue \in Seq(Nat) /\ Ascending(app'.queue)
        /\ \A i \in 1..Len(app'.queue) :
              (\E j \in 1..Len(q) : app'.queue[i] = q[j]) \/ app'.queue[i] = n + 1
    <2>1. CASE app.hook # "on"
      BY <1>2, <1>3, <2>1
    <2>2. CASE app.hook = "on"
      BY <1>2, <1>6, <1>7, <2>2
    <2> QED
      BY <2>1, <2>2
  <1>9. \A s : Served(s) => s \in Seq(Nat) /\ \A i \in 1..Len(s) : s[i] <= n /\ s[i] \in Nat
    BY ElementOfSeq DEF Served, n
  <1>10. \A s : Served(s) => Beyond(n + 1, s)
    BY <1>3, <1>9 DEF Beyond
  <1>11. \A i \in 1..Len(app'.queue) :
              \/ Among(app'.queue[i], app.pending)
              \/ Beyond(app'.queue[i], app.pending) /\ Beyond(app'.queue[i], delivered)
    <2>1. \A j \in 1..Len(q) :
              \/ Among(q[j], app.pending)
              \/ Beyond(q[j], app.pending) /\ Beyond(q[j], delivered)
      BY <1>1 DEF DeliveryFits, QueueFits, q
    <2>2. Beyond(n + 1, app.pending) /\ Beyond(n + 1, delivered)
      BY <1>3, <1>10
    <2> QED
      BY <1>8, <2>1, <2>2
  <1>12. \A i \in 1..Len(app'.queue) : app'.queue[i] <= n + 1
    <2>1. \A j \in 1..Len(q) : q[j] <= n + 1
      BY <1>3
    <2>2. n + 1 <= n + 1
      BY <1>3
    <2> QED
      BY <1>8, <2>1, <2>2
  <1>13. Served(app.pending)' /\ Served(delivered)' /\ Served(app.queue)'
    <2>1. \A s : Served(s) => \A i \in 1..Len(s) : s[i] <= n + 1
      BY <1>3, <1>9
    <2>2. app.pending \in Seq(Nat) /\ delivered \in Seq(Nat)
      BY <1>3, <1>9
    <2>3. /\ \A i \in 1..Len(app.pending) : app.pending[i] <= n + 1
          /\ \A i \in 1..Len(delivered) : delivered[i] <= n + 1
      BY <1>3, <2>1
    <2> QED
      BY <1>t, <1>2, <1>8, <1>12, <2>2, <2>3 DEF Served
  <1>14. QueueFits'
    <2>1. app.id < app.next /\ (app.id = NoDrain => app.pending = <<>>)
      BY <1>1 DEF DeliveryFits, QueueFits
    <2> QED
      BY <1>t, <1>2, <1>3, <1>8, <1>11, <1>13, <2>1 DEF QueueFits
  <1>15. (PendingIsDelivered' <=> PendingIsDelivered) /\ (PendingIsNew' <=> PendingIsNew)
    BY <1>t, <1>2 DEF PendingIsDelivered, PendingIsNew
  <1>16. InSession' <=> InSession
    BY <1>t DEF InSession
  <1>17. ForgottenFits' /\ SentFits' /\ DrainsFit' /\ AnswerFits'
    BY <1>t, <1>1, <1>2, <1>15, <1>16 DEF DeliveryFits, ForgottenFits, SentFits, DrainsFit, AnswerFits
  <1>18. InstallsFit'
    BY <1>t, <1>1, <1>2 DEF DeliveryFits, InstallsFit, Busy, Silent, OnlyInstalls
  <1> QED
    BY <1>14, <1>17, <1>18 DEF DeliveryFits

\* An expression is lost.
LEMMA VanishesInOrder ==
  ASSUME DeliveryInv, Vanishes
  PROVE  "late" \notin strays' => DeliveryFits'
  <1> SUFFICES ASSUME "late" \notin strays' PROVE DeliveryFits'
    OBVIOUS
  <1>t. /\ HookTypeOK /\ strays' = strays /\ sent # <<>> /\ sent' = Tail(sent)
        /\ UNCHANGED <<trace, act, drains, app, delivered, forgotten>> /\ sent \in Seq(Expression)
    BY DEF DeliveryInv, HookInv, Vanishes, HookTypeOK
  <1>1. DeliveryFits
    BY <1>t, DeliveryContext
  <1>2. /\ Len(sent) \in Nat /\ Len(sent') = Len(sent) - 1
        /\ \A i \in 1..Len(sent') : i + 1 \in 1..Len(sent) /\ sent'[i] = sent[i + 1]
    BY <1>t, SentIsShorter
  <1>3. QueueFits' /\ ForgottenFits'
    BY <1>t, <1>1 DEF DeliveryFits, QueueFits, ForgottenFits, Served
  <1>4. (PendingIsDelivered' <=> PendingIsDelivered) /\ (PendingIsNew' <=> PendingIsNew)
    BY <1>t DEF PendingIsDelivered, PendingIsNew
  <1>5. SentFits'
    BY <1>t, <1>1, <1>2, <1>4 DEF DeliveryFits, SentFits
  <1>6. DrainsFit'
    <2>1. InSession' <=> InSession
      BY <1>t DEF InSession
    <2> QED
      BY <1>t, <1>1, <1>2, <1>4, <2>1 DEF DeliveryFits, DrainsFit
  <1>7. AnswerFits'
    BY <1>t, <1>1 DEF DeliveryFits, AnswerFits
  <1>8. InstallsFit'
    BY <1>t, <1>1, RestFits DEF DeliveryFits
  <1> QED
    BY <1>3, <1>5, <1>6, <1>7, <1>8 DEF DeliveryFits

\* A drain in the application: what it hands out is new, or it is the pending one again.
LEMMA DrainedFits ==
  ASSUME HookTypeOK, QueueFits, NEW ack \in Nat, app' = Drained(ack), UNCHANGED delivered
  PROVE  /\ QueueFits'
         /\ \/ app' = app /\ app.id # NoDrain /\ ack # app.id
            \/ PendingIsNew' /\ app'.id = NoDrain /\ app'.pending = <<>> /\ app'.next = app.next
            \/ PendingIsNew' /\ app'.id = app.next /\ app'.next = app.next + 1
  <1> DEFINE gone == ToSet(app.pending)
             kept == IF Acknowledges(ack) THEN Filtered(app.queue, gone) ELSE app.queue
             n == IF Len(kept) < BatchSize THEN Len(kept) ELSE BatchSize
             batch == SubSeq(kept, 1, n)
  <1>0. /\ app.queue \in Seq(Nat) /\ app.pending \in Seq(Nat) /\ delivered \in Seq(Nat)
        /\ app.served \in Nat /\ app.id \in Nat /\ app.next \in Nat /\ app.id < app.next
        /\ Ascending(app.queue) /\ Ascending(delivered)
        /\ \A i \in 1..Len(app.queue) : app.queue[i] <= app.served
        /\ Served(delivered)
        /\ app.id = NoDrain => app.pending = <<>>
        /\ DOMAIN app = {"hook", "queue", "served", "pending", "id", "next"}
    BY DEF QueueFits, Served, HookTypeOK
  <1>1. CASE app.id # NoDrain /\ ~Acknowledges(ack)
    <2>1. app' = app /\ ack # app.id
      BY <1>1 DEF Drained, Acknowledges
    <2> QED
      BY <1>1, <2>1 DEF QueueFits, Served
  <1>2. CASE ~(app.id # NoDrain /\ ~Acknowledges(ack))
    <2>1. /\ kept \in Seq(Nat) /\ Ascending(kept)
          /\ \A i \in 1..Len(kept) :
                \E j \in 1..Len(app.queue) :
                   kept[i] = app.queue[j] /\ ~Among(app.queue[j], app.pending)
      <3>1. \A e : e \in gone <=> Among(e, app.pending)
        <4>1. DOMAIN app.pending = 1..Len(app.pending)
          BY <1>0, LenProperties
        <4>2. gone = {app.pending[i] : i \in 1..Len(app.pending)}
          BY <4>1 DEF ToSet
        <4> QED
          BY <4>2 DEF Among
      <3> HIDE DEF gone
      <3>2. CASE Acknowledges(ack)
        <4>1. kept = Filtered(app.queue, gone)
          BY <3>2
        <4> DEFINE left == Filtered(app.queue, gone)
        <4>3. /\ left \in Seq(Nat) /\ Ascending(left)
              /\ \A i \in 1..Len(left) :
                    \E j \in 1..Len(app.queue) : app.queue[j] \notin gone /\ left[i] = app.queue[j]
          BY <1>0, Filters
        <4> HIDE DEF kept
        <4>2. /\ kept \in Seq(Nat) /\ Ascending(kept)
              /\ \A i \in 1..Len(kept) :
                    \E j \in 1..Len(app.queue) : app.queue[j] \notin gone /\ kept[i] = app.queue[j]
          BY <4>1, <4>3
        <4> QED
          BY <3>1, <4>2
      <3>3. CASE ~Acknowledges(ack)
        <4>1. kept = app.queue /\ app.pending = <<>>
          BY <1>0, <1>2, <3>3
        <4>2. Len(app.pending) = 0
          BY <4>1, EmptySeq
        <4>3. \A e : ~Among(e, app.pending)
          BY <4>2 DEF Among
        <4> HIDE DEF kept
        <4>4. kept \in Seq(Nat) /\ Ascending(kept)
          BY <1>0, <4>1
        <4> QED
          BY <4>1, <4>3, <4>4
      <3> QED
        BY <3>2, <3>3
    <2>2. Drained(ack) = IF batch = <<>> THEN [app EXCEPT !.queue = kept, !.id = NoDrain, !.pending = <<>>]
                         ELSE [app EXCEPT !.queue = kept, !.pending = batch, !.id = app.next, !.next = app.next + 1]
      BY <1>2 DEF Drained
    <2> HIDE DEF gone, kept
    <2>3. /\ Len(kept) \in Nat /\ n \in 0..Len(kept) /\ batch \in Seq(Nat) /\ Len(batch) = n
          /\ \A i \in 1..n : batch[i] = kept[i]
      <3>1. Len(kept) \in Nat /\ BatchSize \in Nat /\ kept = kept
        BY <2>1, LenProperties
      <3>2. n \in Nat /\ n <= Len(kept) /\ n \in 0..Len(kept)
        BY <3>1
      <3> HIDE DEF n
      <3>3. \A i \in 1..n : kept[i] \in Nat
        BY <2>1, <3>1, <3>2, ElementOfSeq
      <3> QED
        BY <2>1, <3>1, <3>2, <3>3, SubSeqProperties
    <2> HIDE DEF n, batch
    <2>4. \A i \in 1..Len(kept) : kept[i] <= app.served /\ Beyond(kept[i], delivered) /\ kept[i] \in Nat
      <3>1. \A j \in 1..Len(app.queue) :
               ~Among(app.queue[j], app.pending) => Beyond(app.queue[j], delivered)
        BY DEF QueueFits
      <3> QED
        BY <1>0, <2>1, <3>1, ElementOfSeq
    <2>5. Ascending(batch) /\ \A i \in 1..Len(batch) : Beyond(batch[i], delivered) /\ batch[i] <= app.served
      <3>1. \A i \in 1..Len(batch) : i \in 1..Len(kept) /\ batch[i] = kept[i]
        BY <2>3
      <3> QED
        BY <2>1, <2>4, <3>1 DEF Ascending
    <2>6. \A i \in 1..Len(kept) : Among(kept[i], batch) \/ Beyond(kept[i], batch)
      <3> SUFFICES ASSUME NEW i \in 1..Len(kept)
                   PROVE  Among(kept[i], batch) \/ Beyond(kept[i], batch)
        OBVIOUS
      <3>1. CASE i <= n
        <4>1. i \in 1..Len(batch) /\ batch[i] = kept[i]
          BY <2>3, <3>1
        <4> QED
          BY <4>1 DEF Among
      <3>2. CASE i > n
        <4>1. \A j \in 1..Len(batch) : batch[j] = kept[j] /\ j < i /\ j \in 1..Len(kept)
          BY <2>3, <3>2
        <4>2. \A j \in 1..Len(batch) : batch[j] < kept[i]
          BY <2>1, <4>1 DEF Ascending
        <4> QED
          BY <4>2 DEF Beyond
      <3> QED
        BY <2>3, <3>1, <3>2
    <2>7. <<>> \in Seq(Nat) /\ Len(<<>>) = 0
      BY EmptySeq
    <2>8. CASE batch = <<>>
      <3>1. /\ app'.queue = kept /\ app'.id = NoDrain /\ app'.pending = <<>>
            /\ app'.next = app.next /\ app'.served = app.served
        BY <1>0, <2>2, <2>8
      <3>2. PendingIsNew'
        BY <2>7, <3>1 DEF PendingIsNew
      <3>3. \A i \in 1..Len(app'.queue) :
                Beyond(app'.queue[i], app'.pending) /\ Beyond(app'.queue[i], delivered')
        BY <2>4, <2>7, <3>1 DEF Beyond
      <3>4. Served(app.queue)' /\ Served(app.pending)' /\ Served(delivered)'
        <4>1. \A i \in 1..Len(kept) : kept[i] <= app.served
          BY <2>4
        <4>2. Served(app.queue)' /\ Served(app.pending)'
          BY <2>1, <2>7, <3>1, <4>1 DEF Served
        <4> QED
          BY <1>0, <3>1, <4>2 DEF Served
      <3>5. Ascending(app'.queue) /\ Ascending(app'.pending) /\ Ascending(delivered')
        BY <1>0, <2>1, <2>7, <3>1 DEF Ascending
      <3>6. QueueFits'
        BY <1>0, <3>1, <3>3, <3>4, <3>5 DEF QueueFits, NoDrain
      <3> QED
        BY <3>1, <3>2, <3>6
    <2>9. CASE batch # <<>>
      <3>1. /\ app'.queue = kept /\ app'.id = app.next /\ app'.pending = batch
            /\ app'.next = app.next + 1 /\ app'.served = app.served
        BY <1>0, <2>2, <2>9
      <3>2. PendingIsNew'
        BY <2>5, <3>1 DEF PendingIsNew
      <3>3. \A i \in 1..Len(app'.queue) :
                \/ Among(app'.queue[i], app'.pending)
                \/ Beyond(app'.queue[i], app'.pending) /\ Beyond(app'.queue[i], delivered')
        BY <2>4, <2>6, <3>1
      <3>4. Served(app.queue)' /\ Served(app.pending)' /\ Served(delivered)'
        <4>1. \A i \in 1..Len(kept) : kept[i] <= app.served
          BY <2>4
        <4>2. \A i \in 1..Len(batch) : batch[i] <= app.served
          BY <2>5
        <4>3. Served(app.queue)' /\ Served(app.pending)'
          BY <2>1, <2>3, <3>1, <4>1, <4>2 DEF Served
        <4> QED
          BY <1>0, <3>1, <4>3 DEF Served
      <3>5. Ascending(app'.queue) /\ Ascending(app'.pending) /\ Ascending(delivered')
        BY <1>0, <2>1, <2>5, <3>1 
      <3>6. QueueFits'
        BY <1>0, <3>1, <3>3, <3>4, <3>5 DEF QueueFits, NoDrain
      <3> QED
        BY <3>1, <3>2, <3>6
    <2> QED
      BY <2>8, <2>9
  <1> QED
    BY <1>1, <1>2

\* The step of the application, whatever it runs.
LEMMA RunsInOrder ==
  ASSUME DeliveryInv, AppRuns
  PROVE  "late" \notin strays' => DeliveryFits'
  <1> SUFFICES ASSUME "late" \notin strays' PROVE DeliveryFits'
    OBVIOUS
  <1>0. Starts \subseteq Actors /\ Drain \in Actors /\ Drain \notin Starts
    BY DEF Actors
  <1> DEFINE r == Head(sent)
             more == IF r.what = "drain" /\ Acknowledges(r.ack) THEN ToSet(app.pending) ELSE {}
             new == drains' = [drains EXCEPT !.timeouts = 0, !.id = app'.id, !.events = app'.pending]
  <1>t. /\ HookTypeOK /\ strays' = strays /\ sent # <<>> /\ sent' = Tail(sent) /\ UNCHANGED trace
        /\ sent \in Seq(Expression) /\ act \in [Actors -> ActorRecord]
        /\ app' = Hooked(r.what, r.ack)
        /\ DOMAIN drains = {"ack", "timeouts", "id", "events"} /\ drains.ack \in Nat
        /\ DOMAIN app = {"hook", "queue", "served", "pending", "id", "next"}
    BY DEF DeliveryInv, HookInv, LiveInv, ActorsFit, AppRuns, HookTypeOK
  <1>h. \/ Hears(r) /\ (IF r.what = "drain" THEN new ELSE drains' = drains)
        \/ act' = act /\ drains' = drains
    BY DEF AppRuns
  <1>i. IF r.what = "install" THEN delivered' = <<>> /\ forgotten' = {}
        ELSE delivered' = delivered /\ forgotten' = forgotten \cup more
    BY DEF AppRuns
  <1>1. DeliveryFits
    BY <1>t, DeliveryContext
  <1>2. /\ Len(sent) \in Nat /\ Len(sent') = Len(sent) - 1 /\ 1 \in 1..Len(sent) /\ r = sent[1]
        /\ \A i \in 1..Len(sent') : i + 1 \in 1..Len(sent) /\ sent'[i] = sent[i + 1]
        /\ Len(sent) = 1 => sent' = <<>>
    BY <1>t, SentIsShorter
  <1>3. r \in Expression /\ r.what \in Purposes /\ r.ack \in Nat
    <2>1. r \in Expression
      BY <1>t, <1>2, ElementOfSeq
    <2> HIDE DEF r
    <2> QED
      BY <2>1 DEF Expression
  <1> HIDE DEF r
  <1>4. drains'.ack = drains.ack /\ (new => drains'.id = app'.id /\ drains'.events = app'.pending)
    BY <1>t, <1>h
  <1>5. /\ act' \in [Actors -> ActorRecord]
        /\ \A b \in Actors :
              \/ act'[b].at = act[b].at
              \/ act[b].at = "installing" /\ act'[b].at = "installed"
              \/ act[b].at = "draining" /\ act'[b].at = "drained"
              \/ act[b].at = "unhooking" /\ act'[b].at = "unhooked"
    BY <1>t, AppMoves
  <1>6. \A b \in Actors : act'[b].at # act[b].at =>
           /\ Hears(r) /\ b = r.by /\ ~\E i \in 2..Len(sent) : sent[i].by = b
           /\ r.what = "drain" => new
    <2> SUFFICES ASSUME NEW b \in Actors, act'[b].at # act[b].at
                 PROVE  /\ Hears(r) /\ b = r.by /\ ~\E i \in 2..Len(sent) : sent[i].by = b
                        /\ r.what = "drain" => new
      OBVIOUS
    <2> HIDE DEF new
    <2>1. Hears(r) /\ (r.what = "drain" => new)
      BY <1>h
    <2>2. b = r.by
      BY <1>t, <2>1 DEF Hears
    <2> QED
      BY <2>1, <2>2 DEF Hears
  <1> HIDE DEF new
  <1>7. InSession' <=> InSession
    <2>1. \/ act'[Drain].at = act[Drain].at
          \/ act[Drain].at = "draining" /\ act'[Drain].at = "drained"
          \/ act[Drain].at \notin {"draining", "drained", "idle"}
             /\ act'[Drain].at \notin {"draining", "drained", "idle"}
      BY <1>0, <1>5
    <2> QED
      BY <1>t, <2>1 DEF InSession
  <1>8. InSession => r.what = "drain" /\ r.by = Drain /\ r.ack = drains.ack
    BY <1>1, <1>2 DEF DeliveryFits, DrainsFit
  <1>9. act'[Drain].at = "drained" =>
           /\ InSession /\ sent' = <<>> /\ drains'.id = app'.id /\ drains'.events = app'.pending
    <2> SUFFICES ASSUME act'[Drain].at = "drained"
                 PROVE  /\ InSession /\ sent' = <<>>
                        /\ drains'.id = app'.id /\ drains'.events = app'.pending
      OBVIOUS
    <2>1. InSession
      BY <1>7 DEF InSession
    <2>2. act[Drain].at # "drained"
      BY <1>t, <1>1 DEF DeliveryFits, AnswerFits
    <2>3. Hears(r) /\ r.by = Drain /\ new /\ ~\E i \in 2..Len(sent) : sent[i].by = Drain
      BY <1>0, <1>6, <1>8, <2>1, <2>2
    <2>4. \A i \in 1..Len(sent) : sent[i].by = Drain
      BY <1>1, <2>1 DEF DeliveryFits, DrainsFit
    <2>5. Len(sent) = 1
      BY <1>2, <2>3, <2>4
    <2> QED
      BY <1>2, <1>4, <2>1, <2>3, <2>5
  <1>10. (r.what = "install" => app'.id = NoDrain) => InstallsFit'
    <2> SUFFICES ASSUME r.what = "install" => app'.id = NoDrain
                 PROVE  InstallsFit'
      OBVIOUS
    <2>1. \A k \in Starts :
            \/ act'[k].at = act[k].at
            \/ act[k].at = "unhooking" /\ act'[k].at = "unhooked"
            \/ /\ act[k].at = "installing" /\ act'[k].at = "installed"
               /\ sent[1].by = k /\ (sent[1].what = "install" => app'.id = NoDrain)
      <3> SUFFICES ASSUME NEW k \in Starts, act'[k].at # act[k].at
                   PROVE  \/ act[k].at = "unhooking" /\ act'[k].at = "unhooked"
                          \/ /\ act[k].at = "installing" /\ act'[k].at = "installed"
                             /\ sent[1].by = k
        BY <1>2
      <3>1. act[k].at \in StartPcs
        BY DEF DeliveryInv, HookInv, LiveInv, ActorsFit
      <3>2. r.by = k
        BY <1>0, <1>6
      <3>3. act[k].at # "draining"
        BY <3>1 DEF StartPcs
      <3> QED
        BY <1>0, <1>2, <1>5, <3>2, <3>3
    <2> QED
      BY <1>t, <1>1, <1>4, <2>1, RestFits DEF DeliveryFits
  <1>11. \A i \in 1..Len(sent') : sent'[i].what = "drain" => ~(r.what = "install")
    <2> SUFFICES ASSUME NEW i \in 1..Len(sent'), sent'[i].what = "drain", r.what = "install"
                 PROVE  FALSE
      OBVIOUS
    <2>1. i + 1 \in 1..Len(sent) /\ sent[i + 1].what = "drain" /\ 1 < i + 1
      BY <1>2
    <2> QED
      BY <1>1, <1>2, <2>1 DEF DeliveryFits, SentFits
  <1>12. \A i, j \in 1..Len(sent') : i < j /\ sent'[i].what = "install" => sent'[j].what # "drain"
    <2> SUFFICES ASSUME NEW i \in 1..Len(sent'), NEW j \in 1..Len(sent'), i < j,
                        sent'[i].what = "install", sent'[j].what = "drain"
                 PROVE  FALSE
      OBVIOUS
    <2>0. i + 1 < j + 1
      BY <1>2
    <2>1. /\ i + 1 \in 1..Len(sent) /\ j + 1 \in 1..Len(sent) /\ i + 1 < j + 1
          /\ sent[i + 1].what = "install" /\ sent[j + 1].what = "drain"
      BY <1>2, <2>0
    <2> QED
      BY <1>1, <2>1 DEF DeliveryFits, SentFits
  <1>13. \A i \in 1..Len(sent') : sent'[i].what = "drain" =>
            /\ sent'[i].ack < app.next
            /\ sent'[i].ack # NoDrain /\ sent'[i].ack = app.id => PendingIsDelivered
    BY <1>1, <1>2 DEF DeliveryFits, SentFits
  <1>14. InSession =>
            /\ \A i \in 1..Len(sent') :
                  sent'[i].what = "drain" /\ sent'[i].by = Drain /\ sent'[i].ack = drains.ack
            /\ drains.ack < app.next
            /\ drains.ack = app.id => PendingIsDelivered
            /\ drains.ack # app.id => PendingIsNew
    BY <1>1, <1>2 DEF DeliveryFits, DrainsFit
  <1>15. <<>> \in Seq(Nat) /\ Len(<<>>) = 0
    BY EmptySeq
  <1>16. QueueFits /\ ForgottenFits
    BY <1>1 DEF DeliveryFits
  <1>17. CASE r.what = "install"
    <2>1. /\ app'.queue = <<>> /\ app'.pending = <<>> /\ app'.id = NoDrain /\ app'.next = 1
          /\ app'.served = app.served /\ delivered' = <<>> /\ forgotten' = {}
      BY <1>t, <1>i, <1>17 DEF Hooked
    <2>2. QueueFits' /\ ForgottenFits'
      BY <1>15, <1>16, <2>1 DEF QueueFits, ForgottenFits, Served, Ascending, NoDrain
    <2>3. SentFits'
      BY <1>11, <1>12, <1>17 DEF SentFits
    <2>4. ~InSession
      BY <1>8, <1>17
    <2>5. DrainsFit' /\ AnswerFits'
      BY <1>7, <1>9, <2>4 DEF DrainsFit, AnswerFits
    <2> QED
      BY <1>10, <2>1, <2>2, <2>3, <2>5 DEF DeliveryFits
  <1>18. CASE r.what = "uninstall"
    <2>1. /\ app'.queue = <<>> /\ app'.pending = <<>> /\ app'.id = NoDrain /\ app'.next = app.next
          /\ app'.served = app.served
      BY <1>t, <1>18 DEF Hooked
    <2>2. delivered' = delivered /\ forgotten' = forgotten
      BY <1>i, <1>18
    <2>3. QueueFits' /\ ForgottenFits'
      <3>1. app.next > 0
        BY <1>t, <1>16 DEF QueueFits, HookTypeOK
      <3>2. Served(delivered)' /\ Served(app.queue)' /\ Served(app.pending)'
        BY <1>15, <1>16, <2>1, <2>2 DEF QueueFits, Served
      <3> QED
        BY <1>15, <1>16, <2>1, <2>2, <3>1, <3>2 DEF QueueFits, ForgottenFits, Ascending, NoDrain
    <2>4. SentFits'
      BY <1>12, <1>13, <2>1 DEF SentFits
    <2>5. ~InSession
      BY <1>8, <1>18
    <2>6. DrainsFit' /\ AnswerFits'
      BY <1>7, <1>9, <2>5 DEF DrainsFit, AnswerFits
    <2> QED
      BY <1>10, <1>18, <2>3, <2>4, <2>6 DEF DeliveryFits
  <1>19. CASE r.what = "disable"
    <2>1. /\ app'.queue = app.queue /\ app'.pending = app.pending /\ app'.id = app.id
          /\ app'.next = app.next /\ app'.served = app.served
      BY <1>t, <1>19 DEF Hooked
    <2>2. delivered' = delivered /\ forgotten' = forgotten
      BY <1>i, <1>19
    <2>3. QueueFits' /\ ForgottenFits'
      BY <1>16, <2>1, <2>2 DEF QueueFits, ForgottenFits, Served
    <2>4. PendingIsDelivered' <=> PendingIsDelivered
      BY <2>1, <2>2 DEF PendingIsDelivered
    <2>5. SentFits'
      BY <1>12, <1>13, <2>1, <2>4 DEF SentFits
    <2>6. ~InSession
      BY <1>8, <1>19
    <2>7. DrainsFit' /\ AnswerFits'
      BY <1>7, <1>9, <2>6 DEF DrainsFit, AnswerFits
    <2> QED
      BY <1>10, <1>19, <2>3, <2>5, <2>7 DEF DeliveryFits
  <1>20. CASE r.what = "drain"
    <2>1. app' = Drained(r.ack) /\ delivered' = delivered /\ forgotten' = forgotten \cup more
      BY <1>t, <1>i, <1>20 DEF Hooked
    <2>2. /\ QueueFits'
          /\ \/ app' = app /\ app.id # NoDrain /\ r.ack # app.id
             \/ PendingIsNew' /\ app'.id = NoDrain /\ app'.pending = <<>> /\ app'.next = app.next
             \/ PendingIsNew' /\ app'.id = app.next /\ app'.next = app.next + 1
      BY <1>t, <1>3, <1>16, <2>1, DrainedFits
    <2>3. ForgottenFits'
      <3>1. r.ack # NoDrain /\ r.ack = app.id => PendingIsDelivered
        BY <1>1, <1>2, <1>20 DEF DeliveryFits, SentFits
      <3>2. ASSUME NEW e \in more
            PROVE  Among(e, delivered)
        <4>1. app.id # NoDrain /\ r.ack = app.id /\ e \in ToSet(app.pending)
          BY <3>2 DEF Acknowledges
        <4>2. DOMAIN app.pending = 1..Len(app.pending)
          BY <1>16, LenProperties DEF QueueFits, Served
        <4>3. PICK i \in 1..Len(app.pending) : app.pending[i] = e
          BY <4>1, <4>2 DEF ToSet
        <4> QED
          BY <3>1, <4>1, <4>3 DEF PendingIsDelivered
      <3> HIDE DEF more
      <3> QED
        BY <1>16, <2>1, <3>2 DEF ForgottenFits
    <2>n. app.next \in Nat /\ app.id \in Nat /\ app.id < app.next
      BY <1>t, <1>16 DEF HookTypeOK, QueueFits
    <2>e. \A i \in 1..Len(sent') : sent'[i].ack \in Nat
      <3>1. \A i \in 1..Len(sent) : sent[i] \in Expression
        BY <1>t, ElementOfSeq
      <3> QED
        BY <1>2, <3>1 DEF Expression
    <2>4. app' = app => (PendingIsDelivered' <=> PendingIsDelivered) /\ (PendingIsNew' <=> PendingIsNew)
      BY <2>1 DEF PendingIsDelivered, PendingIsNew
    <2>5. SentFits'
      <3>1. ASSUME NEW i \in 1..Len(sent'), sent'[i].what = "drain"
            PROVE  /\ sent'[i].ack < app'.next
                   /\ sent'[i].ack # NoDrain /\ sent'[i].ack = app'.id => PendingIsDelivered'
        BY <1>13, <2>2, <2>4, <2>n, <2>e, <3>1
      <3> QED
        BY <1>12, <3>1 DEF SentFits
    <2>6. DrainsFit'
      <3> SUFFICES ASSUME InSession
                   PROVE  /\ drains.ack < app'.next
                          /\ drains.ack = app'.id => PendingIsDelivered'
                          /\ drains.ack # app'.id => PendingIsNew'
        BY <1>4, <1>7, <1>14 DEF DrainsFit
      <3>1. app'.pending = <<>> => PendingIsDelivered'
        BY <1>15 DEF PendingIsDelivered
      <3> QED
        BY <1>t, <1>14, <2>2, <2>4, <2>n, <3>1
    <2>7. AnswerFits'
      <3> SUFFICES ASSUME act'[Drain].at = "drained", app'.id # NoDrain
                   PROVE  drains.ack # app'.id
        BY <1>4, <1>9 DEF AnswerFits
      <3>1. InSession /\ r.ack = drains.ack /\ drains.ack < app.next
        BY <1>8, <1>9, <1>14
      <3> QED
        BY <1>t, <2>2, <2>n, <3>1
    <2> QED
      BY <1>10, <1>20, <2>2, <2>3, <2>5, <2>6, <2>7 DEF DeliveryFits
  <1> QED
    BY <1>3, <1>17, <1>18, <1>19, <1>20 DEF Purposes

LEMMA DeliverySteps == DeliveryInv /\ [TraceNext]_tracevars => DeliveryInv'
  <1> SUFFICES ASSUME DeliveryInv, [TraceNext]_tracevars PROVE DeliveryInv'
    OBVIOUS
  <1>1. HookInv'
    BY HookSteps DEF DeliveryInv, HookInv
  <1>2. "late" \notin strays' => DeliveryFits'
    <2>1. CASE UNCHANGED tracevars
      <3>1. /\ UNCHANGED <<app, sent, delivered, forgotten, drains, act, trace, strays>>
        BY <2>1 DEF tracevars
      <3>2. InSession' <=> InSession
        BY <3>1 DEF InSession
      <3>3. \A l \in Starts : Busy(l)' <=> Busy(l)
        BY <3>1 DEF Busy
      <3> QED
        BY <3>1, <3>2, <3>3, DeliveryContext, EventsKept DEF DeliveryFits, InstallsFit
    <2>2. /\ Starts \subseteq Actors /\ Stops \subseteq Actors /\ Drain \in Actors
      BY DEF Actors
    <2> QED
      BY <2>1, <2>2, StartsDeliver, AttachesDelivers, StreamsDeliver, DrainSendsInOrder,
         HandsOverInOrder, DrainFailsInOrder, DrainGivesUp, StopsKeepOrder, UnhooksInOrder,
         TeardownKeepsOrder, ServesInOrder, RunsInOrder, VanishesInOrder
      DEF TraceNext
  <1> QED
    BY <1>1, <1>2 DEF DeliveryInv, HookInv

\* "Poll a bounded in-process queue with acknowledgement-based retries" (README.md:209):
\* for any number of events, drains, timeouts and repetitions, an event leaves the queue as
\* acknowledged only when onEvents has had it, and onEvents gets each event once and in
\* order, unless a stop or a start came too late.
THEOREM EventsComeOnceInOrder == TraceSpec => []DeliveredOnceInOrder
  <1>1. DeliveryInv => DeliveredOnceInOrder
    <2> SUFFICES ASSUME DeliveryInv, "late" \notin strays
                 PROVE  /\ forgotten \subseteq ToSet(delivered)
                        /\ \A i, j \in DOMAIN delivered : i < j => delivered[i] < delivered[j]
      BY DEF DeliveredOnceInOrder
    <2>1. QueueFits /\ ForgottenFits
      BY DEF DeliveryInv, HookInv, DeliveryFits
    <2>2. DOMAIN delivered = 1..Len(delivered)
      BY <2>1, LenProperties DEF QueueFits, Served
    <2>3. ASSUME NEW e \in forgotten PROVE e \in ToSet(delivered)
      BY <2>1, <2>2 DEF ForgottenFits, Among, ToSet
    <2> QED
      BY <2>1, <2>2, <2>3 DEF QueueFits, Ascending
  <1> QED
    BY <1>1, DeliveryBegins, DeliverySteps, PTL DEF TraceSpec

(***************************************************************************)
(* The types of a live trace, with the bound of what the application       *)
(* serves.                                                                 *)
(***************************************************************************)
Event == 1..MaxServed

StatesTyped ==
    /\ trace \in [state : Running \cup {"idle", "stopped", "error"}, remains : BOOLEAN]
    /\ stopRequested \in BOOLEAN /\ polling \in BOOLEAN /\ strays \subseteq Strays

EventsTyped ==
    /\ app \in AppHook /\ drains.events \in Seq(Event)
    /\ delivered \in Seq(Event) /\ forgotten \subseteq Event

LEMMA StatesStayTyped == StatesTyped /\ [TraceNext]_tracevars => StatesTyped'
  <1> SUFFICES ASSUME StatesTyped, [TraceNext]_tracevars PROVE StatesTyped'
    OBVIOUS
  <1> USE DEF StatesTyped, Strayed, StopsPolling, Strays, MayHook
  <1>p. ASSUME NEW state \in Running \cup {"idle", "stopped", "error"}, NEW remains \in BOOLEAN,
               Posts(state, remains)
        PROVE  trace' \in [state : Running \cup {"idle", "stopped", "error"}, remains : BOOLEAN]
    BY <1>p DEF Posts
  <1>1. ASSUME NEW k \in Starts, \/ StartsTrace(k) \/ Prepares(k) \/ StopsLateTunnel(k)
                                 \/ TunnelOpens(k) \/ Attaches(k) \/ Streams(k) \/ StartFails(k)
        PROVE  StatesTyped'
    <2>1. trace' \in [state : Running \cup {"idle", "stopped", "error"}, remains : BOOLEAN]
      BY <1>1, <1>p DEF StartsTrace, Prepares, StopsLateTunnel, TunnelOpens, Attaches, Streams,
                        StartFails, Running
    <2>2. stopRequested' \in BOOLEAN /\ polling' \in BOOLEAN
      BY <1>1, Zenon DEF StartsTrace, Prepares, StopsLateTunnel, TunnelOpens, Attaches, Streams,
                         StartFails
    <2>3. strays' \subseteq Strays
      BY <1>1 DEF StartsTrace, Prepares, StopsLateTunnel, TunnelOpens, Attaches, Streams, StartFails
    <2> QED
      BY <2>1, <2>2, <2>3
  <1>2. CASE StartsDrain \/ HandsOver \/ DrainFails \/ DrainTimesOut
    BY <1>2 DEF StartsDrain, HandsOver, DrainFails, DrainTimesOut
  <1>3. ASSUME NEW k \in Stops, StopsIdle(k) \/ \E uninstall \in BOOLEAN : StopsTrace(k, uninstall)
        PROVE  StatesTyped'
    <2>1. trace' \in [state : Running \cup {"idle", "stopped", "error"}, remains : BOOLEAN]
      <3>1. (handle.client # Nobody) \in BOOLEAN
        OBVIOUS
      <3> QED
        BY <1>3, <1>p, <3>1 DEF StopsIdle, StopsTrace, Running
    <2>2. stopRequested' \in BOOLEAN /\ polling' \in BOOLEAN
      BY <1>3, Zenon DEF StopsIdle, StopsTrace
    <2>3. strays' \subseteq Strays
      BY <1>3 DEF StopsIdle, StopsTrace
    <2> QED
      BY <2>1, <2>2, <2>3
  <1>4. ASSUME NEW a, Unhooks(a) \/ (\E answered \in BOOLEAN : LeavesHook(a, answered)) \/ Closes(a)
        PROVE  StatesTyped'
    <2>1. trace' \in [state : Running \cup {"idle", "stopped", "error"}, remains : BOOLEAN]
      <3>1. (act[a].hook /\ ~act[a].gone) \in BOOLEAN
        OBVIOUS
      <3> QED
        BY <1>4, <1>p, <3>1 DEF Unhooks, LeavesHook, Closes, PostsEnd
    <2>2. stopRequested' \in BOOLEAN /\ polling' \in BOOLEAN
      BY <1>4, Zenon DEF Unhooks, LeavesHook, Closes
    <2>3. strays' \subseteq Strays
      BY <1>4 DEF Unhooks, LeavesHook, Closes
    <2> QED
      BY <2>1, <2>2, <2>3
  <1>5. CASE Serves \/ AppRuns \/ Vanishes
    BY <1>5 DEF Serves, AppRuns, Vanishes
  <1>6. CASE UNCHANGED tracevars
    BY <1>6 DEF tracevars
  <1> QED
    BY <1>1, <1>2, <1>3, <1>4, <1>5, <1>6 DEF TraceNext

\* What the hook does with an expression.
LEMMA HookStaysTyped ==
  ASSUME app \in AppHook, NEW what \in Purposes, NEW ack \in Nat
  PROVE  Hooked(what, ack) \in AppHook
  <1>1. /\ <<>> \in Seq(Event) /\ app.queue \in Seq(Event) /\ app.pending \in Seq(Event)
        /\ app.next \in Nat
    BY EmptySeq DEF AppHook, Event
  <1>2. Drained(ack) \in AppHook
    <2> DEFINE kept == IF Acknowledges(ack) THEN Filtered(app.queue, ToSet(app.pending)) ELSE app.queue
               n == IF Len(kept) < BatchSize THEN Len(kept) ELSE BatchSize
               batch == SubSeq(kept, 1, n)
    <2>1. kept \in Seq(Event)
      BY <1>1, Picks
    <2> HIDE DEF kept
    <2>2. Len(kept) \in Nat /\ n \in 0..Len(kept) /\ \A i \in 1..Len(kept) : kept[i] \in Event
      BY <2>1, LenProperties, ElementOfSeq
    <2> HIDE DEF n
    <2>3. batch \in Seq(Event)
      <3>1. \A i \in 1..n : kept[i] \in Event
        BY <2>2
      <3>2. 1 \in Int /\ n \in Int
        BY <2>2
      <3> QED
        BY <3>1, <3>2, SubSeqProperties
    <2>4. \/ Drained(ack) = app
          \/ Drained(ack) = [app EXCEPT !.queue = kept, !.id = NoDrain, !.pending = <<>>]
          \/ Drained(ack) = [app EXCEPT !.queue = kept, !.pending = batch, !.id = app.next,
                                        !.next = @ + 1]
      BY DEF Drained, kept, n
    <2> HIDE DEF batch
    <2>5. [app EXCEPT !.queue = kept, !.id = NoDrain, !.pending = <<>>] \in AppHook
      BY <1>1, <2>1 DEF AppHook, NoDrain, Event
    <2>6. [app EXCEPT !.queue = kept, !.pending = batch, !.id = app.next, !.next = @ + 1] \in AppHook
      <3>1. app.next + 1 \in Nat /\ app.next \in Nat
        BY <1>1
      <3>2. ASSUME NEW q \in Seq(Event), NEW b \in Seq(Event), NEW i \in Nat, NEW n2 \in Nat
            PROVE  [app EXCEPT !.queue = q, !.pending = b, !.id = i, !.next = n2] \in AppHook
        BY DEF AppHook, Event
      <3>3. [app EXCEPT !.queue = kept, !.pending = batch, !.id = app.next, !.next = @ + 1]
              = [app EXCEPT !.queue = kept, !.pending = batch, !.id = app.next, !.next = app.next + 1]
        BY DEF AppHook
      <3> QED
        BY <2>1, <2>3, <3>1, <3>2, <3>3
    <2> QED
      BY <2>4, <2>5, <2>6
  <1>3. Hooked(what, ack) \in {Drained(ack)} \cup
          {[app EXCEPT !.hook = "on", !.queue = <<>>, !.pending = <<>>, !.id = NoDrain, !.next = 1],
           [app EXCEPT !.hook = "none", !.queue = <<>>, !.pending = <<>>, !.id = NoDrain],
           [app EXCEPT !.hook = IF @ = "none" THEN "none" ELSE "off"]}
    BY DEF Hooked, Purposes
  <1>4. [app EXCEPT !.hook = "on", !.queue = <<>>, !.pending = <<>>, !.id = NoDrain,
                    !.next = 1] \in AppHook
    BY <1>1 DEF AppHook, NoDrain, Event
  <1>5. [app EXCEPT !.hook = "none", !.queue = <<>>, !.pending = <<>>, !.id = NoDrain] \in AppHook
    BY <1>1 DEF AppHook, NoDrain, Event
  <1>6. [app EXCEPT !.hook = IF @ = "none" THEN "none" ELSE "off"] \in AppHook
    BY DEF AppHook
  <1> QED
    BY <1>2, <1>3, <1>4, <1>5, <1>6

LEMMA EventsStayTyped == HookInv /\ EventsTyped /\ [TraceNext]_tracevars => EventsTyped'
  <1> SUFFICES ASSUME HookInv, EventsTyped, [TraceNext]_tracevars PROVE EventsTyped'
    OBVIOUS
  <1>1. /\ DOMAIN drains = {"ack", "timeouts", "id", "events"} /\ sent \in Seq(Expression)
        /\ <<>> \in Seq(Event) /\ MaxServed \in Nat
    BY EmptySeq DEF HookInv, HookTypeOK
  <1>2. ASSUME UNCHANGED <<app, delivered, forgotten>>, drains'.events \in {drains.events, <<>>}
        PROVE  EventsTyped'
    BY <1>1, <1>2 DEF EventsTyped, AppHook
  <1>3. ASSUME NEW k \in Starts, \/ StartsTrace(k) \/ Prepares(k) \/ StopsLateTunnel(k)
                                 \/ TunnelOpens(k) \/ Attaches(k) \/ Streams(k) \/ StartFails(k)
        PROVE  EventsTyped'
    BY <1>1, <1>2, <1>3
    DEF StartsTrace, Prepares, StopsLateTunnel, TunnelOpens, Attaches, Streams, StartFails
  <1>4. CASE StartsDrain \/ DrainFails \/ DrainTimesOut
    BY <1>1, <1>2, <1>4 DEF StartsDrain, DrainFails, DrainTimesOut
  <1>5. CASE HandsOver
    <2>1. delivered \o drains.events \in Seq(Event)
      BY ConcatProperties DEF EventsTyped
    <2> QED
      BY <1>1, <1>5, <2>1 DEF HandsOver, EventsTyped, AppHook
  <1>6. ASSUME NEW k \in Stops, StopsIdle(k) \/ \E uninstall \in BOOLEAN : StopsTrace(k, uninstall)
        PROVE  EventsTyped'
    BY <1>2, <1>6 DEF StopsIdle, StopsTrace
  <1>7. ASSUME NEW a, Unhooks(a) \/ (\E answered \in BOOLEAN : LeavesHook(a, answered)) \/ Closes(a)
        PROVE  EventsTyped'
    BY <1>1, <1>2, <1>7 DEF Unhooks, LeavesHook, Closes
  <1>8. CASE Serves
    <2>1. app.served + 1 \in Event /\ app.queue \in Seq(Event)
      BY <1>1, <1>8 DEF Serves, EventsTyped, AppHook, Event
    <2>2. Append(app.queue, app.served + 1) \in Seq(Event)
      BY <2>1, AppendProperties
    <2>3. Len(app.queue) >= QueueSize =>
            Tail(app.queue) \in Seq(Event) /\ Append(Tail(app.queue), app.served + 1) \in Seq(Event)
      <3> SUFFICES ASSUME Len(app.queue) >= QueueSize
                   PROVE  Tail(app.queue) \in Seq(Event)
        BY <2>1, AppendProperties
      <3>1. app.queue # <<>>
        BY EmptySeq
      <3> QED
        BY <2>1, <3>1, HeadTailProperties
    <2>a. \E q : /\ q \in Seq(Event)
                 /\ app' = [app EXCEPT !.served = @ + 1, !.queue = q]
      BY <1>8, <2>1, <2>2, <2>3 DEF Serves
    <2>b. app.served + 1 \in 0..MaxServed
      BY <1>1, <2>1 DEF Event
    <2>4. app' \in AppHook
      BY <2>a, <2>b DEF EventsTyped, AppHook, Event
    <2> QED
      BY <1>8, <2>4 DEF Serves, EventsTyped
  <1>9. CASE AppRuns
    <2> DEFINE r == Head(sent)
    <2>1. sent # <<>> /\ app' = Hooked(r.what, r.ack)
      BY <1>9 DEF AppRuns
    <2>2. r \in Expression
      BY <1>1, <2>1, HeadTailProperties
    <2> HIDE DEF r
    <2>3. app' \in AppHook
      BY <2>1, <2>2, HookStaysTyped DEF EventsTyped, Expression
    <2>4. drains'.events = drains.events \/ drains'.events = app'.pending
      BY <1>1, <1>9 DEF AppRuns
    <2>5. drains'.events \in Seq(Event)
      BY <2>3, <2>4 DEF EventsTyped, AppHook, Event
    <2>6. delivered' \in Seq(Event)
      BY <1>1, <1>9 DEF AppRuns, EventsTyped
    <2>7. ToSet(app.pending) \subseteq Event
      BY Elements DEF EventsTyped, AppHook, Event
    <2>8. forgotten' \subseteq Event
      BY <1>9, <2>7 DEF AppRuns, EventsTyped
    <2> QED
      BY <2>3, <2>5, <2>6, <2>8 DEF EventsTyped, AppHook
  <1>10. CASE Vanishes
    BY <1>2, <1>10 DEF Vanishes
  <1>11. CASE UNCHANGED tracevars
    BY <1>2, <1>11 DEF tracevars
  <1> QED
    BY <1>3, <1>4, <1>5, <1>6, <1>7, <1>8, <1>9, <1>10, <1>11 DEF TraceNext

\* The session, the hook, its queue and what was handed over keep their types.
THEOREM TraceKeepsTypes == TraceSpec => []TraceTypeOK
  <1>0. <<>> \in Seq(Event) /\ MaxServed \in Nat
    BY EmptySeq, LiveTraceAssumption
  <1>1. TraceInit => StatesTyped /\ EventsTyped
    <2>1. TraceInit => StatesTyped
      <3>1. [state |-> "idle", remains |-> FALSE]
              \in [state : Running \cup {"idle", "stopped", "error"}, remains : BOOLEAN]
        OBVIOUS
      <3>2. FALSE \in BOOLEAN /\ {} \subseteq Strays
        OBVIOUS
      <3> QED
        BY <3>1, <3>2, Zenon DEF TraceInit, StatesTyped
    <2>2. TraceInit => EventsTyped
      BY <1>0 DEF TraceInit, EventsTyped, AppHook, Event, NoDrain
    <2> QED
      BY <2>1, <2>2
  <1>2. HookInv /\ StatesTyped /\ EventsTyped => TraceTypeOK
    BY DEF HookInv, LiveInv, ActorsFit, OneTimer, Connections, StatesTyped, EventsTyped, Event, TraceTypeOK
  <1> QED
    BY HookBegins, HookSteps, StatesStayTyped, EventsStayTyped, <1>1, <1>2, PTL DEF TraceSpec

(***************************************************************************)
(* The recording of cf-function-trace.                                     *)
(***************************************************************************)
USE RecordAssumption

\* The points before there is a session, and those after it.
Opening == {"open", "opening", "connect"}
Closed == {"closeTunnel", "settled"}

\* The request that the main flow waits for is the only one on the wire that it does.
OneAwaited ==
    /\ answer # "none" => recordAt \in DOMAIN Request \cup {"exited"}
    /\ \A i \in 1..Len(wire) : wire[i].by = "main" =>
          /\ answer = "pending"
          /\ \A j \in 1..Len(wire) : wire[j].by = "main" => j = i
          /\ recordAt # "exited" => wire[i].op = Request[recordAt]

\* A session that is over has nothing left in the application once the wire is empty.
SessionFits ==
    /\ Connected => link.tunnel = "up"
    /\ ~Connected => IF wire = <<>> THEN target = Idle ELSE wire[Len(wire)].op = "close"
    /\ recordAt \in Opening => link.client = "none"
    /\ link.client = "none" => wire = <<>>
    /\ recordAt = "open" => link.tunnel # "up"
    /\ recordAt \in Closed => ~Connected

GuardFits ==
    /\ recordAt \in {"open", "opening"} => guarded = {}
    /\ "session" \in guarded => recordAt \notin Opening
    /\ recordAt \notin {"open", "opening", "settled", "exited"} => "tunnel" \in guarded
    /\ recordAt = "settled" /\ link.tunnel = "up" => "tunnel" \in failings

EmergencyFits ==
    /\ emergency.at # "off" => "tunnel" \in emergency.of \/ "opening" \in failings
    /\ "tunnel" \in emergency.of => recordAt \notin {"open", "opening"}
    /\ "session" \in emergency.of => recordAt \notin Opening
    /\ emergency.at = "exit" /\ link.tunnel = "up" => "tunnel" \in failings \/ "opening" \in failings
    /\ emergency.at \in {"tunnel", "exit"} /\ "session" \in emergency.of => ~Connected \/ "session" \in failings
    /\ recordAt = "exited" =>
          \/ emergency.at = "exit"
          \/ ~Connected /\ (link.tunnel = "up" => "tunnel" \in failings)

OnWire(op) == \E i \in 1..Len(wire) : wire[i].op = op

ExceptionsUndone ==
    /\ target.exceptions \/ OnWire("exceptionsOn") => "exceptions" \in undo
    /\ recordAt = "cleanExceptions" /\ answer = "pending" =>
          \A i \in 1..Len(wire) : wire[i].op = "exceptionsOn" =>
             \E j \in 1..Len(wire) : j > i /\ wire[j].by = "main"
    /\ \/ recordAt = "cleanExceptions" /\ answer = "ok"
       \/ recordAt \in {"cleanBreakpoint", "cleanPause", "recorded"} /\ "cleanUp" \notin failings
       => ~target.exceptions /\ ~OnWire("exceptionsOn")

BreakpointRemoved ==
    recordAt # "exited" /\ "unknown" \notin failings =>
      /\ \A i \in 1..Len(wire) : wire[i].op = "setBreakpoint" => wire[i].by = "main"
      /\ target.breakpoint =>
           /\ "breakpoint" \in undo \/ (recordAt = "setBreakpoint" /\ answer = "ok")
           /\ ~(recordAt \in {"removeBreakpoint", "cleanBreakpoint"} /\ answer = "ok")
           /\ recordAt \in {"cleanPause", "recorded"} => "cleanUp" \in failings

Unpausing == {"step", "resume", "disable", "close"}
PauseKnown ==
    /\ "pause" \in undo
    /\ recordAt # "recorded" /\ ~(recordAt \in {"step", "cleanPause"} /\ answer = "ok")
PauseReleased ==
    target.paused /\ recordAt \notin {"dispose", "closeTunnel", "settled", "exited"} =>
       \/ buffered \/ "unjudged" \in failings \/ "cleanUp" \in failings
       \/ \E op \in Unpausing : OnWire(op)
       \/ PauseKnown
       \/ recordAt = "skip" /\ answer = "none"

StepsLeft ==
    /\ recordAt = "step" => spent.steps < MaxSteps
    /\ recordAt = "skip" => spent.skips < MaxSkips
    /\ recordAt = "cleanExceptions" /\ answer # "none" => "exceptions" \in undo
    /\ recordAt = "cleanBreakpoint" /\ answer # "none" => "breakpoint" \in undo
    /\ recordAt = "cleanPause" /\ answer # "none" => "pause" \in undo

LEMMA Points ==
  /\ DOMAIN Request = {"setBreakpoint", "removeBreakpoint", "enableExceptions", "step", "skip",
                        "cleanExceptions", "cleanBreakpoint", "cleanPause", "dispose"}
  /\ RecordPcs = {"setBreakpoint", "removeBreakpoint", "enableExceptions", "step", "skip",
                  "cleanExceptions", "cleanBreakpoint", "cleanPause", "dispose",
                  "open", "opening", "connect", "plan", "await", "capture",
                  "awaitStep", "recorded", "closeTunnel", "settled", "exited"}
  <1>1. DOMAIN Request = {"setBreakpoint", "removeBreakpoint", "enableExceptions", "step", "skip",
                        "cleanExceptions", "cleanBreakpoint", "cleanPause", "dispose"}
    BY DEF Request
  <1> QED
    BY <1>1 DEF RecordPcs

RecordInv == RecordTypeOK /\ OneAwaited /\ SessionFits /\ GuardFits /\ EmergencyFits
           /\ ExceptionsUndone /\ BreakpointRemoved /\ PauseReleased /\ StepsLeft

LEMMA TunnelIsReadyKeeps ==
  ASSUME RecordInv, TunnelIsReady
  PROVE  RecordInv'
  <1>t. RecordTypeOK /\ OneAwaited /\ SessionFits /\ GuardFits /\ EmergencyFits
          /\ ExceptionsUndone /\ BreakpointRemoved /\ PauseReleased /\ StepsLeft
    BY DEF RecordInv
  <1>1. RecordTypeOK'
    BY <1>t DEF RecordTypeOK, RecordPcs, Request, Guardable, TunnelIsReady, outside, Record
  <1>2. OneAwaited'
    BY <1>t DEF OneAwaited, Request, TunnelIsReady, outside, Record
  <1>3. SessionFits'
    BY <1>t DEF SessionFits, Closed, Opening, Connected, TunnelIsReady, outside, Record
  <1>4. GuardFits'
    BY <1>t DEF GuardFits, Opening, TunnelIsReady, outside, Record
  <1>5. EmergencyFits'
    BY <1>t DEF EmergencyFits, Opening, Connected, TunnelIsReady, outside, Record
  <1>6. ExceptionsUndone'
    BY <1>t DEF ExceptionsUndone, OnWire, TunnelIsReady, outside, Record
  <1>7. BreakpointRemoved'
    BY <1>t DEF BreakpointRemoved, TunnelIsReady, outside, Record
  <1>8. PauseReleased'
    BY <1>t DEF PauseReleased, PauseKnown, OnWire, TunnelIsReady, outside, Record
  <1>9. StepsLeft'
    BY <1>t DEF StepsLeft, TunnelIsReady, outside, Record
  <1> QED
    BY <1>1, <1>2, <1>3, <1>4, <1>5, <1>6, <1>7, <1>8, <1>9 DEF RecordInv

LEMMA ConnectFailsKeeps ==
  ASSUME RecordInv, ConnectFails
  PROVE  RecordInv'
  <1>t. RecordTypeOK /\ OneAwaited /\ SessionFits /\ GuardFits /\ EmergencyFits
          /\ ExceptionsUndone /\ BreakpointRemoved /\ PauseReleased /\ StepsLeft
    BY DEF RecordInv
  <1>1. RecordTypeOK'
    BY <1>t DEF RecordTypeOK, RecordPcs, Request, Guardable, ConnectFails, outside, Record
  <1>2. OneAwaited'
    BY <1>t DEF OneAwaited, Request, ConnectFails, outside, Record
  <1>3. SessionFits'
    BY <1>t DEF SessionFits, Closed, Opening, Connected, ConnectFails, outside, Record
  <1>4. GuardFits'
    BY <1>t DEF GuardFits, Opening, ConnectFails, outside, Record
  <1>5. EmergencyFits'
    BY <1>t DEF EmergencyFits, Opening, Connected, ConnectFails, outside, Record
  <1>6. ExceptionsUndone'
    BY <1>t DEF ExceptionsUndone, OnWire, ConnectFails, outside, Record
  <1>7. BreakpointRemoved'
    BY <1>t DEF BreakpointRemoved, ConnectFails, outside, Record
  <1>8. PauseReleased'
    BY <1>t DEF PauseReleased, PauseKnown, OnWire, ConnectFails, outside, Record
  <1>9. StepsLeft'
    BY <1>t DEF StepsLeft, ConnectFails, outside, Record
  <1> QED
    BY <1>1, <1>2, <1>3, <1>4, <1>5, <1>6, <1>7, <1>8, <1>9 DEF RecordInv

LEMMA StartsRecordingKeeps ==
  ASSUME RecordInv, StartsRecording
  PROVE  RecordInv'
  <1>t. RecordTypeOK /\ OneAwaited /\ SessionFits /\ GuardFits /\ EmergencyFits
          /\ ExceptionsUndone /\ BreakpointRemoved /\ PauseReleased /\ StepsLeft
    BY DEF RecordInv
  <1>1. RecordTypeOK'
    BY <1>t DEF RecordTypeOK, RecordPcs, Request, Guardable, StartsRecording, outside, Record
  <1>2. OneAwaited'
    BY <1>t DEF OneAwaited, Request, StartsRecording, outside, Record
  <1>3. SessionFits'
    BY <1>t DEF SessionFits, Closed, Opening, Connected, StartsRecording, outside, Record
  <1>4. GuardFits'
    BY <1>t DEF GuardFits, Opening, StartsRecording, outside, Record
  <1>5. EmergencyFits'
    BY <1>t DEF EmergencyFits, Opening, Connected, StartsRecording, outside, Record
  <1>6. ExceptionsUndone'
    BY <1>t DEF ExceptionsUndone, OnWire, StartsRecording, outside, Record
  <1>7. BreakpointRemoved'
    BY <1>t DEF BreakpointRemoved, StartsRecording, outside, Record
  <1>8. PauseReleased'
    BY <1>t DEF PauseReleased, PauseKnown, OnWire, StartsRecording, outside, Record
  <1>9. StepsLeft'
    BY <1>t DEF StepsLeft, StartsRecording, outside, Record
  <1> QED
    BY <1>1, <1>2, <1>3, <1>4, <1>5, <1>6, <1>7, <1>8, <1>9 DEF RecordInv

LEMMA PlansOnlyKeeps ==
  ASSUME RecordInv, PlansOnly
  PROVE  RecordInv'
  <1>t. RecordTypeOK /\ OneAwaited /\ SessionFits /\ GuardFits /\ EmergencyFits
          /\ ExceptionsUndone /\ BreakpointRemoved /\ PauseReleased /\ StepsLeft
    BY DEF RecordInv
  <1>1. RecordTypeOK'
    BY <1>t DEF RecordTypeOK, RecordPcs, Request, Guardable, PlansOnly, outside, Record
  <1>2. OneAwaited'
    BY <1>t DEF OneAwaited, Request, PlansOnly, outside, Record
  <1>3. SessionFits'
    BY <1>t DEF SessionFits, Closed, Opening, Connected, PlansOnly, outside, Record
  <1>4. GuardFits'
    BY <1>t DEF GuardFits, Opening, PlansOnly, outside, Record
  <1>5. EmergencyFits'
    BY <1>t DEF EmergencyFits, Opening, Connected, PlansOnly, outside, Record
  <1>6. ExceptionsUndone'
    BY <1>t DEF ExceptionsUndone, OnWire, PlansOnly, outside, Record
  <1>7. BreakpointRemoved'
    BY <1>t DEF BreakpointRemoved, PlansOnly, outside, Record
  <1>8. PauseReleased'
    BY <1>t DEF PauseReleased, PauseKnown, OnWire, PlansOnly, outside, Record
  <1>9. StepsLeft'
    BY <1>t DEF StepsLeft, PlansOnly, outside, Record
  <1> QED
    BY <1>1, <1>2, <1>3, <1>4, <1>5, <1>6, <1>7, <1>8, <1>9 DEF RecordInv

LEMMA EndsRunKeeps ==
  ASSUME RecordInv, EndsRun
  PROVE  RecordInv'
  <1>t. RecordTypeOK /\ OneAwaited /\ SessionFits /\ GuardFits /\ EmergencyFits
          /\ ExceptionsUndone /\ BreakpointRemoved /\ PauseReleased /\ StepsLeft
    BY DEF RecordInv
  <1>1. RecordTypeOK'
    BY <1>t DEF RecordTypeOK, RecordPcs, Request, Guardable, EndsRun, outside, Record
  <1>2. OneAwaited'
    BY <1>t DEF OneAwaited, Request, EndsRun, outside, Record
  <1>3. SessionFits'
    BY <1>t DEF SessionFits, Closed, Opening, Connected, EndsRun, outside, Record
  <1>4. GuardFits'
    BY <1>t DEF GuardFits, Opening, EndsRun, outside, Record
  <1>5. EmergencyFits'
    BY <1>t DEF EmergencyFits, Opening, Connected, EndsRun, outside, Record
  <1>6. ExceptionsUndone'
    BY <1>t DEF ExceptionsUndone, OnWire, EndsRun, outside, Record
  <1>7. BreakpointRemoved'
    BY <1>t DEF BreakpointRemoved, EndsRun, outside, Record
  <1>8. PauseReleased'
    BY <1>t DEF PauseReleased, PauseKnown, OnWire, EndsRun, outside, Record
  <1>9. StepsLeft'
    BY <1>t DEF StepsLeft, EndsRun, outside, Record
  <1> QED
    BY <1>1, <1>2, <1>3, <1>4, <1>5, <1>6, <1>7, <1>8, <1>9 DEF RecordInv

LEMMA SignalKeeps ==
  ASSUME RecordInv, Signal
  PROVE  RecordInv'
  <1>t. RecordTypeOK /\ OneAwaited /\ SessionFits /\ GuardFits /\ EmergencyFits
          /\ ExceptionsUndone /\ BreakpointRemoved /\ PauseReleased /\ StepsLeft
    BY DEF RecordInv
  <1>1. RecordTypeOK'
    BY <1>t DEF RecordTypeOK, RecordPcs, Request, Guardable, Signal, outside, Record
  <1>2. OneAwaited'
    BY <1>t DEF OneAwaited, Request, Signal, outside, Record
  <1>3. SessionFits'
    BY <1>t DEF SessionFits, Closed, Opening, Connected, Signal, outside, Record
  <1>4. GuardFits'
    BY <1>t DEF GuardFits, Opening, Signal, outside, Record
  <1>5. EmergencyFits'
    BY <1>t DEF EmergencyFits, Opening, Connected, Signal, outside, Record
  <1>6. ExceptionsUndone'
    BY <1>t DEF ExceptionsUndone, OnWire, Signal, outside, Record
  <1>7. BreakpointRemoved'
    BY <1>t DEF BreakpointRemoved, Signal, outside, Record
  <1>8. PauseReleased'
    BY <1>t DEF PauseReleased, PauseKnown, OnWire, Signal, outside, Record
  <1>9. StepsLeft'
    BY <1>t DEF StepsLeft, Signal, outside, Record
  <1> QED
    BY <1>1, <1>2, <1>3, <1>4, <1>5, <1>6, <1>7, <1>8, <1>9 DEF RecordInv

LEMMA OpeningFailsKeeps ==
  ASSUME RecordInv, OpeningFails
  PROVE  RecordInv'
  <1>t. RecordTypeOK /\ OneAwaited /\ SessionFits /\ GuardFits /\ EmergencyFits
          /\ ExceptionsUndone /\ BreakpointRemoved /\ PauseReleased /\ StepsLeft
    BY DEF RecordInv
  <1>a. /\ recordAt \in {"open", "opening"} /\ recordAt' = "settled"
        /\ UNCHANGED <<answer, undo, spent, buffered, wire, target, guarded, emergency, signalled>>
        /\ link' = link \/ link' = [link EXCEPT !.tunnel = "closed"]
        /\ failings' \in {failings, failings \cup {"tunnel"}}
    BY DEF OpeningFails, Record, Tunnel, outside
  <1>b. /\ link.client = "none" /\ link'.client = "none" /\ link' \in [tunnel : {"none", "up", "closed"}, client : {"none", "open", "closed"}]
        /\ link'.tunnel = "up" => link.tunnel = "up" /\ "tunnel" \in failings'
    <2>1. link.client = "none" /\ (recordAt = "open" => link.tunnel # "up") /\ link \in [tunnel : {"none", "up", "closed"}, client : {"none", "open", "closed"}]
      BY <1>t, <1>a DEF SessionFits, Opening, RecordTypeOK
    <2>2. CASE link' = [link EXCEPT !.tunnel = "closed"]
      BY <2>1, <2>2
    <2>3. CASE recordAt = "open" /\ link' = link
      BY <2>1, <2>3
    <2>4. CASE link' = link /\ failings' = failings \cup {"tunnel"}
      BY <2>1, <2>4
    <2> QED
      BY <2>2, <2>3, <2>4 DEF OpeningFails, Record, Tunnel
  <1>w. \A op : OnWire(op)' <=> OnWire(op)
    BY <1>a DEF OnWire
  <1>1. RecordTypeOK'
    BY <1>t, <1>a, <1>b, <1>w DEF RecordTypeOK, RecordPcs, Request, Guardable
  <1>2. OneAwaited'
    BY <1>t, <1>a, <1>b, <1>w DEF OneAwaited, Request
  <1>3. SessionFits'
    BY <1>t, <1>a, <1>b, <1>w DEF SessionFits, Closed, Opening, Connected
  <1>4. GuardFits'
    BY <1>t, <1>a, <1>b, <1>w DEF GuardFits, Opening
  <1>5. EmergencyFits'
    BY <1>t, <1>a, <1>b, <1>w DEF EmergencyFits, Opening, Connected
  <1>6. ExceptionsUndone'
    BY <1>t, <1>a, <1>b, <1>w DEF ExceptionsUndone
  <1>7. BreakpointRemoved'
    BY <1>t, <1>a, <1>b, <1>w DEF BreakpointRemoved
  <1>8. PauseReleased'
    BY <1>t, <1>a, <1>b, <1>w DEF PauseReleased, PauseKnown
  <1>9. StepsLeft'
    BY <1>t, <1>a, <1>b, <1>w DEF StepsLeft
  <1> QED
    BY <1>1, <1>2, <1>3, <1>4, <1>5, <1>6, <1>7, <1>8, <1>9 DEF RecordInv

LEMMA TraceAdvancesKeeps ==
  ASSUME RecordInv, TraceAdvances
  PROVE  RecordInv'
  <1>t. RecordTypeOK /\ OneAwaited /\ SessionFits /\ GuardFits /\ EmergencyFits
          /\ ExceptionsUndone /\ BreakpointRemoved /\ PauseReleased /\ StepsLeft
    BY DEF RecordInv
  <1>a. UNCHANGED <<buffered, wire, target, link, guarded, emergency, signalled, failings>>
    BY DEF TraceAdvances, outside
  <1>b. /\ answer = "ok" /\ answer' = "none"
        /\ \/ recordAt = "setBreakpoint" /\ recordAt' = "await" /\ undo' = undo \cup {"breakpoint"} /\ spent' = spent
           \/ recordAt = "removeBreakpoint" /\ recordAt' = "enableExceptions" /\ undo' = undo \ {"breakpoint"} /\ spent' = spent
           \/ recordAt = "enableExceptions" /\ recordAt' \in {"capture", "cleanExceptions"} /\ undo' = undo /\ spent' = spent
           \/ /\ recordAt = "step" /\ recordAt' = "awaitStep" /\ undo' = undo \ {"pause"}
              /\ spent' = [steps |-> spent.steps + 1, skips |-> spent.skips]
           \/ /\ recordAt = "skip" /\ recordAt' = "awaitStep" /\ undo' = undo
              /\ spent' = [steps |-> spent.steps, skips |-> spent.skips + 1]
    <2>1. \A s : spent' = [spent EXCEPT !.steps = s] => spent' = [steps |-> s, skips |-> spent.skips]
      BY <1>t DEF RecordTypeOK
    <2>2. \A s : spent' = [spent EXCEPT !.skips = s] => spent' = [steps |-> spent.steps, skips |-> s]
      BY <1>t DEF RecordTypeOK
    <2> QED
      BY <2>1, <2>2 DEF TraceAdvances, Succeeds, Record
  <1>w. \A op : OnWire(op)' <=> OnWire(op)
    BY <1>a DEF OnWire
  <1>p. recordAt' \in RecordPcs /\ undo' \subseteq {"exceptions", "breakpoint", "pause"}
    BY <1>t, <1>a, <1>b, Points DEF RecordTypeOK
  <1>b1. answer' = "none"
    BY <1>b
  <1>s. spent' \in [steps : 0..MaxSteps, skips : 0..MaxSkips]
    BY <1>t, <1>b DEF StepsLeft, RecordTypeOK
  <1>1. RecordTypeOK'
    BY <1>t, <1>a, <1>p, <1>s, <1>b1 DEF RecordTypeOK
  <1>2. OneAwaited'
    BY <1>t, <1>a, <1>b, <1>w, <1>p, <1>s DEF OneAwaited, Request
  <1>3. SessionFits'
    BY <1>t, <1>a, <1>b, <1>w, <1>p, <1>s DEF SessionFits, Closed, Opening, Connected
  <1>4. GuardFits'
    BY <1>t, <1>a, <1>b, <1>w, <1>p, <1>s DEF GuardFits, Opening
  <1>5. EmergencyFits'
    BY <1>t, <1>a, <1>b, <1>w, <1>p, <1>s DEF EmergencyFits, Opening, Connected
  <1>6. ExceptionsUndone'
    BY <1>t, <1>a, <1>b, <1>w, <1>p, <1>s DEF ExceptionsUndone
  <1>7. BreakpointRemoved'
    BY <1>t, <1>a, <1>b, <1>w, <1>p, <1>s DEF BreakpointRemoved
  <1>8. PauseReleased'
    BY <1>t, <1>a, <1>b, <1>w, <1>p, <1>s DEF PauseReleased, PauseKnown
  <1>9. StepsLeft'
    BY <1>t, <1>a, <1>b, <1>w, <1>p, <1>s DEF StepsLeft
  <1> QED
    BY <1>1, <1>2, <1>3, <1>4, <1>5, <1>6, <1>7, <1>8, <1>9 DEF RecordInv

LEMMA OwnsPauseKeeps ==
  ASSUME RecordInv, OwnsPause
  PROVE  RecordInv'
  <1>t. RecordTypeOK /\ OneAwaited /\ SessionFits /\ GuardFits /\ EmergencyFits
          /\ ExceptionsUndone /\ BreakpointRemoved /\ PauseReleased /\ StepsLeft
    BY DEF RecordInv
  <1>a. /\ recordAt \in {"await", "awaitStep"} /\ recordAt' \in {"removeBreakpoint", "capture", "step", "cleanExceptions"}
        /\ recordAt' = "step" => spent.steps < MaxSteps
        /\ buffered' = FALSE /\ undo' = undo \cup {"pause"}
        /\ UNCHANGED <<answer, spent, wire, target, link, guarded, emergency, signalled, failings>>
    BY DEF OwnsPause, Record, outside
  <1>w. \A op : OnWire(op)' <=> OnWire(op)
    BY <1>a DEF OnWire
  <1>n. answer = "none" /\ answer' = "none"
    BY <1>t, <1>a, Points DEF OneAwaited
  <1>p. recordAt' \in RecordPcs /\ undo' \subseteq {"exceptions", "breakpoint", "pause"}
    BY <1>t, <1>a, Points DEF RecordTypeOK
  <1>1. RecordTypeOK'
    BY <1>t, <1>a, <1>w, <1>n, <1>p DEF RecordTypeOK, Guardable
  <1>2. OneAwaited'
    BY <1>t, <1>a, <1>w, <1>n, <1>p DEF OneAwaited, Request
  <1>3. SessionFits'
    BY <1>t, <1>a, <1>w, <1>n, <1>p DEF SessionFits, Closed, Opening, Connected
  <1>4. GuardFits'
    BY <1>t, <1>a, <1>w, <1>n, <1>p DEF GuardFits, Opening
  <1>5. EmergencyFits'
    BY <1>t, <1>a, <1>w, <1>n, <1>p DEF EmergencyFits, Opening, Connected
  <1>6. ExceptionsUndone'
    BY <1>t, <1>a, <1>w, <1>n, <1>p DEF ExceptionsUndone
  <1>7. BreakpointRemoved'
    BY <1>t, <1>a, <1>w, <1>n, <1>p DEF BreakpointRemoved
  <1>8. PauseReleased'
    BY <1>t, <1>a, <1>w, <1>n, <1>p DEF PauseReleased, PauseKnown
  <1>9. StepsLeft'
    BY <1>t, <1>a, <1>w, <1>n, <1>p DEF StepsLeft
  <1> QED
    BY <1>1, <1>2, <1>3, <1>4, <1>5, <1>6, <1>7, <1>8, <1>9 DEF RecordInv

LEMMA SkipsPauseKeeps ==
  ASSUME RecordInv, SkipsPause
  PROVE  RecordInv'
  <1>t. RecordTypeOK /\ OneAwaited /\ SessionFits /\ GuardFits /\ EmergencyFits
          /\ ExceptionsUndone /\ BreakpointRemoved /\ PauseReleased /\ StepsLeft
    BY DEF RecordInv
  <1>a. /\ recordAt = "awaitStep" /\ recordAt' \in {"skip", "cleanExceptions"} /\ buffered' = FALSE
        /\ recordAt' = "skip" => spent.skips < MaxSkips /\ failings' = failings
        /\ recordAt' = "cleanExceptions" => failings' = failings \cup {"unjudged"}
        /\ UNCHANGED <<answer, undo, spent, wire, target, link, guarded, emergency, signalled>>
    BY DEF SkipsPause, Record, outside
  <1>w. \A op : OnWire(op)' <=> OnWire(op)
    BY <1>a DEF OnWire
  <1>n. answer = "none" /\ answer' = "none"
    BY <1>t, <1>a, Points DEF OneAwaited
  <1>p. recordAt' \in RecordPcs /\ undo' \subseteq {"exceptions", "breakpoint", "pause"}
    BY <1>t, <1>a, Points DEF RecordTypeOK
  <1>1. RecordTypeOK'
    <2>1. failings' \subseteq {"unknown", "unjudged", "cleanUp", "opening", "session", "tunnel"}
      BY <1>t, <1>a DEF RecordTypeOK
    <2> QED
      BY <1>t, <1>a, <1>n, <1>p, <2>1 DEF RecordTypeOK
  <1>2. OneAwaited'
    BY <1>t, <1>a, <1>w, <1>n, <1>p DEF OneAwaited, Request
  <1>3. SessionFits'
    BY <1>t, <1>a, <1>w, <1>n, <1>p DEF SessionFits, Closed, Opening, Connected
  <1>4. GuardFits'
    BY <1>t, <1>a, <1>w, <1>n, <1>p DEF GuardFits, Opening
  <1>5. EmergencyFits'
    BY <1>t, <1>a, <1>w, <1>n, <1>p DEF EmergencyFits, Opening, Connected
  <1>6. ExceptionsUndone'
    BY <1>t, <1>a, <1>w, <1>n, <1>p DEF ExceptionsUndone
  <1>7. BreakpointRemoved'
    BY <1>t, <1>a, <1>w, <1>n, <1>p DEF BreakpointRemoved
  <1>8. PauseReleased'
    BY <1>t, <1>a, <1>w, <1>n, <1>p DEF PauseReleased, PauseKnown
  <1>9. StepsLeft'
    BY <1>t, <1>a, <1>w, <1>n, <1>p DEF StepsLeft
  <1> QED
    BY <1>1, <1>2, <1>3, <1>4, <1>5, <1>6, <1>7, <1>8, <1>9 DEF RecordInv

LEMMA CapturesKeeps ==
  ASSUME RecordInv, Captures
  PROVE  RecordInv'
  <1>t. RecordTypeOK /\ OneAwaited /\ SessionFits /\ GuardFits /\ EmergencyFits
          /\ ExceptionsUndone /\ BreakpointRemoved /\ PauseReleased /\ StepsLeft
    BY DEF RecordInv
  <1>a. /\ recordAt = "capture" /\ recordAt' \in {"step", "cleanExceptions"}
        /\ recordAt' = "step" => spent.steps < MaxSteps
        /\ UNCHANGED <<answer, undo, spent, buffered, wire, target, link, guarded, emergency, signalled, failings>>
    BY DEF Captures, Record, outside
  <1>w. \A op : OnWire(op)' <=> OnWire(op)
    BY <1>a DEF OnWire
  <1>n. answer = "none" /\ answer' = "none"
    BY <1>t, <1>a, Points DEF OneAwaited
  <1>1. RecordTypeOK'
    BY <1>t, <1>a, <1>w, <1>n DEF RecordTypeOK, RecordPcs, Request, Guardable
  <1>2. OneAwaited'
    BY <1>t, <1>a, <1>w, <1>n DEF OneAwaited, Request
  <1>3. SessionFits'
    BY <1>t, <1>a, <1>w, <1>n DEF SessionFits, Closed, Opening, Connected
  <1>4. GuardFits'
    BY <1>t, <1>a, <1>w, <1>n DEF GuardFits, Opening
  <1>5. EmergencyFits'
    BY <1>t, <1>a, <1>w, <1>n DEF EmergencyFits, Opening, Connected
  <1>6. ExceptionsUndone'
    BY <1>t, <1>a, <1>w, <1>n DEF ExceptionsUndone
  <1>7. BreakpointRemoved'
    BY <1>t, <1>a, <1>w, <1>n DEF BreakpointRemoved
  <1>8. PauseReleased'
    BY <1>t, <1>a, <1>w, <1>n DEF PauseReleased, PauseKnown
  <1>9. StepsLeft'
    BY <1>t, <1>a, <1>w, <1>n DEF StepsLeft
  <1> QED
    BY <1>1, <1>2, <1>3, <1>4, <1>5, <1>6, <1>7, <1>8, <1>9 DEF RecordInv

LEMMA TraceFailsKeeps ==
  ASSUME RecordInv, TraceFails
  PROVE  RecordInv'
  <1>t. RecordTypeOK /\ OneAwaited /\ SessionFits /\ GuardFits /\ EmergencyFits
          /\ ExceptionsUndone /\ BreakpointRemoved /\ PauseReleased /\ StepsLeft
    BY DEF RecordInv
  <1>a. /\ \/ recordAt \in {"setBreakpoint", "removeBreakpoint", "enableExceptions", "step", "skip"} /\ answer = "error"
           \/ recordAt \in {"setBreakpoint", "removeBreakpoint", "enableExceptions", "step"} /\ answer = "none"
           \/ recordAt \in {"await", "awaitStep"}
        /\ undo' = undo \/ undo' = undo \cup {"exceptions"}
        /\ recordAt' = "cleanExceptions" /\ answer' = "none"
        /\ UNCHANGED <<spent, buffered, wire, target, link, guarded, emergency, signalled, failings>>
    BY DEF TraceFails, Notes, TraceOps, Abortable, outside
  <1>w. \A op : OnWire(op)' <=> OnWire(op)
    BY <1>a DEF OnWire
  <1>p. recordAt' \in RecordPcs /\ undo' \subseteq {"exceptions", "breakpoint", "pause"}
    BY <1>t, <1>a, Points DEF RecordTypeOK
  <1>1. RecordTypeOK'
    BY <1>t, <1>a, <1>w, <1>p DEF RecordTypeOK, Guardable
  <1>2. OneAwaited'
    BY <1>t, <1>a, <1>w, <1>p DEF OneAwaited, Request
  <1>3. SessionFits'
    BY <1>t, <1>a, <1>w, <1>p DEF SessionFits, Closed, Opening, Connected
  <1>4. GuardFits'
    BY <1>t, <1>a, <1>w, <1>p DEF GuardFits, Opening
  <1>5. EmergencyFits'
    BY <1>t, <1>a, <1>w, <1>p DEF EmergencyFits, Opening, Connected
  <1>6. ExceptionsUndone'
    BY <1>t, <1>a, <1>w, <1>p DEF ExceptionsUndone
  <1>7. BreakpointRemoved'
    BY <1>t, <1>a, <1>w, <1>p DEF BreakpointRemoved
  <1>8. PauseReleased'
    BY <1>t, <1>a, <1>w, <1>p DEF PauseReleased, PauseKnown
  <1>9. StepsLeft'
    BY <1>t, <1>a, <1>w, <1>p DEF StepsLeft
  <1> QED
    BY <1>1, <1>2, <1>3, <1>4, <1>5, <1>6, <1>7, <1>8, <1>9 DEF RecordInv

LEMMA CleansUpKeeps ==
  ASSUME RecordInv, CleansUp
  PROVE  RecordInv'
  <1>t. RecordTypeOK /\ OneAwaited /\ SessionFits /\ GuardFits /\ EmergencyFits
          /\ ExceptionsUndone /\ BreakpointRemoved /\ PauseReleased /\ StepsLeft
    BY DEF RecordInv
  <1>a. /\ \/ recordAt = "cleanExceptions" /\ recordAt' = "cleanBreakpoint" /\ guarded' = guarded
              /\ (answer \in {"ok", "error"} \/ "exceptions" \notin undo)
           \/ recordAt = "cleanBreakpoint" /\ recordAt' = "cleanPause" /\ guarded' = guarded
              /\ (answer \in {"ok", "error"} \/ "breakpoint" \notin undo)
           \/ recordAt = "cleanPause" /\ recordAt' = "recorded" /\ guarded' = guarded \ {"controller"}
              /\ (answer \in {"ok", "error"} \/ "pause" \notin undo)
        /\ answer' = "none" /\ failings' = IF answer = "error" THEN failings \cup {"cleanUp"} ELSE failings
        /\ UNCHANGED <<undo, spent, buffered, wire, target, link, emergency, signalled>>
    BY DEF CleansUp, CleanUps, ToUndo, AfterCleaning
  <1>w. \A op : OnWire(op)' <=> OnWire(op)
    BY <1>a DEF OnWire
  <1>p. recordAt' \in RecordPcs /\ undo' \subseteq {"exceptions", "breakpoint", "pause"}
    BY <1>t, <1>a, Points DEF RecordTypeOK
  <1>r. UNCHANGED <<undo, spent, buffered, wire, target, link, emergency, signalled>>
    BY <1>a
  <1>s. guarded' \subseteq guarded /\ failings' \subseteq failings \cup {"cleanUp"} /\ answer' = "none"
    BY <1>a
  <1>1. RecordTypeOK'
    BY <1>t, <1>r, <1>p, <1>s DEF RecordTypeOK
  <1>2. OneAwaited'
    BY <1>t, <1>a, <1>w, <1>p, <1>s DEF OneAwaited, StepsLeft, Request
  <1>3. SessionFits'
    BY <1>t, <1>a, <1>w, <1>p, <1>s DEF SessionFits, Closed, Opening, Connected
  <1>4. GuardFits'
    BY <1>t, <1>a, <1>w, <1>p, <1>s DEF GuardFits, Opening
  <1>5. EmergencyFits'
    BY <1>t, <1>a, <1>w, <1>p, <1>s DEF EmergencyFits, Opening, Connected
  <1>6. ExceptionsUndone'
    BY <1>t, <1>a, <1>w, <1>p, <1>s DEF ExceptionsUndone
  <1>7. BreakpointRemoved'
    BY <1>t, <1>a, <1>w, <1>p, <1>s DEF BreakpointRemoved, StepsLeft
  <1>8. PauseReleased'
    BY <1>t, <1>a, <1>w, <1>p, <1>s DEF PauseReleased, PauseKnown
  <1>9. StepsLeft'
    BY <1>t, <1>a, <1>w, <1>p, <1>s DEF StepsLeft
  <1> QED
    BY <1>1, <1>2, <1>3, <1>4, <1>5, <1>6, <1>7, <1>8, <1>9 DEF RecordInv

LEMMA ExitsSettledKeeps ==
  ASSUME RecordInv, ExitsSettled
  PROVE  RecordInv'
  <1>t. RecordTypeOK /\ OneAwaited /\ SessionFits /\ GuardFits /\ EmergencyFits
          /\ ExceptionsUndone /\ BreakpointRemoved /\ PauseReleased /\ StepsLeft
    BY DEF RecordInv
  <1>a. /\ emergency.at = "off" /\ recordAt = "settled" /\ recordAt' = "exited"
        /\ UNCHANGED <<answer, undo, spent, buffered, wire, target, link, guarded, emergency, signalled, failings>>
    BY DEF ExitsSettled, Record, outside
  <1>w. \A op : OnWire(op)' <=> OnWire(op)
    BY <1>a DEF OnWire
  <1>1. RecordTypeOK'
    BY <1>t, <1>a, <1>w DEF RecordTypeOK, RecordPcs, Request, Guardable
  <1>2. OneAwaited'
    BY <1>t, <1>a, <1>w DEF OneAwaited, Request
  <1>3. SessionFits'
    BY <1>t, <1>a, <1>w DEF SessionFits, Closed, Opening, Connected
  <1>4. GuardFits'
    BY <1>t, <1>a, <1>w DEF GuardFits, Opening
  <1>5. EmergencyFits'
    BY <1>t, <1>a, <1>w DEF EmergencyFits, SessionFits, GuardFits, Closed, Connected, Opening
  <1>6. ExceptionsUndone'
    BY <1>t, <1>a, <1>w DEF ExceptionsUndone
  <1>7. BreakpointRemoved'
    BY <1>t, <1>a, <1>w DEF BreakpointRemoved
  <1>8. PauseReleased'
    BY <1>t, <1>a, <1>w DEF PauseReleased, PauseKnown
  <1>9. StepsLeft'
    BY <1>t, <1>a, <1>w DEF StepsLeft
  <1> QED
    BY <1>1, <1>2, <1>3, <1>4, <1>5, <1>6, <1>7, <1>8, <1>9 DEF RecordInv

LEMMA ExitsForcedKeeps ==
  ASSUME RecordInv, ExitsForced
  PROVE  RecordInv'
  <1>t. RecordTypeOK /\ OneAwaited /\ SessionFits /\ GuardFits /\ EmergencyFits
          /\ ExceptionsUndone /\ BreakpointRemoved /\ PauseReleased /\ StepsLeft
    BY DEF RecordInv
  <1>a. /\ emergency.at = "exit" /\ recordAt' = "exited"
        /\ UNCHANGED <<answer, undo, spent, buffered, wire, target, link, guarded, emergency, signalled, failings>>
    BY DEF ExitsForced, Record, outside
  <1>w. \A op : OnWire(op)' <=> OnWire(op)
    BY <1>a DEF OnWire
  <1>1. RecordTypeOK'
    BY <1>t, <1>a, <1>w DEF RecordTypeOK, RecordPcs, Request, Guardable
  <1>2. OneAwaited'
    BY <1>t, <1>a, <1>w DEF OneAwaited, Request
  <1>3. SessionFits'
    BY <1>t, <1>a, <1>w DEF SessionFits, Closed, Opening, Connected
  <1>4. GuardFits'
    BY <1>t, <1>a, <1>w DEF GuardFits, Opening
  <1>5. EmergencyFits'
    BY <1>t, <1>a, <1>w DEF EmergencyFits, Opening, Connected
  <1>6. ExceptionsUndone'
    BY <1>t, <1>a, <1>w DEF ExceptionsUndone
  <1>7. BreakpointRemoved'
    BY <1>t, <1>a, <1>w DEF BreakpointRemoved
  <1>8. PauseReleased'
    BY <1>t, <1>a, <1>w DEF PauseReleased, PauseKnown
  <1>9. StepsLeft'
    BY <1>t, <1>a, <1>w DEF StepsLeft
  <1> QED
    BY <1>1, <1>2, <1>3, <1>4, <1>5, <1>6, <1>7, <1>8, <1>9 DEF RecordInv

LEMMA ForcesExitKeeps ==
  ASSUME RecordInv, ForcesExit
  PROVE  RecordInv'
  <1>t. RecordTypeOK /\ OneAwaited /\ SessionFits /\ GuardFits /\ EmergencyFits
          /\ ExceptionsUndone /\ BreakpointRemoved /\ PauseReleased /\ StepsLeft
    BY DEF RecordInv
  <1>a. /\ recordAt \notin {"settled", "exited"} /\ emergency.at = "off"
        /\ emergency' = [at |-> "controller", of |-> guarded]
        /\ failings' = IF recordAt \in {"open", "opening"} THEN failings \cup {"opening"} ELSE failings
        /\ UNCHANGED <<recordAt, answer, undo, spent, buffered, wire, target, link, guarded, signalled>>
    BY DEF ForcesExit
  <1>b. emergency'.at = "controller" /\ emergency'.of = guarded
    BY <1>a
  <1>w. \A op : OnWire(op)' <=> OnWire(op)
    BY <1>a DEF OnWire
  <1>1. RecordTypeOK'
    BY <1>t, <1>a, <1>b, <1>w DEF RecordTypeOK, RecordPcs, Request, Guardable
  <1>2. OneAwaited'
    BY <1>t, <1>a, <1>b, <1>w DEF OneAwaited, Request
  <1>3. SessionFits'
    BY <1>t, <1>a, <1>b, <1>w DEF SessionFits, Closed, Opening, Connected
  <1>4. GuardFits'
    BY <1>t, <1>a, <1>b, <1>w DEF GuardFits, Opening
  <1>5. EmergencyFits'
    BY <1>t, <1>a, <1>b, <1>w DEF EmergencyFits, GuardFits, Connected, Opening
  <1>6. ExceptionsUndone'
    BY <1>t, <1>a, <1>b, <1>w DEF ExceptionsUndone
  <1>7. BreakpointRemoved'
    BY <1>t, <1>a, <1>b, <1>w DEF BreakpointRemoved
  <1>8. PauseReleased'
    BY <1>t, <1>a, <1>b, <1>w DEF PauseReleased, PauseKnown
  <1>9. StepsLeft'
    BY <1>t, <1>a, <1>b, <1>w DEF StepsLeft
  <1> QED
    BY <1>1, <1>2, <1>3, <1>4, <1>5, <1>6, <1>7, <1>8, <1>9 DEF RecordInv

Message == [op : {Request[at] : at \in DOMAIN Request} \cup {"exceptionsOff", "close"},
            by : {"main", "guard", "nobody"}]

\* What happens to the wire: requests are added, given up or run.
Grown(w, v, new) ==
    /\ v \in Seq(Message) /\ Len(v) >= Len(w)
    /\ \A k \in 1..Len(v) : IF k <= Len(w) THEN v[k] = w[k] ELSE v[k] \in new
GivenUp(w, v, who) ==
    /\ v \in Seq(Message) /\ Len(v) = Len(w)
    /\ \A k \in 1..Len(w) : v[k].op = w[k].op /\ v[k].by = IF w[k].by = who THEN "nobody" ELSE w[k].by

LEMMA Messages ==
  Message = [op : {"setBreakpoint", "removeBreakpoint", "exceptionsOn", "exceptionsOff", "step",
                   "resume", "disable", "close"}, by : {"main", "guard", "nobody"}]
  <1>1. {Request[at] : at \in DOMAIN Request} \cup {"exceptionsOff", "close"} =
          {"setBreakpoint", "removeBreakpoint", "exceptionsOn", "exceptionsOff", "step",
           "resume", "disable", "close"}
    BY Points DEF Request
  <1> QED
    BY <1>1 DEF Message

LEMMA AppendGrows ==
  ASSUME NEW w \in Seq(Message), NEW m \in Message
  PROVE  Grown(w, Append(w, m), {m}) /\ Len(Append(w, m)) = Len(w) + 1
  <1>1. /\ Append(w, m) \in Seq(Message) /\ Len(Append(w, m)) = Len(w) + 1 /\ Len(w) \in Nat
        /\ \A k \in 1..Len(w) : Append(w, m)[k] = w[k]
        /\ Append(w, m)[Len(w) + 1] = m
    BY AppendProperties, LenProperties
  <1> QED
    BY <1>1 DEF Grown

ByGuard == [op : {"exceptionsOff", "removeBreakpoint", "resume", "disable"}, by : {"guard"}]

LEMMA PostsGrow ==
  ASSUME NEW w \in Seq(Message), NEW ops \in Seq({"exceptionsOff", "removeBreakpoint", "resume", "disable"})
  PROVE  Grown(w, w \o Posted(ops), ByGuard)
  <1> DEFINE p == Posted(ops)
  <1>1. Len(ops) \in Nat /\ DOMAIN ops = 1..Len(ops)
        /\ \A k \in 1..Len(ops) : ops[k] \in {"exceptionsOff", "removeBreakpoint", "resume", "disable"}
    BY LenProperties, ElementOfSeq
  <1>2. p = [i \in 1..Len(ops) |-> [op |-> ops[i], by |-> "guard"]]
    BY <1>1 DEF Posted
  <1>3. \A i \in 1..Len(ops) : [op |-> ops[i], by |-> "guard"] \in ByGuard /\ [op |-> ops[i], by |-> "guard"] \in Message
    BY <1>1, Messages DEF ByGuard
  <1>4. p \in Seq(Message) /\ Len(p) = Len(ops) /\ \A i \in 1..Len(ops) : p[i] \in ByGuard
    <2>1. \A i \in 1..Len(ops) : p[i] \in ByGuard /\ p[i] \in Message
      BY <1>2, <1>3
    <2>2. p = [i \in 1..Len(ops) |-> p[i]]
      BY <1>2
    <2> HIDE DEF p
    <2>3. [i \in 1..Len(ops) |-> p[i]] \in Seq(Message) /\ Len([i \in 1..Len(ops) |-> p[i]]) = Len(ops)
      BY <1>1, <2>1
    <2> QED
      BY <2>1, <2>2, <2>3
  <1> HIDE DEF p
  <1>5. /\ w \o p \in Seq(Message) /\ Len(w \o p) = Len(w) + Len(p) /\ Len(w) \in Nat
        /\ \A k \in 1..(Len(w) + Len(p)) : (w \o p)[k] = IF k <= Len(w) THEN w[k] ELSE p[k - Len(w)]
    BY <1>4, ConcatProperties, LenProperties
  <1>6. ASSUME NEW k \in 1..Len(w \o p)
        PROVE  IF k <= Len(w) THEN (w \o p)[k] = w[k] ELSE (w \o p)[k] \in ByGuard
    <2>1. CASE k <= Len(w)
      BY <1>1, <1>4, <1>5, <2>1
    <2>2. CASE ~(k <= Len(w))
      <3>1. k - Len(w) \in 1..Len(ops) /\ (w \o p)[k] = p[k - Len(w)]
        BY <1>1, <1>4, <1>5, <2>2
      <3> QED
        BY <1>4, <2>2, <3>1
    <2> QED
      BY <2>1, <2>2
  <1>7. Len(w \o p) >= Len(w)
    BY <1>1, <1>4, <1>5
  <1> QED
    BY <1>5, <1>6, <1>7 DEF Grown, p

LEMMA Relabels ==
  ASSUME wire \in Seq(Message), NEW who \in {"main", "guard"}
  PROVE  GivenUp(wire, GivenUpBy(who), who)
  <1>1. Len(wire) \in Nat /\ DOMAIN wire = 1..Len(wire) /\ \A k \in 1..Len(wire) : wire[k] \in Message
    BY LenProperties, ElementOfSeq
  <1> DEFINE v == GivenUpBy(who)
             e(k) == IF wire[k].by = who THEN [wire[k] EXCEPT !.by = "nobody"] ELSE wire[k]
  <1>2. v = [k \in 1..Len(wire) |-> e(k)]
    BY <1>1 DEF GivenUpBy
  <1>3. ASSUME NEW k \in 1..Len(wire)
        PROVE  e(k) \in Message /\ e(k).op = wire[k].op
                 /\ e(k).by = IF wire[k].by = who THEN "nobody" ELSE wire[k].by
    <2>1. wire[k] \in Message
      BY <1>1
    <2> QED
      BY <2>1, Messages
  <1> HIDE DEF e, v
  <1>4. \A k \in 1..Len(wire) : v[k] = e(k)
    BY <1>2
  <1>5. v = [k \in 1..Len(wire) |-> v[k]]
    BY <1>2
  <1>6. [k \in 1..Len(wire) |-> v[k]] \in Seq(Message) /\ Len([k \in 1..Len(wire) |-> v[k]]) = Len(wire)
    BY <1>1, <1>3, <1>4
  <1> QED
    BY <1>3, <1>4, <1>5, <1>6 DEF GivenUp, v

LEMMA SendsKeeps ==
  ASSUME RecordInv, Sends
  PROVE  RecordInv'
  <1>t. RecordTypeOK /\ OneAwaited /\ SessionFits /\ GuardFits /\ EmergencyFits
          /\ ExceptionsUndone /\ BreakpointRemoved /\ PauseReleased /\ StepsLeft
    BY DEF RecordInv
  <1> DEFINE m == [op |-> Request[recordAt], by |-> "main"]
  <1>a. /\ recordAt \in DOMAIN Request /\ answer = "none"
        /\ recordAt = "cleanExceptions" => "exceptions" \in undo
        /\ recordAt = "cleanBreakpoint" => "breakpoint" \in undo
        /\ recordAt = "cleanPause" => "pause" \in undo
        /\ undo' = IF recordAt = "enableExceptions" THEN undo \cup {"exceptions"} ELSE undo
        /\ UNCHANGED <<recordAt, spent, buffered, target, link, guarded, emergency, signalled, failings>>
    BY DEF Sends, outside, CleanUps, ToUndo, Notes
  <1>b. /\ m \in Message /\ m.by = "main" /\ m.op = Request[recordAt]
        /\ m.op = "exceptionsOn" <=> recordAt = "enableExceptions"
        /\ m.op = "setBreakpoint" <=> recordAt = "setBreakpoint"
        /\ recordAt = "skip" => m.op = "resume"
        /\ recordAt # "exited"
    BY <1>a, Points DEF Message, Request
  <1>c. wire \in Seq(Message) /\ Len(wire) \in Nat
    BY <1>t, LenProperties DEF RecordTypeOK, Message
  <1>d. \/ Connected /\ answer' = "pending" /\ wire' = Append(wire, m)
        \/ ~Connected /\ answer' = "error" /\ wire' = wire
    BY DEF Sends
  <1> HIDE DEF m
  <1>e. /\ wire' \in Seq(Message) /\ Len(wire') \in {Len(wire), Len(wire) + 1}
        /\ Connected => answer' = "pending" /\ Len(wire') = Len(wire) + 1
        /\ ~Connected => answer' = "error" /\ wire' = wire
        /\ \A k \in 1..Len(wire') : IF k <= Len(wire) THEN wire'[k] = wire[k] ELSE wire'[k] = m
    <2>1. CASE Connected /\ answer' = "pending" /\ wire' = Append(wire, m)
      <3>1. Grown(wire, Append(wire, m), {m}) /\ Len(Append(wire, m)) = Len(wire) + 1
        BY <1>b, <1>c, AppendGrows
      <3> QED
        BY <2>1, <3>1 DEF Grown
    <2>2. CASE ~Connected /\ answer' = "error" /\ wire' = wire
      BY <1>c, <2>2
    <2> QED
      BY <1>d, <2>1, <2>2
  <1>f. \A k \in 1..Len(wire) : wire[k].by # "main"
    BY <1>t, <1>a DEF OneAwaited
  <1>1. RecordTypeOK'
    BY <1>t, <1>a, <1>e DEF RecordTypeOK, Message
  <1>2. OneAwaited'
    BY <1>a, <1>b, <1>c, <1>e, <1>f DEF OneAwaited
  <1>3. SessionFits'
    BY <1>t, <1>a, <1>e DEF SessionFits, Connected
  <1>4. GuardFits'
    BY <1>t, <1>a DEF GuardFits, Opening
  <1>5. EmergencyFits'
    BY <1>t, <1>a DEF EmergencyFits, Opening, Connected
  <1>6. ExceptionsUndone'
    <2>1. OnWire("exceptionsOn")' => OnWire("exceptionsOn") \/ recordAt = "enableExceptions"
      BY <1>b, <1>e DEF OnWire
    <2>2. (target.exceptions \/ OnWire("exceptionsOn"))' => "exceptions" \in undo'
      BY <1>t, <1>a, <2>1 DEF ExceptionsUndone
    <2>3. ASSUME recordAt = "cleanExceptions", answer' = "pending",
                 NEW i \in 1..Len(wire'), wire'[i].op = "exceptionsOn"
          PROVE  \E j \in 1..Len(wire') : j > i /\ wire'[j].by = "main"
      <3>1. wire' # wire /\ Len(wire') = Len(wire) + 1
        BY <1>d, <1>e, <2>3
      <3>2. i <= Len(wire)
        BY <1>b, <1>e, <2>3
      <3>3. Len(wire') > i /\ Len(wire') \in 1..Len(wire') /\ wire'[Len(wire')] = m
        BY <1>c, <1>e, <3>1, <3>2
      <3> QED
        BY <1>b, <3>3
    <2> QED
      BY <1>t, <1>a, <1>e, <2>1, <2>2, <2>3 DEF ExceptionsUndone
  <1>7. BreakpointRemoved'
    BY <1>t, <1>a, <1>b, <1>e DEF BreakpointRemoved
  <1>8. PauseReleased'
    <2>1. \A op : OnWire(op) => OnWire(op)'
      BY <1>c, <1>e DEF OnWire
    <2>2. ASSUME recordAt = "skip", target.paused PROVE \E op \in Unpausing : OnWire(op)'
      <3>1. CASE Connected
        <4>1. Len(wire') \in 1..Len(wire') /\ wire'[Len(wire')] = m
          BY <1>c, <1>e, <3>1
        <4>2. OnWire("resume")'
          BY <1>b, <2>2, <4>1 DEF OnWire
        <4> QED
          BY <4>2 DEF Unpausing
      <3>2. CASE ~Connected
        <4>1. wire # <<>> /\ wire[Len(wire)].op = "close"
          BY <1>t, <2>2, <3>2 DEF SessionFits, Idle
        <4>2. Len(wire) \in 1..Len(wire)
          BY <1>c, <4>1, EmptySeq
        <4>3. OnWire("close")
          BY <4>1, <4>2 DEF OnWire
        <4> QED
          BY <2>1, <4>3 DEF Unpausing
      <3> QED
        BY <3>1, <3>2
    <2>3. PauseKnown => PauseKnown'
      BY <1>a, <1>e DEF PauseKnown
    <2> QED
      BY <1>t, <1>a, <2>1, <2>2, <2>3 DEF PauseReleased
  <1>9. StepsLeft'
    BY <1>t, <1>a DEF StepsLeft
  <1> QED
    BY <1>1, <1>2, <1>3, <1>4, <1>5, <1>6, <1>7, <1>8, <1>9 DEF RecordInv

\* The requests that somebody does not wait for any more are run all the same.
LEMMA StillRun ==
  ASSUME RecordInv, NEW who \in {"main", "guard"}, wire' = GivenUpBy(who),
         UNCHANGED <<recordAt, undo, spent, buffered, target, link, guarded>>,
         \/ who = "main" /\ answer = "pending" /\ answer' = "error" /\ emergency' = emergency
            /\ failings' = IF recordAt = "setBreakpoint" THEN failings \cup {"unknown"} ELSE failings
         \/ who = "guard" /\ answer' = answer /\ failings' \in {failings, failings \cup {"session"}}
  PROVE  /\ wire' \in Seq(Message) /\ OneAwaited' /\ SessionFits' /\ GuardFits'
         /\ ExceptionsUndone' /\ BreakpointRemoved' /\ PauseReleased' /\ StepsLeft'
  <1>t. RecordTypeOK /\ OneAwaited /\ SessionFits /\ GuardFits /\ EmergencyFits
          /\ ExceptionsUndone /\ BreakpointRemoved /\ PauseReleased /\ StepsLeft
    BY DEF RecordInv
  <1>a. wire \in Seq(Message) /\ Len(wire) \in Nat
    BY <1>t, LenProperties DEF RecordTypeOK, Message
  <1>b. /\ wire' \in Seq(Message) /\ Len(wire') = Len(wire)
        /\ \A k \in 1..Len(wire) : /\ wire'[k].op = wire[k].op
                                  /\ wire'[k].by = IF wire[k].by = who THEN "nobody" ELSE wire[k].by
    BY <1>a, Relabels DEF GivenUp
  <1>c. /\ answer' \in {answer, "error"} /\ (answer' # answer => who = "main" /\ answer = "pending")
        /\ (who = "main" => answer' # "pending") /\ (answer' = "ok" => answer = "ok")
        /\ \A f \in failings : f \in failings'
        /\ who = "main" /\ recordAt = "setBreakpoint" => "unknown" \in failings'
        /\ "cleanUp" \notin failings' => "cleanUp" \notin failings
    OBVIOUS
  <1>d. \A op : OnWire(op)' <=> OnWire(op)
    BY <1>b DEF OnWire
  <1>2. OneAwaited'
    BY <1>t, <1>b, <1>c DEF OneAwaited
  <1>3. SessionFits'
    <2>1. wire' = <<>> <=> wire = <<>>
      BY <1>a, <1>b, EmptySeq
    <2>2. wire # <<>> => Len(wire) \in 1..Len(wire)
      BY <1>a, EmptySeq
    <2> QED
      BY <1>t, <1>b, <2>1, <2>2 DEF SessionFits, Connected
  <1>4. GuardFits'
    BY <1>t, <1>c DEF GuardFits, Opening
  <1>6. ExceptionsUndone'
    <2>1. ASSUME recordAt = "cleanExceptions", answer' = "pending",
                 NEW i \in 1..Len(wire'), wire'[i].op = "exceptionsOn"
          PROVE  \E j \in 1..Len(wire') : j > i /\ wire'[j].by = "main"
      <3>1. who = "guard" /\ answer = "pending" /\ wire[i].op = "exceptionsOn" /\ i \in 1..Len(wire)
        BY <1>b, <1>c, <2>1
      <3>2. PICK j \in 1..Len(wire) : j > i /\ wire[j].by = "main"
        BY <1>t, <2>1, <3>1 DEF ExceptionsUndone
      <3> QED
        BY <1>b, <3>1, <3>2
    <2> QED
      BY <1>t, <1>c, <1>d, <2>1 DEF ExceptionsUndone
  <1>7. BreakpointRemoved'
    <2>1. ASSUME recordAt # "exited", "unknown" \notin failings', NEW i \in 1..Len(wire'),
                 wire'[i].op = "setBreakpoint"
          PROVE  wire'[i].by = "main"
      <3>1. i \in 1..Len(wire) /\ wire[i].op = "setBreakpoint" /\ wire[i].by = "main"
        BY <1>t, <1>b, <1>c, <2>1 DEF BreakpointRemoved
      <3>2. "setBreakpoint" = Request[recordAt] /\ answer = "pending" /\ recordAt \in DOMAIN Request
        BY <1>t, <2>1, <3>1 DEF OneAwaited
      <3>3. recordAt = "setBreakpoint"
        BY <3>2, Points DEF Request
      <3> QED
        BY <1>b, <1>c, <2>1, <3>1, <3>3
    <2> QED
      BY <1>t, <1>c, <2>1 DEF BreakpointRemoved
  <1>8. PauseReleased'
    <2>1. PauseKnown => PauseKnown'
      BY <1>c DEF PauseKnown
    <2>2. answer = "none" => answer' = "none"
      BY <1>c
    <2> QED
      BY <1>t, <1>c, <1>d, <2>1, <2>2 DEF PauseReleased
  <1>9. StepsLeft'
    BY <1>t, <1>c DEF StepsLeft
  <1> QED
    BY <1>b, <1>2, <1>3, <1>4, <1>6, <1>7, <1>8, <1>9

LEMMA GivesUpRequestKeeps ==
  ASSUME RecordInv, GivesUpRequest
  PROVE  RecordInv'
  <1>t. RecordTypeOK /\ OneAwaited /\ SessionFits /\ GuardFits /\ EmergencyFits
          /\ ExceptionsUndone /\ BreakpointRemoved /\ PauseReleased /\ StepsLeft
    BY DEF RecordInv
  <1>a. /\ answer = "pending" /\ answer' = "error" /\ wire' = GivenUpBy("main")
        /\ failings' = IF recordAt = "setBreakpoint" THEN failings \cup {"unknown"} ELSE failings
        /\ UNCHANGED <<recordAt, undo, spent, buffered, target, link, guarded, emergency, signalled>>
    BY DEF GivesUpRequest, outside
  <1>b. /\ wire' \in Seq(Message) /\ OneAwaited' /\ SessionFits' /\ GuardFits'
        /\ ExceptionsUndone' /\ BreakpointRemoved' /\ PauseReleased' /\ StepsLeft'
    BY <1>a, StillRun
  <1>1. RecordTypeOK'
    BY <1>t, <1>a, <1>b DEF RecordTypeOK, Message
  <1>2. EmergencyFits'
    BY <1>t, <1>a DEF EmergencyFits, Opening, Connected
  <1> QED
    BY <1>b, <1>1, <1>2 DEF RecordInv

LEMMA GuardIsCutOffKeeps ==
  ASSUME RecordInv, GuardIsCutOff
  PROVE  RecordInv'
  <1>t. RecordTypeOK /\ OneAwaited /\ SessionFits /\ GuardFits /\ EmergencyFits
          /\ ExceptionsUndone /\ BreakpointRemoved /\ PauseReleased /\ StepsLeft
    BY DEF RecordInv
  <1>a. /\ wire' = GivenUpBy("guard")
        /\ UNCHANGED <<recordAt, answer, undo, spent, buffered, target, link, guarded, signalled>>
        /\ \/ /\ emergency.at = "disarming" /\ emergency' = [emergency EXCEPT !.at = "session"]
              /\ failings' = failings
           \/ /\ emergency.at = "disabling" /\ emergency' = [emergency EXCEPT !.at = "tunnel"]
              /\ failings' = failings \cup {"session"}
    BY DEF GuardIsCutOff, Emergency
  <1>b. /\ wire' \in Seq(Message) /\ OneAwaited' /\ SessionFits' /\ GuardFits'
        /\ ExceptionsUndone' /\ BreakpointRemoved' /\ PauseReleased' /\ StepsLeft'
    BY <1>a, StillRun
  <1>c. /\ emergency' \in [at : {"off", "controller", "disarming", "session", "disabling", "tunnel",
                                "exit"}, of : SUBSET Guardable]
        /\ emergency'.of = emergency.of /\ emergency.at # "off"
        /\ emergency'.at \in {"session", "tunnel"}
        /\ emergency'.at = "tunnel" => "session" \in failings'
    <2>1. emergency \in [at : {"off", "controller", "disarming", "session", "disabling", "tunnel",
                               "exit"}, of : SUBSET Guardable]
      BY <1>t DEF RecordTypeOK
    <2>2. CASE emergency' = [emergency EXCEPT !.at = "session"] /\ emergency.at = "disarming"
      BY <2>1, <2>2
    <2>3. CASE /\ emergency' = [emergency EXCEPT !.at = "tunnel"] /\ emergency.at = "disabling"
               /\ failings' = failings \cup {"session"}
      BY <2>1, <2>3
    <2> QED
      BY <1>a, <2>2, <2>3
  <1>d. failings' \in {failings, failings \cup {"session"}}
    BY <1>a
  <1>1. RecordTypeOK'
    BY <1>t, <1>a, <1>b, <1>c, <1>d DEF RecordTypeOK, Message
  <1>2. EmergencyFits'
    <2>1. UNCHANGED <<recordAt, link>>
      BY <1>a
    <2>2. recordAt = "exited" => ~Connected /\ (link.tunnel = "up" => "tunnel" \in failings)
      BY <1>t, <1>a DEF EmergencyFits
    <2> QED
      BY <1>t, <1>c, <1>d, <2>1, <2>2 DEF EmergencyFits, Opening, Connected
  <1> QED
    BY <1>b, <1>1, <1>2 DEF RecordInv

\* Requests that nobody of the main flow waits for, and that arm nothing, change nothing.
LEMMA HarmlessRequests ==
  ASSUME RecordInv, NEW new, Grown(wire, wire', new),
         \A m \in new : m.by # "main" /\ m.op \notin {"exceptionsOn", "setBreakpoint"},
         UNCHANGED <<undo, spent, buffered, target, failings>>,
         \/ recordAt' = recordAt /\ answer' = answer
         \/ recordAt = "dispose" /\ recordAt' = "closeTunnel" /\ answer \in {"ok", "error"} /\ answer' = "none"
  PROVE  /\ wire' \in Seq(Message) /\ OneAwaited'
         /\ ExceptionsUndone' /\ BreakpointRemoved' /\ PauseReleased' /\ StepsLeft'
  <1>t. RecordTypeOK /\ OneAwaited /\ SessionFits /\ GuardFits /\ EmergencyFits
          /\ ExceptionsUndone /\ BreakpointRemoved /\ PauseReleased /\ StepsLeft
    BY DEF RecordInv
  <1>a. wire \in Seq(Message) /\ Len(wire) \in Nat
    BY <1>t, LenProperties DEF RecordTypeOK, Message
  <1>b. /\ wire' \in Seq(Message) /\ Len(wire') \in Nat /\ Len(wire') >= Len(wire)
        /\ \A k \in 1..Len(wire') :
              IF k <= Len(wire) THEN wire'[k] = wire[k]
              ELSE wire'[k].by # "main" /\ wire'[k].op \notin {"exceptionsOn", "setBreakpoint"}
    BY LenProperties DEF Grown
  <1>c. \/ recordAt' = recordAt /\ answer' = answer
        \/ /\ recordAt = "dispose" /\ recordAt' = "closeTunnel" /\ answer' = "none"
           /\ \A k \in 1..Len(wire) : wire[k].by # "main"
    BY <1>t DEF OneAwaited
  <1>d. /\ \A op : OnWire(op) => OnWire(op)'
        /\ OnWire("exceptionsOn")' => OnWire("exceptionsOn")
    BY <1>a, <1>b DEF OnWire
  <1>e. \A k \in 1..Len(wire') : wire'[k].by = "main" \/ wire'[k].op \in {"exceptionsOn", "setBreakpoint"} =>
           k \in 1..Len(wire) /\ wire'[k] = wire[k]
    BY <1>a, <1>b
  <1>f. \A k \in 1..Len(wire) : k \in 1..Len(wire') /\ wire'[k] = wire[k]
    BY <1>a, <1>b
  <1>2. OneAwaited'
    <2>1. answer' # "none" => recordAt' \in DOMAIN Request \cup {"exited"}
      BY <1>t, <1>c DEF OneAwaited
    <2>2. ASSUME NEW i \in 1..Len(wire'), wire'[i].by = "main"
          PROVE  /\ answer' = "pending"
                 /\ \A j \in 1..Len(wire') : wire'[j].by = "main" => j = i
                 /\ recordAt' # "exited" => wire'[i].op = Request[recordAt']
      BY <1>t, <1>c, <1>e, <2>2 DEF OneAwaited
    <2> QED
      BY <2>1, <2>2 DEF OneAwaited
  <1>6. ExceptionsUndone'
    <2>1. ASSUME recordAt' = "cleanExceptions", answer' = "pending",
                 NEW i \in 1..Len(wire'), wire'[i].op = "exceptionsOn"
          PROVE  \E j \in 1..Len(wire') : j > i /\ wire'[j].by = "main"
      <3>1. recordAt = "cleanExceptions" /\ answer = "pending" /\ wire[i].op = "exceptionsOn" /\ i \in 1..Len(wire)
        BY <1>c, <1>e, <2>1
      <3>2. PICK j \in 1..Len(wire) : j > i /\ wire[j].by = "main"
        BY <1>t, <3>1 DEF ExceptionsUndone
      <3> QED
        BY <1>f, <3>2
    <2> QED
      BY <1>t, <1>c, <1>d, <2>1 DEF ExceptionsUndone
  <1>7. BreakpointRemoved'
    <2>1. \A k \in 1..Len(wire') : wire'[k].op = "setBreakpoint" => k \in 1..Len(wire) /\ wire'[k] = wire[k]
      BY <1>e
    <2> QED
      BY <1>t, <1>c, <2>1 DEF BreakpointRemoved
  <1>8. PauseReleased'
    BY <1>t, <1>c, <1>d DEF PauseReleased, PauseKnown
  <1>9. StepsLeft'
    BY <1>t, <1>c DEF StepsLeft
  <1> QED
    BY <1>b, <1>2, <1>6, <1>7, <1>8, <1>9

\* The guard goes from one resource to the next.
LEMMA EmergencyMoves ==
  ASSUME RecordTypeOK, NEW from, NEW to \in {"disarming", "session", "disabling", "tunnel", "exit"},
         Emergency(from, to)
  PROVE  /\ emergency.at = from /\ emergency'.at = to /\ emergency'.of = emergency.of
         /\ emergency' \in [at : {"off", "controller", "disarming", "session", "disabling", "tunnel",
                                 "exit"}, of : SUBSET Guardable]
  BY DEF RecordTypeOK, Emergency

LEMMA DisarmingIsKnown == Disarming \in Seq({"exceptionsOff", "removeBreakpoint", "resume", "disable"})
  <1> DEFINE Ops == {"exceptionsOff", "removeBreakpoint", "resume", "disable"}
             a == ToDisarm("exceptions", "exceptionsOff")
             b == ToDisarm("breakpoint", "removeBreakpoint")
             c == ToDisarm("pause", "resume")
  <1>1. <<>> \in Seq(Ops) /\ \A op \in Ops : <<op>> \in Seq(Ops)
    BY EmptySeq
  <1>2. a \in Seq(Ops) /\ b \in Seq(Ops) /\ c \in Seq(Ops)
    BY <1>1 DEF ToDisarm
  <1>3. Disarming = a \o b \o c
    BY DEF Disarming
  <1> HIDE DEF a, b, c, Ops
  <1>4. a \o b \in Seq(Ops)
    BY <1>2, ConcatProperties
  <1>5. a \o b \o c \in Seq(Ops)
    BY <1>2, <1>4, ConcatProperties
  <1> QED
    BY <1>3, <1>5 DEF Ops

LEMMA GuardSendsKeeps ==
  ASSUME RecordInv, GuardSends
  PROVE  RecordInv'
  <1>t. RecordTypeOK /\ OneAwaited /\ SessionFits /\ GuardFits /\ EmergencyFits
          /\ ExceptionsUndone /\ BreakpointRemoved /\ PauseReleased /\ StepsLeft
    BY DEF RecordInv
  <1>a. UNCHANGED <<recordAt, answer, undo, spent, buffered, target, link, guarded, signalled, failings>>
    BY DEF GuardSends
  <1>b. /\ emergency.at \in {"controller", "session"} /\ emergency'.at \in {"disarming", "disabling"}
        /\ emergency'.of = emergency.of
        /\ emergency' \in [at : {"off", "controller", "disarming", "session", "disabling", "tunnel",
                                   "exit"}, of : SUBSET Guardable]
    BY <1>t, EmergencyMoves DEF GuardSends
  <1>c. wire \in Seq(Message) /\ Len(wire) \in Nat
    BY <1>t, LenProperties DEF RecordTypeOK, Message
  <1>d. \/ wire' = wire
        \/ Connected /\ \E ops \in Seq({"exceptionsOff", "removeBreakpoint", "resume", "disable"}) :
                           wire' = wire \o Posted(ops)
    <2>1. <<"disable">> \in Seq({"exceptionsOff", "removeBreakpoint", "resume", "disable"})
      OBVIOUS
    <2> QED
      BY <2>1, DisarmingIsKnown DEF GuardSends
  <1>e. Grown(wire, wire', ByGuard) /\ (wire' = wire \/ Connected)
    <2>1. Grown(wire, wire, ByGuard)
      BY <1>c DEF Grown
    <2> QED
      BY <1>c, <1>d, <2>1, PostsGrow
  <1>f. \A m \in ByGuard : m.by # "main" /\ m.op \notin {"exceptionsOn", "setBreakpoint"}
    BY DEF ByGuard
  <1>g. /\ wire' \in Seq(Message) /\ OneAwaited'
        /\ ExceptionsUndone' /\ BreakpointRemoved' /\ PauseReleased' /\ StepsLeft'
    BY <1>a, <1>e, <1>f, HarmlessRequests
  <1>1. RecordTypeOK'
    BY <1>t, <1>a, <1>b, <1>g DEF RecordTypeOK, Message
  <1>2. SessionFits'
    BY <1>t, <1>a, <1>e DEF SessionFits, Connected
  <1>3. GuardFits'
    BY <1>t, <1>a DEF GuardFits, Opening
  <1>4. EmergencyFits'
    BY <1>t, <1>a, <1>b DEF EmergencyFits, Opening, Connected
  <1> QED
    BY <1>g, <1>1, <1>2, <1>3, <1>4 DEF RecordInv

\* The connection is closed after all that was sent.
LEMMA Closing ==
  ASSUME RecordInv, ClosesConnection(wire)
  PROVE  /\ Grown(wire, wire', {[op |-> "close", by |-> "nobody"]})
         /\ link' \in [tunnel : {"none", "up", "closed"}, client : {"none", "open", "closed"}]
         /\ link'.tunnel = link.tunnel /\ ~Connected'
         /\ link'.client = "none" <=> link.client = "none"
         /\ \/ wire' = wire /\ ~Connected
            \/ wire' # <<>> /\ wire'[Len(wire')].op = "close" /\ Connected
  <1>1. /\ wire \in Seq(Message) /\ Len(wire) \in Nat
        /\ link \in [tunnel : {"none", "up", "closed"}, client : {"none", "open", "closed"}]
    BY LenProperties DEF RecordInv, RecordTypeOK, Message
  <1> DEFINE m == [op |-> "close", by |-> "nobody"]
  <1>2. m \in Message /\ m.op = "close"
    BY Messages
  <1>3. /\ link' = [link EXCEPT !.client = IF Connected THEN "closed" ELSE @]
        /\ wire' = IF Connected THEN Append(wire, m) ELSE wire
    BY DEF ClosesConnection
  <1> HIDE DEF m
  <1>4. /\ link' \in [tunnel : {"none", "up", "closed"}, client : {"none", "open", "closed"}]
        /\ link'.tunnel = link.tunnel /\ ~Connected'
        /\ link'.client = "none" <=> link.client = "none"
    BY <1>1, <1>3 DEF Connected
  <1>5. CASE Connected
    <2>1. wire' = Append(wire, m)
      BY <1>3, <1>5
    <2>2. Grown(wire, wire', {m})
      BY <1>1, <1>2, <2>1, AppendGrows
    <2>3. Len(wire') = Len(wire) + 1 /\ wire'[Len(wire')] = m
      BY <1>1, <1>2, <2>1, AppendProperties
    <2>4. wire' # <<>>
      BY <1>1, <2>3, EmptySeq
    <2> QED
      BY <1>2, <1>4, <1>5, <2>2, <2>3, <2>4 DEF m
  <1>6. CASE ~Connected
    <2>1. wire' = wire
      BY <1>3, <1>6
    <2>2. Grown(wire, wire', {m})
      BY <1>1, <2>1 DEF Grown
    <2> QED
      BY <1>4, <1>6, <2>1, <2>2 DEF m
  <1> QED
    BY <1>5, <1>6

LEMMA DisposesSessionKeeps ==
  ASSUME RecordInv, DisposesSession
  PROVE  RecordInv'
  <1>t. RecordTypeOK /\ OneAwaited /\ SessionFits /\ GuardFits /\ EmergencyFits
          /\ ExceptionsUndone /\ BreakpointRemoved /\ PauseReleased /\ StepsLeft
    BY DEF RecordInv
  <1>a. /\ recordAt = "dispose" /\ recordAt' = "closeTunnel" /\ answer \in {"ok", "error"} /\ answer' = "none"
        /\ ClosesConnection(wire)
        /\ UNCHANGED <<undo, spent, buffered, target, guarded, emergency, signalled, failings>>
    BY DEF DisposesSession, Record, outside
  <1>b. /\ Grown(wire, wire', {[op |-> "close", by |-> "nobody"]})
        /\ link' \in [tunnel : {"none", "up", "closed"}, client : {"none", "open", "closed"}]
        /\ link'.tunnel = link.tunnel /\ ~Connected'
        /\ link'.client = "none" <=> link.client = "none"
        /\ \/ wire' = wire /\ ~Connected
           \/ wire' # <<>> /\ wire'[Len(wire')].op = "close" /\ Connected
    BY <1>a, Closing
  <1>c. /\ wire' \in Seq(Message) /\ OneAwaited'
        /\ ExceptionsUndone' /\ BreakpointRemoved' /\ PauseReleased' /\ StepsLeft'
    <2>1. \A m \in {[op |-> "close", by |-> "nobody"]} :
             m.by # "main" /\ m.op \notin {"exceptionsOn", "setBreakpoint"}
      OBVIOUS
    <2> QED
      BY <1>a, <1>b, <2>1, HarmlessRequests
  <1>1. RecordTypeOK'
    BY <1>t, <1>a, <1>b, <1>c DEF RecordTypeOK, Message, RecordPcs
  <1>2. SessionFits'
    BY <1>t, <1>a, <1>b DEF SessionFits, Opening, Connected
  <1>3. GuardFits'
    BY <1>t, <1>a DEF GuardFits, Opening
  <1>4. EmergencyFits'
    BY <1>t, <1>a, <1>b DEF EmergencyFits, Opening, Connected
  <1> QED
    BY <1>c, <1>1, <1>2, <1>3, <1>4 DEF RecordInv

LEMMA GuardIsDoneKeeps ==
  ASSUME RecordInv, GuardIsDone
  PROVE  RecordInv'
  <1>t. RecordTypeOK /\ OneAwaited /\ SessionFits /\ GuardFits /\ EmergencyFits
          /\ ExceptionsUndone /\ BreakpointRemoved /\ PauseReleased /\ StepsLeft
    BY DEF RecordInv
  <1>a. UNCHANGED <<recordAt, answer, undo, spent, buffered, target, guarded, signalled, failings>>
    BY DEF GuardIsDone
  <1>b. /\ emergency'.of = emergency.of /\ emergency.at # "off" /\ emergency'.at \in {"session", "tunnel"}
        /\ recordAt = "exited" => ~Connected /\ (link.tunnel = "up" => "tunnel" \in failings)
        /\ emergency' \in [at : {"off", "controller", "disarming", "session", "disabling", "tunnel",
                                   "exit"}, of : SUBSET Guardable]
    <2>1. /\ emergency'.of = emergency.of /\ emergency.at \in {"disarming", "disabling"}
          /\ emergency'.at \in {"session", "tunnel"}
          /\ emergency' \in [at : {"off", "controller", "disarming", "session", "disabling", "tunnel",
                                "exit"}, of : SUBSET Guardable]
      BY <1>t, EmergencyMoves DEF GuardIsDone
    <2> QED
      BY <1>t, <2>1 DEF EmergencyFits
  <1>c. /\ Grown(wire, wire', {[op |-> "close", by |-> "nobody"]})
        /\ link' \in [tunnel : {"none", "up", "closed"}, client : {"none", "open", "closed"}]
        /\ link'.tunnel = link.tunnel /\ (Connected' => Connected)
        /\ link'.client = "none" <=> link.client = "none"
        /\ \/ wire' = wire /\ (~Connected' => ~Connected)
           \/ ~Connected' /\ wire' # <<>> /\ wire'[Len(wire')].op = "close"
        /\ emergency'.at = "tunnel" /\ "session" \in emergency.of => ~Connected'
    <2>1. CASE ClosesConnection(wire)
      BY <2>1, Closing
    <2>2. CASE /\ UNCHANGED <<wire, link>>
               /\ emergency'.at = "session" \/ "session" \notin emergency.of
      <3>1. wire \in Seq(Message) /\ Len(wire) \in Nat
        BY <1>t, LenProperties DEF RecordTypeOK, Message
      <3>2. Grown(wire, wire', {[op |-> "close", by |-> "nobody"]})
        BY <2>2, <3>1 DEF Grown
      <3> QED
        BY <1>t, <2>2, <3>2 DEF RecordTypeOK, Connected
    <2>3. Emergency("disarming", "session") => emergency'.at = "session"
      BY <1>t, EmergencyMoves
    <2> QED
      BY <2>1, <2>2, <2>3 DEF GuardIsDone
  <1>d. /\ wire' \in Seq(Message) /\ OneAwaited'
        /\ ExceptionsUndone' /\ BreakpointRemoved' /\ PauseReleased' /\ StepsLeft'
    <2>1. \A m \in {[op |-> "close", by |-> "nobody"]} :
             m.by # "main" /\ m.op \notin {"exceptionsOn", "setBreakpoint"}
      OBVIOUS
    <2> QED
      BY <1>a, <1>c, <2>1, HarmlessRequests
  <1>1. RecordTypeOK'
    BY <1>t, <1>a, <1>b, <1>c, <1>d DEF RecordTypeOK, Message
  <1>2. SessionFits'
    <2>1. ~Connected' => IF wire' = <<>> THEN target' = Idle ELSE wire'[Len(wire')].op = "close"
      BY <1>t, <1>a, <1>c DEF SessionFits
    <2>2. link'.client = "none" => wire' = <<>>
      <3>1. link'.client = "none" => wire = <<>> /\ ~Connected
        BY <1>t, <1>c DEF SessionFits, Connected
      <3>2. ClosesConnection(wire) \/ UNCHANGED wire
        BY DEF GuardIsDone
      <3> QED
        BY <3>1, <3>2 DEF ClosesConnection
    <2> QED
      BY <1>t, <1>a, <1>c, <2>1, <2>2 DEF SessionFits, Opening, Closed, Connected
  <1>3. GuardFits'
    BY <1>t, <1>a, <1>c DEF GuardFits, Opening
  <1>4. EmergencyFits'
    BY <1>t, <1>a, <1>b, <1>c DEF EmergencyFits, Opening
  <1> QED
    BY <1>d, <1>1, <1>2, <1>3, <1>4 DEF RecordInv

\* With the tunnel the session is gone, and what it set.
LEMMA TunnelGone ==
  ASSUME RecordInv, TunnelIsClosed, UNCHANGED <<undo, spent, buffered>>,
         recordAt' = recordAt \/ (recordAt = "closeTunnel" /\ recordAt' = "settled"),
         \A f \in failings : f \in failings'
  PROVE  /\ wire' \in Seq(Message) /\ target' = Idle /\ answer' \in {"none", "pending", "ok", "error"}
         /\ link' \in [tunnel : {"none", "up", "closed"}, client : {"none", "open", "closed"}] /\ link'.tunnel = "closed" /\ ~Connected'
         /\ OneAwaited' /\ SessionFits'
         /\ ExceptionsUndone' /\ BreakpointRemoved' /\ PauseReleased' /\ StepsLeft'
  <1>t. RecordTypeOK /\ OneAwaited /\ SessionFits /\ GuardFits /\ EmergencyFits
          /\ ExceptionsUndone /\ BreakpointRemoved /\ PauseReleased /\ StepsLeft
    BY DEF RecordInv
  <1>a. /\ wire' = <<>> /\ target' = Idle
        /\ link' = [tunnel |-> "closed", client |-> IF Connected THEN "closed" ELSE link.client]
        /\ answer' = IF answer = "pending" THEN "error" ELSE answer
    BY DEF TunnelIsClosed
  <1>b. /\ link' \in [tunnel : {"none", "up", "closed"}, client : {"none", "open", "closed"}] /\ link'.tunnel = "closed" /\ ~Connected'
        /\ link'.client = "none" <=> link.client = "none"
    BY <1>t, <1>a DEF RecordTypeOK, Connected
  <1>c. wire' \in Seq(Message) /\ Len(wire') = 0 /\ \A k \in 1..Len(wire') : FALSE
    BY <1>a, EmptySeq
  <1>d. ~target'.exceptions /\ ~target'.breakpoint /\ ~target'.paused
    BY <1>a DEF Idle
  <1>e. \A op : ~OnWire(op)'
    BY <1>c DEF OnWire
  <1>1. OneAwaited'
    BY <1>t, <1>a, <1>c, Points DEF OneAwaited
  <1>2. SessionFits'
    BY <1>t, <1>a, <1>b DEF SessionFits, Opening
  <1>3. ExceptionsUndone'
    BY <1>c, <1>d, <1>e DEF ExceptionsUndone
  <1>4. BreakpointRemoved' /\ PauseReleased'
    BY <1>c, <1>d DEF BreakpointRemoved, PauseReleased
  <1>5. StepsLeft'
    BY <1>t, <1>a DEF StepsLeft
  <1>6. answer' \in {"none", "pending", "ok", "error"}
    BY <1>t, <1>a DEF RecordTypeOK
  <1> QED
    BY <1>a, <1>b, <1>c, <1>1, <1>2, <1>3, <1>4, <1>5, <1>6

LEMMA TunnelProcessEndsKeeps ==
  ASSUME RecordInv, TunnelProcessEnds
  PROVE  RecordInv'
  <1>t. RecordTypeOK /\ OneAwaited /\ SessionFits /\ GuardFits /\ EmergencyFits
          /\ ExceptionsUndone /\ BreakpointRemoved /\ PauseReleased /\ StepsLeft
    BY DEF RecordInv
  <1>a. TunnelIsClosed /\ UNCHANGED <<recordAt, undo, spent, buffered, guarded, emergency, signalled, failings>>
    BY DEF TunnelProcessEnds, outside
  <1>b. /\ wire' \in Seq(Message) /\ target' = Idle /\ answer' \in {"none", "pending", "ok", "error"}
        /\ link' \in [tunnel : {"none", "up", "closed"}, client : {"none", "open", "closed"}] /\ link'.tunnel = "closed" /\ ~Connected'
        /\ OneAwaited' /\ SessionFits'
        /\ ExceptionsUndone' /\ BreakpointRemoved' /\ PauseReleased' /\ StepsLeft'
    BY <1>a, TunnelGone
  <1>1. RecordTypeOK'
    BY <1>t, <1>a, <1>b DEF RecordTypeOK, Message, Idle
  <1>2. GuardFits'
    BY <1>t, <1>a, <1>b DEF GuardFits, Opening
  <1>3. EmergencyFits'
    BY <1>t, <1>a, <1>b DEF EmergencyFits, Opening
  <1> QED
    BY <1>b, <1>1, <1>2, <1>3 DEF RecordInv

LEMMA ReleasesTunnelKeeps ==
  ASSUME RecordInv, ReleasesTunnel
  PROVE  RecordInv'
  <1>t. RecordTypeOK /\ OneAwaited /\ SessionFits /\ GuardFits /\ EmergencyFits
          /\ ExceptionsUndone /\ BreakpointRemoved /\ PauseReleased /\ StepsLeft
    BY DEF RecordInv
  <1>a. /\ recordAt = "closeTunnel" /\ recordAt' = "settled" /\ guarded' = {}
        /\ UNCHANGED <<undo, spent, buffered, emergency, signalled>>
        /\ \/ TunnelIsClosed /\ failings' = failings
           \/ link.tunnel = "up" /\ failings' = failings \cup {"tunnel"} /\ UNCHANGED <<link, wire, target, answer>>
    BY DEF ReleasesTunnel, Record
  <1>b. \A f \in failings : f \in failings'
    BY <1>a
  <1>c. CASE TunnelIsClosed /\ failings' = failings
    <2>a. /\ wire' \in Seq(Message) /\ target' = Idle /\ answer' \in {"none", "pending", "ok", "error"}
          /\ link' \in [tunnel : {"none", "up", "closed"}, client : {"none", "open", "closed"}] /\ link'.tunnel = "closed" /\ ~Connected'
          /\ OneAwaited' /\ SessionFits'
          /\ ExceptionsUndone' /\ BreakpointRemoved' /\ PauseReleased' /\ StepsLeft'
      BY <1>a, <1>b, <1>c, TunnelGone
    <2>1. RecordTypeOK'
      BY <1>t, <1>a, <1>c, <2>a DEF RecordTypeOK, Message, Idle, RecordPcs
    <2>2. GuardFits'
      BY <1>t, <1>a, <2>a DEF GuardFits, Opening
    <2>3. EmergencyFits'
      BY <1>t, <1>a, <1>c, <2>a DEF EmergencyFits, Opening
    <2> QED
      BY <2>a, <2>1, <2>2, <2>3 DEF RecordInv
  <1>d. CASE link.tunnel = "up" /\ failings' = failings \cup {"tunnel"} /\ UNCHANGED <<link, wire, target, answer>>
    <2>1. RecordTypeOK'
      BY <1>t, <1>a, <1>d DEF RecordTypeOK, RecordPcs
    <2>2. OneAwaited'
      BY <1>t, <1>a, <1>d, Points DEF OneAwaited
    <2>3. SessionFits'
      BY <1>t, <1>a, <1>d DEF SessionFits, Opening, Closed, Connected
    <2>4. GuardFits' /\ EmergencyFits'
      BY <1>t, <1>a, <1>d DEF GuardFits, EmergencyFits, Opening, Connected
    <2>5. ExceptionsUndone'
      BY <1>t, <1>a, <1>d DEF ExceptionsUndone, OnWire
    <2>6. BreakpointRemoved'
      BY <1>t, <1>a, <1>d DEF BreakpointRemoved
    <2>7. PauseReleased' /\ StepsLeft'
      BY <1>a DEF PauseReleased, StepsLeft
    <2> QED
      BY <2>1, <2>2, <2>3, <2>4, <2>5, <2>6, <2>7 DEF RecordInv
  <1> QED
    BY <1>a, <1>c, <1>d

LEMMA GuardReleasesTunnelKeeps ==
  ASSUME RecordInv, GuardReleasesTunnel
  PROVE  RecordInv'
  <1>t. RecordTypeOK /\ OneAwaited /\ SessionFits /\ GuardFits /\ EmergencyFits
          /\ ExceptionsUndone /\ BreakpointRemoved /\ PauseReleased /\ StepsLeft
    BY DEF RecordInv
  <1>a. /\ UNCHANGED <<recordAt, undo, spent, buffered, guarded, signalled>>
        /\ \/ "tunnel" \notin emergency.of /\ failings' = failings /\ UNCHANGED <<link, wire, target, answer>>
           \/ TunnelIsClosed /\ failings' = failings
           \/ link.tunnel = "up" /\ failings' = failings \cup {"tunnel"} /\ UNCHANGED <<link, wire, target, answer>>
    BY DEF GuardReleasesTunnel
  <1>b. /\ emergency.at = "tunnel" /\ emergency'.at = "exit" /\ emergency'.of = emergency.of
        /\ emergency' \in [at : {"off", "controller", "disarming", "session", "disabling", "tunnel",
                                "exit"}, of : SUBSET Guardable]
    BY <1>t, EmergencyMoves DEF GuardReleasesTunnel
  <1>c. \A f \in failings : f \in failings'
    BY <1>a
  <1>d. CASE TunnelIsClosed /\ failings' = failings
    <2>a. /\ wire' \in Seq(Message) /\ target' = Idle /\ answer' \in {"none", "pending", "ok", "error"}
          /\ link' \in [tunnel : {"none", "up", "closed"}, client : {"none", "open", "closed"}] /\ link'.tunnel = "closed" /\ ~Connected'
          /\ OneAwaited' /\ SessionFits'
          /\ ExceptionsUndone' /\ BreakpointRemoved' /\ PauseReleased' /\ StepsLeft'
      BY <1>a, <1>c, <1>d, TunnelGone
    <2>1. RecordTypeOK'
      BY <1>t, <1>a, <1>b, <1>d, <2>a DEF RecordTypeOK, Message, Idle
    <2>2. GuardFits'
      BY <1>t, <1>a, <1>d, <2>a DEF GuardFits, Opening
    <2>3. EmergencyFits'
      BY <1>t, <1>a, <1>b, <1>d, <2>a DEF EmergencyFits, Opening
    <2> QED
      BY <2>a, <2>1, <2>2, <2>3 DEF RecordInv
  <1>e. CASE /\ UNCHANGED <<link, wire, target, answer>> /\ failings' \in {failings, failings \cup {"tunnel"}}
             /\ "tunnel" \in emergency.of => "tunnel" \in failings'
    <2>1. RecordTypeOK'
      BY <1>t, <1>a, <1>b, <1>e DEF RecordTypeOK
    <2>2. OneAwaited'
      BY <1>t, <1>a, <1>e DEF OneAwaited
    <2>3. SessionFits'
      BY <1>t, <1>a, <1>e DEF SessionFits, Connected
    <2>4. GuardFits'
      BY <1>t, <1>a, <1>e DEF GuardFits, Opening
    <2>5. EmergencyFits'
      BY <1>t, <1>a, <1>b, <1>e DEF EmergencyFits, Opening, Connected
    <2>6. ExceptionsUndone'
      BY <1>t, <1>a, <1>e DEF ExceptionsUndone, OnWire
    <2>7. BreakpointRemoved'
      BY <1>t, <1>a, <1>e DEF BreakpointRemoved
    <2>8. PauseReleased' /\ StepsLeft'
      BY <1>t, <1>a, <1>e DEF PauseReleased, StepsLeft, PauseKnown, OnWire
    <2> QED
      BY <2>1, <2>2, <2>3, <2>4, <2>5, <2>6, <2>7, <2>8 DEF RecordInv
  <1> QED
    BY <1>a, <1>d, <1>e

LEMMA TargetPausesKeeps ==
  ASSUME RecordInv, TargetPauses
  PROVE  RecordInv'
  <1>t. RecordTypeOK /\ OneAwaited /\ SessionFits /\ GuardFits /\ EmergencyFits
          /\ ExceptionsUndone /\ BreakpointRemoved /\ PauseReleased /\ StepsLeft
    BY DEF RecordInv
  <1>a. /\ target' = [target EXCEPT !.paused = TRUE, !.stepping = FALSE] /\ buffered' = (Connected \/ buffered)
        /\ target.breakpoint \/ target.exceptions \/ target.stepping
        /\ UNCHANGED <<recordAt, answer, undo, spent, wire, link, guarded, emergency, signalled, failings>>
    BY DEF TargetPauses, outside
  <1>b. /\ target' \in [breakpoint : BOOLEAN, exceptions : BOOLEAN, paused : BOOLEAN, stepping : BOOLEAN]
        /\ target'.breakpoint = target.breakpoint /\ target'.exceptions = target.exceptions /\ target # Idle
    <2>1. target = Idle => ~target.breakpoint /\ ~target.exceptions /\ ~target.stepping
      BY DEF Idle
    <2>2. target \in [breakpoint : BOOLEAN, exceptions : BOOLEAN, paused : BOOLEAN, stepping : BOOLEAN]
      BY <1>t DEF RecordTypeOK
    <2>3. target' = [target EXCEPT !.paused = TRUE, !.stepping = FALSE]
      BY <1>a
    <2>4. /\ target' \in [breakpoint : BOOLEAN, exceptions : BOOLEAN, paused : BOOLEAN, stepping : BOOLEAN]
          /\ target'.breakpoint = target.breakpoint /\ target'.exceptions = target.exceptions
      BY <2>2, <2>3
    <2> QED
      BY <1>a, <2>1, <2>4
  <1>c. wire \in Seq(Message) /\ Len(wire) \in Nat
    BY <1>t, LenProperties DEF RecordTypeOK, Message
  <1>1. RecordTypeOK'
    BY <1>t, <1>a, <1>b DEF RecordTypeOK, Connected
  <1>2. OneAwaited'
    BY <1>t, <1>a DEF OneAwaited
  <1>3. SessionFits'
    BY <1>t, <1>a, <1>b DEF SessionFits, Connected
  <1>4. GuardFits'
    BY <1>t, <1>a DEF GuardFits, Opening
  <1>5. EmergencyFits'
    BY <1>t, <1>a DEF EmergencyFits, Opening, Connected
  <1>6. ExceptionsUndone'
    BY <1>t, <1>a, <1>b DEF ExceptionsUndone, OnWire
  <1>7. BreakpointRemoved'
    BY <1>t, <1>a, <1>b DEF BreakpointRemoved
  <1>8. PauseReleased'
    <2>1. CASE Connected
      BY <1>a, <2>1 DEF PauseReleased
    <2>2. CASE ~Connected
      <3>1. wire # <<>> /\ wire[Len(wire)].op = "close"
        BY <1>t, <1>b, <2>2 DEF SessionFits
      <3>2. Len(wire) \in 1..Len(wire)
        BY <1>c, <3>1, EmptySeq
      <3>3. OnWire("close")'
        BY <1>a, <3>1, <3>2 DEF OnWire
      <3> QED
        BY <3>3 DEF PauseReleased, Unpausing
    <2> QED
      BY <2>1, <2>2
  <1>9. StepsLeft'
    BY <1>t, <1>a DEF StepsLeft
  <1> QED
    BY <1>1, <1>2, <1>3, <1>4, <1>5, <1>6, <1>7, <1>8, <1>9 DEF RecordInv

LEMMA SpawnsTunnelKeeps ==
  ASSUME RecordInv, SpawnsTunnel
  PROVE  RecordInv'
  <1>t. RecordTypeOK /\ OneAwaited /\ SessionFits /\ GuardFits /\ EmergencyFits
          /\ ExceptionsUndone /\ BreakpointRemoved /\ PauseReleased /\ StepsLeft
    BY DEF RecordInv
  <1>a. /\ recordAt = "open" /\ recordAt' = "opening" /\ link' = [link EXCEPT !.tunnel = "up"]
        /\ UNCHANGED <<answer, undo, spent, buffered, wire, target, guarded, emergency, signalled, failings>>
    BY DEF SpawnsTunnel, Record, Tunnel, outside
  <1>b. link' \in [tunnel : {"none", "up", "closed"}, client : {"none", "open", "closed"}] /\ link'.client = link.client
    BY <1>t, <1>a DEF RecordTypeOK
  <1>1. RecordTypeOK'
    BY <1>t, <1>a, <1>b DEF RecordTypeOK, RecordPcs
  <1>2. OneAwaited'
    BY <1>t, <1>a, Points DEF OneAwaited
  <1>3. SessionFits'
    BY <1>t, <1>a, <1>b DEF SessionFits, Opening, Closed, Connected
  <1>4. GuardFits'
    BY <1>t, <1>a DEF GuardFits, Opening
  <1>5. EmergencyFits'
    BY <1>t, <1>a, <1>b DEF EmergencyFits, Opening, Connected
  <1>6. ExceptionsUndone'
    BY <1>t, <1>a DEF ExceptionsUndone, OnWire
  <1>7. BreakpointRemoved'
    BY <1>t, <1>a DEF BreakpointRemoved
  <1>8. PauseReleased'
    BY <1>t, <1>a DEF PauseReleased, PauseKnown, OnWire
  <1>9. StepsLeft'
    BY <1>t, <1>a DEF StepsLeft
  <1> QED
    BY <1>1, <1>2, <1>3, <1>4, <1>5, <1>6, <1>7, <1>8, <1>9 DEF RecordInv

LEMMA ConnectsKeeps ==
  ASSUME RecordInv, Connects
  PROVE  RecordInv'
  <1>t. RecordTypeOK /\ OneAwaited /\ SessionFits /\ GuardFits /\ EmergencyFits
          /\ ExceptionsUndone /\ BreakpointRemoved /\ PauseReleased /\ StepsLeft
    BY DEF RecordInv
  <1>a. /\ recordAt = "connect" /\ recordAt' = "plan" /\ link' = [link EXCEPT !.client = "open"]
        /\ link.tunnel = "up" /\ guarded' = guarded \cup {"session"}
        /\ UNCHANGED <<answer, undo, spent, buffered, wire, target, emergency, signalled, failings>>
    BY DEF Connects, Record
  <1>b. link' \in [tunnel : {"none", "up", "closed"}, client : {"none", "open", "closed"}] /\ link'.client = "open" /\ link'.tunnel = link.tunnel
    BY <1>t, <1>a DEF RecordTypeOK
  <1>1. RecordTypeOK'
    BY <1>t, <1>a, <1>b DEF RecordTypeOK, RecordPcs, Guardable
  <1>2. OneAwaited'
    BY <1>t, <1>a, Points DEF OneAwaited
  <1>3. SessionFits'
    BY <1>a, <1>b DEF SessionFits, Opening, Closed, Connected
  <1>4. GuardFits'
    BY <1>t, <1>a DEF GuardFits, Opening
  <1>5. EmergencyFits'
    BY <1>t, <1>a, <1>b DEF EmergencyFits, Opening
  <1>6. ExceptionsUndone'
    BY <1>t, <1>a DEF ExceptionsUndone, OnWire
  <1>7. BreakpointRemoved'
    BY <1>t, <1>a DEF BreakpointRemoved
  <1>8. PauseReleased'
    BY <1>t, <1>a DEF PauseReleased, PauseKnown, OnWire
  <1>9. StepsLeft'
    BY <1>t, <1>a DEF StepsLeft
  <1> QED
    BY <1>1, <1>2, <1>3, <1>4, <1>5, <1>6, <1>7, <1>8, <1>9 DEF RecordInv

LEMMA RunsRequestKeeps ==
  ASSUME RecordInv, RunsRequest
  PROVE  RecordInv'
  <1>t. RecordTypeOK /\ OneAwaited /\ SessionFits /\ GuardFits /\ EmergencyFits
          /\ ExceptionsUndone /\ BreakpointRemoved /\ PauseReleased /\ StepsLeft
    BY DEF RecordInv
  <1> DEFINE head == wire[1]
             refused == NeedsPause(head.op) /\ ~target.paused
  <1>a. /\ wire # <<>> /\ wire' = Tail(wire) /\ Head(wire) = head
        /\ UNCHANGED <<recordAt, undo, spent, buffered, link, guarded, emergency, signalled, failings>>
    BY DEF RunsRequest, outside
  <1>b. /\ wire \in Seq(Message) /\ Len(wire) \in Nat /\ Len(wire) > 0 /\ head \in Message
        /\ wire' \in Seq(Message) /\ Len(wire') = Len(wire) - 1 /\ 1 \in 1..Len(wire)
        /\ \A k \in 1..Len(wire') : wire'[k] = wire[k + 1]
    <2>1. wire \in Seq(Message)
      BY <1>t DEF RecordTypeOK, Message
    <2> QED
      BY <1>a, <2>1, HeadTailProperties, LenProperties, EmptySeq
  <1>c. /\ target' = IF refused THEN target ELSE After(head.op)
        /\ answer' = IF head.by # "main" THEN answer ELSE IF refused THEN "error" ELSE "ok"
    BY <1>a DEF RunsRequest
  <1>d. /\ target' \in [breakpoint : BOOLEAN, exceptions : BOOLEAN, paused : BOOLEAN, stepping : BOOLEAN]
        /\ target'.exceptions => target.exceptions \/ head.op = "exceptionsOn"
        /\ head.op = "exceptionsOff" => ~target'.exceptions
        /\ target'.breakpoint => target.breakpoint \/ head.op = "setBreakpoint"
        /\ head.op = "removeBreakpoint" => ~target'.breakpoint
        /\ target'.paused => target.paused /\ head.op \notin Unpausing
        /\ head.op = "close" => target' = Idle
    <2>1. target \in [breakpoint : BOOLEAN, exceptions : BOOLEAN, paused : BOOLEAN, stepping : BOOLEAN]
      BY <1>t DEF RecordTypeOK
    <2>2. CASE refused
      BY <1>c, <2>1, <2>2 DEF NeedsPause, Unpausing
    <2>3. CASE ~refused
      <3>1. target' = After(head.op)
        BY <1>c, <2>3
      <3> HIDE DEF head, refused
      <3>2. head.op \in {"setBreakpoint", "removeBreakpoint", "exceptionsOn", "exceptionsOff", "step",
                         "resume", "disable", "close"}
        BY <1>b, Messages
      <3>3. CASE head.op = "setBreakpoint"
        BY <2>1, <3>1, <3>3 DEF After, Unpausing
      <3>4. CASE head.op = "removeBreakpoint"
        BY <2>1, <3>1, <3>4 DEF After, Unpausing
      <3>5. CASE head.op = "exceptionsOn"
        BY <2>1, <3>1, <3>5 DEF After, Unpausing
      <3>6. CASE head.op = "exceptionsOff"
        BY <2>1, <3>1, <3>6 DEF After, Unpausing
      <3>7. CASE head.op \in {"step", "resume"}
        BY <2>1, <3>1, <3>7 DEF After, Unpausing
      <3>8. CASE head.op \in {"disable", "close"}
        BY <3>1, <3>8 DEF After, Idle
      <3> QED
        BY <3>2, <3>3, <3>4, <3>5, <3>6, <3>7, <3>8
    <2> QED
      BY <2>2, <2>3
  <1>e. head.by = "main" =>
          /\ answer = "pending" /\ answer' \in {"ok", "error"}
          /\ \A j \in 1..Len(wire) : wire[j].by = "main" => j = 1
          /\ recordAt # "exited" => head.op = Request[recordAt] /\ recordAt \in DOMAIN Request
    BY <1>t, <1>b, <1>c DEF OneAwaited
  <1>f. head.by # "main" => answer' = answer
    BY <1>c
  <1> HIDE DEF refused
  <1>g. \A k \in 1..Len(wire') : k + 1 \in 1..Len(wire) /\ wire'[k] = wire[k + 1]
    BY <1>b
  <1>h. /\ \A op : OnWire(op)' => OnWire(op)
        /\ \A op : OnWire(op) => OnWire(op)' \/ head.op = op
        /\ OnWire(head.op)
    <2>1. ASSUME NEW op, NEW i \in 1..Len(wire), wire[i].op = op, head.op # op
          PROVE  OnWire(op)'
      <3>1. i - 1 \in 1..Len(wire') /\ wire'[i - 1] = wire[i]
        BY <1>b, <2>1
      <3> QED
        BY <2>1, <3>1 DEF OnWire
    <2> QED
      BY <1>b, <1>g, <2>1 DEF OnWire
  <1>i. head.by = "main" /\ recordAt # "exited" =>
          /\ recordAt = "cleanExceptions" => head.op = "exceptionsOff"
          /\ recordAt \in {"removeBreakpoint", "cleanBreakpoint"} => head.op = "removeBreakpoint"
          /\ recordAt \in {"step", "cleanPause"} => head.op \in Unpausing
          /\ head.op = "setBreakpoint" => recordAt = "setBreakpoint"
    BY <1>e, Points DEF Request, Unpausing
  <1> HIDE DEF head
  <1>1. RecordTypeOK'
    BY <1>t, <1>a, <1>b, <1>d, <1>e, <1>f DEF RecordTypeOK, Message
  <1>2. OneAwaited'
    <2>1. answer' # "none" => recordAt' \in DOMAIN Request \cup {"exited"}
      BY <1>t, <1>a, <1>e, <1>f DEF OneAwaited
    <2>2. ASSUME NEW i \in 1..Len(wire'), wire'[i].by = "main"
          PROVE  /\ answer' = "pending"
                 /\ \A j \in 1..Len(wire') : wire'[j].by = "main" => j = i
                 /\ recordAt # "exited" => wire'[i].op = Request[recordAt]
      <3>1. /\ i + 1 \in 1..Len(wire) /\ wire[i + 1].by = "main" /\ wire'[i] = wire[i + 1]
        BY <1>g, <2>2
      <3>2. /\ answer = "pending" /\ \A j \in 1..Len(wire) : wire[j].by = "main" => j = i + 1
            /\ recordAt # "exited" => wire[i + 1].op = Request[recordAt]
        BY <1>t, <3>1 DEF OneAwaited
      <3>3. head.by # "main"
        BY <1>b, <3>1, <3>2 DEF head
      <3>4. \A j \in 1..Len(wire') : wire'[j].by = "main" => j + 1 = i + 1
        BY <1>g, <3>2
      <3>5. \A j \in 1..Len(wire') : j + 1 = i + 1 => j = i
        BY <1>b
      <3> QED
        BY <1>f, <3>1, <3>2, <3>3, <3>4, <3>5
    <2> QED
      BY <1>a, <2>1, <2>2 DEF OneAwaited
  <1>3. SessionFits'
    <2>1. ASSUME ~Connected
          PROVE  IF wire' = <<>> THEN target' = Idle ELSE wire'[Len(wire')].op = "close"
      <3>1. wire[Len(wire)].op = "close"
        BY <1>t, <1>a, <2>1 DEF SessionFits
      <3>2. CASE Len(wire) = 1
        <4>1. wire' = <<>> /\ head.op = "close"
          BY <1>b, <3>1, <3>2, EmptySeq DEF head
        <4> QED
          BY <1>d, <4>1
      <3>3. CASE Len(wire) # 1
        <4>1. Len(wire') \in 1..Len(wire') /\ Len(wire') + 1 = Len(wire)
          BY <1>b, <3>3
        <4>2. wire'[Len(wire')] = wire[Len(wire)]
          BY <1>b, <4>1
        <4>3. wire' # <<>>
          BY <4>1, EmptySeq
        <4> QED
          BY <3>1, <4>2, <4>3
      <3> QED
        BY <3>2, <3>3
    <2> QED
      BY <1>t, <1>a, <2>1 DEF SessionFits, Connected
  <1>4. GuardFits'
    BY <1>t, <1>a DEF GuardFits, Opening
  <1>5. EmergencyFits'
    BY <1>t, <1>a DEF EmergencyFits, Opening, Connected
  <1>6. ExceptionsUndone'
    <2>1. (target.exceptions \/ OnWire("exceptionsOn"))' => "exceptions" \in undo'
      BY <1>t, <1>a, <1>d, <1>h DEF ExceptionsUndone
    <2>2. ASSUME recordAt = "cleanExceptions", answer' = "pending",
                 NEW i \in 1..Len(wire'), wire'[i].op = "exceptionsOn"
          PROVE  \E j \in 1..Len(wire') : j > i /\ wire'[j].by = "main"
      <3>1. answer = "pending" /\ head.by # "main" /\ i + 1 \in 1..Len(wire) /\ wire[i + 1].op = "exceptionsOn"
        BY <1>e, <1>f, <1>g, <2>2
      <3>2. PICK j \in 1..Len(wire) : j > i + 1 /\ wire[j].by = "main"
        BY <1>t, <2>2, <3>1 DEF ExceptionsUndone
      <3>3. j \in Nat /\ i \in Nat /\ Len(wire) \in Nat /\ j <= Len(wire) /\ Len(wire') = Len(wire) - 1
        BY <1>b, <3>2
      <3>4. j - 1 \in 1..Len(wire') /\ j - 1 > i /\ (j - 1) + 1 = j
        BY <3>2, <3>3
      <3>5. wire'[j - 1] = wire[j]
        BY <1>g, <3>4
      <3> QED
        BY <3>2, <3>4, <3>5
    <2>3. ASSUME recordAt = "cleanExceptions", answer' = "ok", head.by = "main"
          PROVE  ~target'.exceptions /\ ~OnWire("exceptionsOn")'
      <3>1. ~target'.exceptions
        BY <1>d, <1>i, <2>3
      <3>2. ASSUME NEW i \in 1..Len(wire'), wire'[i].op = "exceptionsOn" PROVE FALSE
        <4>1. i + 1 \in 1..Len(wire) /\ wire[i + 1].op = "exceptionsOn"
          BY <1>g, <3>2
        <4>2. PICK j \in 1..Len(wire) : j > i + 1 /\ wire[j].by = "main"
          BY <1>t, <1>e, <2>3, <4>1 DEF ExceptionsUndone
        <4> QED
          BY <1>b, <1>e, <2>3, <4>2
      <3> QED
        BY <3>1, <3>2 DEF OnWire
    <2>4. ~target.exceptions /\ ~OnWire("exceptionsOn") => ~target'.exceptions /\ ~OnWire("exceptionsOn")'
      BY <1>d, <1>h
    <2> QED
      BY <1>t, <1>a, <1>f, <2>1, <2>2, <2>3, <2>4 DEF ExceptionsUndone
  <1>7. BreakpointRemoved'
    <2> SUFFICES ASSUME recordAt # "exited", "unknown" \notin failings
                 PROVE  /\ \A i \in 1..Len(wire') : wire'[i].op = "setBreakpoint" => wire'[i].by = "main"
                        /\ target'.breakpoint =>
                             /\ "breakpoint" \in undo \/ (recordAt = "setBreakpoint" /\ answer' = "ok")
                             /\ ~(recordAt \in {"removeBreakpoint", "cleanBreakpoint"} /\ answer' = "ok")
                             /\ recordAt \in {"cleanPause", "recorded"} => "cleanUp" \in failings
      BY <1>a DEF BreakpointRemoved
    <2>1. \A i \in 1..Len(wire') : wire'[i].op = "setBreakpoint" => wire'[i].by = "main"
      BY <1>t, <1>g DEF BreakpointRemoved
    <2>2. head.op = "setBreakpoint" => head.by = "main"
      BY <1>t, <1>b DEF BreakpointRemoved, head
    <2>3. ASSUME target'.breakpoint, head.op = "setBreakpoint"
          PROVE  recordAt = "setBreakpoint" /\ answer' = "ok"
      <3>1. head.by = "main" /\ recordAt = "setBreakpoint"
        BY <1>i, <2>2, <2>3
      <3>2. ~refused
        BY <2>3 DEF refused, NeedsPause
      <3> QED
        BY <1>c, <3>1, <3>2
    <2>4. ASSUME target'.breakpoint, target.breakpoint, head.op # "setBreakpoint"
          PROVE  /\ "breakpoint" \in undo \/ (recordAt = "setBreakpoint" /\ answer' = "ok")
                 /\ ~(recordAt \in {"removeBreakpoint", "cleanBreakpoint"} /\ answer' = "ok")
                 /\ recordAt \in {"cleanPause", "recorded"} => "cleanUp" \in failings
      <3>1. CASE head.by = "main"
        BY <1>t, <1>d, <1>e, <1>i, <2>4, <3>1 DEF BreakpointRemoved
      <3>2. CASE head.by # "main"
        BY <1>t, <1>f, <2>4, <3>2 DEF BreakpointRemoved
      <3> QED
        BY <3>1, <3>2
    <2> QED
      BY <1>d, <2>1, <2>3, <2>4
  <1>8. PauseReleased'
    <2> SUFFICES ASSUME target'.paused, recordAt \notin {"dispose", "closeTunnel", "settled", "exited"}
                 PROVE  \/ buffered \/ "unjudged" \in failings \/ "cleanUp" \in failings
                        \/ \E op \in Unpausing : OnWire(op)'
                        \/ PauseKnown'
                        \/ recordAt = "skip" /\ answer' = "none"
      BY <1>a DEF PauseReleased
    <2>1. target.paused /\ head.op \notin Unpausing
      BY <1>d
    <2>2. \A op \in Unpausing : OnWire(op) => OnWire(op)'
      BY <1>h, <2>1
    <2>3. PauseKnown => PauseKnown'
      BY <1>a, <1>f, <1>i, <2>1 DEF PauseKnown
    <2>4. answer = "none" => answer' = "none"
      BY <1>e, <1>f
    <2> QED
      BY <1>t, <2>1, <2>2, <2>3, <2>4 DEF PauseReleased
  <1>9. StepsLeft'
    BY <1>t, <1>a, <1>e, <1>f DEF StepsLeft
  <1> QED
    BY <1>1, <1>2, <1>3, <1>4, <1>5, <1>6, <1>7, <1>8, <1>9 DEF RecordInv

LEMMA RecordBegins == RecordInit => RecordInv
  <1> SUFFICES ASSUME RecordInit PROVE RecordInv
    OBVIOUS
  <1>a. /\ recordAt = "open" /\ answer = "none" /\ undo = {} /\ buffered = FALSE /\ wire = <<>> /\ target = Idle
        /\ spent = [steps |-> 0, skips |-> 0] /\ link = [tunnel |-> "none", client |-> "none"]
        /\ guarded = {} /\ emergency = [at |-> "off", of |-> {}] /\ signalled = FALSE /\ failings = {}
    BY DEF RecordInit
  <1>b. wire \in Seq(Message) /\ Len(wire) = 0 /\ \A k \in 1..Len(wire) : FALSE
    BY <1>a, EmptySeq
  <1>c. link.client = "none" /\ ~target.exceptions /\ ~target.breakpoint /\ ~target.paused
    BY <1>a DEF Idle
  <1>1. RecordTypeOK
    <2>1. target \in [breakpoint : BOOLEAN, exceptions : BOOLEAN, paused : BOOLEAN, stepping : BOOLEAN]
      BY <1>a DEF Idle
    <2>2. spent \in [steps : 0..MaxSteps, skips : 0..MaxSkips]
      BY <1>a
    <2>3. link \in [tunnel : {"none", "up", "closed"}, client : {"none", "open", "closed"}]
      BY <1>a
    <2>4. emergency \in [at : {"off", "controller", "disarming", "session", "disabling", "tunnel",
                              "exit"}, of : SUBSET Guardable]
      BY <1>a
    <2>5. recordAt \in RecordPcs
      BY <1>a DEF RecordPcs
    <2> QED
      BY <1>a, <1>b, <2>1, <2>2, <2>3, <2>4, <2>5 DEF RecordTypeOK, Message
  <1>2. OneAwaited
    BY <1>a, <1>b DEF OneAwaited
  <1>3. SessionFits /\ GuardFits /\ EmergencyFits
    BY <1>a, <1>c DEF SessionFits, GuardFits, EmergencyFits, Closed, Connected
  <1>4. ExceptionsUndone /\ BreakpointRemoved /\ PauseReleased /\ StepsLeft
    BY <1>a, <1>b, <1>c DEF ExceptionsUndone, BreakpointRemoved, PauseReleased, StepsLeft, OnWire
  <1> QED
    BY <1>1, <1>2, <1>3, <1>4 DEF RecordInv

LEMMA RecordSteps == RecordInv /\ [RecordNext]_recordvars => RecordInv'
  <1> SUFFICES ASSUME RecordInv, [RecordNext]_recordvars PROVE RecordInv'
    OBVIOUS
  <1>1. ASSUME MainStep PROVE RecordInv'
    BY <1>1, SpawnsTunnelKeeps, TunnelIsReadyKeeps, OpeningFailsKeeps, ConnectsKeeps, ConnectFailsKeeps,
       StartsRecordingKeeps, PlansOnlyKeeps, SendsKeeps, GivesUpRequestKeeps, TraceAdvancesKeeps,
       OwnsPauseKeeps, SkipsPauseKeeps, CapturesKeeps, TraceFailsKeeps, CleansUpKeeps, EndsRunKeeps,
       DisposesSessionKeeps, ReleasesTunnelKeeps, ExitsSettledKeeps DEF MainStep
  <1>2. ASSUME GuardStep PROVE RecordInv'
    BY <1>2, SignalKeeps, ForcesExitKeeps, GuardSendsKeeps, GuardIsDoneKeeps, GuardIsCutOffKeeps,
       GuardReleasesTunnelKeeps, ExitsForcedKeeps DEF GuardStep
  <1>3. CASE TargetPauses \/ RunsRequest \/ TunnelProcessEnds
    BY <1>3, TargetPausesKeeps, RunsRequestKeeps, TunnelProcessEndsKeeps
  <1>4. CASE UNCHANGED recordvars
    BY <1>4 DEF recordvars, RecordInv, RecordTypeOK, OneAwaited, SessionFits, GuardFits, EmergencyFits,
       ExceptionsUndone, BreakpointRemoved, PauseReleased, StepsLeft, PauseKnown, OnWire, Connected
  <1> QED
    BY <1>1, <1>2, <1>3, <1>4 DEF RecordNext

\* In whatever order requests, answers and signals come: a recording that ends without a
\* failed clean-up leaves the application disarmed, and a process that exits, also one that
\* is forced to, leaves no tunnel and nothing of the session in the application.
THEOREM RecordingLeavesNothing == RecordSpec => []TraceLeavesNothing
  <1>1. RecordInv => TraceLeavesNothing
    <2> SUFFICES ASSUME RecordInv PROVE RecordedIsDisarmed /\ ExitReleasesAll
      BY DEF TraceLeavesNothing
    <2>t. RecordTypeOK /\ OneAwaited /\ SessionFits /\ GuardFits /\ EmergencyFits
            /\ ExceptionsUndone /\ BreakpointRemoved /\ PauseReleased /\ StepsLeft
      BY DEF RecordInv
    <2>1. RecordedIsDisarmed
      <3> SUFFICES ASSUME recordAt = "recorded", wire = <<>>, "cleanUp" \notin failings
                   PROVE  /\ ~target.exceptions
                          /\ target.breakpoint => "unknown" \in failings
                          /\ target.paused => buffered \/ "unjudged" \in failings
        BY DEF RecordedIsDisarmed
      <3>1. \A op : ~OnWire(op)
        BY EmptySeq DEF OnWire
      <3> QED
        BY <2>t, <3>1 DEF ExceptionsUndone, BreakpointRemoved, PauseReleased, PauseKnown
    <2>2. ExitReleasesAll
      <3> SUFFICES ASSUME recordAt = "exited"
                   PROVE  /\ link.tunnel = "up" => "tunnel" \in failings \/ "opening" \in failings
                          /\ wire = <<>> /\ target # Idle =>
                               link.tunnel = "up" /\ ("session" \in failings \/ "session" \notin emergency.of)
        BY DEF ExitReleasesAll
      <3>1. link.tunnel = "up" => "tunnel" \in failings \/ "opening" \in failings
        BY <2>t DEF EmergencyFits
      <3>2. wire = <<>> /\ target # Idle => Connected /\ link.tunnel = "up"
        BY <2>t DEF SessionFits
      <3>3. Connected => "session" \in failings \/ "session" \notin emergency.of
        BY <2>t DEF EmergencyFits
      <3> QED
        BY <3>1, <3>2, <3>3
    <2> QED
      BY <2>1, <2>2
  <1> QED
    BY <1>1, RecordBegins, RecordSteps, PTL DEF RecordSpec
=============================================================================
