--------------------------- MODULE DirOrderProofs ---------------------------
(***************************************************************************)
(* Directory order (DirOrder of JobQueue) enumerates the pages of a        *)
(* directory: every page once and no other file.                           *)
(***************************************************************************)
EXTENDS JobQueue, TLAPS, FiniteSetTheorems

\* Different pages have different names.
LEMMA NameKeyInjective ==
    ASSUME NEW m \in 1..MaxPages, NEW n \in 1..MaxPages, NameKey(m) = NameKey(n)
    PROVE  m = n
BY BoundsAssumption DEF NameKey

LEMMA NameKeyNat == ASSUME NEW n \in 1..MaxPages PROVE NameKey(n) \in Nat
BY BoundsAssumption DEF NameKey

\* Sets of pages are finite.
LEMMA PagesFinite ==
    ASSUME NEW S, S \subseteq 1..MaxPages
    PROVE  IsFiniteSet(S) /\ Cardinality(S) \in Nat
<1>1. IsFiniteSet(1..MaxPages)
  BY BoundsAssumption, FS_Interval
<1>2. S \in SUBSET (1..MaxPages)
  OBVIOUS
<1>3. IsFiniteSet(S)
  BY <1>1, <1>2, FS_Subset
<1> QED
  BY <1>3, FS_CardinalityType

\* A proper subset has fewer elements.
LEMMA FewerPages ==
    ASSUME NEW S, S \subseteq 1..MaxPages, NEW T, T \subseteq S, NEW n \in S, n \notin T
    PROVE  Cardinality(T) \in Nat /\ Cardinality(T) < Cardinality(S)
<1>1. IsFiniteSet(S) /\ Cardinality(S) \in Nat
  BY PagesFinite
<1>2. T \subseteq 1..MaxPages
  OBVIOUS
<1>3. Cardinality(T) \in Nat
  BY <1>2, PagesFinite
<1>4. T \in SUBSET S /\ T # S
  OBVIOUS
<1>5. Cardinality(T) <= Cardinality(S) /\ Cardinality(T) # Cardinality(S)
  BY <1>1, <1>4, FS_Subset
<1> QED
  BY <1>1, <1>3, <1>5

\* The pages before n are fewer than all pages.
LEMMA DirRankBound ==
    ASSUME NEW S, S \subseteq 1..MaxPages, NEW n \in S
    PROVE  DirRank(S, n) \in 0..(Cardinality(S) - 1)
<1> DEFINE B == {m \in S : NameKey(m) < NameKey(n)}
<1>1. NameKey(n) \in Nat
  BY NameKeyNat
<1>2. B \subseteq S /\ n \notin B
  BY <1>1
<1>3. Cardinality(B) \in Nat /\ Cardinality(B) < Cardinality(S)
  <2> HIDE DEF B
  <2> QED BY <1>2, FewerPages
<1>4. Cardinality(S) \in Nat
  BY PagesFinite
<1> QED
  BY <1>3, <1>4 DEF DirRank

\* An earlier page has a smaller rank.
LEMMA DirRankMonotone ==
    ASSUME NEW S, S \subseteq 1..MaxPages, NEW m \in S, NEW n \in S, NameKey(m) < NameKey(n)
    PROVE  DirRank(S, m) < DirRank(S, n)
<1> DEFINE Before(k) == {i \in S : NameKey(i) < NameKey(k)}
<1>1. \A k \in S : k \in 1..MaxPages
  OBVIOUS
<1>2. \A k \in S : NameKey(k) \in Nat
  BY <1>1, NameKeyNat
<1>3. Before(m) \subseteq Before(n)
  <2> SUFFICES ASSUME NEW k \in Before(m) PROVE k \in Before(n)
    OBVIOUS
  <2>1. NameKey(k) \in Nat /\ NameKey(m) \in Nat /\ NameKey(n) \in Nat
    BY <1>2
  <2>2. NameKey(k) < NameKey(n)
    BY <2>1
  <2> QED BY <2>2
<1>4. m \in Before(n) /\ m \notin Before(m)
  <2>1. NameKey(m) \in Nat
    BY <1>2
  <2> QED BY <2>1
<1>5. Before(n) \subseteq 1..MaxPages
  OBVIOUS
<1>6. Cardinality(Before(m)) < Cardinality(Before(n))
  <2> HIDE DEF Before
  <2> QED BY <1>3, <1>4, <1>5, FewerPages
<1> QED
  BY <1>6 DEF DirRank

\* No two pages have the same rank.
LEMMA SameRank ==
    ASSUME NEW S, S \subseteq 1..MaxPages, NEW m \in S, NEW n \in S,
           DirRank(S, m) = DirRank(S, n)
    PROVE  m = n
<1>1. m \in 1..MaxPages /\ n \in 1..MaxPages
  OBVIOUS
<1>2. NameKey(m) \in Nat /\ NameKey(n) \in Nat
  BY <1>1, NameKeyNat
<1>3. DirRank(S, m) \in Nat
  <2>1. DirRank(S, m) \in 0..(Cardinality(S) - 1)
    BY DirRankBound
  <2> QED BY <2>1
<1>4. ~(DirRank(S, m) < DirRank(S, n)) /\ ~(DirRank(S, n) < DirRank(S, m))
  BY <1>3
<1>5. ~(NameKey(m) < NameKey(n)) /\ ~(NameKey(n) < NameKey(m))
  BY <1>4, DirRankMonotone
<1>6. NameKey(m) = NameKey(n)
  BY <1>2, <1>5
<1> QED
  BY <1>1, <1>6, NameKeyInjective

\* Every rank below the number of pages is the rank of a page.
LEMMA DirRankOnto ==
    ASSUME NEW S, S \subseteq 1..MaxPages, NEW r \in 0..(Cardinality(S) - 1)
    PROVE  \E n \in S : DirRank(S, n) = r
<1> DEFINE K == 0..(Cardinality(S) - 1)
           rank == [n \in S |-> DirRank(S, n)]
<1>1. IsFiniteSet(S) /\ Cardinality(S) \in Nat
  BY PagesFinite
<1>2. IsFiniteSet(K) /\ Cardinality(K) = Cardinality(S)
  <2>1. 0 \in Int /\ Cardinality(S) - 1 \in Int
    BY <1>1
  <2>2. IsFiniteSet(K) /\ Cardinality(K) = IF 0 > Cardinality(S) - 1 THEN 0
                                                      ELSE Cardinality(S) - 1 - 0 + 1
    BY <2>1, FS_Interval
  <2> QED BY <1>1, <2>2
<1>3. rank \in [S -> K]
  BY DirRankBound
<1>4. ASSUME NEW m \in S, NEW n \in S, DirRank(S, m) = DirRank(S, n)
      PROVE  m = n
  BY <1>4, SameRank
<1>5. rank \in Injection(S, K)
  BY <1>3, <1>4 DEF Injection, IsInjective
<1>6. rank \in Surjection(S, K)
  <2> HIDE DEF rank, K
  <2> QED BY <1>1, <1>2, <1>5, FS_Injection
<1> QED
  BY <1>6 DEF Surjection

\* Each place of the directory order holds a page of S, and the one whose rank
\* that place is; so it lists every page once (ReadDir in JobById).
THEOREM DirOrderListsPages ==
    ASSUME NEW S, S \subseteq 1..MaxPages
    PROVE  /\ DOMAIN DirOrder(S) = 1..Cardinality(S)
           /\ \A i \in 1..Cardinality(S) :
                DirOrder(S)[i] \in S /\ DirRank(S, DirOrder(S)[i]) = i - 1
           /\ \A n \in S : \E i \in 1..Cardinality(S) : DirOrder(S)[i] = n
<1>1. Cardinality(S) \in Nat
  BY PagesFinite
<1>2. ASSUME NEW i \in 1..Cardinality(S)
      PROVE  DirOrder(S)[i] \in S /\ DirRank(S, DirOrder(S)[i]) = i - 1
  <2>1. i - 1 \in 0..(Cardinality(S) - 1)
    BY <1>1
  <2>2. \E n \in S : DirRank(S, n) = i - 1
    BY <2>1, DirRankOnto
  <2> QED BY <2>2 DEF DirOrder
<1>3. ASSUME NEW n \in S
      PROVE  \E i \in 1..Cardinality(S) : DirOrder(S)[i] = n
  <2> DEFINE i == DirRank(S, n) + 1
  <2>1. DirRank(S, n) \in 0..(Cardinality(S) - 1)
    BY DirRankBound
  <2>2. i \in 1..Cardinality(S) /\ i - 1 = DirRank(S, n)
    BY <1>1, <2>1
  <2>3. DirOrder(S)[i] \in S /\ DirRank(S, DirOrder(S)[i]) = DirRank(S, n)
    BY <1>2, <2>2
  <2>4. DirOrder(S)[i] = n
    BY <2>3, SameRank
  <2> QED BY <2>2, <2>4
<1> QED
  BY <1>2, <1>3 DEF DirOrder

\* The pages JobById reads back are page contents.
LEMMA LoadPagesType ==
    ASSUME NEW d \in Dir
    PROVE  LoadPages(d) \in Seq(Page)
<1>1. Loadable(d) \subseteq 1..MaxPages
  BY BoundsAssumption DEF Loadable
<1>2. Cardinality(Loadable(d)) \in Nat
  BY <1>1, PagesFinite
<1>3. \A i \in 1..Cardinality(Loadable(d)) : DirOrder(Loadable(d))[i] \in Loadable(d)
  BY <1>1, DirOrderListsPages
<1>4. \A n \in Loadable(d) : d.pages[n] \in Page
  BY DEF Loadable
<1> QED
  BY <1>2, <1>3, <1>4 DEF LoadPages

-----------------------------------------------------------------------------
(* Page numbers of one digit are in order. *)

LEMMA FirstPagesCount ==
    ASSUME NEW k \in Nat
    PROVE  Cardinality(1..k) = k
<1>1. 1 \in Int /\ k \in Int
  OBVIOUS
<1>2. Cardinality(1..k) = IF 1 > k THEN 0 ELSE k - 1 + 1
  BY <1>1, FS_Interval
<1> QED
  BY <1>2

\* With fewer than ten pages, n - 1 pages come before page n.
LEMMA DirRankOfPage ==
    ASSUME MaxPages < 10, NEW k \in 0..MaxPages, NEW n \in 1..k
    PROVE  DirRank(1..k, n) = n - 1
<1>1. k \in Nat /\ k < 10 /\ n \in Nat /\ n - 1 \in Nat
  BY BoundsAssumption
<1>2. \A m \in 1..k : NameKey(m) = 400 * m + 1
  BY <1>1 DEF NameKey
<1>3. {m \in 1..k : NameKey(m) < NameKey(n)} = 1..(n - 1)
  <2>1. \A m \in 1..k : NameKey(m) < NameKey(n) <=> m < n
    BY <1>1, <1>2
  <2>2. \A m : m \in 1..(n - 1) <=> m \in 1..k /\ m < n
    BY <1>1
  <2> QED BY <2>1, <2>2
<1>4. Cardinality(1..(n - 1)) = n - 1
  BY <1>1, FirstPagesCount
<1> QED
  BY <1>3, <1>4 DEF DirRank

\* A directory that holds the first k pages lists them in the order of their
\* numbers, as long as these have one digit (ReadDir; the run pages_in_order shows
\* what happens to the tenth page).
THEOREM DirOrderOfPages ==
    ASSUME MaxPages < 10, NEW k \in 0..MaxPages
    PROVE  DirOrder(1..k) = [i \in 1..k |-> i]
<1>1. k \in Nat /\ Cardinality(1..k) = k
  BY FirstPagesCount, BoundsAssumption
<1>2. 1..k \subseteq 1..MaxPages
  BY BoundsAssumption
<1>3. ASSUME NEW i \in 1..k
      PROVE  DirOrder(1..k)[i] = i
  <2>1. /\ DirOrder(1..k)[i] \in 1..k
        /\ DirRank(1..k, DirOrder(1..k)[i]) = i - 1
    BY <1>1, <1>2, DirOrderListsPages
  <2>2. DirRank(1..k, i) = i - 1
    BY DirRankOfPage
  <2> QED BY <1>2, <2>1, <2>2, SameRank
<1>4. DirOrder(1..k) = [i \in 1..k |-> DirOrder(1..k)[i]]
  BY <1>1 DEF DirOrder
<1> QED
  BY <1>3, <1>4

\* Of ten pages or more, the tenth one is always read second, as page10.jpg comes
\* right after page1.jpg: the bound in DirOrderOfPages is sharp, and what the run
\* pages_in_order shows happens to every such scan (ReadDir in JobById).
THEOREM TenthPageIsSecond ==
    ASSUME NEW k \in 10..MaxPages
    PROVE  DirOrder(1..k)[2] = 10
<1>1. k \in Nat /\ 1..k \subseteq 1..MaxPages /\ 10 \in 1..k /\ Cardinality(1..k) = k
  BY FirstPagesCount, BoundsAssumption
<1>2. {m \in 1..k : NameKey(m) < NameKey(10)} = 1..1
  <2>1. \A m \in 1..k : NameKey(m) < NameKey(10) <=> m = 1
    BY <1>1 DEF NameKey
  <2> QED BY <1>1, <2>1
<1>3. DirRank(1..k, 10) = 1
  BY <1>2, FirstPagesCount DEF DirRank
<1>4. 2 \in 1..Cardinality(1..k)
  BY <1>1
<1>5. DirOrder(1..k)[2] \in 1..k /\ DirRank(1..k, DirOrder(1..k)[2]) = 1
  BY <1>1, <1>4, DirOrderListsPages
<1> QED
  BY <1>1, <1>3, <1>5, SameRank
=============================================================================
