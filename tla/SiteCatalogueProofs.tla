------------------------- MODULE SiteCatalogueProofs -------------------------
(***************************************************************************)
(* What SiteCatalogue guarantees for every folder of names, every text and *)
(* every table of titles and schemes.                                      *)
(*                                                                         *)
(* The sections are what a loop over the folder leaves, so what they hold  *)
(* is proved by induction on the names filed so far; the induction is made *)
(* on sets of naturals, from the well-foundedness of <.  The invariant of  *)
(* the screens then says where each list of names comes from.              *)
(***************************************************************************)
EXTENDS SiteCatalogue, SequenceTheorems, FiniteSetTheorems,
        WellFoundedInduction, TLAPS

-----------------------------------------------------------------------------
(* Induction on the naturals, and sorted sequences.                        *)

LEMMA LeastNat ==
  ASSUME NEW T, T \subseteq Nat, T # {}
  PROVE  \E x \in T : \A y \in T : x <= y
<1> DEFINE R == OpToRel(<, Nat)
<1>1. R = {p \in Nat \X Nat : p[1] < p[2]}
  BY DEF OpToRel
<1>2. IsWellFoundedOn(R, Nat)
  BY NatLessThanWellFounded
<1>3. \A x, y \in Nat : <<y, x>> \in R <=> y < x
  BY <1>1
<1> HIDE DEF R
<1>4. PICK x \in T : \A y \in T : ~ (<<y, x>> \in R)
  BY <1>2, WFMin
<1>5. \A y \in T : ~ (y < x)
  BY <1>3, <1>4
<1>6. \A y \in T : x <= y
  BY <1>5
<1> QED
  BY <1>6

\* A set of naturals that has 0 and, with each, the next, has them all.
LEMMA SetInduction ==
  ASSUME NEW S, 0 \in S, \A n \in Nat : n \in S => n + 1 \in S
  PROVE  \A n \in Nat : n \in S
<1> SUFFICES ASSUME Nat \ S # {} PROVE FALSE
  OBVIOUS
<1>1. PICK x \in Nat \ S : \A y \in Nat \ S : x <= y
  BY LeastNat
<1>2. x - 1 \in Nat /\ x - 1 \notin S
  BY <1>1
<1> QED
  BY <1>1, <1>2

\* A nonempty finite set of integers has a greatest member.
LEMMA Greatest ==
  ASSUME NEW K, K \subseteq Int, IsFiniteSet(K), K # {}
  PROVE  \E m \in K : \A k \in K : k <= m
<1> DEFINE Bounded(n) == \A L \in SUBSET Int :
                 IsFiniteSet(L) /\ Cardinality(L) = n /\ L # {} =>
                    \E m \in L : \A k \in L : k <= m
           S == {n \in Nat : Bounded(n)}
<1>1. 0 \in S
  <2> SUFFICES ASSUME NEW L \in SUBSET Int, IsFiniteSet(L), Cardinality(L) = 0, L # {}
               PROVE FALSE
    OBVIOUS
  <2> QED
    BY FS_EmptySet
<1>2. ASSUME NEW n \in Nat, n \in S PROVE n + 1 \in S
  <2> SUFFICES ASSUME NEW L \in SUBSET Int, IsFiniteSet(L), Cardinality(L) = n + 1, L # {}
               PROVE \E m \in L : \A k \in L : k <= m
    OBVIOUS
  <2>1. PICK x \in L : TRUE
    OBVIOUS
  <2>2. IsFiniteSet(L \ {x}) /\ Cardinality(L \ {x}) = n
    <3>1. IsFiniteSet(L \ {x}) /\ Cardinality(L \ {x}) = Cardinality(L) - 1
      BY <2>1, FS_RemoveElement, Zenon
    <3> QED
      BY <3>1
  <2>3. CASE L \ {x} = {}
    BY <2>3
  <2>4. CASE L \ {x} # {}
    <3>1. PICK m \in L \ {x} : \A k \in L \ {x} : k <= m
      BY <1>2, <2>2, <2>4
    <3>2. m \in Int /\ x \in Int
      OBVIOUS
    <3>3. CASE x <= m
      BY <3>1, <3>3
    <3>4. CASE m < x
      <4>1. \A k \in L : k <= x
        BY <3>1, <3>2, <3>4
      <4> QED
        BY <4>1
    <3> QED
      BY <3>2, <3>3, <3>4
  <2> QED
    BY <2>3, <2>4
<1> HIDE DEF S
<1>3. \A n \in Nat : n \in S
  BY <1>1, <1>2, SetInduction
<1>4. Cardinality(K) \in Nat
  BY FS_CardinalityType
<1> QED
  BY <1>3, <1>4 DEF S

Increasing(s) == \A i, j \in DOMAIN s : i < j => s[i] < s[j]

\* The members of a finite set of integers can be put in order.
LEMMA Sorting ==
  ASSUME NEW K, K \subseteq Int, IsFiniteSet(K)
  PROVE  \E s \in SetToSeqs(K) : Increasing(s)
<1> DEFINE S == {n \in Nat : \A L \in SUBSET Int :
                    IsFiniteSet(L) /\ Cardinality(L) = n =>
                       \E s \in SetToSeqs(L) : Increasing(s)}
<1>1. 0 \in S
  <2> SUFFICES ASSUME NEW L \in SUBSET Int, IsFiniteSet(L), Cardinality(L) = 0
               PROVE \E s \in SetToSeqs(L) : Increasing(s)
    OBVIOUS
  <2>1. [i \in 1 .. 0 |-> 0] \in SetToSeqs(L)
    BY DEF SetToSeqs
  <2> QED
    BY <2>1 DEF Increasing
<1>2. ASSUME NEW n \in Nat, n \in S PROVE n + 1 \in S
  <2> SUFFICES ASSUME NEW L \in SUBSET Int, IsFiniteSet(L), Cardinality(L) = n + 1
               PROVE \E s \in SetToSeqs(L) : Increasing(s)
    OBVIOUS
  <2>1. L # {}
    BY FS_EmptySet
  <2>2. PICK m \in L : \A k \in L : k <= m
    BY <2>1, Greatest
  <2>3. IsFiniteSet(L \ {m}) /\ Cardinality(L \ {m}) = n
    BY FS_RemoveElement
  <2>4. PICK s \in SetToSeqs(L \ {m}) : Increasing(s)
    BY <1>2, <2>3
  <2> DEFINE t == [i \in 1 .. n + 1 |-> IF i = n + 1 THEN m ELSE s[i]]
  <2>5. s \in [1 .. n -> L \ {m}] /\ \A i, j \in 1 .. n : i # j => s[i] # s[j]
    BY <2>3, <2>4 DEF SetToSeqs
  <2>6. t \in [1 .. n + 1 -> L]
    BY <2>5
  <2>7. \A i, j \in 1 .. n + 1 : i < j => t[i] < t[j]
    <3> SUFFICES ASSUME NEW i \in 1 .. n + 1, NEW j \in 1 .. n + 1, i < j
                 PROVE t[i] < t[j]
      OBVIOUS
    <3>1. i \in 1 .. n /\ t[i] = s[i] /\ s[i] \in L \ {m}
      BY <2>5
    <3>2. CASE j = n + 1
      <4>1. t[j] = m
        BY <3>2
      <4>2. s[i] \in Int /\ m \in Int /\ s[i] <= m /\ s[i] # m
        BY <2>2, <3>1
      <4> HIDE DEF t
      <4> QED
        BY <3>1, <4>1, <4>2
    <3>3. CASE j # n + 1
      <4>1. j \in 1 .. n /\ t[j] = s[j]
        BY <3>3
      <4>2. DOMAIN s = 1 .. n
        BY <2>5
      <4> QED
        BY <2>4, <3>1, <4>1, <4>2 DEF Increasing
    <3> QED
      BY <3>2, <3>3
  <2>8. t \in SetToSeqs(L)
    <3>1. \A i \in 1 .. n + 1 : t[i] \in Int
      BY <2>6
    <3>2. \A i, j \in 1 .. n + 1 : i # j => t[i] # t[j]
      BY <2>7, <3>1
    <3> QED
      BY <2>6, <3>2 DEF SetToSeqs
  <2>9. Increasing(t)
    BY <2>6, <2>7 DEF Increasing
  <2> QED
    BY <2>8, <2>9
<1> HIDE DEF S
<1>3. \A n \in Nat : n \in S
  BY <1>1, <1>2, SetInduction
<1>4. Cardinality(K) \in Nat
  BY FS_CardinalityType
<1> QED
  BY <1>3, <1>4 DEF S

-----------------------------------------------------------------------------
(* The folder, and the loops over it.                                      *)

\* An enumeration of the folder has every name.
LEMMA FolderHasAll ==
  ASSUME NEW f \in SetToSeqs(Names)
  PROVE  /\ f \in Seq(Names)
         /\ \A n \in Names : \E p \in 1 .. Len(f) : f[p] = n
<1> DEFINE D == 1 .. Cardinality(Names)
<1>1. IsFiniteSet(Names) /\ Cardinality(Names) \in Nat
  BY CatalogueAssumption, FS_CardinalityType
<1>2. f \in [D -> Names] /\ \A i, j \in D : i # j => f[i] # f[j]
  BY DEF SetToSeqs
<1>3. f \in Seq(Names) /\ Len(f) = Cardinality(Names)
  BY <1>1, <1>2
<1>4. f \in Injection(D, Names)
  BY <1>2 DEF Injection, IsInjective
<1>5. Cardinality(D) = Cardinality(Names)
  BY <1>1, FS_Interval
<1>6. f \in Surjection(D, Names)
  BY <1>1, <1>4, <1>5, FS_Injection
<1>7. \A n \in Names : \E p \in D : f[p] = n
  BY <1>6 DEF Surjection
<1> QED
  BY <1>3, <1>7

\* The names of a set among the first i of the folder, each time they occur and
\* in their order.
Listing(seq, f, i, S) ==
    /\ seq \in Seq(Names)
    /\ \A x \in 1 .. Len(seq) : seq[x] \in S
    /\ \A p \in 1 .. i : f[p] \in S => \E x \in 1 .. Len(seq) : seq[x] = f[p]
    /\ \A x \in 1 .. Len(seq) : \E p \in 1 .. i : f[p] = seq[x]
    /\ \A x, y \in 1 .. Len(seq) : x < y =>
          \E p, q \in 1 .. i : p < q /\ f[p] = seq[x] /\ f[q] = seq[y]

LEMMA ListingStart ==
  ASSUME NEW f, NEW S
  PROVE  Listing(<<>>, f, 0, S)
BY DEF Listing

LEMMA ListingSkip ==
  ASSUME NEW f \in Seq(Names), NEW i \in 1 .. Len(f), NEW S, NEW seq,
         Listing(seq, f, i - 1, S), f[i] \notin S
  PROVE  Listing(seq, f, i, S)
<1>1. i \in Nat /\ 1 .. i = (1 .. i - 1) \cup {i}
  BY LenProperties
<1> QED
  BY <1>1 DEF Listing

LEMMA ListingAppend ==
  ASSUME NEW f \in Seq(Names), NEW i \in 1 .. Len(f), NEW S, NEW seq,
         Listing(seq, f, i - 1, S), f[i] \in S
  PROVE  Listing(Append(seq, f[i]), f, i, S)
<1> DEFINE t == Append(seq, f[i])
<1>1. f[i] \in Names /\ seq \in Seq(Names)
  BY ElementOfSeq DEF Listing
<1>2. /\ t \in Seq(Names) /\ Len(t) = Len(seq) + 1 /\ Len(seq) \in Nat
      /\ \A x \in 1 .. Len(seq) : t[x] = seq[x]
      /\ t[Len(seq) + 1] = f[i]
  BY <1>1, AppendProperties, LenProperties
<1>3. i \in Nat /\ i \in 1 .. i /\ 1 .. i - 1 \subseteq 1 .. i
  BY LenProperties
<1>4. 1 .. i = (1 .. i - 1) \cup {i} /\ \A p \in 1 .. i - 1 : p < i
  BY <1>3
<1>5. /\ 1 .. Len(t) = (1 .. Len(seq)) \cup {Len(t)}
      /\ Len(t) \in 1 .. Len(t)
      /\ \A x, y \in 1 .. Len(t) : x < y => x \in 1 .. Len(seq)
      /\ t[Len(t)] = f[i]
  BY <1>2
<1> HIDE DEF t
<1>6. \A x \in 1 .. Len(t) : t[x] \in S
  BY <1>2, <1>5 DEF Listing
<1>7. \A p \in 1 .. i : f[p] \in S => \E x \in 1 .. Len(t) : t[x] = f[p]
  BY <1>2, <1>4, <1>5 DEF Listing
<1>8. ASSUME NEW x \in 1 .. Len(t) PROVE \E p \in 1 .. i : f[p] = t[x]
  <2>1. CASE x = Len(t)
    BY <1>3, <1>5, <2>1
  <2>2. CASE x \in 1 .. Len(seq)
    <3>1. PICK p \in 1 .. i - 1 : f[p] = seq[x]
      BY <2>2 DEF Listing
    <3> QED
      BY <1>2, <1>3, <2>2, <3>1
  <2> QED
    BY <1>5, <2>1, <2>2
<1>9. ASSUME NEW x \in 1 .. Len(t), NEW y \in 1 .. Len(t), x < y
      PROVE  \E p, q \in 1 .. i : p < q /\ f[p] = t[x] /\ f[q] = t[y]
  <2>1. x \in 1 .. Len(seq)
    BY <1>5, <1>9
  <2>2. CASE y = Len(t)
    <3>1. PICK p \in 1 .. i - 1 : f[p] = t[x]
      BY <1>2, <2>1 DEF Listing
    <3> QED
      BY <1>3, <1>4, <1>5, <2>2, <3>1
  <2>3. CASE y \in 1 .. Len(seq)
    <3>1. PICK p \in 1 .. i - 1, q \in 1 .. i - 1 : p < q /\ f[p] = seq[x] /\ f[q] = seq[y]
      BY <1>9, <2>1, <2>3 DEF Listing
    <3> QED
      BY <1>2, <1>3, <2>1, <2>3, <3>1
  <2> QED
    BY <1>5, <2>2, <2>3
<1> QED
  BY <1>2, <1>6, <1>7, <1>8, <1>9 DEF Listing, t

\* When the whole folder is gone through, a listing is all its names have.
LEMMA ListingIsAll ==
  ASSUME folder \in SetToSeqs(Names), NEW S, S \subseteq Names, NEW seq,
         Listing(seq, folder, Len(folder), S)
  PROVE  InFolderOrder(seq, S)
<1>1. folder \in Seq(Names) /\ \A n \in Names : \E p \in 1 .. Len(folder) : folder[p] = n
  BY FolderHasAll
<1>2. DOMAIN folder = 1 .. Len(folder) /\ DOMAIN seq = 1 .. Len(seq)
  BY <1>1, LenProperties DEF Listing
<1>3. Range(seq) = S
  <2>1. ASSUME NEW n \in S PROVE \E x \in DOMAIN seq : seq[x] = n
    <3>1. PICK p \in 1 .. Len(folder) : folder[p] = n
      BY <1>1
    <3>2. \E x \in 1 .. Len(seq) : seq[x] = folder[p]
      BY <3>1 DEF Listing
    <3> QED
      BY <1>2, <3>1, <3>2
  <2>2. \A x \in DOMAIN seq : seq[x] \in S
    BY <1>2 DEF Listing
  <2> QED
    BY <2>1, <2>2 DEF Range
<1>4. ASSUME NEW i \in DOMAIN seq, NEW j \in DOMAIN seq, i < j
      PROVE  \E p, q \in DOMAIN folder : p < q /\ folder[p] = seq[i] /\ folder[q] = seq[j]
  <2>1. i \in 1 .. Len(seq) /\ j \in 1 .. Len(seq)
    BY <1>2
  <2>2. \E p, q \in 1 .. Len(folder) : p < q /\ folder[p] = seq[i] /\ folder[q] = seq[j]
    BY <1>4, <2>1 DEF Listing
  <2> QED
    BY <1>2, <2>2
<1> QED
  BY <1>3, <1>4 DEF InFolderOrder

-----------------------------------------------------------------------------
(* The sections.                                                           *)

CommonOnly == [k \in {CommonKey} |-> Common]

\* The dictionary after each name of the folder: what the loop computes.
LEMMA Filing ==
  ASSUME NEW f \in Seq(Names)
  PROVE  \E filed : /\ filed[0] = CommonOnly
                    /\ \A i \in 1 .. Len(f) : filed[i] = Filed(filed[i - 1], f[i])
                    /\ DataDictionary(f) = filed[Len(f)]
<1> DEFINE Loop(n, filed) ==
             filed = [i \in 0 .. n |-> IF i = 0 THEN CommonOnly
                                       ELSE Filed(filed[i - 1], f[i])]
           S == {n \in Nat : \E filed : Loop(n, filed)}
<1>1. 0 \in S
  <2> DEFINE g == [i \in 0 .. 0 |-> CommonOnly]
  <2>1. Loop(0, g)
    OBVIOUS
  <2> QED
    BY <2>1
<1>2. ASSUME NEW n \in Nat, n \in S PROVE n + 1 \in S
  <2>1. PICK filed : Loop(n, filed)
    BY <1>2
  <2> DEFINE g == [i \in 0 .. n + 1 |-> IF i = n + 1 THEN Filed(filed[n], f[n + 1])
                                        ELSE filed[i]]
             h == [i \in 0 .. n + 1 |-> IF i = 0 THEN CommonOnly
                                        ELSE Filed(g[i - 1], f[i])]
  <2>2. ASSUME NEW i \in 0 .. n + 1 PROVE g[i] = h[i]
    <3>1. CASE i = n + 1
      <4>1. g[i] = Filed(filed[n], f[n + 1]) /\ g[n] = filed[n]
        BY <3>1
      <4> HIDE DEF g
      <4> QED
        BY <3>1, <4>1
    <3>2. CASE i # n + 1
      <4>1. i \in 0 .. n
        BY <3>2
      <4>2. filed[i] = IF i = 0 THEN CommonOnly ELSE Filed(filed[i - 1], f[i])
        BY <2>1, <4>1
      <4>3. g[i] = filed[i]
        BY <3>2
      <4>4. i # 0 => g[i - 1] = filed[i - 1]
        BY <4>1
      <4> HIDE DEF g
      <4> QED
        BY <4>2, <4>3, <4>4
    <3> QED
      BY <3>1, <3>2
  <2>3. g = h
    <3> SUFFICES \A i \in 0 .. n + 1 : g[i] = h[i]
      OBVIOUS
    <3> QED
      BY <2>2
  <2>4. Loop(n + 1, g)
    BY <2>3
  <2> HIDE DEF g, Loop
  <2> QED
    BY <2>4
<1>3. Len(f) \in Nat
  BY LenProperties
<1>4. \E filed : Loop(Len(f), filed)
  <2> HIDE DEF S
  <2>1. Len(f) \in S
    BY <1>1, <1>2, <1>3, SetInduction
  <2> QED
    BY <2>1 DEF S
<1> DEFINE filed == CHOOSE filed : Loop(Len(f), filed)
<1>5. Loop(Len(f), filed)
  BY <1>4
<1>6. DataDictionary(f) = filed[Len(f)]
  BY DEF DataDictionary, CommonOnly
<1> HIDE DEF filed
<1>7. filed[0] = CommonOnly /\ \A i \in 1 .. Len(f) : filed[i] = Filed(filed[i - 1], f[i])
  BY <1>3, <1>5
<1> QED
  BY <1>6, <1>7

Under(k) == {n \in Names : Initial[n] = k}
SectionOf(dict, k) == IF k \in DOMAIN dict THEN dict[k] ELSE <<>>

\* The dictionary when i names have been gone through.
FiledSoFar(dict, f, i) ==
    /\ DOMAIN dict = {CommonKey} \cup ({Initial[f[p]] : p \in 1 .. i} \ Digits)
    /\ dict[CommonKey] = Common
    /\ \A k \in Int \ ({CommonKey} \cup Digits) :
          Listing(SectionOf(dict, k), f, i, Under(k))

LEMMA FilesOne ==
  ASSUME NEW f \in Seq(Names), NEW i \in 1 .. Len(f), NEW dict,
         FiledSoFar(dict, f, i - 1)
  PROVE  FiledSoFar(Filed(dict, f[i]), f, i)
<1> DEFINE n == f[i]
           d == Filed(dict, n)
<1>1. n \in Names /\ Initial[n] \in Int /\ Initial[n] # CommonKey
  BY CatalogueAssumption, ElementOfSeq
<1>2. {Initial[f[p]] : p \in 1 .. i} = {Initial[f[p]] : p \in 1 .. i - 1} \cup {Initial[n]}
  <2>1. 1 .. i = (1 .. i - 1) \cup {i}
    BY LenProperties
  <2> QED
    BY <2>1
<1>3. CASE Initial[n] \in Digits
  <2>1. d = dict
    BY <1>3 DEF Filed
  <2>2. DOMAIN d = {CommonKey} \cup ({Initial[f[p]] : p \in 1 .. i} \ Digits)
    BY <1>2, <1>3, <2>1 DEF FiledSoFar
  <2>3. ASSUME NEW k \in Int \ ({CommonKey} \cup Digits)
        PROVE  Listing(SectionOf(d, k), f, i, Under(k))
    <3>1. f[i] \notin Under(k)
      BY <1>3 DEF Under
    <3>2. Listing(SectionOf(dict, k), f, i - 1, Under(k))
      BY DEF FiledSoFar
    <3> QED
      BY <2>1, <3>1, <3>2, ListingSkip
  <2> QED
    BY <2>1, <2>2, <2>3 DEF FiledSoFar
<1>4. CASE Initial[n] \notin Digits
  <2>1. d = [k \in DOMAIN dict \cup {Initial[n]} |->
               IF k # Initial[n] THEN dict[k]
               ELSE IF k \in DOMAIN dict THEN Append(dict[k], n) ELSE <<n>>]
    BY <1>4 DEF Filed
  <2>2. DOMAIN d = {CommonKey} \cup ({Initial[f[p]] : p \in 1 .. i} \ Digits)
    BY <1>2, <1>4, <2>1 DEF FiledSoFar
  <2>3. d[CommonKey] = Common
    BY <1>1, <2>1 DEF FiledSoFar
  <2>4. ASSUME NEW k \in Int \ ({CommonKey} \cup Digits)
        PROVE  Listing(SectionOf(d, k), f, i, Under(k))
    <3>1. Listing(SectionOf(dict, k), f, i - 1, Under(k))
      BY DEF FiledSoFar
    <3>2. CASE k = Initial[n]
      <4>1. n \in Under(k)
        BY <1>1, <3>2 DEF Under
      <4>2. SectionOf(d, k) = Append(SectionOf(dict, k), n)
        <5>1. Append(<<>>, n) = <<n>>
          OBVIOUS
        <5> QED
          BY <2>1, <3>2, <5>1 DEF SectionOf
      <4> QED
        BY <3>1, <4>1, <4>2, ListingAppend
    <3>3. CASE k # Initial[n]
      <4>1. n \notin Under(k)
        BY <3>3 DEF Under
      <4>2. SectionOf(d, k) = SectionOf(dict, k)
        BY <2>1, <3>3 DEF SectionOf
      <4> QED
        BY <3>1, <4>1, <4>2, ListingSkip
    <3> QED
      BY <3>2, <3>3
  <2> QED
    BY <2>2, <2>3, <2>4 DEF FiledSoFar
<1> QED
  BY <1>3, <1>4

LEMMA FilesAll ==
  ASSUME NEW f \in Seq(Names)
  PROVE  FiledSoFar(DataDictionary(f), f, Len(f))
<1>1. PICK filed : /\ filed[0] = CommonOnly
                   /\ \A i \in 1 .. Len(f) : filed[i] = Filed(filed[i - 1], f[i])
                   /\ DataDictionary(f) = filed[Len(f)]
  BY Filing
<1> DEFINE S == {n \in Nat : n <= Len(f) => FiledSoFar(filed[n], f, n)}
<1>2. 0 \in S
  <2>1. DOMAIN CommonOnly = {CommonKey} /\ CommonOnly[CommonKey] = Common
    BY DEF CommonOnly
  <2>2. {Initial[f[p]] : p \in 1 .. 0} = {}
    OBVIOUS
  <2>3. ASSUME NEW k \in Int \ ({CommonKey} \cup Digits)
        PROVE  Listing(SectionOf(CommonOnly, k), f, 0, Under(k))
    <3>1. SectionOf(CommonOnly, k) = <<>>
      BY <2>1 DEF SectionOf
    <3> QED
      BY <3>1, ListingStart
  <2>4. FiledSoFar(CommonOnly, f, 0)
    BY <2>1, <2>2, <2>3 DEF FiledSoFar
  <2> QED
    BY <1>1, <2>4
<1>3. ASSUME NEW n \in Nat, n \in S PROVE n + 1 \in S
  <2> SUFFICES ASSUME n + 1 <= Len(f) PROVE FiledSoFar(filed[n + 1], f, n + 1)
    OBVIOUS
  <2> DEFINE i == n + 1
  <2>1. i \in 1 .. Len(f) /\ i - 1 = n /\ n <= Len(f)
    BY LenProperties
  <2>2. FiledSoFar(filed[i - 1], f, i - 1)
    BY <1>3, <2>1
  <2>3. FiledSoFar(Filed(filed[i - 1], f[i]), f, i)
    BY <2>1, <2>2, FilesOne
  <2> QED
    BY <1>1, <2>1, <2>3
<1>4. Len(f) \in Nat
  BY LenProperties
<1> HIDE DEF S
<1>5. Len(f) \in S
  BY <1>2, <1>3, <1>4, SetInduction
<1> QED
  BY <1>1, <1>4, <1>5 DEF S

\* The keys in order, the key of the common names first, are all the keys.
LEMMA KeysSorted ==
  ASSUME NEW dict, DOMAIN dict \subseteq Int, IsFiniteSet(DOMAIN dict),
         CommonKey \in DOMAIN dict, \A k \in DOMAIN dict : k <= CommonKey
  PROVE  /\ SortedKeys(dict)[1] = CommonKey
         /\ \A i \in 1 .. Len(SortedKeys(dict)) : SortedKeys(dict)[i] \in DOMAIN dict
<1> DEFINE K == DOMAIN dict
           s == CHOOSE u \in SetToSeqs(K) : \A i, j \in DOMAIN u : i < j => u[i] < u[j]
           n == Cardinality(K)
<1>1. s \in SetToSeqs(K) /\ \A i, j \in DOMAIN s : i < j => s[i] < s[j]
  BY Sorting DEF Increasing
<1>2. SortedKeys(dict) = <<Last(s)>> \o Front(s)
  BY DEF SortedKeys
<1> HIDE DEF s
<1>3. n \in Nat \ {0}
  BY FS_CardinalityType, FS_EmptySet
<1>4. s \in [1 .. n -> K] /\ \A i, j \in 1 .. n : i # j => s[i] # s[j]
  BY <1>1 DEF SetToSeqs
<1>5. s \in Seq(K) /\ Len(s) = n
  BY <1>3, <1>4
<1>6. Last(s) = s[n] /\ Last(s) \in K
  BY <1>3, <1>4, <1>5 DEF Last
<1>7. Front(s) \in Seq(K) /\ Len(Front(s)) = n - 1
  <2>1. \A i \in 1 .. n - 1 : s[i] \in K
    BY <1>3, <1>4
  <2> QED
    BY <1>3, <1>5, <2>1, SubSeqProperties DEF Front
<1>8. <<Last(s)>> \in Seq(K) /\ Len(<<Last(s)>>) = 1 /\ <<Last(s)>>[1] = Last(s)
  BY <1>6
<1>9. SortedKeys(dict) \in Seq(K) /\ SortedKeys(dict)[1] = Last(s)
  BY <1>2, <1>3, <1>7, <1>8, ConcatProperties
<1>10. s \in Injection(1 .. n, K) /\ Cardinality(1 .. n) = n
  <2>1. s \in Injection(1 .. n, K)
    BY <1>4 DEF Injection, IsInjective
  <2>2. Cardinality(1 .. n) = n
    BY <1>3, FS_Interval
  <2> QED
    BY <2>1, <2>2
<1>11. PICK p \in 1 .. n : s[p] = CommonKey
  <2>1. s \in Surjection(1 .. n, K)
    BY <1>3, <1>10, FS_Injection
  <2> QED
    BY <2>1 DEF Surjection
<1>12. s[n] = CommonKey
  <2>1. n \in DOMAIN s /\ p \in DOMAIN s /\ p \in Int /\ n \in Int
    BY <1>3, <1>4
  <2>2. p < n => CommonKey < s[n]
    BY <1>1, <1>11, <2>1
  <2>3. s[n] \in Int /\ s[n] <= CommonKey
    BY <1>6
  <2> QED
    BY <1>11, <2>1, <2>2, <2>3
<1> QED
  BY <1>6, <1>9, <1>12, ElementOfSeq

Keys == {CommonKey} \cup ({Initial[n] : n \in Names} \ Digits)

\* What the catalogue shows of a folder.
LEMMA SectionsOfFolder ==
  ASSUME folder \in SetToSeqs(Names)
  PROVE  LET dict == DataDictionary(folder)
         IN  /\ DOMAIN dict = Keys
             /\ dict[CommonKey] = Common
             /\ \A k \in Keys \ {CommonKey} :
                   /\ dict[k] \in Seq(Names)
                   /\ InFolderOrder(dict[k], Under(k))
             /\ SortedKeys(dict)[1] = CommonKey
             /\ \A i \in 1 .. Len(SortedKeys(dict)) : SortedKeys(dict)[i] \in Keys
<1> DEFINE dict == DataDictionary(folder)
<1>1. folder \in Seq(Names) /\ \A n \in Names : \E p \in 1 .. Len(folder) : folder[p] = n
  BY FolderHasAll
<1>2. FiledSoFar(dict, folder, Len(folder))
  BY <1>1, FilesAll
<1> HIDE DEF dict
<1>3. {Initial[folder[p]] : p \in 1 .. Len(folder)} = {Initial[n] : n \in Names}
  <2>1. \A p \in 1 .. Len(folder) : folder[p] \in Names
    BY <1>1, ElementOfSeq
  <2> QED
    BY <1>1, <2>1
<1>4. DOMAIN dict = Keys /\ dict[CommonKey] = Common
  BY <1>2, <1>3 DEF FiledSoFar, Keys
<1>5. ASSUME NEW k \in Keys \ {CommonKey}
      PROVE  dict[k] \in Seq(Names) /\ InFolderOrder(dict[k], Under(k))
  <2>1. k \in Int \ ({CommonKey} \cup Digits)
    BY CatalogueAssumption DEF Keys
  <2>2. Listing(dict[k], folder, Len(folder), Under(k))
    BY <1>2, <1>4, <2>1 DEF FiledSoFar, SectionOf
  <2>3. Under(k) \subseteq Names
    BY DEF Under
  <2> QED
    BY <2>2, <2>3, ListingIsAll DEF Listing
<1>6. Keys \subseteq Int /\ CommonKey \in Keys /\ \A k \in Keys : k <= CommonKey
  BY CatalogueAssumption DEF Keys
<1>7. IsFiniteSet(Keys)
  <2> DEFINE I == {Initial[n] : n \in Names}
             g == [n \in Names |-> Initial[n]]
  <2>1. g \in Surjection(Names, I)
    BY DEF Surjection
  <2>2. IsFiniteSet(I)
    BY <2>1, CatalogueAssumption, FS_Surjection
  <2> HIDE DEF I
  <2>3. IsFiniteSet(I \ Digits)
    BY <2>2, FS_Subset
  <2>4. Keys = (I \ Digits) \cup {CommonKey}
    BY DEF Keys, I
  <2> QED
    BY <2>3, <2>4, FS_AddElement
<1>8. /\ SortedKeys(dict)[1] = CommonKey
      /\ \A i \in 1 .. Len(SortedKeys(dict)) : SortedKeys(dict)[i] \in Keys
  BY <1>4, <1>6, <1>7, KeysSorted
<1> QED
  BY <1>4, <1>5, <1>8 DEF dict

-----------------------------------------------------------------------------
(* The search.                                                             *)

\* A search finds the names that match, in the order of the folder.
LEMMA Choosing ==
  ASSUME folder \in Seq(Names), NEW S
  PROVE  Listing(Selected(S), folder, Len(folder), S)
<1> DEFINE Step(chosen, i) == IF folder[i] \in S THEN Append(chosen, folder[i]) ELSE chosen
           Loop(n, chosen) ==
             chosen = [i \in 0 .. n |-> IF i = 0 THEN <<>> ELSE Step(chosen[i - 1], i)]
           T == {n \in Nat : \E chosen : Loop(n, chosen)}
<1>1. 0 \in T
  <2> DEFINE g == [i \in 0 .. 0 |-> <<>>]
  <2>1. Loop(0, g)
    OBVIOUS
  <2> QED
    BY <2>1
<1>2. ASSUME NEW n \in Nat, n \in T PROVE n + 1 \in T
  <2>1. PICK chosen : Loop(n, chosen)
    BY <1>2
  <2> HIDE DEF Step
  <2> DEFINE g == [i \in 0 .. n + 1 |-> IF i = n + 1 THEN Step(chosen[n], n + 1)
                                        ELSE chosen[i]]
             h == [i \in 0 .. n + 1 |-> IF i = 0 THEN <<>> ELSE Step(g[i - 1], i)]
  <2>2. ASSUME NEW i \in 0 .. n + 1 PROVE g[i] = h[i]
    <3>1. CASE i = n + 1
      <4>1. g[i] = Step(chosen[n], n + 1) /\ g[n] = chosen[n]
        BY <3>1
      <4> HIDE DEF g
      <4> QED
        BY <3>1, <4>1
    <3>2. CASE i # n + 1
      <4>1. i \in 0 .. n
        BY <3>2
      <4>2. chosen[i] = IF i = 0 THEN <<>> ELSE Step(chosen[i - 1], i)
        BY <2>1, <4>1
      <4>3. g[i] = chosen[i]
        BY <3>2
      <4>4. i # 0 => g[i - 1] = chosen[i - 1]
        BY <4>1
      <4> HIDE DEF g
      <4> QED
        BY <4>2, <4>3, <4>4
    <3> QED
      BY <3>1, <3>2
  <2>3. g = h
    <3> SUFFICES \A i \in 0 .. n + 1 : g[i] = h[i]
      OBVIOUS
    <3> QED
      BY <2>2
  <2>4. Loop(n + 1, g)
    BY <2>3
  <2> HIDE DEF g, Loop
  <2> QED
    BY <2>4
<1>3. Len(folder) \in Nat
  BY LenProperties
<1>4. \E chosen : Loop(Len(folder), chosen)
  <2> HIDE DEF T
  <2>1. Len(folder) \in T
    BY <1>1, <1>2, <1>3, SetInduction
  <2> QED
    BY <2>1 DEF T
<1> DEFINE chosen == CHOOSE chosen : Loop(Len(folder), chosen)
<1>5. Loop(Len(folder), chosen)
  BY <1>4
<1>6. Selected(S) = chosen[Len(folder)]
  BY DEF Selected
<1> HIDE DEF chosen, Step
<1>7. chosen[0] = <<>> /\ \A i \in 1 .. Len(folder) : chosen[i] = Step(chosen[i - 1], i)
  BY <1>3, <1>5
<1> HIDE DEF Loop
<1> DEFINE U == {n \in Nat : n <= Len(folder) => Listing(chosen[n], folder, n, S)}
<1>8. 0 \in U
  BY <1>7, ListingStart
<1>9. ASSUME NEW n \in Nat, n \in U PROVE n + 1 \in U
  <2> SUFFICES ASSUME n + 1 <= Len(folder) PROVE Listing(chosen[n + 1], folder, n + 1, S)
    OBVIOUS
  <2> DEFINE i == n + 1
  <2>1. i \in 1 .. Len(folder) /\ i - 1 = n /\ n <= Len(folder)
    BY <1>3
  <2>2. Listing(chosen[i - 1], folder, i - 1, S)
    BY <1>9, <2>1
  <2> HIDE DEF i
  <2>3. CASE folder[i] \in S
    <3>1. chosen[i] = Append(chosen[i - 1], folder[i])
      BY <1>7, <2>1, <2>3 DEF Step
    <3>2. Listing(chosen[i], folder, i, S)
      BY <2>1, <2>2, <2>3, <3>1, ListingAppend
    <3> QED
      BY <3>2 DEF i
  <2>4. CASE folder[i] \notin S
    <3>1. chosen[i] = chosen[i - 1]
      BY <1>7, <2>1, <2>4 DEF Step
    <3>2. Listing(chosen[i], folder, i, S)
      BY <2>1, <2>2, <2>4, <3>1, ListingSkip
    <3> QED
      BY <3>2 DEF i
  <2> QED
    BY <2>3, <2>4
<1> HIDE DEF U
<1>10. Len(folder) \in U
  BY <1>3, <1>8, <1>9, SetInduction
<1> QED
  BY <1>3, <1>6, <1>10 DEF U

-----------------------------------------------------------------------------
(* The screens.                                                            *)

CatalogueOpen == screen \in {"catalogue", "search", "form", "suggested"}

\* While the catalogue is there its sections are those of its folder.
SectionsMade ==
    CatalogueOpen => folder \in SetToSeqs(Names) /\ sections = DataDictionary(folder)

\* A form of the catalogue has a name.
FormHasName == screen \in {"form", "suggested"} => name \in Titles

EditHasSite == screen = "edit" => site # NoSite

\* What the table has drawn is what it answers from, or there is nothing left.
DrawnOrEmpty == rows = result \/ result = <<>>

\* The title is the name that was picked, or what is shown for it.
TitleIsPicked ==
    site # NoSite => /\ picked \in Titles
                     /\ site.title = IF renamed THEN Label[picked] ELSE picked

CTInv ==
    /\ CTTypeOK
    /\ SectionsMade
    /\ FormHasName
    /\ EditHasSite
    /\ DrawnOrEmpty
    /\ TitleIsPicked

LEMMA Initially == CTInit => CTInv
<1> SUFFICES ASSUME CTInit PROVE CTInv
  OBVIOUS
<1> USE DEF CTInit, NoSite, NoText
<1>1. CTTypeOK
  <2>1. <<>> \in Seq(Names)
    BY EmptySeq
  <2>2. folder \in SetToSeqs(Names) \cup {<<>>} /\ result \in Seq(Names) /\ rows \in Seq(Names)
    BY <2>1
  <2> QED
    BY <2>2 DEF CTTypeOK
<1>2. SectionsMade /\ FormHasName /\ EditHasSite /\ DrawnOrEmpty
  BY DEF SectionsMade, CatalogueOpen, FormHasName, EditHasSite, DrawnOrEmpty
<1>3. TitleIsPicked
  BY DEF TitleIsPicked
<1> QED
  BY <1>1, <1>2, <1>3 DEF CTInv

\* A row of the catalogue is a name, or one of the common ones.
LEMMA RowIsTitle ==
  ASSUME CTInv, screen = "catalogue",
         NEW section \in 1 .. Len(SortedKeys(sections)),
         NEW row \in 1 .. Len(sections[SortedKeys(sections)[section]])
  PROVE  sections[SortedKeys(sections)[section]][row] \in Titles
<1> DEFINE k == SortedKeys(sections)[section]
<1>1. folder \in SetToSeqs(Names) /\ sections = DataDictionary(folder)
  BY DEF CTInv, SectionsMade, CatalogueOpen
<1>2. k \in Keys
  BY <1>1, SectionsOfFolder
<1>3. sections[k] \in Seq(Names) \/ sections[k] = Common
  BY <1>1, <1>2, SectionsOfFolder
<1> HIDE DEF k
<1>4. row \in 1 .. Len(sections[k])
  BY DEF k
<1>5. sections[k][row] \in Names \/ sections[k][row] \in Titles
  BY <1>3, <1>4, CatalogueAssumption, ElementOfSeq
<1> QED
  BY <1>5, CatalogueAssumption DEF k

\* Every screen but the list goes with what it holds.
LEMMA GoneKeeps ==
  ASSUME CTInv, Gone,
         site' \in [title : Titles, link : BOOLEAN] \cup {NoSite},
         opened' = opened, picked' \in Titles \cup {NoName}, renamed' \in BOOLEAN,
         TitleIsPicked'
  PROVE  CTInv'
<1> USE DEF Gone, NoText
<1>1. CTTypeOK'
  <2>1. <<>> \in Seq(Names)
    BY EmptySeq
  <2>2. /\ folder' \in SetToSeqs(Names) \cup {<<>>}
        /\ result' \in Seq(Names) /\ rows' \in Seq(Names)
    BY <2>1
  <2> QED
    BY <2>2 DEF CTInv, CTTypeOK
<1>2. SectionsMade' /\ FormHasName' /\ EditHasSite' /\ DrawnOrEmpty'
  BY DEF SectionsMade, CatalogueOpen, FormHasName, EditHasSite, DrawnOrEmpty
<1> QED
  BY <1>1, <1>2 DEF CTInv

LEMMA Inductive == CTInv /\ [CTNext]_ctVars => CTInv'
<1> SUFFICES ASSUME CTInv, [CTNext]_ctVars PROVE CTInv'
  OBVIOUS
<1> USE DEF CTInv
<1>1. ASSUME PressedAddBarButton PROVE CTInv'
  <2> USE <1>1 DEF PressedAddBarButton
  <2>1. CTTypeOK'
    BY DEF CTTypeOK, siteVars
  <2>2. SectionsMade'
    BY DEF SectionsMade
  <2>3. FormHasName' /\ EditHasSite' /\ DrawnOrEmpty'
    BY DEF FormHasName, EditHasSite, DrawnOrEmpty
  <2>4. TitleIsPicked'
    BY DEF TitleIsPicked, siteVars
  <2> QED
    BY <2>1, <2>2, <2>3, <2>4
<1>2. ASSUME NEW section, NEW row, DidSelectRow(section, row) PROVE CTInv'
  <2> USE <1>2 DEF DidSelectRow
  <2>1. name' \in Titles
    BY RowIsTitle
  <2>2. CTTypeOK'
    BY <2>1 DEF CTTypeOK, siteVars, catalogueVars, searchVars
  <2>3. SectionsMade'
    BY DEF SectionsMade, CatalogueOpen, catalogueVars
  <2>4. FormHasName' /\ EditHasSite' /\ DrawnOrEmpty'
    BY <2>1 DEF FormHasName, EditHasSite, DrawnOrEmpty, searchVars
  <2>5. TitleIsPicked'
    BY DEF TitleIsPicked, siteVars
  <2> QED
    BY <2>2, <2>3, <2>4, <2>5
<1>3. ASSUME PressedCloseButton PROVE CTInv'
  <2>1. TitleIsPicked'
    BY <1>3 DEF PressedCloseButton, siteVars, TitleIsPicked
  <2> QED
    BY <1>3, <2>1, GoneKeeps DEF PressedCloseButton, siteVars, CTTypeOK
<1>4. ASSUME PressedSearchButton PROVE CTInv'
  <2> USE <1>4 DEF PressedSearchButton, Reload
  <2>1. CTTypeOK'
    BY DEF CTTypeOK, siteVars, catalogueVars
  <2>2. SectionsMade'
    BY DEF SectionsMade, CatalogueOpen, catalogueVars
  <2>3. FormHasName' /\ EditHasSite' /\ DrawnOrEmpty'
    BY DEF FormHasName, EditHasSite, DrawnOrEmpty
  <2>4. TitleIsPicked'
    BY DEF TitleIsPicked, siteVars
  <2> QED
    BY <2>1, <2>2, <2>3, <2>4
<1>5. ASSUME KeyboardChanges PROVE CTInv'
  <2> USE <1>5 DEF KeyboardChanges, Reload
  <2>1. CTTypeOK'
    BY DEF CTTypeOK, siteVars, catalogueVars
  <2>2. SectionsMade'
    BY DEF SectionsMade, CatalogueOpen, catalogueVars
  <2>3. FormHasName' /\ EditHasSite' /\ DrawnOrEmpty'
    BY DEF FormHasName, EditHasSite, DrawnOrEmpty
  <2>4. TitleIsPicked'
    BY DEF TitleIsPicked, siteVars
  <2> QED
    BY <2>1, <2>2, <2>3, <2>4
<1>6. ASSUME NEW t \in Texts \cup {NoText}, SearchTextDidChange(t) PROVE CTInv'
  <2> USE <1>6 DEF SearchTextDidChange
  <2>1. folder \in Seq(Names)
    BY FolderHasAll DEF SectionsMade, CatalogueOpen
  <2>2. Selected(Matches[t]) \in Seq(Names)
    BY <2>1, Choosing DEF Listing
  <2>3. result' \in Seq(Names) /\ rows' \in Seq(Names) /\ hidden' \in BOOLEAN /\ DrawnOrEmpty'
    <3>1. CASE t = NoText
      BY <3>1 DEF CTTypeOK, DrawnOrEmpty
    <3>2. CASE t # NoText
      BY <2>2, <3>2 DEF CTTypeOK, DrawnOrEmpty, Reload
    <3> QED
      BY <3>1, <3>2
  <2>4. CTTypeOK'
    BY <2>3 DEF CTTypeOK, siteVars, catalogueVars
  <2>5. SectionsMade'
    BY DEF SectionsMade, CatalogueOpen, catalogueVars
  <2>6. FormHasName' /\ EditHasSite'
    BY DEF FormHasName, EditHasSite
  <2>7. TitleIsPicked'
    BY DEF TitleIsPicked, siteVars
  <2> QED
    BY <2>3, <2>4, <2>5, <2>6, <2>7
<1>7. ASSUME NEW i \in 1 .. Len(rows), DidSelectSuggestion(i) PROVE CTInv'
  <2> USE <1>7 DEF DidSelectSuggestion, Tappable
  <2>1. result[i] \in Titles
    <3>1. i \in 1 .. Len(result)
      BY LenProperties DEF CTTypeOK
    <3> QED
      BY <3>1, ElementOfSeq, CatalogueAssumption DEF CTTypeOK
  <2>2. CTTypeOK'
    BY <2>1 DEF CTTypeOK, siteVars, catalogueVars
  <2>3. SectionsMade'
    BY DEF SectionsMade, CatalogueOpen, catalogueVars
  <2>4. FormHasName' /\ EditHasSite' /\ DrawnOrEmpty'
    BY <2>1 DEF FormHasName, EditHasSite, DrawnOrEmpty
  <2>5. TitleIsPicked'
    BY DEF TitleIsPicked, siteVars
  <2> QED
    BY <2>2, <2>3, <2>4, <2>5
<1>8. ASSUME NEW i, OutOfBounds(i) PROVE CTInv'
  <2>1. TitleIsPicked'
    BY <1>8 DEF OutOfBounds, siteVars, TitleIsPicked
  <2> QED
    BY <1>8, <2>1, GoneKeeps DEF OutOfBounds, siteVars, CTTypeOK
<1>9. ASSUME CancelSearch \/ PressedCancelButton \/ PressedEdit PROVE CTInv'
  <2> USE <1>9 DEF CancelSearch, PressedCancelButton, PressedEdit
  <2>1. CTTypeOK'
    BY DEF CTTypeOK, siteVars, catalogueVars, searchVars
  <2>2. SectionsMade'
    BY DEF SectionsMade, CatalogueOpen, catalogueVars
  <2>3. FormHasName' /\ EditHasSite' /\ DrawnOrEmpty'
    BY DEF FormHasName, EditHasSite, DrawnOrEmpty, searchVars, siteVars
  <2>4. TitleIsPicked'
    BY DEF TitleIsPicked, siteVars
  <2> QED
    BY <2>1, <2>2, <2>3, <2>4
<1>10. ASSUME NEW b \in BOOLEAN, FinishInput(b) PROVE CTInv'
  <2> USE <1>10 DEF FinishInput
  <2>1. name \in Titles
    BY DEF FormHasName
  <2>2. TitleIsPicked'
    BY <2>1 DEF TitleIsPicked
  <2>3. site' \in [title : Titles, link : BOOLEAN] \cup {NoSite}
    BY <2>1
  <2> QED
    BY <2>1, <2>2, <2>3, GoneKeeps
<1>11. ASSUME NEW b \in BOOLEAN, FinishEdit(b) PROVE CTInv'
  <2> USE <1>11 DEF FinishEdit
  <2>1. site # NoSite
    BY DEF EditHasSite
  <2>2. site \in [title : Titles, link : BOOLEAN] /\ picked \in Titles
    BY <2>1 DEF CTTypeOK, TitleIsPicked
  <2>3. site' \in [title : Titles, link : BOOLEAN]
    BY <2>2, LabelAssumption
  <2>4. CTTypeOK'
    BY <2>3 DEF CTTypeOK, catalogueVars, searchVars
  <2>5. SectionsMade'
    BY DEF SectionsMade, CatalogueOpen
  <2>6. FormHasName' /\ EditHasSite' /\ DrawnOrEmpty'
    BY DEF FormHasName, EditHasSite, DrawnOrEmpty, searchVars
  <2>7. TitleIsPicked'
    BY <2>1, <2>2, LabelAssumption DEF TitleIsPicked
  <2> QED
    BY <2>4, <2>5, <2>6, <2>7
<1>12. ASSUME NEW b \in BOOLEAN, PressedLaunch(b) PROVE CTInv'
  <2> USE <1>12 DEF PressedLaunch
  <2>1. site \in [title : Titles, link : BOOLEAN]
    BY DEF CTTypeOK
  <2>2. Scheme[site.title] \in Range(Scheme)
    BY <2>1, LabelAssumption
  <2>3. opened' \in (Range(Scheme) \ {NoScheme}) \cup {"link", "nothing"}
    BY <2>2
  <2>4. CTTypeOK'
    BY <2>3 DEF CTTypeOK, catalogueVars, searchVars
  <2>5. SectionsMade'
    BY DEF SectionsMade, CatalogueOpen, catalogueVars
  <2>6. FormHasName' /\ EditHasSite' /\ DrawnOrEmpty'
    BY DEF FormHasName, EditHasSite, DrawnOrEmpty, searchVars
  <2>7. TitleIsPicked'
    BY DEF TitleIsPicked
  <2> QED
    BY <2>4, <2>5, <2>6, <2>7
<1>13. CASE UNCHANGED ctVars
  BY <1>13 DEF ctVars, catalogueVars, searchVars, siteVars, CTTypeOK, SectionsMade,
               CatalogueOpen, FormHasName, EditHasSite, DrawnOrEmpty, TitleIsPicked
<1> QED
  BY <1>1, <1>2, <1>3, <1>4, <1>5, <1>6, <1>7, <1>8, <1>9, <1>10, <1>11, <1>12, <1>13
     DEF CTNext

LEMMA Invariance == CTSpec => []CTInv
<1>1. CTInit => CTInv
  BY Initially
<1>2. CTInv /\ [CTNext]_ctVars => CTInv'
  BY Inductive
<1> QED
  BY <1>1, <1>2, PTL DEF CTSpec

-----------------------------------------------------------------------------
(***************************************************************************)
(* Theorems.                                                               *)
(***************************************************************************)

\* Every value is of its type: the form's name and the site's title are
\* titles, and a launch opens an application only by a scheme there is
\* (InputWebsiteViewController.m:127-150, PresentWebsiteViewController.m:63-85).
THEOREM CTTypeCorrect == CTSpec => []CTTypeOK
<1>1. CTInv => CTTypeOK
  BY DEF CTInv
<1> QED
  BY <1>1, Invariance, PTL

\* Filing the names one at a time loses none and doubles none, in whatever
\* order the folder is enumerated, for every folder
\* (SearchItemViewController.m:126-157, :296-306).
THEOREM FilingLosesNothing == CTSpec => []SectionsAreTheFolder
<1>1. CTInv => SectionsAreTheFolder
  <2> SUFFICES ASSUME CTInv, CatalogueOpen
               PROVE  /\ DOMAIN sections = Keys
                      /\ sections[CommonKey] = Common
                      /\ SortedKeys(sections)[1] = CommonKey
                      /\ \A k \in DOMAIN sections \ {CommonKey} :
                            InFolderOrder(sections[k], Under(k))
    BY DEF SectionsAreTheFolder, CatalogueOpen, Keys, Under
  <2>1. folder \in SetToSeqs(Names) /\ sections = DataDictionary(folder)
    BY DEF CTInv, SectionsMade
  <2> QED
    BY <2>1, SectionsOfFolder
<1> QED
  BY <1>1, Invariance, PTL

\* A tapped suggestion opens the form of the name its row shows, whatever was
\* typed and searched before (SearchItemViewController.m:240-283).
THEOREM OpensWhatIsShown == CTSpec => SuggestionIsWhatIsShown
<1>1. CTInv /\ [CTNext]_ctVars =>
        [\A i \in 1 .. Len(rows) : DidSelectSuggestion(i) => name' = rows[i]]_ctVars
  <2> SUFFICES ASSUME CTInv, NEW i \in 1 .. Len(rows), DidSelectSuggestion(i)
               PROVE  name' = rows[i]
    OBVIOUS
  <2>1. i \in Nat /\ i >= 1 /\ i <= Len(result) /\ name' = result[i]
    BY LenProperties DEF DidSelectSuggestion, CTInv, CTTypeOK
  <2>2. result # <<>>
    BY <2>1, EmptySeq
  <2>3. rows = result
    BY <2>2 DEF CTInv, DrawnOrEmpty
  <2> QED
    BY <2>1, <2>3
<1> QED
  BY <1>1, Invariance, PTL DEF CTSpec, SuggestionIsWhatIsShown

\* A site opens the application of the name it was made of, or its link when
\* there is none, for every table of titles and schemes; an edit that leaves
\* the title leaves that (PresentWebsiteViewController.m:63-85, :204-277).
THEOREM LaunchesByName == CTSpec => LaunchesWhatWasPicked
<1>1. CTInv /\ [CTNext]_ctVars =>
        [\A can \in BOOLEAN :
           PressedLaunch(can) /\ (renamed => Label[picked] = picked) =>
              IF Scheme[picked] # NoScheme /\ can THEN opened' = Scheme[picked]
              ELSE opened' = "link" <=> site.link]_ctVars
  <2> SUFFICES ASSUME CTInv, NEW can \in BOOLEAN, PressedLaunch(can),
                      renamed => Label[picked] = picked
               PROVE  IF Scheme[picked] # NoScheme /\ can THEN opened' = Scheme[picked]
                      ELSE opened' = "link" <=> site.link
    OBVIOUS
  <2>1. site.title = picked
    BY DEF CTInv, TitleIsPicked, PressedLaunch
  <2>2. site.link \in BOOLEAN
    BY DEF CTInv, CTTypeOK, PressedLaunch
  <2> QED
    BY <2>1, <2>2 DEF PressedLaunch
<1> QED
  BY <1>1, Invariance, PTL DEF CTSpec, LaunchesWhatWasPicked

\* Whatever is typed, a search finds every name that matches, once and in the
\* order of the folder (SearchItemViewController.m:244-249).
THEOREM SearchFindsAll ==
  CTSpec => [][\A t \in Texts \ {NoText} :
                 SearchTextDidChange(t) => InFolderOrder(result', Matches[t])]_ctVars
<1>1. CTInv /\ [CTNext]_ctVars =>
        [\A t \in Texts \ {NoText} :
           SearchTextDidChange(t) => InFolderOrder(result', Matches[t])]_ctVars
  <2> SUFFICES ASSUME CTInv, NEW t \in Texts \ {NoText}, SearchTextDidChange(t)
               PROVE  InFolderOrder(result', Matches[t])
    OBVIOUS
  <2>1. folder \in SetToSeqs(Names)
    BY DEF CTInv, SectionsMade, CatalogueOpen, SearchTextDidChange
  <2>2. Listing(Selected(Matches[t]), folder, Len(folder), Matches[t])
    BY <2>1, FolderHasAll, Choosing
  <2>3. Matches[t] \subseteq Names
    BY CatalogueAssumption
  <2>4. InFolderOrder(Selected(Matches[t]), Matches[t])
    BY <2>1, <2>2, <2>3, ListingIsAll
  <2>5. result' = Selected(Matches[t])
    BY DEF SearchTextDidChange
  <2> QED
    BY <2>4, <2>5
<1> QED
  BY <1>1, Invariance, PTL DEF CTSpec
=============================================================================
