----------------------------- MODULE ReportProofs -----------------------------
(***************************************************************************)
(* Proofs about the text of the report, for any lists of headings, any     *)
(* number of sections and of correction rounds, and about the model        *)
(* router, for every configuration.                                        *)
(***************************************************************************)
EXTENDS ReportFormat, ModelRouter, FiniteSetTheorems, FunctionTheorems,
        SequenceTheorems, TLAPS

-----------------------------------------------------------------------------
(* Positions in order.                                                     *)

Below(I, i) == {j \in I : j < i}

\* How many members of a finite set are below one of them.
LEMMA Rank ==
  ASSUME NEW I \in SUBSET Int, IsFiniteSet(I), NEW i \in I
  PROVE  /\ IsFiniteSet(Below(I, i))
         /\ Cardinality(Below(I, i)) \in 0 .. Cardinality(I) - 1
<1>1. /\ IsFiniteSet(Below(I, i))
      /\ Cardinality(Below(I, i)) <= Cardinality(I)
      /\ Cardinality(I) = Cardinality(Below(I, i)) => I = Below(I, i)
  BY FS_Subset DEF Below
<1>2. i \notin Below(I, i)
  BY DEF Below
<1>3. Cardinality(I) \in Nat
  BY FS_CardinalityType
<1>4. Cardinality(Below(I, i)) \in Nat
  BY <1>1, FS_CardinalityType
<1> QED
  BY <1>1, <1>2, <1>3, <1>4

\* A larger member has more of them.
LEMMA RankGrows ==
  ASSUME NEW I \in SUBSET Int, IsFiniteSet(I),
         NEW i \in I, NEW j \in I, i < j
  PROVE  Cardinality(Below(I, i)) < Cardinality(Below(I, j))
<1>1. IsFiniteSet(Below(I, i)) /\ IsFiniteSet(Below(I, j))
  BY Rank
<1>2. Cardinality(Below(I, i)) \in Nat /\ Cardinality(Below(I, j)) \in Nat
  BY <1>1, FS_CardinalityType
<1>3. Below(I, i) \in SUBSET Below(I, j)
  <2>1. i \in Int /\ j \in Int /\ \A h \in I : h \in Int
    OBVIOUS
  <2>2. \A h \in I : h < i => h < j
    BY <2>1
  <2> QED
    BY <2>2 DEF Below
<1>4. i \in Below(I, j) /\ i \notin Below(I, i)
  BY DEF Below
<1>5. /\ Cardinality(Below(I, i)) <= Cardinality(Below(I, j))
      /\ Cardinality(Below(I, j)) = Cardinality(Below(I, i))
           => Below(I, j) = Below(I, i)
  BY <1>1, <1>3, FS_Subset
<1> QED
  BY <1>2, <1>4, <1>5

\* Every rank is some member's.
LEMMA RankOnto ==
  ASSUME NEW I \in SUBSET Int, IsFiniteSet(I), NEW k \in 1 .. Cardinality(I)
  PROVE  \E i \in I : Cardinality(Below(I, i)) = k - 1
<1> DEFINE n == Cardinality(I)
           rank == [i \in I |-> Cardinality(Below(I, i))]
<1>1. n \in Nat
  BY FS_CardinalityType
<1>2. rank \in [I -> 0 .. n - 1]
  BY Rank
<1>3. \A i, j \in I : rank[i] = rank[j] => i = j
  <2> SUFFICES ASSUME NEW i \in I, NEW j \in I, i # j
               PROVE  rank[i] # rank[j]
    OBVIOUS
  <2>0. rank[i] \in Int /\ rank[j] \in Int
    BY <1>2
  <2>1. CASE i < j
    BY <2>0, <2>1, RankGrows
  <2>2. CASE j < i
    BY <2>0, <2>2, RankGrows
  <2> QED
    BY <2>1, <2>2
<1>4. rank \in Injection(I, 0 .. n - 1)
  BY <1>2, <1>3, Fun_IsInj
<1>5. /\ IsFiniteSet(0 .. n - 1)
      /\ Cardinality(0 .. n - 1) = IF 0 > n - 1 THEN 0 ELSE n - 1 - 0 + 1
  <2>1. 0 \in Int /\ n - 1 \in Int
    BY <1>1
  <2>2. \A a, b \in Int : /\ IsFiniteSet(a .. b)
                          /\ Cardinality(a .. b) =
                               IF a > b THEN 0 ELSE b - a + 1
    BY FS_Interval
  <2> HIDE DEF n
  <2> QED
    BY <2>1, <2>2
<1>6. Cardinality(0 .. n - 1) = n
  BY <1>1, <1>5
<1>7. rank \in Surjection(I, 0 .. n - 1)
  BY <1>4, <1>5, <1>6, FS_Injection
<1>8. \A r \in 0 .. n - 1 : \E i \in I : rank[i] = r
  <2> HIDE DEF rank, n
  <2> QED
    BY <1>7 DEF Surjection
<1>9. k - 1 \in 0 .. n - 1
  BY <1>1
<1> QED
  BY <1>8, <1>9

\* Nth lists the members in order.
LEMMA NthIs ==
  ASSUME NEW I \in SUBSET Int, IsFiniteSet(I), NEW k \in 1 .. Cardinality(I)
  PROVE  Nth(I, k) \in I /\ Cardinality(Below(I, Nth(I, k))) = k - 1
BY RankOnto DEF Nth, Below

LEMMA NthGrows ==
  ASSUME NEW I \in SUBSET Int, IsFiniteSet(I),
         NEW k \in 1 .. Cardinality(I), NEW l \in 1 .. Cardinality(I), k < l
  PROVE  Nth(I, k) < Nth(I, l)
<1>0. Cardinality(I) \in Nat
  BY FS_CardinalityType
<1>1. /\ Nth(I, k) \in I /\ Nth(I, l) \in I
      /\ Cardinality(Below(I, Nth(I, k))) = k - 1
      /\ Cardinality(Below(I, Nth(I, l))) = l - 1
  BY NthIs
<1>2. CASE Nth(I, l) < Nth(I, k)
  <2>1. Cardinality(Below(I, Nth(I, l))) < Cardinality(Below(I, Nth(I, k)))
    BY <1>1, <1>2, RankGrows
  <2> QED
    BY <1>0, <1>1, <2>1
<1>3. Nth(I, l) # Nth(I, k)
  BY <1>0, <1>1
<1>4. Nth(I, k) \in Int /\ Nth(I, l) \in Int
  BY <1>1
<1> QED
  BY <1>2, <1>3, <1>4

LEMMA NthOnto ==
  ASSUME NEW I \in SUBSET Int, IsFiniteSet(I), NEW i \in I
  PROVE  \E k \in 1 .. Cardinality(I) : Nth(I, k) = i
<1> DEFINE k == Cardinality(Below(I, i)) + 1
<1>0. Cardinality(I) \in Nat
  BY FS_CardinalityType
<1>1. Cardinality(Below(I, i)) \in 0 .. Cardinality(I) - 1
  BY Rank
<1>2. k \in 1 .. Cardinality(I) /\ k - 1 = Cardinality(Below(I, i))
  BY <1>0, <1>1
<1>3. /\ Nth(I, k) \in I
      /\ Cardinality(Below(I, Nth(I, k))) = Cardinality(Below(I, i))
  BY <1>2, NthIs
<1>4. ~(Nth(I, k) < i) /\ ~(i < Nth(I, k))
  <2>1. ~(Cardinality(Below(I, i)) < Cardinality(Below(I, i)))
    BY <1>1
  <2> HIDE DEF k
  <2> QED
    BY <1>3, <2>1, RankGrows
<1>5. Nth(I, k) \in Int /\ i \in Int
  BY <1>3
<1>6. Nth(I, k) = i
  BY <1>4, <1>5
<1> QED
  BY <1>2, <1>6

\* A set of positions that is not empty has a first and a last one.
LEMMA FirstAndLast ==
  ASSUME NEW I \in SUBSET Int, IsFiniteSet(I), I # {}
  PROVE  /\ \E i \in I : \A j \in I : i <= j
         /\ \E i \in I : \A j \in I : j <= i
<1> DEFINE n == Cardinality(I)
<1>1. n \in Nat /\ n # 0
  BY FS_CardinalityType, FS_EmptySet
<1>2. 1 \in 1 .. n /\ n \in 1 .. n
  BY <1>1
<1>3. Nth(I, 1) \in I /\ Nth(I, n) \in I
  BY <1>2, NthIs
<1>4. ASSUME NEW j \in I PROVE Nth(I, 1) <= j /\ j <= Nth(I, n)
  <2>1. PICK k \in 1 .. n : Nth(I, k) = j
    BY NthOnto
  <2>2. k = 1 \/ Nth(I, 1) < Nth(I, k)
    BY <1>1, <1>2, NthGrows
  <2>3. k = n \/ Nth(I, k) < Nth(I, n)
    BY <1>1, <1>2, NthGrows
  <2>4. Nth(I, 1) \in Int /\ Nth(I, n) \in Int /\ j \in Int
    BY <1>3
  <2> QED
    BY <2>1, <2>2, <2>3, <2>4
<1> QED
  BY <1>3, <1>4

\* Nth counts through an interval one by one.
LEMMA NthOfInterval ==
  ASSUME NEW m \in Nat, NEW n \in Nat
  PROVE  /\ IsFiniteSet(m + 1 .. m + n) /\ Cardinality(m + 1 .. m + n) = n
         /\ \A k \in 1 .. n : Nth(m + 1 .. m + n, k) = m + k
<1> DEFINE I == m + 1 .. m + n
<1>0. \A a, b \in Int : /\ IsFiniteSet(a .. b)
                        /\ Cardinality(a .. b) = IF a > b THEN 0 ELSE b - a + 1
  BY FS_Interval
<1>1. IsFiniteSet(I) /\ Cardinality(I) = n
  <2>1. m + 1 \in Int /\ m + n \in Int
    OBVIOUS
  <2> QED
    BY <1>0, <2>1
<1>2. ASSUME NEW i \in I PROVE Cardinality(Below(I, i)) = i - m - 1
  <2>1. Below(I, i) = m + 1 .. i - 1
    BY DEF Below
  <2>2. m + 1 \in Int /\ i - 1 \in Int /\ ~(m + 1 > i)
    OBVIOUS
  <2>3. Cardinality(m + 1 .. i - 1)
          = IF m + 1 > i - 1 THEN 0 ELSE i - 1 - (m + 1) + 1
    BY <1>0, <2>2
  <2> QED
    BY <2>1, <2>2, <2>3
<1>3. I \in SUBSET Int
  OBVIOUS
<1>4. ASSUME NEW k \in 1 .. n PROVE Nth(I, k) = m + k
  <2>1. Nth(I, k) \in I /\ Cardinality(Below(I, Nth(I, k))) = k - 1
    <3> HIDE DEF I
    <3> QED
      BY <1>1, <1>3, NthIs
  <2>2. Cardinality(Below(I, Nth(I, k))) = Nth(I, k) - m - 1
    BY <1>2, <2>1
  <2>3. Nth(I, k) \in Int
    BY <2>1
  <2> HIDE DEF I
  <2> QED
    BY <2>1, <2>2, <2>3
<1> QED
  BY <1>1, <1>4

\* Keeping takes the elements at these positions and no other.
LEMMA KeepingIs ==
  ASSUME NEW S, NEW seq \in Seq(S), NEW I \in SUBSET (DOMAIN seq)
  PROVE  /\ Cardinality(I) \in Nat
         /\ Keeping(seq, I) \in Seq(S)
         /\ Len(Keeping(seq, I)) = Cardinality(I)
         /\ DOMAIN Keeping(seq, I) = 1 .. Cardinality(I)
         /\ \A k \in 1 .. Cardinality(I) :
              Nth(I, k) \in I /\ Keeping(seq, I)[k] = seq[Nth(I, k)]
         /\ \A k, l \in 1 .. Cardinality(I) : Nth(I, k) = Nth(I, l) => k = l
         /\ \A i \in I : \E k \in 1 .. Cardinality(I) : Nth(I, k) = i
<1> DEFINE n == Cardinality(I)
<1>1. I \in SUBSET Int
  OBVIOUS
<1>2. IsFiniteSet(I)
  <2>1. DOMAIN seq = 1 .. Len(seq) /\ Len(seq) \in Int
    OBVIOUS
  <2>2. IsFiniteSet(1 .. Len(seq))
    BY <2>1, FS_Interval
  <2> QED
    BY <2>1, <2>2, FS_Subset
<1>3. n \in Nat
  BY <1>2, FS_CardinalityType
<1>4. \A k \in 1 .. n : Nth(I, k) \in I
  BY <1>1, <1>2, NthIs
<1>5. \A k \in 1 .. n : seq[Nth(I, k)] \in S
  BY <1>4
<1>6. ASSUME NEW k \in 1 .. n, NEW l \in 1 .. n, k # l
      PROVE  Nth(I, k) # Nth(I, l)
  <2>1. Nth(I, k) \in Int /\ Nth(I, l) \in Int
    BY <1>4
  <2>2. CASE k < l
    <3>1. Nth(I, k) < Nth(I, l)
      BY <1>1, <1>2, <2>2, NthGrows
    <3> QED
      BY <2>1, <3>1
  <2>3. CASE l < k
    <3>1. Nth(I, l) < Nth(I, k)
      BY <1>1, <1>2, <2>3, NthGrows
    <3> QED
      BY <2>1, <3>1
  <2> HIDE DEF n
  <2>4. k \in Int /\ l \in Int
    BY <1>3
  <2> QED
    BY <1>6, <2>2, <2>3, <2>4
<1>u. \A k, l \in 1 .. n : Nth(I, k) = Nth(I, l) => k = l
  BY <1>6
<1>7. \A i \in I : \E k \in 1 .. n : Nth(I, k) = i
  BY <1>1, <1>2, NthOnto
<1>8. Keeping(seq, I) = [k \in 1 .. n |-> seq[Nth(I, k)]]
  BY DEF Keeping
<1>9. Keeping(seq, I) \in Seq(S) /\ Len(Keeping(seq, I)) = n
  <2> HIDE DEF n
  <2>1. Keeping(seq, I) \in [1 .. n -> S]
    BY <1>5, <1>8
  <2> QED
    BY <1>3, <1>8, <2>1
<1> HIDE DEF n
<1>10. DOMAIN Keeping(seq, I) = 1 .. n
  BY <1>8
<1>11. \A k \in 1 .. n : Keeping(seq, I)[k] = seq[Nth(I, k)]
  BY <1>8
<1> QED
  BY <1>3, <1>4, <1>u, <1>7, <1>9, <1>10, <1>11 DEF n

-----------------------------------------------------------------------------
(* The list of sources is cut.                                             *)

Section == [heading : Headings \cup {Notes}, from : Nat]

LEMMA AddedIsSection ==
  /\ \A h \in Headings \cup {Notes} : Added(h) \in Section
  /\ \A h : Added(h).heading = h
BY DEF Added, Section

\* The cut is at the first list of sources.
LEMMA CutAt ==
  ASSUME NEW sections \in Seq(Section), NEW n \in 1 .. Len(sections),
         sections[n].heading = Sources,
         \A j \in 1 .. n - 1 : sections[j].heading # Sources
  PROVE  CutSources(sections) = SubSeq(sections, 1, n - 1)
<1> DEFINE First(i) == /\ sections[i].heading = Sources
                       /\ \A j \in 1 .. i - 1 : sections[j].heading # Sources
<1>1. n \in DOMAIN sections /\ First(n)
  OBVIOUS
<1>2. \A i \in DOMAIN sections : First(i) => i = n
  OBVIOUS
<1>3. (CHOOSE i \in DOMAIN sections : First(i)) = n
  <2> HIDE DEF First
  <2> QED
    BY <1>1, <1>2
<1>4. Has(sections, Sources)
  BY <1>1 DEF Has
<1> QED
  BY <1>3, <1>4 DEF CutSources

LEMMA CutFacts ==
  ASSUME NEW sections \in Seq(Section)
  PROVE  LET body == CutSources(sections)
         IN /\ body \in Seq(Section) /\ Len(body) <= Len(sections)
            /\ \A i \in 1 .. Len(body) : body[i] = sections[i]
            /\ ~Has(body, Sources)
            /\ ~Has(sections, Sources) => body = sections
            /\ Has(sections, Sources) =>
                 /\ Len(body) < Len(sections)
                 /\ sections[Len(body) + 1].heading = Sources
<1>1. CASE ~Has(sections, Sources)
  <2>1. CutSources(sections) = sections
    BY <1>1 DEF CutSources
  <2> QED
    BY <1>1, <2>1
<1>2. CASE Has(sections, Sources)
  <2> DEFINE I == {i \in DOMAIN sections : sections[i].heading = Sources}
  <2>1. I # {}
    BY <1>2 DEF Has
  <2>2. I \in SUBSET Int /\ IsFiniteSet(I)
    <3>1. DOMAIN sections = 1 .. Len(sections) /\ Len(sections) \in Int
      OBVIOUS
    <3>2. IsFiniteSet(1 .. Len(sections))
      BY <3>1, FS_Interval
    <3>3. I \in SUBSET (1 .. Len(sections))
      BY <3>1
    <3>4. \A i \in 1 .. Len(sections) : i \in Int
      BY <3>1
    <3> HIDE DEF I
    <3>5. IsFiniteSet(I)
      BY <3>2, <3>3, FS_Subset
    <3> QED
      BY <3>3, <3>4, <3>5
  <2>3. PICK n \in I : \A j \in I : n <= j
    <3> HIDE DEF I
    <3> QED
      BY <2>1, <2>2, FirstAndLast
  <2>4. n \in 1 .. Len(sections) /\ sections[n].heading = Sources
    BY <2>3
  <2>5. \A j \in 1 .. n - 1 : sections[j].heading # Sources
    BY <2>3, <2>4
  <2>6. CutSources(sections) = SubSeq(sections, 1, n - 1)
    BY <2>4, <2>5, CutAt
  <2>7. /\ SubSeq(sections, 1, n - 1) \in Seq(Section)
        /\ Len(SubSeq(sections, 1, n - 1)) = n - 1
        /\ \A i \in 1 .. n - 1 : SubSeq(sections, 1, n - 1)[i] = sections[i]
    BY <2>4
  <2>8. ~Has(SubSeq(sections, 1, n - 1), Sources)
    <3>1. DOMAIN SubSeq(sections, 1, n - 1) = 1 .. n - 1
      BY <2>4, <2>7
    <3> QED
      BY <2>5, <2>7, <3>1 DEF Has
  <2> QED
    BY <1>2, <2>4, <2>6, <2>7, <2>8
<1> QED
  BY <1>1, <1>2

\* What is written behind the sources is cut with them.
LEMMA CutBehind ==
  ASSUME NEW sections \in Seq(Section), NEW x \in Section,
         Has(sections, Sources)
  PROVE  CutSources(Append(sections, x)) = CutSources(sections)
<1> DEFINE body == CutSources(sections)
           n == Len(body) + 1
           longer == Append(sections, x)
<1>1. /\ body \in Seq(Section) /\ Len(body) < Len(sections)
      /\ \A i \in 1 .. Len(body) : body[i] = sections[i]
      /\ ~Has(body, Sources) /\ sections[n].heading = Sources
  BY CutFacts
<1>2. n \in 1 .. Len(sections)
  BY <1>1
<1>3. \A j \in 1 .. n - 1 : sections[j].heading # Sources
  BY <1>1 DEF Has
<1>4. /\ longer \in Seq(Section) /\ n \in 1 .. Len(longer)
      /\ \A i \in 1 .. Len(sections) : longer[i] = sections[i]
  BY <1>2
<1>5. /\ longer[n].heading = Sources
      /\ \A j \in 1 .. n - 1 : longer[j].heading # Sources
  BY <1>1, <1>2, <1>3, <1>4
<1> HIDE DEF body, longer
<1>6. CutSources(longer) = SubSeq(longer, 1, n - 1)
  <2> HIDE DEF n
  <2> QED
    BY <1>4, <1>5, CutAt
<1>7. SubSeq(longer, 1, n - 1) = body
  BY <1>1, <1>2, <1>4
<1> QED
  BY <1>6, <1>7 DEF body, longer

\* The program's own list of sources is cut off, and no more.
LEMMA CutLedger ==
  ASSUME NEW body \in Seq(Section), ~Has(body, Sources)
  PROVE  /\ Append(body, Added(Sources)) \in Seq(Section)
         /\ CutSources(Append(body, Added(Sources))) = body
<1> DEFINE longer == Append(body, Added(Sources))
           n == Len(longer)
<1>1. Added(Sources) \in Section /\ Added(Sources).heading = Sources
  BY AddedIsSection DEF Headings
<1>2. /\ longer \in Seq(Section) /\ n = Len(body) + 1
      /\ longer[n] = Added(Sources)
      /\ \A i \in 1 .. n - 1 : longer[i] = body[i]
  BY <1>1
<1>3. \A j \in 1 .. n - 1 : longer[j].heading # Sources
  BY <1>2 DEF Has
<1>4. n \in 1 .. Len(longer) /\ longer[n].heading = Sources
  BY <1>1, <1>2
<1> HIDE DEF longer
<1>5. CutSources(longer) = SubSeq(longer, 1, n - 1)
  <2> HIDE DEF n
  <2> QED
    BY <1>2, <1>3, <1>4, CutAt
<1>6. SubSeq(longer, 1, n - 1) = body
  BY <1>2, <1>4
<1> QED
  BY <1>2, <1>5, <1>6 DEF longer

-----------------------------------------------------------------------------
(* Sections are put in order.                                              *)

Once(list) == \A i, j \in DOMAIN list : list[i] = list[j] => i = j
Distinct(sections) ==
  \A i, j \in DOMAIN sections :
    sections[i].heading = sections[j].heading => i = j

LEMMA LastWithIs ==
  ASSUME NEW sections \in Seq(Section), NEW h, Has(sections, h)
  PROVE  LET last == LastWith(sections, h)
         IN /\ last \in DOMAIN sections /\ sections[last].heading = h
            /\ \A j \in DOMAIN sections : sections[j].heading = h => j <= last
<1> DEFINE I == {i \in DOMAIN sections : sections[i].heading = h}
<1>1. I # {}
  BY DEF Has
<1>2. IsFiniteSet(I) /\ I \in SUBSET Int
  <2>1. DOMAIN sections = 1 .. Len(sections) /\ Len(sections) \in Int
    OBVIOUS
  <2>2. IsFiniteSet(1 .. Len(sections))
    BY <2>1, FS_Interval
  <2>3. I \in SUBSET (1 .. Len(sections))
    BY <2>1
  <2>4. \A i \in 1 .. Len(sections) : i \in Int
    BY <2>1
  <2> HIDE DEF I
  <2>5. IsFiniteSet(I)
    BY <2>2, <2>3, FS_Subset
  <2> QED
    BY <2>3, <2>4, <2>5
<1>3. \E i \in I : \A j \in I : j <= i
  <2> HIDE DEF I
  <2> QED
    BY <1>1, <1>2, FirstAndLast
<1>4. \E i \in DOMAIN sections :
         /\ sections[i].heading = h
         /\ \A j \in DOMAIN sections : sections[j].heading = h => j <= i
  BY <1>3
<1> QED
  BY <1>4 DEF LastWith

LEMMA LastWithOnly ==
  ASSUME NEW sections \in Seq(Section), Distinct(sections),
         NEW i \in DOMAIN sections
  PROVE  LastWith(sections, sections[i].heading) = i
<1>1. Has(sections, sections[i].heading)
  BY DEF Has
<1> QED
  BY <1>1, LastWithIs DEF Distinct

\* What Listed returns.
IsListed(chosen, list, sections) ==
  /\ chosen \in Seq(Section) /\ Distinct(chosen)
  /\ \A k \in DOMAIN chosen :
       /\ chosen[k].heading \in ToSet(list)
       /\ Has(sections, chosen[k].heading)
       /\ chosen[k] = sections[LastWith(sections, chosen[k].heading)]
  /\ \A h \in ToSet(list) : Has(sections, h) => Has(chosen, h)

LEMMA ListedIs ==
  ASSUME NEW H, NEW list \in Seq(H), Once(list), NEW sections \in Seq(Section)
  PROVE  IsListed(Listed(list, sections), list, sections)
<1> DEFINE I == {k \in DOMAIN list : Has(sections, list[k])}
           found == Keeping(list, I)
           n == Cardinality(I)
           chosen == Listed(list, sections)
<1>0. I \in SUBSET (DOMAIN list)
  OBVIOUS
<1>1. /\ n \in Nat /\ DOMAIN found = 1 .. n
      /\ \A k \in 1 .. n : Nth(I, k) \in I /\ found[k] = list[Nth(I, k)]
      /\ \A k, l \in 1 .. n : Nth(I, k) = Nth(I, l) => k = l
      /\ \A i \in I : \E k \in 1 .. n : Nth(I, k) = i
  <2> HIDE DEF I
  <2>1. /\ n \in Nat /\ Len(found) = n /\ DOMAIN found = 1 .. n
        /\ \A k \in 1 .. n : Nth(I, k) \in I /\ found[k] = list[Nth(I, k)]
    BY <1>0, KeepingIs
  <2>2. /\ \A k, l \in 1 .. n : Nth(I, k) = Nth(I, l) => k = l
        /\ \A i \in I : \E k \in 1 .. n : Nth(I, k) = i
    BY <1>0, KeepingIs
  <2> QED
    BY <2>1, <2>2
<1>i. \A i \in I : Has(sections, list[i]) /\ list[i] \in ToSet(list)
  BY DEF ToSet
<1>2. \A k \in 1 .. n : Has(sections, found[k]) /\ found[k] \in ToSet(list)
  <2> HIDE DEF I, found
  <2> QED
    BY <1>1, <1>i
<1>3. chosen = [k \in 1 .. n |-> sections[LastWith(sections, found[k])]]
  <2>1. chosen = [k \in DOMAIN found |-> sections[LastWith(sections, found[k])]]
    BY DEF Listed
  <2> HIDE DEF I, found, chosen
  <2> QED
    BY <1>1, <2>1
<1> HIDE DEF found, n, chosen
<1>4. \A k \in 1 .. n : /\ chosen[k] = sections[LastWith(sections, found[k])]
                        /\ chosen[k].heading = found[k]
                        /\ chosen[k] \in Section
  BY <1>2, <1>3, LastWithIs
<1>5. chosen \in Seq(Section) /\ DOMAIN chosen = 1 .. n
  <2>1. chosen \in [1 .. n -> Section]
    BY <1>3, <1>4
  <2> QED
    BY <1>1, <2>1
<1>6. Distinct(chosen)
  <2> SUFFICES ASSUME NEW k \in 1 .. n, NEW l \in 1 .. n, found[k] = found[l]
               PROVE  k = l
    BY <1>4, <1>5 DEF Distinct
  <2>1. list[Nth(I, k)] = list[Nth(I, l)]
    BY <1>1
  <2>2. Nth(I, k) \in DOMAIN list /\ Nth(I, l) \in DOMAIN list
    BY <1>0, <1>1
  <2>3. Nth(I, k) = Nth(I, l)
    BY <2>1, <2>2 DEF Once
  <2> QED
    BY <1>1, <2>3
<1>7. ASSUME NEW h \in ToSet(list), Has(sections, h) PROVE Has(chosen, h)
  <2>1. PICK i \in DOMAIN list : list[i] = h
    BY DEF ToSet
  <2>2. i \in I
    BY <1>7, <2>1
  <2>3. PICK k \in 1 .. n : Nth(I, k) = i
    BY <1>1, <2>2
  <2> QED
    BY <1>1, <1>4, <1>5, <2>1, <2>3 DEF Has
<1> QED
  BY <1>2, <1>4, <1>5, <1>6, <1>7 DEF chosen, IsListed

LEMMA ListedSame ==
  ASSUME NEW H, NEW list \in Seq(H),
         NEW a \in Seq(Section), NEW b \in Seq(Section),
         \A h \in ToSet(list) : Has(a, h) <=> Has(b, h),
         \A h \in ToSet(list) : Has(a, h) =>
           a[LastWith(a, h)] = b[LastWith(b, h)]
  PROVE  Listed(list, a) = Listed(list, b)
<1> DEFINE I(x) == {k \in DOMAIN list : Has(x, list[k])}
           found == Keeping(list, I(a))
<1>1. I(a) = I(b)
  BY DEF ToSet
<1>2. \A k \in DOMAIN found : found[k] \in ToSet(list) /\ Has(a, found[k])
  <2>1. I(a) \in SUBSET (DOMAIN list)
    OBVIOUS
  <2>2. ASSUME NEW k \in DOMAIN found PROVE \E i \in I(a) : found[k] = list[i]
    <3> HIDE DEF I
    <3> QED
      BY <2>1, KeepingIs
  <2> QED
    BY <2>2 DEF ToSet
<1>3. /\ Listed(list, a) =
           [k \in DOMAIN found |-> a[LastWith(a, found[k])]]
      /\ Listed(list, b) =
           [k \in DOMAIN found |-> b[LastWith(b, found[k])]]
  <2>1. Listed(list, a) = [k \in DOMAIN found |-> a[LastWith(a, found[k])]]
    BY DEF Listed
  <2>2. Listed(list, b) = [k \in DOMAIN Keeping(list, I(b)) |->
                             b[LastWith(b, Keeping(list, I(b))[k])]]
    BY DEF Listed
  <2> HIDE DEF I
  <2> QED
    BY <1>1, <2>1, <2>2
<1> HIDE DEF found
<1> QED
  BY <1>2, <1>3

\* What Unlisted returns.
IsUnlisted(others, lists, sections) ==
  /\ others \in Seq(Section) /\ Distinct(others)
  /\ \A k \in DOMAIN others :
       /\ others[k].heading \notin lists
       /\ \E j \in DOMAIN sections : others[k] = sections[j]
  /\ \A j \in DOMAIN sections : sections[j].heading \notin lists =>
       Has(others, sections[j].heading)

LEMMA UnlistedIs ==
  ASSUME NEW lists, NEW sections \in Seq(Section)
  PROVE  IsUnlisted(Unlisted(lists, sections), lists, sections)
<1> DEFINE I == NewOnes(lists, sections)
           n == Cardinality(I)
           others == Unlisted(lists, sections)
<1>0. I \in SUBSET (DOMAIN sections)
  BY DEF NewOnes
<1>1. /\ n \in Nat /\ others \in Seq(Section) /\ DOMAIN others = 1 .. n
      /\ \A k \in 1 .. n : Nth(I, k) \in I /\ others[k] = sections[Nth(I, k)]
      /\ \A k, l \in 1 .. n : Nth(I, k) = Nth(I, l) => k = l
      /\ \A i \in I : \E k \in 1 .. n : Nth(I, k) = i
  <2> HIDE DEF I
  <2> QED
    BY <1>0, KeepingIs DEF Unlisted, I
<1>2. \A i \in I : sections[i].heading \notin lists
  BY DEF NewOnes
<1>3. \A i, j \in I : sections[i].heading = sections[j].heading => i = j
  <2> SUFFICES ASSUME NEW i \in I, NEW j \in I, i # j
               PROVE  sections[i].heading # sections[j].heading
    OBVIOUS
  <2>1. i \in Int /\ j \in Int /\ i >= 1 /\ j >= 1
    BY <1>0
  <2>2. i \in 1 .. j - 1 \/ j \in 1 .. i - 1
    BY <2>1
  <2> QED
    BY <2>2 DEF NewOnes
<1>4. ASSUME NEW j \in DOMAIN sections, sections[j].heading \notin lists
      PROVE  \E i \in I : sections[i].heading = sections[j].heading
  <2> DEFINE J == {i \in DOMAIN sections :
                     sections[i].heading = sections[j].heading}
  <2>1. J # {}
    OBVIOUS
  <2>2. IsFiniteSet(J) /\ J \in SUBSET Int
    <3>1. DOMAIN sections = 1 .. Len(sections) /\ Len(sections) \in Int
      OBVIOUS
    <3>2. IsFiniteSet(1 .. Len(sections))
      BY <3>1, FS_Interval
    <3>3. J \in SUBSET (1 .. Len(sections))
      BY <3>1
    <3>4. \A i \in 1 .. Len(sections) : i \in Int
      BY <3>1
    <3> HIDE DEF J
    <3>5. IsFiniteSet(J)
      BY <3>2, <3>3, FS_Subset
    <3> QED
      BY <3>3, <3>4, <3>5
  <2>3. PICK i \in J : \A k \in J : i <= k
    <3> HIDE DEF J
    <3> QED
      BY <2>1, <2>2, FirstAndLast
  <2>4. i \in DOMAIN sections /\ sections[i].heading = sections[j].heading
    BY <2>3
  <2>5. \A k \in 1 .. i - 1 : sections[k].heading # sections[i].heading
    <3> SUFFICES ASSUME NEW k \in 1 .. i - 1 PROVE k \notin J
      BY <2>4
    <3> QED
      BY <2>3, <2>4
  <2>6. i \in I
    BY <1>4, <2>4, <2>5 DEF NewOnes
  <2> QED
    BY <2>4, <2>6
<1> HIDE DEF I, n, others
<1>5. Distinct(others)
  BY <1>1, <1>3 DEF Distinct
<1>6. \A j \in DOMAIN sections : sections[j].heading \notin lists =>
        Has(others, sections[j].heading)
  BY <1>1, <1>4 DEF Has
<1>7. \A k \in DOMAIN others :
        /\ others[k].heading \notin lists
        /\ \E j \in DOMAIN sections : others[k] = sections[j]
  BY <1>0, <1>1, <1>2
<1> QED
  BY <1>1, <1>5, <1>6, <1>7 DEF others, IsUnlisted

\* In a sequence without repeated headings where the headings of no list
\* stand together, Unlisted returns these sections as they stand.
LEMMA UnlistedAgain ==
  ASSUME NEW lists, NEW sections \in Seq(Section), Distinct(sections),
         NEW m \in Nat, NEW others \in Seq(Section),
         \A i \in DOMAIN sections :
           sections[i].heading \notin lists <=> i \in m + 1 .. m + Len(others),
         m + Len(others) <= Len(sections),
         \A k \in 1 .. Len(others) : sections[m + k] = others[k]
  PROVE  Unlisted(lists, sections) = others
<1> DEFINE n == Len(others)
           I == m + 1 .. m + n
<1>0. n \in Nat
  OBVIOUS
<1>1. NewOnes(lists, sections) = I
  <2>1. \A i \in DOMAIN sections : \A j \in 1 .. i - 1 :
          sections[j].heading # sections[i].heading
    BY DEF Distinct
  <2>2. \A i \in I : i \in DOMAIN sections
    OBVIOUS
  <2> QED
    BY <2>1, <2>2 DEF NewOnes
<1>2. Cardinality(I) = n /\ \A k \in 1 .. n : Nth(I, k) = m + k
  <2> HIDE DEF n
  <2> QED
    BY <1>0, NthOfInterval
<1>3. Unlisted(lists, sections) = [k \in 1 .. n |-> sections[Nth(I, k)]]
  <2> HIDE DEF I, n
  <2> QED
    BY <1>1, <1>2 DEF Unlisted, Keeping
<1>4. Unlisted(lists, sections) = [k \in 1 .. n |-> others[k]]
  <2> HIDE DEF I, n
  <2>1. \A k \in 1 .. n : sections[Nth(I, k)] = others[k]
    BY <1>2 DEF n
  <2> QED
    BY <1>3, <2>1
<1> QED
  BY <1>4

\* Three sequences end to end.
IsInParts(whole, x, y, z) ==
  /\ Len(x) \in Nat /\ Len(y) \in Nat /\ Len(z) \in Nat
  /\ Len(whole) = Len(x) + Len(y) + Len(z)
  /\ DOMAIN x = 1 .. Len(x) /\ DOMAIN y = 1 .. Len(y) /\ DOMAIN z = 1 .. Len(z)
  /\ DOMAIN whole = 1 .. Len(x) + Len(y) + Len(z)
  /\ \A i \in 1 .. Len(x) : i \in DOMAIN whole /\ whole[i] = x[i]
  /\ \A i \in 1 .. Len(y) :
       Len(x) + i \in DOMAIN whole /\ whole[Len(x) + i] = y[i]
  /\ \A i \in 1 .. Len(z) : /\ Len(x) + Len(y) + i \in DOMAIN whole
                            /\ whole[Len(x) + Len(y) + i] = z[i]
  /\ \A i \in DOMAIN whole :
       \/ i \in 1 .. Len(x)
       \/ \E k \in 1 .. Len(y) : i = Len(x) + k
       \/ \E k \in 1 .. Len(z) : i = Len(x) + Len(y) + k

LEMMA ThreeParts ==
  ASSUME NEW S, NEW x \in Seq(S), NEW y \in Seq(S), NEW z \in Seq(S)
  PROVE  x \o y \o z \in Seq(S) /\ IsInParts(x \o y \o z, x, y, z)
<1> DEFINE a == Len(x)
           b == Len(y)
           c == Len(z)
           whole == x \o y \o z
<1>1. /\ a \in Nat /\ b \in Nat /\ c \in Nat
      /\ DOMAIN x = 1 .. a /\ DOMAIN y = 1 .. b /\ DOMAIN z = 1 .. c
  OBVIOUS
<1>2. /\ x \o y \in Seq(S) /\ Len(x \o y) = a + b
      /\ \A i \in 1 .. a : (x \o y)[i] = x[i]
      /\ \A i \in 1 .. b : (x \o y)[a + i] = y[i]
  OBVIOUS
<1>3. /\ whole \in Seq(S) /\ Len(whole) = a + b + c
      /\ DOMAIN whole = 1 .. a + b + c
      /\ \A i \in 1 .. a + b : whole[i] = (x \o y)[i]
      /\ \A i \in 1 .. c : whole[a + b + i] = z[i]
  BY <1>2
<1> HIDE DEF a, b, c, whole
<1>4. \A i \in 1 .. a : i \in 1 .. a + b /\ i \in DOMAIN whole
  BY <1>1, <1>3
<1>5. \A i \in 1 .. b : a + i \in 1 .. a + b /\ a + i \in DOMAIN whole
  BY <1>1, <1>3
<1>6. \A i \in 1 .. c : a + b + i \in DOMAIN whole
  BY <1>1, <1>3
<1>7. ASSUME NEW i \in 1 .. a + b + c, i \notin 1 .. a
      PROVE  \/ \E k \in 1 .. b : i = a + k
             \/ \E k \in 1 .. c : i = a + b + k
  <2>1. CASE i <= a + b
    <3>1. i - a \in 1 .. b /\ i = a + (i - a)
      BY <1>1, <1>7, <2>1
    <3> QED
      BY <3>1
  <2>2. CASE ~(i <= a + b)
    <3>1. i - a - b \in 1 .. c /\ i = a + b + (i - a - b)
      BY <1>1, <1>7, <2>2
    <3> QED
      BY <3>1
  <2> QED
    BY <2>1, <2>2
<1> QED
  BY <1>1, <1>2, <1>3, <1>4, <1>5, <1>6, <1>7 DEF a, b, c, whole, IsInParts

\* Lists that sections can be arranged by.
GoodLists(first, last) ==
  /\ first \in Seq(Headings) /\ Once(first)
  /\ last \in Seq(Headings) /\ Once(last)
  /\ ToSet(first) \cap ToSet(last) = {}

\* The parts an arranged sequence consists of.
LEMMA ArrangedParts ==
  ASSUME NEW first, NEW last, GoodLists(first, last),
         NEW sections \in Seq(Section)
  PROVE  LET lists == ToSet(first) \cup ToSet(last)
             whole == Arranged(first, last, sections)
         IN /\ IsListed(Listed(first, sections), first, sections)
            /\ IsUnlisted(Unlisted(lists, sections), lists, sections)
            /\ IsListed(Listed(last, sections), last, sections)
            /\ whole \in Seq(Section)
            /\ IsInParts(whole, Listed(first, sections),
                         Unlisted(lists, sections), Listed(last, sections))
<1> DEFINE lists == ToSet(first) \cup ToSet(last)
           x == Listed(first, sections)
           y == Unlisted(lists, sections)
           z == Listed(last, sections)
<1>1. IsListed(x, first, sections)
  BY ListedIs DEF GoodLists
<1>2. IsUnlisted(y, lists, sections)
  <2> HIDE DEF lists
  <2> QED
    BY UnlistedIs
<1>3. IsListed(z, last, sections)
  BY ListedIs DEF GoodLists
<1>4. Arranged(first, last, sections) = x \o y \o z
  BY DEF Arranged
<1> HIDE DEF x, y, z
<1>5. x \in Seq(Section) /\ y \in Seq(Section) /\ z \in Seq(Section)
  BY <1>1, <1>2, <1>3 DEF IsListed, IsUnlisted
<1>6. x \o y \o z \in Seq(Section) /\ IsInParts(x \o y \o z, x, y, z)
  BY <1>5, ThreeParts
<1> QED
  BY <1>1, <1>2, <1>3, <1>4, <1>6 DEF x, y, z

\* Arranging loses no heading, makes none up, and leaves no heading twice;
\* of a listed heading the last section is kept.
IsArranged(whole, lists, sections) ==
  /\ whole \in Seq(Section) /\ Distinct(whole)
  /\ \A h : Has(whole, h) <=> Has(sections, h)
  /\ \A i \in DOMAIN whole :
       \E j \in DOMAIN sections : whole[i] = sections[j]
  /\ \A i \in DOMAIN whole :
       whole[i].heading \in lists =>
         whole[i] = sections[LastWith(sections, whole[i].heading)]

LEMMA PartsArranged ==
  ASSUME NEW F, NEW L, F \cap L = {}, NEW sections \in Seq(Section),
         NEW first, NEW last, ToSet(first) = F, ToSet(last) = L,
         NEW x, IsListed(x, first, sections),
         NEW y, IsUnlisted(y, F \cup L, sections),
         NEW z, IsListed(z, last, sections),
         NEW whole \in Seq(Section), IsInParts(whole, x, y, z)
  PROVE  IsArranged(whole, F \cup L, sections)
<1> DEFINE a == Len(x)
           b == Len(y)
           c == Len(z)
<1>1. /\ a \in Nat /\ b \in Nat /\ c \in Nat
      /\ DOMAIN x = 1 .. a /\ DOMAIN y = 1 .. b /\ DOMAIN z = 1 .. c
      /\ \A i \in 1 .. a : i \in DOMAIN whole /\ whole[i] = x[i]
      /\ \A i \in 1 .. b : a + i \in DOMAIN whole /\ whole[a + i] = y[i]
      /\ \A i \in 1 .. c : /\ a + b + i \in DOMAIN whole
                           /\ whole[a + b + i] = z[i]
      /\ \A i \in DOMAIN whole : \/ i \in 1 .. a
                                 \/ \E k \in 1 .. b : i = a + k
                                 \/ \E k \in 1 .. c : i = a + b + k
  BY DEF IsInParts
<1>2. /\ Distinct(x)
      /\ \A k \in DOMAIN x :
           /\ x[k].heading \in F /\ Has(sections, x[k].heading)
           /\ x[k] = sections[LastWith(sections, x[k].heading)]
      /\ \A h \in F : Has(sections, h) => Has(x, h)
  BY DEF IsListed
<1>3. /\ Distinct(y)
      /\ \A k \in DOMAIN y : /\ y[k].heading \notin F \cup L
                             /\ \E j \in DOMAIN sections : y[k] = sections[j]
      /\ \A j \in DOMAIN sections : sections[j].heading \notin F \cup L =>
           Has(y, sections[j].heading)
  BY DEF IsUnlisted
<1>4. /\ Distinct(z)
      /\ \A k \in DOMAIN z :
           /\ z[k].heading \in L /\ Has(sections, z[k].heading)
           /\ z[k] = sections[LastWith(sections, z[k].heading)]
      /\ \A h \in L : Has(sections, h) => Has(z, h)
  BY DEF IsListed
<1> HIDE DEF a, b, c
<1>5. ASSUME NEW i \in DOMAIN whole
      PROVE  \/ /\ i \in 1 .. a /\ whole[i] = x[i]
                /\ whole[i].heading \in F
             \/ \E k \in 1 .. b : /\ i = a + k /\ whole[i] = y[k]
                                  /\ whole[i].heading \notin F \cup L
             \/ \E k \in 1 .. c : /\ i = a + b + k /\ whole[i] = z[k]
                                  /\ whole[i].heading \in L
  <2>1. CASE i \in 1 .. a
    BY <1>1, <1>2, <2>1
  <2>2. ASSUME NEW k \in 1 .. b, i = a + k
        PROVE  whole[i] = y[k] /\ whole[i].heading \notin F \cup L
    BY <1>1, <1>3, <2>2
  <2>3. ASSUME NEW k \in 1 .. c, i = a + b + k
        PROVE  whole[i] = z[k] /\ whole[i].heading \in L
    BY <1>1, <1>4, <2>3
  <2> QED
    BY <1>1, <2>1, <2>2, <2>3
<1>6. Distinct(whole)
  <2> SUFFICES ASSUME NEW i \in DOMAIN whole, NEW j \in DOMAIN whole,
                      whole[i].heading = whole[j].heading
               PROVE  i = j
    BY DEF Distinct
  <2>1. CASE whole[i].heading \in F
    <3>1. /\ i \in 1 .. a /\ whole[i] = x[i]
          /\ j \in 1 .. a /\ whole[j] = x[j]
      BY <1>5, <2>1
    <3> QED
      BY <1>1, <1>2, <3>1 DEF Distinct
  <2>2. CASE whole[i].heading \in L
    <3>1. PICK k \in 1 .. c : i = a + b + k /\ whole[i] = z[k]
      BY <1>5, <2>2
    <3>2. PICK l \in 1 .. c : j = a + b + l /\ whole[j] = z[l]
      BY <1>5, <2>2
    <3> QED
      BY <1>1, <1>4, <3>1, <3>2 DEF Distinct
  <2>3. CASE whole[i].heading \notin F \cup L
    <3>1. PICK k \in 1 .. b : i = a + k /\ whole[i] = y[k]
      BY <1>5, <2>3
    <3>2. PICK l \in 1 .. b : j = a + l /\ whole[j] = y[l]
      BY <1>5, <2>3
    <3> QED
      BY <1>1, <1>3, <3>1, <3>2 DEF Distinct
  <2> QED
    BY <2>1, <2>2, <2>3
<1>7. ASSUME NEW i \in DOMAIN whole
      PROVE  /\ \E j \in DOMAIN sections : whole[i] = sections[j]
             /\ whole[i].heading \in F \cup L =>
                  whole[i] = sections[LastWith(sections, whole[i].heading)]
  <2> DEFINE At(h) == LastWith(sections, h)
  <2>1. \A h : Has(sections, h) => At(h) \in DOMAIN sections
    BY LastWithIs
  <2> HIDE DEF At
  <2>2. \A k \in DOMAIN x : /\ Has(sections, x[k].heading)
                            /\ x[k] = sections[At(x[k].heading)]
    BY <1>2 DEF At
  <2>3. \A k \in DOMAIN z : /\ Has(sections, z[k].heading)
                            /\ z[k] = sections[At(z[k].heading)]
    BY <1>4 DEF At
  <2>4. CASE i \in 1 .. a /\ whole[i] = x[i]
    <3>1. i \in DOMAIN x
      BY <1>1, <2>4
    <3>2. /\ At(whole[i].heading) \in DOMAIN sections
          /\ whole[i] = sections[At(whole[i].heading)]
      BY <2>1, <2>2, <2>4, <3>1
    <3> QED
      BY <3>2 DEF At
  <2>5. CASE \E k \in 1 .. b :
               whole[i] = y[k] /\ whole[i].heading \notin F \cup L
    <3>1. PICK k \in DOMAIN y : whole[i] = y[k]
      BY <1>1, <2>5
    <3>2. \E j \in DOMAIN sections : y[k] = sections[j]
      BY <1>3
    <3> QED
      BY <2>5, <3>1, <3>2
  <2>6. CASE \E k \in 1 .. c : whole[i] = z[k]
    <3>1. PICK k \in DOMAIN z : whole[i] = z[k]
      BY <1>1, <2>6
    <3>2. /\ At(whole[i].heading) \in DOMAIN sections
          /\ whole[i] = sections[At(whole[i].heading)]
      BY <2>1, <2>3, <3>1
    <3> QED
      BY <3>2 DEF At
  <2> QED
    BY <1>5, <2>4, <2>5, <2>6
<1>8. ASSUME NEW h, Has(sections, h) PROVE Has(whole, h)
  <2>1. CASE h \in F
    <3>1. PICK k \in 1 .. a : x[k].heading = h
      BY <1>1, <1>2, <1>8, <2>1 DEF Has
    <3> QED
      BY <1>1, <3>1 DEF Has
  <2>2. CASE h \in L
    <3>1. PICK k \in 1 .. c : z[k].heading = h
      BY <1>1, <1>4, <1>8, <2>2 DEF Has
    <3> QED
      BY <1>1, <3>1 DEF Has
  <2>3. CASE h \notin F \cup L
    <3>1. PICK k \in 1 .. b : y[k].heading = h
      BY <1>1, <1>3, <1>8, <2>3 DEF Has
    <3> QED
      BY <1>1, <3>1 DEF Has
  <2> QED
    BY <2>1, <2>2, <2>3
<1>9. \A h : Has(whole, h) => Has(sections, h)
  BY <1>7 DEF Has
<1> QED
  BY <1>6, <1>7, <1>8, <1>9 DEF IsArranged

LEMMA ArrangedIs ==
  ASSUME NEW first, NEW last, GoodLists(first, last),
         NEW sections \in Seq(Section)
  PROVE  IsArranged(Arranged(first, last, sections),
                    ToSet(first) \cup ToSet(last), sections)
BY ArrangedParts, PartsArranged DEF GoodLists

\* Sections in order stay where they are.
LEMMA ArrangedAgain ==
  ASSUME NEW first, NEW last, GoodLists(first, last),
         NEW sections \in Seq(Section)
  PROVE  Arranged(first, last, Arranged(first, last, sections))
           = Arranged(first, last, sections)
<1> DEFINE whole == Arranged(first, last, sections)
           lists == ToSet(first) \cup ToSet(last)
           x == Listed(first, sections)
           y == Unlisted(lists, sections)
           z == Listed(last, sections)
<1>p. /\ IsListed(x, first, sections) /\ IsUnlisted(y, lists, sections)
      /\ IsListed(z, last, sections) /\ IsInParts(whole, x, y, z)
  BY ArrangedParts
<1>1. IsArranged(whole, lists, sections)
  BY ArrangedIs
<1>d. Arranged(first, last, whole) =
        Listed(first, whole) \o Unlisted(lists, whole) \o Listed(last, whole)
  BY DEF Arranged
<1>e. whole = x \o y \o z
  BY DEF Arranged
<1>s. /\ \A h \in ToSet(first) : h \in lists
      /\ \A h \in ToSet(last) : h \in lists
  OBVIOUS
<1> HIDE DEF whole, lists, y
<1>w. whole \in Seq(Section) /\ Distinct(whole)
  BY <1>1 DEF IsArranged
<1>2. ASSUME NEW h \in lists, Has(whole, h)
      PROVE  whole[LastWith(whole, h)] = sections[LastWith(sections, h)]
  <2>1. PICK i \in DOMAIN whole : whole[i].heading = h
    BY <1>2 DEF Has
  <2>2. LastWith(whole, h) = i
    BY <1>w, <2>1, LastWithOnly
  <2> QED
    BY <1>1, <2>1, <2>2 DEF IsArranged
<1>h. \A h : Has(whole, h) <=> Has(sections, h)
  BY <1>1 DEF IsArranged
<1>3. Listed(first, whole) = x
  BY <1>w, <1>2, <1>h, <1>s, ListedSame DEF GoodLists
<1>4. Listed(last, whole) = z
  BY <1>w, <1>2, <1>h, <1>s, ListedSame DEF GoodLists
<1>5. Unlisted(lists, whole) = y
  <2> HIDE DEF x, z
  <2> DEFINE m == Len(x)
             n == Len(y)
  <2>1. /\ m \in Nat /\ n \in Nat /\ Len(z) \in Nat
        /\ Len(whole) = m + n + Len(z)
        /\ DOMAIN x = 1 .. m /\ DOMAIN y = 1 .. n /\ DOMAIN z = 1 .. Len(z)
        /\ \A i \in 1 .. m : whole[i] = x[i]
        /\ \A i \in 1 .. n : whole[m + i] = y[i]
        /\ \A i \in 1 .. Len(z) : whole[m + n + i] = z[i]
        /\ \A i \in DOMAIN whole : \/ i \in 1 .. m
                                   \/ \E k \in 1 .. n : i = m + k
                                   \/ \E k \in 1 .. Len(z) : i = m + n + k
    BY <1>p DEF IsInParts
  <2>2. /\ \A i \in DOMAIN x : x[i].heading \in lists
        /\ \A i \in DOMAIN z : z[i].heading \in lists
        /\ \A i \in DOMAIN y : y[i].heading \notin lists
        /\ y \in Seq(Section)
    BY <1>p, <1>s DEF IsListed, IsUnlisted
  <2> HIDE DEF m, n
  <2>4. m + n <= Len(whole)
    BY <2>1
  <2>5. ASSUME NEW i \in DOMAIN whole
        PROVE  whole[i].heading \notin lists <=> i \in m + 1 .. m + n
    <3>1. CASE i \in 1 .. m
      BY <2>1, <2>2, <3>1
    <3>2. CASE \E k \in 1 .. n : i = m + k
      <4>1. PICK k \in 1 .. n : i = m + k
        BY <3>2
      <4>2. whole[i].heading \notin lists
        BY <2>1, <2>2, <4>1
      <4>3. i \in m + 1 .. m + n
        BY <2>1, <4>1
      <4> QED
        BY <4>2, <4>3
    <3>3. CASE \E k \in 1 .. Len(z) : i = m + n + k
      <4>1. PICK k \in 1 .. Len(z) : i = m + n + k
        BY <3>3
      <4>2. whole[i].heading \in lists
        BY <2>1, <2>2, <4>1
      <4>3. i \notin m + 1 .. m + n
        BY <2>1, <4>1
      <4> QED
        BY <4>2, <4>3
    <3> QED
      BY <2>1, <3>1, <3>2, <3>3
  <2> QED
    BY <1>w, <2>1, <2>2, <2>4, <2>5, UnlistedAgain DEF n
<1>6. Arranged(first, last, whole) = whole
  BY <1>3, <1>4, <1>5, <1>d, <1>e
<1> QED
  BY <1>6 DEF whole

-----------------------------------------------------------------------------
(* The formatter.                                                          *)

\* The texts finalize has put nothing into.
Texts == [ahead : BOOLEAN, sections : Seq(Section), traced : {{}}]

\* The report without its sources, and the sections ahead of the new ones.
Body(text, s) == InjectConfidence(CutSources(text.sections), s)
Empty(text, s) == Body(text, s) = <<>> /\ ~text.ahead
Kept(text, s) ==
  IF Empty(text, s) THEN <<Added(Summary)>> ELSE Reorder(Body(text, s), s)

LEMMA FormatIs ==
  ASSUME NEW text, NEW s
  PROVE  Format(text, s) = Text(text.ahead /\ Body(text, s) = <<>>,
                                Append(Kept(text, s), Added(Sources)))
BY DEF Format, Body, Kept, Empty

LEMMA TechnicalIs ==
  /\ Technical \in Seq(Headings) /\ DOMAIN Technical = {1, 2, 3}
  /\ Technical[1] = Method /\ Technical[2] = Confidence
  /\ Technical[3] = Agreement
  /\ Method # Confidence /\ Method # Agreement /\ Confidence # Agreement
  /\ {Method, Confidence, Agreement} \subseteq Headings
<1>1. Method # Confidence /\ Method # Agreement /\ Confidence # Agreement
  BY DEF Method, Confidence, Agreement
<1>2. /\ DOMAIN Technical = {1, 2, 3}
      /\ Technical[1] = Method /\ Technical[2] = Confidence
      /\ Technical[3] = Agreement
  BY DEF Technical
<1>3. {Method, Confidence, Agreement} \subseteq ToSet(Technical)
  BY <1>2 DEF ToSet
<1>4. {Method, Confidence, Agreement} \subseteq Headings
  BY <1>3 DEF Headings
<1>5. Technical \in Seq(Headings)
  BY <1>4 DEF Technical
<1> QED
  BY <1>1, <1>2, <1>4, <1>5

LEMMA OrderIs ==
  ASSUME NEW m \in Modes
  PROVE  /\ Order[m] \in Seq(Headings)
         /\ ToSet(Order[m]) \subseteq Headings
         /\ Sources \notin ToSet(Order[m])
         /\ \A i, j \in DOMAIN Order[m] : Order[m][i] = Order[m][j] => i = j
<1>1. Order[m] \in Seq(STRING)
  BY FormatAssumption
<1>2. ToSet(Order[m]) \subseteq Headings
  BY DEF Headings, Modes
<1>3. \A i \in DOMAIN Order[m] : Order[m][i] \in Headings
  BY <1>2 DEF ToSet
<1>4. Order[m] \in [1 .. Len(Order[m]) -> Headings] /\ Len(Order[m]) \in Nat
  BY <1>1, <1>3
<1>5. Order[m] \in Seq(Headings)
  BY <1>4
<1> QED
  BY <1>2, <1>5, FormatAssumption

\* The lists of headings are made for it.
LEMMA ListsAreGood ==
  ASSUME NEW s \in Styles
  PROVE  GoodLists(Order[s.mode], TechnicalLast(s))
<1>1. s.mode \in Modes
  BY DEF Styles
<1>2. Order[s.mode] \in Seq(Headings) /\ Once(Order[s.mode])
  BY <1>1, OrderIs DEF Once
<1>3. /\ Technical \in Seq(Headings) /\ Once(Technical)
      /\ <<>> \in Seq(Headings) /\ Once(<<>>) /\ ToSet(<<>>) = {}
  <2>1. Once(Technical)
    BY TechnicalIs DEF Once
  <2>2. <<>> \in Seq(Headings) /\ Once(<<>>) /\ ToSet(<<>>) = {}
    BY DEF Once, ToSet
  <2> QED
    BY <2>1, <2>2, TechnicalIs
<1>4. ToSet(Order["decision_brief"]) \cap ToSet(Technical) = {}
  BY FormatAssumption
<1> QED
  BY <1>2, <1>3, <1>4 DEF GoodLists, TechnicalLast

LEMMA BodyFacts ==
  ASSUME NEW text \in Texts, NEW s \in Styles
  PROVE  LET cut == CutSources(text.sections)
             body == Body(text, s)
         IN /\ cut \in Seq(Section) /\ body \in Seq(Section)
            /\ ~Has(body, Sources)
            /\ \A h : Has(cut, h) => Has(body, h)
            /\ s.confidence => Has(body, Confidence)
            /\ ~s.confidence => body = cut
            /\ \A j \in DOMAIN body :
                 \/ j \in DOMAIN cut /\ body[j] = cut[j]
                 \/ body[j] = Added(Confidence) /\ ~Has(cut, Confidence)
<1> DEFINE cut == CutSources(text.sections)
           body == Body(text, s)
<1>1. text.sections \in Seq(Section) /\ s.confidence \in BOOLEAN
  BY DEF Texts, Styles
<1>2. cut \in Seq(Section) /\ ~Has(cut, Sources)
  BY <1>1, CutFacts
<1>3. body = IF s.confidence /\ ~Has(cut, Confidence)
             THEN Append(cut, Added(Confidence)) ELSE cut
  BY DEF Body, InjectConfidence
<1>4. /\ Added(Confidence) \in Section /\ Added(Confidence).heading = Confidence
      /\ Confidence # Sources
  <2>1. Confidence # Sources
    BY DEF Confidence, Sources
  <2> QED
    BY <2>1, AddedIsSection, TechnicalIs
<1> HIDE DEF cut, body
<1>5. CASE s.confidence /\ ~Has(cut, Confidence)
  <2> DEFINE n == Len(cut) + 1
  <2>1. body = Append(cut, Added(Confidence))
    BY <1>3, <1>5
  <2>2. /\ body \in Seq(Section) /\ DOMAIN body = 1 .. n /\ n \in DOMAIN body
        /\ body[n] = Added(Confidence)
        /\ \A j \in DOMAIN cut : j \in DOMAIN body /\ body[j] = cut[j]
        /\ \A j \in DOMAIN body : j \in DOMAIN cut \/ j = n
    BY <1>2, <1>4, <2>1
  <2> HIDE DEF n
  <2>3. ~Has(body, Sources) /\ Has(body, Confidence)
    BY <1>2, <1>4, <2>2 DEF Has
  <2>4. \A h : Has(cut, h) => Has(body, h)
    BY <2>2 DEF Has
  <2> QED
    BY <1>2, <1>5, <2>2, <2>3, <2>4 DEF cut, body
<1>6. CASE ~(s.confidence /\ ~Has(cut, Confidence))
  <2>1. body = cut
    BY <1>3, <1>6
  <2> QED
    BY <1>1, <1>2, <1>6, <2>1 DEF cut, body
<1> QED
  BY <1>5, <1>6

\* A sequence with no section has no heading, and the other way round.
LEMMA HasNone ==
  ASSUME NEW sections \in Seq(Section)
  PROVE  sections = <<>> <=> \A h : ~Has(sections, h)
<1>1. ASSUME sections # <<>> PROVE \E h : Has(sections, h)
  <2>1. 1 \in DOMAIN sections
    BY <1>1
  <2> QED
    BY <2>1 DEF Has
<1>2. ASSUME sections = <<>> PROVE \A h : ~Has(sections, h)
  BY <1>2 DEF Has
<1> QED
  BY <1>1, <1>2

LEMMA KeptFacts ==
  ASSUME NEW text \in Texts, NEW s \in Styles
  PROVE  LET body == Body(text, s)
             kept == Kept(text, s)
         IN /\ kept \in Seq(Section) /\ ~Has(kept, Sources) /\ Distinct(kept)
            /\ Reorder(kept, s) = kept
            /\ Empty(text, s) => kept = <<Added(Summary)>>
            /\ ~Empty(text, s) =>
                 /\ kept = <<>> <=> body = <<>>
                 /\ \A h : Has(kept, h) <=> Has(body, h)
                 /\ \A i \in DOMAIN kept :
                      \E j \in DOMAIN body : kept[i] = body[j]
<1> DEFINE body == Body(text, s)
           kept == Kept(text, s)
           lists == ToSet(Order[s.mode]) \cup ToSet(TechnicalLast(s))
<1>1. body \in Seq(Section) /\ ~Has(body, Sources)
  BY BodyFacts
<1>2. GoodLists(Order[s.mode], TechnicalLast(s))
  BY ListsAreGood
<1>3. ASSUME NEW x \in Seq(Section)
      PROVE  /\ IsArranged(Reorder(x, s), lists, x)
             /\ Reorder(Reorder(x, s), s) = Reorder(x, s)
  BY <1>2, <1>3, ArrangedIs, ArrangedAgain DEF Reorder
<1> HIDE DEF body, kept, lists
<1>4. CASE ~Empty(text, s)
  <2>1. kept = Reorder(body, s)
    BY <1>4 DEF kept, Kept, body
  <2>2. IsArranged(kept, lists, body) /\ Reorder(kept, s) = kept
    BY <1>1, <1>3, <2>1
  <2>3. /\ kept \in Seq(Section) /\ Distinct(kept)
        /\ \A h : Has(kept, h) <=> Has(body, h)
        /\ \A i \in DOMAIN kept : \E j \in DOMAIN body : kept[i] = body[j]
    BY <2>2 DEF IsArranged
  <2>4. kept = <<>> <=> body = <<>>
    BY <1>1, <2>3, HasNone
  <2> QED
    BY <1>1, <1>4, <2>2, <2>3, <2>4 DEF kept, body
<1>5. CASE Empty(text, s)
  <2> DEFINE one == <<Added(Summary)>>
             again == Reorder(one, s)
  <2>1. kept = one
    BY <1>5 DEF kept, Kept
  <2>2. Added(Summary) \in Section /\ Added(Summary).heading = Summary
    BY AddedIsSection, FormatAssumption DEF Headings
  <2>3. /\ one \in Seq(Section) /\ DOMAIN one = {1} /\ one[1] = Added(Summary)
        /\ Summary # Sources
    <3>1. Summary # Sources
      BY DEF Summary, Sources
    <3> QED
      BY <2>2, <3>1
  <2> HIDE DEF one
  <2>4. /\ again \in Seq(Section) /\ Distinct(again)
        /\ \A h : Has(again, h) <=> Has(one, h)
        /\ \A i \in DOMAIN again : \E j \in DOMAIN one : again[i] = one[j]
    BY <1>3, <2>3 DEF IsArranged
  <2>5. Has(one, Summary) /\ ~Has(one, Sources) /\ Distinct(one)
    BY <2>2, <2>3 DEF Has, Distinct
  <2> HIDE DEF again
  <2>6. \A i \in DOMAIN again : again[i] = Added(Summary)
    BY <2>3, <2>4
  <2>7. DOMAIN again = {1}
    <3>1. \A i, j \in DOMAIN again : i = j
      BY <2>4, <2>6 DEF Distinct
    <3>2. DOMAIN again # {}
      BY <2>4, <2>5 DEF Has
    <3>3. DOMAIN again = 1 .. Len(again) /\ Len(again) \in Nat
      BY <2>4
    <3>4. 1 \in DOMAIN again
      BY <3>2, <3>3
    <3> QED
      BY <3>1, <3>4
  <2>8. again = one
    <3>1. Len(again) = 1 /\ Len(one) = 1
      BY <2>3, <2>4, <2>7
    <3> QED
      BY <2>3, <2>4, <2>6, <2>7, <3>1
  <2> QED
    BY <1>5, <2>1, <2>3, <2>5, <2>8 DEF kept, again
<1> QED
  BY <1>4, <1>5

\* A formatted report ends with the program's sources.
LEMMA FormatFacts ==
  ASSUME NEW text \in Texts, NEW s \in Styles
  PROVE  LET out == Format(text, s)
             kept == Kept(text, s)
         IN /\ out \in Texts
            /\ out.ahead = (text.ahead /\ Body(text, s) = <<>>)
            /\ out.sections = Append(kept, Added(Sources))
            /\ Len(out.sections) = Len(kept) + 1
            /\ DOMAIN out.sections = 1 .. Len(kept) + 1
            /\ \A i \in 1 .. Len(kept) : out.sections[i] = kept[i]
            /\ out.sections[Len(kept) + 1] = Added(Sources)
            /\ CutSources(out.sections) = kept
            /\ \A h : Has(out.sections, h) <=> h = Sources \/ Has(kept, h)
<1> DEFINE kept == Kept(text, s)
           ahead == text.ahead /\ Body(text, s) = <<>>
           sections == Append(kept, Added(Sources))
<1>1. Format(text, s) = [ahead |-> ahead, sections |-> sections, traced |-> {}]
  BY FormatIs DEF Text
<1>2. kept \in Seq(Section) /\ ~Has(kept, Sources)
  BY KeptFacts
<1>3. Added(Sources) \in Section /\ Added(Sources).heading = Sources
  BY AddedIsSection DEF Headings
<1>4. ahead \in BOOLEAN
  BY DEF Texts
<1> HIDE DEF kept, ahead
<1>5. sections \in Seq(Section) /\ CutSources(sections) = kept
  BY <1>2, CutLedger
<1>6. /\ Len(sections) = Len(kept) + 1
      /\ DOMAIN sections = 1 .. Len(kept) + 1
      /\ \A i \in 1 .. Len(kept) : sections[i] = kept[i]
      /\ sections[Len(kept) + 1] = Added(Sources)
      /\ Len(kept) \in Nat /\ DOMAIN kept = 1 .. Len(kept)
  BY <1>2, <1>3
<1> HIDE DEF sections
<1>7. \A h : Has(sections, h) <=> h = Sources \/ Has(kept, h)
  <2>1. \A i \in DOMAIN sections : i \in DOMAIN kept \/ i = Len(kept) + 1
    BY <1>6
  <2>2. \A i \in DOMAIN kept : i \in DOMAIN sections
    BY <1>6
  <2>3. Len(kept) + 1 \in DOMAIN sections
    BY <1>6
  <2> QED
    BY <1>3, <1>6, <2>1, <2>2, <2>3 DEF Has
<1>8. Format(text, s) \in Texts
  BY <1>1, <1>4, <1>5 DEF Texts
<1> QED
  BY <1>1, <1>5, <1>6, <1>7, <1>8 DEF kept, ahead, sections

\* Formatting what is formatted changes nothing, whatever the text.
THEOREM FormatTwice ==
  ASSUME NEW text \in Texts, NEW s \in Styles
  PROVE  Format(Format(text, s), s) = Format(text, s)
<1> DEFINE out == Format(text, s)
           kept == Kept(text, s)
           body == Body(text, s)
<1>1. /\ out \in Texts /\ out.ahead = (text.ahead /\ body = <<>>)
      /\ out.sections = Append(kept, Added(Sources))
      /\ CutSources(out.sections) = kept
  BY FormatFacts
<1>2. /\ kept \in Seq(Section) /\ Reorder(kept, s) = kept
      /\ Empty(text, s) => kept = <<Added(Summary)>>
      /\ ~Empty(text, s) => /\ kept = <<>> <=> body = <<>>
                            /\ \A h : Has(kept, h) <=> Has(body, h)
  BY KeptFacts
<1>3. s.confidence => Has(body, Confidence)
  BY BodyFacts
<1>4. text.ahead \in BOOLEAN /\ body \in Seq(Section)
  BY BodyFacts DEF Texts
<1>e. Empty(text, s) <=> body = <<>> /\ ~text.ahead
  BY DEF Empty
<1> HIDE DEF out, kept, body
<1>5. s.confidence => Has(kept, Confidence)
  <2>1. CASE Empty(text, s)
    <3>1. ~Has(body, Confidence)
      BY <1>4, <1>e, <2>1, HasNone
    <3> QED
      BY <1>3, <3>1
  <2>2. CASE ~Empty(text, s)
    BY <1>2, <1>3, <2>2
  <2> QED
    BY <2>1, <2>2
<1>6. Body(out, s) = kept
  BY <1>1, <1>5 DEF Body, InjectConfidence
<1>7. Empty(out, s) <=> kept = <<>> /\ ~out.ahead
  BY <1>6 DEF Empty
<1>8. <<Added(Summary)>> # <<>>
  OBVIOUS
<1>9. ~Empty(out, s)
  <2>1. CASE Empty(text, s)
    BY <1>2, <1>7, <1>8, <2>1
  <2>2. CASE ~Empty(text, s)
    BY <1>1, <1>2, <1>7, <1>e, <2>2
  <2> QED
    BY <2>1, <2>2
<1>10. Kept(out, s) = kept
  BY <1>2, <1>6, <1>9 DEF Kept
<1>11. (out.ahead /\ kept = <<>>) = out.ahead
  <2>1. CASE Empty(text, s)
    BY <1>1, <1>4, <1>e, <2>1
  <2>2. CASE ~Empty(text, s)
    BY <1>1, <1>2, <1>4, <2>2
  <2> QED
    BY <2>1, <2>2
<1>12. Format(out, s) = Text(out.ahead, out.sections)
  <2>1. Format(out, s) = Text(out.ahead /\ Body(out, s) = <<>>,
                              Append(Kept(out, s), Added(Sources)))
    BY FormatIs
  <2> QED
    BY <1>1, <1>6, <1>10, <1>11, <2>1
<1>13. Text(out.ahead, out.sections) = out
  BY <1>1 DEF Text, Texts
<1> QED
  BY <1>12, <1>13 DEF out

\* The list of sources is the last section and the only one of its heading.
EndsWithSources(sections) ==
  \A i \in DOMAIN sections :
    sections[i].heading = Sources <=> i = Len(sections)

LEMMA FormatEnds ==
  ASSUME NEW text \in Texts, NEW s \in Styles
  PROVE  /\ EndsWithSources(Format(text, s).sections)
         /\ Has(Format(text, s).sections, Sources)
<1> DEFINE kept == Kept(text, s)
           sections == Format(text, s).sections
<1>1. kept \in Seq(Section) /\ ~Has(kept, Sources)
  BY KeptFacts
<1>2. /\ Len(sections) = Len(kept) + 1
      /\ DOMAIN sections = 1 .. Len(kept) + 1
      /\ \A i \in 1 .. Len(kept) : sections[i] = kept[i]
      /\ sections[Len(kept) + 1] = Added(Sources)
      /\ \A h : Has(sections, h) <=> h = Sources \/ Has(kept, h)
  BY FormatFacts
<1>3. Added(Sources).heading = Sources
  BY AddedIsSection
<1> HIDE DEF kept, sections
<1>4. ASSUME NEW i \in 1 .. Len(kept) + 1
      PROVE  sections[i].heading = Sources <=> i = Len(kept) + 1
  <2>1. CASE i \in 1 .. Len(kept)
    <3>1. sections[i].heading # Sources
      BY <1>1, <1>2, <2>1 DEF Has
    <3> QED
      BY <1>1, <2>1, <3>1
  <2>2. CASE i = Len(kept) + 1
    BY <1>2, <1>3, <2>2
  <2> QED
    BY <1>1, <2>1, <2>2
<1> QED
  BY <1>2, <1>4 DEF EndsWithSources, sections

\* A note is written behind the sources and cut with them.
LEMMA NoteIsCut ==
  ASSUME NEW text \in Texts, Has(text.sections, Sources), NEW s \in Styles
  PROVE  Format(WithNote(text), s) = Format(text, s)
<1> DEFINE noted == WithNote(text)
<1>1. text.sections \in Seq(Section) /\ Added(Notes) \in Section
  BY AddedIsSection DEF Texts
<1>2. /\ noted.ahead = text.ahead
      /\ noted.sections = Append(text.sections, Added(Notes))
  BY DEF WithNote, Texts
<1>3. CutSources(noted.sections) = CutSources(text.sections)
  BY <1>1, <1>2, CutBehind
<1> HIDE DEF noted
<1>4. Body(noted, s) = Body(text, s)
  BY <1>3 DEF Body
<1>5. Kept(noted, s) = Kept(text, s)
  BY <1>2, <1>4 DEF Kept, Empty
<1> QED
  BY <1>2, <1>4, <1>5, FormatIs DEF noted

\* Formatting brings up no notes that the report ahead of its sources has not.
LEMMA NoNotesComeUp ==
  ASSUME NEW text \in Texts, NEW s \in Styles,
         ~Has(CutSources(text.sections), Notes)
  PROVE  ~Has(Format(text, s).sections, Notes)
<1>1. Notes # Sources /\ Notes # Summary /\ Notes # Confidence
  <2>1. Sources \in Headings
    BY DEF Headings
  <2>2. Summary \in Headings
    BY FormatAssumption DEF Headings
  <2>3. Confidence \in Headings
    BY TechnicalIs
  <2>4. Notes \notin Headings
    BY FormatAssumption
  <2> QED
    BY <2>1, <2>2, <2>3, <2>4
<1>2. ~Has(Body(text, s), Notes)
  <2> DEFINE body == Body(text, s)
             cut == CutSources(text.sections)
  <2>1. \A j \in DOMAIN body :
          \/ j \in DOMAIN cut /\ body[j] = cut[j]
          \/ body[j] = Added(Confidence) /\ ~Has(cut, Confidence)
    BY BodyFacts
  <2>2. Added(Confidence).heading = Confidence
    BY AddedIsSection
  <2> HIDE DEF body, cut
  <2>3. ~Has(body, Notes)
    BY <1>1, <2>1, <2>2 DEF Has, cut
  <2> QED
    BY <2>3 DEF body
<1>3. ~Has(Kept(text, s), Notes)
  <2>1. CASE Empty(text, s)
    <3>1. Kept(text, s) = <<Added(Summary)>>
      BY <2>1, KeptFacts
    <3>2. /\ DOMAIN <<Added(Summary)>> = {1}
          /\ <<Added(Summary)>>[1] = Added(Summary)
      OBVIOUS
    <3>3. Added(Summary).heading = Summary
      BY AddedIsSection
    <3> QED
      BY <1>1, <3>1, <3>2, <3>3 DEF Has
  <2>2. CASE ~Empty(text, s)
    BY <1>2, <2>2, KeptFacts
  <2> QED
    BY <2>1, <2>2
<1> QED
  BY <1>1, <1>3, FormatFacts

\* A section whose heading no other section ahead of the sources has is kept.
LEMMA FormatHolds ==
  ASSUME NEW text \in Texts, NEW s \in Styles,
         NEW j \in DOMAIN CutSources(text.sections),
         \A i \in DOMAIN CutSources(text.sections) :
           CutSources(text.sections)[i].heading
             = CutSources(text.sections)[j].heading => i = j
  PROVE  \E k \in DOMAIN Format(text, s).sections :
           Format(text, s).sections[k] = CutSources(text.sections)[j]
<1> DEFINE cut == CutSources(text.sections)
           body == Body(text, s)
           kept == Kept(text, s)
           out == Format(text, s).sections
           h == cut[j].heading
<1>1. /\ cut \in Seq(Section) /\ body \in Seq(Section)
      /\ \A g : Has(cut, g) => Has(body, g)
      /\ \A i \in DOMAIN body :
           \/ i \in DOMAIN cut /\ body[i] = cut[i]
           \/ body[i] = Added(Confidence) /\ ~Has(cut, Confidence)
  BY BodyFacts
<1>2. Has(cut, h)
  BY DEF Has
<1>3. Has(body, h)
  <2> HIDE DEF h, cut, body
  <2> QED
    BY <1>1, <1>2
<1>4. ~Empty(text, s)
  <2> HIDE DEF h
  <2> QED
    BY <1>1, <1>3, HasNone DEF Empty
<1>5. /\ kept \in Seq(Section)
      /\ \A g : Has(kept, g) <=> Has(body, g)
      /\ \A i \in DOMAIN kept : \E k \in DOMAIN body : kept[i] = body[k]
  BY <1>4, KeptFacts
<1>6. /\ DOMAIN out = 1 .. Len(kept) + 1
      /\ \A i \in 1 .. Len(kept) : out[i] = kept[i]
  BY FormatFacts
<1>7. \A i \in DOMAIN cut : cut[i].heading = h => i = j
  OBVIOUS
<1>8. j \in DOMAIN cut
  OBVIOUS
<1> HIDE DEF cut, body, kept, out
<1>9. PICK k \in DOMAIN kept : kept[k].heading = h
  BY <1>3, <1>5 DEF Has
<1>10. PICK i \in DOMAIN body : kept[k] = body[i]
  BY <1>5
<1>11. ~(body[i] = Added(Confidence) /\ ~Has(cut, Confidence))
  BY <1>2, <1>9, <1>10, AddedIsSection
<1>12. kept[k] = cut[j]
  BY <1>1, <1>7, <1>9, <1>10, <1>11
<1>13. k \in DOMAIN out /\ out[k] = kept[k]
  BY <1>5, <1>6
<1> QED
  BY <1>12, <1>13 DEF out, cut

\* What formatting keeps of a text that ends in a section of the program's,
\* or does not.
LEMMA FormatKeeps ==
  ASSUME NEW text \in Texts, NEW s \in Styles,
         NEW body \in Seq(Section), NEW h,
         \/ CutSources(text.sections) = body
         \/ /\ CutSources(text.sections) = Append(body, Added(h))
            /\ h \in Headings /\ ~Has(body, h)
  PROVE  LET out == Format(text, s)
         IN /\ HeadingsOf(body) \subseteq HeadingsOf(out.sections)
            /\ \A i \in DOMAIN out.sections :
                 Has(body, out.sections[i].heading) =>
                   \E j \in DOMAIN body : out.sections[i] = body[j]
            /\ out.ahead <=> text.ahead /\ Len(out.sections) = 1
<1> DEFINE cut == CutSources(text.sections)
           whole == Body(text, s)
           kept == Kept(text, s)
           out == Format(text, s)
<1>1. /\ cut \in Seq(Section) /\ whole \in Seq(Section)
      /\ \A g : Has(cut, g) => Has(whole, g)
      /\ ~Has(whole, Sources)
      /\ \A i \in DOMAIN whole :
           \/ i \in DOMAIN cut /\ whole[i] = cut[i]
           \/ whole[i] = Added(Confidence) /\ ~Has(cut, Confidence)
  BY BodyFacts
<1>2. /\ kept \in Seq(Section)
      /\ Empty(text, s) => kept = <<Added(Summary)>>
      /\ ~Empty(text, s) =>
           /\ kept = <<>> <=> whole = <<>>
           /\ \A g : Has(kept, g) <=> Has(whole, g)
           /\ \A i \in DOMAIN kept : \E j \in DOMAIN whole : kept[i] = whole[j]
  BY KeptFacts
<1>3. /\ out.ahead = (text.ahead /\ whole = <<>>)
      /\ Len(out.sections) = Len(kept) + 1
      /\ DOMAIN out.sections = 1 .. Len(kept) + 1
      /\ \A i \in 1 .. Len(kept) : out.sections[i] = kept[i]
      /\ out.sections[Len(kept) + 1] = Added(Sources)
      /\ \A g : Has(out.sections, g) <=> g = Sources \/ Has(kept, g)
  BY FormatFacts
<1>4. /\ \A g : Has(body, g) => Has(cut, g)
      /\ \A i \in DOMAIN cut : \/ i \in DOMAIN body /\ cut[i] = body[i]
                               \/ ~Has(body, cut[i].heading)
  <2>1. CASE cut = body
    BY <2>1
  <2>2. CASE cut = Append(body, Added(h)) /\ h \in Headings /\ ~Has(body, h)
    <3>1. Added(h) \in Section /\ Added(h).heading = h
      BY <2>2, AddedIsSection
    <3>2. /\ \A i \in DOMAIN body : i \in DOMAIN cut /\ cut[i] = body[i]
          /\ \A i \in DOMAIN cut : i \in DOMAIN body \/ cut[i] = Added(h)
      <4> HIDE DEF cut
      <4> QED
        BY <2>2, <3>1
    <3> HIDE DEF cut
    <3>3. \A g : Has(body, g) => Has(cut, g)
      BY <3>2 DEF Has
    <3> QED
      BY <2>2, <3>1, <3>2, <3>3
  <2> QED
    BY <2>1, <2>2
<1>5. text.ahead \in BOOLEAN
  BY DEF Texts
<1>6. Empty(text, s) <=> whole = <<>> /\ ~text.ahead
  BY DEF Empty
<1> HIDE DEF cut, whole, kept, out
<1>7. Empty(text, s) => \A g : ~Has(body, g)
  BY <1>1, <1>4, <1>6, HasNone
<1>8. HeadingsOf(body) \subseteq HeadingsOf(out.sections)
  <2>1. ASSUME NEW i \in DOMAIN body PROVE Has(out.sections, body[i].heading)
    <3>1. Has(body, body[i].heading)
      BY DEF Has
    <3> QED
      BY <1>1, <1>2, <1>3, <1>4, <1>7, <3>1
  <2> QED
    BY <2>1 DEF HeadingsOf, Has
<1>9. ASSUME NEW i \in DOMAIN out.sections, Has(body, out.sections[i].heading)
      PROVE  \E j \in DOMAIN body : out.sections[i] = body[j]
  <2>1. ~Empty(text, s)
    BY <1>7, <1>9
  <2>2. ~Has(body, Sources)
    BY <1>1, <1>4
  <2>3. i # Len(kept) + 1
    BY <1>3, <1>9, <2>2, AddedIsSection
  <2>4. i \in DOMAIN kept /\ out.sections[i] = kept[i]
    BY <1>2, <1>3, <2>3
  <2>5. PICK j \in DOMAIN whole : out.sections[i] = whole[j]
    BY <1>2, <2>1, <2>4
  <2>6. ~(whole[j] = Added(Confidence) /\ ~Has(cut, Confidence))
    BY <1>4, <1>9, <2>5, AddedIsSection
  <2>7. j \in DOMAIN cut /\ out.sections[i] = cut[j]
    BY <1>1, <2>5, <2>6
  <2> QED
    BY <1>4, <1>9, <2>7
<1>10. Len(out.sections) = 1 <=> kept = <<>>
  BY <1>2, <1>3
<1>11. out.ahead <=> text.ahead /\ Len(out.sections) = 1
  <2>1. <<Added(Summary)>> # <<>>
    OBVIOUS
  <2>2. CASE Empty(text, s)
    BY <1>2, <1>3, <1>6, <1>10, <2>1, <2>2
  <2>3. CASE ~Empty(text, s)
    BY <1>2, <1>3, <1>5, <1>10, <2>3
  <2> QED
    BY <2>2, <2>3
<1> QED
  BY <1>8, <1>9, <1>11 DEF out

-----------------------------------------------------------------------------
(* What is formatted.                                                      *)

\* A text without notes, which no writer but a correction pass writes.
Clean(text) == text \in Texts /\ ~Has(text.sections, Notes)

LEMMA WrittenIs ==
  ASSUME NEW text \in Written
  PROVE  Clean(text)
<1> DEFINE Lists == UNION {[1 .. n -> Headings] : n \in 0 .. MaxSections}
           Of(ahead, hs) == Text(ahead, [i \in DOMAIN hs |->
                                           [heading |-> hs[i], from |-> i]])
<1>0. Written = {Of(ahead, hs) : ahead \in BOOLEAN, hs \in Lists}
  BY DEF Written
<1>1. PICK ahead \in BOOLEAN, hs \in Lists : text = Of(ahead, hs)
  <2> HIDE DEF Lists, Of
  <2> QED
    BY <1>0
<1>2. PICK n \in 0 .. MaxSections : hs \in [1 .. n -> Headings]
  OBVIOUS
<1> DEFINE sections == [i \in DOMAIN hs |-> [heading |-> hs[i], from |-> i]]
<1>3. n \in Nat /\ DOMAIN hs = 1 .. n
  BY <1>2, FormatAssumption
<1>4. /\ DOMAIN sections = 1 .. n
      /\ \A i \in 1 .. n : /\ sections[i] \in Section
                           /\ sections[i].heading \in Headings
  BY <1>2, <1>3 DEF Section
<1>5. sections \in [1 .. n -> Section]
  BY <1>3, <1>4
<1>6. text.ahead = ahead /\ text.sections = sections /\ text \in Texts
  <2>1. sections \in Seq(Section)
    BY <1>3, <1>5
  <2> HIDE DEF sections
  <2> QED
    BY <1>1, <2>1 DEF Text, Texts, sections
<1> HIDE DEF sections
<1>7. ~Has(sections, Notes)
  BY <1>4, FormatAssumption DEF Has
<1> QED
  BY <1>6, <1>7 DEF Clean

LEMMA NoTextIs ==
  Clean(NoText) /\ NoText.sections = <<>> /\ NoText.ahead = FALSE
BY DEF Clean, NoText, Text, Texts, Has

\* A report the program writes from a list of headings.
LEMMA ProgramIs ==
  ASSUME NEW hs \in Seq(Headings)
  PROVE  /\ Clean(Program(hs))
         /\ DOMAIN Program(hs).sections = DOMAIN hs
         /\ Len(Program(hs).sections) = Len(hs)
         /\ \A i \in DOMAIN hs : Program(hs).sections[i] = Added(hs[i])
<1> DEFINE sections == [i \in DOMAIN hs |-> Added(hs[i])]
<1>1. DOMAIN hs = 1 .. Len(hs) /\ Len(hs) \in Nat
  OBVIOUS
<1>2. \A i \in DOMAIN hs : /\ hs[i] \in Headings /\ Added(hs[i]) \in Section
                           /\ Added(hs[i]).heading = hs[i]
  BY AddedIsSection
<1>3. sections \in [1 .. Len(hs) -> Section]
  BY <1>1, <1>2
<1>4. sections \in Seq(Section) /\ Len(sections) = Len(hs)
  BY <1>1, <1>3
<1>5. /\ Program(hs).ahead = FALSE /\ Program(hs).sections = sections
      /\ Program(hs) \in Texts
  <2> HIDE DEF sections
  <2> QED
    BY <1>4 DEF Program, Text, Texts, sections
<1>6. ~Has(sections, Notes)
  BY <1>2, FormatAssumption DEF Has
<1> QED
  BY <1>4, <1>5, <1>6 DEF Clean

\* Written with its sources at the end.
LEMMA ProgramEnds ==
  ASSUME NEW hs \in Seq(Headings), Sources \notin ToSet(hs)
  PROVE  LET text == Program(Append(hs, Sources))
         IN /\ Clean(text) /\ EndsWithSources(text.sections)
            /\ Has(text.sections, Sources)
<1> DEFINE whole == Append(hs, Sources)
           sections == Program(whole).sections
           n == Len(hs) + 1
<1>1. Sources \in Headings
  BY DEF Headings
<1>2. /\ whole \in Seq(Headings) /\ Len(whole) = n /\ DOMAIN whole = 1 .. n
      /\ whole[n] = Sources /\ n \in 1 .. n
      /\ \A i \in 1 .. n : i # n => i \in DOMAIN hs /\ whole[i] = hs[i]
  BY <1>1
<1> HIDE DEF whole, n
<1>3. /\ Clean(Program(whole)) /\ DOMAIN sections = 1 .. n
      /\ Len(sections) = n
      /\ \A i \in 1 .. n : sections[i] = Added(whole[i])
  BY <1>2, ProgramIs
<1> HIDE DEF sections
<1>4. \A i \in 1 .. n : sections[i].heading = whole[i]
  BY <1>3, AddedIsSection
<1>5. \A i \in 1 .. n : whole[i] = Sources <=> i = n
  BY <1>2 DEF ToSet
<1>6. EndsWithSources(sections) /\ Has(sections, Sources)
  BY <1>2, <1>3, <1>4, <1>5 DEF EndsWithSources, Has
<1> QED
  BY <1>3, <1>6 DEF whole, sections

\* A list made of two that do not name the sources.
LEMMA TwoLists ==
  ASSUME NEW main \in Seq(Headings), Sources \notin ToSet(main),
         NEW more \in Seq(Headings), Sources \notin ToSet(more)
  PROVE  /\ main \o more \in Seq(Headings)
         /\ Sources \notin ToSet(main \o more)
         /\ ToSet(main) \cup ToSet(more) \subseteq ToSet(main \o more)
<1> DEFINE list == main \o more
<1>1. /\ list \in Seq(Headings) /\ DOMAIN list = 1 .. Len(main) + Len(more)
      /\ \A i \in 1 .. Len(main) : list[i] = main[i]
      /\ \A i \in 1 .. Len(more) : list[Len(main) + i] = more[i]
      /\ DOMAIN main = 1 .. Len(main) /\ DOMAIN more = 1 .. Len(more)
      /\ Len(main) \in Nat /\ Len(more) \in Nat
  OBVIOUS
<1> HIDE DEF list
<1>2. ASSUME NEW i \in DOMAIN list PROVE list[i] # Sources
  <2>1. CASE i \in 1 .. Len(main)
    BY <1>1, <2>1 DEF ToSet
  <2>2. CASE i \notin 1 .. Len(main)
    <3>1. i - Len(main) \in 1 .. Len(more) /\ i = Len(main) + (i - Len(main))
      BY <1>1, <1>2, <2>2
    <3>2. list[i] = more[i - Len(main)]
      BY <1>1, <3>1
    <3> QED
      BY <1>1, <3>1, <3>2 DEF ToSet
  <2> QED
    BY <2>1, <2>2
<1>3. ASSUME NEW i \in DOMAIN more
      PROVE  \E j \in DOMAIN list : list[j] = more[i]
  <2>1. Len(main) + i \in DOMAIN list
    BY <1>1, <1>3
  <2> QED
    BY <1>1, <2>1
<1>4. ASSUME NEW i \in DOMAIN main
      PROVE  i \in DOMAIN list /\ list[i] = main[i]
  BY <1>1, <1>4
<1> QED
  BY <1>1, <1>2, <1>3, <1>4 DEF ToSet, list

\* A part of a list names nothing the list does not name.
LEMMA KeepingNames ==
  ASSUME NEW list \in Seq(Headings), NEW I \in SUBSET (DOMAIN list)
  PROVE  /\ Keeping(list, I) \in Seq(Headings)
         /\ ToSet(Keeping(list, I)) \subseteq ToSet(list)
<1> DEFINE part == Keeping(list, I)
<1>1. /\ part \in Seq(Headings) /\ DOMAIN part = 1 .. Cardinality(I)
      /\ \A k \in 1 .. Cardinality(I) :
           Nth(I, k) \in I /\ part[k] = list[Nth(I, k)]
  BY KeepingIs
<1>2. \A k \in DOMAIN part : \E i \in DOMAIN list : part[k] = list[i]
  BY <1>1
<1> HIDE DEF part
<1> QED
  BY <1>1, <1>2 DEF ToSet, part

\* The headings of the reports that no language model writes.
OwnList(hs) ==
  hs \in Seq(Headings) /\ Sources \notin ToSet(hs) /\ Method \in ToSet(hs)

LEMMA OwnListsAre == OwnList(FallbackHeadings) /\ OwnList(FailClosedHeadings)
<1> DEFINE main == Order["decision_brief"]
           both == <<Method, Confidence>>
           early == {i \in DOMAIN main : main[i] \notin {Register, Risks}}
           late == {i \in DOMAIN main : main[i] = Risks}
           head == Keeping(main, early)
           tail == Keeping(main, late)
<1>1. main \in Seq(Headings) /\ Sources \notin ToSet(main)
  BY OrderIs DEF Modes
<1>2. Sources # Method /\ Sources # Confidence /\ Sources # Agreement
  BY DEF Sources, Method, Confidence, Agreement
<1>3. /\ Technical \in Seq(Headings) /\ Sources \notin ToSet(Technical)
      /\ Method \in ToSet(Technical)
  BY <1>2, TechnicalIs DEF ToSet
<1>4. /\ both \in Seq(Headings) /\ Sources \notin ToSet(both)
      /\ Method \in ToSet(both)
  <2>1. /\ both \in Seq(Headings) /\ DOMAIN both = {1, 2}
        /\ both[1] = Method /\ both[2] = Confidence
    BY TechnicalIs
  <2> HIDE DEF both
  <2> QED
    BY <1>2, <2>1 DEF ToSet
<1>5. OwnList(FallbackHeadings)
  <2>1. FallbackHeadings = main \o both
    BY DEF FallbackHeadings
  <2> HIDE DEF main, both
  <2> QED
    BY <1>1, <1>4, <2>1, TwoLists DEF OwnList
<1>6. OwnList(FailClosedHeadings)
  <2>1. FailClosedHeadings = head \o Technical \o tail
    BY DEF FailClosedHeadings
  <2>2. early \in SUBSET (DOMAIN main) /\ late \in SUBSET (DOMAIN main)
    OBVIOUS
  <2> HIDE DEF main, early, late
  <2>3. /\ head \in Seq(Headings) /\ Sources \notin ToSet(head)
        /\ tail \in Seq(Headings) /\ Sources \notin ToSet(tail)
    BY <1>1, <2>2, KeepingNames
  <2> HIDE DEF head, tail
  <2>4. OwnList(head \o Technical)
    BY <1>3, <2>3, TwoLists DEF OwnList
  <2> QED
    BY <2>1, <2>3, <2>4, TwoLists DEF OwnList
<1> QED
  BY <1>5, <1>6

\* Ahead of its sources a text has a section on the method, and every such
\* section is the program's.
OwnMethod(text) ==
  LET body == CutSources(text.sections)
  IN /\ Has(body, Method)
     /\ \A i \in DOMAIN body :
          body[i].heading = Method => body[i] = Added(Method)

LEMMA ProgramTells ==
  ASSUME NEW hs, OwnList(hs)
  PROVE  OwnMethod(Program(Append(hs, Sources)))
<1> DEFINE whole == Append(hs, Sources)
           sections == Program(whole).sections
           body == CutSources(sections)
           n == Len(hs) + 1
<1>1. Sources \in Headings
  BY DEF Headings
<1>2. /\ whole \in Seq(Headings) /\ DOMAIN whole = 1 .. n /\ n \in Nat
      /\ \A i \in DOMAIN hs : i \in 1 .. n - 1 /\ whole[i] = hs[i]
  BY <1>1 DEF OwnList
<1>3. Clean(Program(whole)) /\ EndsWithSources(sections)
      /\ Has(sections, Sources)
  BY ProgramEnds DEF OwnList
<1> HIDE DEF whole
<1>4. /\ DOMAIN sections = 1 .. n
      /\ \A i \in 1 .. n : sections[i] = Added(whole[i])
      /\ sections \in Seq(Section)
  BY <1>2, <1>3, ProgramIs DEF Clean, Texts
<1>5. Len(sections) = n
  BY <1>2, <1>4
<1> HIDE DEF sections, n
<1>6. /\ body \in Seq(Section) /\ Len(body) < Len(sections)
      /\ \A i \in 1 .. Len(body) : body[i] = sections[i]
      /\ sections[Len(body) + 1].heading = Sources
  BY <1>3, <1>4, CutFacts
<1> HIDE DEF body
<1>7. Len(body) + 1 \in DOMAIN sections /\ DOMAIN body = 1 .. Len(body)
  BY <1>2, <1>4, <1>5, <1>6
<1>8. Len(body) + 1 = n
  BY <1>3, <1>5, <1>6, <1>7 DEF EndsWithSources
<1>9. DOMAIN body = 1 .. n - 1
  BY <1>2, <1>6, <1>7, <1>8
<1>10. \A i \in 1 .. n - 1 : body[i] = Added(whole[i])
  BY <1>2, <1>4, <1>6, <1>7, <1>9
<1>11. PICK i \in DOMAIN hs : hs[i] = Method
  BY DEF OwnList, ToSet
<1>12. i \in DOMAIN body /\ body[i].heading = Method
  BY <1>2, <1>9, <1>10, <1>11, AddedIsSection
<1>13. \A j \in DOMAIN body :
         body[j].heading = Method => body[j] = Added(Method)
  BY <1>9, <1>10, AddedIsSection
<1> QED
  BY <1>12, <1>13 DEF OwnMethod, Has, body, sections, whole

\* What is missing of a decision brief is named once and not there yet.
LEMMA MissingIs ==
  ASSUME NEW body \in Seq(Section)
  PROVE  LET all == Order["decision_brief"]
             missing == Keeping(all, {i \in DOMAIN all : ~Has(body, all[i])})
         IN /\ missing \in Seq(Headings)
            /\ \A k \in DOMAIN missing : /\ missing[k] # Sources
                                         /\ ~Has(body, missing[k])
<1> DEFINE all == Order["decision_brief"]
           I == {i \in DOMAIN all : ~Has(body, all[i])}
           missing == Keeping(all, I)
<1>1. all \in Seq(Headings) /\ Sources \notin ToSet(all)
  BY OrderIs DEF Modes
<1>2. I \in SUBSET (DOMAIN all) /\ \A i \in I : ~Has(body, all[i])
  OBVIOUS
<1> HIDE DEF all, I
<1>3. /\ missing \in Seq(Headings) /\ DOMAIN missing = 1 .. Cardinality(I)
      /\ \A k \in 1 .. Cardinality(I) :
           Nth(I, k) \in I /\ missing[k] = all[Nth(I, k)]
      /\ ToSet(missing) \subseteq ToSet(all)
  BY <1>1, <1>2, KeepingIs, KeepingNames
<1> HIDE DEF missing
<1>4. \A k \in DOMAIN missing : missing[k] \in ToSet(all)
  BY <1>3 DEF ToSet
<1>5. \A k \in DOMAIN missing : missing[k] # Sources /\ ~Has(body, missing[k])
  BY <1>1, <1>2, <1>3, <1>4
<1> QED
  BY <1>3, <1>5 DEF missing, I, all

\* Filling leaves the sections as they are, and adds none that repeats one.
LEMMA FillIs ==
  ASSUME NEW text, Clean(text)
  PROVE  LET body == CutSources(text.sections)
             cut == CutSources(Fill(text).sections)
         IN /\ Fill(text) \in Texts /\ cut \in Seq(Section)
            /\ ~Has(cut, Notes) /\ Len(body) <= Len(cut)
            /\ \A i \in 1 .. Len(body) : cut[i] = body[i]
            /\ \A i \in DOMAIN cut : \/ i \in 1 .. Len(body)
                                     \/ ~Has(body, cut[i].heading)
<1> DEFINE body == CutSources(text.sections)
           all == Order["decision_brief"]
           missing == Keeping(all, {i \in DOMAIN all : ~Has(body, all[i])})
           more == [i \in DOMAIN missing |-> Added(missing[i])]
           cut == body \o more
<1>1. /\ text.ahead \in BOOLEAN /\ text.sections \in Seq(Section)
      /\ ~Has(text.sections, Notes)
  BY DEF Clean, Texts
<1>2. /\ body \in Seq(Section) /\ ~Has(body, Sources)
      /\ Len(body) <= Len(text.sections)
      /\ \A i \in 1 .. Len(body) : body[i] = text.sections[i]
  BY <1>1, CutFacts
<1>3. /\ missing \in Seq(Headings)
      /\ \A k \in DOMAIN missing : /\ missing[k] # Sources
                                   /\ ~Has(body, missing[k])
  <2> HIDE DEF body
  <2> QED
    BY <1>2, MissingIs
<1>4. Fill(text) = [ahead |-> text.ahead,
                    sections |-> body \o more \o <<Added(Sources)>>,
                    traced |-> {}]
  BY DEF Fill, Text
<1> HIDE DEF body, missing
<1>5. /\ more \in Seq(Section) /\ DOMAIN more = 1 .. Len(more)
      /\ \A k \in DOMAIN more : k \in DOMAIN missing
                                /\ more[k].heading = missing[k]
      /\ \A k \in DOMAIN missing : missing[k] \in Headings
  <2>1. /\ more = Program(missing).sections /\ Clean(Program(missing))
        /\ DOMAIN Program(missing).sections = DOMAIN missing
        /\ \A i \in DOMAIN missing :
             Program(missing).sections[i] = Added(missing[i])
    BY <1>3, ProgramIs DEF Program, Text
  <2>2. more \in Seq(Section) /\ DOMAIN more = DOMAIN missing
    BY <2>1 DEF Clean, Texts
  <2>3. \A k \in DOMAIN missing : missing[k] \in Headings
    BY <1>3
  <2> HIDE DEF more
  <2>4. \A k \in DOMAIN more : more[k].heading = missing[k]
    BY <2>1, <2>2, AddedIsSection
  <2> QED
    BY <2>2, <2>3, <2>4
<1> HIDE DEF more
<1>6. /\ cut \in Seq(Section) /\ Len(cut) = Len(body) + Len(more)
      /\ DOMAIN cut = 1 .. Len(body) + Len(more)
      /\ \A i \in 1 .. Len(body) : cut[i] = body[i]
      /\ \A k \in 1 .. Len(more) : cut[Len(body) + k] = more[k]
      /\ Len(body) \in Nat /\ Len(more) \in Nat
      /\ DOMAIN body = 1 .. Len(body)
  BY <1>2, <1>5
<1> HIDE DEF cut
<1>7. ASSUME NEW i \in DOMAIN cut
      PROVE  \/ i \in 1 .. Len(body)
             \/ \E k \in DOMAIN missing : cut[i].heading = missing[k]
  <2>1. CASE i \notin 1 .. Len(body)
    <3>1. i - Len(body) \in 1 .. Len(more)
          /\ i = Len(body) + (i - Len(body))
      BY <1>6, <1>7, <2>1
    <3>2. cut[i] = more[i - Len(body)]
      BY <1>6, <3>1
    <3> QED
      BY <1>5, <3>1, <3>2
  <2> QED
    BY <2>1
<1>8. ~Has(cut, Sources) /\ ~Has(cut, Notes)
  <2>1. ASSUME NEW i \in DOMAIN cut
        PROVE  cut[i].heading # Sources /\ cut[i].heading # Notes
    <3>1. CASE i \in 1 .. Len(body)
      <4>1. cut[i] = body[i] /\ i \in DOMAIN body
        BY <1>6, <3>1
      <4>2. i \in DOMAIN text.sections /\ body[i] = text.sections[i]
        BY <1>1, <1>2, <1>6, <3>1
      <4> QED
        BY <1>1, <1>2, <4>1, <4>2 DEF Has
    <3>2. CASE \E k \in DOMAIN missing : cut[i].heading = missing[k]
      BY <1>3, <1>5, <3>2, FormatAssumption
    <3> QED
      BY <1>7, <3>1, <3>2
  <2> QED
    BY <2>1 DEF Has
<1>9. /\ Fill(text).sections = Append(cut, Added(Sources))
      /\ Fill(text).ahead = text.ahead /\ Fill(text) \in Texts
  <2>1. Added(Sources) \in Section
    BY AddedIsSection DEF Headings
  <2>2. cut \o <<Added(Sources)>> = Append(cut, Added(Sources))
        /\ Append(cut, Added(Sources)) \in Seq(Section)
    BY <1>6, <2>1
  <2> QED
    BY <1>1, <1>4, <2>2 DEF cut, Texts
<1>10. CutSources(Fill(text).sections) = cut
  BY <1>6, <1>8, <1>9, CutLedger
<1>11. \A i \in DOMAIN cut : \/ i \in 1 .. Len(body)
                             \/ ~Has(body, cut[i].heading)
  BY <1>3, <1>7
<1>12. Len(body) <= Len(cut)
  BY <1>6
<1> QED
  BY <1>6, <1>8, <1>9, <1>10, <1>11, <1>12 DEF body

\* The constrained report of either mode.
LEMMA ConstrainedIs ==
  ASSUME NEW s \in Styles
  PROVE  Clean(Constrained(s))
<1>1. s.mode \in Modes
  BY DEF Styles
<1>2. Order[s.mode] \in Seq(Headings) /\ Sources \notin ToSet(Order[s.mode])
  BY <1>1, OrderIs
<1> QED
  BY <1>2, ProgramEnds DEF Constrained

\* Naming the disagreement of the branches adds one section at the end.
LEMMA AgreementIs ==
  ASSUME NEW text, Clean(text)
  PROVE  LET whole == WithAgreement(text)
             body == CutSources(text.sections)
             cut == CutSources(whole.sections)
         IN /\ Clean(whole) /\ whole.ahead = text.ahead
            /\ \/ cut = body
               \/ cut = Append(body, Added(Agreement)) /\ ~Has(body, Agreement)
            /\ text # NoText /\ ~Has(text.sections, Sources) =>
                 Has(cut, Agreement)
<1> DEFINE whole == WithAgreement(text)
           body == CutSources(text.sections)
           cut == CutSources(whole.sections)
           longer == Append(text.sections, Added(Agreement))
<1>1. /\ text.ahead \in BOOLEAN /\ text.sections \in Seq(Section)
      /\ ~Has(text.sections, Notes) /\ text \in Texts
  BY DEF Clean, Texts
<1>2. ~Has(text.sections, Sources) => body = text.sections
  BY <1>1, CutFacts
<1>3. CASE text = NoText \/ Has(text.sections, Agreement)
  <2>1. whole = text
    BY <1>3 DEF WithAgreement
  <2> QED
    BY <1>1, <1>2, <1>3, <2>1
<1>4. CASE text # NoText /\ ~Has(text.sections, Agreement)
  <2>1. whole = [text EXCEPT !.sections = longer]
    BY <1>4 DEF WithAgreement
  <2>2. whole.ahead = text.ahead /\ whole.sections = longer
    BY <1>1, <2>1 DEF Texts
  <2>3. /\ Added(Agreement) \in Section /\ Added(Agreement).heading = Agreement
        /\ Agreement # Sources /\ Agreement # Notes
    <3>1. Agreement # Sources
      BY DEF Agreement, Sources
    <3>2. Agreement \in Headings
      BY TechnicalIs
    <3> QED
      BY <3>1, <3>2, AddedIsSection, FormatAssumption
  <2> DEFINE n == Len(text.sections) + 1
  <2>4. /\ longer \in Seq(Section) /\ DOMAIN longer = 1 .. n
        /\ longer[n] = Added(Agreement) /\ n \in DOMAIN longer
        /\ \A i \in DOMAIN longer : \/ i = n
                                    \/ /\ i \in DOMAIN text.sections
                                       /\ longer[i] = text.sections[i]
    BY <1>1, <2>3
  <2> HIDE DEF longer, n
  <2>5. Clean(whole)
    <3>1. ~Has(longer, Notes)
      BY <1>1, <2>3, <2>4 DEF Has
    <3>2. whole \in Texts
      BY <1>1, <2>1, <2>4 DEF Texts
    <3> QED
      BY <2>2, <3>1, <3>2 DEF Clean
  <2>6. CASE Has(text.sections, Sources)
    <3>1. cut = body
      BY <1>1, <2>2, <2>3, <2>6, CutBehind DEF longer
    <3> QED
      BY <2>2, <2>5, <2>6, <3>1
  <2>7. CASE ~Has(text.sections, Sources)
    <3>1. ~Has(longer, Sources)
      BY <2>3, <2>4, <2>7 DEF Has
    <3>2. cut = longer
      BY <2>2, <2>4, <3>1, CutFacts
    <3>3. Has(longer, Agreement)
      BY <2>3, <2>4 DEF Has
    <3>4. longer = Append(body, Added(Agreement))
      BY <1>2, <2>7 DEF longer
    <3> HIDE DEF whole, cut, body
    <3>5. cut = Append(body, Added(Agreement)) /\ ~Has(body, Agreement)
      BY <1>2, <1>4, <2>7, <3>2, <3>4
    <3>6. Has(cut, Agreement)
      BY <3>2, <3>3
    <3> QED
      BY <2>2, <2>5, <3>5, <3>6 DEF whole, cut, body
  <2> QED
    BY <2>6, <2>7
<1> QED
  BY <1>3, <1>4

-----------------------------------------------------------------------------
(* The report.                                                             *)

\* What is formatted for the first time, and what finalize formats.
First == IF origin = "merged" THEN WithAgreement(raw) ELSE raw
Delivered(text, s) ==
  IF s.fill THEN Fill(text)
  ELSE IF s.strict /\ Blocked(text, s) THEN Constrained(s) ELSE text

Nodes == {"synthesizer", "self_correction", "eval_gate", "retry", "finalize",
          "end"}

\* From the first formatting on every text is the same one: the draft
\* formatted once.  Only the program's own drafts come to the correction pass
\* as they were written, and these end with their sources.
FormatTypeOK == node \in Nodes /\ style \in Styles /\ Clean(raw)
NothingWritten == node = "synthesizer" => report = NoText
DraftReady ==
  node = "self_correction" =>
    \/ report = Format(First, style)
    \/ /\ origin # "merged" /\ report = raw
       /\ EndsWithSources(raw.sections) /\ Has(raw.sections, Sources)
OneText ==
  /\ Formatted => report = Format(First, style)
  /\ node \in {"retry", "finalize", "end"} => judged = Format(First, style)
PassedInOrder ==
  node \in {"finalize", "end"} /\ verdict =>
    SectionsInOrder(judged, style) /\ ~placeholders
OwnTells == origin \in {"fallback", "fail_closed"} => OwnMethod(raw)
WhatIsDelivered ==
  node = "end" => report \in WithTrace(Format(Delivered(judged, style), style))

FormatInv ==
  /\ FormatTypeOK /\ NothingWritten /\ DraftReady /\ OneText /\ PassedInOrder
  /\ OwnTells /\ WhatIsDelivered

LEMMA CleanCut ==
  ASSUME NEW text, Clean(text)
  PROVE  ~Has(CutSources(text.sections), Notes)
<1> DEFINE body == CutSources(text.sections)
<1>1. text.sections \in Seq(Section) /\ ~Has(text.sections, Notes)
  BY DEF Clean, Texts
<1>2. /\ body \in Seq(Section) /\ Len(body) <= Len(text.sections)
      /\ \A i \in 1 .. Len(body) : body[i] = text.sections[i]
  BY <1>1, CutFacts
<1> HIDE DEF body
<1>3. ~Has(body, Notes)
  BY <1>1, <1>2 DEF Has
<1> QED
  BY <1>3 DEF body

LEMMA FormatIsClean ==
  ASSUME NEW text, Clean(text), NEW s \in Styles
  PROVE  Clean(Format(text, s))
BY CleanCut, NoNotesComeUp, FormatFacts DEF Clean

LEMMA FirstIsClean ==
  ASSUME Clean(raw)
  PROVE  Clean(First)
BY AgreementIs DEF First

\* A correction pass, whatever it notes, formats the text it was given.
LEMMA CorrectedIs ==
  ASSUME NEW text \in Texts, Has(text.sections, Sources), NEW s \in Styles,
         NEW out \in Corrected(text, s)
  PROVE  out = Format(text, s)
BY NoteIsCut DEF Corrected

\* The lines about the run change no section, and stand in a text that has
\* the program's section for them.
LEMMA TraceIs ==
  ASSUME NEW text \in Texts, NEW out \in WithTrace(text)
  PROVE  /\ out.sections = text.sections /\ Untraced(out) = text
         /\ \A k \in DOMAIN text.sections :
              text.sections[k] = Added(Method) => out.traced # {}
<1> DEFINE own == {i \in DOMAIN text.sections :
                     text.sections[i] = Added(Method)}
           places == DOMAIN text.sections \cup (IF text.ahead THEN {0} ELSE {})
           first == {i \in places : \A j \in own : i <= j}
<1>1. \/ \E i \in first : out = [text EXCEPT !.traced = {i}]
      \/ own = {} /\ out = text
  BY DEF WithTrace
<1>2. \A k \in DOMAIN text.sections :
        text.sections[k] = Added(Method) => own # {}
  OBVIOUS
<1> HIDE DEF first, own
<1>3. CASE \E i \in first : out = [text EXCEPT !.traced = {i}]
  BY <1>3 DEF Texts, Untraced
<1>4. CASE own = {} /\ out = text
  BY <1>2, <1>4 DEF Texts, Untraced
<1> QED
  BY <1>1, <1>3, <1>4

\* A formatted text has the section of the text it was made of.
LEMMA FormatTells ==
  ASSUME NEW text \in Texts, NEW s \in Styles, OwnMethod(text)
  PROVE  \E k \in DOMAIN Format(text, s).sections :
           Format(text, s).sections[k] = Added(Method)
<1> DEFINE body == CutSources(text.sections)
           out == Format(text, s)
<1>1. body \in Seq(Section)
  BY CutFacts DEF Texts
<1> HIDE DEF body
<1>2. /\ HeadingsOf(body) \subseteq HeadingsOf(out.sections)
      /\ \A i \in DOMAIN out.sections :
           Has(body, out.sections[i].heading) =>
             \E j \in DOMAIN body : out.sections[i] = body[j]
  BY <1>1, FormatKeeps DEF body
<1> HIDE DEF out
<1>3. /\ Has(body, Method)
      /\ \A i \in DOMAIN body :
           body[i].heading = Method => body[i] = Added(Method)
  BY DEF OwnMethod, body
<1>4. PICK k \in DOMAIN out.sections : out.sections[k].heading = Method
  BY <1>2, <1>3 DEF Has, HeadingsOf
<1>5. out.sections[k] = Added(Method)
  BY <1>2, <1>3, <1>4
<1> QED
  BY <1>5 DEF out

LEMMA FormatStarts == FormatInit => FormatInv
<1> SUFFICES ASSUME FormatInit PROVE FormatInv
  OBVIOUS
<1>1. style \in Styles
  BY DEF FormatInit, Styles, Modes
<1> QED
  BY <1>1, NoTextIs DEF FormatInit, FormatInv, FormatTypeOK, Nodes,
     NothingWritten, DraftReady, OneText, PassedInOrder, OwnTells,
     WhatIsDelivered, Formatted

\* The steps of the synthesizer.
LEMMA DraftStep ==
  ASSUME FormatInv, MergedDraft \/ SinglePassDraft \/ ProgramDraft
  PROVE  FormatInv'
<1>1. node' = "self_correction"
  BY DEF MergedDraft, SinglePassDraft, ProgramDraft, Draft
<1>2. style' \in Styles /\ Clean(raw') /\ DraftReady' /\ OwnTells'
  <2>1. CASE MergedDraft
    <3>1. PICK text \in Written, s \in Styles :
            /\ style' = s /\ origin' = "merged"
            /\ Draft(text, Format(WithAgreement(text), s))
      BY <2>1 DEF MergedDraft
    <3> QED
      BY <3>1, WrittenIs DEF Draft, DraftReady, First, OwnTells
  <2>2. CASE SinglePassDraft
    <3>1. PICK text \in Written, s \in Styles :
            /\ style' = s /\ origin' = "single_pass"
            /\ Draft(text, Format(text, s))
      BY <2>2 DEF SinglePassDraft
    <3> QED
      BY <3>1, WrittenIs DEF Draft, DraftReady, First, OwnTells
  <2>3. CASE ProgramDraft
    <3>1. PICK s \in Styles, failed \in BOOLEAN :
            /\ style' = s
            /\ origin' = IF failed THEN "fail_closed" ELSE "fallback"
            /\ Draft(Program(Append(IF failed THEN FailClosedHeadings
                                    ELSE FallbackHeadings, Sources)),
                     Program(Append(IF failed THEN FailClosedHeadings
                                    ELSE FallbackHeadings, Sources)))
      BY <2>3 DEF ProgramDraft
    <3> DEFINE hs == IF failed THEN FailClosedHeadings ELSE FallbackHeadings
               text == Program(Append(hs, Sources))
    <3>2. OwnList(hs)
      BY OwnListsAre
    <3>3. raw' = text /\ report' = text
      BY <3>1 DEF Draft
    <3> HIDE DEF hs
    <3>4. /\ Clean(text) /\ EndsWithSources(text.sections)
          /\ Has(text.sections, Sources)
      BY <3>2, ProgramEnds DEF OwnList
    <3>5. OwnMethod(text)
      BY <3>2, ProgramTells
    <3>6. origin' # "merged"
      BY <3>1
    <3> HIDE DEF text
    <3> QED
      BY <3>1, <3>3, <3>4, <3>5, <3>6 DEF DraftReady, OwnTells, OwnMethod
  <2> QED
    BY <2>1, <2>2, <2>3
<1> QED
  BY <1>1, <1>2 DEF FormatInv, FormatTypeOK, Nodes, NothingWritten, OneText,
     PassedInOrder, WhatIsDelivered, Formatted

\* The text a correction pass is given, formatted, is the first formatted.
LEMMA CorrectedIsFirst ==
  ASSUME FormatInv, node = "self_correction" \/ node = "retry",
         NEW out \in Corrected(report, style)
  PROVE  out = Format(First, style)
<1>1. style \in Styles /\ Clean(First) /\ Clean(raw)
  BY FirstIsClean DEF FormatInv, FormatTypeOK
<1>2. CASE report = Format(First, style)
  <2>1. report \in Texts /\ Has(report.sections, Sources)
        /\ Format(report, style) = Format(First, style)
    BY <1>1, <1>2, FormatTwice, FormatFacts, FormatEnds DEF Clean
  <2> QED
    BY <1>1, <2>1, CorrectedIs
<1>3. CASE origin # "merged" /\ report = raw /\ Has(raw.sections, Sources)
  <2>1. report = First /\ report \in Texts
    BY <1>1, <1>3 DEF First, Clean
  <2> QED
    BY <1>1, <1>3, <2>1, CorrectedIs
<1> QED
  BY <1>2, <1>3 DEF FormatInv, DraftReady, OneText, Formatted

LEMMA FormatStep ==
  ASSUME FormatInv, [FormatNext]_formatVars
  PROVE  FormatInv'
<1>1. CASE MergedDraft \/ SinglePassDraft \/ ProgramDraft
  BY <1>1, DraftStep
<1>2. CASE SelfCorrect \/ CorrectAgain
  <2>1. /\ report' = Format(First, style) /\ node' = "eval_gate"
        /\ UNCHANGED <<style, raw, origin>>
    BY <1>2, CorrectedIsFirst DEF SelfCorrect, CorrectAgain
  <2> QED
    BY <2>1 DEF FormatInv, FormatTypeOK, Nodes, NothingWritten, DraftReady,
       OneText, PassedInOrder, OwnTells, WhatIsDelivered, Formatted, First
<1>3. CASE GateDraft
  <2>1. /\ node = "eval_gate" /\ judged' = report
        /\ node' \in {"retry", "finalize"}
        /\ UNCHANGED <<style, raw, report, origin>>
    BY <1>3 DEF GateDraft
  <2>2. verdict' => SectionsInOrder(report, style) /\ ~placeholders'
    BY <1>3 DEF GateDraft, MayPassGate
  <2> QED
    BY <2>1, <2>2 DEF FormatInv, FormatTypeOK, Nodes, NothingWritten,
       DraftReady, OneText, PassedInOrder, OwnTells, WhatIsDelivered,
       Formatted, First
<1>4. CASE FinalizeReport
  <2>1. node = "finalize" /\ node' = "end"
        /\ UNCHANGED <<style, raw, origin, judged, placeholders, verdict>>
    BY <1>4 DEF FinalizeReport
  <2>2. report = judged
    BY <2>1 DEF FormatInv, OneText, Formatted
  <2>3. report' \in WithTrace(Format(Delivered(judged, style), style))
    BY <1>4, <2>2 DEF FinalizeReport, Finalized, Delivered
  <2>4. WhatIsDelivered'
    BY <2>1, <2>3 DEF WhatIsDelivered, Delivered, Blocked, Closed
  <2> QED
    BY <2>1, <2>4 DEF FormatInv, FormatTypeOK, Nodes, NothingWritten,
       DraftReady, OneText, PassedInOrder, OwnTells, Formatted, First
<1>5. CASE UNCHANGED formatVars
  BY <1>5 DEF formatVars, FormatInv, FormatTypeOK, NothingWritten,
     DraftReady, OneText, PassedInOrder, OwnTells, WhatIsDelivered, Formatted,
     First, Delivered, Blocked, Closed
<1> QED
  BY <1>1, <1>2, <1>3, <1>4, <1>5 DEF FormatNext

LEMMA FormatIsInductive == FormatSpec => []FormatInv
<1> QED
  BY FormatStarts, FormatStep, PTL DEF FormatSpec

\* Formatting a draft again, in a correction pass, a retry or finalize,
\* changes nothing, and the program's sources come last
\* (report_formatter.py:61, 178, 235).
THEOREM FormatSettlesAlways == FormatSpec => []FormatSettles
<1>1. ASSUME FormatInv PROVE FormatSettles
  <2>1. style \in Styles /\ Clean(First) /\ Clean(raw) /\ First \in Texts
    BY <1>1, FirstIsClean DEF FormatInv, FormatTypeOK, Clean
  <2>2. FormatStable
    BY <1>1, <2>1, FormatTwice DEF FormatInv, OneText, FormatStable
  <2>3. node # "synthesizer" => EndsWithSources(report.sections)
    <3>1. CASE node = "end"
      <4>1. judged = Format(First, style)
        BY <1>1, <3>1 DEF FormatInv, OneText
      <4>2. Clean(judged)
        BY <2>1, <4>1, FormatFacts, FormatIsClean DEF Clean
      <4>3. Delivered(judged, style) \in Texts
        BY <2>1, <4>2, FillIs, ConstrainedIs DEF Delivered, Clean
      <4>4. report.sections
              = Format(Delivered(judged, style), style).sections
        BY <1>1, <2>1, <3>1, <4>3, FormatFacts, TraceIs
           DEF FormatInv, WhatIsDelivered
      <4> QED
        BY <2>1, <4>3, <4>4, FormatEnds
    <3>2. CASE node # "end"
      BY <1>1, <2>1, <3>2, FormatEnds
         DEF FormatInv, FormatTypeOK, Nodes, DraftReady, OneText, Formatted
    <3> QED
      BY <3>1, <3>2
  <2> QED
    BY <2>2, <2>3 DEF FormatSettles, LedgerIsLast, EndsWithSources
<1> QED
  BY <1>1, FormatIsInductive, PTL

\* What a language model wrote ahead of its own sources is shown, and where
\* the branches disagree; the notes of the correction passes are not
\* (report_formatter.py:168, synthesizer.py:97, self_correction.py:166).
THEOREM TextKeptAlways == FormatSpec => []TextKept
<1>1. ASSUME FormatInv PROVE TextKept
  <2>1. style \in Styles /\ Clean(First) /\ Clean(raw) /\ First \in Texts
    BY <1>1, FirstIsClean DEF FormatInv, FormatTypeOK, Clean
  <2> DEFINE body == CutSources(raw.sections)
  <2>2. /\ body \in Seq(Section) /\ First.ahead = raw.ahead
        /\ \/ CutSources(First.sections) = body
           \/ /\ CutSources(First.sections) = Append(body, Added(Agreement))
              /\ Agreement \in Headings /\ ~Has(body, Agreement)
    <3>1. body \in Seq(Section)
      BY <2>1, CutFacts DEF Clean, Texts
    <3> QED
      BY <2>1, <3>1, AgreementIs, TechnicalIs DEF First
  <2>3. HeadingsKept
    <3>1. CASE Formatted
      <4>1. report = Format(First, style)
        BY <1>1, <3>1 DEF FormatInv, OneText
      <4> HIDE DEF body
      <4>2. /\ HeadingsOf(body) \subseteq HeadingsOf(report.sections)
            /\ \A i \in DOMAIN report.sections :
                 Has(body, report.sections[i].heading) =>
                   \E j \in DOMAIN body : report.sections[i] = body[j]
            /\ report.ahead <=> First.ahead /\ Len(report.sections) = 1
        BY <2>1, <2>2, <4>1, FormatKeeps
      <4> QED
        BY <2>2, <4>2 DEF HeadingsKept, body
    <3> QED
      BY <3>1 DEF HeadingsKept
  <2>4. AgreementShown
    <3> SUFFICES ASSUME Formatted, origin = "merged", raw # NoText,
                        ~Has(raw.sections, Sources)
                 PROVE  Has(report.sections, Agreement)
      BY DEF AgreementShown
    <3>1. report = Format(First, style)
      BY <1>1 DEF FormatInv, OneText
    <3> DEFINE cut == CutSources(First.sections)
    <3>2. cut \in Seq(Section)
      BY <2>1, CutFacts DEF Texts
    <3>3. Has(cut, Agreement)
      BY <2>1, AgreementIs DEF First
    <3> HIDE DEF cut
    <3>4. HeadingsOf(cut) \subseteq HeadingsOf(report.sections)
      BY <2>1, <3>1, <3>2, FormatKeeps DEF cut
    <3> QED
      BY <3>3, <3>4 DEF Has, HeadingsOf
  <2>5. NotesNeverShow
    <3>1. CASE node = "end"
      <4>1. judged = Format(First, style)
        BY <1>1, <3>1 DEF FormatInv, OneText
      <4>2. Clean(judged)
        BY <2>1, <4>1, FormatFacts, FormatIsClean DEF Clean
      <4>3. /\ Delivered(judged, style) \in Texts
            /\ ~Has(CutSources(Delivered(judged, style).sections), Notes)
        BY <2>1, <4>2, FillIs, ConstrainedIs, CleanCut DEF Delivered, Clean
      <4>4. report.sections
              = Format(Delivered(judged, style), style).sections
        BY <1>1, <2>1, <3>1, <4>3, FormatFacts, TraceIs
           DEF FormatInv, WhatIsDelivered
      <4> QED
        BY <2>1, <4>3, <4>4, NoNotesComeUp DEF NotesNeverShow
    <3>2. CASE node = "synthesizer"
      BY <1>1, <3>2, NoTextIs DEF FormatInv, NothingWritten, NotesNeverShow,
         Clean
    <3>3. CASE node \notin {"end", "synthesizer"}
      BY <1>1, <2>1, <3>3, FormatIsClean
         DEF FormatInv, FormatTypeOK, Nodes, DraftReady, OneText, Formatted,
             NotesNeverShow, Clean
    <3> QED
      BY <3>1, <3>2, <3>3
  <2> QED
    BY <2>3, <2>4, <2>5 DEF TextKept
<1> QED
  BY <1>1, FormatIsInductive, PTL

\* Filling a formatted report and formatting it again keeps every section.
LEMMA FilledKeeps ==
  ASSUME NEW text, Clean(text), NEW s \in Styles,
         NEW i \in DOMAIN Format(text, s).sections
  PROVE  LET whole == Format(Fill(Format(text, s)), s)
         IN \E j \in DOMAIN whole.sections :
              whole.sections[j] = Format(text, s).sections[i]
<1> DEFINE out == Format(text, s)
           kept == Kept(text, s)
           filled == Fill(out)
           cut == CutSources(filled.sections)
           whole == Format(filled, s)
<1>1. text \in Texts /\ Clean(out)
  BY FormatIsClean DEF Clean
<1>2. /\ CutSources(out.sections) = kept
      /\ DOMAIN out.sections = 1 .. Len(kept) + 1
      /\ \A k \in 1 .. Len(kept) : out.sections[k] = kept[k]
      /\ out.sections[Len(kept) + 1] = Added(Sources)
  BY <1>1, FormatFacts
<1>3. kept \in Seq(Section) /\ Distinct(kept)
  BY <1>1, KeptFacts
<1>i. i \in DOMAIN out.sections
  OBVIOUS
<1> HIDE DEF out, kept
<1>4. /\ filled \in Texts /\ cut \in Seq(Section) /\ Len(kept) <= Len(cut)
      /\ \A k \in 1 .. Len(kept) : cut[k] = kept[k]
      /\ \A k \in DOMAIN cut : \/ k \in 1 .. Len(kept)
                               \/ ~Has(kept, cut[k].heading)
  BY <1>1, <1>2, FillIs
<1> HIDE DEF filled
<1>5. CASE i \in 1 .. Len(kept)
  <2>1. i \in DOMAIN cut /\ cut[i] = kept[i] /\ i \in DOMAIN kept
    BY <1>3, <1>4, <1>5
  <2> HIDE DEF cut
  <2>2. ASSUME NEW k \in DOMAIN cut, cut[k].heading = cut[i].heading
        PROVE  k = i
    <3>1. Has(kept, cut[k].heading)
      BY <2>1, <2>2 DEF Has
    <3>2. k \in 1 .. Len(kept) /\ cut[k] = kept[k] /\ k \in DOMAIN kept
      BY <1>3, <1>4, <3>1
    <3> QED
      BY <1>3, <2>1, <2>2, <3>2 DEF Distinct
  <2>3. \E j \in DOMAIN whole.sections : whole.sections[j] = cut[i]
    BY <1>4, <2>1, <2>2, FormatHolds DEF cut
  <2>4. cut[i] = out.sections[i]
    BY <1>2, <1>5, <2>1
  <2> QED
    BY <2>3, <2>4 DEF whole, filled, out
<1>6. CASE i = Len(kept) + 1
  <2> DEFINE n == Len(Kept(filled, s)) + 1
  <2>1. DOMAIN whole.sections = 1 .. n /\ whole.sections[n] = Added(Sources)
    BY <1>4, FormatFacts
  <2>2. n \in 1 .. n
    <3>1. Kept(filled, s) \in Seq(Section)
      BY <1>4, KeptFacts
    <3>2. Len(Kept(filled, s)) \in Nat
      BY <3>1
    <3> QED
      BY <3>2
  <2>3. whole.sections[n] = out.sections[i]
    BY <1>2, <1>6, <2>1
  <2> QED
    BY <2>1, <2>2, <2>3 DEF whole, filled, out
<1> QED
  BY <1>2, <1>3, <1>5, <1>6, <1>i

\* But for the lines about the run, a reader gets what the gate saw, with the
\* sections template_fill adds, or the constrained report; a report that
\* passed is exchanged for it only for a section the gate does not insist on;
\* and a report no language model wrote holds those lines unless it is
\* exchanged (pipeline.py:222, 255, 272, 318, 364).
THEOREM DeliveredExplainedAlways == FormatSpec => []DeliveredExplained
<1>1. ASSUME FormatInv PROVE DeliveredExplained
  <2> SUFFICES ASSUME node = "end"
               PROVE  DeliveredIsJudged /\ PassedButReplaced /\ RunIsTold
    BY DEF DeliveredExplained, DeliveredIsJudged, PassedButReplaced, RunIsTold
  <2> DEFINE shown == Format(Delivered(judged, style), style)
  <2>1. style \in Styles /\ Clean(First) /\ First \in Texts
    BY <1>1, FirstIsClean DEF FormatInv, FormatTypeOK, Clean
  <2>2. judged = Format(First, style) /\ Format(judged, style) = judged
    BY <1>1, <2>1, FormatTwice DEF FormatInv, OneText
  <2>3. Delivered(judged, style) \in Texts
    <3>1. Clean(judged)
      BY <2>1, <2>2, FormatIsClean
    <3> QED
      BY <2>1, <3>1, FillIs, ConstrainedIs DEF Delivered, Clean
  <2>4. report \in WithTrace(shown) /\ shown \in Texts
    BY <1>1, <2>1, <2>3, FormatFacts DEF FormatInv, WhatIsDelivered
  <2> DEFINE blocked == style.strict /\ Blocked(judged, style)
  <2>5. /\ ~style.fill /\ ~blocked => shown = judged
        /\ ~style.fill /\ blocked =>
             shown = Format(Constrained(style), style)
        /\ style.fill => shown = Format(Fill(judged), style)
    BY <2>2 DEF Delivered
  <2> HIDE DEF shown
  <2>6. /\ Untraced(report) = shown /\ report.sections = shown.sections
        /\ \A k \in DOMAIN shown.sections :
             shown.sections[k] = Added(Method) => report.traced # {}
    BY <2>4, TraceIs
  <2>7. ASSUME style.fill, NEW i \in DOMAIN judged.sections
        PROVE  \E j \in DOMAIN shown.sections :
                 shown.sections[j] = judged.sections[i]
    BY <2>1, <2>2, <2>5, <2>7, FilledKeeps
  <2>8. ~style.fill /\ blocked => Replaced
    BY <2>5, <2>6 DEF Replaced
  <2>9. DeliveredIsJudged
    BY <2>5, <2>6, <2>7, <2>8 DEF DeliveredIsJudged
  <2>10. PassedButReplaced
    <3> SUFFICES ASSUME verdict, ~style.fill, Untraced(report) # judged
                 PROVE  LET missing == MissingRequired(judged, style)
                        IN missing # {}
                           /\ missing \cap Insisted[style.mode] = {}
      BY DEF PassedButReplaced
    <3>1. SectionsInOrder(judged, style) /\ ~placeholders
      BY <1>1 DEF FormatInv, PassedInOrder
    <3>2. MissingRequired(judged, style) # {}
      BY <2>5, <2>6, <3>1 DEF Blocked
    <3>3. Insisted[style.mode] \subseteq HeadingsOf(judged.sections)
      BY <3>1 DEF SectionsInOrder
    <3> QED
      BY <3>2, <3>3 DEF MissingRequired
  <2>11. RunIsTold
    <3> SUFFICES ASSUME origin \in {"fallback", "fail_closed"}
                 PROVE  \/ report.traced # {}
                        \/ origin = "fallback" /\ Replaced
      BY DEF RunIsTold
    <3>1. First = raw /\ OwnMethod(First)
      BY <1>1 DEF FormatInv, OwnTells, First
    <3>2. PICK k \in DOMAIN judged.sections : judged.sections[k] = Added(Method)
      BY <2>1, <2>2, <3>1, FormatTells
    <3>3. CASE style.fill
      BY <2>6, <2>7, <3>2, <3>3
    <3>4. CASE ~style.fill /\ blocked
      BY <2>8, <3>4 DEF Blocked, Closed
    <3>5. CASE ~style.fill /\ ~blocked
      BY <2>5, <2>6, <3>2, <3>5
    <3> QED
      BY <3>3, <3>4, <3>5
  <2> QED
    BY <2>9, <2>10, <2>11
<1> QED
  BY <1>1, FormatIsInductive, PTL

\* A pass that is not the first gives the gate the text it has judged already,
\* whatever the model is asked to correct: no retry changes a report
\* (pipeline.py:210, self_correction.py:166).
THEOREM RetryChangesNothing ==
  FormatSpec => [][node = "retry" => report' = report]_formatVars
<1>1. ASSUME FormatInv, [FormatNext]_formatVars, node = "retry"
      PROVE  report' = report
  <2>1. report = Format(First, style)
    BY <1>1 DEF FormatInv, OneText, Formatted
  <2>2. CASE CorrectAgain
    BY <1>1, <2>1, <2>2, CorrectedIsFirst DEF CorrectAgain
  <2>3. CASE UNCHANGED formatVars
    BY <2>3 DEF formatVars
  <2> QED
    BY <1>1, <2>2, <2>3 DEF FormatNext, MergedDraft, SinglePassDraft,
       ProgramDraft, SelfCorrect, GateDraft, FinalizeReport
<1> QED
  BY <1>1, FormatIsInductive, PTL DEF FormatSpec

-----------------------------------------------------------------------------
(* The model router.                                                       *)

Providers == Keyed \cup {"local"}

\* The providers a call may be sent to without the configuration naming them.
MayAsk(r) ==
  {p \in Providers :
     /\ p = "anthropic" => r.task = "synthesis"
     /\ p = "openai" => \/ r.task = "correction"
                        \/ r.task = "planning" /\ r.tier = "enterprise"}

\* What stands at the end of two sequences put together.
LEMMA TailOf ==
  ASSUME NEW S, NEW x \in Seq(S), NEW y \in Seq(S), NEW k \in 1 .. Len(y)
  PROVE  y[k] \in ToSet(x \o y)
<1> DEFINE n == Len(x)
           m == Len(y)
<1>1. n \in Nat /\ m \in Nat /\ k \in 1 .. m
  OBVIOUS
<1>2. DOMAIN (x \o y) = 1 .. n + m /\ (x \o y)[n + k] = y[k]
  OBVIOUS
<1> HIDE DEF n, m
<1>3. n + k \in 1 .. n + m
  BY <1>1
<1> QED
  BY <1>2, <1>3 DEF ToSet

\* The ladder names only these, and every free provider.
LEMMA LadderIs ==
  ASSUME NEW r \in Requests
  PROVE  Ladder(r) \in Seq(MayAsk(r)) /\ Free \subseteq ToSet(Ladder(r))
<1> DEFINE front == Enterprise(r) \o Strategic(r) \o <<r.prefer>> \o ForTask(r)
           tail == <<r.prefer, "groq", "openrouter", "huggingface">>
<1>1. r.prefer \in Free
  BY DEF Requests
<1>2. /\ Free \subseteq MayAsk(r) /\ "local" \in MayAsk(r)
      /\ "groq" \in Free /\ "openrouter" \in Free /\ "huggingface" \in Free
      /\ Free = {"groq", "openrouter", "huggingface"}
  BY DEF MayAsk, Providers, Keyed, Free
<1>3. Enterprise(r) \in Seq(MayAsk(r))
  <2>1. r.task = "synthesis" => "anthropic" \in MayAsk(r)
    BY DEF MayAsk, Providers, Keyed
  <2>2. r.task = "planning" /\ r.tier = "enterprise" => "openai" \in MayAsk(r)
    BY DEF MayAsk, Providers, Keyed
  <2> QED
    BY <2>1, <2>2 DEF Enterprise
<1>4. Strategic(r) \in Seq(MayAsk(r))
  BY <1>2 DEF Strategic
<1>5. ForTask(r) \in Seq(MayAsk(r))
  <2>1. r.task = "synthesis" => "anthropic" \in MayAsk(r)
    BY DEF MayAsk, Providers, Keyed
  <2>2. r.task = "correction" => "openai" \in MayAsk(r)
    BY DEF MayAsk, Providers, Keyed
  <2>3. "groq" \in MayAsk(r) /\ "openrouter" \in MayAsk(r)
    BY <1>2
  <2> QED
    BY <2>1, <2>2, <2>3 DEF ForTask
<1>6. <<r.prefer>> \in Seq(MayAsk(r)) /\ tail \in Seq(MayAsk(r))
  BY <1>1, <1>2
<1>7. front \in Seq(MayAsk(r))
  <2> HIDE DEF MayAsk
  <2> QED
    BY <1>3, <1>4, <1>5, <1>6
<1>8. Ladder(r) = front \o tail
  BY DEF Ladder
<1>9. /\ tail[2] = "groq" /\ tail[3] = "openrouter" /\ tail[4] = "huggingface"
  OBVIOUS
<1>l. Len(tail) = 4
  OBVIOUS
<1> HIDE DEF front, tail
<1>10. \A k \in 1 .. 4 : tail[k] \in ToSet(front \o tail)
  <2> HIDE DEF MayAsk
  <2> QED
    BY <1>6, <1>7, <1>l, TailOf
<1>11. {tail[2], tail[3], tail[4]} \subseteq ToSet(front \o tail)
  BY <1>10
<1>12. front \o tail \in Seq(MayAsk(r))
  BY <1>6, <1>7
<1> QED
  BY <1>2, <1>8, <1>9, <1>11, <1>12

\* Without a provider of the configuration's, the first on the ladder that
\* can be used; groq if none can, and then no free provider has a credential.
LEMMA SelectedIs ==
  ASSUME NEW r \in Requests, ~Overridden(r)
  PROVE  \/ SelectModel(r) \in MayAsk(r) /\ Usable(r, SelectModel(r))
         \/ SelectModel(r) = "groq" /\ \A p \in Free : ~Usable(r, p)
<1> DEFINE ladder == Ladder(r)
           usable == {i \in DOMAIN ladder : Usable(r, ladder[i])}
           first == CHOOSE i \in usable : \A j \in usable : i <= j
<1>1. ladder \in Seq(MayAsk(r)) /\ Free \subseteq ToSet(ladder)
  BY LadderIs
<1>2. SelectModel(r) = IF usable = {} THEN "groq" ELSE ladder[first]
  BY DEF SelectModel
<1> HIDE DEF ladder
<1>3. CASE usable = {}
  <2>1. ASSUME NEW p \in Free PROVE ~Usable(r, p)
    <3>1. PICK i \in DOMAIN ladder : ladder[i] = p
      BY <1>1 DEF ToSet
    <3> QED
      BY <1>3, <3>1
  <2> QED
    BY <1>2, <1>3, <2>1
<1>4. CASE usable # {}
  <2>1. usable \in SUBSET Int /\ IsFiniteSet(usable)
    <3>1. DOMAIN ladder = 1 .. Len(ladder) /\ Len(ladder) \in Int
      BY <1>1
    <3>2. IsFiniteSet(1 .. Len(ladder))
      BY <3>1, FS_Interval
    <3>3. usable \in SUBSET (1 .. Len(ladder))
      BY <3>1
    <3>4. \A i \in 1 .. Len(ladder) : i \in Int
      BY <3>1
    <3> HIDE DEF usable
    <3> QED
      BY <3>2, <3>3, <3>4, FS_Subset
  <2>2. \E i \in usable : \A j \in usable : i <= j
    <3> HIDE DEF usable
    <3> QED
      BY <1>4, <2>1, FirstAndLast
  <2>3. first \in usable
    <3> HIDE DEF usable
    <3> QED
      BY <2>2
  <2>4. first \in DOMAIN ladder /\ Usable(r, ladder[first])
    <3> HIDE DEF first
    <3> QED
      BY <2>3
  <2> HIDE DEF first
  <2>5. ladder[first] \in MayAsk(r)
    BY <1>1, <2>4
  <2> QED
    BY <1>2, <1>4, <2>4, <2>5
<1> QED
  BY <1>3, <1>4

RouterInv ==
  request # NoRequest => request \in Requests /\ provider = SelectModel(request)

LEMMA RouterIsInductive == RouterSpec => []RouterInv
<1>1. RouterInit => RouterInv
  BY DEF RouterInit, RouterInv
<1>2. RouterInv /\ [RouterNext]_routerVars => RouterInv'
  <2> SUFFICES ASSUME RouterInv, [RouterNext]_routerVars PROVE RouterInv'
    OBVIOUS
  <2>1. CASE Route
    BY <2>1 DEF Route, RouterInv
  <2>2. CASE UNCHANGED routerVars
    BY <2>2 DEF routerVars, RouterInv
  <2> QED
    BY <2>1, <2>2 DEF RouterNext
<1> QED
  BY <1>1, <1>2, PTL DEF RouterSpec

\* No mix of tier, strategy, preference and credentials sends a call to a
\* provider without a credential while a free one has it, nor to a paid one
\* the task does not list (model_router.py:96, 131, 137, 163).
THEOREM RoutedAsConfiguredAlways == RouterSpec => []RoutedAsConfigured
<1>1. ASSUME RouterInv PROVE RoutedAsConfigured
  <2> SUFFICES ASSUME request # NoRequest, ~Overridden(request)
               PROVE  RoutedToCredential /\ PaidByTask
    BY DEF RoutedAsConfigured, RoutedToCredential, PaidByTask
  <2>1. request \in Requests /\ provider = SelectModel(request)
    BY <1>1 DEF RouterInv
  <2>2. CASE provider \in MayAsk(request) /\ Usable(request, provider)
    BY <2>2 DEF MayAsk, Usable, RoutedToCredential, PaidByTask
  <2>3. CASE provider = "groq" /\ \A p \in Free : ~Usable(request, p)
    <3>1. request.keys \cap Free = {}
      BY <2>3 DEF Usable
    <3> QED
      BY <2>3, <3>1 DEF RoutedToCredential, PaidByTask
  <2> QED
    BY <2>1, <2>2, <2>3, SelectedIs
<1> QED
  BY <1>1, RouterIsInductive, PTL

=============================================================================
