---------------------------- MODULE IdentityProofs ----------------------------
(***************************************************************************)
(* Proofs about IdentityMigration, for any feeds and whatever they         *)
(* publish.                                                                *)
(***************************************************************************)
EXTENDS IdentityMigration, FiniteSetTheorems, SequenceTheorems, NaturalsInduction,
        WellFoundedInduction, TLAPS

-----------------------------------------------------------------------------
(* Sets of numbers and sequences.                                          *)

LEMMA Smallest ==
    ASSUME NEW S \in SUBSET Nat, S # {}
    PROVE  \E m \in S : \A k \in S : m <= k
  <1>1. PICK m \in S : \A k \in S : ~(k < m)
    <2> DEFINE R == OpToRel(<, Nat)
    <2>1. IsWellFoundedOn(R, Nat)
      BY NatLessThanWellFounded
    <2>2. \A k \in Nat, l \in Nat : k < l => <<k, l>> \in R
      BY DEF OpToRel
    <2> HIDE DEF R
    <2>3. PICK m \in S : \A k \in S : ~(<<k, m>> \in R)
      BY <2>1, WFMin
    <2> QED BY <2>2, <2>3
  <1>2. ASSUME NEW k \in S PROVE m <= k
    <2>1. m \in Nat /\ k \in Nat
      OBVIOUS
    <2> QED BY <1>1, <2>1
  <1> QED BY <1>2

\* SetToSeq lists every element of a finite set, once.
LEMMA SetToSeqProperties ==
    ASSUME NEW S, IsFiniteSet(S)
    PROVE  /\ Cardinality(S) \in Nat
           /\ SetToSeq(S) \in [1..Cardinality(S) -> S]
           /\ \A i, j \in 1..Cardinality(S) : SetToSeq(S)[i] = SetToSeq(S)[j] => i = j
  <1> DEFINE n == Cardinality(S)
  <1>1. n \in Nat /\ ExistsBijection(1..n, S)
    BY FS_CardinalityType
  <1>2. \E f \in [1..n -> S] : IsInjective(f)
    BY <1>1 DEF ExistsBijection, Bijection, Injection
  <1>3. SetToSeq(S) \in [1..n -> S] /\ IsInjective(SetToSeq(S))
    BY <1>2 DEF SetToSeq
  <1> QED BY <1>1, <1>3 DEF IsInjective

\* The range of a sequence is finite.
LEMMA RangeFinite ==
    ASSUME NEW S, NEW s \in Seq(S)
    PROVE  IsFiniteSet(Range(s)) /\ Range(s) \in SUBSET S
  <1>1. Len(s) \in Nat /\ s \in [1..Len(s) -> S]
    BY LenProperties
  <1>2. s \in Surjection(1..Len(s), Range(s))
    BY <1>1 DEF Range, Surjection
  <1>3. IsFiniteSet(1..Len(s))
    BY <1>1, FS_Interval
  <1> QED BY <1>1, <1>2, <1>3, FS_Surjection DEF Range

\* InOrder counts up through a finite set of numbers.
LEMMA InOrderProperties ==
    ASSUME NEW I \in SUBSET Nat, IsFiniteSet(I)
    PROVE  /\ Cardinality(I) \in Nat
           /\ InOrder(I) \in [1..Cardinality(I) -> I]
           /\ \A i \in I : \E n \in 1..Cardinality(I) : InOrder(I)[n] = i
           /\ \A m, n \in 1..Cardinality(I) : m < n => InOrder(I)[m] < InOrder(I)[n]
  <1> DEFINE c == Cardinality(I)
             Upto(i) == {j \in I : j <= i}
             rank == [i \in I |-> Cardinality(Upto(i))]
  <1>1. c \in Nat /\ \A i \in I : i \in Nat
    BY FS_CardinalityType
  <1>2. ASSUME NEW i \in I
        PROVE  IsFiniteSet(Upto(i)) /\ rank[i] = Cardinality(Upto(i)) /\ rank[i] \in 1..c
    <2>1. Upto(i) \in SUBSET I /\ i \in Upto(i)
      OBVIOUS
    <2>2. rank[i] = Cardinality(Upto(i))
      OBVIOUS
    <2> HIDE DEF Upto, rank
    <2>3. IsFiniteSet(Upto(i)) /\ Cardinality(Upto(i)) <= c
      BY <2>1, FS_Subset
    <2>4. Cardinality(Upto(i)) \in Nat /\ Cardinality(Upto(i)) # 0
      BY <2>1, <2>3, FS_CardinalityType, FS_EmptySet
    <2> QED BY <1>1, <2>2, <2>3, <2>4
  <1>3. ASSUME NEW i \in I, NEW j \in I, i < j PROVE rank[i] < rank[j]
    <2>1. Upto(i) \in SUBSET Upto(j) /\ j \in Upto(j) /\ j \notin Upto(i)
      <3>1. i \in Nat /\ j \in Nat
        BY <1>1
      <3>2. ASSUME NEW k \in I, k <= i PROVE k <= j
        <4>1. k \in Nat
          BY <1>1
        <4> QED BY <1>3, <3>1, <3>2, <4>1
      <3>3. j <= j /\ ~(j <= i)
        BY <1>3, <3>1
      <3>4. Upto(i) \in SUBSET Upto(j)
        BY <3>2
      <3> QED BY <3>3, <3>4
    <2> HIDE DEF Upto, rank
    <2>2. Upto(i) # Upto(j)
      BY <2>1
    <2>3. IsFiniteSet(Upto(j))
      BY <1>2
    <2>4. Cardinality(Upto(i)) <= Cardinality(Upto(j)) /\ Cardinality(Upto(j)) # Cardinality(Upto(i))
      BY <2>1, <2>2, <2>3, FS_Subset
    <2> QED BY <1>2, <2>4
  <1>4. \A i, j \in I : rank[i] = rank[j] => i = j
    <2> SUFFICES ASSUME NEW i \in I, NEW j \in I, rank[i] = rank[j], i # j PROVE FALSE
      OBVIOUS
    <2>1. i < j \/ j < i
      BY <1>1
    <2> HIDE DEF rank
    <2>2. rank[i] \in 1..c
      BY <1>2
    <2> HIDE DEF c
    <2>3. rank[i] \in Nat
      BY <1>1, <2>2
    <2>4. ~(rank[i] < rank[i])
      BY <2>3
    <2> QED BY <1>3, <2>1, <2>4
  <1>5. rank \in [I -> 1..c]
    <2>1. \A i \in I : rank[i] \in 1..c
      BY <1>2
    <2> QED BY <2>1
  <1> HIDE DEF rank
  <1>6. rank \in Injection(I, 1..c)
    BY <1>4, <1>5 DEF Injection, IsInjective
  <1>7. rank \in Surjection(I, 1..c)
    BY <1>1, <1>6, FS_Interval, FS_Injection
  <1>8. ASSUME NEW n \in 1..c
        PROVE  InOrder(I)[n] \in I /\ rank[InOrder(I)[n]] = n
    <2>1. \E i \in I : Cardinality({j \in I : j <= i}) = n
      BY <1>2, <1>7 DEF Surjection
    <2>2. InOrder(I)[n] = CHOOSE i \in I : Cardinality({j \in I : j <= i}) = n
      BY DEF InOrder
    <2>3. InOrder(I)[n] \in I /\ Cardinality({j \in I : j <= InOrder(I)[n]}) = n
      BY <2>1, <2>2
    <2> QED BY <1>2, <2>3
  <1>9. InOrder(I) \in [1..c -> I]
    <2>1. InOrder(I) = [n \in 1..c |-> CHOOSE i \in I : Cardinality({j \in I : j <= i}) = n]
      BY DEF InOrder
    <2> QED BY <1>8, <2>1
  <1>10. ASSUME NEW i \in I PROVE \E n \in 1..c : InOrder(I)[n] = i
    <2>1. rank[i] \in 1..c
      BY <1>5
    <2> QED BY <1>4, <1>8, <2>1
  <1>11. ASSUME NEW m \in 1..c, NEW n \in 1..c, m < n PROVE InOrder(I)[m] < InOrder(I)[n]
    <2>1. PICK i \in I, j \in I : i = InOrder(I)[m] /\ j = InOrder(I)[n]
      BY <1>8
    <2>2. rank[i] = m /\ rank[j] = n
      BY <1>8, <2>1
    <2>3. m \in Nat /\ n \in Nat /\ i \in Nat /\ j \in Nat
      BY <1>1
    <2>4. ~(j < i) /\ j # i
      BY <1>3, <1>11, <2>2, <2>3
    <2> QED BY <2>1, <2>3, <2>4
  <1> QED BY <1>1, <1>9, <1>10, <1>11

\* Nothing is left out of the whole.
LEMMA PartOfAll ==
    ASSUME NEW S, NEW s \in Seq(S)
    PROVE  Part(s, DOMAIN s) = s
  <1> DEFINE c == Len(s)
             I == 1..c
  <1>1. c \in Nat /\ s \in [I -> S] /\ DOMAIN s = I
    BY LenProperties
  <1>2. IsFiniteSet(I) /\ Cardinality(I) = c
    BY <1>1, FS_Interval
  <1>3. ASSUME NEW n \in I PROVE InOrder(I)[n] = n
    <2>1. ASSUME NEW i \in I PROVE Cardinality({j \in I : j <= i}) = i
      <3>1. {j \in I : j <= i} = 1..i
        BY <1>1
      <3>2. Cardinality(1..i) = i
        BY <1>1, FS_Interval
      <3> QED BY <3>1, <3>2
    <2>2. InOrder(I)[n] = CHOOSE i \in I : Cardinality({j \in I : j <= i}) = n
      BY <1>2 DEF InOrder
    <2> QED BY <2>1, <2>2
  <1>4. Part(s, I) = [n \in I |-> s[InOrder(I)[n]]]
    BY <1>2 DEF Part
  <1>5. Part(s, I) = [n \in I |-> s[n]]
    BY <1>3, <1>4
  <1> QED BY <1>1, <1>5

-----------------------------------------------------------------------------
(* Entries and hashes.                                                     *)

Items == UNION {Published[f] : f \in Feeds}
Guids == {i.guid : i \in Items}
Stems == {NormalizeGUID(g) : g \in Guids}
ItemLinks == {i.link : i \in Items}
Titles == {i.title : i \in Items}
Dates == {i.date : i \in Items} \cup Nat

Fields == [guid : Guids, link : ItemLinks, title : Titles, date : Dates]
Hashes == {EntryHash(i, r) : i \in Fields, r \in SUBSET Stems}
EntryType ==
    [guid : Guids, link : ItemLinks, title : Titles, date : Dates, hash : Hashes, at : Nat]

LEMMA EntryHashType ==
    ASSUME NEW e \in EntryType, NEW r \in SUBSET Stems
    PROVE  EntryHash(e, r) \in Hashes /\ NormalizeGUID(e.guid) \in Stems
  <1> DEFINE i == [guid |-> e.guid, link |-> e.link, title |-> e.title, date |-> e.date]
  <1>1. i \in Fields /\ e.guid \in Guids
    BY DEF EntryType, Fields
  <1>2. EntryHash(e, r) = EntryHash(i, r)
    BY DEF EntryHash, HasGuid
  <1> HIDE DEF i
  <1> QED BY <1>1, <1>2 DEF Hashes, Stems

\* A new hash changes nothing it is computed from.
LEMMA Rehash ==
    ASSUME NEW e \in EntryType, NEW h \in Hashes
    PROVE  LET d == [e EXCEPT !.hash = h] IN
           /\ d \in EntryType
           /\ d.hash = h /\ d.at = e.at /\ d.guid = e.guid /\ d.link = e.link
           /\ \A r : EntryHash(d, r) = EntryHash(e, r)
  <1> DEFINE d == [e EXCEPT !.hash = h]
  <1>1. /\ d \in EntryType
        /\ d.hash = h /\ d.at = e.at /\ d.guid = e.guid /\ d.link = e.link
        /\ d.title = e.title /\ d.date = e.date
    BY DEF EntryType
  <1> HIDE DEF d
  <1>2. \A r : EntryHash(d, r) = EntryHash(e, r)
    BY <1>1 DEF EntryHash, HasGuid
  <1> QED BY <1>1, <1>2 DEF d

\* As the set of reused guids grows a hash changes only from the guid's to that of
\* the guid and the link.
LEMMA HashGrows ==
    ASSUME NEW e, NEW r, NEW t, r \subseteq t
    PROVE  \/ EntryHash(e, r) = EntryHash(e, t)
           \/ NormalizeGUID(e.guid) \in t /\ EntryHash(e, r) = EntryHash(e, {})
  BY DEF EntryHash

-----------------------------------------------------------------------------
(* The file a migration plans.                                             *)

\* The guids a file seeds.
FileSeeds(file) ==
    {g \in {NormalizeGUID(e.guid) : e \in Range(file)} \ (UriGuids \cup {None}) :
        Cardinality({e.link : e \in {d \in Range(file) : NormalizeGUID(d.guid) = g}}) >= 2}

\* A file another migration would not change.
Migrated(file, reused) ==
    /\ \A n \in DOMAIN file : file[n].hash = EntryHash(file[n], reused)
    /\ \A m, n \in DOMAIN file : file[m].hash = file[n].hash => m = n
    /\ FileSeeds(file) \subseteq reused

LEMMA StickyPlanType ==
    ASSUME NEW f \in Feeds, files[f] \in Seq(EntryType), sticky[f] \in SUBSET Stems
    PROVE  /\ StickyPlan(f) = sticky[f] \cup FileSeeds(files[f])
           /\ StickyPlan(f) \in SUBSET Stems
  <1>1. Seeded(f) = FileSeeds(files[f])
    BY DEF Seeded, FileSeeds, EntriesOf, Links
  <1>2. ASSUME NEW g \in FileSeeds(files[f]) PROVE g \in Stems
    <2>1. PICK e \in Range(files[f]) : g = NormalizeGUID(e.guid)
      BY DEF FileSeeds
    <2>2. e \in EntryType
      BY RangeFinite
    <2> QED BY <2>1, <2>2, EntryHashType
  <1> QED BY <1>1, <1>2 DEF StickyPlan

\* The survivor of the copies of an entry is one of them, as old as any.
LEMMA SurvivorProperties ==
    ASSUME NEW f \in Feeds, files[f] \in Seq(EntryType), NEW e \in EntriesOf(f)
    PROVE  \E d \in EntriesOf(f) :
             /\ NewHash(f, d) = NewHash(f, e)
             /\ d.at <= e.at
             /\ Survivor(f, NewHash(f, e)) = [d EXCEPT !.hash = NewHash(f, d)]
  <1> DEFINE h == NewHash(f, e)
             G == Group(f, h)
             earliest == {c \in G : \A d \in G : c.at <= d.at}
             T == {c.at : c \in G}
  <1>1. ASSUME NEW c \in EntriesOf(f) PROVE c \in EntryType /\ c.at \in Nat
    <2>1. EntriesOf(f) \in SUBSET EntryType
      BY RangeFinite DEF EntriesOf
    <2> QED BY <2>1 DEF EntryType
  <1>2. e \in G /\ \A c \in G : c \in EntriesOf(f) /\ NewHash(f, c) = h
    BY DEF Group
  <1>3. T \in SUBSET Nat /\ T # {}
    BY <1>1, <1>2
  <1>4. PICK t \in T : \A u \in T : t <= u
    <2> HIDE DEF T
    <2> QED BY <1>3, Smallest
  <1>5. PICK c \in G : t = c.at
    OBVIOUS
  <1>6. c \in earliest
    BY <1>4, <1>5
  <1> DEFINE d == CHOOSE x \in earliest : TRUE
  <1>7. d \in earliest
    BY <1>6
  <1>8. Survivor(f, h) = [d EXCEPT !.hash = h]
    BY DEF Survivor
  <1>9. d \in G /\ d.at <= e.at
    BY <1>2, <1>7
  <1> HIDE DEF d
  <1> QED BY <1>2, <1>8, <1>9

\* A file without its copies has the hashes of its fields and the new sticky set,
\* each once; every entry is in it, or another of its identity that is not younger.
LEMMA NewFileProperties ==
    ASSUME NEW f \in Feeds, files[f] \in Seq(EntryType), sticky[f] \in SUBSET Stems
    PROVE  /\ NewFile(f) \in Seq(EntryType)
           /\ Migrated(NewFile(f), StickyPlan(f))
           /\ \A n \in DOMAIN NewFile(f) : \E e \in EntriesOf(f) :
                NewFile(f)[n] = [e EXCEPT !.hash = NewHash(f, e)]
           /\ \A e \in EntriesOf(f) : \E n \in DOMAIN NewFile(f) :
                NewFile(f)[n].hash = NewHash(f, e) /\ NewFile(f)[n].at <= e.at
  <1> DEFINE s == files[f]
             D == DOMAIN s
             First(i) == \A j \in D : NewHash(f, s[j]) = NewHash(f, s[i]) => i <= j
             I == {i \in D : First(i)}
             c == Cardinality(I)
             S == StickyPlan(f)
             new == NewFile(f)
  <1>1. Len(s) \in Nat /\ D = 1..Len(s) /\ S \in SUBSET Stems
    BY LenProperties, StickyPlanType
  <1>2. ASSUME NEW e \in EntriesOf(f)
        PROVE  e \in EntryType /\ NewHash(f, e) \in Hashes /\ NewHash(f, e) = EntryHash(e, S)
    <2>1. e \in EntryType
      BY RangeFinite DEF EntriesOf
    <2> QED BY <1>1, <2>1, EntryHashType DEF NewHash
  <1>3. I \in SUBSET Nat /\ IsFiniteSet(I) /\ I \subseteq D
    <2>1. IsFiniteSet(D) /\ D \subseteq Nat
      BY <1>1, FS_Interval
    <2>2. I \in SUBSET D
      OBVIOUS
    <2> HIDE DEF I
    <2> QED BY <2>1, <2>2, FS_Subset
  <1>4. ASSUME NEW i \in D PROVE s[i] \in EntriesOf(f) /\ i \in Nat
    BY <1>1 DEF EntriesOf, Range
  <1>5. \A e \in EntriesOf(f) : \E i \in D : e = s[i]
    BY DEF EntriesOf, Range
  <1>6. new = [n \in 1..c |-> Survivor(f, NewHash(f, s[InOrder(I)[n]]))]
    <2>1. Part(s, I) = [n \in 1..c |-> s[InOrder(I)[n]]]
      BY DEF Part
    <2>2. new = [n \in DOMAIN Part(s, I) |-> Survivor(f, NewHash(f, Part(s, I)[n]))]
      BY DEF NewFile
    <2> QED BY <2>1, <2>2
  <1>7. /\ c \in Nat /\ InOrder(I) \in [1..c -> I]
        /\ \A i \in I : \E n \in 1..c : InOrder(I)[n] = i
        /\ \A m, n \in 1..c : m < n => InOrder(I)[m] < InOrder(I)[n]
    BY <1>3, InOrderProperties
  <1>8. \A i \in I : i \in D /\ First(i)
    OBVIOUS
  <1> HIDE DEF I, c, new, S
  <1>9. ASSUME NEW n \in 1..c
        PROVE  \E e \in EntriesOf(f) :
                 /\ new[n] = [e EXCEPT !.hash = NewHash(f, e)]
                 /\ NewHash(f, e) = NewHash(f, s[InOrder(I)[n]])
    <2> DEFINE a == s[InOrder(I)[n]]
    <2>1. a \in EntriesOf(f)
      BY <1>4, <1>7, <1>8
    <2>2. new[n] = Survivor(f, NewHash(f, a))
      BY <1>6
    <2> HIDE DEF a
    <2>3. PICK d \in EntriesOf(f) : /\ NewHash(f, d) = NewHash(f, a)
                                    /\ Survivor(f, NewHash(f, a)) = [d EXCEPT !.hash = NewHash(f, d)]
      BY <2>1, SurvivorProperties
    <2> QED BY <2>2, <2>3 DEF a
  <1>10. ASSUME NEW n \in 1..c
         PROVE  /\ new[n] \in EntryType
                /\ new[n].hash = NewHash(f, s[InOrder(I)[n]])
                /\ new[n].hash = EntryHash(new[n], S)
                /\ \E e \in EntriesOf(f) : new[n].guid = e.guid /\ new[n].link = e.link
    <2>1. PICK e \in EntriesOf(f) : /\ new[n] = [e EXCEPT !.hash = NewHash(f, e)]
                                    /\ NewHash(f, e) = NewHash(f, s[InOrder(I)[n]])
      BY <1>9
    <2>2. e \in EntryType /\ NewHash(f, e) \in Hashes /\ NewHash(f, e) = EntryHash(e, S)
      BY <1>2
    <2> QED BY <2>1, <2>2, Rehash
  <1>11. DOMAIN new = 1..c
    BY <1>6
  <1>12. new \in Seq(EntryType)
    <2>1. new \in [1..c -> EntryType]
      BY <1>6, <1>10
    <2> QED BY <1>7, <2>1
  <1>13. ASSUME NEW m \in 1..c, NEW n \in 1..c, new[m].hash = new[n].hash PROVE m = n
    <2>1. PICK i \in D, j \in D : /\ i = InOrder(I)[m] /\ j = InOrder(I)[n]
                                  /\ First(i) /\ First(j)
      BY <1>7, <1>8
    <2>2. NewHash(f, s[i]) = NewHash(f, s[j])
      BY <1>10, <1>13, <2>1
    <2>3. i <= j /\ j <= i
      BY <2>1, <2>2
    <2>4. i \in Nat /\ j \in Nat
      BY <1>4
    <2>5. i = j
      BY <2>3, <2>4
    <2>6. ~(i < j) /\ ~(j < i)
      BY <2>4, <2>5
    <2>7. m \in Nat /\ n \in Nat /\ ~(m < n) /\ ~(n < m)
      BY <1>7, <2>1, <2>6
    <2> QED BY <2>7
  <1>14. ASSUME NEW e \in EntriesOf(f)
         PROVE  \E n \in 1..c : new[n].hash = NewHash(f, e) /\ new[n].at <= e.at
    <2> DEFINE T == {i \in D : NewHash(f, s[i]) = NewHash(f, e)}
    <2>1. T # {} /\ T \in SUBSET Nat
      BY <1>4, <1>5
    <2>2. \A i \in T : i \in D /\ NewHash(f, s[i]) = NewHash(f, e)
      OBVIOUS
    <2>3. \A i \in D : NewHash(f, s[i]) = NewHash(f, e) => i \in T
      OBVIOUS
    <2> HIDE DEF T
    <2>4. PICK i \in T : \A j \in T : i <= j
      BY <2>1, Smallest
    <2>5. i \in D /\ NewHash(f, s[i]) = NewHash(f, e) /\ First(i)
      BY <2>2, <2>3, <2>4
    <2>6. i \in I
      BY <2>5 DEF I
    <2>7. PICK n \in 1..c : InOrder(I)[n] = i
      BY <1>7, <2>6
    <2>8. new[n] = Survivor(f, NewHash(f, e))
      BY <1>6, <2>5, <2>7
    <2>9. PICK d \in EntriesOf(f) : /\ NewHash(f, d) = NewHash(f, e) /\ d.at <= e.at
                                    /\ Survivor(f, NewHash(f, e)) = [d EXCEPT !.hash = NewHash(f, d)]
      BY SurvivorProperties
    <2>10. d \in EntryType /\ NewHash(f, d) \in Hashes
      BY <1>2
    <2>11. new[n] = [d EXCEPT !.hash = NewHash(f, d)]
      BY <2>8, <2>9
    <2>12. new[n].hash = NewHash(f, d) /\ new[n].at = d.at
      BY <2>10, <2>11, Rehash
    <2> QED BY <2>9, <2>12
  <1>15. ASSUME NEW g \in FileSeeds(new) PROVE g \in S
    <2> DEFINE Of(file) == {d \in Range(file) : NormalizeGUID(d.guid) = g}
               L(file) == {e.link : e \in Of(file)}
    <2>1. \A e \in Range(new) : \E d \in Range(s) : e.guid = d.guid /\ e.link = d.link
      BY <1>10, <1>11 DEF Range, EntriesOf
    <2>2. /\ \E e \in Range(new) : g = NormalizeGUID(e.guid)
          /\ g \notin UriGuids \cup {None} /\ Cardinality(L(new)) >= 2
      BY DEF FileSeeds
    <2>3. \E e \in Range(s) : g = NormalizeGUID(e.guid)
      BY <2>1, <2>2
    <2>4. L(new) \in SUBSET L(s)
      BY <2>1
    <2>5. IsFiniteSet(L(s)) /\ IsFiniteSet(L(new))
      <3>1. IsFiniteSet(Of(s))
        <4>1. IsFiniteSet(Range(s)) /\ Of(s) \in SUBSET Range(s)
          BY RangeFinite
        <4> HIDE DEF Of
        <4> QED BY <4>1, FS_Subset
      <3> DEFINE l == [e \in Of(s) |-> e.link]
      <3>2. l \in Surjection(Of(s), L(s))
        BY DEF Surjection
      <3> HIDE DEF l, Of, L
      <3> QED BY <2>4, <3>1, <3>2, FS_Surjection, FS_Subset
    <2> HIDE DEF L
    <2>6. Cardinality(L(new)) <= Cardinality(L(s)) /\ Cardinality(L(new)) \in Nat
          /\ Cardinality(L(s)) \in Nat
      BY <2>4, <2>5, FS_Subset, FS_CardinalityType
    <2>7. Cardinality(L(s)) >= 2
      BY <2>2, <2>6
    <2>8. g \in FileSeeds(s)
      BY <2>2, <2>3, <2>7 DEF FileSeeds, L
    <2> QED BY <2>8, StickyPlanType DEF S
  <1>16. Migrated(new, S)
    BY <1>10, <1>11, <1>13, <1>15 DEF Migrated
  <1> QED BY <1>9, <1>11, <1>12, <1>14, <1>16 DEF new, S

-----------------------------------------------------------------------------
(* What a poll stores.                                                     *)

\* What AssignEntryHashesForFeed makes of an item Poll has parsed.
LEMMA ItemEntry ==
    ASSUME NEW f \in Feeds, NEW item \in Published[f], NEW now \in Nat, NEW r \in SUBSET Stems,
           NEW p \in {item, Parsed(item, now)}
    PROVE  /\ Entry(p, EntryHash(p, r), now) \in EntryType
           /\ EntryHash(Entry(p, EntryHash(p, r), now), r) = EntryHash(p, r)
           /\ NormalizeGUID(p.guid) \in Stems
  <1>1. item \in [guid : {item.guid}, link : {item.link}, title : {item.title}, date : {item.date}]
    BY IdentityAssumption
  <1>2. item.guid \in Guids /\ item.link \in ItemLinks /\ item.title \in Titles /\ item.date \in Dates
    <2>1. item \in Items
      BY DEF Items
    <2> QED BY <2>1 DEF Guids, ItemLinks, Titles, Dates
  <1>3. p.guid = item.guid /\ p.link = item.link /\ p.title = item.title /\ p.date \in {item.date, now}
    BY <1>1 DEF Parsed
  <1>4. p.date \in Dates
    BY <1>2, <1>3 DEF Dates
  <1> DEFINE i == [guid |-> p.guid, link |-> p.link, title |-> p.title, date |-> p.date]
             h == EntryHash(p, r)
             e == Entry(p, h, now)
  <1>5. i \in Fields
    BY <1>2, <1>3, <1>4 DEF Fields
  <1>6. EntryHash(p, r) = EntryHash(i, r)
    BY DEF EntryHash, HasGuid
  <1>7. h \in Hashes
    <2> HIDE DEF i
    <2> QED BY <1>5, <1>6 DEF Hashes
  <1> HIDE DEF h
  <1>8. e \in EntryType
    BY <1>2, <1>3, <1>4, <1>7 DEF Entry, EntryType
  <1>9. EntryHash(e, r) = EntryHash(p, r)
    BY DEF EntryHash, HasGuid, Entry
  <1> QED BY <1>2, <1>3, <1>8, <1>9 DEF h, Stems

\* The guids a poll finds reused.
LEMMA ReusedType ==
    ASSUME NEW f \in Feeds, NEW items \in SUBSET Published[f], NEW now \in Nat
    PROVE  ReusedInBatch({Parsed(i, now) : i \in items}) \in SUBSET Stems
  <1>1. ASSUME NEW i \in items PROVE NormalizeGUID(Parsed(i, now).guid) \in Stems
    <2>1. i \in Published[f] /\ {} \in SUBSET Stems
      OBVIOUS
    <2> QED BY <2>1, ItemEntry
  <1> QED BY <1>1 DEF ReusedInBatch

\* The entries of a poll.
LEMMA BatchProperties ==
    ASSUME NEW f \in Feeds, NEW items \in SUBSET Published[f], NEW now \in Nat,
           NEW r \in SUBSET Stems, NEW entries,
           \A e \in entries : \E i \in items :
               e = Entry(Parsed(i, now), EntryHash(Parsed(i, now), r), now)
    PROVE  /\ entries \in SUBSET EntryType
           /\ IsFiniteSet(entries)
           /\ \A e \in entries : e.hash = EntryHash(e, r)
  <1> DEFINE E(i) == Entry(Parsed(i, now), EntryHash(Parsed(i, now), r), now)
             make == [i \in items |-> E(i)]
             all == {make[i] : i \in items}
  <1>1. ASSUME NEW i \in items
        PROVE  E(i) \in EntryType /\ E(i).hash = EntryHash(E(i), r) /\ make[i] = E(i)
    <2>1. i \in Published[f]
      OBVIOUS
    <2>2. E(i).hash = EntryHash(Parsed(i, now), r)
      BY DEF Entry
    <2> QED BY <2>1, <2>2, ItemEntry
  <1>2. IsFiniteSet(items)
    BY IdentityAssumption, FS_Subset
  <1>3. make \in Surjection(items, all)
    BY DEF Surjection
  <1>4. entries \in SUBSET all
    OBVIOUS
  <1>5. IsFiniteSet(entries)
    <2> HIDE DEF make, all
    <2> QED BY <1>2, <1>3, <1>4, FS_Surjection, FS_Subset
  <1>6. \A e \in entries : e \in EntryType /\ e.hash = EntryHash(e, r)
    <2> SUFFICES ASSUME NEW e \in entries PROVE e \in EntryType /\ e.hash = EntryHash(e, r)
      OBVIOUS
    <2>1. PICK i \in items : e = E(i)
      OBVIOUS
    <2> HIDE DEF E, make
    <2> QED BY <1>1, <2>1
  <1> QED BY <1>5, <1>6

\* AppendEntries adds some of the batch, none with a hash the feed has, no two with
\* the same.
LEMMA NewEntriesProperties ==
    ASSUME NEW f \in Feeds, NEW entries \in SUBSET EntryType, IsFiniteSet(entries)
    PROVE  LET new == NewEntries(f, entries) IN
           /\ new \in SUBSET entries
           /\ \A e \in new : e.hash \notin StoredHashes(f)
           /\ SetToSeq(new) \in Seq(new)
           /\ \A i, j \in DOMAIN SetToSeq(new) :
                SetToSeq(new)[i].hash = SetToSeq(new)[j].hash => i = j
           /\ Len(SetToSeq(new)) = Cardinality(new)
  <1> DEFINE fresh == {e \in entries : e.hash \notin StoredHashes(f)}
             pick(h) == CHOOSE e \in fresh : e.hash = h
             new == NewEntries(f, entries)
             q == SetToSeq(new)
  <1>1. ASSUME NEW h \in {e.hash : e \in fresh} PROVE pick(h) \in fresh /\ pick(h).hash = h
    OBVIOUS
  <1>2. new = {pick(h) : h \in {e.hash : e \in fresh}}
    BY DEF NewEntries
  <1> HIDE DEF pick, new
  <1>3. \A e \in new : e \in fresh /\ e = pick(e.hash)
    BY <1>1, <1>2
  <1>4. new \in SUBSET entries /\ \A e \in new : e.hash \notin StoredHashes(f)
    BY <1>3
  <1>5. IsFiniteSet(new)
    BY <1>4, FS_Subset
  <1>6. /\ Cardinality(new) \in Nat /\ q \in [1..Cardinality(new) -> new]
        /\ \A i, j \in 1..Cardinality(new) : q[i] = q[j] => i = j
    BY <1>5, SetToSeqProperties
  <1> HIDE DEF q
  <1>7. q \in Seq(new) /\ DOMAIN q = 1..Cardinality(new) /\ Len(q) = Cardinality(new)
    BY <1>6
  <1>8. \A i, j \in DOMAIN q : q[i].hash = q[j].hash => i = j
    BY <1>3, <1>6, <1>7
  <1> QED BY <1>4, <1>7, <1>8 DEF new, q

-----------------------------------------------------------------------------
(* The remapping of the logs.                                              *)

LogLine == [on : BOOLEAN, hash : Hashes]

LEMMA Largest ==
    ASSUME NEW n \in Nat, NEW S \in SUBSET (1..n), S # {}
    PROVE  \E m \in S : \A k \in S : k <= m
  <1> DEFINE T == {n - k : k \in S}
  <1>1. \A k \in S : k \in Nat /\ n - k \in Nat
    OBVIOUS
  <1>2. T \in SUBSET Nat /\ T # {}
    BY <1>1
  <1>3. PICK t \in T : \A u \in T : t <= u
    <2> HIDE DEF T
    <2> QED BY <1>2, Smallest
  <1>4. PICK m \in S : t = n - m
    OBVIOUS
  <1>5. ASSUME NEW k \in S PROVE k <= m
    <2>1. n - m <= n - k
      BY <1>3, <1>4
    <2> QED BY <1>1, <2>1
  <1> QED BY <1>5

\* A hash is remapped as some entry that has it, if any has.
LEMMA RemapIs ==
    ASSUME NEW h, files \in [Feeds -> Seq(EntryType)]
    PROVE  \/ /\ Remap(h) = h
              /\ \A f \in Feeds : \A i \in DOMAIN files[f] : i <= MaxEntries => files[f][i].hash # h
           \/ \E f \in Feeds : \E i \in DOMAIN files[f] :
                files[f][i].hash = h /\ Remap(h) = NewHash(f, files[f][i])
  <1> DEFINE File(p) == files[FeedOrder[p[1]]]
             at == {p \in (DOMAIN FeedOrder) \X (1..MaxEntries) :
                      p[2] \in DOMAIN File(p) /\ File(p)[p[2]].hash = h}
             last == CHOOSE p \in at : \A q \in at : q[1] < p[1] \/ (q[1] = p[1] /\ q[2] <= p[2])
  <1>1. Remap(h) = IF at = {} THEN h ELSE NewHash(FeedOrder[last[1]], File(last)[last[2]])
    BY DEF Remap
  <1>2. /\ Len(FeedOrder) \in Nat /\ DOMAIN FeedOrder = 1..Len(FeedOrder) /\ MaxEntries \in Nat
        /\ \A n \in DOMAIN FeedOrder : FeedOrder[n] \in Feeds
        /\ \A f \in Feeds : \E n \in DOMAIN FeedOrder : f = FeedOrder[n]
    <2>1. FeedOrder \in Seq(Feeds) /\ Range(FeedOrder) = Feeds
      BY MigrationAssumption
    <2>2. Len(FeedOrder) \in Nat /\ DOMAIN FeedOrder = 1..Len(FeedOrder)
      BY <2>1, LenProperties
    <2> QED BY <2>1, <2>2, IdentityAssumption DEF Range
  <1>3. CASE at = {}
    <2>1. ASSUME NEW f \in Feeds, NEW i \in DOMAIN files[f], i <= MaxEntries, files[f][i].hash = h
          PROVE  FALSE
      <3>1. PICK n \in DOMAIN FeedOrder : f = FeedOrder[n]
        BY <1>2
      <3>2. i \in 1..MaxEntries
        <4>1. files[f] \in Seq(EntryType)
          OBVIOUS
        <4>2. Len(files[f]) \in Nat /\ DOMAIN files[f] = 1..Len(files[f])
          BY <4>1, LenProperties
        <4> QED BY <1>2, <2>1, <4>2
      <3>3. <<n, i>> \in at
        BY <2>1, <3>1, <3>2
      <3> QED BY <1>3, <3>3
    <2>2. Remap(h) = h
      BY <1>1, <1>3
    <2> QED BY <2>1, <2>2
  <1>4. CASE at # {}
    <2> DEFINE A == {p[1] : p \in at}
    <2>1. A \in SUBSET (1..Len(FeedOrder)) /\ A # {}
      BY <1>2, <1>4
    <2>2. PICK a \in A : \A b \in A : b <= a
      <3> HIDE DEF A
      <3> QED BY <1>2, <2>1, Largest
    <2> DEFINE B == {p[2] : p \in {q \in at : q[1] = a}}
    <2>3. B \in SUBSET (1..MaxEntries) /\ B # {}
      BY <2>2
    <2>4. PICK b \in B : \A c \in B : c <= b
      <3> HIDE DEF B
      <3> QED BY <1>2, <2>3, Largest
    <2>5. PICK p \in at : p[1] = a /\ p[2] = b
      OBVIOUS
    <2>6. ASSUME NEW q \in at PROVE q[1] < p[1] \/ (q[1] = p[1] /\ q[2] <= p[2])
      <3>1. q[1] \in A /\ q[1] <= a /\ q[1] \in Nat /\ a \in Nat
        <4>1. q[1] \in A /\ q[1] <= a
          BY <2>2
        <4> HIDE DEF A
        <4> QED BY <1>2, <2>1, <2>2, <4>1
      <3>2. CASE q[1] = a
        <4>1. q[2] \in B
          BY <3>2
        <4> QED BY <2>4, <2>5, <3>2, <4>1
      <3>3. CASE q[1] # a
        BY <2>5, <3>1, <3>3
      <3> QED BY <3>2, <3>3
    <2>7. last \in at
      BY <2>6
    <2> HIDE DEF last
    <2>8. last[1] \in DOMAIN FeedOrder /\ last[2] \in DOMAIN File(last) /\ File(last)[last[2]].hash = h
      BY <2>7
    <2>9. Remap(h) = NewHash(FeedOrder[last[1]], File(last)[last[2]])
      BY <1>1, <1>4 DEF last
    <2> QED BY <1>2, <2>8, <2>9
  <1> QED BY <1>3, <1>4

LEMMA RemapType ==
    ASSUME NEW h \in Hashes, files \in [Feeds -> Seq(EntryType)], sticky \in [Feeds -> SUBSET Stems]
    PROVE  Remap(h) \in Hashes
  <1>1. ASSUME NEW f \in Feeds, NEW i \in DOMAIN files[f] PROVE NewHash(f, files[f][i]) \in Hashes
    <2>1. files[f] \in Seq(EntryType) /\ sticky[f] \in SUBSET Stems
      OBVIOUS
    <2>2. StickyPlan(f) \in SUBSET Stems
      BY <2>1, StickyPlanType
    <2>3. files[f][i] \in EntryType
      BY <2>1, LenProperties
    <2> QED BY <2>2, <2>3, EntryHashType DEF NewHash
  <1> QED BY <1>1, RemapIs

\* The part of a sequence at some of its places is a sequence.
LEMMA PartType ==
    ASSUME NEW S, NEW s \in Seq(S), NEW I \in SUBSET DOMAIN s
    PROVE  /\ Part(s, I) \in Seq(S)
           /\ Cardinality(I) \in Nat /\ DOMAIN Part(s, I) = 1..Cardinality(I)
           /\ InOrder(I) \in [1..Cardinality(I) -> I]
           /\ \A n \in 1..Cardinality(I) : Part(s, I)[n] = s[InOrder(I)[n]]
           /\ \A i \in I : \E n \in 1..Cardinality(I) : InOrder(I)[n] = i
           /\ \A m, n \in 1..Cardinality(I) : m < n => InOrder(I)[m] < InOrder(I)[n]
  <1>1. Len(s) \in Nat /\ DOMAIN s = 1..Len(s) /\ \A i \in DOMAIN s : s[i] \in S
    BY LenProperties
  <1>2. I \in SUBSET Nat /\ IsFiniteSet(I)
    <2>1. IsFiniteSet(DOMAIN s) /\ DOMAIN s \in SUBSET Nat
      BY <1>1, FS_Interval
    <2> QED BY <2>1, FS_Subset
  <1>3. /\ Cardinality(I) \in Nat
        /\ InOrder(I) \in [1..Cardinality(I) -> I]
        /\ \A i \in I : \E n \in 1..Cardinality(I) : InOrder(I)[n] = i
        /\ \A m, n \in 1..Cardinality(I) : m < n => InOrder(I)[m] < InOrder(I)[n]
    BY <1>2, InOrderProperties
  <1>4. Part(s, I) = [n \in 1..Cardinality(I) |-> s[InOrder(I)[n]]]
    BY DEF Part
  <1>5. Part(s, I) \in [1..Cardinality(I) -> S]
    BY <1>1, <1>3, <1>4
  <1>6. Part(s, I) \in Seq(S)
    BY <1>3, <1>5
  <1>7. DOMAIN Part(s, I) = 1..Cardinality(I)
    BY <1>4
  <1>8. \A n \in 1..Cardinality(I) : Part(s, I)[n] = s[InOrder(I)[n]]
    BY <1>4
  <1> HIDE DEF Part, InOrder
  <1> QED BY <1>3, <1>6, <1>7, <1>8

LEMMA RemappedLogType ==
    ASSUME NEW k \in Kinds, files \in [Feeds -> Seq(EntryType)],
           sticky \in [Feeds -> SUBSET Stems], log \in [Kinds -> Seq(LogLine)]
    PROVE  RemappedLog(k) \in Seq(LogLine)
  <1> DEFINE remapped == [i \in DOMAIN log[k] |-> [log[k][i] EXCEPT !.hash = Remap(@)]]
             Positive(hash) == \E m \in CollapseMembers(hash) : On(log[k], m)
             I == {i \in DOMAIN remapped : remapped[i].on \/ ~Positive(remapped[i].hash)}
  <1>1. Len(log[k]) \in Nat /\ DOMAIN log[k] = 1..Len(log[k])
        /\ \A i \in DOMAIN log[k] : log[k][i] \in LogLine
    <2>1. log[k] \in Seq(LogLine)
      OBVIOUS
    <2> QED BY <2>1, LenProperties
  <1>2. ASSUME NEW i \in DOMAIN log[k] PROVE [log[k][i] EXCEPT !.hash = Remap(@)] \in LogLine
    <2>1. Remap(log[k][i].hash) \in Hashes
      BY <1>1, RemapType DEF LogLine
    <2> QED BY <1>1, <2>1 DEF LogLine
  <1>3. remapped \in Seq(LogLine)
    <2>1. remapped \in [1..Len(log[k]) -> LogLine]
      BY <1>1, <1>2
    <2> QED BY <1>1, <2>1
  <1>4. RemappedLog(k) = Part(remapped, I)
    BY DEF RemappedLog
  <1> HIDE DEF remapped
  <1> QED BY <1>3, <1>4, PartType

-----------------------------------------------------------------------------
(* Types.                                                                  *)

Migrating == step \in {"files", "sticky", "starred", "marker"}

MigrationTypeInv ==
    /\ files \in [Feeds -> Seq(EntryType)]
    /\ sticky \in [Feeds -> SUBSET Stems]
    /\ log \in [Kinds -> Seq(LogLine)]
    /\ polls \in Nat
    /\ step \in {"idle", "append"} \/ Migrating
    /\ step # "idle" \/ marker => upgraded
    /\ step = "append" =>
        /\ batch.feed \in Feeds
        /\ batch.entries \in SUBSET EntryType /\ IsFiniteSet(batch.entries)
        /\ \A e \in batch.entries : e.hash = EntryHash(e, sticky[batch.feed])
    /\ Migrating =>
        /\ ~marker
        /\ plan.files \in [Feeds -> Seq(EntryType)]
        /\ plan.sticky \in [Feeds -> SUBSET Stems]
        /\ plan.log \in [Kinds -> Seq(LogLine)]

LEMMA MigrationTypeInit == MigrationInit => MigrationTypeInv
  BY DEF MigrationInit, IdInit, MigrationTypeInv, Migrating

\* What the polls and earlier versions do to the disk.
LEMMA OldPollTypes ==
    ASSUME MigrationTypeInv, NEW f \in Feeds, NEW item \in Published[f],
           NEW reused \in SUBSET {NormalizeGUID(item.guid)}, OldPoll(f, item, reused)
    PROVE  /\ files' \in [Feeds -> Seq(EntryType)]
           /\ ~upgraded /\ step = "idle" /\ ~marker
           /\ polls' \in Nat
  <1> DEFINE e == Entry(item, EntryHash(item, reused), polls')
  <1>1. polls' \in Nat /\ polls' = polls + 1
    BY DEF OldPoll, MigrationTypeInv
  <1>2. NormalizeGUID(item.guid) \in Stems
    BY ItemEntry, <1>1
  <1>3. e \in EntryType
    BY <1>1, <1>2, ItemEntry
  <1>4. files[f] \in Seq(EntryType)
    BY DEF MigrationTypeInv
  <1>5. files' = [files EXCEPT ![f] = Append(@, e)]
    BY DEF OldPoll
  <1> HIDE DEF e
  <1>6. Append(files[f], e) \in Seq(EntryType)
    BY <1>3, <1>4
  <1> QED BY <1>1, <1>5, <1>6 DEF OldPoll, MigrationTypeInv

LEMMA AssignTypes ==
    ASSUME MigrationTypeInv, NEW f \in Feeds, NEW items \in SUBSET Published[f],
           AssignEntryHashesForFeed(f, items)
    PROVE  /\ sticky' \in [Feeds -> SUBSET Stems]
           /\ \A g \in Feeds : sticky[g] \subseteq sticky'[g]
           /\ polls' \in Nat
           /\ batch'.feed \in Feeds
           /\ batch'.entries \in SUBSET EntryType /\ IsFiniteSet(batch'.entries)
           /\ \A e \in batch'.entries : e.hash = EntryHash(e, sticky'[batch'.feed])
  <1> DEFINE parsed == {Parsed(i, polls + 1) : i \in items}
  <1>1. polls + 1 \in Nat /\ polls' = polls + 1
    BY DEF AssignEntryHashesForFeed, MigrationTypeInv
  <1>2. ReusedInBatch(parsed) \in SUBSET Stems
    BY <1>1, ReusedType
  <1>3. sticky' = [sticky EXCEPT ![f] = @ \cup ReusedInBatch(parsed)]
    BY DEF AssignEntryHashesForFeed
  <1>4. sticky \in [Feeds -> SUBSET Stems]
    BY DEF MigrationTypeInv
  <1>5. batch' = [feed |-> f,
                  entries |-> {Entry(i, EntryHash(i, sticky'[f]), polls') : i \in parsed}]
    BY DEF AssignEntryHashesForFeed
  <1>6. PICK r \in SUBSET Stems : r = sticky'[f]
    BY <1>2, <1>3, <1>4
  <1>7. batch'.feed = f
        /\ batch'.entries = {Entry(i, EntryHash(i, r), polls + 1) : i \in parsed}
    BY <1>1, <1>5, <1>6
  <1>8. /\ batch'.entries \in SUBSET EntryType /\ IsFiniteSet(batch'.entries)
        /\ \A e \in batch'.entries : e.hash = EntryHash(e, r)
    <2>1. PICK now \in Nat : now = polls + 1
      BY <1>1
    <2>2. PICK B : B = batch'.entries
      OBVIOUS
    <2>3. \A e \in B : \E i \in items :
              e = Entry(Parsed(i, now), EntryHash(Parsed(i, now), r), now)
      BY <1>7, <2>1, <2>2
    <2>4. /\ B \in SUBSET EntryType /\ IsFiniteSet(B)
          /\ \A e \in B : e.hash = EntryHash(e, r)
      BY <2>3, BatchProperties
    <2> QED BY <2>2, <2>4
  <1>9. /\ sticky' \in [Feeds -> SUBSET Stems]
        /\ \A g \in Feeds : sticky[g] \subseteq sticky'[g]
    BY <1>2, <1>3, <1>4
  <1> QED BY <1>1, <1>6, <1>7, <1>8, <1>9

\* AppendEntries puts some of the batch after what is there.
LEMMA AppendTypes ==
    ASSUME MigrationTypeInv, AppendEntries
    PROVE  \E f \in Feeds : \E new \in Seq(batch.entries) :
             /\ f = batch.feed /\ new \in Seq(EntryType)
             /\ files' = [files EXCEPT ![f] = @ \o new]
             /\ files[f] \o new \in Seq(EntryType)
             /\ Len(files[f]) + Len(new) <= MaxEntries
             /\ \A i \in DOMAIN new : new[i].hash \notin StoredHashes(f)
             /\ \A i, j \in DOMAIN new : new[i].hash = new[j].hash => i = j
  <1> DEFINE f == batch.feed
             N == NewEntries(f, batch.entries)
             new == SetToSeq(N)
  <1>1. f \in Feeds /\ batch.entries \in SUBSET EntryType /\ IsFiniteSet(batch.entries)
    BY DEF AppendEntries, MigrationTypeInv
  <1>2. /\ N \in SUBSET batch.entries
        /\ \A e \in N : e.hash \notin StoredHashes(f)
        /\ new \in Seq(N)
        /\ \A i, j \in DOMAIN new : new[i].hash = new[j].hash => i = j
        /\ Len(new) = Cardinality(N)
    BY <1>1, NewEntriesProperties
  <1>3. /\ files' = [files EXCEPT ![f] = @ \o new]
        /\ Len(files[f]) + Cardinality(N) <= MaxEntries
    BY DEF AppendEntries
  <1> HIDE DEF f, N, new
  <1>4. Len(new) \in Nat /\ DOMAIN new = 1..Len(new) /\ \A i \in DOMAIN new : new[i] \in N
    BY <1>2, LenProperties
  <1>5. new \in Seq(batch.entries) /\ new \in Seq(EntryType)
    <2>1. new \in [1..Len(new) -> batch.entries] /\ new \in [1..Len(new) -> EntryType]
      <3>1. new \in [1..Len(new) -> N]
        BY <1>2, LenProperties
      <3> QED BY <1>1, <1>2, <1>4, <3>1
    <2> QED BY <1>4, <2>1
  <1>6. files[f] \o new \in Seq(EntryType)
    <2>1. files[f] \in Seq(EntryType)
      BY <1>1 DEF MigrationTypeInv
    <2> QED BY <1>5, <2>1, ConcatProperties
  <1>7. /\ \A i \in DOMAIN new : new[i].hash \notin StoredHashes(f)
        /\ Len(files[f]) + Len(new) <= MaxEntries
    BY <1>2, <1>3, <1>4
  <1> QED BY <1>1, <1>2, <1>3, <1>5, <1>6, <1>7 DEF f

LEMMA PlanTypes ==
    ASSUME MigrationTypeInv
    PROVE  /\ Plan.files \in [Feeds -> Seq(EntryType)]
           /\ Plan.sticky \in [Feeds -> SUBSET Stems]
           /\ Plan.log \in [Kinds -> Seq(LogLine)]
           /\ \A f \in Feeds : Plan.files[f] = NewFile(f) /\ Plan.sticky[f] = StickyPlan(f)
           /\ \A k \in Kinds : Plan.log[k] = RemappedLog(k)
           /\ Plan.before = [files |-> files, log |-> log]
  <1>1. ASSUME NEW f \in Feeds
        PROVE  NewFile(f) \in Seq(EntryType) /\ StickyPlan(f) \in SUBSET Stems
    BY NewFileProperties, StickyPlanType DEF MigrationTypeInv
  <1>2. \A k \in Kinds : RemappedLog(k) \in Seq(LogLine)
    BY RemappedLogType DEF MigrationTypeInv
  <1>3. /\ Plan.files = [f \in Feeds |-> NewFile(f)]
        /\ Plan.sticky = [f \in Feeds |-> StickyPlan(f)]
        /\ Plan.log = [k \in Kinds |-> RemappedLog(k)]
        /\ Plan.before = [files |-> files, log |-> log]
    BY DEF Plan
  <1> QED BY <1>1, <1>2, <1>3

\* A flag is set on a stored entry.
LEMMA FlagTypes ==
    ASSUME MigrationTypeInv, NEW k \in Kinds, NEW want \in BOOLEAN, NEW hash, SetFlag(k, hash, want)
    PROVE  /\ log' \in [Kinds -> Seq(LogLine)]
           /\ \E f \in Feeds : hash \in StoredHashes(f)
  <1>1. PICK f \in Feeds : hash \in StoredHashes(f)
    BY DEF SetFlag
  <1>2. files[f] \in Seq(EntryType) /\ log[k] \in Seq(LogLine)
    BY DEF MigrationTypeInv
  <1>3. PICK i \in DOMAIN files[f] : hash = files[f][i].hash
    BY <1>1 DEF StoredHashes
  <1>4. hash \in Hashes
    <2>1. files[f][i] \in EntryType
      BY <1>2, LenProperties
    <2> QED BY <1>3, <2>1 DEF EntryType
  <1> DEFINE line == [on |-> want, hash |-> hash]
  <1>5. line \in LogLine
    BY <1>4 DEF LogLine
  <1>6. log' = [log EXCEPT ![k] = Append(@, line)]
    BY DEF SetFlag
  <1> HIDE DEF line
  <1>7. Append(log[k], line) \in Seq(LogLine)
    BY <1>2, <1>5
  <1> QED BY <1>1, <1>6, <1>7 DEF MigrationTypeInv

LEMMA MigrationTypeStep ==
    MigrationTypeInv /\ [MigrationNext]_allVars => MigrationTypeInv'
  <1> SUFFICES ASSUME MigrationTypeInv, [MigrationNext]_allVars PROVE MigrationTypeInv'
    OBVIOUS
  <1>1. CASE IdNext /\ UNCHANGED migrationVars
    <2>1. ASSUME NEW f \in Feeds, NEW item \in Published[f],
                 NEW reused \in SUBSET {NormalizeGUID(item.guid)}, OldPoll(f, item, reused)
          PROVE  MigrationTypeInv'
      <3>1. /\ files' \in [Feeds -> Seq(EntryType)]
            /\ ~upgraded /\ step = "idle" /\ ~marker /\ polls' \in Nat
        BY <2>1, OldPollTypes
      <3>2. UNCHANGED <<sticky, log, upgraded, step, batch, marker>>
        BY <1>1, <2>1 DEF OldPoll, migrationVars
      <3> QED BY <3>1, <3>2 DEF MigrationTypeInv, Migrating
    <2>2. CASE Upgrade
      BY <1>1, <2>2 DEF Upgrade, MigrationTypeInv, Migrating, idDisk, migrationVars
    <2>3. ASSUME NEW k \in Kinds, NEW want \in BOOLEAN, NEW hash, SetFlag(k, hash, want)
          PROVE  MigrationTypeInv'
      <3>1. log' \in [Kinds -> Seq(LogLine)]
        BY <2>3, FlagTypes
      <3>2. UNCHANGED <<files, sticky, upgraded, step, batch, polls, plan, marker>>
        BY <1>1, <2>3 DEF SetFlag, migrationVars
      <3> QED BY <3>1, <3>2 DEF MigrationTypeInv, Migrating
    <2>4. ASSUME NEW f \in Feeds, NEW items \in SUBSET Published[f], AssignEntryHashesForFeed(f, items)
          PROVE  MigrationTypeInv'
      <3>1. /\ sticky' \in [Feeds -> SUBSET Stems] /\ polls' \in Nat
            /\ batch'.feed \in Feeds
            /\ batch'.entries \in SUBSET EntryType /\ IsFiniteSet(batch'.entries)
            /\ \A e \in batch'.entries : e.hash = EntryHash(e, sticky'[batch'.feed])
        BY <2>4, AssignTypes
      <3>2. /\ UNCHANGED <<files, log, upgraded, plan, marker>>
            /\ upgraded /\ step' = "append"
        BY <1>1, <2>4 DEF AssignEntryHashesForFeed, migrationVars
      <3> QED BY <3>1, <3>2 DEF MigrationTypeInv, Migrating
    <2>5. CASE AppendEntries
      <3>1. files' \in [Feeds -> Seq(EntryType)]
        <4>1. PICK f \in Feeds, new \in Seq(batch.entries) :
                /\ files' = [files EXCEPT ![f] = @ \o new]
                /\ files[f] \o new \in Seq(EntryType)
          BY <2>5, AppendTypes
        <4> QED BY <4>1 DEF MigrationTypeInv
      <3>2. UNCHANGED <<sticky, log, upgraded, polls, marker>> /\ step = "append" /\ step' = "idle"
        BY <1>1, <2>5 DEF AppendEntries, migrationVars
      <3> QED BY <3>1, <3>2 DEF MigrationTypeInv, Migrating
    <2>6. CASE PollDies
      BY <1>1, <2>6 DEF PollDies, MigrationTypeInv, Migrating, idDisk, migrationVars
    <2> QED BY <1>1, <2>1, <2>2, <2>3, <2>4, <2>5, <2>6 DEF IdNext
  <1>2. CASE MigrateIdentity
    <2>1. /\ Plan.files \in [Feeds -> Seq(EntryType)]
          /\ Plan.sticky \in [Feeds -> SUBSET Stems]
          /\ Plan.log \in [Kinds -> Seq(LogLine)]
      BY PlanTypes
    <2>2. /\ plan' = Plan /\ step' = "files" /\ ~marker /\ upgraded
          /\ UNCHANGED <<files, sticky, log, upgraded, polls, marker>>
      BY <1>2 DEF MigrateIdentity, idDisk
    <2> HIDE DEF Plan
    <2> QED BY <2>1, <2>2 DEF MigrationTypeInv, Migrating
  <1>3. ASSUME NEW f \in Feeds, RewriteFile(f)
        PROVE  MigrationTypeInv'
    BY <1>3 DEF RewriteFile, MigrationTypeInv, Migrating
  <1>4. ASSUME NEW f \in Feeds, SaveStickyGUIDs(f)
        PROVE  MigrationTypeInv'
    BY <1>4 DEF SaveStickyGUIDs, MigrationTypeInv, Migrating
  <1>5. CASE FilesDone
    BY <1>5 DEF FilesDone, MigrationTypeInv, Migrating, idDisk
  <1>6. CASE RemapReadLog
    BY <1>6 DEF RemapReadLog, MigrationTypeInv, Migrating, Kinds
  <1>7. CASE RemapStarredLog
    BY <1>7 DEF RemapStarredLog, MigrationTypeInv, Migrating, Kinds
  <1>8. CASE WriteIdentityMarker
    BY <1>8 DEF WriteIdentityMarker, MigrationTypeInv, Migrating, idDisk
  <1>9. CASE MigrationStops
    BY <1>9 DEF MigrationStops, MigrationTypeInv, Migrating, idDisk
  <1>10. CASE UNCHANGED allVars
    BY <1>10 DEF allVars, idVars, idDisk, migrationVars, MigrationTypeInv, Migrating
  <1> QED BY <1>1, <1>2, <1>3, <1>4, <1>5, <1>6, <1>7, <1>8, <1>9, <1>10 DEF MigrationNext

LEMMA MigrationTypeCorrect == MigrationSpec => []MigrationTypeInv
  BY MigrationTypeInit, MigrationTypeStep, PTL DEF MigrationSpec

-----------------------------------------------------------------------------
(* A run of the migration.                                                 *)

\* Every entry of the old file is in the new one, or another with its new hash that
\* is not younger.
Covers(new, old, reused) ==
    \A e \in Range(old) : \E d \in Range(new) : d.hash = EntryHash(e, reused) /\ d.at <= e.at

\* The files written are those of the plan and no set shrinks: a file that has still
\* to be written is covered by its new form.
PlanInv ==
    Migrating =>
        /\ \A f \in Feeds : Migrated(plan.files[f], plan.sticky[f]) /\ sticky[f] \subseteq plan.sticky[f]
        /\ \A f \in Feeds :
               IF step = "files" /\ f \in todo
                   THEN Covers(plan.files[f], files[f], plan.sticky[f])
                   ELSE files[f] = plan.files[f]
        /\ step = "sticky" => \A f \in Feeds \ todo : sticky[f] = plan.sticky[f]
        /\ step \in {"starred", "marker"} => sticky = plan.sticky

LEMMA PlanInit == MigrationInit => PlanInv
  BY DEF MigrationInit, IdInit, PlanInv, Migrating

\* What a run plans.
LEMMA PlanStart ==
    ASSUME MigrationTypeInv, NEW f \in Feeds
    PROVE  /\ Migrated(Plan.files[f], Plan.sticky[f])
           /\ sticky[f] \subseteq Plan.sticky[f]
           /\ Covers(Plan.files[f], files[f], Plan.sticky[f])
           /\ files[f] = <<>> => Plan.files[f] = <<>>
  <1>1. Plan.files[f] = NewFile(f) /\ Plan.sticky[f] = StickyPlan(f)
    BY PlanTypes
  <1>2. files[f] \in Seq(EntryType) /\ sticky[f] \in SUBSET Stems
    BY DEF MigrationTypeInv
  <1>3. /\ NewFile(f) \in Seq(EntryType)
        /\ Migrated(NewFile(f), StickyPlan(f))
        /\ \A n \in DOMAIN NewFile(f) : \E e \in EntriesOf(f) :
             NewFile(f)[n] = [e EXCEPT !.hash = NewHash(f, e)]
        /\ \A e \in EntriesOf(f) : \E n \in DOMAIN NewFile(f) :
             NewFile(f)[n].hash = NewHash(f, e) /\ NewFile(f)[n].at <= e.at
    BY <1>2, NewFileProperties
  <1>4. sticky[f] \subseteq StickyPlan(f)
    BY DEF StickyPlan
  <1>5. Covers(NewFile(f), files[f], StickyPlan(f))
    <2>1. \A e \in EntriesOf(f) : NewHash(f, e) = EntryHash(e, StickyPlan(f))
      BY DEF NewHash
    <2> QED BY <1>3, <2>1 DEF Covers, Range, EntriesOf
  <1>6. ASSUME files[f] = <<>> PROVE NewFile(f) = <<>>
    <2>1. EntriesOf(f) = {}
      BY <1>6 DEF EntriesOf, Range
    <2>2. DOMAIN NewFile(f) = {}
      BY <1>3, <2>1
    <2>3. Len(NewFile(f)) \in Nat /\ DOMAIN NewFile(f) = 1..Len(NewFile(f))
      BY <1>3, LenProperties
    <2>4. Len(NewFile(f)) = 0
      BY <2>2, <2>3
    <2> QED BY <1>3, <2>4, EmptySeq
  <1> QED BY <1>1, <1>3, <1>4, <1>5, <1>6

LEMMA PlanStep ==
    MigrationTypeInv /\ PlanInv /\ [MigrationNext]_allVars => PlanInv'
  <1> SUFFICES ASSUME MigrationTypeInv, PlanInv, [MigrationNext]_allVars PROVE PlanInv'
    OBVIOUS
  <1>1. CASE IdNext /\ UNCHANGED migrationVars
    <2>1. step' \in {"idle", "append"} \/ UNCHANGED <<step, files, sticky>>
      BY <1>1 DEF IdNext, OldPoll, Upgrade, SetFlag, AssignEntryHashesForFeed, AppendEntries, PollDies,
                  MigrationTypeInv, idDisk
    <2>2. ~Migrating
      BY <1>1 DEF IdNext, OldPoll, Upgrade, SetFlag, AssignEntryHashesForFeed, AppendEntries, PollDies,
                  MigrationTypeInv, Migrating
    <2> QED BY <2>1, <2>2 DEF PlanInv, Migrating
  <1>2. CASE MigrateIdentity
    <2>1. /\ plan' = Plan /\ step' = "files" /\ UNCHANGED <<files, sticky>>
          /\ todo' = {f \in Feeds : files[f] # <<>>}
      BY <1>2 DEF MigrateIdentity, idDisk
    <2>2. ASSUME NEW f \in Feeds
          PROVE  /\ Migrated(plan'.files[f], plan'.sticky[f]) /\ sticky'[f] \subseteq plan'.sticky[f]
                 /\ IF f \in todo' THEN Covers(plan'.files[f], files'[f], plan'.sticky[f])
                                   ELSE files'[f] = plan'.files[f]
      <3>1. /\ Migrated(Plan.files[f], Plan.sticky[f])
            /\ sticky[f] \subseteq Plan.sticky[f]
            /\ Covers(Plan.files[f], files[f], Plan.sticky[f])
            /\ files[f] = <<>> => Plan.files[f] = <<>>
        BY PlanStart
      <3> HIDE DEF Plan
      <3> QED BY <2>1, <3>1
    <2> QED BY <2>1, <2>2 DEF PlanInv, Migrating
  <1>3. ASSUME NEW f \in Feeds, RewriteFile(f)
        PROVE  PlanInv'
    BY <1>3 DEF RewriteFile, PlanInv, MigrationTypeInv, Migrating
  <1>4. ASSUME NEW f \in Feeds, SaveStickyGUIDs(f)
        PROVE  PlanInv'
    BY <1>4 DEF SaveStickyGUIDs, PlanInv, MigrationTypeInv, Migrating
  <1>5. CASE FilesDone
    BY <1>5 DEF FilesDone, PlanInv, MigrationTypeInv, Migrating, idDisk
  <1>6. CASE RemapReadLog
    <2>1. sticky = plan.sticky
      BY <1>6 DEF RemapReadLog, PlanInv, MigrationTypeInv, Migrating
    <2> QED BY <1>6, <2>1 DEF RemapReadLog, PlanInv, Migrating
  <1>7. CASE RemapStarredLog
    BY <1>7 DEF RemapStarredLog, PlanInv, Migrating
  <1>8. CASE WriteIdentityMarker
    BY <1>8 DEF WriteIdentityMarker, PlanInv, Migrating
  <1>9. CASE MigrationStops
    BY <1>9 DEF MigrationStops, PlanInv, Migrating
  <1>10. CASE UNCHANGED allVars
    BY <1>10 DEF allVars, idVars, idDisk, migrationVars, PlanInv, Migrating
  <1> QED BY <1>1, <1>2, <1>3, <1>4, <1>5, <1>6, <1>7, <1>8, <1>9, <1>10 DEF MigrationNext

LEMMA PlanCorrect == MigrationSpec => [](MigrationTypeInv /\ PlanInv)
  BY MigrationTypeInit, MigrationTypeStep, PlanInit, PlanStep, PTL DEF MigrationSpec

-----------------------------------------------------------------------------
(* The articles.                                                           *)

\* No article is lost: while the files are rewritten an entry leaves its file only
\* for one of the same identity that is not younger (applyFileRewrites of what
\* stageFileRewrites has collapsed).
THEOREM NoArticleLost == MigrationSpec => ArticlesKept
  <1>1. ASSUME MigrationTypeInv, PlanInv, [MigrationNext]_allVars, step = "files",
               NEW f \in Feeds, NEW e \in EntriesOf(f)
        PROVE  \E d \in Range(files'[f]) :
                 /\ d.hash = EntryHash(e, plan.sticky[f]) \/ d.hash = e.hash
                 /\ d.at <= e.at
    <2>1. CASE files'[f] = files[f]
      <3>1. files[f] \in Seq(EntryType)
        BY <1>1 DEF MigrationTypeInv
      <3>2. e \in EntryType /\ e \in Range(files[f])
        BY <3>1, RangeFinite DEF EntriesOf
      <3>3. e.at <= e.at
        BY <3>2 DEF EntryType
      <3> QED BY <2>1, <3>2, <3>3
    <2>2. CASE files'[f] # files[f]
      <3>1. RewriteFile(f)
        BY <1>1, <2>2
        DEF MigrationNext, IdNext, OldPoll, SetFlag, AssignEntryHashesForFeed, AppendEntries, Upgrade,
            PollDies, MigrateIdentity, RewriteFile, SaveStickyGUIDs, FilesDone, RemapReadLog,
            RemapStarredLog, WriteIdentityMarker, MigrationStops, allVars, idVars, idDisk,
            MigrationTypeInv
      <3>2. files'[f] = plan.files[f] /\ f \in todo
        BY <1>1, <3>1 DEF RewriteFile, MigrationTypeInv
      <3>3. Covers(plan.files[f], files[f], plan.sticky[f])
        BY <1>1, <3>2 DEF PlanInv, Migrating
      <3> QED BY <1>1, <3>2, <3>3 DEF Covers, EntriesOf
    <2> QED BY <2>1, <2>2
  <1>2. MigrationTypeInv /\ PlanInv /\ [MigrationNext]_allVars =>
            [step = "files" =>
                \A f \in Feeds : \A e \in EntriesOf(f) :
                    \E d \in Range(files'[f]) :
                        /\ d.hash = EntryHash(e, plan.sticky[f]) \/ d.hash = e.hash
                        /\ d.at <= e.at]_allVars
    BY <1>1
  <1> QED BY <1>2, PlanCorrect, PTL DEF MigrationSpec, ArticlesKept

-----------------------------------------------------------------------------
(* The hashes of a migrated directory.                                     *)

\* The hash of an entry, once the directory is migrated.
Current(e, reused) ==
    \/ e.hash = EntryHash(e, reused)
    \/ NormalizeGUID(e.guid) \in reused /\ e.hash = EntryHash(e, {})

LEMMA CurrentGrows ==
    ASSUME NEW e, NEW r, NEW t, r \subseteq t, Current(e, r)
    PROVE  Current(e, t)
  BY HashGrows DEF Current

\* No entry of the file is stored under a guid after one stored under that guid and
\* its link.
InBasisOrder(file) ==
    \A i, j \in DOMAIN file :
        i < j /\ HasGuid(file[i]) /\ NormalizeGUID(file[i].guid) = NormalizeGUID(file[j].guid)
            => ~ (file[i].hash[1] = "guid and link" /\ file[j].hash[1] = "guid")

\* Of two entries with one guid the one with the hash of the whole sticky set is
\* never the one stored under the guid alone.
LEMMA BasisOfPair ==
    ASSUME NEW d, NEW e, NEW reused, HasGuid(d), NormalizeGUID(d.guid) = NormalizeGUID(e.guid),
           Current(d, reused), e.hash = EntryHash(e, reused),
           d.hash[1] = "guid and link", e.hash[1] = "guid"
    PROVE  FALSE
  <1>1. NormalizeGUID(d.guid) \in reused
    <2>1. CASE d.hash = EntryHash(d, reused)
      <3>1. NormalizeGUID(d.guid) \notin reused => d.hash[1] = "guid"
        BY <2>1 DEF EntryHash
      <3> QED BY <3>1
    <2>2. CASE NormalizeGUID(d.guid) \in reused
      BY <2>2
    <2> QED BY <2>1, <2>2 DEF Current
  <1>2. HasGuid(e)
    BY DEF HasGuid
  <1>3. e.hash[1] = "guid and link"
    <2>1. EntryHash(e, reused) = <<"guid and link", NormalizeGUID(e.guid), e.link>>
      BY <1>1, <1>2 DEF EntryHash
    <2>2. ASSUME NEW t, NEW a, NEW b, t = <<"guid and link", a, b>>
          PROVE  t[1] = "guid and link"
      BY <2>2
    <2>3. e.hash = <<"guid and link", NormalizeGUID(e.guid), e.link>>
      BY <2>1
    <2> HIDE DEF NormalizeGUID
    <2> QED BY ONLY <2>2, <2>3
  <1> QED BY <1>3

\* What a poll appends keeps both.
LEMMA AppendedHashes ==
    ASSUME NEW old \in Seq(EntryType), NEW new \in Seq(EntryType), NEW reused,
           \A i \in DOMAIN old : Current(old[i], reused), InBasisOrder(old),
           \A i \in DOMAIN new : new[i].hash = EntryHash(new[i], reused)
    PROVE  /\ \A i \in DOMAIN (old \o new) : Current((old \o new)[i], reused)
           /\ InBasisOrder(old \o new)
  <1> DEFINE all == old \o new
  <1>1. /\ Len(old) \in Nat /\ DOMAIN old = 1..Len(old)
        /\ Len(new) \in Nat /\ DOMAIN new = 1..Len(new)
    BY LenProperties
  <1>2. /\ DOMAIN all = 1..(Len(old) + Len(new))
        /\ \A i \in 1..(Len(old) + Len(new)) :
             all[i] = IF i <= Len(old) THEN old[i] ELSE new[i - Len(old)]
    <2>1. all \in Seq(EntryType) /\ Len(all) = Len(old) + Len(new)
          /\ \A i \in 1..(Len(old) + Len(new)) :
               all[i] = IF i <= Len(old) THEN old[i] ELSE new[i - Len(old)]
      BY ConcatProperties
    <2>2. DOMAIN all = 1..Len(all)
      BY <2>1, LenProperties
    <2> QED BY <2>1, <2>2
  <1> HIDE DEF all
  <1>3. ASSUME NEW i \in DOMAIN all
        PROVE  \/ i \in DOMAIN old /\ all[i] = old[i]
               \/ i > Len(old) /\ all[i].hash = EntryHash(all[i], reused)
    <2>1. i \in Nat
      BY <1>1, <1>2
    <2>2. CASE i <= Len(old)
      BY <1>1, <1>2, <2>1, <2>2
    <2>3. CASE ~(i <= Len(old))
      <3>1. i - Len(old) \in DOMAIN new /\ all[i] = new[i - Len(old)] /\ i > Len(old)
        BY <1>1, <1>2, <2>1, <2>3
      <3> QED BY <3>1
    <2> QED BY <2>2, <2>3
  <1>4. ASSUME NEW i \in DOMAIN all PROVE Current(all[i], reused)
    BY <1>3 DEF Current
  <1>5. ASSUME NEW i \in DOMAIN all, NEW j \in DOMAIN all, i < j, HasGuid(all[i]),
               NormalizeGUID(all[i].guid) = NormalizeGUID(all[j].guid),
               all[i].hash[1] = "guid and link", all[j].hash[1] = "guid"
        PROVE  FALSE
    <2>1. CASE j \in DOMAIN old /\ all[j] = old[j]
      <3>1. i \in Nat /\ j \in Nat /\ j <= Len(old)
        BY <1>1, <1>2, <2>1
      <3>2. i \in DOMAIN old /\ all[i] = old[i]
        <4>1. i < j /\ j <= Len(old) /\ Len(old) \in Nat
          BY <1>1, <1>5, <3>1
        <4>2. ~(i > Len(old))
          BY <3>1, <4>1
        <4> QED BY <1>3, <4>2
      <3> QED BY <1>5, <2>1, <3>2 DEF InBasisOrder
    <2>2. CASE all[j].hash = EntryHash(all[j], reused)
      BY <1>4, <1>5, <2>2, BasisOfPair
    <2> QED BY <1>3, <2>1, <2>2
  <1> QED BY <1>4, <1>5 DEF all, InBasisOrder

HashInv ==
    marker =>
        \A f \in Feeds :
            /\ \A i \in DOMAIN files[f] : Current(files[f][i], sticky[f])
            /\ InBasisOrder(files[f])

\* When the marker is written.
LEMMA MigratedHashes ==
    ASSUME NEW file, NEW reused, Migrated(file, reused)
    PROVE  (\A i \in DOMAIN file : Current(file[i], reused)) /\ InBasisOrder(file)
  <1>1. ASSUME NEW i \in DOMAIN file
        PROVE  Current(file[i], reused) /\ file[i].hash = EntryHash(file[i], reused)
    BY DEF Migrated, Current
  <1>2. ASSUME NEW i \in DOMAIN file, NEW j \in DOMAIN file, HasGuid(file[i]),
               NormalizeGUID(file[i].guid) = NormalizeGUID(file[j].guid),
               file[i].hash[1] = "guid and link", file[j].hash[1] = "guid"
        PROVE  FALSE
    BY <1>1, <1>2, BasisOfPair
  <1> QED BY <1>1, <1>2 DEF InBasisOrder

LEMMA HashStep ==
    MigrationTypeInv /\ PlanInv /\ HashInv /\ [MigrationNext]_allVars => HashInv'
  <1> SUFFICES ASSUME MigrationTypeInv, PlanInv, HashInv, [MigrationNext]_allVars, marker',
                      NEW f \in Feeds
               PROVE  /\ \A i \in DOMAIN files'[f] : Current(files'[f][i], sticky'[f])
                      /\ InBasisOrder(files'[f])
    BY DEF HashInv, InBasisOrder
  <1>1. CASE WriteIdentityMarker
    <2>1. files'[f] = plan.files[f] /\ sticky'[f] = plan.sticky[f]
      BY <1>1 DEF WriteIdentityMarker, PlanInv, Migrating, idDisk
    <2>2. Migrated(plan.files[f], plan.sticky[f])
      BY <1>1 DEF WriteIdentityMarker, PlanInv, Migrating
    <2> QED BY <2>1, <2>2, MigratedHashes
  <1>2. CASE ~WriteIdentityMarker
    <2>1. marker /\ ~Migrating /\ upgraded
      BY <1>2 DEF MigrationNext, IdNext, MigrateIdentity, RewriteFile, SaveStickyGUIDs, FilesDone,
                  RemapReadLog, RemapStarredLog, MigrationStops, allVars, migrationVars,
                  MigrationTypeInv, Migrating
    <2>2. /\ \A i \in DOMAIN files[f] : Current(files[f][i], sticky[f])
          /\ InBasisOrder(files[f])
      BY <2>1 DEF HashInv
    <2>3. ASSUME NEW g \in Feeds, NEW items \in SUBSET Published[g], AssignEntryHashesForFeed(g, items)
          PROVE  /\ \A i \in DOMAIN files'[f] : Current(files'[f][i], sticky'[f])
                 /\ InBasisOrder(files'[f])
      <3>1. sticky[f] \subseteq sticky'[f]
        BY <2>3, AssignTypes
      <3>2. files' = files
        BY <2>3 DEF AssignEntryHashesForFeed
      <3> QED BY <2>2, <3>1, <3>2, CurrentGrows
    <2>4. CASE AppendEntries
      <3>1. PICK new \in Seq(batch.entries) :
              /\ new \in Seq(EntryType)
              /\ files' = [files EXCEPT ![batch.feed] = @ \o new]
        BY <2>4, AppendTypes
      <3>2. sticky' = sticky
        BY <2>4 DEF AppendEntries
      <3>3. CASE f = batch.feed
        <4>1. files'[f] = files[f] \o new /\ files[f] \in Seq(EntryType)
          BY <3>1, <3>3 DEF MigrationTypeInv
        <4>2. \A i \in DOMAIN new : new[i].hash = EntryHash(new[i], sticky[f])
          <5>1. \A e \in batch.entries : e.hash = EntryHash(e, sticky[f])
            BY <2>4, <3>3 DEF AppendEntries, MigrationTypeInv
          <5>2. \A i \in DOMAIN new : new[i] \in batch.entries
            BY LenProperties
          <5> QED BY <5>1, <5>2
        <4>3. /\ \A i \in DOMAIN (files[f] \o new) : Current((files[f] \o new)[i], sticky[f])
              /\ InBasisOrder(files[f] \o new)
          BY <2>2, <3>1, <4>1, <4>2, AppendedHashes
        <4> QED BY <3>2, <4>1, <4>3
      <3>4. CASE f # batch.feed
        <4>1. files'[f] = files[f]
          BY <3>1, <3>4 DEF MigrationTypeInv
        <4> QED BY <2>2, <3>2, <4>1
      <3> QED BY <3>3, <3>4
    <2>5. CASE UNCHANGED <<files, sticky>>
      BY <2>2, <2>5
    <2> QED BY <1>2, <2>1, <2>3, <2>4, <2>5
        DEF MigrationNext, IdNext, OldPoll, Upgrade, SetFlag, PollDies, MigrateIdentity, RewriteFile,
            SaveStickyGUIDs, FilesDone, RemapReadLog, RemapStarredLog, MigrationStops, allVars, idVars,
            idDisk, Migrating
  <1> QED BY <1>1, <1>2

LEMMA HashCorrect == MigrationSpec => [](MigrationTypeInv /\ HashInv)
  <1>1. MigrationInit => HashInv
    BY DEF MigrationInit, HashInv
  <1> QED BY <1>1, MigrationTypeInit, MigrationTypeStep, PlanInit, PlanStep, HashStep, PTL
      DEF MigrationSpec

\* Once the directory is migrated every entry has the hash of its fields and the
\* sticky set, or was stored under its guid before the guid was found to be reused,
\* whatever polls fail or die (AssignEntryHashesForFeed).
THEOREM HashesStayCurrent == MigrationSpec => []HashesCurrent
  <1>1. MigrationTypeInv /\ HashInv => HashesCurrent
    BY DEF HashInv, HashesCurrent, Current, EntriesOf, Range
  <1> QED BY <1>1, HashCorrect, PTL

\* On a migrated directory no entry is stored under a guid after one that was stored
\* under the same guid and its link: a basis never flips back.
THEOREM BasisNeverFlipsBack == MigrationSpec => []NeverBack
  <1>1. HashInv => NeverBack
    BY DEF HashInv, NeverBack, InBasisOrder
  <1> QED BY <1>1, HashCorrect, PTL

-----------------------------------------------------------------------------
(* A second run of the migration.                                          *)

\* On a migrated file another run keeps every hash, and finds no copies.
LEMMA MigratedEntries ==
    ASSUME MigrationTypeInv, NEW f \in Feeds, Migrated(files[f], sticky[f])
    PROVE  /\ StickyPlan(f) = sticky[f]
           /\ \A i \in DOMAIN files[f] : NewHash(f, files[f][i]) = files[f][i].hash
           /\ \A i, j \in DOMAIN files[f] :
                NewHash(f, files[f][i]) = NewHash(f, files[f][j]) => i = j
  <1>1. StickyPlan(f) = sticky[f]
    <2>1. files[f] \in Seq(EntryType) /\ sticky[f] \in SUBSET Stems
      BY DEF MigrationTypeInv
    <2> QED BY <2>1, StickyPlanType DEF Migrated
  <1>2. \A i \in DOMAIN files[f] : NewHash(f, files[f][i]) = files[f][i].hash
    BY <1>1 DEF NewHash, Migrated
  <1> QED BY <1>1, <1>2 DEF Migrated

LEMMA MigratedFileFixed ==
    ASSUME MigrationTypeInv, NEW f \in Feeds, Migrated(files[f], sticky[f])
    PROVE  NewFile(f) = files[f]
  <1> DEFINE s == files[f]
             D == DOMAIN s
             I == {i \in D : \A j \in D : NewHash(f, s[j]) = NewHash(f, s[i]) => i <= j}
  <1>1. s \in Seq(EntryType) /\ sticky[f] \in SUBSET Stems
    BY DEF MigrationTypeInv
  <1>2. Len(s) \in Nat /\ D = 1..Len(s) /\ \A i \in D : s[i] \in EntryType /\ s[i] \in EntriesOf(f)
    BY <1>1, LenProperties DEF EntriesOf, Range
  <1>3. /\ \A i \in D : NewHash(f, s[i]) = s[i].hash
        /\ \A i, j \in D : NewHash(f, s[i]) = NewHash(f, s[j]) => i = j
    BY MigratedEntries
  <1>4. I = D
    <2>1. \A i \in D : i <= i
      BY <1>2
    <2> QED BY <1>3, <2>1
  <1>5. Part(s, I) = s
    BY <1>1, <1>4, PartOfAll
  <1>6. NewFile(f) = [n \in DOMAIN Part(s, I) |-> Survivor(f, NewHash(f, Part(s, I)[n]))]
    BY DEF NewFile
  <1>7. ASSUME NEW n \in D PROVE Survivor(f, NewHash(f, s[n])) = s[n]
    <2>1. PICK d \in EntriesOf(f) :
            /\ NewHash(f, d) = NewHash(f, s[n])
            /\ Survivor(f, NewHash(f, s[n])) = [d EXCEPT !.hash = NewHash(f, d)]
      BY <1>1, <1>2, SurvivorProperties
    <2>2. PICK m \in D : d = s[m]
      BY DEF EntriesOf, Range
    <2>3. d = s[n]
      BY <1>3, <2>1, <2>2
    <2>4. d \in EntryType /\ NewHash(f, d) = d.hash
      BY <1>2, <1>3, <2>3
    <2>5. [d EXCEPT !.hash = d.hash] = d
      BY <2>4 DEF EntryType
    <2> QED BY <2>1, <2>3, <2>4, <2>5
  <1> HIDE DEF I
  <1>8. NewFile(f) = [n \in D |-> Survivor(f, NewHash(f, s[n]))]
    BY <1>5, <1>6
  <1>9. NewFile(f) = [n \in D |-> s[n]]
    BY <1>7, <1>8
  <1> QED BY <1>1, <1>9

LEMMA MigratedLogFixed ==
    ASSUME MigrationTypeInv, \A f \in Feeds : Migrated(files[f], sticky[f]), NEW k \in Kinds
    PROVE  RemappedLog(k) = log[k]
  <1> DEFINE remapped == [i \in DOMAIN log[k] |-> [log[k][i] EXCEPT !.hash = Remap(@)]]
             Positive(hash) == \E m \in CollapseMembers(hash) : On(log[k], m)
             I == {i \in DOMAIN remapped : remapped[i].on \/ ~Positive(remapped[i].hash)}
  <1>1. \A f \in Feeds : /\ \A i \in DOMAIN files[f] : NewHash(f, files[f][i]) = files[f][i].hash
                         /\ \A i, j \in DOMAIN files[f] :
                              NewHash(f, files[f][i]) = NewHash(f, files[f][j]) => i = j
    BY MigratedEntries
  <1>2. log[k] \in Seq(LogLine) /\ files \in [Feeds -> Seq(EntryType)]
    BY DEF MigrationTypeInv
  <1>3. ASSUME NEW h PROVE Remap(h) = h
    BY <1>1, <1>2, RemapIs
  <1>4. ASSUME NEW h PROVE CollapseMembers(h) = {}
    <2> DEFINE with == {n \in DOMAIN FeedOrder : Cardinality(Group(FeedOrder[n], h)) > 1}
    <2>1. ASSUME NEW n \in DOMAIN FeedOrder
          PROVE  ~(Cardinality(Group(FeedOrder[n], h)) > 1)
      <3>1. PICK f \in Feeds : f = FeedOrder[n]
        BY MigrationAssumption
      <3>2. ASSUME NEW d \in Group(f, h), NEW e \in Group(f, h) PROVE d = e
        <4>1. PICK i \in DOMAIN files[f], j \in DOMAIN files[f] : d = files[f][i] /\ e = files[f][j]
          BY DEF Group, EntriesOf, Range
        <4>2. NewHash(f, d) = NewHash(f, e)
          BY DEF Group
        <4> QED BY <1>1, <4>1, <4>2
      <3>3. CASE Group(f, h) = {}
        BY <3>1, <3>3, FS_EmptySet
      <3>4. ASSUME NEW e \in Group(f, h) PROVE Cardinality(Group(f, h)) = 1
        <4>1. Group(f, h) = {e}
          BY <3>2
        <4> QED BY <4>1, FS_Singleton
      <3>5. CASE Group(f, h) # {}
        <4>1. Cardinality(Group(f, h)) = 1
          BY <3>4, <3>5
        <4> QED BY <3>1, <4>1
      <3> QED BY <3>3, <3>5
    <2>2. with = {}
      BY <2>1
    <2>3. CollapseMembers(h) = IF with = {} THEN {} ELSE {e.hash : e \in Group(FeedOrder[Max(with)], h)}
      BY DEF CollapseMembers
    <2> QED BY <2>2, <2>3
  <1>5. Len(log[k]) \in Nat /\ DOMAIN log[k] = 1..Len(log[k])
        /\ \A i \in DOMAIN log[k] : log[k][i] \in LogLine
    BY <1>2, LenProperties
  <1>6. ASSUME NEW i \in DOMAIN log[k] PROVE [log[k][i] EXCEPT !.hash = Remap(@)] = log[k][i]
    <2>1. Remap(log[k][i].hash) = log[k][i].hash
      BY <1>3
    <2> QED BY <1>5, <2>1 DEF LogLine
  <1>7. remapped = [i \in DOMAIN log[k] |-> log[k][i]]
    BY <1>6
  <1>8. remapped = log[k]
    <2> HIDE DEF remapped
    <2>1. log[k] \in [1..Len(log[k]) -> LogLine]
      BY <1>2, LenProperties
    <2> QED BY <1>5, <1>7, <2>1
  <1>9. I = DOMAIN remapped
    BY <1>4
  <1>10. RemappedLog(k) = Part(remapped, I)
    BY DEF RemappedLog
  <1> HIDE DEF remapped, I
  <1> QED BY <1>2, <1>8, <1>9, <1>10, PartOfAll

\* "The migration is also structurally idempotent": when a run is about to write its
\* marker, however many runs before it stopped half way, another would change nothing.
THEOREM MigrationIsIdempotent == MigrationSpec => []FixedPoint
  <1>1. ASSUME MigrationTypeInv, PlanInv, step = "marker" PROVE FixedPoint
    <2>1. ASSUME NEW f \in Feeds PROVE Migrated(files[f], sticky[f])
      <3>1. files[f] = plan.files[f] /\ sticky[f] = plan.sticky[f]
        BY <1>1 DEF PlanInv, Migrating
      <3>2. Migrated(plan.files[f], plan.sticky[f])
        BY <1>1 DEF PlanInv, Migrating
      <3> QED BY <3>1, <3>2
    <2>2. ASSUME NEW f \in Feeds PROVE NewFile(f) = files[f] /\ StickyPlan(f) = sticky[f]
      BY <1>1, <2>1, MigratedEntries, MigratedFileFixed
    <2>3. ASSUME NEW k \in Kinds PROVE RemappedLog(k) = log[k]
      BY <1>1, <2>1, MigratedLogFixed
    <2> QED BY <2>2, <2>3 DEF FixedPoint
  <1>2. MigrationTypeInv /\ PlanInv => FixedPoint
    BY <1>1 DEF FixedPoint
  <1> QED BY <1>2, PlanCorrect, PTL

-----------------------------------------------------------------------------
(* The flags, when no two feeds share an identity.                         *)

\* What every hash of an item tells of it.
Basis(item) ==
    IF HasGuid(item) THEN <<"guid", NormalizeGUID(item.guid)>>
    ELSE IF item.link # None THEN <<"link", item.link>>
    ELSE <<"title", item.title>>

Bases(f) == {Basis(i) : i \in Published[f]}

FeedsApart == \A f, g \in Feeds : f # g => Bases(f) \cap Bases(g) = {}

LEMMA SameHashSameBasis ==
    ASSUME NEW d, NEW e, NEW r, NEW t, EntryHash(d, r) = EntryHash(e, t)
    PROVE  Basis(d) = Basis(e)
  <1>1. \A x : Basis(x) =
            IF EntryHash(x, r)[1] = "guid and link" THEN <<"guid", EntryHash(x, r)[2]>>
            ELSE <<EntryHash(x, r)[1], EntryHash(x, r)[2]>>
    BY DEF EntryHash, Basis
  <1>2. \A x : Basis(x) =
            IF EntryHash(x, t)[1] = "guid and link" THEN <<"guid", EntryHash(x, t)[2]>>
            ELSE <<EntryHash(x, t)[1], EntryHash(x, t)[2]>>
    BY DEF EntryHash, Basis
  <1> QED BY <1>1, <1>2

OfFeed(f, e) == Basis(e) \in Bases(f) /\ \E r \in SUBSET Stems : e.hash = EntryHash(e, r)

FreshFile(f, file) ==
    /\ Len(file) <= MaxEntries
    /\ \A i \in DOMAIN file : OfFeed(f, file[i])
    /\ \A i, j \in DOMAIN file : file[i].hash = file[j].hash => i = j

\* Before the first run every entry is one its feed has published, no two of a feed
\* have one hash, and the logs are about entries that are there.
Fresh ==
    /\ \A f \in Feeds : FreshFile(f, files[f])
    /\ \A k \in Kinds : \A i \in DOMAIN log[k] :
           \E f \in Feeds : log[k][i].hash \in StoredHashes(f)
    /\ step = "append" => \A e \in batch.entries : Basis(e) \in Bases(batch.feed)

\* The flag a part of a log gives.
LEMMA OnPart ==
    ASSUME NEW s \in Seq(LogLine), NEW I \in SUBSET DOMAIN s, NEW h
    PROVE  On(Part(s, I), h) <=>
             \E i \in I : /\ s[i].hash = h /\ s[i].on
                          /\ \A j \in I : j > i => s[j].hash # h
  <1> DEFINE c == Cardinality(I)
             p == Part(s, I)
             o == InOrder(I)
  <1>1. /\ c \in Nat /\ DOMAIN p = 1..c
        /\ o \in [1..c -> I]
        /\ \A n \in 1..c : p[n] = s[o[n]]
        /\ \A i \in I : \E n \in 1..c : o[n] = i
        /\ \A m, n \in 1..c : m < n => o[m] < o[n]
    BY PartType
  <1>2. Len(s) \in Nat /\ DOMAIN s = 1..Len(s)
    BY LenProperties
  <1>3. On(p, h) <=> \E n \in DOMAIN p : /\ p[n].hash = h /\ p[n].on
                                         /\ \A m \in DOMAIN p : m > n => p[m].hash # h
    BY DEF On
  <1> HIDE DEF c, p, o
  <1>4. \A n \in 1..c : n \in Nat /\ o[n] \in I /\ o[n] \in Nat
    BY <1>1, <1>2
  <1>5. ASSUME NEW m \in 1..c, NEW n \in 1..c PROVE m > n <=> o[m] > o[n]
    <2>1. m \in Nat /\ n \in Nat /\ o[m] \in Nat /\ o[n] \in Nat
      BY <1>4
    <2>2. (m < n => o[m] < o[n]) /\ (n < m => o[n] < o[m]) /\ (m = n => o[m] = o[n])
      BY <1>1
    <2> QED BY <2>1, <2>2
  <1>6. ASSUME NEW n \in 1..c, p[n].hash = h, p[n].on, \A m \in 1..c : m > n => p[m].hash # h
        PROVE  \E i \in I : s[i].hash = h /\ s[i].on /\ \A j \in I : j > i => s[j].hash # h
    <2>1. o[n] \in I /\ s[o[n]].hash = h /\ s[o[n]].on
      BY <1>1, <1>4, <1>6
    <2>2. ASSUME NEW j \in I, j > o[n] PROVE s[j].hash # h
      <3>1. PICK m \in 1..c : o[m] = j
        BY <1>1
      <3>2. m > n
        BY <1>5, <2>2, <3>1
      <3> QED BY <1>1, <1>6, <3>1, <3>2
    <2> QED BY <2>1, <2>2
  <1>7. ASSUME NEW i \in I, s[i].hash = h, s[i].on, \A j \in I : j > i => s[j].hash # h
        PROVE  \E n \in 1..c : /\ p[n].hash = h /\ p[n].on
                               /\ \A m \in 1..c : m > n => p[m].hash # h
    <2>1. PICK n \in 1..c : o[n] = i
      BY <1>1
    <2>2. p[n].hash = h /\ p[n].on
      BY <1>1, <1>7, <2>1
    <2>3. ASSUME NEW m \in 1..c, m > n PROVE p[m].hash # h
      <3>1. o[m] > i /\ o[m] \in I
        BY <1>4, <1>5, <2>1, <2>3
      <3> QED BY <1>1, <1>7, <3>1
    <2> QED BY <2>2, <2>3
  <1> QED BY <1>1, <1>3, <1>6, <1>7 DEF p

\* The feed of an entry.
LEMMA OneFeed ==
    ASSUME FeedsApart, Fresh, NEW f \in Feeds, NEW g \in Feeds,
           NEW d \in EntriesOf(f), NEW e \in EntriesOf(g), Basis(d) = Basis(e)
    PROVE  f = g
  <1>1. Basis(d) \in Bases(f) /\ Basis(e) \in Bases(g)
    BY DEF Fresh, FreshFile, OfFeed, EntriesOf, Range
  <1> QED BY <1>1 DEF FeedsApart

\* The hash of a stored entry is remapped as that entry.
LEMMA RemapStored ==
    ASSUME FeedsApart, MigrationTypeInv, Fresh, NEW f \in Feeds, NEW d \in EntriesOf(f)
    PROVE  Remap(d.hash) = NewHash(f, d)
  <1>1. PICK i \in DOMAIN files[f] : d = files[f][i]
    BY DEF EntriesOf, Range
  <1>2. files \in [Feeds -> Seq(EntryType)]
    BY DEF MigrationTypeInv
  <1>3. i <= MaxEntries
    <2>1. files[f] \in Seq(EntryType)
      BY <1>2
    <2>2. Len(files[f]) \in Nat /\ DOMAIN files[f] = 1..Len(files[f]) /\ MaxEntries \in Nat
      BY <2>1, LenProperties, IdentityAssumption
    <2>3. Len(files[f]) <= MaxEntries
      BY DEF Fresh, FreshFile
    <2> QED BY <2>2, <2>3
  <1>3a. PICK g \in Feeds : \E j \in DOMAIN files[g] :
           files[g][j].hash = d.hash /\ Remap(d.hash) = NewHash(g, files[g][j])
    BY <1>1, <1>2, <1>3, RemapIs
  <1>4. PICK j \in DOMAIN files[g] :
          files[g][j].hash = d.hash /\ Remap(d.hash) = NewHash(g, files[g][j])
    BY <1>3a
  <1>5. PICK e \in EntriesOf(g) : e = files[g][j]
    BY DEF EntriesOf, Range
  <1>6. Basis(d) = Basis(e)
    <2>1. PICK r \in SUBSET Stems : d.hash = EntryHash(d, r)
      BY <1>1 DEF Fresh, FreshFile, OfFeed
    <2>2. PICK t \in SUBSET Stems : e.hash = EntryHash(e, t)
      BY <1>5 DEF Fresh, FreshFile, OfFeed
    <2> QED BY <1>4, <1>5, <2>1, <2>2, SameHashSameBasis
  <1>7. f = g
    BY <1>5, <1>6, OneFeed
  <1>8. i = j
    BY <1>1, <1>4, <1>7 DEF Fresh, FreshFile
  <1> QED BY <1>1, <1>4, <1>7, <1>8

\* A line is remapped to an entry's new hash just when it is about one of its copies.
LEMMA LineRemapsTo ==
    ASSUME FeedsApart, MigrationTypeInv, Fresh, NEW k \in Kinds, NEW i \in DOMAIN log[k],
           NEW f \in Feeds, NEW e \in EntriesOf(f)
    PROVE  Remap(log[k][i].hash) = NewHash(f, e) <=>
             \E d \in Group(f, NewHash(f, e)) : d.hash = log[k][i].hash
  <1>1. ASSUME NEW d \in Group(f, NewHash(f, e)), d.hash = log[k][i].hash
        PROVE  Remap(log[k][i].hash) = NewHash(f, e)
    <2>1. d \in EntriesOf(f) /\ NewHash(f, d) = NewHash(f, e)
      BY DEF Group
    <2> QED BY <1>1, <2>1, RemapStored
  <1>2. ASSUME Remap(log[k][i].hash) = NewHash(f, e)
        PROVE  \E d \in Group(f, NewHash(f, e)) : d.hash = log[k][i].hash
    <2>0. PICK g \in Feeds : log[k][i].hash \in StoredHashes(g)
      BY DEF Fresh, FreshFile
    <2>1. PICK d \in EntriesOf(g) : log[k][i].hash = d.hash
      BY <2>0 DEF StoredHashes, EntriesOf, Range
    <2>2. NewHash(g, d) = NewHash(f, e)
      BY <1>2, <2>1, RemapStored
    <2>3. Basis(d) = Basis(e)
      BY <2>2, SameHashSameBasis DEF NewHash
    <2>4. f = g
      BY <2>3, OneFeed
    <2> QED BY <2>1, <2>2, <2>4 DEF Group
  <1> QED BY <1>1, <1>2

\* The copies that collapse into an entry's survivor are those of its feed.
LEMMA CollapseIs ==
    ASSUME FeedsApart, MigrationTypeInv, Fresh, NEW f \in Feeds, NEW e \in EntriesOf(f)
    PROVE  /\ \A m \in CollapseMembers(NewHash(f, e)) :
                \E d \in Group(f, NewHash(f, e)) : m = d.hash
           /\ \A d, c \in Group(f, NewHash(f, e)) :
                d # c => d.hash \in CollapseMembers(NewHash(f, e))
  <1> DEFINE h == NewHash(f, e)
             with == {n \in DOMAIN FeedOrder : Cardinality(Group(FeedOrder[n], h)) > 1}
  <1>1. CollapseMembers(h) = IF with = {} THEN {} ELSE {d.hash : d \in Group(FeedOrder[Max(with)], h)}
    BY DEF CollapseMembers
  <1>2. /\ Len(FeedOrder) \in Nat /\ DOMAIN FeedOrder = 1..Len(FeedOrder)
        /\ \A n \in DOMAIN FeedOrder : FeedOrder[n] \in Feeds
        /\ \E n \in DOMAIN FeedOrder : f = FeedOrder[n]
    <2>1. FeedOrder \in Seq(Feeds) /\ Range(FeedOrder) = Feeds
      BY MigrationAssumption
    <2>2. Len(FeedOrder) \in Nat /\ DOMAIN FeedOrder = 1..Len(FeedOrder)
      BY <2>1, LenProperties
    <2> QED BY <2>1, <2>2 DEF Range
  <1>3. ASSUME NEW g \in Feeds, NEW d \in Group(g, h) PROVE g = f
    <2>1. d \in EntriesOf(g) /\ NewHash(g, d) = NewHash(f, e)
      BY DEF Group
    <2>2. Basis(d) = Basis(e)
      BY <2>1, SameHashSameBasis DEF NewHash
    <2> QED BY <2>1, <2>2, OneFeed
  <1>4. \A n \in with : n \in DOMAIN FeedOrder /\ FeedOrder[n] = f
    <2> SUFFICES ASSUME NEW n \in with PROVE n \in DOMAIN FeedOrder /\ FeedOrder[n] = f
      OBVIOUS
    <2>1. PICK g \in Feeds : g = FeedOrder[n]
      BY <1>2
    <2>2. Group(g, h) # {}
      <3>1. Cardinality(Group(g, h)) > 1
        BY <2>1
      <3>2. SUFFICES ASSUME Group(g, h) = {} PROVE FALSE
        OBVIOUS
      <3>3. Cardinality(Group(g, h)) = 0
        BY <3>2, FS_EmptySet
      <3> QED BY <3>1, <3>3
    <2>3. g = f
      BY <1>3, <2>2
    <2> QED BY <2>1, <2>3
  <1>5. ASSUME with # {} PROVE Max(with) \in with
    <2>1. with \in SUBSET (1..Len(FeedOrder))
      BY <1>2
    <2> HIDE DEF with
    <2>2. PICK m \in with : \A n \in with : n <= m
      BY <1>2, <1>5, <2>1, Largest
    <2>3. \A n \in with : m >= n
      BY <1>2, <2>1, <2>2
    <2> QED BY <2>3 DEF Max
  <1>6. with # {} => CollapseMembers(h) = {d.hash : d \in Group(f, h)}
    BY <1>1, <1>4, <1>5
  <1>7. ASSUME NEW m \in CollapseMembers(h) PROVE \E d \in Group(f, h) : m = d.hash
    <2>1. with # {}
      BY <1>1
    <2>2. m \in {d.hash : d \in Group(f, h)}
      BY <1>6, <2>1
    <2> QED BY <2>2
  <1>8. ASSUME NEW d \in Group(f, h), NEW c \in Group(f, h), d # c
        PROVE  d.hash \in CollapseMembers(h)
    <2>1. IsFiniteSet(Group(f, h))
      <3>1. files[f] \in Seq(EntryType)
        BY DEF MigrationTypeInv
      <3>2. IsFiniteSet(EntriesOf(f)) /\ Group(f, h) \in SUBSET EntriesOf(f)
        BY <3>1, RangeFinite DEF EntriesOf, Group
      <3> QED BY <3>2, FS_Subset
    <2>2. Cardinality(Group(f, h)) \in Nat
      BY <2>1, FS_CardinalityType
    <2>3. Cardinality(Group(f, h)) # 0
      BY <1>8, <2>1, FS_EmptySet
    <2>4. Cardinality(Group(f, h)) # 1
      BY <1>8, <2>1, FS_Singleton
    <2>5. Cardinality(Group(f, h)) > 1
      BY <2>2, <2>3, <2>4
    <2>6. with # {}
      BY <1>2, <2>5
    <2> QED BY <1>6, <2>6
  <1> QED BY <1>7, <1>8

\* The new log flags an entry's new hash just when the old one flagged a copy of it.
LEMMA FlagsRemapped ==
    ASSUME FeedsApart, MigrationTypeInv, Fresh, NEW k \in Kinds,
           NEW f \in Feeds, NEW e \in EntriesOf(f)
    PROVE  On(RemappedLog(k), NewHash(f, e)) <=>
             \E d \in EntriesOf(f) : NewHash(f, d) = NewHash(f, e) /\ On(log[k], d.hash)
  <1> DEFINE h == NewHash(f, e)
             remapped == [i \in DOMAIN log[k] |-> [log[k][i] EXCEPT !.hash = Remap(@)]]
             Positive(hash) == \E m \in CollapseMembers(hash) : On(log[k], m)
             I == {i \in DOMAIN remapped : remapped[i].on \/ ~Positive(remapped[i].hash)}
             D == DOMAIN log[k]
             G == Group(f, h)
             LastOf(i) == \A j \in I : j > i => remapped[j].hash # h
  <1>1. log[k] \in Seq(LogLine)
    BY DEF MigrationTypeInv
  <1>2. Len(log[k]) \in Nat /\ D = 1..Len(log[k]) /\ \A i \in D : log[k][i] \in LogLine
    BY <1>1, LenProperties
  <1>3. ASSUME NEW i \in D
        PROVE  /\ remapped[i] \in LogLine
               /\ remapped[i].on = log[k][i].on /\ remapped[i].hash = Remap(log[k][i].hash)
    <2>1. Remap(log[k][i].hash) \in Hashes
      BY <1>2, RemapType DEF LogLine, MigrationTypeInv
    <2> QED BY <1>2, <2>1 DEF LogLine
  <1>4. DOMAIN remapped = D
    OBVIOUS
  <1>5. RemappedLog(k) = Part(remapped, I)
    BY DEF RemappedLog
  <1>6. I \in SUBSET D /\ \A i \in D : i \in I <=> remapped[i].on \/ ~Positive(remapped[i].hash)
    OBVIOUS
  <1> HIDE DEF remapped, I
  <1>7. remapped \in Seq(LogLine)
    <2>1. remapped \in [1..Len(log[k]) -> LogLine]
      BY <1>2, <1>3, <1>4 DEF remapped
    <2> QED BY <1>2, <2>1
  <1>8. On(RemappedLog(k), h) <=> \E i \in I : remapped[i].hash = h /\ remapped[i].on /\ LastOf(i)
    BY <1>4, <1>5, <1>6, <1>7, OnPart
  <1>9. \A i \in D : remapped[i].hash = h <=> \E d \in G : d.hash = log[k][i].hash
    BY <1>3, LineRemapsTo
  <1>10. /\ \A m \in CollapseMembers(h) : \E d \in G : m = d.hash
         /\ \A d, c \in G : d # c => d.hash \in CollapseMembers(h)
    BY CollapseIs
  <1>11. \A d \in G : d \in EntriesOf(f) /\ NewHash(f, d) = h
    BY DEF Group
  <1>12. \A d \in EntriesOf(f) : NewHash(f, d) = h => d \in G
    BY DEF Group
  <1> HIDE DEF h, G
  \* The survivor is flagged: some copy was.
  <1>13. ASSUME NEW i \in I, remapped[i].hash = h, remapped[i].on, LastOf(i)
         PROVE  \E d \in G : On(log[k], d.hash)
    <2>1. CASE Positive(h)
      BY <1>10, <2>1
    <2>2. CASE ~Positive(h)
      <3>1. i \in D
        BY <1>6
      <3>2. PICK d \in G : d.hash = log[k][i].hash
        BY <1>9, <1>13, <3>1
      <3>3. ASSUME NEW j \in D, j > i, log[k][j].hash = d.hash PROVE FALSE
        <4>1. remapped[j].hash = h
          BY <1>9, <3>3
        <4>2. j \in I
          BY <1>6, <2>2, <4>1
        <4> QED BY <1>13, <3>3, <4>1, <4>2
      <3>4. log[k][i].on
        BY <1>3, <1>13, <3>1
      <3>5. On(log[k], d.hash)
        BY <3>1, <3>2, <3>3, <3>4 DEF On
      <3> QED BY <3>5
    <2> QED BY <2>1, <2>2
  \* Some copy was flagged: the survivor is.
  <1>14. ASSUME NEW d \in G, On(log[k], d.hash)
         PROVE  \E i \in I : remapped[i].hash = h /\ remapped[i].on /\ LastOf(i)
    <2>1. PICK a \in D : /\ log[k][a].hash = d.hash /\ log[k][a].on
                         /\ \A j \in D : j > a => log[k][j].hash # d.hash
      BY <1>14 DEF On
    <2>2. remapped[a].hash = h /\ remapped[a].on /\ a \in I
      BY <1>3, <1>6, <1>9, <2>1
    <2>3. PICK i \in I : remapped[i].hash = h /\ LastOf(i)
      <3> DEFINE H == {i \in I : remapped[i].hash = h}
      <3>1. /\ H \in SUBSET (1..Len(log[k])) /\ H # {}
            /\ \A i \in I : i \in H <=> remapped[i].hash = h
            /\ \A i \in H : i \in I
        BY <1>2, <1>6, <2>2
      <3> HIDE DEF H
      <3>2. PICK i \in H : \A j \in H : j <= i
        BY <1>2, <3>1, Largest
      <3>3. i \in I /\ remapped[i].hash = h
        BY <3>1
      <3>4. ASSUME NEW j \in I, j > i, remapped[j].hash = h PROVE FALSE
        <4>1. j <= i
          BY <3>1, <3>2, <3>4
        <4>2. j \in Nat /\ i \in Nat
          BY <1>2, <1>6, <3>3
        <4>3. j > i
          BY <3>4
        <4> QED BY ONLY <4>1, <4>2, <4>3
      <3> QED BY <3>3, <3>4
    <2>4. remapped[i].on
      <3>1. CASE Positive(h)
        BY <1>6, <2>3, <3>1
      <3>2. CASE ~Positive(h)
        <4>1. d.hash \notin CollapseMembers(h)
          BY <1>14, <3>2
        <4>2. \A c \in G : c = d
          BY <1>10, <4>1
        <4>3. i \in D /\ a \in D /\ log[k][i].hash = d.hash
          BY <1>6, <1>9, <2>3, <4>2
        <4>4. ~(i > a) /\ ~(a > i)
          BY <2>1, <2>2, <2>3, <4>3
        <4>5. i = a
          BY <1>2, <4>3, <4>4
        <4> QED BY <2>2, <4>5
      <3> QED BY <3>1, <3>2
    <2> QED BY <2>3, <2>4
  <1> QED BY <1>8, <1>11, <1>12, <1>13, <1>14 DEF h

\* Entries of the feed with hashes it does not have are put after those it has.
LEMMA AppendedFresh ==
    ASSUME NEW f \in Feeds, NEW old \in Seq(EntryType), NEW new \in Seq(EntryType),
           FreshFile(f, old), Len(old) + Len(new) <= MaxEntries,
           \A i \in DOMAIN new : OfFeed(f, new[i]),
           \A i, j \in DOMAIN new : new[i].hash = new[j].hash => i = j,
           \A i \in DOMAIN old, j \in DOMAIN new : old[i].hash # new[j].hash
    PROVE  /\ FreshFile(f, old \o new)
           /\ \A i \in DOMAIN old : \E j \in DOMAIN (old \o new) : (old \o new)[j].hash = old[i].hash
  <1>1. /\ Len(old) \in Nat /\ DOMAIN old = 1..Len(old)
        /\ Len(new) \in Nat /\ DOMAIN new = 1..Len(new)
    BY LenProperties
  <1>2. /\ Len(old \o new) = Len(old) + Len(new)
        /\ DOMAIN (old \o new) = 1..(Len(old) + Len(new))
        /\ \A i \in 1..(Len(old) + Len(new)) :
             (old \o new)[i] = IF i <= Len(old) THEN old[i] ELSE new[i - Len(old)]
    <2>1. (old \o new) \in Seq(EntryType) /\ Len(old \o new) = Len(old) + Len(new)
          /\ \A i \in 1..(Len(old) + Len(new)) :
               (old \o new)[i] = IF i <= Len(old) THEN old[i] ELSE new[i - Len(old)]
      BY ConcatProperties
    <2>2. DOMAIN (old \o new) = 1..Len(old \o new)
      BY <2>1, LenProperties
    <2> QED BY <2>1, <2>2
  <1>3. PICK all : all = old \o new
    OBVIOUS
  <1>4. ASSUME NEW i \in DOMAIN all
        PROVE  \/ i \in DOMAIN old /\ all[i] = old[i]
               \/ i > Len(old) /\ i - Len(old) \in DOMAIN new /\ all[i] = new[i - Len(old)]
    <2>1. i \in Nat
      BY <1>1, <1>2, <1>3
    <2>2. CASE i <= Len(old)
      BY <1>1, <1>2, <1>3, <2>1, <2>2
    <2>3. CASE ~(i <= Len(old))
      BY <1>1, <1>2, <1>3, <2>1, <2>3
    <2> QED BY <2>2, <2>3
  <1>5. \A i \in DOMAIN all : OfFeed(f, all[i])
    BY <1>4 DEF FreshFile
  <1>6. ASSUME NEW i \in DOMAIN all, NEW j \in DOMAIN all, all[i].hash = all[j].hash PROVE i = j
    <2>1. CASE i \in DOMAIN old /\ all[i] = old[i] /\ j \in DOMAIN old /\ all[j] = old[j]
      BY <1>6, <2>1 DEF FreshFile
    <2>2. CASE /\ i - Len(old) \in DOMAIN new /\ all[i] = new[i - Len(old)]
               /\ j - Len(old) \in DOMAIN new /\ all[j] = new[j - Len(old)]
      <3>1. i - Len(old) = j - Len(old)
        BY <1>6, <2>2
      <3>2. i \in Nat /\ j \in Nat
        BY <1>1, <1>2, <1>3
      <3> QED BY <1>1, <3>1, <3>2
    <2> QED BY <1>4, <1>6, <2>1, <2>2
  <1>7. ASSUME NEW i \in DOMAIN old PROVE i \in DOMAIN all /\ all[i] = old[i]
    BY <1>1, <1>2, <1>3
  <1> QED BY <1>2, <1>3, <1>5, <1>6, <1>7 DEF FreshFile

\* What a poll or an earlier version makes of an item is an entry of the feed.
LEMMA ItemOfFeed ==
    ASSUME NEW f \in Feeds, NEW item \in Published[f], NEW now \in Nat, NEW h,
           NEW p \in {item, Parsed(item, now)}
    PROVE  Basis(Entry(p, h, now)) \in Bases(f)
  <1>1. item \in [guid : {item.guid}, link : {item.link}, title : {item.title}, date : {item.date}]
    BY IdentityAssumption
  <1>2. p.guid = item.guid /\ p.link = item.link /\ p.title = item.title
    BY <1>1 DEF Parsed
  <1>3. /\ Entry(p, h, now).guid = p.guid /\ Entry(p, h, now).link = p.link
        /\ Entry(p, h, now).title = p.title
    BY DEF Entry
  <1>4. Basis(Entry(p, h, now)) = Basis(item)
    BY <1>2, <1>3 DEF Basis, HasGuid
  <1> QED BY <1>4 DEF Bases

FreshInv == ~interrupted /\ ~marker /\ ~Migrating => Fresh

LEMMA FreshStart == MigrationInit => FreshInv
  <1> SUFFICES ASSUME MigrationInit PROVE Fresh
    BY DEF FreshInv
  <1>1. /\ \A f \in Feeds : files[f] = <<>>
        /\ \A k \in Kinds : log[k] = <<>>
        /\ step = "idle"
    BY DEF MigrationInit, IdInit
  <1>2. \A f \in Feeds : FreshFile(f, <<>>)
    BY IdentityAssumption DEF FreshFile
  <1> QED BY <1>1, <1>2 DEF Fresh

\* One file gets new entries, or none, and the logs keep what they are about.
LEMMA FreshGrows ==
    ASSUME MigrationTypeInv, Fresh, NEW f \in Feeds, NEW new \in Seq(EntryType),
           files' = [files EXCEPT ![f] = @ \o new], log' = log,
           Len(files[f]) + Len(new) <= MaxEntries,
           \A i \in DOMAIN new : OfFeed(f, new[i]) /\ new[i].hash \notin StoredHashes(f),
           \A i, j \in DOMAIN new : new[i].hash = new[j].hash => i = j
    PROVE  /\ \A g \in Feeds : FreshFile(g, files'[g])
           /\ \A k \in Kinds : \A i \in DOMAIN log'[k] :
                \E g \in Feeds : log'[k][i].hash \in StoredHashes(g)'
  <1>1. files[f] \in Seq(EntryType) /\ FreshFile(f, files[f])
    BY DEF MigrationTypeInv, Fresh
  <1>2. \A i \in DOMAIN files[f], j \in DOMAIN new : files[f][i].hash # new[j].hash
    BY DEF StoredHashes
  <1>3. /\ FreshFile(f, files[f] \o new)
        /\ \A i \in DOMAIN files[f] :
             \E j \in DOMAIN (files[f] \o new) : (files[f] \o new)[j].hash = files[f][i].hash
    BY <1>1, <1>2, AppendedFresh
  <1>4. files'[f] = files[f] \o new /\ \A g \in Feeds : g # f => files'[g] = files[g]
    BY DEF MigrationTypeInv
  <1>5. ASSUME NEW g \in Feeds PROVE FreshFile(g, files'[g])
    BY <1>3, <1>4 DEF Fresh
  <1>6. ASSUME NEW g \in Feeds, NEW h \in StoredHashes(g) PROVE h \in StoredHashes(g)'
    <2>1. PICK i \in DOMAIN files[g] : h = files[g][i].hash
      BY DEF StoredHashes
    <2>2. \E j \in DOMAIN files'[g] : files'[g][j].hash = h
      BY <1>3, <1>4, <2>1
    <2> QED BY <2>2 DEF StoredHashes
  <1>7. ASSUME NEW k \in Kinds, NEW i \in DOMAIN log[k]
        PROVE  \E g \in Feeds : log[k][i].hash \in StoredHashes(g)'
    <2>1. PICK g \in Feeds : log[k][i].hash \in StoredHashes(g)
      BY DEF Fresh
    <2> QED BY <1>6, <2>1
  <1> QED BY <1>5, <1>7

LEMMA FreshStep ==
    MigrationTypeInv /\ FreshInv /\ [MigrationNext]_allVars => FreshInv'
  <1> SUFFICES ASSUME MigrationTypeInv, FreshInv, [MigrationNext]_allVars,
                      ~interrupted', ~marker', ~Migrating'
               PROVE  Fresh'
    BY DEF FreshInv
  <1>1. ~MigrateIdentity /\ ~MigrationStops /\ ~WriteIdentityMarker
    BY DEF MigrateIdentity, MigrationStops, WriteIdentityMarker, Migrating
  <1>2. /\ \A f \in Feeds : ~RewriteFile(f) /\ ~SaveStickyGUIDs(f)
        /\ ~FilesDone /\ ~RemapReadLog /\ ~RemapStarredLog
    BY DEF RewriteFile, SaveStickyGUIDs, FilesDone, RemapReadLog, RemapStarredLog, Migrating
  <1>3. (IdNext /\ UNCHANGED migrationVars) \/ UNCHANGED allVars
    BY <1>1, <1>2 DEF MigrationNext
  <1>4. ~interrupted /\ ~marker /\ ~Migrating
    <2>1. interrupted' = interrupted /\ marker' = marker
      BY <1>3 DEF allVars, migrationVars
    <2>2. step' = step \/ step \in {"idle", "append"}
      BY <1>3 DEF IdNext, OldPoll, Upgrade, SetFlag, AssignEntryHashesForFeed, AppendEntries, PollDies,
                  allVars, idVars
    <2> QED BY <2>1, <2>2 DEF Migrating
  <1>5. Fresh
    BY <1>4 DEF FreshInv
  <1>6. ASSUME NEW f \in Feeds, NEW item \in Published[f],
               NEW reused \in SUBSET {NormalizeGUID(item.guid)}, OldPoll(f, item, reused)
        PROVE  Fresh'
    <2> DEFINE e == Entry(item, EntryHash(item, reused), polls')
    <2>1. PICK now \in Nat : now = polls'
      BY <1>6, OldPollTypes
    <2>2. reused \in SUBSET Stems
      BY <2>1, ItemEntry
    <2>3. /\ e \in EntryType
          /\ EntryHash(e, reused) = EntryHash(item, reused)
          /\ Basis(e) \in Bases(f)
      BY <2>1, <2>2, ItemEntry, ItemOfFeed
    <2>4. e.hash = EntryHash(item, reused)
      BY DEF Entry
    <2>5. /\ files' = [files EXCEPT ![f] = Append(@, e)]
          /\ e.hash \notin StoredHashes(f)
          /\ Len(files[f]) < MaxEntries
          /\ log' = log /\ step' = step
      BY <1>6, <2>4 DEF OldPoll
    <2> HIDE DEF e
    <2>6. OfFeed(f, e)
      BY <2>2, <2>3, <2>4 DEF OfFeed
    <2>7. files[f] \in Seq(EntryType)
      BY DEF MigrationTypeInv
    <2>8. files' = [files EXCEPT ![f] = @ \o <<e>>]
      BY <2>3, <2>5, <2>7, AppendIsConcat
    <2>9. PICK new \in Seq(EntryType) : new = <<e>>
      <3>1. PICK d \in EntryType : d = e
        BY <2>3
      <3>2. <<d>> \in Seq(EntryType)
        OBVIOUS
      <3> QED BY <3>1, <3>2
    <2>10. Len(new) = 1 /\ DOMAIN new = 1..1 /\ new[1] = e
      BY <2>9
    <2>11. \A i \in DOMAIN new : i = 1
      BY <2>10
    <2>12. Len(files[f]) + Len(new) <= MaxEntries
      <3>1. Len(files[f]) \in Nat /\ MaxEntries \in Nat
        BY <2>7, LenProperties, IdentityAssumption
      <3> QED BY <2>5, <2>10, <3>1
    <2>13. /\ \A i \in DOMAIN new : OfFeed(f, new[i]) /\ new[i].hash \notin StoredHashes(f)
           /\ \A i, j \in DOMAIN new : new[i].hash = new[j].hash => i = j
      BY <2>5, <2>6, <2>10, <2>11
    <2>14. files' = [files EXCEPT ![f] = @ \o new]
      BY <2>8, <2>9
    <2>15. /\ \A g \in Feeds : FreshFile(g, files'[g])
           /\ \A k \in Kinds : \A i \in DOMAIN log'[k] :
                \E g \in Feeds : log'[k][i].hash \in StoredHashes(g)'
      BY <1>5, <2>5, <2>12, <2>13, <2>14, FreshGrows
    <2>16. step' # "append"
      BY <1>6, <2>5, OldPollTypes
    <2> QED BY <2>15, <2>16 DEF Fresh
  <1>7. CASE Upgrade
    <2>1. UNCHANGED <<files, log, step, batch>>
      BY <1>7 DEF Upgrade, idDisk
    <2> QED BY <1>5, <2>1 DEF Fresh, StoredHashes
  <1>8. ASSUME NEW k \in Kinds, NEW want \in BOOLEAN, NEW hash, SetFlag(k, hash, want)
        PROVE  Fresh'
    <2>1. PICK f \in Feeds : hash \in StoredHashes(f)
      BY <1>8, FlagTypes
    <2>2. /\ log' = [log EXCEPT ![k] = Append(@, [on |-> want, hash |-> hash])]
          /\ UNCHANGED <<files, step>> /\ step = "idle"
      BY <1>8 DEF SetFlag
    <2>3. log \in [Kinds -> Seq(LogLine)]
      BY DEF MigrationTypeInv
    <2>4. ASSUME NEW l \in Kinds, NEW i \in DOMAIN log'[l]
          PROVE  log'[l][i].hash = hash \/ \E j \in DOMAIN log[l] : log'[l][i] = log[l][j]
      <3>1. CASE l = k
        <4> DEFINE line == [on |-> want, hash |-> hash]
        <4>1. log'[l] = Append(log[k], line) /\ log[k] \in Seq(LogLine)
          BY <2>2, <2>3, <3>1
        <4>2. line.hash = hash
          OBVIOUS
        <4> HIDE DEF line
        <4>3. Len(log[k]) \in Nat /\ DOMAIN log[k] = 1..Len(log[k])
          BY <4>1, LenProperties
        <4>4. CASE i \in 1..Len(log[k])
          BY <3>1, <4>1, <4>3, <4>4
        <4>5. CASE i \notin 1..Len(log[k])
          BY <3>1, <4>1, <4>2, <4>3, <4>5
        <4> QED BY <4>4, <4>5
      <3>2. CASE l # k
        BY <2>2, <2>3, <3>2
      <3> QED BY <3>1, <3>2
    <2>5. \A g \in Feeds : StoredHashes(g)' = StoredHashes(g)
      BY <2>2 DEF StoredHashes
    <2>6. ASSUME NEW l \in Kinds, NEW i \in DOMAIN log'[l]
          PROVE  \E g \in Feeds : log'[l][i].hash \in StoredHashes(g)'
      <3>1. CASE log'[l][i].hash = hash
        BY <2>1, <2>5, <3>1
      <3>2. ASSUME NEW j \in DOMAIN log[l], log'[l][i] = log[l][j]
            PROVE  \E g \in Feeds : log'[l][i].hash \in StoredHashes(g)'
        <4>1. PICK g \in Feeds : log[l][j].hash \in StoredHashes(g)
          BY <1>5 DEF Fresh
        <4> QED BY <2>5, <3>2, <4>1
      <3> QED BY <2>4, <3>1, <3>2
    <2>7. \A g \in Feeds : FreshFile(g, files'[g])
      BY <1>5, <2>2 DEF Fresh
    <2> QED BY <2>2, <2>6, <2>7 DEF Fresh
  <1>9. ASSUME NEW f \in Feeds, NEW items \in SUBSET Published[f], AssignEntryHashesForFeed(f, items)
        PROVE  Fresh'
    <2>1. UNCHANGED <<files, log>> /\ batch'.feed = f
      BY <1>9 DEF AssignEntryHashesForFeed
    <2>2. PICK now \in Nat : now = polls + 1 /\ now = polls'
      BY <1>9 DEF AssignEntryHashesForFeed, MigrationTypeInv
    <2>3. batch'.entries = {Entry(i, EntryHash(i, sticky'[f]), polls') : i \in {Parsed(i, polls + 1) : i \in items}}
      BY <1>9 DEF AssignEntryHashesForFeed
    <2>4. ASSUME NEW e \in batch'.entries PROVE Basis(e) \in Bases(f)
      <3>1. PICK i \in items : e = Entry(Parsed(i, now), EntryHash(Parsed(i, now), sticky'[f]), now)
        BY <2>2, <2>3
      <3>2. PICK h : h = EntryHash(Parsed(i, now), sticky'[f])
        OBVIOUS
      <3>3. e = Entry(Parsed(i, now), h, now) /\ i \in Published[f]
        BY <3>1, <3>2
      <3> QED BY <3>3, ItemOfFeed
    <2>5. \A g \in Feeds : StoredHashes(g)' = StoredHashes(g)
      BY <2>1 DEF StoredHashes
    <2> QED BY <1>5, <2>1, <2>4, <2>5 DEF Fresh
  <1>10. CASE AppendEntries
    <2>1. PICK f \in Feeds : \E new \in Seq(batch.entries) :
            /\ f = batch.feed /\ new \in Seq(EntryType)
            /\ files' = [files EXCEPT ![f] = @ \o new]
            /\ Len(files[f]) + Len(new) <= MaxEntries
            /\ \A i \in DOMAIN new : new[i].hash \notin StoredHashes(f)
            /\ \A i, j \in DOMAIN new : new[i].hash = new[j].hash => i = j
      BY <1>10, AppendTypes
    <2>2. PICK new \in Seq(batch.entries) :
            /\ f = batch.feed /\ new \in Seq(EntryType)
            /\ files' = [files EXCEPT ![f] = @ \o new]
            /\ Len(files[f]) + Len(new) <= MaxEntries
            /\ \A i \in DOMAIN new : new[i].hash \notin StoredHashes(f)
            /\ \A i, j \in DOMAIN new : new[i].hash = new[j].hash => i = j
      BY <2>1
    <2>3. log' = log /\ step = "append" /\ step' = "idle"
      BY <1>10 DEF AppendEntries
    <2>4. ASSUME NEW i \in DOMAIN new PROVE OfFeed(f, new[i])
      <3>1. new[i] \in batch.entries
        BY <2>2, LenProperties
      <3>2. Basis(new[i]) \in Bases(f)
        BY <1>5, <2>2, <2>3, <3>1 DEF Fresh
      <3>3. new[i].hash = EntryHash(new[i], sticky[f]) /\ sticky[f] \in SUBSET Stems
        BY <2>2, <2>3, <3>1 DEF MigrationTypeInv
      <3> QED BY <3>2, <3>3 DEF OfFeed
    <2>5. /\ \A g \in Feeds : FreshFile(g, files'[g])
          /\ \A k \in Kinds : \A i \in DOMAIN log'[k] :
               \E g \in Feeds : log'[k][i].hash \in StoredHashes(g)'
      BY <1>5, <2>2, <2>3, <2>4, FreshGrows
    <2> QED BY <2>3, <2>5 DEF Fresh
  <1>11. CASE PollDies
    <2>1. UNCHANGED <<files, log>> /\ step' = "idle"
      BY <1>11 DEF PollDies, idDisk
    <2> QED BY <1>5, <2>1 DEF Fresh, StoredHashes
  <1>12. CASE UNCHANGED allVars
    <2>1. UNCHANGED <<files, log, step, batch>>
      BY <1>12 DEF allVars, idVars, idDisk
    <2> QED BY <1>5, <2>1 DEF Fresh, StoredHashes
  <1> QED BY <1>3, <1>6, <1>7, <1>8, <1>9, <1>10, <1>11, <1>12 DEF IdNext

\* An entry's new hash is flagged in the new logs just when a copy of it was in the old.
FlagsMatch(oldFiles, oldLog, newLog, reused) ==
    \A f \in Feeds, k \in Kinds : \A e \in Range(oldFiles[f]) :
        On(newLog[k], EntryHash(e, reused[f])) <=>
            \E d \in Range(oldFiles[f]) :
                EntryHash(d, reused[f]) = EntryHash(e, reused[f]) /\ On(oldLog[k], d.hash)

FlagPlanInv ==
    Migrating /\ ~interrupted =>
        /\ FlagsMatch(plan.before.files, plan.before.log, plan.log, plan.sticky)
        /\ step \in {"starred", "marker"} => log["read"] = plan.log["read"]
        /\ step = "marker" => log["starred"] = plan.log["starred"]

LEMMA FlagPlanStart ==
    ASSUME FeedsApart, MigrationTypeInv, Fresh
    PROVE  FlagsMatch(Plan.before.files, Plan.before.log, Plan.log, Plan.sticky)
  <1>1. /\ Plan.before = [files |-> files, log |-> log]
        /\ \A f \in Feeds : Plan.sticky[f] = StickyPlan(f)
        /\ \A k \in Kinds : Plan.log[k] = RemappedLog(k)
    BY PlanTypes
  <1>2. ASSUME NEW f \in Feeds, NEW k \in Kinds, NEW e \in Range(files[f])
        PROVE  On(Plan.log[k], EntryHash(e, Plan.sticky[f])) <=>
                 \E d \in Range(files[f]) :
                     EntryHash(d, Plan.sticky[f]) = EntryHash(e, Plan.sticky[f]) /\ On(log[k], d.hash)
    <2>1. On(RemappedLog(k), NewHash(f, e)) <=>
            \E d \in EntriesOf(f) : NewHash(f, d) = NewHash(f, e) /\ On(log[k], d.hash)
      BY <1>2, FlagsRemapped DEF EntriesOf
    <2>2. \A d : NewHash(f, d) = EntryHash(d, StickyPlan(f))
      BY DEF NewHash
    <2> QED BY <1>1, <2>1, <2>2 DEF EntriesOf
  <1> HIDE DEF Plan
  <1> QED BY <1>1, <1>2 DEF FlagsMatch

LEMMA FlagPlanStep ==
    ASSUME FeedsApart
    PROVE  MigrationTypeInv /\ FreshInv /\ FlagPlanInv /\ [MigrationNext]_allVars => FlagPlanInv'
  <1> SUFFICES ASSUME MigrationTypeInv, FreshInv, FlagPlanInv, [MigrationNext]_allVars,
                      Migrating', ~interrupted'
               PROVE  FlagPlanInv'
    BY DEF FlagPlanInv
  <1>1. CASE MigrateIdentity
    <2>1. plan' = Plan /\ step' = "files" /\ ~interrupted /\ ~marker /\ ~Migrating
      BY <1>1 DEF MigrateIdentity, Migrating
    <2>2. Fresh
      BY <2>1 DEF FreshInv
    <2>3. FlagsMatch(Plan.before.files, Plan.before.log, Plan.log, Plan.sticky)
      BY <2>2, FlagPlanStart
    <2> HIDE DEF Plan
    <2> QED BY <2>1, <2>3 DEF FlagPlanInv
  <1>2. CASE IdNext /\ UNCHANGED migrationVars
    <2>1. step' \in {"idle", "append"} \/ (step' = step /\ step = "idle") \/ (Upgrade /\ ~upgraded)
      BY <1>2 DEF IdNext, OldPoll, Upgrade, SetFlag, AssignEntryHashesForFeed, AppendEntries, PollDies,
                  MigrationTypeInv
    <2>2. Upgrade => step' = step /\ step = "idle"
      BY DEF Upgrade, MigrationTypeInv
    <2> QED BY <2>1, <2>2 DEF Migrating
  <1>3. CASE ~MigrateIdentity /\ ~(IdNext /\ UNCHANGED migrationVars)
    <2>1. Migrating /\ ~interrupted /\ plan' = plan
      BY <1>3 DEF MigrationNext, RewriteFile, SaveStickyGUIDs, FilesDone, RemapReadLog, RemapStarredLog,
                  WriteIdentityMarker, MigrationStops, allVars, idVars, migrationVars, Migrating
    <2>2. FlagsMatch(plan.before.files, plan.before.log, plan.log, plan.sticky)
      BY <2>1 DEF FlagPlanInv
    <2>3. /\ step' \in {"starred", "marker"} => log'["read"] = plan.log["read"]
          /\ step' = "marker" => log'["starred"] = plan.log["starred"]
      BY <1>3, <2>1 DEF MigrationNext, RewriteFile, SaveStickyGUIDs, FilesDone, RemapReadLog,
                        RemapStarredLog, WriteIdentityMarker, MigrationStops, allVars, idVars, idDisk,
                        Migrating, FlagPlanInv, MigrationTypeInv, Kinds
    <2> QED BY <2>1, <2>2, <2>3 DEF FlagPlanInv
  <1> QED BY <1>1, <1>2, <1>3

\* "read/starred state follows each entry to its survivor" (MigrateIdentity): for
\* feeds that share no identity, when the logs of an uninterrupted run are written
\* every entry is flagged under its new hash just when a copy of it was.
THEOREM FlagsFollowSurvivors ==
    ASSUME FeedsApart
    PROVE  MigrationSpec => []FlagsFollow
  <1>1. MigrationInit => FlagPlanInv
    BY DEF MigrationInit, IdInit, FlagPlanInv, Migrating
  <1>2. MigrationTypeInv /\ FlagPlanInv => FlagsFollow
    <2> SUFFICES ASSUME FlagPlanInv, step = "marker", ~interrupted, NEW f \in Feeds, NEW k \in Kinds,
                        NEW e \in Range(plan.before.files[f])
                 PROVE  On(log[k], EntryHash(e, plan.sticky[f])) <=>
                          \E d \in Range(plan.before.files[f]) :
                              /\ EntryHash(d, plan.sticky[f]) = EntryHash(e, plan.sticky[f])
                              /\ On(plan.before.log[k], d.hash)
      BY DEF FlagsFollow
    <2>1. /\ FlagsMatch(plan.before.files, plan.before.log, plan.log, plan.sticky)
          /\ log["read"] = plan.log["read"] /\ log["starred"] = plan.log["starred"]
      BY DEF FlagPlanInv, Migrating
    <2>2. log[k] = plan.log[k]
      BY <2>1 DEF Kinds
    <2> QED BY <2>1, <2>2 DEF FlagsMatch
  <1> QED BY <1>1, <1>2, MigrationTypeInit, MigrationTypeStep, FreshStart, FreshStep, FlagPlanStep, PTL
      DEF MigrationSpec

=============================================================================
