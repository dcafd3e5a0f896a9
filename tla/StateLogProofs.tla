--------------------------- MODULE StateLogProofs ---------------------------
(***************************************************************************)
(* Proofs about StateLog, for any set of entries, any thresholds, any      *)
(* resolution of the clock and any length of run.  TypeOK holds whatever   *)
(* the faults; the durability results assume that a write is all or        *)
(* nothing: an append leaves its whole line or no byte, as appendLine's    *)
(* comment assumes, and a compaction that reports an error has left the    *)
(* old file.  Crashes, refused appends and failed compactions are allowed. *)
(***************************************************************************)
EXTENDS StateLog, TLAPS, FiniteSetTheorems, FunctionTheorems, SequenceTheorems,
        NaturalsInduction, WellFoundedInduction

-----------------------------------------------------------------------------
(* About the operators the log is made of.                                 *)

LEMMA SecondType ==
    ASSUME NEW t \in Nat
    PROVE  Second(t) \in Nat /\ Second(t) <= t
  BY StateLogAssumption DEF Second

\* A bounded set of naturals has a maximum.
LEMMA MaxOfBounded ==
    ASSUME NEW S \in SUBSET Nat, S # {}, NEW n \in Nat, \A s \in S : s <= n
    PROVE  Max(S) \in S /\ \A s \in S : s <= Max(S)
  <1> DEFINE T == {m \in Nat : \E s \in S : m = n - s}
  <1>1. T \subseteq Nat /\ T # {}
    <2>1. PICK s \in S : TRUE OBVIOUS
    <2>2. n - s \in T BY <2>1
    <2> QED BY <2>2
  <1>2. PICK m \in T : \A k \in T : ~(k < m)
    <2> DEFINE R == OpToRel(<, Nat)
    <2>1. IsWellFoundedOn(R, Nat) BY NatLessThanWellFounded
    <2>2. \A k \in Nat, l \in Nat : k < l => <<k, l>> \in R BY DEF OpToRel
    <2> HIDE DEF R
    <2>3. PICK m \in T : \A k \in T : ~(<<k, m>> \in R)
      BY <1>1, <2>1, WFMin
    <2> QED BY <2>2, <2>3, <1>1
  <1>3. PICK x \in S : m = n - x
    BY <1>2
  <1>4. \A y \in S : x >= y
    <2> SUFFICES ASSUME NEW y \in S, ~(x >= y) PROVE FALSE
      OBVIOUS
    <2>1. n - y \in T /\ n - y < m
      BY <1>3
    <2> QED BY <2>1, <1>2
  <1> QED BY <1>4 DEF Max

LEMMA IdsFinite == IsFiniteSet(Ids)
  BY StateLogAssumption, FS_AddElement DEF Ids

\* SetToSeq lists every element of a finite set.
LEMMA SetToSeqProperties ==
    ASSUME NEW S, IsFiniteSet(S)
    PROVE  /\ Cardinality(S) \in Nat
           /\ SetToSeq(S) \in [1..Cardinality(S) -> S]
           /\ \A x \in S : \E i \in 1..Cardinality(S) : SetToSeq(S)[i] = x
           /\ IsInjective(SetToSeq(S))
  <1> DEFINE n == Cardinality(S)
  <1>1. n \in Nat /\ ExistsBijection(1..n, S)
    BY FS_CardinalityType
  <1>2. \E f \in [1..n -> S] : IsInjective(f)
    BY <1>1 DEF ExistsBijection, Bijection, Injection
  <1>3. SetToSeq(S) \in [1..n -> S] /\ IsInjective(SetToSeq(S))
    BY <1>2 DEF SetToSeq
  <1>4. SetToSeq(S) \in Injection(1..n, S)
    BY <1>3 DEF Injection
  <1>5. IsFiniteSet(1..n) /\ Cardinality(1..n) = n
    BY <1>1, FS_Interval
  <1>6. SetToSeq(S) \in Surjection(1..n, S)
    BY <1>4, <1>5, FS_Injection
  <1> QED BY <1>1, <1>3, <1>6 DEF Surjection

\* Appending a line decides the flag of its own entry and of no other.
LEMMA AppendOn ==
    ASSUME NEW lg \in Seq(Line), NEW line \in Line, NEW id
    PROVE  On(Append(lg, line), id) <=> IF line.hash = id THEN line.on ELSE On(lg, id)
  <1> DEFINE new == Append(lg, line)
             n == Len(lg)
  <1>1. /\ n \in Nat /\ DOMAIN lg = 1..n /\ DOMAIN new = 1..(n + 1)
        /\ \A i \in 1..n : new[i] = lg[i]
        /\ new[n + 1] = line
    BY LenProperties, AppendProperties
  <1> HIDE DEF new, n
  <1>2. n + 1 \in DOMAIN new /\ IsLast(new, n + 1)
    BY <1>1 DEF IsLast
  <1>3. CASE line.hash = id
    <2>1. LastAbout(new, id) = {n + 1}
      BY <1>1, <1>2, <1>3 DEF LastAbout, IsLast
    <2> QED BY <1>1, <1>3, <2>1 DEF On, new
  <1>4. CASE line.hash # id
    <2>1. \A i \in 1..n : lg[i].hash = id => (IsLast(new, i) <=> IsLast(lg, i))
      BY <1>1, <1>4 DEF IsLast
    <2>2. LastAbout(new, id) = LastAbout(lg, id)
      BY <1>1, <1>4, <2>1 DEF LastAbout
    <2>3. LastAbout(lg, id) \subseteq 1..n
      BY <1>1 DEF LastAbout
    <2> QED BY <1>1, <1>4, <2>2, <2>3 DEF On, new
  <1> QED BY <1>3, <1>4

\* A compacted log has one line for each flag that is set, and says so.
LEMMA CompactedProperties ==
    ASSUME flag \in [Kinds -> [Ids -> BOOLEAN]], clock \in Nat, NEW k \in Kinds
    PROVE  /\ Compacted(k) \in Seq(Line)
           /\ Len(Compacted(k)) = Cardinality(LiveIds(k))
           /\ \A i \in DOMAIN Compacted(k) :
                 Compacted(k)[i].hash \in Ids /\ Compacted(k)[i].ts <= clock
           /\ \A id \in Ids : On(Compacted(k), id) <=> flag[k][id]
  <1> DEFINE S == LiveIds(k)
             n == Cardinality(S)
             ids == SetToSeq(S)
             new == Compacted(k)
  <1>1. IsFiniteSet(S)
    BY IdsFinite, FS_Subset DEF LiveIds
  <1>2. /\ n \in Nat
        /\ ids \in [1..n -> S]
        /\ \A x \in S : \E i \in 1..n : ids[i] = x
        /\ IsInjective(ids)
    BY <1>1, SetToSeqProperties
  <1>3. S \subseteq Ids /\ \A id \in Ids : id \in S <=> flag[k][id]
    BY DEF LiveIds
  <1>4. new = [i \in 1..n |-> [ts |-> Second(clock), on |-> TRUE, hash |-> ids[i]]]
    BY DEF Compacted
  <1>5. Second(clock) \in Nat /\ Second(clock) <= clock
    BY SecondType
  <1> HIDE DEF new, n, ids, S
  <1>6. new \in [1..n -> Line]
    BY <1>2, <1>3, <1>4, <1>5 DEF Line
  <1>7. new \in Seq(Line) /\ Len(new) = n
    BY <1>2, <1>6, IsASeq, LenProperties
  <1>8. \A i \in DOMAIN new : new[i].hash \in Ids /\ new[i].ts <= clock
    BY <1>2, <1>3, <1>4, <1>5
  <1>9. ASSUME NEW id \in Ids
        PROVE  On(new, id) <=> flag[k][id]
    <2>1. \A i \in 1..n : IsLast(new, i)
      BY <1>2, <1>4 DEF IsLast, IsInjective
    <2>2. CASE flag[k][id]
      <3>1. PICK i \in 1..n : ids[i] = id
        BY <1>2, <1>3, <2>2
      <3>2. new[i].hash = id /\ new[i].on
        BY <3>1, <1>4
      <3> QED BY <2>1, <2>2, <3>1, <3>2, <1>4 DEF On, LastAbout
    <2>3. CASE ~flag[k][id]
      <3>1. \A i \in 1..n : new[i].hash # id
        BY <1>2, <1>3, <1>4, <2>3
      <3> QED BY <2>3, <3>1, <1>4 DEF On, LastAbout
    <2> QED BY <2>2, <2>3
  <1> QED BY <1>7, <1>8, <1>9 DEF new, n, S

-----------------------------------------------------------------------------
(* Type correctness, whatever the faults.                                  *)

TypeInv ==
    /\ TypeOK
    /\ \A k \in Kinds : torn[k] => Len(log[k]) > 0
    /\ \A k \in Kinds : \A i \in DOMAIN log[k] : log[k][i].ts <= clock
    /\ step # "idle" => req.now <= clock
    /\ step \in {"append", "apply"} => flag[req.kind][req.hash] = ~req.want
    /\ up => \A k \in Kinds : live[k] = Cardinality(LiveIds(k))

\* What a line written over, or after, the last one does to a log.
LEMMA WrittenType ==
    ASSUME NEW lg \in Seq(Line), NEW t \in BOOLEAN, t => Len(lg) > 0,
           NEW line \in Line, NEW c \in Nat, line.ts <= c,
           \A i \in DOMAIN lg : lg[i].ts <= c
    PROVE  /\ Written(lg, t, line) \in Seq(Line)
           /\ Len(Written(lg, t, line)) > 0
           /\ \A i \in DOMAIN Written(lg, t, line) : Written(lg, t, line)[i].ts <= c
  <1>1. CASE t
    <2>1. Len(lg) \in DOMAIN lg /\ lg[Len(lg)] \in Line
      BY <1>1, LenProperties
    <2>2. /\ RunTogether(lg[Len(lg)]) \in Line
          /\ RunTogether(lg[Len(lg)]).ts = lg[Len(lg)].ts
      BY <2>1 DEF RunTogether, Line, Ids
    <2>3. Written(lg, t, line) = [lg EXCEPT ![Len(lg)] = RunTogether(lg[Len(lg)])]
      BY <1>1 DEF Written
    <2> DEFINE e == RunTogether(lg[Len(lg)])
               new == [lg EXCEPT ![Len(lg)] = e]
    <2>4. DOMAIN lg = 1..Len(lg) /\ e \in Line /\ e.ts <= c
      BY <2>1, <2>2, LenProperties
    <2> HIDE DEF e
    <2>5. /\ new \in Seq(Line)
          /\ Len(new) = Len(lg)
          /\ \A j \in 1..Len(lg) : new[j] = IF j = Len(lg) THEN e ELSE lg[j]
      BY <2>1, <2>4, ExceptSeq
    <2> HIDE DEF new
    <2>6. DOMAIN new = 1..Len(lg)
      BY <2>5, LenProperties
    <2>7. \A j \in DOMAIN new : new[j].ts <= c
      BY <2>4, <2>5, <2>6
    <2> QED BY <1>1, <2>3, <2>5, <2>7 DEF new, e
  <1>2. CASE ~t
    <2>1. Written(lg, t, line) = Append(lg, line)
      BY <1>2 DEF Written
    <2> QED BY <2>1, AppendProperties, LenProperties
  <1> QED BY <1>1, <1>2

LEMMA FoldedVersionType ==
    ASSUME TypeOK, \A k \in Kinds : \A i \in DOMAIN log[k] : log[k][i].ts <= clock
    PROVE  FoldedVersion \in Nat
  <1> DEFINE S == {0} \cup UNION {{log[k][i].ts : i \in Parsed(log[k])} : k \in Kinds}
  <1>1. \A k \in Kinds : \A i \in DOMAIN log[k] : log[k][i].ts \in Nat
    <2> SUFFICES ASSUME NEW k \in Kinds, NEW i \in DOMAIN log[k]
                 PROVE  log[k][i].ts \in Nat
      OBVIOUS
    <2>1. log[k] \in Seq(Line)
      BY DEF TypeOK
    <2>2. log[k][i] \in Line
      BY <2>1, LenProperties, ElementOfSeq
    <2> QED BY <2>2 DEF Line
  <1>2. S \in SUBSET Nat /\ S # {} /\ clock \in Nat /\ \A s \in S : s <= clock
    BY <1>1 DEF TypeOK, Parsed
  <1> HIDE DEF S
  <1>3. Max(S) \in S
    BY <1>2, MaxOfBounded
  <1> QED BY <1>2, <1>3 DEF FoldedVersion, S

LEMMA TypeInvInit == Init => TypeInv
  <1> SUFFICES ASSUME Init PROVE TypeInv
    OBVIOUS
  <1>2. clock \in Nat
    BY StateLogAssumption DEF Init
  <1>1. TypeOK
    BY <1>2, EmptySeq DEF Init, TypeOK, NoRequest
  <1> QED BY <1>1 DEF Init, TypeInv

\* What the modules that extend StateLog add to its steps: Open knows the newest
\* entry, the clock is read for something else, and entries change the version.
ClockStep ==
    /\ clock' \in Nat /\ clock <= clock'
    /\ contentVer' \in Nat
    /\ UNCHANGED <<disk, up, flag, updatedAt, lines, live, step, req>>

\* The steps in which a write is all or nothing, and the others.
WholeNext ==
    \/ \E newest \in Nat : OpenWith(newest)
    \/ Crash
    \/ \E k \in Kinds, h \in Hashes, want \in BOOLEAN : SetFlag(k, h, want)
    \/ AppendLine
    \/ AppendFails
    \/ Apply
    \/ CompactLocked
    \/ CompactFails
    \/ ClockStep

BrokenNext ==
    \/ \E part \in Ids \cup {Garbled} : AppendTorn(part)
    \/ CloseFails
    \/ CompactUnsynced

LEMMA NextCases == Next => WholeNext \/ BrokenNext
  BY DEF Next, Open, WholeNext, BrokenNext

LEMMA TypeInvStep == TypeInv /\ [WholeNext \/ BrokenNext]_vars => TypeInv'
  <1> SUFFICES ASSUME TypeInv, [WholeNext \/ BrokenNext]_vars PROVE TypeInv'
    OBVIOUS
  <1> USE DEF vars, disk, memory
  <1>1. ASSUME NEW newest \in Nat, OpenWith(newest) PROVE TypeInv'
    <2>1. \A id \in Ids : FoldedTime(id) \in Nat
      <3> SUFFICES ASSUME NEW id \in Ids PROVE FoldedTime(id) \in Nat
        OBVIOUS
      <3>1. ASSUME NEW k \in Kinds, LastAbout(log[k], id) # {}
            PROVE  TimeOf(log[k], id) \in Nat
        <4> DEFINE i == CHOOSE j \in LastAbout(log[k], id) : TRUE
        <4>1. i \in DOMAIN log[k]
          BY <3>1 DEF LastAbout
        <4>2. log[k] \in Seq(Line)
          BY DEF TypeInv, TypeOK
        <4>3. log[k][i] \in Line
          BY <4>1, <4>2, LenProperties, ElementOfSeq
        <4> QED BY <4>3 DEF TimeOf, Line
      <3> QED BY <3>1 DEF FoldedTime, Kinds
    <2>2. Max({FoldedVersion, newest}) \in Nat
      <3>1. FoldedVersion \in Nat
        BY FoldedVersionType DEF TypeInv
      <3>2. \E n \in Nat : \A s \in {FoldedVersion, newest} : s <= n
        <4>1. CASE FoldedVersion <= newest BY <3>1, <4>1
        <4>2. CASE newest <= FoldedVersion BY <3>1, <4>2
        <4> QED BY <3>1, <4>1, <4>2
      <3> QED BY <3>1, <3>2, MaxOfBounded, {FoldedVersion, newest} \in SUBSET Nat
    <2>3. \A k \in Kinds : Cardinality(Parsed(log[k])) \in Nat
      <3> SUFFICES ASSUME NEW k \in Kinds PROVE Cardinality(Parsed(log[k])) \in Nat
        OBVIOUS
      <3>1. log[k] \in Seq(Line)
        BY DEF TypeInv, TypeOK
      <3>2. Len(log[k]) \in Nat /\ Parsed(log[k]) \subseteq 1..Len(log[k])
        BY <3>1, LenProperties DEF Parsed
      <3>3. IsFiniteSet(1..Len(log[k]))
        BY <3>2, FS_Interval
      <3>4. IsFiniteSet(Parsed(log[k]))
        BY <3>2, <3>3, FS_Subset
      <3> QED BY <3>4, FS_CardinalityType
    <2>4. \A k \in Kinds : /\ FoldedLive(k) = {id \in Ids : flag'[k][id]}
                          /\ Cardinality(FoldedLive(k)) \in Nat
      BY <1>1, IdsFinite, FS_Subset, FS_CardinalityType
      DEF OpenWith, FoldedLive
    <2>5. flag' \in [Kinds -> [Ids -> BOOLEAN]]
      BY <1>1 DEF OpenWith, On
    <2>6. TypeOK'
      BY <1>1, <2>1, <2>2, <2>3, <2>4, <2>5 DEF OpenWith, TypeInv, TypeOK
    <2>7. \A k \in Kinds : live'[k] = Cardinality(LiveIds(k)')
      BY <1>1, <2>4 DEF OpenWith, LiveIds
    <2> QED BY <1>1, <2>6, <2>7 DEF OpenWith, TypeInv, TypeOK
  <1>2. CASE Crash
    BY <1>2 DEF Crash, TypeInv, TypeOK, NoRequest
  <1>3. ASSUME NEW k \in Kinds, NEW h \in Hashes, NEW want \in BOOLEAN,
               SetFlag(k, h, want)
        PROVE  TypeInv'
    <2>1. flag[k][h] \in BOOLEAN
      BY DEF TypeInv, TypeOK, Ids
    <2>2. flag[k][h] = ~want
      BY <1>3, <2>1 DEF SetFlag
    <2>3. req' \in Request /\ req'.now = clock' /\ clock' \in Nat /\ clock <= clock'
      BY <1>3 DEF SetFlag, Later, TypeInv, TypeOK, Request
    <2>4. TypeOK'
      BY <1>3, <2>3 DEF SetFlag, TypeInv, TypeOK
    <2>5. \A kk \in Kinds : \A i \in DOMAIN log[kk] : log[kk][i].ts <= clock'
      <3> SUFFICES ASSUME NEW kk \in Kinds, NEW i \in DOMAIN log[kk]
                   PROVE  log[kk][i].ts <= clock'
        OBVIOUS
      <3>1. log[kk] \in Seq(Line) /\ clock \in Nat /\ log[kk][i].ts <= clock
        BY DEF TypeInv, TypeOK
      <3>2. log[kk][i] \in Line
        BY <3>1, LenProperties, ElementOfSeq
      <3> QED BY <2>3, <3>1, <3>2 DEF Line
    <2>6. flag'[req'.kind][req'.hash] = ~req'.want
      BY <1>3, <2>2 DEF SetFlag
    <2> QED BY <1>3, <2>3, <2>4, <2>5, <2>6 DEF SetFlag, TypeInv, LiveIds
  <1>4. ASSUME NEW part \in Ids \cup {Garbled}, NEW t \in BOOLEAN,
               step = "append",
               log' = [log EXCEPT ![req.kind] =
                   Written(@, torn[req.kind], RequestLine(part))],
               torn' = [torn EXCEPT ![req.kind] = t],
               \/ step' = "apply" /\ req' = req
               \/ step' = "idle" /\ req' = NoRequest,
               UNCHANGED <<up, memory, clock>>
        PROVE  TypeInv'
    <2>1. req \in Request /\ up /\ req.now <= clock
      BY <1>4 DEF TypeInv, TypeOK
    <2> DEFINE k == req.kind
               line == RequestLine(part)
               new == Written(log[k], torn[k], line)
    <2>2. k \in Kinds /\ log[k] \in Seq(Line) /\ torn[k] \in BOOLEAN
      BY <2>1 DEF Request, TypeInv, TypeOK
    <2>3. line \in Line /\ line.ts <= clock
      BY <2>1, SecondType DEF RequestLine, Line, Request, TypeInv, TypeOK
    <2>4. /\ torn[k] => Len(log[k]) > 0
          /\ \A i \in DOMAIN log[k] : log[k][i].ts <= clock
          /\ clock \in Nat
      BY <2>2 DEF TypeInv, TypeOK
    <2>5. /\ new \in Seq(Line)
          /\ Len(new) > 0
          /\ \A i \in DOMAIN new : new[i].ts <= clock
      BY <2>2, <2>3, <2>4, WrittenType
    <2>6. log' = [log EXCEPT ![k] = new]
      BY <1>4
    <2> HIDE DEF new, line, k
    <2>7. TypeOK'
      BY <1>4, <2>1, <2>2, <2>5, <2>6 DEF TypeInv, TypeOK
    <2>8. \A kk \in Kinds : /\ torn'[kk] => Len(log'[kk]) > 0
                           /\ \A i \in DOMAIN log'[kk] : log'[kk][i].ts <= clock'
      BY <1>4, <2>2, <2>5, <2>6 DEF TypeInv, TypeOK, k
    <2> QED BY <1>4, <2>7, <2>8 DEF TypeInv, LiveIds
  <1>5. CASE AppendLine
    <2>1. req \in Request
      BY <1>5 DEF AppendLine, TypeInv, TypeOK
    <2> QED BY <1>4, <1>5, <2>1 DEF AppendLine, Request, Ids
  <1>6. CASE AppendFails
    BY <1>6 DEF AppendFails, Return, TypeInv, TypeOK, LiveIds
  <1>7. ASSUME NEW part \in Ids \cup {Garbled}, AppendTorn(part)
        PROVE  TypeInv'
    BY <1>4, <1>7 DEF AppendTorn, Return
  <1>8. CASE CloseFails
    <2>1. req \in Request
      BY <1>8 DEF CloseFails, TypeInv, TypeOK
    <2> QED BY <1>4, <1>8, <2>1 DEF CloseFails, Return, Request, Ids
  <1>9. CASE Apply
    <2>1. req \in Request /\ up /\ flag[req.kind][req.hash] = ~req.want
      BY <1>9 DEF Apply, TypeInv, TypeOK
    <2>k. PICK k \in Kinds, h \in Ids : k = req.kind /\ h = req.hash
      BY <2>1 DEF Request, Ids
    <2>2. req.want \in BOOLEAN /\ req.now \in Nat
      BY <2>1 DEF Request
    <2>3. IsFiniteSet(LiveIds(k)) /\ live[k] = Cardinality(LiveIds(k))
      BY <2>1, <2>2, <2>k, IdsFinite, FS_Subset DEF LiveIds, TypeInv
    <2>4. LiveIds(k)' = IF req.want THEN LiveIds(k) \cup {h} ELSE LiveIds(k) \ {h}
      <3>1. /\ flag[k] \in [Ids -> BOOLEAN]
            /\ flag'[k] = [flag[k] EXCEPT ![h] = req.want]
        BY <1>9, <2>2, <2>k DEF Apply, TypeInv, TypeOK
      <3>2. LiveIds(k)' = {id \in Ids : flag'[k][id]}
        BY <1>9 DEF LiveIds, Apply
      <3> QED BY <2>2, <2>k, <3>1, <3>2 DEF LiveIds
    <2>5. h \in LiveIds(k) <=> ~req.want
      BY <2>1, <2>2, <2>k DEF LiveIds
    <2>6. live'[k] = Cardinality(LiveIds(k)') /\ live'[k] \in Nat
      <3>1. live'[k] = live[k] + (IF req.want THEN 1 ELSE -1)
        BY <1>9, <2>2, <2>k DEF Apply, TypeInv, TypeOK
      <3>2. CASE req.want
        <4>1. IsFiniteSet(LiveIds(k) \cup {h})
              /\ Cardinality(LiveIds(k) \cup {h}) = Cardinality(LiveIds(k)) + 1
          BY <2>3, <2>5, <3>2, FS_AddElement
        <4>2. Cardinality(LiveIds(k)) \in Nat
          BY <2>3, FS_CardinalityType
        <4> QED BY <2>3, <2>4, <3>1, <3>2, <4>1, <4>2
      <3>3. CASE ~req.want
        <4>1. IsFiniteSet(LiveIds(k) \ {h})
              /\ Cardinality(LiveIds(k) \ {h}) = Cardinality(LiveIds(k)) - 1
          BY <2>3, <2>5, <3>3, FS_RemoveElement
        <4>2. Cardinality(LiveIds(k) \ {h}) \in Nat
          BY <4>1, FS_CardinalityType
        <4>3. live[k] \in Nat
          BY <2>2, <2>k DEF TypeInv, TypeOK
        <4> QED BY <2>3, <2>4, <3>1, <3>3, <4>1, <4>2, <4>3
      <3> QED BY <3>2, <3>3
    <2>7. \A kk \in Kinds \ {k} : LiveIds(kk)' = LiveIds(kk) /\ live'[kk] = live[kk]
      BY <1>9, <2>2, <2>k DEF Apply, LiveIds, TypeInv, TypeOK
    <2>8. live' \in [Kinds -> Nat]
      BY <1>9, <2>2, <2>k, <2>6, <2>7 DEF Apply, TypeInv, TypeOK
    <2>9. /\ flag' \in [Kinds -> [Ids -> BOOLEAN]]
          /\ updatedAt' \in [Ids -> Nat]
          /\ lines' \in [Kinds -> Nat]
          /\ contentVer' \in Nat
      BY <1>9, <2>2, <2>k DEF Apply, TypeInv, TypeOK
    <2>10. \/ step' = "compact" /\ req' = req
           \/ step' = "idle" /\ req' = NoRequest
      BY <1>9 DEF Apply, Return
    <2>11. TypeOK'
      BY <1>9, <2>1, <2>8, <2>9, <2>10 DEF Apply, TypeInv, TypeOK
    <2>12. \A kk \in Kinds : live'[kk] = Cardinality(LiveIds(kk)')
      <3> SUFFICES ASSUME NEW kk \in Kinds, kk # k
                   PROVE  live'[kk] = Cardinality(LiveIds(kk)')
        BY <2>6 DEF LiveIds
      <3>1. live[kk] = Cardinality(LiveIds(kk))
        BY <2>1 DEF TypeInv
      <3>2. LiveIds(kk)' = LiveIds(kk) /\ live'[kk] = live[kk]
        BY <2>7
      <3> QED BY <3>1, <3>2
    <2> QED BY <1>9, <2>10, <2>11, <2>12 DEF Apply, TypeInv
  <1>10. CASE CompactLocked \/ CompactUnsynced
    <2>1. req \in Request /\ up
      BY <1>10 DEF CompactLocked, CompactUnsynced, TypeInv, TypeOK
    <2> DEFINE k == req.kind
    <2>2. k \in Kinds
      BY <2>1 DEF Request
    <2>3. /\ Compacted(k) \in Seq(Line)
          /\ \A i \in DOMAIN Compacted(k) : Compacted(k)[i].ts <= clock
      BY <2>2, CompactedProperties DEF TypeInv, TypeOK
    <2>4. Cardinality(LiveIds(k)) \in Nat
      BY IdsFinite, FS_Subset, FS_CardinalityType DEF LiveIds
    <2>5. lines' \in [Kinds -> Nat]
      BY <1>10, <2>4 DEF CompactLocked, CompactUnsynced, TypeInv, TypeOK
    <2>6. /\ log' = [log EXCEPT ![k] = Compacted(k)]
          /\ torn' = [torn EXCEPT ![k] = FALSE]
          /\ step' = "idle" /\ req' = NoRequest
          /\ UNCHANGED <<up, flag, updatedAt, live, contentVer, clock>>
      BY <1>10 DEF CompactLocked, CompactUnsynced, Return
    <2>7. TypeOK'
      BY <2>2, <2>3, <2>5, <2>6 DEF TypeInv, TypeOK
    <2>8. \A kk \in Kinds : /\ torn'[kk] => Len(log'[kk]) > 0
                           /\ \A i \in DOMAIN log'[kk] : log'[kk][i].ts <= clock'
      BY <2>2, <2>3, <2>6 DEF TypeInv, TypeOK
    <2> QED BY <2>6, <2>7, <2>8 DEF TypeInv, LiveIds
  <1>11. CASE CompactFails
    BY <1>11 DEF CompactFails, Return, TypeInv, TypeOK, LiveIds
  <1>12. CASE ClockStep \/ UNCHANGED vars
    <2>1. /\ clock' \in Nat /\ clock <= clock' /\ contentVer' \in Nat
          /\ UNCHANGED <<disk, up, flag, updatedAt, lines, live, step, req>>
      BY <1>12 DEF ClockStep, TypeInv, TypeOK
    <2>2. TypeOK'
      BY <2>1 DEF TypeInv, TypeOK
    <2>3. \A k \in Kinds : \A i \in DOMAIN log[k] : log[k][i].ts <= clock'
      <3> SUFFICES ASSUME NEW k \in Kinds, NEW i \in DOMAIN log[k]
                   PROVE  log[k][i].ts <= clock'
        OBVIOUS
      <3>1. log[k] \in Seq(Line) /\ clock \in Nat /\ log[k][i].ts <= clock
        BY DEF TypeInv, TypeOK
      <3>2. log[k][i] \in Line
        BY <3>1, LenProperties, ElementOfSeq
      <3> QED BY <2>1, <3>1, <3>2 DEF Line
    <2>4. step # "idle" => req.now <= clock'
      <3> SUFFICES ASSUME step # "idle" PROVE req.now <= clock'
        OBVIOUS
      <3>1. req \in Request /\ req.now <= clock /\ clock \in Nat
        BY DEF TypeInv, TypeOK
      <3> QED BY <2>1, <3>1 DEF Request
    <2> QED BY <2>1, <2>2, <2>3, <2>4 DEF TypeInv, LiveIds
  <1> QED
    BY <1>1, <1>2, <1>3, <1>5, <1>6, <1>7, <1>8, <1>9, <1>10, <1>11, <1>12
    DEF WholeNext, BrokenNext

LEMMA TypeInvNext == TypeInv /\ [Next]_vars => TypeInv'
  BY TypeInvStep, NextCases

\* Every variable keeps its type, whatever the faults.
THEOREM TypeCorrect == Spec => []TypeOK
  <1>1. TypeInv => TypeOK
    BY DEF TypeInv
  <1> QED BY TypeInvInit, TypeInvNext, <1>1, PTL DEF Spec

-----------------------------------------------------------------------------
(* Durability, when a write is all or nothing.                             *)

AllOrNothing == Faults \cap {"torn", "close", "sync"} = {}

\* The request whose line is on disk and not yet in memory.
Unapplied(k, id) == step = "apply" /\ k = req.kind /\ id = req.hash

DurableInv ==
    /\ \A k \in Kinds : ~torn[k]
    /\ \A k \in Kinds : \A i \in DOMAIN log[k] : log[k][i].hash \in Ids
    /\ up => \A k \in Kinds, id \in Ids :
                On(log[k], id) <=> IF Unapplied(k, id) THEN req.want ELSE flag[k][id]
    /\ up => \A k \in Kinds :
                Len(log[k]) = IF step = "apply" /\ k = req.kind
                              THEN lines[k] + 1 ELSE lines[k]

LEMMA ParsedAll ==
    ASSUME NEW lg \in Seq(Line), \A i \in DOMAIN lg : lg[i].hash \in Ids
    PROVE  Cardinality(Parsed(lg)) = Len(lg)
  <1>1. Len(lg) \in Nat /\ Parsed(lg) = 1..Len(lg)
    BY LenProperties DEF Parsed
  <1> QED BY <1>1, FS_Interval

LEMMA OnBoolean == \A lg, id : On(lg, id) \in BOOLEAN
  BY DEF On

LEMMA EmptyOn == \A id : ~On(<<>>, id)
  BY DEF On, LastAbout

LEMMA DurableInvInit == Init => DurableInv
  BY DEF Init, DurableInv

LEMMA WholeOnly == ASSUME AllOrNothing PROVE Next => WholeNext
  <1>1. ~BrokenNext
    BY DEF AllOrNothing, BrokenNext, AppendTorn, CloseFails, CompactUnsynced
  <1> QED BY <1>1, NextCases

LEMMA DurableInvStep ==
    ASSUME TypeInv, DurableInv, [WholeNext]_vars
    PROVE  DurableInv'
  <1> USE DEF vars, disk, memory
  <1>1. ASSUME NEW newest \in Nat, OpenWith(newest) PROVE DurableInv'
    <2>1. \A k \in Kinds : lines'[k] = Len(log[k])
      <3> SUFFICES ASSUME NEW k \in Kinds PROVE lines'[k] = Len(log[k])
        OBVIOUS
      <3>1. log[k] \in Seq(Line) /\ \A i \in DOMAIN log[k] : log[k][i].hash \in Ids
        BY DEF TypeInv, TypeOK, DurableInv
      <3> QED BY <1>1, <3>1, ParsedAll DEF OpenWith
    <2>2. step' = "idle"
      BY <1>1 DEF OpenWith, TypeInv, TypeOK
    <2> QED BY <1>1, <2>1, <2>2 DEF OpenWith, DurableInv, Unapplied
  <1>2. CASE Crash
    BY <1>2 DEF Crash, DurableInv
  <1>3. ASSUME NEW k \in Kinds, NEW h \in Hashes, NEW want \in BOOLEAN,
               SetFlag(k, h, want)
        PROVE  DurableInv'
    BY <1>3 DEF SetFlag, DurableInv, Unapplied
  <1>4. CASE AppendLine
    <2>1. req \in Request /\ up
      BY <1>4 DEF AppendLine, TypeInv, TypeOK
    <2>k. PICK k \in Kinds, h \in Hashes : k = req.kind /\ h = req.hash
      BY <2>1 DEF Request
    <2>2. ~torn[k] /\ log[k] \in Seq(Line) /\ RequestLine(h) \in Line
      BY <2>1, <2>k, SecondType
      DEF TypeInv, TypeOK, DurableInv, RequestLine, Request, Line, Ids
    <2>3. log' = [log EXCEPT ![k] = Append(log[k], RequestLine(h))]
      BY <1>4, <2>k, <2>2 DEF AppendLine, Written
    <2>4. \A id \in Ids : On(log'[k], id) <=>
                IF id = h THEN req.want ELSE On(log[k], id)
      BY <2>2, <2>3, <2>k, AppendOn DEF TypeInv, TypeOK, RequestLine
    <2>5. Len(log'[k]) = Len(log[k]) + 1
      BY <2>2, <2>3, <2>k, AppendProperties DEF TypeInv, TypeOK
    <2>6. \A i \in DOMAIN log'[k] : log'[k][i].hash \in Ids
      <3>1. DOMAIN log'[k] = 1..(Len(log[k]) + 1) /\ DOMAIN log[k] = 1..Len(log[k])
        BY <2>2, <2>3, <2>k, AppendProperties, LenProperties DEF TypeInv, TypeOK
      <3>2. \A i \in DOMAIN log[k] : log'[k][i] = log[k][i] /\ log[k][i].hash \in Ids
        BY <2>2, <2>3, <2>k, <3>1, AppendProperties DEF TypeInv, TypeOK, DurableInv
      <3>3. log'[k][Len(log[k]) + 1].hash = h
        BY <2>2, <2>3, <2>k, AppendProperties DEF TypeInv, TypeOK, RequestLine
      <3>4. Len(log[k]) \in Nat /\ h \in Ids
        BY <2>2, LenProperties DEF Ids
      <3> QED BY <3>1, <3>2, <3>3, <3>4
    <2>7. \A kk \in Kinds : kk # k => log'[kk] = log[kk]
      BY <2>3 DEF TypeInv, TypeOK
    <2>8. step' = "apply" /\ step = "append"
      BY <1>4 DEF AppendLine
    <2>9. \A kk \in Kinds : ~torn'[kk]
      BY <1>4 DEF AppendLine, TypeInv, TypeOK, DurableInv
    <2>10. \A kk \in Kinds : \A i \in DOMAIN log'[kk] : log'[kk][i].hash \in Ids
      BY <2>6, <2>7 DEF DurableInv
    <2>11. \A kk \in Kinds, id \in Ids :
             On(log'[kk], id) <=>
                IF kk = k /\ id = h THEN req.want ELSE flag[kk][id]
      BY <2>1, <2>4, <2>7, <2>8 DEF DurableInv, Unapplied
    <2>12. \A kk \in Kinds : Len(log'[kk]) = IF kk = k THEN lines[kk] + 1 ELSE lines[kk]
      BY <2>1, <2>5, <2>7, <2>8 DEF DurableInv
    <2> QED
      BY <1>4, <2>k, <2>8, <2>9, <2>10, <2>11, <2>12 DEF AppendLine, DurableInv, Unapplied
  <1>5. CASE AppendFails
    BY <1>5 DEF AppendFails, Return, DurableInv, Unapplied
  <1>8. CASE Apply
    <2>1. req \in Request /\ up
      BY <1>8 DEF Apply, TypeInv, TypeOK
    <2>k. PICK k \in Kinds, h \in Ids : k = req.kind /\ h = req.hash
      BY <2>1 DEF Request, Ids
    <2>2. step = "apply" /\ step' # "apply" /\ log' = log /\ torn' = torn /\ up'
      BY <1>8, <2>1 DEF Apply, Return
    <2>3. \A kk \in Kinds, id \in Ids :
            flag'[kk][id] = IF kk = k /\ id = h THEN req.want ELSE flag[kk][id]
      BY <1>8, <2>k DEF Apply, TypeInv, TypeOK
    <2>4. \A kk \in Kinds : lines'[kk] = IF kk = k THEN lines[kk] + 1 ELSE lines[kk]
      BY <1>8, <2>k DEF Apply, TypeInv, TypeOK
    <2> QED BY <2>1, <2>k, <2>2, <2>3, <2>4 DEF DurableInv, Unapplied
  <1>9. CASE CompactLocked
    <2>1. req \in Request /\ up
      BY <1>9 DEF CompactLocked, TypeInv, TypeOK
    <2>k. PICK k \in Kinds : k = req.kind
      BY <2>1 DEF Request
    <2>2. /\ Len(Compacted(k)) = Cardinality(LiveIds(k))
          /\ \A i \in DOMAIN Compacted(k) : Compacted(k)[i].hash \in Ids
          /\ \A id \in Ids : On(Compacted(k), id) <=> flag[k][id]
      BY CompactedProperties DEF TypeInv, TypeOK
    <2>3. /\ step = "compact" /\ step' = "idle" /\ up' = up /\ flag' = flag
          /\ log'[k] = Compacted(k)
          /\ lines'[k] = Cardinality(LiveIds(k))
          /\ \A kk \in Kinds : kk # k => log'[kk] = log[kk] /\ lines'[kk] = lines[kk]
          /\ \A kk \in Kinds : ~torn'[kk]
      BY <1>9, <2>k DEF CompactLocked, Return, TypeInv, TypeOK, DurableInv
    <2>4. \A kk \in Kinds, id \in Ids : On(log'[kk], id) <=> flag'[kk][id]
      BY <2>1, <2>2, <2>3 DEF DurableInv, Unapplied
    <2>5. \A kk \in Kinds : Len(log'[kk]) = lines'[kk]
      BY <2>1, <2>2, <2>3 DEF DurableInv
    <2>6. \A kk \in Kinds : \A i \in DOMAIN log'[kk] : log'[kk][i].hash \in Ids
      BY <2>2, <2>3 DEF DurableInv
    <2> QED BY <2>3, <2>4, <2>5, <2>6 DEF DurableInv, Unapplied
  <1>10. CASE CompactFails
    BY <1>10 DEF CompactFails, Return, DurableInv, Unapplied
  <1>11. CASE ClockStep
    BY <1>11 DEF ClockStep, DurableInv, Unapplied
  <1>12. CASE UNCHANGED vars
    BY <1>12 DEF DurableInv, Unapplied
  <1> QED
    BY <1>1, <1>2, <1>3, <1>4, <1>5, <1>8, <1>9, <1>10, <1>11, <1>12 DEF WholeNext

LEMMA DurableInvNext ==
    ASSUME AllOrNothing, TypeInv, DurableInv, [Next]_vars
    PROVE  DurableInv'
  BY WholeOnly, DurableInvStep

LEMMA DurableInvariant == ASSUME AllOrNothing PROVE Spec => [](TypeInv /\ DurableInv)
  <1>1. TypeInv /\ DurableInv /\ [Next]_vars => DurableInv'
    BY DurableInvNext
  <1> QED BY <1>1, TypeInvInit, TypeInvNext, DurableInvInit, PTL DEF Spec

\* Between two requests a restart would bring back exactly the flags served:
\* crashes, refused appends, compactions and failed compactions lose none.
THEOREM FlagsSurviveRestart == ASSUME AllOrNothing PROVE Spec => []FlagsDurable
  <1>1. TypeInv /\ DurableInv => FlagsDurable
    BY DEF DurableInv, FlagsDurable, Unapplied, Ids
  <1> QED BY <1>1, DurableInvariant, PTL

\* What setFlag is about to apply to memory is what a restart would read.
THEOREM AppliedIsPersisted == ASSUME AllOrNothing PROVE Spec => []AppliedIsDurable
  <1>1. TypeInv /\ DurableInv => AppliedIsDurable
    <2> SUFFICES ASSUME TypeInv, DurableInv, step = "apply"
                 PROVE  On(log[req.kind], req.hash) <=> req.want
      BY DEF AppliedIsDurable
    <2>1. req \in Request /\ up
      BY DEF TypeInv, TypeOK
    <2> QED BY <2>1 DEF DurableInv, Unapplied, Request, Ids
  <1> QED BY <1>1, DurableInvariant, PTL

\* readN, starN count the lines on disk, liveR and liveS the flags set.
THEOREM CountersCount == ASSUME AllOrNothing PROVE Spec => []CountersExact
  <1>1. TypeInv /\ DurableInv => CountersExact
    <2> SUFFICES ASSUME TypeInv, DurableInv, up, step # "apply", NEW k \in Kinds
                 PROVE  /\ lines[k] = Cardinality(Parsed(log[k]))
                        /\ live[k] = Cardinality(LiveIds(k))
      BY DEF CountersExact
    <2>1. log[k] \in Seq(Line) /\ \A i \in DOMAIN log[k] : log[k][i].hash \in Ids
      BY DEF TypeInv, TypeOK, DurableInv
    <2>2. Len(log[k]) = lines[k]
      BY DEF DurableInv
    <2> QED BY <2>1, <2>2, ParsedAll DEF TypeInv
  <1> QED BY <1>1, DurableInvariant, PTL

\* The request of log k returns no error in this step.
Ends(k) == /\ step = "apply" \/ (step = "compact" /\ log' # log)
           /\ step' = "idle" /\ up'
           /\ k = req.kind

LEMMA LogBoundedStep ==
    ASSUME AllOrNothing, TypeInv, DurableInv, TypeInv', DurableInv', [Next]_vars
    PROVE  [\A k \in Kinds : Ends(k) => Within(k)']_vars
  <1> SUFFICES ASSUME NEW k \in Kinds, Ends(k), Next PROVE Within(k)'
    OBVIOUS
  <1> USE DEF Ends
  <1>1. req \in Request /\ up /\ step # "idle" /\ step # "append"
    BY DEF TypeInv, TypeOK
  <1>2. Len(log'[k]) = lines'[k] /\ live'[k] = Cardinality(LiveIds(k)')
    BY DEF DurableInv, TypeInv
  <1>3. lines'[k] \in Nat /\ live'[k] \in Nat /\ CompactMin \in Nat
        /\ CompactRatio \in Nat \ {0}
    BY StateLogAssumption DEF TypeInv, TypeOK
  <1>4. CASE Apply
    <2>1. lines'[k] <= CompactMin \/ lines'[k] <= CompactRatio * live'[k]
      BY <1>1, <1>3, <1>4 DEF Apply
    <2> QED BY <1>2, <2>1 DEF Within
  <1>5. CASE CompactLocked
    <2>1. lines'[k] = Cardinality(LiveIds(k)) /\ LiveIds(k)' = LiveIds(k)
      BY <1>5 DEF CompactLocked, LiveIds, TypeInv, TypeOK
    <2>2. lines'[k] = live'[k]
      BY <1>2, <2>1
    <2>3. live'[k] <= CompactRatio * live'[k]
      BY <1>3
    <2> QED BY <1>2, <2>2, <2>3 DEF Within
  <1>6. ~Open /\ ~Crash
    BY <1>1 DEF Open, OpenWith, Crash
  <1>7. \A kk \in Kinds, h \in Hashes, want \in BOOLEAN : ~SetFlag(kk, h, want)
    BY <1>1 DEF SetFlag
  <1>8. ~AppendLine /\ ~AppendFails
    BY <1>1 DEF AppendLine, AppendFails
  <1>9. ~CompactFails
    BY DEF CompactFails, disk
  <1>10. ~BrokenNext
    BY DEF AllOrNothing, BrokenNext, AppendTorn, CloseFails, CompactUnsynced
  <1> QED
    BY <1>4, <1>5, <1>6, <1>7, <1>8, <1>9, <1>10 DEF Next, BrokenNext

\* A request that returns no error leaves its log within the threshold.
THEOREM LogsStayBounded == ASSUME AllOrNothing PROVE Spec => LogBounded
  BY LogBoundedStep, DurableInvariant, PTL DEF Spec, LogBounded, Ends

-----------------------------------------------------------------------------
(* What a write may damage, whatever the faults.                           *)

\* Running two lines together decides the flag of neither, and of no other entry.
LEMMA RunTogetherOn ==
    ASSUME NEW lg \in Seq(Line), Len(lg) > 0, NEW h \in Hashes, h # lg[Len(lg)].hash
    PROVE  On([lg EXCEPT ![Len(lg)] = RunTogether(lg[Len(lg)])], h) <=> On(lg, h)
  <1> DEFINE n == Len(lg)
             e == RunTogether(lg[n])
             new == [lg EXCEPT ![n] = e]
  <1>1. n \in Nat /\ DOMAIN lg = 1..n /\ n \in DOMAIN lg
    BY LenProperties
  <1>2. e.hash # h
    BY StateLogAssumption DEF RunTogether, Ids
  <1>3. lg[n].hash # h
    OBVIOUS
  <1> HIDE DEF e, n
  <1>4. DOMAIN new = 1..n /\ \A i \in 1..n : new[i] = IF i = n THEN e ELSE lg[i]
    BY <1>1
  <1> HIDE DEF new
  <1>5. \A i \in 1..n : new[i].hash = h <=> lg[i].hash = h
    BY <1>2, <1>3, <1>4
  <1>6. LastAbout(new, h) = LastAbout(lg, h)
    BY <1>1, <1>4, <1>5 DEF LastAbout, IsLast
  <1>7. \A i \in LastAbout(lg, h) : i \in 1..n /\ i # n
    BY <1>1, <1>3 DEF LastAbout
  <1> QED BY <1>4, <1>6, <1>7 DEF On, new, e, n

\* What the step may have done to the flag of h in log k.
Local(k, h) ==
    /\ k = req.kind
    /\ \/ h = req.hash
       \/ torn[k] /\ h = log[k][Len(log[k])].hash
       \/ step = "compact" /\ On(log[k], h)' = flag[k][h]

LEMMA DamageLocalStep ==
    ASSUME TypeInv, [Next]_vars
    PROVE  [\A k \in Kinds, h \in Hashes :
                On(log[k], h)' # On(log[k], h) => Local(k, h)]_disk
  <1> SUFFICES ASSUME NEW k \in Kinds, NEW h \in Hashes, Next,
                      On(log'[k], h) # On(log[k], h)
               PROVE  Local(k, h)
    BY DEF vars
  <1> USE DEF Local
  <1>1. ASSUME NEW part \in {req.hash, Junk, Garbled}, step = "append",
               log' = [log EXCEPT ![req.kind] =
                          Written(@, torn[req.kind], RequestLine(part))]
        PROVE  Local(k, h)
    <2>1. req \in Request
      BY <1>1 DEF TypeInv, TypeOK
    <2>2. k = req.kind
      BY <1>1 DEF TypeInv, TypeOK
    <2>3. log[k] \in Seq(Line) /\ torn[k] \in BOOLEAN /\ (torn[k] => Len(log[k]) > 0)
      BY DEF TypeInv, TypeOK
    <2>4. log'[k] = Written(log[k], torn[k], RequestLine(part))
      BY <1>1, <2>2 DEF TypeInv, TypeOK
    <2>5. RequestLine(part) \in Line /\ RequestLine(part).hash = part
      BY <2>1, SecondType DEF RequestLine, Line, Request, Ids
    <2>6. CASE torn[k]
      <3>1. log'[k] = [log[k] EXCEPT ![Len(log[k])] = RunTogether(log[k][Len(log[k])])]
        BY <2>4, <2>6 DEF Written
      <3>2. h = log[k][Len(log[k])].hash
        BY <2>3, <2>6, <3>1, RunTogetherOn, OnBoolean
      <3> QED BY <2>2, <2>6, <3>2
    <2>7. CASE ~torn[k]
      <3>1. On(log'[k], h) <=> IF part = h THEN req.want ELSE On(log[k], h)
        BY <2>3, <2>4, <2>5, <2>7, AppendOn DEF Written, RequestLine
      <3>2. part = h
        BY <3>1, OnBoolean
      <3>3. part = req.hash
        BY <3>2, StateLogAssumption DEF Ids
      <3> QED BY <2>2, <3>2, <3>3
    <2> QED BY <2>3, <2>6, <2>7
  <1>2. ASSUME step = "compact", log' = [log EXCEPT ![req.kind] = Compacted(req.kind)]
        PROVE  Local(k, h)
    <2>1. k = req.kind
      BY <1>2 DEF TypeInv, TypeOK
    <2>2. log'[k] = Compacted(k)
      BY <1>2, <2>1 DEF TypeInv, TypeOK
    <2>3. On(log'[k], h) <=> flag[k][h]
      BY <2>2, CompactedProperties DEF TypeInv, TypeOK, Ids
    <2>4. On(log'[k], h) = flag[k][h]
      BY <2>3, OnBoolean DEF TypeInv, TypeOK, Ids
    <2> QED BY <1>2, <2>1, <2>4
  <1>3. log' # log
    OBVIOUS
  <1>4. CASE AppendLine
    BY <1>1, <1>4 DEF AppendLine
  <1>5. ASSUME NEW part \in Ids \cup {Garbled}, AppendTorn(part) PROVE Local(k, h)
    BY <1>1, <1>5 DEF AppendTorn
  <1>6. CASE CloseFails
    BY <1>1, <1>6 DEF CloseFails
  <1>7. CASE CompactLocked \/ CompactUnsynced
    BY <1>2, <1>7 DEF CompactLocked, CompactUnsynced
  <1>8. ~Open /\ ~Crash /\ ~AppendFails /\ ~Apply /\ ~CompactFails
    BY <1>3 DEF Open, OpenWith, Crash, AppendFails, Apply, CompactFails, disk
  <1>9. \A kk \in Kinds, hh \in Hashes, want \in BOOLEAN : ~SetFlag(kk, hh, want)
    BY <1>3 DEF SetFlag, disk
  <1> QED BY <1>4, <1>5, <1>6, <1>7, <1>8, <1>9 DEF Next

\* Whatever faults a log meets, a write changes on disk the flag of its own entry, of
\* the unterminated line it runs into, or, compacting, back to what is served.
THEOREM DamageIsLocal == Spec => DamageLocal
  BY DamageLocalStep, TypeInvInit, TypeInvNext, PTL DEF Spec, DamageLocal, Local

-----------------------------------------------------------------------------
(* StateLog implements FlagStore.                                          *)

LEMMA ServedIsDurable ==
    TypeInv /\ DurableInv /\ up /\ step # "apply" => Served = Durable
  <1> SUFFICES ASSUME TypeInv, DurableInv, up, step # "apply"
               PROVE  Served = Durable
    OBVIOUS
  <1>1. \A k \in Kinds, h \in Hashes : flag[k][h] <=> On(log[k], h)
    BY DEF DurableInv, Unapplied, Ids
  <1>2. \A k \in Kinds, h \in Hashes : flag[k][h] \in BOOLEAN
    BY DEF TypeInv, TypeOK, Ids
  <1>3. \A k \in Kinds, h \in Hashes : flag[k][h] = On(log[k], h)
    BY <1>1, <1>2, OnBoolean
  <1> QED BY <1>3 DEF Served, Durable

LEMMA ServedIsDurableNext ==
    (TypeInv /\ DurableInv /\ up /\ step # "apply" => Served = Durable)'
  BY ServedIsDurable, PTL

LEMMA RefinementStep ==
    ASSUME AllOrNothing, TypeInv, DurableInv, TypeInv', DurableInv', [Next]_vars
    PROVE  [FS!Next]_(FS!vars)
  <1> USE DEF vars, disk, memory, FS!vars, FS!Next
  <1>1. CASE Open
    <2>1. up' /\ ~up /\ log' = log /\ step' # "apply"
      BY <1>1 DEF Open, OpenWith, TypeInv, TypeOK
    <2>2. Served' = Durable'
      BY <2>1, ServedIsDurableNext
    <2>3. Served = Down /\ Durable' = Durable
      BY <2>1 DEF Served, Durable
    <2> QED BY <2>2, <2>3 DEF FS!Start
  <1>2. CASE Crash
    BY <1>2 DEF Crash, FS!Stop, Served, Durable
  <1>3. ASSUME NEW k \in Kinds, NEW h \in Hashes, NEW want \in BOOLEAN,
               SetFlag(k, h, want)
        PROVE  UNCHANGED FS!vars
    BY <1>3 DEF SetFlag, Served, Durable
  <1>4. CASE AppendLine
    <2>1. req \in Request /\ up /\ step = "append"
      BY <1>4 DEF AppendLine, TypeInv, TypeOK
    <2>k. PICK k \in Kinds, h \in Hashes, want \in BOOLEAN :
              k = req.kind /\ h = req.hash /\ want = req.want
      BY <2>1 DEF Request
    <2>2. Served = Durable
      BY <2>1, ServedIsDurable
    <2>3. Served' = Served
      BY <1>4 DEF AppendLine, Served
    <2>4. /\ step' = "apply" /\ up' /\ req' = req /\ flag' = flag
      BY <1>4, <2>1 DEF AppendLine
    <2>5. \A kk \in Kinds, hh \in Hashes :
            On(log'[kk], hh) = IF kk = k /\ hh = h THEN want ELSE On(log[kk], hh)
      <3> SUFFICES ASSUME NEW kk \in Kinds, NEW hh \in Hashes
                   PROVE  On(log'[kk], hh) =
                            IF kk = k /\ hh = h THEN want ELSE On(log[kk], hh)
        OBVIOUS
      <3>1. On(log'[kk], hh) <=> IF kk = k /\ hh = h THEN want ELSE flag[kk][hh]
        BY <2>k, <2>4 DEF DurableInv, Unapplied, Ids
      <3>2. On(log[kk], hh) <=> flag[kk][hh]
        BY <2>1 DEF DurableInv, Unapplied, Ids
      <3>3. On(log'[kk], hh) \in BOOLEAN /\ On(log[kk], hh) \in BOOLEAN
        BY OnBoolean
      <3> QED BY <3>1, <3>2, <3>3
    <2>6. Durable' = [Durable EXCEPT ![k][h] = want]
      BY <2>5 DEF Durable
    <2> QED BY <2>2, <2>3, <2>6 DEF FS!Set
  <1>5. CASE AppendFails
    BY <1>5 DEF AppendFails, Served, Durable
  <1>6. ASSUME NEW part \in Ids \cup {Garbled}, AppendTorn(part)
        PROVE  FALSE
    BY <1>6 DEF AppendTorn, AllOrNothing
  <1>7. CASE CloseFails
    BY <1>7 DEF CloseFails, AllOrNothing
  <1>8. CASE Apply
    <2>1. up /\ up' /\ step' # "apply" /\ log' = log
      BY <1>8 DEF Apply, Return, TypeInv, TypeOK
    <2>2. Served' = Durable'
      BY <2>1, ServedIsDurableNext
    <2>3. Durable' = Durable
      BY <2>1 DEF Durable
    <2>4. Served # Down
      <3>1. Served = [k \in Kinds |-> [h \in Hashes |-> flag[k][h]]]
        BY <2>1 DEF Served
      <3>2. Served \in [Kinds -> [Hashes -> BOOLEAN]]
        BY <3>1 DEF TypeInv, TypeOK, Ids
      <3> QED BY <3>2, StateLogAssumption
    <2> QED BY <2>2, <2>3, <2>4 DEF FS!Publish
  <1>9. CASE CompactLocked
    <2>1. up /\ up' /\ flag' = flag /\ step # "apply" /\ step' # "apply"
      BY <1>9 DEF CompactLocked, Return, TypeInv, TypeOK
    <2>2. Served' = Served
      BY <2>1 DEF Served
    <2>3. Served = Durable /\ Served' = Durable'
      BY <2>1, ServedIsDurable, ServedIsDurableNext
    <2> QED BY <2>2, <2>3
  <1>10. CASE CompactFails
    BY <1>10 DEF CompactFails, Served, Durable
  <1>11. CASE CompactUnsynced
    BY <1>11 DEF CompactUnsynced, AllOrNothing
  <1>12. CASE UNCHANGED vars
    BY <1>12 DEF Served, Durable
  <1> QED
    BY <1>1, <1>2, <1>3, <1>4, <1>5, <1>6, <1>7, <1>8, <1>9, <1>10, <1>11,
       <1>12 DEF Next

\* The logs, maps, compaction and folding of StateLog keep FlagStore's promise.
THEOREM StateLogImplementsFlagStore ==
    ASSUME AllOrNothing PROVE Spec => ImplementsFlagStore
  <1>1. Init => FS!Init
    <2> SUFFICES ASSUME Init PROVE FS!Init
      OBVIOUS
    <2>1. \A k \in Kinds, h \in Hashes : On(log[k], h) = FALSE
      BY EmptyOn DEF Init, On
    <2> QED BY <2>1 DEF FS!Init, Durable, Served, Init
  <1>2. TypeInv /\ DurableInv /\ (TypeInv /\ DurableInv)' /\ [Next]_vars
            => [FS!Next]_(FS!vars)
    BY RefinementStep
  <1> QED
    BY <1>1, <1>2, DurableInvariant, PTL DEF Spec, ImplementsFlagStore, FS!Spec

=============================================================================
