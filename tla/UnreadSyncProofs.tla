--------------------------- MODULE UnreadSyncProofs ---------------------------
(***************************************************************************)
(* Proofs about UnreadSync, for any entries in any feeds, any thresholds,  *)
(* any resolution of the clock and any length of run.                      *)
(***************************************************************************)
EXTENDS UnreadSync, StateLogProofs

-----------------------------------------------------------------------------
(* The clock and the seconds it is written in.                             *)

LEMMA DivMod ==
    ASSUME NEW t \in Nat
    PROVE  /\ t % TicksPerSecond \in 0..(TicksPerSecond - 1)
           /\ \E q \in Nat : t = TicksPerSecond * q + (t % TicksPerSecond)
  <1>1. t \div TicksPerSecond \in Nat
    BY StateLogAssumption
  <1>2. t % TicksPerSecond \in 0..(TicksPerSecond - 1)
    BY StateLogAssumption
  <1>3. t = TicksPerSecond * (t \div TicksPerSecond) + (t % TicksPerSecond)
    BY StateLogAssumption
  <1> QED BY <1>1, <1>2, <1>3

LEMMA MultipleHasNoRest ==
    ASSUME NEW q \in Nat
    PROVE  (TicksPerSecond * q) % TicksPerSecond = 0
  BY StateLogAssumption

\* The whole seconds.
Seconds == {Second(t) : t \in Nat}

LEMMA SecondsAreMultiples ==
    ASSUME NEW s \in Seconds
    PROVE  s \in Nat /\ s % TicksPerSecond = 0 /\ \E q \in Nat : s = TicksPerSecond * q
  <1>1. PICK t \in Nat : s = t - (t % TicksPerSecond)
    BY DEF Seconds, Second
  <1>2. PICK q \in Nat : t = TicksPerSecond * q + (t % TicksPerSecond)
    BY DivMod
  <1>3. s = TicksPerSecond * q
    BY <1>1, <1>2, DivMod, StateLogAssumption
  <1> QED BY <1>3, MultipleHasNoRest, StateLogAssumption

LEMMA ZeroIsWhole == 0 \in Seconds
  BY MultipleHasNoRest, StateLogAssumption DEF Seconds, Second

LEMMA SecondIsWhole ==
    ASSUME NEW t \in Nat
    PROVE  Second(t) \in Seconds
  BY DEF Seconds

\* Second rounds down to the second under way.
LEMMA SecondIsFloor ==
    ASSUME NEW t \in Nat, NEW s \in Seconds, s <= t
    PROVE  s <= Second(t)
  <1>1. PICK q \in Nat : s = TicksPerSecond * q
    BY SecondsAreMultiples
  <1>2. PICK p \in Nat : t = TicksPerSecond * p + (t % TicksPerSecond)
    BY DivMod
  <1>3. t % TicksPerSecond < TicksPerSecond /\ t % TicksPerSecond \in Nat
    BY DivMod, StateLogAssumption
  <1>4. Second(t) = TicksPerSecond * p
    BY <1>2, <1>3, StateLogAssumption DEF Second
  <1>5. q <= p
    <2> SUFFICES ASSUME q >= p + 1 PROVE FALSE
      OBVIOUS
    <2>1. TicksPerSecond * q >= TicksPerSecond * (p + 1)
      BY StateLogAssumption
    <2>2. TicksPerSecond * (p + 1) = TicksPerSecond * p + TicksPerSecond
      BY StateLogAssumption
    <2> QED BY <1>1, <1>2, <1>3, <2>1, <2>2, StateLogAssumption
  <1> QED BY <1>1, <1>4, <1>5, StateLogAssumption

LEMMA SecondMonotone ==
    ASSUME NEW t \in Nat, NEW u \in Nat, t <= u
    PROVE  Second(t) <= Second(u)
  BY SecondType, SecondIsWhole, SecondIsFloor

\* The next reading is later, and falls in the middle of a second.
LEMMA LaterProperties ==
    ASSUME NEW t \in Nat
    PROVE  Later(t) \in Nat /\ Later(t) > t /\ Later(t) \notin Seconds
  <1>1. Later(t) \in Nat /\ Later(t) > t
    BY DEF Later
  <1>2. CASE (t + 1) % TicksPerSecond = 0
    <2> SUFFICES ASSUME t + 2 \in Seconds PROVE FALSE
      BY <1>1, <1>2 DEF Later
    <2>1. PICK q \in Nat : t + 1 = TicksPerSecond * q
      <3> DEFINE u == t + 1
      <3>1. u \in Nat /\ u % TicksPerSecond = 0
        BY <1>2
      <3> HIDE DEF u
      <3>2. PICK q \in Nat : u = TicksPerSecond * q + 0
        BY <3>1, DivMod
      <3> QED BY <3>2, StateLogAssumption DEF u
    <2>2. PICK p \in Nat : t + 2 = TicksPerSecond * p
      BY SecondsAreMultiples
    <2>3. TicksPerSecond * p = TicksPerSecond * q + 1
      BY <2>1, <2>2
    <2>4. TicksPerSecond * (p - q) = 1
      BY <2>3, StateLogAssumption
    <2>5. p - q \in Nat \ {0}
      BY <2>3, <2>4, StateLogAssumption
    <2>6. TicksPerSecond * (p - q) >= TicksPerSecond
      BY <2>5, StateLogAssumption
    <2> QED BY <2>4, <2>6, StateLogAssumption
  <1>3. CASE (t + 1) % TicksPerSecond # 0
    BY <1>1, <1>3, SecondsAreMultiples DEF Later
  <1> QED BY <1>2, <1>3

-----------------------------------------------------------------------------
(* Types.                                                                  *)

SyncTypeInv ==
    /\ TypeInv
    /\ SyncTypeOK
    /\ \A f \in Feeds : pollStart[f] <= clock
    /\ \A h \in Hashes : fetched[h] <= clock

\* What a feed may publish is among the entries.
LEMMA FeedIsPart ==
    ASSUME NEW f \in Feeds
    PROVE  f \subseteq Hashes
  BY FeedsAssumption

\* The newest FetchedAt is one of them, or 0.
LEMMA NewestFetchedIs ==
    ASSUME fetched \in [Hashes -> Nat], clock \in Nat, \A h \in Hashes : fetched[h] <= clock
    PROVE  /\ NewestFetched \in Nat
           /\ NewestFetched = 0 \/ \E h \in Hashes : NewestFetched = fetched[h]
           /\ \A h \in Hashes : fetched[h] <= NewestFetched
  <1> DEFINE S == {0} \cup {fetched[h] : h \in Hashes}
  <1>1. S \in SUBSET Nat /\ S # {} /\ \A s \in S : s <= clock
    OBVIOUS
  <1> HIDE DEF S
  <1>2. Max(S) \in S /\ \A s \in S : s <= Max(S)
    BY <1>1, MaxOfBounded
  <1> QED BY <1>1, <1>2 DEF NewestFetched, S

LEMMA SyncInitTypes == SyncInit => SyncTypeInv
  BY TypeInvInit DEF SyncInit, SyncTypeInv, SyncTypeOK, TypeInv, TypeOK

\* A step of UnreadSync is a step of the logs in which a write is all or nothing.
LEMMA SyncStepIsWhole ==
    ASSUME SyncTypeInv, [SyncNext]_allVars
    PROVE  [WholeNext]_vars
  <1> USE DEF allVars, WholeNext
  <1>1. clock \in Nat /\ contentVer \in Nat /\ Later(clock) \in Nat /\ clock <= Later(clock)
    BY LaterProperties DEF SyncTypeInv, TypeInv, TypeOK
  <1>2. CASE SyncOpen
    <2>1. NewestFetched \in Nat
      BY <1>1, NewestFetchedIs DEF SyncTypeInv, SyncTypeOK
    <2> QED BY <1>2, <2>1 DEF SyncOpen
  <1>3. CASE Downtime
    BY <1>1, <1>3 DEF Downtime, ClockStep, memory
  <1>4. CASE SyncCrash
    BY <1>4 DEF SyncCrash
  <1>5. CASE FlagStep
    BY <1>5 DEF FlagStep, FlagWork
  <1>6. ASSUME NEW f \in Feeds, PollStart(f) PROVE WholeNext
    BY <1>1, <1>6 DEF PollStart, ClockStep, memory
  <1>7. ASSUME NEW f \in Feeds, NEW new \in SUBSET f, AppendEntries(f, new) PROVE WholeNext
    BY <1>1, <1>7 DEF AppendEntries, ClockStep
  <1>8. CASE ReadVersion \/ (\E f \in Feeds : CopyIndex(f))
               \/ (\E h \in Hashes : CountEntry(h)) \/ Answer
    BY <1>8 DEF ReadVersion, CopyIndex, CountEntry, Answer
  <1> QED BY <1>2, <1>3, <1>4, <1>5, <1>6, <1>7, <1>8 DEF SyncNext

LEMMA SyncTypeStep ==
    ASSUME SyncTypeInv, [SyncNext]_allVars
    PROVE  SyncTypeInv'
  <1>1. TypeInv'
    BY SyncStepIsWhole, TypeInvStep DEF SyncTypeInv
  <1>2. /\ clock \in Nat /\ contentVer \in Nat /\ Later(clock) \in Nat /\ clock < Later(clock)
        /\ fetched \in [Hashes -> Nat] /\ pollStart \in [Feeds -> Nat]
        /\ \A f \in Feeds : pollStart[f] <= clock
        /\ \A h \in Hashes : fetched[h] <= clock
        /\ answer # NoBody => answer \in Answering
        /\ cached # NoBody => cached \in Answered
    BY LaterProperties DEF SyncTypeInv, SyncTypeOK, TypeInv, TypeOK
  <1>3. TypeOK' => clock' \in Nat
    BY DEF TypeOK
  <1>4. CASE UNCHANGED <<syncVars, clock>>
    BY <1>1, <1>2, <1>4 DEF syncVars, SyncTypeInv, SyncTypeOK, TypeInv
  <1>5. CASE Downtime \/ (FlagStep /\ clock' = Later(clock))
    <2>1. UNCHANGED syncVars /\ clock' = Later(clock)
      BY <1>5 DEF Downtime, FlagStep
    <2> QED BY <1>1, <1>2, <2>1 DEF syncVars, SyncTypeInv, SyncTypeOK, TypeInv
  <1>6. CASE FlagStep
    <2>1. UNCHANGED syncVars /\ (clock' = Later(clock) \/ clock' = clock)
      BY <1>6 DEF FlagStep, FlagWork, SetFlag, AppendLine, AppendFails, Apply,
                  CompactLocked, CompactFails
    <2> QED BY <1>4, <1>5, <1>6, <2>1
  <1>7. CASE SyncOpen \/ UNCHANGED allVars
    BY <1>4, <1>7 DEF SyncOpen, OpenWith, allVars, vars, syncVars
  <1>8. CASE SyncCrash
    BY <1>1, <1>2, <1>8 DEF SyncCrash, Crash, SyncTypeInv, SyncTypeOK, TypeInv
  <1>9. ASSUME NEW f \in Feeds, PollStart(f) PROVE SyncTypeInv'
    <2>1. pollStart' \in [Feeds -> Nat] /\ \A g \in Feeds : pollStart'[g] <= clock'
      BY <1>2, <1>9 DEF PollStart
    <2> QED BY <1>1, <1>2, <1>9, <2>1 DEF PollStart, SyncTypeInv, SyncTypeOK, TypeInv
  <1>10. ASSUME NEW f \in Feeds, NEW new \in SUBSET f, AppendEntries(f, new)
         PROVE  SyncTypeInv'
    <2>1. fetched' \in [Hashes -> Nat] /\ \A h \in Hashes : fetched'[h] <= clock'
      BY <1>2, <1>10 DEF AppendEntries
    <2>2. pollStart' \in [Feeds -> Nat] /\ \A g \in Feeds : pollStart'[g] <= clock'
      BY <1>2, <1>10 DEF AppendEntries
    <2> QED BY <1>1, <1>2, <1>10, <2>1, <2>2 DEF AppendEntries, SyncTypeInv, SyncTypeOK, TypeInv
  <1>11. CASE ReadVersion
    <2>1. answer' \in Answering
      BY <1>2, <1>11 DEF ReadVersion, Answering
    <2> QED
      BY <1>1, <1>2, <1>11, <2>1 DEF ReadVersion, vars, SyncTypeInv, SyncTypeOK, TypeInv
  <1>12. ASSUME NEW f \in Feeds, CopyIndex(f) PROVE SyncTypeInv'
    <2>1. answer' \in Answering
      BY <1>2, <1>12 DEF CopyIndex, Answering, Stored
    <2> QED
      BY <1>1, <1>2, <1>12, <2>1 DEF CopyIndex, vars, SyncTypeInv, SyncTypeOK, TypeInv
  <1>13. ASSUME NEW h \in Hashes, CountEntry(h) PROVE SyncTypeInv'
    <2>1. answer' \in Answering
      BY <1>2, <1>13 DEF CountEntry, Answering
    <2> QED
      BY <1>1, <1>2, <1>13, <2>1 DEF CountEntry, vars, SyncTypeInv, SyncTypeOK, TypeInv
  <1>14. CASE Answer
    <2>1. cached' \in Answered /\ answer' = NoBody
      BY <1>2, <1>14 DEF Answer, Answering, Answered
    <2> QED
      BY <1>1, <1>2, <1>14, <2>1 DEF Answer, vars, SyncTypeInv, SyncTypeOK, TypeInv
  <1> QED
    BY <1>5, <1>6, <1>7, <1>8, <1>9, <1>10, <1>11, <1>12, <1>13, <1>14 DEF SyncNext

\* Every variable keeps its type, whatever fails.
THEOREM SyncTypeCorrect == SyncSpec => []SyncTypeOK
  <1>1. SyncTypeInv => SyncTypeOK
    BY DEF SyncTypeInv
  <1> QED BY SyncInitTypes, SyncTypeStep, <1>1, PTL DEF SyncSpec

-----------------------------------------------------------------------------
(* The versions given out, and the one a restart would rebuild.            *)

\* A time Open reads from the disk, or 0.
OnDisk(t) ==
    \/ t = 0
    \/ \E k \in Kinds : \E i \in DOMAIN log[k] : t = log[k][i].ts
    \/ \E h \in Hashes : t = fetched[h]

\* Where a version is kept: the store, an answer under way, the client.
Candidates ==
    (IF up THEN {contentVer} ELSE {})
        \cup (IF answer # NoBody THEN {answer.ver} ELSE {})
        \cup (IF cached # NoBody THEN {cached.ver} ELSE {})

\* A reading of the clock that no disk holds, or will: no restart rebuilds it.
Fresh(v) ==
    /\ v \notin Seconds
    /\ \A f \in Feeds : v # pollStart[f]
    /\ \A h \in Hashes : v # fetched[h]

\* The version of the last restart, with every change to come written later.
Settled(v) ==
    /\ v = DiskVersion
    /\ v < Second(clock)
    /\ step # "apply"
    /\ step = "append" => v < Second(req.now)
    /\ \A f \in Feeds : pollStart[f] # 0 => v < pollStart[f]

Proper(v) == v <= clock /\ (Fresh(v) \/ v < DiskVersion \/ Settled(v))

WholeLog ==
    \A k \in Kinds : \A i \in DOMAIN log[k] :
        log[k][i].ts \in Seconds /\ log[k][i].ts <= Second(clock)

VersionInv ==
    /\ \A v \in Candidates : Proper(v)
    /\ step \in {"append", "apply"} =>
            Fresh(req.now) /\ \A v \in Candidates : v < req.now
    /\ WholeLog
    /\ ~up => (\A f \in Feeds : pollStart[f] = 0) /\ answer = NoBody

\* The entries a restart would bring back as unread.
DiskUnread == {h \in Stored : ~On(log["read"], h)}

CountInv ==
    /\ up /\ cached # NoBody /\ cached.ver = contentVer => cached.unread = Unread
    /\ cached # NoBody /\ cached.ver = DiskVersion => cached.unread = DiskUnread
    /\ answer # NoBody =>
        /\ answer.todo \subseteq Stored \cap UNION answer.copied
        /\ answer.ver = contentVer =>
                answer.unread = (Unread \cap UNION answer.copied) \ answer.todo
        /\ answer.ver = DiskVersion => answer.ver = contentVer

\* The times on disk are naturals up to the clock.
LEMMA OnDiskType ==
    ASSUME SyncTypeInv, NEW t, OnDisk(t)
    PROVE  t \in Nat /\ t <= clock
  <1>1. ASSUME NEW k \in Kinds, NEW i \in DOMAIN log[k]
        PROVE  log[k][i].ts \in Nat /\ log[k][i].ts <= clock
    <2>1. log[k] \in Seq(Line) /\ log[k][i].ts <= clock
      BY DEF SyncTypeInv, TypeInv, TypeOK
    <2>2. log[k][i] \in Line
      BY <2>1, LenProperties, ElementOfSeq
    <2> QED BY <2>1, <2>2 DEF Line
  <1>2. \A h \in Hashes : fetched[h] \in Nat /\ fetched[h] <= clock
    BY DEF SyncTypeInv, SyncTypeOK
  <1>3. clock \in Nat
    BY DEF SyncTypeInv, TypeInv, TypeOK
  <1> QED BY <1>1, <1>2, <1>3 DEF OnDisk

\* The version a restart rebuilds is the latest of the times on disk.
LEMMA DiskVersionIsLatest ==
    SyncTypeInv /\ DurableInv => OnDisk(DiskVersion) /\ \A t : OnDisk(t) => t <= DiskVersion
  <1> SUFFICES ASSUME SyncTypeInv, DurableInv
               PROVE  OnDisk(DiskVersion) /\ \A t : OnDisk(t) => t <= DiskVersion
    OBVIOUS
  <1> DEFINE U == UNION {{log[k][i].ts : i \in Parsed(log[k])} : k \in Kinds}
             L == {0} \cup U
             F == {0} \cup {fetched[h] : h \in Hashes}
             B == {Max(L), Max(F)}
  <1>1. clock \in Nat
    BY DEF SyncTypeInv, TypeInv, TypeOK
  <1>2. \A t : t \in U <=> \E k \in Kinds : \E i \in Parsed(log[k]) : t = log[k][i].ts
    OBVIOUS
  <1>3. \A k \in Kinds : Parsed(log[k]) = DOMAIN log[k]
    BY DEF Parsed, DurableInv
  <1>4. \A t : t \in F <=> t = 0 \/ \E h \in Hashes : t = fetched[h]
    OBVIOUS
  <1>5. FoldedVersion = Max(L) /\ NewestFetched = Max(F)
    BY DEF FoldedVersion, NewestFetched
  <1>6. DiskVersion = Max(B)
    BY <1>5 DEF DiskVersion
  <1>7. 0 \in L /\ 0 \in F
    OBVIOUS
  <1> HIDE DEF U
  <1>8. \A t : t \in L <=> t = 0 \/ t \in U
    OBVIOUS
  <1> HIDE DEF L, F, B
  <1>9. \A t : OnDisk(t) <=> t \in L \/ t \in F
    BY <1>2, <1>3, <1>4, <1>8 DEF OnDisk
  <1>10. \A t : t \in L \/ t \in F => t \in Nat /\ t <= clock
    BY <1>9, OnDiskType
  <1>11. Max(L) \in L /\ \A t \in L : t <= Max(L)
    BY <1>1, <1>7, <1>10, MaxOfBounded
  <1>12. Max(F) \in F /\ \A t \in F : t <= Max(F)
    BY <1>1, <1>7, <1>10, MaxOfBounded
  <1>13. B \in SUBSET Nat /\ B # {} /\ \A t \in B : t <= clock
    BY <1>10, <1>11, <1>12 DEF B
  <1>14. Max(B) \in B /\ \A t \in B : t <= Max(B)
    BY <1>1, <1>13, MaxOfBounded
  <1>15. (Max(B) \in L \/ Max(B) \in F) /\ Max(L) <= Max(B) /\ Max(F) <= Max(B)
    BY <1>11, <1>12, <1>14 DEF B
  <1>16. Max(B) \in Nat /\ Max(L) \in Nat /\ Max(F) \in Nat
    BY <1>10, <1>11, <1>12, <1>15
  <1>17. ASSUME NEW t \in L PROVE t <= Max(B)
    BY <1>10, <1>11, <1>15, <1>16
  <1>18. ASSUME NEW t \in F PROVE t <= Max(B)
    BY <1>10, <1>12, <1>15, <1>16
  <1> QED BY <1>6, <1>9, <1>15, <1>17, <1>18

LEMMA DiskVersionIsLatestNext ==
    (SyncTypeInv /\ DurableInv =>
        OnDisk(DiskVersion) /\ \A t : OnDisk(t) => t <= DiskVersion)'
  BY DiskVersionIsLatest, PTL

LEMMA OnDiskTypeNext ==
    (SyncTypeInv => \A t : OnDisk(t) => t \in Nat /\ t <= clock)'
  <1>1. SyncTypeInv => \A t : OnDisk(t) => t \in Nat /\ t <= clock
    BY OnDiskType
  <1> QED BY <1>1, PTL

\* A fresh version is none of the times on disk.
LEMMA FreshIsNowhere ==
    WholeLog => \A v : Fresh(v) => ~OnDisk(v)
  BY ZeroIsWhole DEF WholeLog, Fresh, OnDisk

LEMMA FreshIsNowhereNext ==
    (WholeLog => \A v : Fresh(v) => ~OnDisk(v))'
  BY FreshIsNowhere, PTL

LEMMA SameDisk ==
    ASSUME UNCHANGED <<log, fetched>>
    PROVE  /\ DiskVersion' = DiskVersion
           /\ Stored' = Stored
           /\ DiskUnread' = DiskUnread
  BY DEF DiskVersion, FoldedVersion, NewestFetched, Stored, DiskUnread

\* A version stays proper while the disk does not change: the clock advances, a
\* poll or a request begins now, one ends.
LEMMA StaysProper ==
    ASSUME SyncTypeInv, SyncTypeInv', UNCHANGED <<log, fetched>>, clock <= clock',
           \A f \in Feeds : pollStart'[f] \in {0, pollStart[f]} \/ pollStart'[f] > clock,
           step' = "apply" => step = "apply",
           step' = "append" => (step = "append" /\ req' = req) \/ req'.now > clock,
           NEW v \in Nat, Proper(v)
    PROVE  Proper(v)'
  <1>1. /\ clock \in Nat /\ clock' \in Nat
        /\ \A f \in Feeds : pollStart[f] \in Nat /\ pollStart'[f] \in Nat
    BY DEF SyncTypeInv, SyncTypeOK, TypeInv, TypeOK
  <1>2. Second(clock) \in Nat /\ Second(clock') \in Nat /\ Second(clock) <= Second(clock')
    BY <1>1, SecondType, SecondMonotone
  <1>3. v <= clock'
    BY <1>1 DEF Proper
  <1>4. DiskVersion' = DiskVersion
    BY SameDisk
  <1>5. CASE Fresh(v)
    <2>1. \A f \in Feeds : v # pollStart'[f]
      BY <1>1, <1>5, ZeroIsWhole DEF Fresh, Proper
    <2>2. Fresh(v)'
      BY <1>5, <2>1 DEF Fresh
    <2> QED BY <1>3, <2>2 DEF Proper
  <1>6. CASE v < DiskVersion
    BY <1>3, <1>4, <1>6 DEF Proper
  <1>7. CASE Settled(v)
    <2>1. v = DiskVersion' /\ v < Second(clock') /\ step' # "apply"
      BY <1>2, <1>4, <1>7 DEF Settled
    <2>2. \A f \in Feeds : pollStart'[f] # 0 => v < pollStart'[f]
      BY <1>1, <1>7 DEF Settled, Proper
    <2>3. step' = "append" => v < Second(req'.now)
      <3> SUFFICES ASSUME step' = "append" PROVE v < Second(req'.now)
        OBVIOUS
      <3>1. CASE step = "append" /\ req' = req
        BY <1>7, <3>1 DEF Settled
      <3>2. CASE req'.now > clock
        <4>1. req'.now \in Nat /\ clock <= req'.now
          BY <1>1, <3>2 DEF SyncTypeInv, TypeInv, TypeOK, Request
        <4>2. Second(clock) <= Second(req'.now) /\ Second(req'.now) \in Nat
          BY <1>1, <4>1, SecondMonotone, SecondType
        <4> QED BY <1>2, <1>7, <4>2 DEF Settled
      <3> QED BY <3>1, <3>2
    <2>4. Settled(v)'
      BY <2>1, <2>2, <2>3 DEF Settled
    <2> QED BY <1>3, <2>4 DEF Proper
  <1> QED BY <1>5, <1>6, <1>7 DEF Proper

\* When the disk gets a later time than a settled version, every version is past.
LEMMA BecomesPast ==
    ASSUME SyncTypeInv, DurableInv, SyncTypeInv', DurableInv', WholeLog',
           clock <= clock', DiskVersion <= DiskVersion',
           NEW v \in Nat, Proper(v),
           Fresh(v) => Fresh(v)',
           Settled(v) => v < DiskVersion'
    PROVE  Proper(v)' /\ v # DiskVersion'
  <1>1. clock \in Nat /\ clock' \in Nat /\ DiskVersion \in Nat /\ DiskVersion' \in Nat
    BY DiskVersionIsLatest, DiskVersionIsLatestNext, OnDiskType, OnDiskTypeNext
    DEF SyncTypeInv, TypeInv, TypeOK
  <1>2. v <= clock'
    BY <1>1 DEF Proper
  <1>3. CASE Fresh(v)
    <2>1. Fresh(v)'
      BY <1>3
    <2>2. ~OnDisk(v)'
      BY <2>1, FreshIsNowhereNext
    <2>3. OnDisk(DiskVersion)'
      BY DiskVersionIsLatestNext
    <2>4. v # DiskVersion'
      BY <2>2, <2>3 DEF OnDisk
    <2> QED BY <1>2, <2>1, <2>4 DEF Proper
  <1>4. CASE v < DiskVersion \/ Settled(v)
    <2>1. v < DiskVersion'
      BY <1>1, <1>4
    <2> QED BY <1>1, <1>2, <2>1 DEF Proper
  <1> QED BY <1>3, <1>4 DEF Proper

LEMMA CandidatesType ==
    ASSUME SyncTypeInv, NEW v \in Candidates
    PROVE  v \in Nat
  BY DEF Candidates, SyncTypeInv, SyncTypeOK, Answering, Answered, TypeInv, TypeOK

\* A second written to the logs is whole, and not ahead of the clock.
LEMMA WholeLogKept ==
    ASSUME SyncTypeInv, SyncTypeInv', WholeLog, clock <= clock',
           \A k \in Kinds : \A i \in DOMAIN log'[k] :
                \/ i \in DOMAIN log[k] /\ log'[k][i] = log[k][i]
                \/ \E t \in Nat : t <= clock /\ log'[k][i].ts = Second(t)
    PROVE  WholeLog'
  <1>1. clock \in Nat /\ clock' \in Nat
    BY DEF SyncTypeInv, TypeInv, TypeOK
  <1>2. Second(clock) \in Nat /\ Second(clock') \in Nat /\ Second(clock) <= Second(clock')
    BY <1>1, SecondType, SecondMonotone
  <1> SUFFICES ASSUME NEW k \in Kinds, NEW i \in DOMAIN log'[k]
               PROVE  log'[k][i].ts \in Seconds /\ log'[k][i].ts <= Second(clock')
    BY DEF WholeLog
  <1>3. CASE i \in DOMAIN log[k] /\ log'[k][i] = log[k][i]
    <2>1. log[k][i].ts \in Seconds /\ log[k][i].ts <= Second(clock)
      BY <1>3 DEF WholeLog
    <2>2. log[k][i].ts \in Nat
      BY <2>1, SecondsAreMultiples
    <2> QED BY <1>2, <1>3, <2>1, <2>2
  <1>4. ASSUME NEW t \in Nat, t <= clock, log'[k][i].ts = Second(t)
        PROVE  log'[k][i].ts \in Seconds /\ log'[k][i].ts <= Second(clock')
    <2>1. Second(t) \in Seconds /\ Second(t) \in Nat /\ Second(t) <= Second(clock)
      BY <1>1, <1>4, SecondIsWhole, SecondType, SecondMonotone
    <2> QED BY <1>2, <1>4, <2>1
  <1> QED BY <1>3, <1>4

\* The times only get later, when no compaction empties a log.
NothingEmptied == step = "compact" => LiveIds(req.kind) # {}

LEMMA VersionInvAppendLine ==
    ASSUME SyncTypeInv, DurableInv, SyncTypeInv', DurableInv', VersionInv,
           AppendLine, UNCHANGED syncVars
    PROVE  VersionInv' /\ \A v \in Candidates' : v # DiskVersion'
  <1>1. req \in Request /\ req.now \in Nat /\ req.now <= clock /\ clock \in Nat
    BY DEF AppendLine, SyncTypeInv, TypeInv, TypeOK, Request
  <1>s. PICK s \in Nat : s = Second(req.now)
    BY <1>1, SecondType
  <1>2. PICK k \in Kinds, h \in Hashes : k = req.kind /\ h = req.hash
    BY <1>1 DEF Request
  <1>3. log[k] \in Seq(Line) /\ ~torn[k] /\ RequestLine(h) \in Line
    BY <1>1, <1>2, SecondType
    DEF SyncTypeInv, TypeInv, TypeOK, DurableInv, RequestLine, Request, Line, Ids
  <1>4. log' = [log EXCEPT ![k] = Append(log[k], RequestLine(h))]
    BY <1>2, <1>3 DEF AppendLine, Written
  <1>5. /\ DOMAIN log'[k] = 1..(Len(log[k]) + 1) /\ Len(log[k]) \in Nat
        /\ DOMAIN log[k] = 1..Len(log[k])
        /\ \A i \in DOMAIN log[k] : log'[k][i] = log[k][i]
        /\ log'[k][Len(log[k]) + 1].ts = s
    BY <1>s, <1>2, <1>3, <1>4, AppendProperties, LenProperties
    DEF SyncTypeInv, TypeInv, TypeOK, RequestLine
  <1>6. \A kk \in Kinds : kk # k => log'[kk] = log[kk]
    BY <1>4 DEF SyncTypeInv, TypeInv, TypeOK
  <1>7. /\ UNCHANGED <<up, contentVer, req, clock, fetched, pollStart, answer, cached>>
        /\ step = "append" /\ step' = "apply"
    BY DEF AppendLine, memory, syncVars
  <1>8. \A t : OnDisk(t) => OnDisk(t)'
    BY <1>5, <1>6, <1>7 DEF OnDisk
  <1>9. OnDisk(s)'
    <2>1. Len(log[k]) + 1 \in DOMAIN log'[k]
      BY <1>5
    <2> QED BY <1>5, <2>1 DEF OnDisk
  <1>10. DiskVersion <= DiskVersion' /\ s <= DiskVersion'
    BY <1>8, <1>9, DiskVersionIsLatest, DiskVersionIsLatestNext
  <1>11. DiskVersion \in Nat /\ DiskVersion' \in Nat /\ s \in Nat
    BY DiskVersionIsLatest, DiskVersionIsLatestNext, OnDiskType, OnDiskTypeNext
  <1>12. WholeLog'
    <2>1. ASSUME NEW kk \in Kinds, NEW i \in DOMAIN log'[kk]
          PROVE  \/ i \in DOMAIN log[kk] /\ log'[kk][i] = log[kk][i]
                 \/ \E t \in Nat : t <= clock /\ log'[kk][i].ts = Second(t)
      <3>1. CASE kk = k /\ i = Len(log[k]) + 1
        BY <1>s, <1>1, <1>5, <3>1
      <3>2. CASE kk = k /\ i # Len(log[k]) + 1
        BY <1>5, <3>2
      <3>3. CASE kk # k
        BY <1>6, <3>3
      <3> QED BY <3>1, <3>2, <3>3
    <2> QED BY <1>1, <1>7, <2>1, WholeLogKept DEF VersionInv
  <1>13. ASSUME NEW v \in Candidates'
         PROVE  Proper(v)' /\ v # DiskVersion' /\ v < req'.now
    <2>1. v \in Candidates
      BY <1>7 DEF Candidates
    <2>2. v \in Nat /\ Proper(v) /\ v < req.now
      BY <1>7, <2>1, CandidatesType DEF VersionInv
    <2>3. Fresh(v) => Fresh(v)'
      BY <1>7 DEF Fresh
    <2>4. Settled(v) => v < DiskVersion'
      BY <1>s, <1>7, <1>10, <1>11, <2>2 DEF Settled
    <2> QED BY <1>1, <1>7, <1>10, <1>12, <2>2, <2>3, <2>4, BecomesPast
  <1>14. Fresh(req.now)'
    BY <1>7 DEF VersionInv, Fresh
  <1>15. up' \/ ((\A f \in Feeds : pollStart'[f] = 0) /\ answer' = NoBody)
    BY <1>7 DEF VersionInv
  <1> QED BY <1>12, <1>13, <1>14, <1>15 DEF VersionInv

LEMMA VersionInvCompact ==
    ASSUME SyncTypeInv, DurableInv, SyncTypeInv', DurableInv', VersionInv, NothingEmptied,
           CompactLocked, UNCHANGED syncVars
    PROVE  VersionInv' /\ \A v \in Candidates' : v # DiskVersion'
  <1>1. req \in Request /\ clock \in Nat
    BY DEF CompactLocked, SyncTypeInv, TypeInv, TypeOK
  <1>s. PICK s \in Nat : s = Second(clock)
    BY <1>1, SecondType
  <1>2. PICK k \in Kinds : k = req.kind
    BY <1>1 DEF Request
  <1>3. log' = [log EXCEPT ![k] = Compacted(k)]
    BY <1>2 DEF CompactLocked
  <1>4. \A kk \in Kinds : log'[kk] = IF kk = k THEN Compacted(k) ELSE log[kk]
    BY <1>3 DEF SyncTypeInv, TypeInv, TypeOK
  <1>5. DOMAIN Compacted(k) # {} /\ \A i \in DOMAIN Compacted(k) : Compacted(k)[i].ts = s
    <2>1. IsFiniteSet(LiveIds(k)) /\ LiveIds(k) # {}
      BY <1>2, IdsFinite, FS_Subset DEF LiveIds, NothingEmptied, CompactLocked
    <2>2. Cardinality(LiveIds(k)) \in Nat /\ Cardinality(LiveIds(k)) # 0
      BY <2>1, FS_CardinalityType, FS_EmptySet
    <2>3. 1 \in 1..Cardinality(LiveIds(k))
      BY <2>2
    <2> QED BY <1>s, <2>3 DEF Compacted
  <1>6. /\ UNCHANGED <<up, contentVer, clock, fetched, pollStart, answer, cached>>
        /\ step = "compact" /\ step' = "idle"
    BY DEF CompactLocked, Return, syncVars
  <1>7. s \in Nat
    OBVIOUS
  <1>8. OnDisk(s)'
    BY <1>4, <1>5 DEF OnDisk
  <1>9. s <= DiskVersion'
    BY <1>8, DiskVersionIsLatestNext
  <1>10. DiskVersion \in Nat /\ DiskVersion' \in Nat
    BY DiskVersionIsLatest, DiskVersionIsLatestNext, OnDiskType, OnDiskTypeNext
  <1>11. DiskVersion <= DiskVersion'
    <2>1. OnDisk(DiskVersion)
      BY DiskVersionIsLatest
    <2>3. CASE DiskVersion = 0 \/ \E h \in Hashes : DiskVersion = fetched[h]
      <3>1. \A t : (t = 0 \/ \E h \in Hashes : t = fetched'[h]) => t <= DiskVersion'
        BY DiskVersionIsLatestNext DEF OnDisk
      <3> QED BY <1>6, <2>3, <3>1
    <2>4. CASE \E kk \in Kinds : \E i \in DOMAIN log[kk] : DiskVersion = log[kk][i].ts
      <3>1. DiskVersion <= s
        BY <1>s, <2>4 DEF VersionInv, WholeLog
      <3> QED BY <1>7, <1>9, <1>10, <3>1
    <2> QED BY <2>1, <2>3, <2>4 DEF OnDisk
  <1>12. WholeLog'
    <2>1. ASSUME NEW kk \in Kinds, NEW i \in DOMAIN log'[kk]
          PROVE  \/ i \in DOMAIN log[kk] /\ log'[kk][i] = log[kk][i]
                 \/ \E t \in Nat : t <= clock /\ log'[kk][i].ts = Second(t)
      BY <1>s, <1>1, <1>4, <1>5
    <2> QED BY <1>1, <1>6, <2>1, WholeLogKept DEF VersionInv
  <1>13. ASSUME NEW v \in Candidates'
         PROVE  Proper(v)' /\ v # DiskVersion'
    <2>1. v \in Candidates
      BY <1>6 DEF Candidates
    <2>2. v \in Nat /\ Proper(v)
      BY <2>1, CandidatesType DEF VersionInv
    <2>3. Fresh(v) => Fresh(v)'
      BY <1>6 DEF Fresh
    <2>4. Settled(v) => v < DiskVersion'
      BY <1>s, <1>7, <1>9, <1>10, <2>2 DEF Settled
    <2> QED BY <1>1, <1>6, <1>11, <1>12, <2>2, <2>3, <2>4, BecomesPast
  <1>14. up' \/ ((\A f \in Feeds : pollStart'[f] = 0) /\ answer' = NoBody)
    BY <1>6 DEF VersionInv
  <1> QED BY <1>6, <1>12, <1>13, <1>14 DEF VersionInv

LEMMA VersionInvAppendEntries ==
    ASSUME SyncTypeInv, DurableInv, SyncTypeInv', DurableInv', VersionInv,
           NEW f \in Feeds, NEW new \in SUBSET f, new # {}, AppendEntries(f, new)
    PROVE  VersionInv' /\ contentVer' = clock' /\ \A v \in Candidates' : v # DiskVersion'
  <1>1. /\ clock \in Nat /\ clock' = Later(clock) /\ clock' \in Nat /\ clock < clock'
        /\ clock' \notin Seconds /\ contentVer \in Nat /\ pollStart \in [Feeds -> Nat]
        /\ fetched \in [Hashes -> Nat] /\ \A h \in Hashes : fetched[h] <= clock
        /\ \A g \in Feeds : pollStart[g] <= clock
    BY LaterProperties DEF AppendEntries, SyncTypeInv, SyncTypeOK, TypeInv, TypeOK
  <1>2. /\ UNCHANGED <<log, up, step, req, answer, cached>>
        /\ step = "idle" /\ up /\ pollStart[f] # 0
        /\ pollStart' = [pollStart EXCEPT ![f] = 0]
        /\ \A h \in Hashes : fetched'[h] = IF h \in new THEN pollStart[f] ELSE fetched[h]
        /\ \A h \in new : h \in Hashes /\ fetched[h] = 0
    BY FeedIsPart DEF AppendEntries, disk, Stored
  <1>3. contentVer' = clock'
    <2>1. contentVer <= clock
      BY <1>2 DEF VersionInv, Candidates, Proper
    <2> QED BY <1>1, <2>1 DEF AppendEntries
  <1>4. \A t : OnDisk(t) => OnDisk(t)'
    BY <1>2 DEF OnDisk
  <1>5. PICK p \in Nat : p = pollStart[f]
    BY <1>1
  <1>6. OnDisk(p)'
    BY <1>2, <1>5 DEF OnDisk
  <1>7. DiskVersion <= DiskVersion' /\ p <= DiskVersion'
    BY <1>4, <1>6, DiskVersionIsLatest, DiskVersionIsLatestNext
  <1>8. DiskVersion \in Nat /\ DiskVersion' \in Nat
    BY DiskVersionIsLatest, DiskVersionIsLatestNext, OnDiskType, OnDiskTypeNext
  <1>9. WholeLog'
    BY <1>1, <1>2, WholeLogKept DEF VersionInv
  <1>10. ASSUME NEW v \in Candidates'
         PROVE  Proper(v)' /\ v # DiskVersion'
    <2>1. CASE v \in Candidates
      <3>1. v \in Nat /\ Proper(v)
        BY <2>1, CandidatesType DEF VersionInv
      <3>2. Fresh(v) => Fresh(v)'
        BY <1>1, <1>2, ZeroIsWhole DEF Fresh
      <3>3. Settled(v) => v < DiskVersion'
        BY <1>2, <1>5, <1>7, <1>8, <3>1 DEF Settled
      <3> QED BY <1>1, <1>7, <1>9, <3>1, <3>2, <3>3, BecomesPast
    <2>2. CASE v = clock'
      <3>1. \A h \in Hashes : v # fetched'[h]
        BY <1>1, <1>2, <2>2
      <3>5. \A g \in Feeds : v # pollStart'[g]
        BY <1>1, <1>2, <2>2
      <3>2. Fresh(v)'
        BY <1>1, <2>2, <3>1, <3>5 DEF Fresh
      <3>3. ~OnDisk(v)'
        BY <1>9, <3>2, FreshIsNowhereNext
      <3>4. v # DiskVersion'
        BY <3>3, DiskVersionIsLatestNext DEF OnDisk
      <3> QED BY <1>1, <2>2, <3>2, <3>4 DEF Proper
    <2> QED BY <1>2, <1>3, <2>1, <2>2 DEF Candidates
  <1> QED BY <1>2, <1>3, <1>9, <1>10 DEF VersionInv

\* The remaining steps leave the disk as it is.
LEMMA VersionInvSameDisk ==
    ASSUME SyncTypeInv, DurableInv, SyncTypeInv', DurableInv', VersionInv, SlowRestart,
           [SyncNext]_allVars, UNCHANGED <<log, fetched>>
    PROVE  VersionInv'
  <1>1. /\ clock \in Nat
        /\ \A f \in Feeds : pollStart[f] \in Nat /\ pollStart[f] <= clock
        /\ Later(clock) \in Nat /\ Later(clock) > clock /\ Later(clock) \notin Seconds
        /\ \A h \in Hashes : fetched[h] \in Nat /\ fetched[h] <= clock
    BY LaterProperties DEF SyncTypeInv, SyncTypeOK, TypeInv, TypeOK
  <1>2. step \in {"append", "apply"} =>
            /\ req.now \in Nat /\ req.now <= clock /\ Fresh(req.now) /\ up
            /\ \A v \in Candidates : v < req.now
    BY DEF SyncTypeInv, TypeInv, TypeOK, Request, VersionInv
  <1>3. \A v \in Candidates : v \in Nat /\ v <= clock
    BY CandidatesType DEF VersionInv, Proper
  <1>4. ASSUME clock <= clock' PROVE WholeLog'
    BY <1>1, <1>4, WholeLogKept DEF VersionInv
  <1>5. ASSUME Candidates' \subseteq Candidates, clock <= clock',
               \A f \in Feeds :
                   pollStart'[f] \in {0, pollStart[f]} \/ pollStart'[f] > clock,
               \/ step' = step /\ req' = req
               \/ step' \notin {"append", "apply"},
               ~up' => (\A f \in Feeds : pollStart'[f] = 0) /\ answer' = NoBody
        PROVE  VersionInv'
    <2>1. \A v \in Candidates' : Proper(v)'
      BY <1>3, <1>5, StaysProper DEF VersionInv
    <2>2. ASSUME step' \in {"append", "apply"}
          PROVE  Fresh(req.now)' /\ \A v \in Candidates' : v < req'.now
      <3>1. step' = step /\ req' = req
        BY <1>5, <2>2
      <3>2. \A f \in Feeds : req.now # pollStart'[f]
        BY <1>1, <1>2, <1>5, <2>2, <3>1, ZeroIsWhole DEF Fresh
      <3>3. Fresh(req.now)'
        BY <1>2, <2>2, <3>1, <3>2 DEF Fresh
      <3> QED BY <1>2, <1>5, <2>2, <3>1, <3>3
    <2> QED BY <1>4, <1>5, <2>1, <2>2 DEF VersionInv
  <1>6. CASE SyncOpen
    <2>1. /\ ~up /\ up' /\ contentVer' = DiskVersion /\ step = "idle"
          /\ \A f \in Feeds : pollStart[f] = 0
          /\ UNCHANGED <<step, req, clock, pollStart, answer, cached>>
      BY <1>6 DEF SyncOpen, OpenWith, DiskVersion, syncVars, SyncTypeInv, TypeInv, TypeOK,
                  VersionInv
    <2>2. ASSUME NEW v \in Candidates' PROVE Proper(v)'
      <3>1. CASE v \in Candidates
        BY <1>1, <1>3, <2>1, <3>1, StaysProper DEF VersionInv
      <3>2. CASE v = DiskVersion
        <4>1. v < Second(clock)
          BY <1>6, <3>2 DEF SyncOpen
        <4>2. v <= clock
          BY <3>2, DiskVersionIsLatest, OnDiskType
        <4>3. DiskVersion' = DiskVersion
          BY SameDisk
        <4> QED BY <2>1, <3>2, <4>1, <4>2, <4>3 DEF Proper, Settled
      <3> QED BY <2>1, <3>1, <3>2 DEF Candidates
    <2> QED BY <1>1, <1>4, <2>1, <2>2 DEF VersionInv
  <1>7. CASE Downtime
    BY <1>1, <1>5, <1>7 DEF Downtime, memory, syncVars, Candidates, VersionInv
  <1>8. CASE SyncCrash
    <2>1. /\ up /\ ~up' /\ answer' = NoBody /\ step' = "idle"
          /\ \A f \in Feeds : pollStart'[f] = 0
          /\ UNCHANGED <<cached, clock>>
      BY <1>8 DEF SyncCrash, Crash
    <2>2. Candidates' \subseteq Candidates
      BY <2>1 DEF Candidates
    <2> QED BY <1>1, <1>5, <2>1, <2>2
  <1>9. ASSUME NEW k \in Kinds, NEW h \in Hashes, NEW want \in BOOLEAN,
               SetFlag(k, h, want), UNCHANGED syncVars
        PROVE  VersionInv'
    <2>1. /\ up /\ step = "idle" /\ step' = "append" /\ req'.now = clock' /\ clock' = Later(clock)
          /\ UNCHANGED <<up, contentVer, pollStart, answer, cached>>
      BY <1>9 DEF SetFlag, memory, syncVars
    <2>2. Candidates' = Candidates
      BY <2>1 DEF Candidates
    <2>3. \A v \in Candidates' : Proper(v)' /\ v < req'.now
      BY <1>1, <1>3, <2>1, <2>2, StaysProper DEF VersionInv
    <2>4. Fresh(req.now)'
      BY <1>1, <2>1 DEF Fresh
    <2> QED BY <1>1, <1>4, <2>1, <2>3, <2>4 DEF VersionInv
  <1>10. CASE AppendFails /\ UNCHANGED syncVars
    BY <1>1, <1>5, <1>10
    DEF AppendFails, Return, memory, syncVars, Candidates, VersionInv
  <1>11. CASE Apply /\ UNCHANGED syncVars
    <2>1. /\ step = "apply" /\ step' \notin {"append", "apply"} /\ contentVer' = req.now
          /\ UNCHANGED <<up, clock, pollStart, answer, cached>>
      BY <1>11 DEF Apply, Return, syncVars
    <2>2. ASSUME NEW v \in Candidates' PROVE Proper(v)'
      <3>1. CASE v \in Candidates
        BY <1>1, <1>3, <2>1, <3>1, StaysProper DEF VersionInv
      <3>2. CASE v = req.now
        <4>1. v \in Nat /\ Proper(v)
          BY <1>2, <2>1, <3>2 DEF Proper
        <4> QED BY <1>1, <2>1, <4>1, StaysProper
      <3> QED BY <2>1, <3>1, <3>2 DEF Candidates
    <2> QED BY <1>1, <1>2, <1>4, <2>1, <2>2 DEF VersionInv
  <1>12. CASE CompactFails /\ UNCHANGED syncVars
    BY <1>1, <1>5, <1>12
    DEF CompactFails, Return, memory, syncVars, Candidates, VersionInv
  <1>13. CASE AppendLine /\ UNCHANGED syncVars
    BY <1>13, VersionInvAppendLine
  <1>14. CASE CompactLocked /\ UNCHANGED syncVars
    <2>1. /\ UNCHANGED <<up, contentVer, clock, pollStart, answer, cached>> /\ step' = "idle"
      BY <1>14 DEF CompactLocked, Return, syncVars
    <2> QED BY <1>1, <1>5, <2>1 DEF Candidates, VersionInv
  <1>15. ASSUME NEW f \in Feeds, PollStart(f) PROVE VersionInv'
    <2>1. \A g \in Feeds : pollStart'[g] = pollStart[g] \/ pollStart'[g] > clock
      BY <1>1, <1>15 DEF PollStart, SyncTypeInv, SyncTypeOK
    <2> QED BY <1>1, <1>5, <1>15, <2>1 DEF PollStart, memory, Candidates, VersionInv
  <1>16. ASSUME NEW f \in Feeds, NEW new \in SUBSET f, AppendEntries(f, new)
         PROVE  VersionInv'
    <2>1. CASE new # {}
      BY <1>16, <2>1, VersionInvAppendEntries
    <2>2. CASE new = {}
      <3>1. \A g \in Feeds : pollStart'[g] \in {0, pollStart[g]}
        BY <1>16 DEF AppendEntries, SyncTypeInv, SyncTypeOK
      <3> QED BY <1>1, <1>5, <1>16, <2>2, <3>1 DEF AppendEntries, Candidates, VersionInv
    <2> QED BY <2>1, <2>2
  <1>17. CASE ReadVersion \/ (\E f \in Feeds : CopyIndex(f))
                \/ (\E h \in Hashes : CountEntry(h)) \/ Answer
    <2>1. /\ UNCHANGED <<step, req, clock, pollStart, up, contentVer>>
          /\ Candidates' \subseteq Candidates
          /\ ~up' => answer' = NoBody
      <3>1. answer # NoBody => answer \in Answering
        BY DEF SyncTypeInv, SyncTypeOK
      <3>2. UNCHANGED <<step, req, clock, pollStart, up, contentVer>>
        BY <1>17 DEF ReadVersion, CopyIndex, CountEntry, Answer, vars, memory
      <3>3. CASE ReadVersion
        BY <3>2, <3>3 DEF ReadVersion, Candidates
      <3>4. CASE (\E f \in Feeds : CopyIndex(f)) \/ \E h \in Hashes : CountEntry(h)
        <4>1. answer # NoBody /\ answer'.ver = answer.ver /\ UNCHANGED cached
          BY <3>1, <3>4 DEF CopyIndex, CountEntry, Answering
        <4> QED BY <3>2, <4>1 DEF Candidates, VersionInv
      <3>5. CASE Answer
        <4>1. answer # NoBody /\ answer' = NoBody /\ cached'.ver = answer.ver
          BY <3>5 DEF Answer
        <4> QED BY <3>2, <4>1 DEF Candidates
      <3> QED BY <1>17, <3>2, <3>3, <3>4, <3>5
    <2> QED BY <1>1, <1>5, <2>1 DEF VersionInv
  <1>18. CASE UNCHANGED allVars
    BY <1>1, <1>5, <1>18 DEF allVars, vars, memory, syncVars, Candidates, VersionInv
  <1> QED
    BY <1>6, <1>7, <1>8, <1>9, <1>10, <1>11, <1>12, <1>13, <1>14, <1>15, <1>16, <1>17, <1>18
    DEF SyncNext, FlagStep, FlagWork

LEMMA VersionInvStep ==
    ASSUME SyncTypeInv, DurableInv, SyncTypeInv', DurableInv', VersionInv, SlowRestart,
           NothingEmptied, [SyncNext]_allVars
    PROVE  VersionInv'
  <1>1. CASE AppendLine /\ UNCHANGED syncVars
    BY <1>1, VersionInvAppendLine
  <1>2. CASE CompactLocked /\ UNCHANGED syncVars
    BY <1>2, VersionInvCompact
  <1>3. ASSUME NEW f \in Feeds, NEW new \in SUBSET f, new # {}, AppendEntries(f, new)
        PROVE  VersionInv'
    BY <1>3, VersionInvAppendEntries
  <1>4. ASSUME NEW f \in Feeds, NEW new \in SUBSET f, new = {}, AppendEntries(f, new)
        PROVE  UNCHANGED <<log, fetched>>
    BY <1>4 DEF AppendEntries, disk, SyncTypeInv, SyncTypeOK
  <1>5. CASE UNCHANGED <<log, fetched>>
    BY <1>5, VersionInvSameDisk
  <1>6. CASE FlagStep /\ ~AppendLine /\ ~CompactLocked
    BY <1>5, <1>6
    DEF FlagStep, FlagWork, SetFlag, AppendFails, Apply, CompactFails, disk, syncVars
  <1> QED
    BY <1>1, <1>2, <1>3, <1>4, <1>5, <1>6
    DEF SyncNext, FlagStep, SyncOpen, OpenWith, Downtime, SyncCrash, Crash, PollStart,
        ReadVersion, CopyIndex, CountEntry, Answer, disk, vars, syncVars, allVars

\* While a line is on disk and not applied, no version is the one on disk.
LEMMA NoneWhileApplying ==
    ASSUME SyncTypeInv, DurableInv, VersionInv, step = "apply", NEW v \in Candidates
    PROVE  v # DiskVersion
  <1>1. v \in Nat /\ Proper(v) /\ DiskVersion \in Nat
    BY CandidatesType, DiskVersionIsLatest, OnDiskType DEF VersionInv
  <1>2. Fresh(v) => v # DiskVersion
    BY FreshIsNowhere, DiskVersionIsLatest DEF VersionInv
  <1> QED BY <1>1, <1>2 DEF Proper, Settled

LEMMA CountInvStep ==
    ASSUME SyncTypeInv, DurableInv, SyncTypeInv', DurableInv', VersionInv, CountInv,
           NothingEmptied, [SyncNext]_allVars
    PROVE  CountInv'
  <1>1. answer # NoBody => answer \in Answering /\ answer.ver \in Candidates /\ up
    BY DEF SyncTypeInv, SyncTypeOK, VersionInv, Candidates
  <1>2. cached # NoBody => cached \in Answered /\ cached.ver \in Candidates
    BY DEF SyncTypeInv, SyncTypeOK, Candidates
  <1>3. \A v \in Candidates : v \in Nat /\ v <= clock /\ clock \in Nat
    BY CandidatesType DEF VersionInv, Proper, SyncTypeInv, TypeInv, TypeOK
  <1>4. CASE UNCHANGED <<log, fetched, contentVer, flag, answer, cached>> /\ (up' => up)
    BY <1>4, SameDisk DEF CountInv, Unread, Stored
  \* What is on disk is newer than every version: the clauses about it are idle.
  <1>5. ASSUME \A v \in Candidates' : v # DiskVersion',
               UNCHANGED <<contentVer, flag, fetched, answer, cached, up>>
        PROVE  CountInv'
    <2>1. answer' # NoBody => answer'.ver \in Candidates'
      BY DEF Candidates
    <2>2. cached' # NoBody => cached'.ver \in Candidates'
      BY DEF Candidates
    <2> QED BY <1>5, <2>1, <2>2 DEF CountInv, Unread, Stored
  <1>6. CASE SyncOpen
    <2>1. /\ ~up /\ contentVer' = DiskVersion /\ UNCHANGED <<log, fetched, answer, cached>>
          /\ \A h \in Hashes : flag'["read"][h] = On(log["read"], h)
          /\ answer = NoBody
      BY <1>1, <1>6 DEF SyncOpen, OpenWith, DiskVersion, disk, syncVars, Kinds, Ids
    <2>2. Unread' = DiskUnread
      BY <2>1 DEF Unread, DiskUnread, Stored
    <2> QED BY <2>1, <2>2, SameDisk DEF CountInv
  <1>7. CASE Downtime
    BY <1>4, <1>7 DEF Downtime, disk, memory, syncVars
  <1>8. CASE SyncCrash
    <2>1. ~up' /\ answer' = NoBody /\ UNCHANGED <<log, fetched, cached>>
      BY <1>8 DEF SyncCrash, Crash, disk
    <2> QED BY <2>1, SameDisk DEF CountInv
  <1>9. ASSUME NEW k \in Kinds, NEW h \in Hashes, NEW want \in BOOLEAN,
               SetFlag(k, h, want), UNCHANGED syncVars
        PROVE  CountInv'
    BY <1>4, <1>9 DEF SetFlag, disk, memory, syncVars
  <1>10. CASE AppendLine /\ UNCHANGED syncVars
    BY <1>5, <1>10, VersionInvAppendLine DEF AppendLine, memory, syncVars
  <1>11. CASE (AppendFails \/ CompactFails) /\ UNCHANGED syncVars
    BY <1>4, <1>11 DEF AppendFails, CompactFails, disk, memory, syncVars
  <1>12. CASE Apply /\ UNCHANGED syncVars
    <2>1. /\ contentVer' = req.now /\ step = "apply"
          /\ UNCHANGED <<log, fetched, answer, cached>>
      BY <1>12 DEF Apply, disk, syncVars
    <2>2. req.now \in Nat /\ \A v \in Candidates : v < req.now
      BY <2>1 DEF VersionInv, SyncTypeInv, TypeInv, TypeOK, Request
    <2>3. cached # NoBody => cached.ver # contentVer'
      BY <1>2, <1>3, <2>1, <2>2
    <2>4. answer # NoBody => answer.ver # contentVer' /\ answer.ver # DiskVersion
      BY <1>1, <1>3, <2>1, <2>2, NoneWhileApplying
    <2> QED BY <2>1, <2>3, <2>4, SameDisk DEF CountInv
  <1>13. CASE CompactLocked /\ UNCHANGED syncVars
    BY <1>5, <1>13, VersionInvCompact DEF CompactLocked, memory, syncVars
  <1>14. ASSUME NEW f \in Feeds, PollStart(f) PROVE CountInv'
    BY <1>4, <1>14 DEF PollStart, disk, memory
  <1>15. ASSUME NEW f \in Feeds, NEW new \in SUBSET f, AppendEntries(f, new)
         PROVE  CountInv'
    <2>1. CASE new = {}
      <3>1. fetched' = fetched
        BY <1>15, <2>1 DEF AppendEntries, SyncTypeInv, SyncTypeOK
      <3> QED BY <1>4, <1>15, <2>1, <3>1 DEF AppendEntries, disk
    <2>2. CASE new # {}
      <3>1. contentVer' = clock' /\ \A v \in Candidates' : v # DiskVersion'
        BY <1>15, <2>2, VersionInvAppendEntries
      <3>2. clock' > clock /\ clock' \in Nat /\ UNCHANGED <<answer, cached>>
        BY <1>15, LaterProperties DEF AppendEntries, SyncTypeInv, TypeInv, TypeOK
      <3>3. Stored \subseteq Stored'
        BY <1>15 DEF AppendEntries, Stored
      <3>4. cached # NoBody => cached.ver # contentVer' /\ cached.ver # DiskVersion'
        BY <1>2, <1>3, <3>1, <3>2 DEF Candidates
      <3>5. answer # NoBody => answer.ver # contentVer' /\ answer.ver # DiskVersion'
        BY <1>1, <1>3, <3>1, <3>2 DEF Candidates
      <3> QED BY <3>2, <3>3, <3>4, <3>5 DEF CountInv
    <2> QED BY <2>1, <2>2
  <1>16. CASE ReadVersion
    <2>1. /\ answer' = [ver |-> contentVer, copied |-> {}, todo |-> {}, unread |-> {}]
          /\ UNCHANGED <<log, fetched, contentVer, flag, cached, up>>
      BY <1>16 DEF ReadVersion, vars, disk, memory
    <2> QED BY <2>1, SameDisk DEF CountInv, Unread, Stored
  <1>17. ASSUME NEW f \in Feeds, CopyIndex(f) PROVE CountInv'
    <2>1. /\ answer # NoBody /\ f \notin answer.copied /\ answer.todo = {}
          /\ answer' = [answer EXCEPT !.copied = @ \cup {f}, !.todo = Stored \cap f]
          /\ UNCHANGED <<log, fetched, contentVer, flag, cached, up>>
      BY <1>17 DEF CopyIndex, vars, disk, memory
    <2>2. /\ answer'.ver = answer.ver /\ answer'.copied = answer.copied \cup {f}
          /\ answer'.todo = Stored \cap f /\ answer'.unread = answer.unread
          /\ answer.copied \subseteq Feeds
      BY <1>1, <2>1 DEF Answering
    <2>3. Stored' = Stored /\ Unread' = Unread /\ Unread \subseteq Stored
      BY <2>1 DEF Unread, Stored
    <2>4. UNION answer'.copied = (UNION answer.copied) \cup f
      BY <2>2
    <2>5. f \cap UNION answer.copied = {}
      BY <2>1, <2>2, FeedsAssumption
    <2>6. answer'.todo \subseteq Stored' \cap UNION answer'.copied
      BY <2>2, <2>3, <2>4
    <2>7. answer.ver = contentVer => answer.unread = Unread \cap UNION answer.copied
      BY <2>1 DEF CountInv
    <2>8. answer'.ver = contentVer' =>
              answer'.unread = (Unread' \cap UNION answer'.copied) \ answer'.todo
      BY <2>1, <2>2, <2>3, <2>4, <2>5, <2>7
    <2> QED BY <2>1, <2>2, <2>3, <2>6, <2>8, SameDisk DEF CountInv
  <1>18. ASSUME NEW h \in Hashes, CountEntry(h) PROVE CountInv'
    <2>1. /\ answer # NoBody /\ h \in answer.todo
          /\ answer' = [answer EXCEPT !.todo = @ \ {h},
                           !.unread = IF flag["read"][h] THEN @ ELSE @ \cup {h}]
          /\ UNCHANGED <<log, fetched, contentVer, flag, cached, up>>
      BY <1>18 DEF CountEntry, vars, disk, memory
    <2>2. /\ answer'.ver = answer.ver /\ answer'.copied = answer.copied
          /\ answer'.todo = answer.todo \ {h}
          /\ answer'.unread = IF flag["read"][h] THEN answer.unread ELSE answer.unread \cup {h}
      BY <1>1, <2>1 DEF Answering
    <2>3. Stored' = Stored /\ Unread' = Unread
      BY <2>1 DEF Unread, Stored
    <2>4. (h \in Unread <=> ~flag["read"][h]) /\ h \in UNION answer.copied
      BY <2>1 DEF CountInv, Unread
    <2>5. answer'.todo \subseteq Stored' \cap UNION answer'.copied
      BY <2>1, <2>2, <2>3 DEF CountInv
    <2>6. answer.ver = contentVer =>
              answer'.unread = (Unread \cap UNION answer.copied) \ answer'.todo
      BY <2>1, <2>2, <2>4 DEF CountInv
    <2> QED BY <2>1, <2>2, <2>3, <2>5, <2>6, SameDisk DEF CountInv
  <1>19. CASE Answer
    <2>1. /\ answer # NoBody /\ answer.copied = Feeds /\ answer.todo = {} /\ answer' = NoBody
          /\ cached' = [ver |-> answer.ver, unread |-> answer.unread]
          /\ UNCHANGED <<log, fetched, contentVer, flag, up, step>>
      BY <1>19 DEF Answer, vars, disk, memory
    <2>2. Unread' = Unread
      BY <2>1 DEF Unread, Stored
    <2>3. answer.ver = contentVer => answer.unread = Unread
      BY <2>1, FeedsAssumption DEF CountInv, Unread, Stored
    <2>4. answer.ver = DiskVersion => answer.unread = DiskUnread
      <3> SUFFICES ASSUME answer.ver = DiskVersion PROVE answer.unread = DiskUnread
        OBVIOUS
      <3>1. step # "apply" /\ up
        BY <1>1, <2>1, NoneWhileApplying
      <3>2. \A h \in Hashes : flag["read"][h] <=> On(log["read"], h)
        BY <3>1 DEF DurableInv, Unapplied, Kinds, Ids
      <3>3. Unread = DiskUnread
        BY <3>2 DEF Unread, DiskUnread, Stored
      <3> QED BY <2>1, <2>3, <3>3 DEF CountInv
    <2> QED BY <2>1, <2>2, <2>3, <2>4, SameDisk DEF CountInv
  <1>20. CASE UNCHANGED allVars
    BY <1>4, <1>20 DEF allVars, vars, disk, memory, syncVars
  <1> QED
    BY <1>6, <1>7, <1>8, <1>9, <1>10, <1>11, <1>12, <1>13, <1>14, <1>15, <1>16, <1>17,
       <1>18, <1>19, <1>20 DEF SyncNext, FlagStep, FlagWork

LEMMA SyncInitInv == SyncInit => VersionInv /\ CountInv /\ DurableInv
  <1> SUFFICES ASSUME SyncInit PROVE VersionInv /\ CountInv
    BY DurableInvInit DEF SyncInit
  <1>1. /\ ~up /\ answer = NoBody /\ cached = NoBody /\ step = "idle"
        /\ \A f \in Feeds : pollStart[f] = 0
    BY DEF SyncInit, Init
  <1>2. Candidates = {}
    BY <1>1 DEF Candidates
  <1>3. WholeLog
    BY DEF SyncInit, Init, WholeLog
  <1> QED BY <1>1, <1>2, <1>3 DEF VersionInv, CountInv

\* A client is told 304 only when what it has counted is still right, however setFlag
\* and AppendEntries interleave with the counting, if no restart is done within the
\* second it began in and no compaction empties a log.  Each is needed: TLC finds a
\* stale 304 with SlowRestart FALSE, and one with a CompactMin of 1.
THEOREM NeverStale304 ==
    ASSUME SlowRestart
    PROVE  SyncSpec /\ []NothingEmptied => []NoStale304
  <1> DEFINE Inv == SyncTypeInv /\ DurableInv /\ VersionInv /\ CountInv
  <1>1. SyncInit => Inv
    BY SyncInitTypes, SyncInitInv
  <1>2. Inv /\ NothingEmptied /\ [SyncNext]_allVars => Inv'
    <2> SUFFICES ASSUME Inv, NothingEmptied, [SyncNext]_allVars PROVE Inv'
      OBVIOUS
    <2>1. SyncTypeInv'
      BY SyncTypeStep
    <2>2. DurableInv'
      BY SyncStepIsWhole, DurableInvStep DEF SyncTypeInv
    <2>3. VersionInv' /\ CountInv'
      BY <2>1, <2>2, VersionInvStep, CountInvStep
    <2> QED BY <2>1, <2>2, <2>3
  <1>3. Inv => NoStale304
    BY DEF CountInv, NoStale304
  <1> QED BY <1>1, <1>2, <1>3, PTL DEF SyncSpec

=============================================================================
