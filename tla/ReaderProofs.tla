----------------------------- MODULE ReaderProofs -----------------------------
(***************************************************************************)
(* Proofs about ReaderSync, for any entries, feeds and stream of them, any *)
(* page size, resolution of the clock and length of run.                   *)
(***************************************************************************)
EXTENDS ReaderSync, UnreadSyncProofs

-----------------------------------------------------------------------------
(* The operators of the model.                                             *)

LEMMA SeqOfSubset ==
    ASSUME NEW S, NEW T, S \subseteq T, NEW s \in Seq(S)
    PROVE  s \in Seq(T)
  <1>1. Len(s) \in Nat /\ s \in [1..Len(s) -> S]
    BY LenProperties
  <1>2. s \in [1..Len(s) -> T]
    BY <1>1
  <1> QED BY <1>1, <1>2

\* The calls a request makes are a finite list, each about one of its kinds and
\* one of its entries.
LEMMA CallsProperties ==
    ASSUME NEW kinds \in SUBSET Kinds, NEW hashes \in SUBSET Hashes, NEW on \in BOOLEAN
    PROVE  /\ Calls(kinds, hashes, on) \in Seq(Call)
           /\ \A i \in DOMAIN Calls(kinds, hashes, on) : Calls(kinds, hashes, on)[i].hash \in hashes
  <1> DEFINE C == [kind : kinds, hash : hashes, want : {on}]
             D(k) == {c \in C : c.kind = k}
             f(k) == [c \in D(k) |-> c.hash]
  <1>1. IsFiniteSet(hashes)
    BY StateLogAssumption, FS_Subset
  <1>2. ASSUME NEW k PROVE IsFiniteSet(D(k))
    <2>1. \A c, d \in D(k) : c.hash = d.hash => c = d
      OBVIOUS
    <2>2. f(k) \in [D(k) -> hashes]
      OBVIOUS
    <2>3. f(k) \in Injection(D(k), hashes)
      BY <2>1, <2>2 DEF Injection, IsInjective
    <2> QED BY <1>1, <2>3, FS_Injection
  <1>3. C = D("read") \cup D("starred")
    BY DEF Kinds
  <1>4. IsFiniteSet(C)
    <2>1. IsFiniteSet(D("read")) /\ IsFiniteSet(D("starred"))
      BY <1>2
    <2> HIDE DEF C, D
    <2> QED BY <1>3, <2>1, FS_Union
  <1> HIDE DEF C
  <1>5. SetToSeq(C) \in [1..Cardinality(C) -> C] /\ Cardinality(C) \in Nat
    BY <1>4, SetToSeqProperties
  <1>6. SetToSeq(C) \in Seq(C)
    BY <1>5
  <1>7. \A c \in C : c \in Call /\ c.hash \in hashes
    BY DEF C, Call
  <1>8. \A i \in DOMAIN SetToSeq(C) : SetToSeq(C)[i].hash \in hashes
    BY <1>5, <1>7
  <1>9. Calls(kinds, hashes, on) = SetToSeq(C)
    BY DEF Calls, C
  <1> QED BY <1>6, <1>7, <1>8, <1>9, SeqOfSubset

LEMMA SyncTimeType ==
    ASSUME SyncTypeInv, NEW h \in Hashes
    PROVE  SyncTime(h) \in Nat /\ Published(h) \in Nat /\ fetched[h] \in Nat
  BY StateLogAssumption DEF SyncTypeInv, SyncTypeOK, SyncTime, Published

\* A set of entries is finite, and so is what is later than some time.
LEMMA EntriesFinite ==
    ASSUME NEW E \in SUBSET Hashes
    PROVE  IsFiniteSet(E) /\ Cardinality(E) \in Nat
  BY StateLogAssumption, FS_Subset, FS_CardinalityType

-----------------------------------------------------------------------------
(* The module it extends.                                                  *)

\* A step of ReaderSync is a step of UnreadSync.
LEMMA ReaderStepIsSync ==
    ASSUME ReaderTypeOK, [ReaderNext]_everything
    PROVE  [SyncNext]_allVars
  <1> USE DEF SyncNext
  <1>1. CASE StoreStep
    BY <1>1 DEF StoreStep
  <1>2. CASE ReaderCrash
    BY <1>2 DEF ReaderCrash
  <1>3. CASE \/ \E oldest \in BOOLEAN : BeginWalk(oldest)
             \/ AskPage \/ AskMarkAll \/ SendPage \/ MarkAllRead \/ AnswerOK
             \/ \E f \in Feeds : CopyFeed(f)
             \/ UNCHANGED everything
    BY <1>3 DEF BeginWalk, AskPage, AskMarkAll, Collect, SendPage, MarkAllRead, Start, AnswerOK,
                CopyFeed, everything
  <1>4. CASE \E hashes \in SUBSET known \ {{}}, add, rem \in SUBSET Kinds : EditTag(hashes, add, rem)
    BY <1>4 DEF EditTag, Start
  <1>5. CASE CallSetFlag
    <2>1. job.todo \in Seq(Call) /\ job.todo # <<>>
      BY <1>5 DEF CallSetFlag, ReaderTypeOK, Job
    <2>2. Head(job.todo) \in Call
      BY <2>1, HeadTailProperties
    <2>3. UNCHANGED vars
          \/ SetFlag(Head(job.todo).kind, Head(job.todo).hash, Head(job.todo).want)
      BY <1>5 DEF CallSetFlag
    <2>4. UNCHANGED syncVars
      BY <1>5 DEF CallSetFlag
    <2> QED BY <2>2, <2>3, <2>4 DEF Call, FlagStep, allVars
  <1>6. CASE SetFlagStep
    BY <1>6 DEF SetFlagStep, FlagStep
  <1> QED BY <1>1, <1>2, <1>3, <1>4, <1>5, <1>6 DEF ReaderNext

\* Entries are only added, and keep their time; the clock goes on.
LEMMA StoreGrows ==
    ASSUME SyncTypeInv, [SyncNext]_allVars
    PROVE  /\ Stored \subseteq Stored'
           /\ \A h \in Stored : fetched'[h] = fetched[h]
           /\ clock <= clock'
  <1>1. clock \in Nat /\ clock <= Later(clock)
    BY LaterProperties DEF SyncTypeInv, TypeInv, TypeOK
  <1>2. clock' = clock \/ clock' = Later(clock)
    BY DEF SyncNext, SyncOpen, OpenWith, Downtime, SyncCrash, Crash, FlagStep, FlagWork, SetFlag,
           AppendLine, AppendFails, Apply, CompactLocked, CompactFails, PollStart, AppendEntries,
           ReadVersion, CopyIndex, CountEntry, Answer, allVars, vars
  <1>3. UNCHANGED fetched \/ \E f \in Feeds : \E new \in SUBSET f : AppendEntries(f, new)
    BY DEF SyncNext, SyncOpen, Downtime, SyncCrash, FlagStep, PollStart,
           ReadVersion, CopyIndex, CountEntry, Answer, allVars, syncVars
  <1>4. \A h \in Stored : fetched'[h] = fetched[h]
    BY <1>3 DEF AppendEntries, Stored
  <1>5. Stored \subseteq Stored'
    BY <1>4 DEF Stored
  <1> QED BY <1>1, <1>2, <1>4, <1>5

-----------------------------------------------------------------------------
(* Types.                                                                  *)

ReaderTypeInv ==
    /\ SyncTypeInv
    /\ ReaderTypeOK
    /\ job = NoBody => step = "idle"
    /\ job # NoBody /\ job.calling => job.todo # <<>>
    /\ since <= clock /\ asked <= clock
    /\ walk # NoBody => walk.next <= clock
    /\ list # NoBody => list.entries \subseteq Stored \cap UNION list.copied

\* The least the list of the request under way, or of the next, will hold.
Coming ==
    IF list = NoBody THEN Stored \cap UNION stream
    ELSE list.entries \cup (Stored \cap UNION (stream \ list.copied))

\* Those of them the walk is to send up to an entry, and it.
Ahead(h) ==
    {g \in After(asked, Coming) :
        g = h \/ (IF walk.oldest THEN SyncLess(g, h) ELSE SyncLess(h, g))}

LEMMA ComingIsStored ==
    ASSUME ReaderTypeInv
    PROVE  Coming \in SUBSET Stored /\ Coming \in SUBSET Hashes
  BY DEF ReaderTypeInv, Coming, Stored

LEMMA AheadIsPart ==
    ASSUME ReaderTypeInv, NEW h \in After(asked, Coming)
    PROVE  /\ Ahead(h) \in SUBSET Hashes
           /\ IsFiniteSet(After(asked, Coming)) /\ Cardinality(After(asked, Coming)) \in Nat
           /\ Cardinality(Ahead(h)) \in 1..Cardinality(After(asked, Coming))
  <1>1. After(asked, Coming) \in SUBSET Hashes
    BY ComingIsStored DEF After
  <1>2. IsFiniteSet(After(asked, Coming)) /\ Cardinality(After(asked, Coming)) \in Nat
    BY <1>1, EntriesFinite
  <1>3. Ahead(h) \in SUBSET After(asked, Coming) /\ h \in Ahead(h)
    BY DEF Ahead
  <1>4. IsFiniteSet(Ahead(h)) /\ Cardinality(Ahead(h)) <= Cardinality(After(asked, Coming))
    BY <1>2, <1>3, FS_Subset
  <1>5. Cardinality(Ahead(h)) \in Nat /\ Cardinality(Ahead(h)) # 0
    BY <1>3, <1>4, FS_CardinalityType, FS_EmptySet
  <1> QED BY <1>1, <1>2, <1>3, <1>4, <1>5

\* The entries a page holds, and the ot of the next walk once it is read.
Sent ==
    {h \in After(asked, Coming) :
        walk.offset < Cardinality(Ahead(h)) /\ Cardinality(Ahead(h)) <= walk.offset + PageSize}

NextOt == IF walk.offset > 0 THEN walk.next ELSE Max({asked} \cup {fetched[h] : h \in Sent})

\* The list is collected once every feed of the stream is copied.
LEMMA CollectedIsComing ==
    ASSUME Collected
    PROVE  Coming = list.entries
  BY DEF Collected, Coming

\* A token past the end of the list, which it may have become, sends nothing.
LEMMA PageIs ==
    ASSUME ReaderTypeInv, SendPage
    PROVE  /\ known' = known \cup Sent
           /\ IF walk.offset + PageSize < Cardinality(After(asked, Coming))
              THEN /\ walk' = [walk EXCEPT !.offset = walk.offset + PageSize, !.next = NextOt]
                   /\ since' = since
              ELSE walk' = NoBody /\ since' = NextOt
  <1> DEFINE entries == After(asked, list.entries)
             length == Cardinality(entries)
             from == IF walk.offset < length THEN walk.offset ELSE length
             to == from + PageSize
             page == {h \in entries :
                         LET p == Place(h, entries, walk.oldest) IN from < p /\ p <= to}
             next == IF walk.offset > 0 THEN walk.next
                     ELSE Max({asked} \cup {fetched[h] : h \in page})
  <1>0. Coming = list.entries
    BY CollectedIsComing DEF SendPage
  <1>1. entries = After(asked, Coming) /\ \A h : Place(h, entries, walk.oldest) = Cardinality(Ahead(h))
    BY <1>0 DEF Place, Ahead
  <1>2. \A h \in entries : Cardinality(Ahead(h)) \in 1..length
    BY <1>1, AheadIsPart
  <1>3. PageSize \in Nat \ {0} /\ walk.offset \in Nat /\ length \in Nat
    <2>1. entries \in SUBSET Hashes
      BY <1>1, ComingIsStored DEF After
    <2>2. walk \in Walk
      BY DEF SendPage, ReaderTypeInv, ReaderTypeOK
    <2> QED BY <2>1, <2>2, EntriesFinite, ReaderAssumption DEF Walk
  <1>4. page = Sent
    <2> SUFFICES ASSUME NEW h \in entries
                 PROVE  from < Cardinality(Ahead(h)) /\ Cardinality(Ahead(h)) <= to
                        <=> /\ walk.offset < Cardinality(Ahead(h))
                            /\ Cardinality(Ahead(h)) <= walk.offset + PageSize
      BY <1>1 DEF Sent
    <2> QED BY <1>2, <1>3
  <1>5. to < length <=> walk.offset + PageSize < length
    BY <1>3
  <1>6. to < length => to = walk.offset + PageSize
    BY <1>3
  <1>7. /\ known' = known \cup page
        /\ IF to < length
           THEN walk' = [walk EXCEPT !.offset = to, !.next = next] /\ UNCHANGED since
           ELSE walk' = NoBody /\ since' = next
    BY DEF SendPage
  <1>8. next = NextOt
    BY <1>4 DEF NextOt
  <1> HIDE DEF page, next, to, length, entries
  <1> QED BY <1>1, <1>4, <1>5, <1>6, <1>7, <1>8 DEF length

\* The ot a page gives is a time the clock has shown.
LEMMA NextOtType ==
    ASSUME ReaderTypeInv, walk # NoBody
    PROVE  /\ NextOt \in Nat
           /\ NextOt <= clock
           /\ walk.offset > 0 => NextOt = walk.next
           /\ walk.offset = 0 =>
                (NextOt = asked \/ \E h \in Coming : NextOt = fetched[h])
  <1> DEFINE F == {asked} \cup {fetched[h] : h \in Sent}
  <1>1. /\ clock \in Nat /\ asked \in Nat /\ asked <= clock
        /\ walk.next \in Nat /\ walk.next <= clock /\ walk.offset \in Nat
    BY DEF ReaderTypeInv, ReaderTypeOK, SyncTypeInv, TypeInv, TypeOK, Walk
  <1>2. Sent \in SUBSET Coming /\ Coming \in SUBSET Hashes
    BY ComingIsStored DEF Sent, After
  <1>3. \A h \in Coming : fetched[h] \in Nat /\ fetched[h] <= clock
    BY <1>2 DEF ReaderTypeInv, SyncTypeInv, SyncTypeOK
  <1>4. F \in SUBSET Nat /\ F # {} /\ \A t \in F : t <= clock
    BY <1>1, <1>2, <1>3
  <1>5. \A t \in F : t = asked \/ \E h \in Coming : t = fetched[h]
    BY <1>2
  <1>6. NextOt = IF walk.offset > 0 THEN walk.next ELSE Max(F)
    BY DEF NextOt
  <1> HIDE DEF F
  <1>7. Max(F) \in F
    BY <1>1, <1>4, MaxOfBounded
  <1>8. Max(F) \in Nat /\ Max(F) <= clock
    BY <1>4, <1>7
  <1> QED BY <1>1, <1>5, <1>6, <1>7, <1>8

\* What a step must leave in place for the types to be kept.
LEMMA TypesKept ==
    ASSUME ReaderTypeInv, [SyncNext]_allVars, stream' = stream,
           known' \in SUBSET Stored, due' \in SUBSET Stored,
           since' \in Nat, since' <= clock, asked' \in Nat, asked' <= clock,
           walk' # NoBody => walk' \in Walk /\ walk'.next <= clock /\ job' = NoBody,
           list' # NoBody => /\ list' \in List /\ list'.copied \subseteq stream
                             /\ list'.entries \subseteq Stored \cap UNION list'.copied
                             /\ up' /\ job' = NoBody,
           job' # NoBody => job' \in Job /\ (job'.calling <=> step' # "idle")
                                  /\ (job'.calling => job'.todo # <<>>),
           job' = NoBody => step' = "idle"
    PROVE  ReaderTypeInv'
  <1>1. SyncTypeInv' /\ Stored \subseteq Stored' /\ clock <= clock'
    BY SyncTypeStep, StoreGrows DEF ReaderTypeInv
  <1>2. clock \in Nat /\ clock' \in Nat
    BY <1>1 DEF ReaderTypeInv, SyncTypeInv, TypeInv, TypeOK
  <1>3. /\ since' <= clock' /\ asked' <= clock'
        /\ walk' # NoBody => walk'.next <= clock'
    BY <1>1, <1>2 DEF Walk
  <1>4. stream' \in SUBSET Feeds \ {{}}
    BY DEF ReaderTypeInv, ReaderTypeOK
  <1> QED BY <1>1, <1>3, <1>4 DEF ReaderTypeInv, ReaderTypeOK, SyncTypeInv

LEMMA ReaderTypeStep == ReaderTypeInv /\ [ReaderNext]_everything => ReaderTypeInv'
  <1> SUFFICES ASSUME ReaderTypeInv, [ReaderNext]_everything PROVE ReaderTypeInv'
    OBVIOUS
  <1>1. [SyncNext]_allVars
    BY ReaderStepIsSync DEF ReaderTypeInv
  <1>2. /\ job # NoBody => job \in Job /\ (job.calling <=> step # "idle")
                                /\ (job.calling => job.todo # <<>>)
        /\ job = NoBody => step = "idle"
    BY DEF ReaderTypeInv, ReaderTypeOK
  <1>3. /\ clock \in Nat /\ since \in Nat /\ since <= clock /\ asked \in Nat /\ asked <= clock
        /\ known \in SUBSET Stored /\ due \in SUBSET Stored
        /\ walk # NoBody => walk \in Walk /\ walk.next <= clock /\ job = NoBody
        /\ list # NoBody => /\ list \in List /\ list.copied \subseteq stream
                            /\ list.entries \subseteq Stored \cap UNION list.copied
                            /\ up /\ job = NoBody
    BY DEF ReaderTypeInv, ReaderTypeOK, SyncTypeInv, TypeInv, TypeOK
  <1>4. CASE StoreStep
    <2>1. UNCHANGED <<readerVars, step>> /\ (up => up')
      BY <1>4 DEF StoreStep, SyncOpen, OpenWith, Downtime, PollStart, AppendEntries
    <2> QED BY <1>1, <1>2, <1>3, <2>1, TypesKept DEF readerVars
  <1>5. CASE ReaderCrash
    <2>1. /\ job' = NoBody /\ list' = NoBody /\ step' = "idle"
          /\ UNCHANGED <<stream, known, since, asked, walk, due>>
      BY <1>5 DEF ReaderCrash, SyncCrash, Crash
    <2> QED BY <1>1, <1>3, <2>1, TypesKept
  <1>6. ASSUME NEW oldest \in BOOLEAN, BeginWalk(oldest) PROVE ReaderTypeInv'
    <2>1. /\ job = NoBody /\ list = NoBody /\ asked' = since
          /\ walk' = [oldest |-> oldest, offset |-> 0, next |-> 0]
          /\ UNCHANGED <<step, stream, known, since, due, list, job>>
      BY <1>6 DEF BeginWalk, Quiet, allVars, vars
    <2>2. walk' \in Walk /\ walk'.next = 0
      BY <2>1 DEF Walk
    <2> QED BY <1>1, <1>2, <1>3, <2>1, <2>2, TypesKept
  <1>7. CASE AskPage \/ AskMarkAll
    <2>1. /\ job = NoBody /\ up' /\ list' = [copied |-> {}, entries |-> {}]
          /\ UNCHANGED <<step, stream, known, since, asked, walk, due, job>>
      BY <1>3, <1>7 DEF AskPage, AskMarkAll, Collect, Quiet, allVars, vars
    <2>2. list' \in List /\ list'.copied = {} /\ list'.entries = {}
      BY <2>1 DEF List
    <2> QED BY <1>1, <1>2, <1>3, <2>1, <2>2, TypesKept
  <1>8. ASSUME NEW f \in Feeds, CopyFeed(f) PROVE ReaderTypeInv'
    <2>1. /\ list # NoBody /\ f \in stream
          /\ list' = [copied |-> list.copied \cup {f}, entries |-> list.entries \cup (Stored \cap f)]
          /\ UNCHANGED <<up, step, stream, known, since, asked, walk, due, job>>
      BY <1>8 DEF CopyFeed, allVars, vars
    <2>2. /\ list'.copied = list.copied \cup {f}
          /\ list'.entries = list.entries \cup (Stored \cap f)
      BY <2>1
    <2>3. list' \in List
      BY <1>3, <2>1 DEF List, Stored
    <2>4. list'.entries \subseteq Stored \cap UNION list'.copied
      BY <1>3, <2>1, <2>2
    <2> QED BY <1>1, <1>2, <1>3, <2>1, <2>2, <2>3, <2>4, TypesKept
  <1>9. CASE SendPage
    <2>1. /\ walk # NoBody /\ list # NoBody /\ list' = NoBody
          /\ due' = (IF walk.offset = 0 THEN list.entries ELSE due)
          /\ UNCHANGED <<step, stream, asked, job>>
      BY <1>9 DEF SendPage, Collected, allVars, vars
    <2>2. NextOt \in Nat /\ NextOt <= clock
      BY <2>1, NextOtType
    <2>3. Sent \in SUBSET Stored
      BY ComingIsStored DEF Sent, After
    <2>4. known' \in SUBSET Stored
      BY <1>3, <1>9, <2>3, PageIs
    <2>5. due' \in SUBSET Stored
      BY <1>3, <2>1
    <2>6. /\ since' \in Nat /\ since' <= clock
          /\ walk' # NoBody => walk' \in Walk /\ walk'.next <= clock
      <3>1. walk.offset + PageSize \in Nat
        BY <1>3, <2>1, ReaderAssumption DEF Walk
      <3>2. CASE walk.offset + PageSize < Cardinality(After(asked, Coming))
        <4>1. walk' = [walk EXCEPT !.offset = walk.offset + PageSize, !.next = NextOt]
              /\ since' = since
          BY <1>9, <3>2, PageIs
        <4> QED BY <1>3, <2>1, <2>2, <3>1, <4>1 DEF Walk
      <3>3. CASE ~(walk.offset + PageSize < Cardinality(After(asked, Coming)))
        <4>1. walk' = NoBody /\ since' = NextOt
          BY <1>9, <3>3, PageIs
        <4> QED BY <2>2, <4>1
      <3> QED BY <3>2, <3>3
    <2> QED BY <1>1, <1>2, <1>3, <2>1, <2>4, <2>5, <2>6, TypesKept
  <1>10. ASSUME NEW calls \in Seq(Call), NEW marks \in BOOLEAN, Start(calls, marks),
                step = "idle", walk = NoBody, list' = NoBody
         PROVE  ReaderTypeInv'
    <2>1. /\ job' = [calls |-> calls, todo |-> calls, calling |-> FALSE, marks |-> marks]
          /\ UNCHANGED <<step, stream, known, since, asked, walk, due>>
      BY <1>10 DEF Start, allVars, vars
    <2>2. job' \in Job /\ ~job'.calling /\ job' # NoBody
      <3>1. [calls |-> calls, todo |-> calls, calling |-> FALSE, marks |-> marks] \in Job
        BY DEF Job
      <3>2. job' \in Job /\ NoBody \notin Job
        BY <2>1, <3>1, ReaderAssumption
      <3> QED BY <2>1, <3>2
    <2> QED BY <1>1, <1>3, <1>10, <2>1, <2>2, TypesKept
  <1>11. ASSUME NEW hashes \in SUBSET known, NEW add \in SUBSET Kinds, NEW rem \in SUBSET Kinds,
                EditTag(hashes, add, rem)
         PROVE  ReaderTypeInv'
    <2>1. hashes \in SUBSET Hashes
      BY DEF ReaderTypeInv, ReaderTypeOK, Stored
    <2>2. Calls(add, hashes, TRUE) \in Seq(Call) /\ Calls(rem, hashes, FALSE) \in Seq(Call)
      BY <2>1, CallsProperties
    <2>3. Calls(add, hashes, TRUE) \o Calls(rem, hashes, FALSE) \in Seq(Call)
      BY <2>2, ConcatProperties
    <2>4. step = "idle" /\ walk = NoBody /\ list' = NoBody
      BY <1>11 DEF EditTag, Quiet, Free
    <2> QED BY <1>10, <1>11, <2>3, <2>4 DEF EditTag
  <1>12. CASE MarkAllRead
    <2> DEFINE H == {h \in list.entries : SyncTime(h) <= since}
    <2>1. list # NoBody /\ walk = NoBody /\ list' = NoBody /\ step = "idle"
      BY <1>2, <1>3, <1>12 DEF MarkAllRead, Collected
    <2>2. H \in SUBSET Hashes /\ {"read"} \in SUBSET Kinds
      BY <1>3, <2>1 DEF List, Kinds
    <2>3. Start(Calls({"read"}, H, TRUE), TRUE)
      BY <1>12 DEF MarkAllRead
    <2> HIDE DEF H
    <2> QED BY <1>10, <2>1, <2>2, <2>3, CallsProperties
  <1>13. CASE CallSetFlag
    <2>1. job \in Job /\ ~job.calling /\ job.todo # <<>> /\ job # NoBody /\ step = "idle"
      BY <1>2, <1>13 DEF CallSetFlag, Free
    <2>2. Tail(job.todo) \in Seq(Call)
      BY <2>1, HeadTailProperties DEF Job
    <2>3. UNCHANGED <<stream, known, since, asked, walk, due, list>> /\ walk = NoBody /\ list = NoBody
      BY <1>3, <2>1, <1>13 DEF CallSetFlag
    <2>4. \/ job' = [job EXCEPT !.todo = Tail(@)] /\ step' = step
          \/ job' = [job EXCEPT !.calling = TRUE] /\ step' = "append"
      BY <1>13 DEF CallSetFlag, SetFlag, vars
    <2>5. /\ job' \in Job
          /\ job'.calling <=> step' # "idle"
          /\ job'.calling => job'.todo # <<>>
      BY <2>1, <2>2, <2>4 DEF Job
    <2> QED BY <1>1, <1>3, <2>3, <2>5, TypesKept, ReaderAssumption
  <1>14. CASE SetFlagStep
    <2>1. step # "idle" /\ job # NoBody
      BY <1>14 DEF SetFlagStep, FlagWork, AppendLine, AppendFails, Apply, CompactLocked, CompactFails
    <2>2. job \in Job /\ job.calling /\ job.todo # <<>>
      BY <1>2, <2>1
    <2>3. Tail(job.todo) \in Seq(Call)
      BY <2>2, HeadTailProperties DEF Job
    <2>4. [job EXCEPT !.todo = Tail(@), !.calling = FALSE] \in Job
      BY <2>2, <2>3 DEF Job
    <2>5. \/ step' # "idle" /\ job' = job
          \/ step' = "idle" /\ (job' = NoBody \/ job' = [job EXCEPT !.todo = Tail(@), !.calling = FALSE])
      BY <1>14 DEF SetFlagStep, Returned
    <2>6. job' # NoBody => job' \in Job /\ (job'.calling <=> step' # "idle")
                                 /\ (job'.calling => job'.todo # <<>>)
      BY <2>2, <2>4, <2>5 DEF Job
    <2>7. UNCHANGED <<stream, known, since, asked, walk, due, list>> /\ walk = NoBody /\ list = NoBody
      BY <1>3, <1>14, <2>1 DEF SetFlagStep
    <2> QED BY <1>1, <1>3, <2>1, <2>5, <2>6, <2>7, TypesKept
  <1>15. CASE AnswerOK
    <2>1. /\ job' = NoBody /\ step' = "idle" /\ job # NoBody
          /\ UNCHANGED <<stream, known, since, asked, walk, due, list>>
      BY <1>2, <1>15 DEF AnswerOK, Finished, allVars, vars
    <2> QED BY <1>1, <1>3, <2>1, TypesKept
  <1>16. CASE UNCHANGED everything
    <2>1. UNCHANGED <<stream, known, since, asked, walk, due, list, job, step, up>>
      BY <1>16 DEF everything, readerVars, allVars, vars
    <2> QED BY <1>1, <1>2, <1>3, <2>1, TypesKept
  <1> QED
    BY <1>4, <1>5, <1>6, <1>7, <1>8, <1>9, <1>11, <1>12, <1>13, <1>14, <1>15, <1>16
    DEF ReaderNext

LEMMA ReaderInitTypes == ReaderInit => ReaderTypeInv
  BY SyncInitTypes, StateLogAssumption
     DEF ReaderInit, SyncInit, Init, ReaderTypeInv, ReaderTypeOK, SyncTypeInv

\* Every variable keeps its type; the client knows only entries that are stored,
\* it makes one request at a time, and the server carries out a call of setFlag
\* exactly while it holds Store.mu.
THEOREM ReaderTypeCorrect == ReaderSpec => []ReaderTypeOK
  <1>1. ReaderTypeInv => ReaderTypeOK
    BY DEF ReaderTypeInv
  <1> QED BY ReaderInitTypes, ReaderTypeStep, <1>1, PTL DEF ReaderSpec

-----------------------------------------------------------------------------
(* The walk of a stream.                                                   *)

\* While a walk is under way, what is due and not sent yet lies past the offset in
\* every list to come.
WalkInv ==
    /\ due \subseteq Coming
    /\ walk = NoBody => After(asked, due) \subseteq known
    /\ walk # NoBody =>
        \A h \in After(asked, due) \ known : walk.offset < Cardinality(Ahead(h))

\* A list never loses an entry: not to a feed copied again, not to a restart.
LEMMA ComingGrows ==
    ASSUME ReaderTypeInv, [ReaderNext]_everything
    PROVE  Coming \subseteq Coming' /\ stream' = stream
  <1>1. [SyncNext]_allVars
    BY ReaderStepIsSync DEF ReaderTypeInv
  <1>2. Stored \subseteq Stored'
    BY <1>1, StoreGrows DEF ReaderTypeInv
  <1>3. list # NoBody => /\ list.copied \subseteq stream
                         /\ list.entries \subseteq Stored \cap UNION list.copied
    BY DEF ReaderTypeInv, ReaderTypeOK
  <1>4. /\ stream' = stream
        /\ \/ list' = list
           \/ list' = NoBody
           \/ list = NoBody /\ list' = [copied |-> {}, entries |-> {}]
           \/ \E f \in Feeds : CopyFeed(f)
    <2>1. CASE StoreStep \/ UNCHANGED everything
      BY <2>1 DEF StoreStep, everything, readerVars
    <2>2. CASE ReaderCrash \/ SendPage \/ MarkAllRead
      BY <2>2 DEF ReaderCrash, SendPage, MarkAllRead, Start
    <2>3. CASE \/ \E oldest \in BOOLEAN : BeginWalk(oldest)
               \/ \E hashes \in SUBSET known \ {{}}, add, rem \in SUBSET Kinds :
                     EditTag(hashes, add, rem)
      BY <2>3 DEF BeginWalk, EditTag, Start
    <2>4. CASE AskPage \/ AskMarkAll
      BY <2>4 DEF AskPage, AskMarkAll, Collect, Quiet
    <2>5. CASE \E f \in Feeds : CopyFeed(f)
      BY <2>5 DEF CopyFeed
    <2>6. CASE CallSetFlag \/ SetFlagStep \/ AnswerOK
      BY <2>6 DEF CallSetFlag, SetFlagStep, AnswerOK
    <2> QED BY <2>1, <2>2, <2>3, <2>4, <2>5, <2>6 DEF ReaderNext
  <1>5. CASE list' = list
    BY <1>2, <1>4, <1>5 DEF Coming
  <1>6. CASE list' = NoBody
    BY <1>2, <1>3, <1>4, <1>6 DEF Coming
  <1>7. CASE list = NoBody /\ list' = [copied |-> {}, entries |-> {}]
    <2>1. list' # NoBody => Coming' = Stored' \cap UNION stream
      BY <1>4, <1>7 DEF Coming
    <2> QED BY <1>2, <1>4, <1>6, <1>7, <2>1 DEF Coming
  <1>8. ASSUME NEW f \in Feeds, CopyFeed(f) PROVE Coming \subseteq Coming'
    <2>1. /\ list # NoBody
          /\ list' = [copied |-> list.copied \cup {f}, entries |-> list.entries \cup (Stored \cap f)]
      BY <1>8 DEF CopyFeed
    <2>2. /\ list'.copied = list.copied \cup {f}
          /\ list'.entries = list.entries \cup (Stored \cap f)
      BY <2>1
    <2>3. list' # NoBody => Coming' = list'.entries \cup (Stored' \cap UNION (stream \ list'.copied))
      BY <1>4 DEF Coming
    <2>4. Coming = list.entries \cup (Stored \cap UNION (stream \ list.copied))
      BY <2>1 DEF Coming
    <2> QED BY <1>2, <1>6, <2>2, <2>3, <2>4
  <1> QED BY <1>4, <1>5, <1>6, <1>7, <1>8

\* Nor does an entry move forward in it: those that arrive only shift it back.
LEMMA AheadGrows ==
    ASSUME ReaderTypeInv, [ReaderNext]_everything, asked' = asked,
           walk'.oldest = walk.oldest, NEW h \in After(asked, Coming)
    PROVE  Cardinality(Ahead(h)) <= Cardinality(Ahead(h)') /\ Cardinality(Ahead(h)') \in Nat
  <1>1. Coming \subseteq Coming' /\ ReaderTypeInv'
    BY ComingGrows, ReaderTypeStep
  <1>2. \A g \in Stored : fetched'[g] = fetched[g]
    BY ReaderStepIsSync, StoreGrows DEF ReaderTypeInv
  <1>3. \A g \in Coming : fetched'[g] = fetched[g]
    BY <1>2, ComingIsStored
  <1>4. \A g \in Coming : SyncTime(g)' = SyncTime(g) /\ Published(g)' = Published(g)
    BY <1>3 DEF SyncTime, Published
  <1>5. h \in Coming
    BY DEF After
  <1>6. \A g \in Coming : SyncLess(g, h)' = SyncLess(g, h) /\ SyncLess(h, g)' = SyncLess(h, g)
    BY <1>4, <1>5 DEF SyncLess
  <1>7. \A g \in After(asked, Coming) : g \in Coming /\ g \in After(asked, Coming)'
    BY <1>1, <1>4 DEF After
  <1>8. Ahead(h) \subseteq Ahead(h)'
    BY <1>6, <1>7 DEF Ahead
  <1>9. Ahead(h)' \in SUBSET Hashes
    <2>1. Coming' \in SUBSET Hashes
      BY <1>1 DEF ReaderTypeInv, ReaderTypeOK, SyncTypeInv, Coming, Stored
    <2> QED BY <2>1 DEF Ahead, After
  <1>10. IsFiniteSet(Ahead(h)') /\ Cardinality(Ahead(h)') \in Nat
    BY <1>9, EntriesFinite
  <1> QED BY <1>8, <1>10, FS_Subset

\* Times of entries that are stored do not change.
LEMMA AfterStays ==
    ASSUME ReaderTypeInv, [ReaderNext]_everything, NEW E \in SUBSET Stored, NEW ot
    PROVE  After(ot, E)' = After(ot, E)
  <1>1. \A g \in Stored : fetched'[g] = fetched[g]
    BY ReaderStepIsSync, StoreGrows DEF ReaderTypeInv
  <1>2. \A g \in E : SyncTime(g)' = SyncTime(g)
    BY <1>1 DEF SyncTime, Published
  <1> QED BY <1>2 DEF After

\* What is done beside the walk.
LEMMA WalkInvBeside ==
    ASSUME ReaderTypeInv, WalkInv, [ReaderNext]_everything,
           UNCHANGED <<known, asked, walk, due>>
    PROVE  WalkInv'
  <1>1. due \in SUBSET Stored /\ asked \in Nat
    BY DEF ReaderTypeInv, ReaderTypeOK
  <1>2. PICK d \in SUBSET Stored, ot \in Nat : d = due /\ ot = asked
    BY <1>1
  <1>3. After(ot, d)' = After(ot, d)
    BY <1>2, AfterStays
  <1>4. After(asked, due)' = After(asked, due)
    BY <1>2, <1>3 DEF After
  <1>5. due' \subseteq Coming'
    BY ComingGrows DEF WalkInv
  <1>6. ASSUME walk # NoBody, NEW h \in After(asked, due) \ known
        PROVE  walk.offset < Cardinality(Ahead(h)')
    <2>1. h \in After(asked, Coming)
      BY <1>6 DEF After, WalkInv
    <2>2. Cardinality(Ahead(h)) <= Cardinality(Ahead(h)') /\ Cardinality(Ahead(h)') \in Nat
      BY <2>1, AheadGrows
    <2>3. Cardinality(Ahead(h)) \in Nat
      BY <2>1, AheadIsPart
    <2>4. walk.offset \in Nat
      BY <1>6 DEF ReaderTypeInv, ReaderTypeOK, Walk
    <2> QED BY <1>6, <2>2, <2>3, <2>4 DEF WalkInv
  <1> QED BY <1>4, <1>5, <1>6 DEF WalkInv

LEMMA AheadIsSomeNext ==
    (ReaderTypeInv => \A h \in After(asked, Coming) : Cardinality(Ahead(h)) \in Nat \ {0})'
  <1>1. ReaderTypeInv => \A h \in After(asked, Coming) : Cardinality(Ahead(h)) \in Nat \ {0}
    BY AheadIsPart
  <1> QED BY <1>1, PTL

\* A walk begins at the head of the list.
LEMMA WalkInvBegin ==
    ASSUME ReaderTypeInv, WalkInv, NEW oldest \in BOOLEAN, BeginWalk(oldest)
    PROVE  WalkInv'
  <1>1. [ReaderNext]_everything
    BY DEF ReaderNext
  <1>2. walk' = [oldest |-> oldest, offset |-> 0, next |-> 0] /\ UNCHANGED <<due, known>>
    BY DEF BeginWalk
  <1>3. due' \subseteq Coming'
    BY <1>1, <1>2, ComingGrows DEF WalkInv
  <1>4. ReaderTypeInv'
    BY <1>1, ReaderTypeStep
  <1>5. \A h \in After(asked, Coming)' : Cardinality(Ahead(h)') \in Nat \ {0}
    BY <1>4, AheadIsSomeNext
  <1>6. After(asked, due)' \subseteq After(asked, Coming)'
    BY <1>3 DEF After
  <1>7. walk'.offset = 0 /\ walk' # NoBody
    <2>1. walk'.offset = 0 /\ walk' \in Walk
      BY <1>2 DEF Walk
    <2> QED BY <2>1, ReaderAssumption
  <1> QED BY <1>3, <1>5, <1>6, <1>7 DEF WalkInv

\* A page sends the next entries of the list, the last one all that are left.
LEMMA WalkInvPage ==
    ASSUME ReaderTypeInv, WalkInv, SendPage
    PROVE  WalkInv'
  <1> DEFINE to == walk.offset + PageSize
             length == Cardinality(After(asked, Coming))
  <1>1. [ReaderNext]_everything
    BY DEF ReaderNext
  <1>2. /\ walk # NoBody /\ walk \in Walk /\ walk.offset \in Nat /\ to \in Nat
        /\ Coming = list.entries /\ list # NoBody
        /\ due' = (IF walk.offset = 0 THEN list.entries ELSE due)
        /\ UNCHANGED <<allVars, asked>>
    BY CollectedIsComing, ReaderAssumption
       DEF SendPage, Collected, ReaderTypeInv, ReaderTypeOK, Walk
  <1>3. due' \subseteq Coming
    BY <1>2 DEF WalkInv
  <1>4. due' \subseteq Coming'
    BY <1>1, <1>3, ComingGrows
  <1>5. After(asked, due)' = After(asked, due') /\ After(asked, due') \subseteq After(asked, Coming)
    BY <1>2, <1>3 DEF After, allVars, syncVars, SyncTime, Published
  <1>6. known' = known \cup Sent
    BY PageIs
  <1>7. ASSUME NEW h \in After(asked, due') \ known'
        PROVE  /\ Cardinality(Ahead(h)) \in 1..length /\ length \in Nat
               /\ to < Cardinality(Ahead(h))
    <2>1. h \in After(asked, Coming) /\ h \notin Sent /\ h \notin known
      BY <1>5, <1>6, <1>7
    <2>2. Cardinality(Ahead(h)) \in 1..length /\ length \in Nat
      BY <2>1, AheadIsPart
    <2>3. walk.offset < Cardinality(Ahead(h))
      <3>1. CASE walk.offset = 0
        BY <2>2, <3>1
      <3>2. CASE walk.offset # 0
        <4>1. due' = due
          BY <1>2, <3>2
        <4> QED BY <1>2, <1>7, <2>1, <4>1 DEF WalkInv
      <3> QED BY <3>1, <3>2
    <2> QED BY <1>2, <2>1, <2>2, <2>3 DEF Sent
  <1>8. CASE to < length
    <2>1. walk' = [walk EXCEPT !.offset = to, !.next = NextOt]
      BY <1>8, PageIs
    <2>2. walk'.offset = to /\ walk'.oldest = walk.oldest /\ walk' # NoBody
      <3>1. walk'.offset = to /\ walk'.oldest = walk.oldest
        BY <1>2, <2>1 DEF Walk
      <3>2. NextOt \in Nat
        BY <1>2, NextOtType
      <3>3. walk' \in Walk
        BY <1>2, <2>1, <3>2 DEF Walk
      <3> QED BY <3>1, <3>3, ReaderAssumption
    <2>3. ASSUME NEW h \in After(asked, due') \ known' PROVE to < Cardinality(Ahead(h)')
      <3>1. Cardinality(Ahead(h)) <= Cardinality(Ahead(h)') /\ Cardinality(Ahead(h)') \in Nat
        BY <1>1, <1>2, <1>5, <2>2, <2>3, AheadGrows
      <3> QED BY <1>2, <1>7, <2>3, <3>1
    <2> QED BY <1>4, <1>5, <2>2, <2>3 DEF WalkInv
  <1>9. CASE ~(to < length)
    <2>1. walk' = NoBody
      BY <1>9, PageIs
    <2>2. After(asked, due') \subseteq known'
      BY <1>2, <1>7, <1>9
    <2> QED BY <1>4, <1>5, <2>1, <2>2 DEF WalkInv
  <1> QED BY <1>8, <1>9

LEMMA WalkInvStep == ReaderTypeInv /\ WalkInv /\ [ReaderNext]_everything => WalkInv'
  <1> SUFFICES ASSUME ReaderTypeInv, WalkInv, [ReaderNext]_everything PROVE WalkInv'
    OBVIOUS
  <1>1. CASE UNCHANGED <<known, asked, walk, due>>
    BY <1>1, WalkInvBeside
  <1>2. ASSUME NEW oldest \in BOOLEAN, BeginWalk(oldest) PROVE WalkInv'
    BY <1>2, WalkInvBegin
  <1>3. CASE SendPage
    BY <1>3, WalkInvPage
  <1> QED
    BY <1>1, <1>2, <1>3
       DEF ReaderNext, StoreStep, ReaderCrash, AskPage, AskMarkAll, Collect, CopyFeed, EditTag,
           MarkAllRead, Start, CallSetFlag, SetFlagStep, AnswerOK, everything, readerVars

LEMMA WalkInvInit == ReaderInit => WalkInv
  BY DEF ReaderInit, SyncInit, Init, WalkInv, Stored, After

\* A client ends a walk of any stream, of one feed or of many, with every entry of
\* the stream that is later than its ot, whatever polls commit and however often the
\* server restarts between its pages.
THEOREM WalksSendAll ==
    ReaderSpec => [](walk = NoBody =>
        \A h \in due : asked = 0 \/ SyncTime(h) > asked => h \in known)
  <1>1. WalkInv => (walk = NoBody =>
            \A h \in due : asked = 0 \/ SyncTime(h) > asked => h \in known)
    BY DEF WalkInv, After
  <1>2. ReaderTypeInv /\ WalkInv /\ [ReaderNext]_everything => (ReaderTypeInv /\ WalkInv)'
    BY ReaderTypeStep, WalkInvStep
  <1> QED BY ReaderInitTypes, WalkInvInit, <1>1, <1>2, PTL DEF ReaderSpec

-----------------------------------------------------------------------------
(* The stream of one feed.                                                 *)

\* One poll of a feed is under way at a time, so that the feed's entries arrive in
\* the order of their times: those to come are later than all the client has come
\* to, and than all that a list copied of the feed holds.
InOrder(f) ==
    /\ pollStart[f] # 0 => since < pollStart[f] /\ \A h \in f : fetched[h] < pollStart[f]
    /\ \A h \in Stored \cap f : SyncTime(h) <= since => h \in known
    /\ walk = NoBody => due \subseteq known
    /\ walk # NoBody =>
        /\ asked = since
        /\ pollStart[f] # 0 => walk.next < pollStart[f]
        /\ \A h \in (Stored \cap f) \ due : fetched[h] > walk.next
    /\ list # NoBody /\ f \in list.copied =>
        \A h \in (Stored \cap f) \ list.entries :
            fetched[h] > since /\ \A g \in list.entries : fetched[h] > fetched[g]

SinceInv == \A f \in Feeds : stream = {f} => InOrder(f)

LEMMA OneFeedIs ==
    ASSUME ReaderTypeOK, OneFeed
    PROVE  \E f \in Feeds : stream = {f}
  <1>1. IsFiniteSet(SUBSET Hashes)
    BY StateLogAssumption, FS_SUBSET
  <1>2. stream \in SUBSET Feeds /\ Feeds \in SUBSET SUBSET Hashes
    BY FeedsAssumption DEF ReaderTypeOK
  <1>3. IsFiniteSet(stream)
    BY <1>1, <1>2, FS_Subset
  <1>4. PICK f : stream = {f}
    BY <1>3, FS_Singleton DEF OneFeed
  <1> QED BY <1>2, <1>4

\* The types the proof reasons with.
LEMMA ReaderFacts ==
    ASSUME ReaderTypeInv, NEW f \in Feeds
    PROVE  /\ clock \in Nat /\ Later(clock) \in Nat /\ clock < Later(clock)
           /\ pollStart[f] \in Nat /\ pollStart[f] <= clock
           /\ since \in Nat /\ since <= clock
           /\ \A h \in Hashes : fetched[h] \in Nat /\ fetched[h] <= clock
           /\ \A h \in Stored : h \in Hashes /\ fetched[h] # 0
           /\ \A h \in Stored : SyncTime(h) \in Nat /\ SyncTime(h) >= fetched[h]
           /\ known \subseteq Stored /\ due \subseteq Stored
           /\ f \subseteq Hashes
           /\ walk # NoBody => /\ walk \in Walk /\ walk.next \in Nat /\ walk.next <= clock
                               /\ walk.offset \in Nat
  <1>1. \A h \in Hashes : fetched[h] \in Nat /\ fetched[h] <= clock
    BY DEF ReaderTypeInv, SyncTypeInv, SyncTypeOK
  <1>2. ASSUME NEW h \in Stored
        PROVE  h \in Hashes /\ fetched[h] # 0 /\ SyncTime(h) \in Nat /\ SyncTime(h) >= fetched[h]
    <2>1. h \in Hashes /\ fetched[h] # 0
      BY DEF Stored
    <2>2. SyncTime(h) \in Nat /\ Published(h) \in Nat /\ fetched[h] \in Nat
      BY <2>1, SyncTimeType DEF ReaderTypeInv
    <2> QED BY <2>1, <2>2 DEF SyncTime
  <1>3. /\ clock \in Nat /\ Later(clock) \in Nat /\ clock < Later(clock)
        /\ pollStart[f] \in Nat /\ pollStart[f] <= clock
        /\ since \in Nat /\ since <= clock
    BY LaterProperties DEF ReaderTypeInv, ReaderTypeOK, SyncTypeInv, SyncTypeOK, TypeInv, TypeOK
  <1> QED BY <1>1, <1>2, <1>3, FeedIsPart DEF ReaderTypeInv, ReaderTypeOK, Walk

\* What a step does to one feed: nothing, the start or the end of a poll, or new
\* entries with the time of the poll that brought them.
LEMMA FeedStep ==
    ASSUME ReaderTypeInv, [SyncNext]_allVars, NEW f \in Feeds
    PROVE  \/ /\ \A h \in f : fetched'[h] = fetched[h]
              /\ pollStart'[f] \in {0, pollStart[f], Later(clock)}
           \/ /\ pollStart[f] # 0 /\ pollStart'[f] = 0
              /\ \A h \in f : \/ fetched'[h] = fetched[h]
                              \/ fetched[h] = 0 /\ fetched'[h] = pollStart[f]
  <1>1. pollStart \in [Feeds -> Nat] /\ fetched \in [Hashes -> Nat] /\ f \subseteq Hashes
    BY FeedIsPart DEF ReaderTypeInv, SyncTypeInv, SyncTypeOK
  <1>2. CASE \E g \in Feeds : \E new \in SUBSET g : AppendEntries(g, new)
    <2>0. PICK g \in Feeds : \E new \in SUBSET g : AppendEntries(g, new)
      BY <1>2
    <2>1. PICK new \in SUBSET g : AppendEntries(g, new)
      BY <2>0
    <2>2. /\ \A h \in Hashes : fetched'[h] = IF h \in new THEN pollStart[g] ELSE fetched[h]
          /\ \A h \in new \cap Hashes : fetched[h] = 0
          /\ pollStart[g] # 0 /\ pollStart' = [pollStart EXCEPT ![g] = 0]
      BY <2>1 DEF AppendEntries, Stored
    <2>3. CASE g = f
      BY <1>1, <2>2, <2>3
    <2>4. CASE g # f
      <3>1. \A h \in f : h \notin new
        BY <2>4, FeedsAssumption
      <3>2. pollStart'[f] = pollStart[f]
        BY <1>1, <2>2, <2>4
      <3> QED BY <1>1, <2>2, <3>1, <3>2
    <2> QED BY <2>3, <2>4
  <1>3. ASSUME NEW g \in Feeds, PollStart(g)
        PROVE  fetched' = fetched /\ pollStart'[f] \in {pollStart[f], Later(clock)}
    BY <1>1, <1>3 DEF PollStart
  <1>4. CASE UNCHANGED fetched /\ (pollStart' = pollStart \/ pollStart'[f] = 0)
    BY <1>4
  <1> QED
    BY <1>2, <1>3, <1>4
       DEF SyncNext, SyncOpen, Downtime, SyncCrash, FlagStep, ReadVersion, CopyIndex, CountEntry,
           Answer, allVars, syncVars

\* What is done while the client waits, asks or edits flags.
LEMMA InOrderBeside ==
    ASSUME ReaderTypeInv, [SyncNext]_allVars, NEW f \in Feeds, stream = {f}, InOrder(f),
           UNCHANGED <<known, since, asked, walk, due>>,
           list' # NoBody /\ f \in list'.copied =>
               \/ list # NoBody /\ f \in list.copied /\ list'.entries = list.entries
               \/ Stored' \cap f \subseteq list'.entries
    PROVE  InOrder(f)'
  <1> USE ReaderFacts
  <1>1. /\ Stored \subseteq Stored'
        /\ \A h \in Stored : fetched'[h] = fetched[h] /\ SyncTime(h)' = SyncTime(h)
    <2>1. Stored \subseteq Stored' /\ \A h \in Stored : fetched'[h] = fetched[h]
      BY StoreGrows DEF ReaderTypeInv
    <2> QED BY <2>1 DEF SyncTime, Published
  <1>2. ASSUME NEW h \in Stored' \cap f, h \notin Stored
        PROVE  /\ fetched'[h] = pollStart[f] /\ pollStart[f] # 0
               /\ SyncTime(h)' \in Nat /\ SyncTime(h)' >= pollStart[f]
    <2>1. h \in Hashes /\ fetched[h] = 0 /\ fetched'[h] # 0
      BY <1>2 DEF Stored
    <2>2. fetched'[h] = pollStart[f] /\ pollStart[f] # 0
      BY <1>2, <2>1, FeedStep
    <2>3. SyncTime(h)' \in Nat /\ SyncTime(h)' >= fetched'[h]
      BY <2>2, StateLogAssumption DEF SyncTime, Published
    <2> QED BY <2>2, <2>3
  <1>3. pollStart'[f] # 0 =>
            /\ since < pollStart'[f]
            /\ \A h \in f : fetched'[h] < pollStart'[f]
            /\ walk # NoBody => walk.next < pollStart'[f]
    <2> SUFFICES ASSUME pollStart'[f] # 0
                 PROVE  /\ since < pollStart'[f]
                        /\ \A h \in f : fetched'[h] < pollStart'[f]
                        /\ walk # NoBody => walk.next < pollStart'[f]
      OBVIOUS
    <2>1. \A h \in f : fetched'[h] = fetched[h] /\ fetched[h] \in Nat /\ fetched[h] <= clock
      BY FeedStep
    <2>2. CASE pollStart'[f] = pollStart[f]
      BY <2>1, <2>2 DEF InOrder
    <2>3. CASE pollStart'[f] = Later(clock)
      BY <2>1, <2>3
    <2> QED BY <2>2, <2>3, FeedStep
  <1>4. ASSUME NEW h \in Stored' \cap f, SyncTime(h)' <= since PROVE h \in known
    <2>1. CASE h \in Stored
      BY <1>1, <1>4, <2>1 DEF InOrder
    <2>2. CASE h \notin Stored
      BY <1>2, <1>4, <2>2 DEF InOrder
    <2> QED BY <2>1, <2>2
  <1>5. ASSUME walk # NoBody, NEW h \in (Stored' \cap f) \ due PROVE fetched'[h] > walk.next
    <2>1. CASE h \in Stored
      BY <1>1, <1>5, <2>1 DEF InOrder
    <2>2. CASE h \notin Stored
      BY <1>2, <1>5, <2>2 DEF InOrder
    <2> QED BY <2>1, <2>2
  <1>6. ASSUME list' # NoBody, f \in list'.copied, NEW h \in (Stored' \cap f) \ list'.entries
        PROVE  fetched'[h] > since /\ \A g \in list'.entries : fetched'[h] > fetched'[g]
    <2>1. list # NoBody /\ f \in list.copied /\ list'.entries = list.entries
      BY <1>6
    <2>2. list.entries \subseteq Stored \cap f
      BY <2>1 DEF ReaderTypeInv, ReaderTypeOK
    <2>3. CASE h \in Stored
      BY <1>1, <1>6, <2>1, <2>2, <2>3 DEF InOrder
    <2>4. CASE h \notin Stored
      <3>1. fetched'[h] = pollStart[f] /\ since < pollStart[f]
        BY <1>2, <1>6, <2>4 DEF InOrder
      <3>2. ASSUME NEW g \in list.entries PROVE fetched'[g] < pollStart[f]
        <4>1. g \in Stored /\ fetched'[g] = fetched[g]
          BY <1>1, <2>2
        <4> QED BY <1>2, <1>6, <2>2, <2>4, <4>1 DEF InOrder
      <3> QED BY <1>2, <1>6, <2>1, <2>4, <3>1, <3>2
    <2> QED BY <2>3, <2>4
  <1> QED BY <1>3, <1>4, <1>5, <1>6 DEF InOrder

\* After the last page of a walk the client has come to the ot the first gave it.
LEMMA InOrderPage ==
    ASSUME ReaderTypeInv, WalkInv, NEW f \in Feeds, stream = {f}, InOrder(f), SendPage
    PROVE  InOrder(f)'
  <1> USE ReaderFacts
  <1>1. /\ walk # NoBody /\ list # NoBody /\ f \in list.copied /\ list' = NoBody
        /\ due' = (IF walk.offset = 0 THEN list.entries ELSE due)
        /\ UNCHANGED <<fetched, pollStart, asked>> /\ asked = since
    BY DEF SendPage, Collected, allVars, syncVars, InOrder
  <1>2. /\ Stored' = Stored
        /\ \A h : SyncTime(h)' = SyncTime(h)
    BY <1>1 DEF Stored, SyncTime, Published
  <1>3. Coming = list.entries /\ Coming \in SUBSET Stored /\ Coming \subseteq f
    <2>1. Coming = list.entries /\ Coming \in SUBSET Stored
      BY CollectedIsComing, ComingIsStored DEF SendPage
    <2>2. list.entries \subseteq UNION list.copied /\ list.copied \subseteq {f}
      BY <1>1 DEF ReaderTypeInv, ReaderTypeOK
    <2> QED BY <2>1, <2>2
  <1>4. /\ NextOt \in Nat
        /\ walk.offset > 0 => NextOt = walk.next
        /\ walk.offset = 0 => NextOt = since \/ \E g \in list.entries : NextOt = fetched[g]
    BY <1>1, <1>3, NextOtType
  <1>5. pollStart[f] # 0 => NextOt < pollStart[f]
    <2>1. CASE walk.offset > 0
      BY <1>1, <1>4, <2>1 DEF InOrder
    <2>2. CASE walk.offset = 0
      BY <1>1, <1>3, <1>4, <2>2 DEF InOrder
    <2> QED BY <1>1, <2>1, <2>2
  <1>6. ASSUME NEW h \in (Stored \cap f) \ due' PROVE fetched[h] > NextOt
    <2>1. CASE walk.offset > 0
      BY <1>1, <1>4, <1>6, <2>1 DEF InOrder
    <2>2. CASE walk.offset = 0
      BY <1>1, <1>4, <1>6, <2>2 DEF InOrder
    <2> QED BY <1>1, <2>1, <2>2
  <1>7. known' = known \cup Sent
    BY PageIs
  <1>8. \A h \in Stored \cap f : SyncTime(h) <= since => h \in known'
    BY <1>7 DEF InOrder
  <1>9. CASE walk.offset + PageSize < Cardinality(After(asked, Coming))
    <2>1. walk' = [walk EXCEPT !.offset = walk.offset + PageSize, !.next = NextOt] /\ since' = since
      BY <1>9, PageIs
    <2>2. walk'.next = NextOt /\ walk' \in Walk
      <3>1. walk \in Walk /\ walk.offset + PageSize \in Nat
        BY <1>1, ReaderAssumption
      <3> HIDE ReaderFacts
      <3> QED BY <1>4, <2>1, <3>1 DEF Walk
    <2>3. walk' # NoBody
      BY <2>2, ReaderAssumption
    <2>4. pollStart'[f] # 0 => since' < pollStart'[f] /\ \A h \in f : fetched'[h] < pollStart'[f]
      BY <1>1, <2>1 DEF InOrder
    <2>5. \A h \in (Stored' \cap f) \ due' : fetched'[h] > walk'.next
      BY <1>1, <1>2, <1>6, <2>2
    <2> QED BY <1>1, <1>2, <1>5, <1>8, <2>1, <2>2, <2>3, <2>4, <2>5 DEF InOrder
  <1>10. CASE ~(walk.offset + PageSize < Cardinality(After(asked, Coming)))
    <2>1. walk' = NoBody /\ since' = NextOt
      BY <1>10, PageIs
    <2>2. WalkInv'
      BY WalkInvPage
    <2>3. due' \subseteq Stored \cap f
      <3>1. due \subseteq Coming
        BY DEF WalkInv
      <3> QED BY <1>1, <1>3, <3>1
    <2>4. ASSUME NEW h \in due' PROVE h \in known'
      <3>1. CASE SyncTime(h) <= since
        BY <1>8, <2>3, <2>4, <3>1
      <3>2. CASE SyncTime(h) > since
        <4>1. h \in After(asked, due)'
          BY <1>1, <1>2, <2>4, <3>2 DEF After
        <4> QED BY <2>1, <2>2, <4>1 DEF WalkInv
      <3> QED BY <2>3, <2>4, <3>1, <3>2
    <2>5. ASSUME NEW h \in Stored \cap f, SyncTime(h) <= NextOt PROVE h \in known'
      <3>1. fetched[h] <= NextOt /\ fetched[h] \in Nat
        BY <1>4, <2>5
      <3>2. h \in due'
        BY <1>4, <1>6, <2>5, <3>1
      <3> QED BY <2>4, <3>2
    <2>6. pollStart'[f] # 0 => since' < pollStart'[f] /\ \A h \in f : fetched'[h] < pollStart'[f]
      BY <1>1, <1>5, <2>1 DEF InOrder
    <2> QED BY <1>1, <1>2, <2>1, <2>4, <2>5, <2>6 DEF InOrder
  <1> QED BY <1>9, <1>10

LEMMA SinceInvStep ==
    ReaderTypeInv /\ WalkInv /\ SinceInv /\ [ReaderNext]_everything => SinceInv'
  <1> SUFFICES ASSUME ReaderTypeInv, WalkInv, SinceInv, [ReaderNext]_everything,
                      NEW f \in Feeds, stream' = {f}
               PROVE  InOrder(f)'
    BY DEF SinceInv
  <1>1. [SyncNext]_allVars
    BY ReaderStepIsSync DEF ReaderTypeInv
  <1>2. stream = {f} /\ InOrder(f)
    BY ComingGrows DEF SinceInv
  <1>3. CASE /\ UNCHANGED <<known, since, asked, walk, due>>
             /\ list' = list \/ list' = NoBody
    BY <1>1, <1>2, <1>3, InOrderBeside
  <1>4. CASE AskPage \/ AskMarkAll
    <2>1. /\ UNCHANGED <<known, since, asked, walk, due>>
          /\ list' = [copied |-> {}, entries |-> {}]
      BY <1>4 DEF AskPage, AskMarkAll, Collect
    <2> QED BY <1>1, <1>2, <2>1, InOrderBeside
  <1>5. ASSUME NEW g \in Feeds, CopyFeed(g) PROVE InOrder(f)'
    <2>1. /\ UNCHANGED <<known, since, asked, walk, due, fetched>> /\ g = f
          /\ list' = [copied |-> list.copied \cup {g}, entries |-> list.entries \cup (Stored \cap g)]
      BY <1>2, <1>5 DEF CopyFeed, allVars, syncVars
    <2>2. Stored' \cap f \subseteq list'.entries
      BY <2>1 DEF Stored
    <2> QED BY <1>1, <1>2, <2>1, <2>2, InOrderBeside
  <1>6. ASSUME NEW oldest \in BOOLEAN, BeginWalk(oldest) PROVE InOrder(f)'
    <2>1. /\ walk = NoBody /\ list' = NoBody /\ asked' = since
          /\ walk' = [oldest |-> oldest, offset |-> 0, next |-> 0]
          /\ UNCHANGED <<known, since, due, fetched, pollStart>>
      BY <1>6 DEF BeginWalk, Quiet, allVars, syncVars
    <2>2. walk'.next = 0 /\ walk' # NoBody
      <3>1. walk'.next = 0 /\ walk' \in Walk
        BY <2>1 DEF Walk
      <3> QED BY <3>1, ReaderAssumption
    <2>3. Stored' = Stored /\ \A h \in Stored : SyncTime(h)' = SyncTime(h) /\ fetched[h] > 0
      BY <2>1, ReaderFacts DEF Stored, SyncTime, Published
    <2>4. pollStart[f] # 0 => pollStart[f] > 0
      BY ReaderFacts
    <2> QED BY <1>2, <2>1, <2>2, <2>3, <2>4 DEF InOrder
  <1>7. CASE SendPage
    BY <1>2, <1>7, InOrderPage
  <1> QED
    BY <1>3, <1>4, <1>5, <1>6, <1>7
       DEF ReaderNext, StoreStep, ReaderCrash, EditTag, MarkAllRead, Start, CallSetFlag,
           SetFlagStep, AnswerOK, everything, readerVars

LEMMA SinceInvariant == ReaderSpec => [](ReaderTypeInv /\ WalkInv /\ SinceInv)
  <1>1. ReaderInit => SinceInv
    BY DEF ReaderInit, SyncInit, Init, SinceInv, InOrder, Stored
  <1>2. ReaderTypeInv /\ WalkInv /\ SinceInv /\ [ReaderNext]_everything
            => (ReaderTypeInv /\ WalkInv /\ SinceInv)'
    BY ReaderTypeStep, WalkInvStep, SinceInvStep
  <1> QED BY ReaderInitTypes, WalkInvInit, <1>1, <1>2, PTL DEF ReaderSpec

\* A client that takes its next ot from the crawl times of the first page ends a
\* walk of any stream with all that is later than its ot, and a walk of one feed
\* with all the feed had when the walk began.
THEOREM WalksAreComplete == ReaderSpec => []SyncComplete
  <1>1. ReaderTypeInv /\ WalkInv /\ SinceInv => SyncComplete
    <2> SUFFICES ASSUME ReaderTypeInv, WalkInv, SinceInv, walk = NoBody, NEW h \in due,
                        OneFeed \/ asked = 0 \/ SyncTime(h) > asked
                 PROVE  h \in known
      BY DEF SyncComplete
    <2>1. CASE OneFeed
      <3>1. PICK f \in Feeds : stream = {f}
        BY <2>1, OneFeedIs DEF ReaderTypeInv
      <3> QED BY <3>1 DEF SinceInv, InOrder
    <2>2. CASE asked = 0 \/ SyncTime(h) > asked
      BY <2>2 DEF WalkInv, After
    <2> QED BY <2>1, <2>2
  <1> QED BY SinceInvariant, <1>1, PTL

-----------------------------------------------------------------------------
(* Marking all as read.                                                    *)

\* Marking a feed as read, up to the time such a client has come to, marks only
\* entries it was sent.
THEOREM MarksOnlyWhatWasSent == ReaderSpec => []MarksOnlySeen
  <1>1. ReaderInit => MarksOnlySeen
    BY DEF ReaderInit, MarksOnlySeen
  <1>2. ReaderTypeInv /\ WalkInv /\ SinceInv /\ MarksOnlySeen /\ [ReaderNext]_everything
            => MarksOnlySeen'
    <2> SUFFICES ASSUME ReaderTypeInv, WalkInv, SinceInv, MarksOnlySeen, [ReaderNext]_everything
                 PROVE  MarksOnlySeen'
      OBVIOUS
    <2>0. OneFeed' <=> OneFeed
      BY ComingGrows DEF OneFeed
    <2>1. CASE MarkAllRead
      <3> SUFFICES ASSUME OneFeed
                   PROVE  \A i \in DOMAIN job'.calls : job'.calls[i].hash \in known'
        BY <2>0 DEF MarksOnlySeen
      <3> DEFINE H == {h \in list.entries : SyncTime(h) <= since}
      <3>1. PICK f \in Feeds : stream = {f}
        BY OneFeedIs DEF ReaderTypeInv
      <3>2. list.entries \subseteq Stored \cap f
        BY <2>1, <3>1 DEF MarkAllRead, Collected, ReaderTypeInv
      <3>3. H \subseteq known
        BY <3>1, <3>2 DEF SinceInv, InOrder
      <3>4. H \in SUBSET Hashes /\ {"read"} \in SUBSET Kinds
        BY <3>2 DEF Stored, Kinds
      <3>5. job'.calls = Calls({"read"}, H, TRUE) /\ known' = known
        BY <2>1 DEF MarkAllRead, Start
      <3> HIDE DEF H
      <3> QED BY <3>3, <3>4, <3>5, CallsProperties
    <2>2. ASSUME NEW hashes, NEW add, NEW rem, EditTag(hashes, add, rem) PROVE MarksOnlySeen'
      BY <2>2 DEF EditTag, Start, MarksOnlySeen
    <2>3. CASE /\ known \subseteq known'
               /\ job' = NoBody \/ (job # NoBody /\ job'.calls = job.calls /\ job'.marks = job.marks)
      BY <2>0, <2>3 DEF MarksOnlySeen
    <2>4. CASE SendPage
      <3>1. job' = job /\ known \subseteq known'
        BY <2>4 DEF SendPage
      <3> QED BY <2>3, <3>1
    <2>5. CASE CallSetFlag \/ SetFlagStep
      <3>1. job # NoBody /\ job \in Job
        BY <2>5 DEF CallSetFlag, SetFlagStep, ReaderTypeInv, ReaderTypeOK
      <3>2. job' = NoBody \/ (job'.calls = job.calls /\ job'.marks = job.marks)
        BY <2>5, <3>1 DEF CallSetFlag, SetFlagStep, Returned, Job
      <3>3. known' = known
        BY <2>5 DEF CallSetFlag, SetFlagStep
      <3> QED BY <2>3, <3>1, <3>2, <3>3
    <2>6. CASE \/ StoreStep \/ ReaderCrash \/ AnswerOK \/ UNCHANGED everything
               \/ AskPage \/ AskMarkAll
               \/ \E oldest \in BOOLEAN : BeginWalk(oldest)
               \/ \E f \in Feeds : CopyFeed(f)
      <3>1. known' = known /\ (job' = NoBody \/ job' = job)
        BY <2>6 DEF StoreStep, ReaderCrash, AnswerOK, everything, readerVars, AskPage, AskMarkAll,
                    Collect, BeginWalk, CopyFeed
      <3> QED BY <2>3, <3>1
    <2> QED BY <2>1, <2>2, <2>4, <2>5, <2>6 DEF ReaderNext
  <1> QED BY SinceInvariant, <1>1, <1>2, PTL DEF ReaderSpec

-----------------------------------------------------------------------------
(* Editing flags.                                                          *)

\* The calls that have returned.
Made == Len(job.calls) - Len(job.todo)

SameFlag(c, d) == c.kind = d.kind /\ c.hash = d.hash

\* Call i has done what it was to do, or one of those up to m is about its flag too.
Stands(i, m) ==
    \/ \E j \in (i + 1)..m : SameFlag(job.calls[i], job.calls[j])
    \/ flag[job.calls[i].kind][job.calls[i].hash] = job.calls[i].want

CallsInv ==
    /\ step = "compact" => flag[req.kind][req.hash] = req.want
    /\ job # NoBody =>
        /\ up
        /\ Made \in Nat
        /\ \A j \in DOMAIN job.todo : job.todo[j] = job.calls[Made + j]
        /\ job.calling =>
            LET call == Head(job.todo) IN
            req.kind = call.kind /\ req.hash = call.hash /\ req.want = call.want
        /\ \A i \in 1..Made : Stands(i, IF job.calling THEN Made + 1 ELSE Made)

\* The call at the head of the list is the next one of the request.
LEMMA HeadIsNext ==
    ASSUME ReaderTypeInv, CallsInv, job # NoBody, job.todo # <<>>
    PROVE  /\ Made \in Nat /\ Made + 1 <= Len(job.calls)
           /\ Len(job.calls) \in Nat /\ Len(job.todo) \in Nat /\ Len(job.todo) > 0
           /\ Head(job.todo) = job.calls[Made + 1]
           /\ Head(job.todo) \in Call
           /\ \A i \in 1..Len(job.calls) : job.calls[i] \in Call
           /\ Tail(job.todo) \in Seq(Call)
           /\ Len(Tail(job.todo)) = Len(job.todo) - 1
           /\ \A j \in 1..(Len(job.todo) - 1) : Tail(job.todo)[j] = job.todo[j + 1]
  <1>1. job.todo \in Seq(Call) /\ job.calls \in Seq(Call)
    BY DEF ReaderTypeInv, ReaderTypeOK, Job
  <1>2. /\ Len(job.todo) \in Nat /\ DOMAIN job.todo = 1..Len(job.todo) /\ Len(job.calls) \in Nat
        /\ \A i \in 1..Len(job.calls) : job.calls[i] \in Call
    BY <1>1, LenProperties
  <1>3. Len(job.todo) > 0 /\ Head(job.todo) = job.todo[1]
    BY <1>1, <1>2, EmptySeq
  <1>4. Made \in Nat /\ Head(job.todo) = job.calls[Made + 1]
    BY <1>2, <1>3 DEF CallsInv
  <1>5. Made + 1 <= Len(job.calls)
    BY <1>2, <1>3 DEF Made
  <1> QED BY <1>1, <1>2, <1>3, <1>4, <1>5, HeadTailProperties

\* A call that has done what it was to do returns, and the handler goes on.
LEMMA CallReturns ==
    ASSUME ReaderTypeInv, CallsInv, job # NoBody, job.todo # <<>>,
           job' = [job EXCEPT !.todo = Tail(@), !.calling = FALSE],
           up', step' # "compact",
           \A i \in 1..Made :
              \/ \E j \in (i + 1)..(Made + 1) : SameFlag(job.calls[i], job.calls[j])
              \/ flag'[job.calls[i].kind][job.calls[i].hash] = job.calls[i].want,
           LET call == Head(job.todo) IN flag'[call.kind][call.hash] = call.want
    PROVE  CallsInv'
  <1>1. job \in Job
    BY DEF ReaderTypeInv, ReaderTypeOK
  <1>0. PICK n \in Nat : n = Made
    BY HeadIsNext
  <1>2. job'.calls = job.calls /\ job'.todo = Tail(job.todo) /\ ~job'.calling
    BY <1>1 DEF Job
  <1>3. Made' = n + 1
    <2>1. Len(job'.calls) = Len(job.calls) /\ Len(job'.todo) = Len(job.todo) - 1
      BY <1>2, HeadIsNext
    <2>2. Len(job.calls) \in Nat /\ Len(job.todo) \in Nat
      BY HeadIsNext
    <2>3. Made' = Len(job.calls) - (Len(job.todo) - 1)
      BY <2>1 DEF Made
    <2>4. n = Len(job.calls) - Len(job.todo)
      BY <1>0 DEF Made
    <2> QED BY <2>2, <2>3, <2>4
  <1>4. \A j \in DOMAIN job'.todo : job'.todo[j] = job'.calls[Made' + j]
    <2>1. DOMAIN job'.todo = 1..(Len(job.todo) - 1)
      BY <1>2, HeadIsNext, LenProperties
    <2>2. DOMAIN job.todo = 1..Len(job.todo)
      BY <1>1, LenProperties DEF Job
    <2> SUFFICES ASSUME NEW j \in 1..(Len(job.todo) - 1)
                 PROVE  Tail(job.todo)[j] = job.calls[n + 1 + j]
      BY <1>2, <1>3, <2>1
    <2>3. Tail(job.todo)[j] = job.todo[j + 1] /\ j + 1 \in DOMAIN job.todo
      BY <2>2, HeadIsNext
    <2>4. job.todo[j + 1] = job.calls[n + (j + 1)]
      BY <1>0, <2>3 DEF CallsInv
    <2>5. n + (j + 1) = n + 1 + j
      BY <1>0
    <2> QED BY <2>3, <2>4, <2>5
  <1>5. ASSUME NEW i \in 1..(n + 1) PROVE Stands(i, n + 1)'
    <2>1. CASE i \in 1..n
      BY <1>0, <1>2, <2>1 DEF Stands, SameFlag
    <2>2. CASE i = n + 1
      BY <1>0, <1>2, <2>2, HeadIsNext DEF Stands
    <2> QED BY <1>0, <2>1, <2>2
  <1>6. \A i \in 1..Made' : Stands(i, IF job.calling THEN Made + 1 ELSE Made)'
    BY <1>2, <1>3, <1>5 DEF Stands
  <1> QED BY <1>0, <1>2, <1>3, <1>4, <1>6 DEF CallsInv

LEMMA CallsInvStep ==
    ASSUME ReaderTypeInv, CallsInv, [ReaderNext]_everything
    PROVE  CallsInv'
  <1>0. CASE UNCHANGED <<flag, up, step, req, job>>
    <2>1. Made' = Made
      BY <1>0 DEF Made
    <2>2. \A i, m : Stands(i, m)' <=> Stands(i, m)
      BY <1>0 DEF Stands, SameFlag
    <2>3. \A i : (Stands(i, IF job.calling THEN Made + 1 ELSE Made))'
                  <=> Stands(i, IF job.calling THEN Made + 1 ELSE Made)
      BY <1>0, <2>1 DEF Stands, SameFlag
    <2> QED BY <1>0, <2>1, <2>3 DEF CallsInv
  <1>1. CASE UNCHANGED <<flag, up, step, req, job>> \/ (job' = NoBody /\ step' # "compact")
    BY <1>0, <1>1 DEF CallsInv
  <1>2. CASE StoreStep
    <2>1. job' = job /\ step' = step
      BY <1>2 DEF StoreStep, SyncOpen, OpenWith, Downtime, PollStart, AppendEntries, readerVars
    <2>2. CASE job = NoBody
      BY <1>1, <2>1, <2>2 DEF ReaderTypeInv
    <2>3. CASE job # NoBody
      <3>1. up
        BY <2>3 DEF CallsInv
      <3>2. UNCHANGED <<flag, up, req>>
        BY <1>2, <3>1 DEF StoreStep, SyncOpen, OpenWith, Downtime, PollStart, AppendEntries, memory
      <3> QED BY <1>1, <2>1, <3>2
    <2> QED BY <2>2, <2>3
  <1>3. CASE ReaderCrash
    BY <1>1, <1>3 DEF ReaderCrash, SyncCrash, Crash
  <1>4. CASE AnswerOK
    BY <1>1, <1>4 DEF AnswerOK, Finished, ReaderTypeInv, ReaderTypeOK, allVars, vars
  <1>5. CASE \/ \E oldest \in BOOLEAN : BeginWalk(oldest)
             \/ AskPage \/ AskMarkAll \/ SendPage \/ UNCHANGED everything
             \/ \E f \in Feeds : CopyFeed(f)
    BY <1>1, <1>5 DEF BeginWalk, AskPage, AskMarkAll, Collect, CopyFeed, SendPage, everything,
                      readerVars, allVars, vars, memory
  <1>6. ASSUME NEW calls \in Seq(Call), NEW marks \in BOOLEAN, Start(calls, marks),
               up, step = "idle"
        PROVE  CallsInv'
    <2>1. job' = [calls |-> calls, todo |-> calls, calling |-> FALSE, marks |-> marks]
      BY <1>6 DEF Start
    <2>2. up' /\ step' = "idle"
      BY <1>6 DEF Start, allVars, vars
    <2>3. Len(calls) \in Nat /\ DOMAIN calls = 1..Len(calls)
      BY LenProperties
    <2>4. Made' = 0
      BY <2>1, <2>3 DEF Made
    <2> QED BY <2>1, <2>2, <2>3, <2>4 DEF CallsInv
  <1>7. ASSUME NEW hashes \in SUBSET known, NEW add \in SUBSET Kinds, NEW rem \in SUBSET Kinds,
               EditTag(hashes, add, rem)
        PROVE  CallsInv'
    <2>1. hashes \in SUBSET Hashes
      BY DEF ReaderTypeInv, ReaderTypeOK, Stored
    <2>2. Calls(add, hashes, TRUE) \in Seq(Call) /\ Calls(rem, hashes, FALSE) \in Seq(Call)
      BY <2>1, CallsProperties
    <2>3. Calls(add, hashes, TRUE) \o Calls(rem, hashes, FALSE) \in Seq(Call)
      BY <2>2, ConcatProperties
    <2> QED BY <1>6, <1>7, <2>3 DEF EditTag, Free
  <1>8. CASE MarkAllRead
    <2> DEFINE H == {h \in list.entries : SyncTime(h) <= since}
    <2>0. list # NoBody /\ up /\ step = "idle" /\ list \in List
      BY <1>8 DEF MarkAllRead, Collected, ReaderTypeInv, ReaderTypeOK
    <2>1. H \in SUBSET Hashes /\ {"read"} \in SUBSET Kinds
      BY <2>0 DEF List, Kinds
    <2>2. Start(Calls({"read"}, H, TRUE), TRUE)
      BY <1>8 DEF MarkAllRead
    <2> HIDE DEF H
    <2> QED BY <1>6, <2>0, <2>1, <2>2, CallsProperties
  <1>9. CASE CallSetFlag
    <2> DEFINE call == Head(job.todo)
    <2>1. job # NoBody /\ ~job.calling /\ job.todo # <<>> /\ step = "idle" /\ up /\ job \in Job
      BY <1>9 DEF CallSetFlag, Free, ReaderTypeInv, ReaderTypeOK
    <2>2. \A i \in 1..Made : Stands(i, Made)
      BY <2>1 DEF CallsInv
    <2>3. \A i \in 1..Made : Stands(i, Made + 1)
      BY <2>1, <2>2, HeadIsNext DEF Stands
    <2>4. CASE flag[call.kind][call.hash] = call.want
      <3>1. job' = [job EXCEPT !.todo = Tail(@)] /\ UNCHANGED vars
        BY <1>9, <2>4 DEF CallSetFlag
      <3>2. job' = [job EXCEPT !.todo = Tail(@), !.calling = FALSE]
        BY <2>1, <3>1 DEF Job
      <3>3. up' /\ step' # "compact" /\ flag' = flag
        BY <2>1, <3>1 DEF vars, memory
      <3> QED BY <2>1, <2>3, <2>4, <3>2, <3>3, CallReturns DEF Stands
    <2>5. CASE flag[call.kind][call.hash] # call.want
      <3>1. SetFlag(call.kind, call.hash, call.want) /\ job' = [job EXCEPT !.calling = TRUE]
        BY <1>9, <2>5 DEF CallSetFlag
      <3>2. /\ step' = "append" /\ flag' = flag /\ up' = up
            /\ req'.kind = call.kind /\ req'.hash = call.hash /\ req'.want = call.want
        BY <3>1 DEF SetFlag, memory
      <3>3. job'.calls = job.calls /\ job'.todo = job.todo /\ job'.calling
        BY <2>1, <3>1 DEF Job
      <3>4. Made' = Made
        BY <3>3 DEF Made
      <3>5. \A i \in 1..Made : Stands(i, Made + 1)'
        BY <2>3, <3>2, <3>3, <3>4 DEF Stands
      <3> QED BY <2>1, <3>2, <3>3, <3>4, <3>5 DEF CallsInv
    <2> QED BY <2>4, <2>5
  <1>10. CASE SetFlagStep
    <2>1. step # "idle" /\ job # NoBody
      BY <1>10 DEF SetFlagStep, FlagWork, AppendLine, AppendFails, Apply, CompactLocked, CompactFails
    <2>2. job \in Job /\ job.calling /\ job.todo # <<>> /\ up /\ req \in Request
      BY <2>1 DEF ReaderTypeInv, ReaderTypeOK, CallsInv, SyncTypeInv, TypeInv, TypeOK
    <2>3. /\ req.kind = Head(job.todo).kind /\ req.hash = Head(job.todo).hash
          /\ req.want = Head(job.todo).want
          /\ \A i \in 1..Made : Stands(i, Made + 1)
      BY <2>1, <2>2 DEF CallsInv
    <2>4. up' = up
      BY <1>10 DEF SetFlagStep, FlagWork, AppendLine, AppendFails, Apply, CompactLocked, CompactFails,
                   memory
    <2>5. step' # "idle" => job' = job
      BY <1>10 DEF SetFlagStep
    <2>6. step' = "idle" => job' = NoBody \/ job' = [job EXCEPT !.todo = Tail(@), !.calling = FALSE]
      BY <1>10 DEF SetFlagStep, Returned
    <2>7. CASE AppendLine
      <3>1. flag' = flag /\ req' = req /\ step' = "apply"
        BY <2>7 DEF AppendLine, memory
      <3>2. Made' = Made /\ job' = job
        BY <2>5, <3>1 DEF Made
      <3>3. \A i : (Stands(i, IF job.calling THEN Made + 1 ELSE Made))'
                    <=> Stands(i, IF job.calling THEN Made + 1 ELSE Made)
        BY <3>1, <3>2 DEF Stands, SameFlag
      <3> QED BY <2>1, <2>4, <3>1, <3>2, <3>3 DEF CallsInv
    <2>8. CASE AppendFails
      BY <1>1, <1>10, <2>8 DEF SetFlagStep, Returned, AppendFails, Return
    <2>9. CASE CompactLocked \/ CompactFails
      <3>1. flag' = flag /\ step' = "idle" /\ flag[req.kind][req.hash] = req.want
        BY <2>9 DEF CompactLocked, CompactFails, Return, memory, CallsInv
      <3> QED BY <1>1, <2>1, <2>2, <2>3, <2>4, <2>6, <3>1, CallReturns DEF Stands
    <2>10. CASE Apply
      <3>1. flag' = [flag EXCEPT ![req.kind][req.hash] = req.want] /\ step' \in {"idle", "compact"}
        BY <2>10 DEF Apply, Return
      <3>2. req.kind \in Kinds /\ req.hash \in Ids
        BY <2>2 DEF Request, Ids
      <3>3. flag \in [Kinds -> [Ids -> BOOLEAN]]
        BY DEF ReaderTypeInv, SyncTypeInv, TypeInv, TypeOK
      <3>4. flag'[req.kind][req.hash] = req.want
        BY <3>1, <3>2, <3>3
      <3>5. ASSUME NEW i \in 1..Made
            PROVE  \/ \E j \in (i + 1)..(Made + 1) : SameFlag(job.calls[i], job.calls[j])
                   \/ flag'[job.calls[i].kind][job.calls[i].hash] = job.calls[i].want
        <4>1. CASE SameFlag(job.calls[i], job.calls[Made + 1])
          BY <2>1, <2>2, <4>1, HeadIsNext
        <4>2. CASE ~SameFlag(job.calls[i], job.calls[Made + 1])
          <5>1. job.calls[i].kind # req.kind \/ job.calls[i].hash # req.hash
            BY <2>1, <2>2, <2>3, <4>2, HeadIsNext DEF SameFlag
          <5>2. job.calls[i] \in Call
            BY <2>1, <2>2, HeadIsNext
          <5>3. job.calls[i].kind \in Kinds /\ job.calls[i].hash \in Ids
            BY <5>2 DEF Call, Ids
          <5>4. flag'[job.calls[i].kind][job.calls[i].hash] = flag[job.calls[i].kind][job.calls[i].hash]
            BY <3>1, <3>2, <3>3, <5>1, <5>3
          <5> QED BY <2>3, <5>4 DEF Stands
        <4> QED BY <4>1, <4>2
      <3>6. CASE step' = "compact"
        <4>1. job' = job /\ req' = req
          BY <2>5, <2>10, <3>6 DEF Apply, Return
        <4>3. Made' = Made
          BY <4>1 DEF Made
        <4>2. \A i \in 1..Made : Stands(i, Made + 1)'
          BY <3>5, <4>1, <4>3 DEF Stands, SameFlag
        <4> QED BY <2>2, <2>4, <3>4, <4>1, <4>2, <4>3 DEF CallsInv
      <3>7. CASE step' = "idle"
        BY <1>1, <2>1, <2>2, <2>3, <2>4, <2>6, <3>4, <3>5, <3>7, CallReturns
      <3> QED BY <3>1, <3>6, <3>7
    <2> QED BY <1>10, <2>7, <2>8, <2>9, <2>10 DEF SetFlagStep, FlagWork
  <1> QED
    BY <1>2, <1>3, <1>4, <1>5, <1>7, <1>8, <1>9, <1>10 DEF ReaderNext

\* An answer OK means that each flag of the request has the last value it was
\* given, in memory and on disk, however often the handler was interrupted by
\* polls, and whatever restarts, refused writes and failed compactions came before.
THEOREM AnswersAreDurable == ReaderSpec => []OkMeansDurable
  <1> DEFINE Inv == ReaderTypeInv /\ DurableInv /\ CallsInv
  <1>1. ReaderInit => Inv
    BY ReaderInitTypes, DurableInvInit DEF ReaderInit, SyncInit, Init, CallsInv
  <1>2. Inv /\ [ReaderNext]_everything => Inv'
    <2> SUFFICES ASSUME Inv, [ReaderNext]_everything PROVE Inv'
      OBVIOUS
    <2>1. [WholeNext]_vars
      BY ReaderStepIsSync, SyncStepIsWhole DEF ReaderTypeInv
    <2>2. DurableInv'
      BY <2>1, DurableInvStep DEF ReaderTypeInv, SyncTypeInv
    <2> QED BY <2>2, ReaderTypeStep, CallsInvStep
  <1>3. Inv => OkMeansDurable
    <2> SUFFICES ASSUME Inv, Finished, NEW i \in DOMAIN job.calls,
                        \A j \in DOMAIN job.calls : j > i => ~SameFlag(job.calls[i], job.calls[j])
                 PROVE  /\ flag[job.calls[i].kind][job.calls[i].hash] = job.calls[i].want
                        /\ On(log[job.calls[i].kind], job.calls[i].hash) <=> job.calls[i].want
      BY DEF OkMeansDurable, SameFlag
    <2>1. job # NoBody /\ ~job.calling /\ job.todo = <<>> /\ job \in Job /\ step = "idle" /\ up
      BY DEF Finished, ReaderTypeInv, ReaderTypeOK, CallsInv
    <2>2. Len(job.todo) = 0 /\ Len(job.calls) \in Nat /\ DOMAIN job.calls = 1..Len(job.calls)
          /\ job.calls[i] \in Call
      BY <2>1, LenProperties, EmptySeq DEF Job
    <2>3. Made = Len(job.calls)
      BY <2>2 DEF Made
    <2>4. Stands(i, Made)
      BY <2>1, <2>2, <2>3 DEF CallsInv
    <2>5. flag[job.calls[i].kind][job.calls[i].hash] = job.calls[i].want
      BY <2>2, <2>3, <2>4 DEF Stands
    <2>6. job.calls[i].kind \in Kinds /\ job.calls[i].hash \in Ids
      BY <2>2 DEF Call, Ids
    <2>7. On(log[job.calls[i].kind], job.calls[i].hash) <=> flag[job.calls[i].kind][job.calls[i].hash]
      BY <2>1, <2>6 DEF DurableInv, Unapplied
    <2> QED BY <2>5, <2>7
  <1> HIDE DEF Inv
  <1> QED BY <1>1, <1>2, <1>3, PTL DEF ReaderSpec

=============================================================================
