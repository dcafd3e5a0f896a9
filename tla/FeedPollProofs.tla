--------------------------- MODULE FeedPollProofs ---------------------------
(***************************************************************************)
(* Proofs about FeedPoll, and EntryStore below it, for any number of       *)
(* processes, entries, versions and faults and any length of run.  What is *)
(* said of processes that run one at a time is proved for any number of    *)
(* them, one after the other.                                              *)
(***************************************************************************)
EXTENDS FeedPoll, TLAPS, SequenceTheorems

-----------------------------------------------------------------------------
(* About sequences.                                                        *)

LEMMA AppendRange ==
    ASSUME NEW S, NEW s \in Seq(S), NEW x \in S
    PROVE  /\ Append(s, x) \in Seq(S)
           /\ Append(s, x) # <<>>
           /\ Range(Append(s, x)) = Range(s) \cup {x}
           /\ IsInjective(s) /\ x \notin Range(s) => IsInjective(Append(s, x))
  <1> DEFINE t == Append(s, x)
  <1>1. /\ t \in Seq(S) /\ t # <<>> /\ Len(t) = Len(s) + 1
        /\ \A i \in 1..Len(s) : t[i] = s[i]
        /\ t[Len(s) + 1] = x
    BY AppendProperties
  <1>2. Len(s) \in Nat /\ DOMAIN s = 1..Len(s) /\ DOMAIN t = 1..(Len(s) + 1)
    BY <1>1, LenProperties
  <1> HIDE DEF t
  <1>3. Range(t) = Range(s) \cup {x}
    BY <1>1, <1>2 DEF Range
  <1>4. IsInjective(s) /\ x \notin Range(s) => IsInjective(t)
    BY <1>1, <1>2 DEF Range, IsInjective
  <1> QED BY <1>1, <1>3, <1>4 DEF t

LEMMA ConcatRange ==
    ASSUME NEW S, NEW s \in Seq(S), NEW t \in Seq(S)
    PROVE  /\ s \o t \in Seq(S)
           /\ Range(s \o t) = Range(s) \cup Range(t)
           /\ IsInjective(s) /\ IsInjective(t) /\ Range(s) \cap Range(t) = {}
                  => IsInjective(s \o t)
  <1> DEFINE u == s \o t
  <1>1. /\ u \in Seq(S) /\ Len(u) = Len(s) + Len(t)
        /\ \A i \in 1..Len(s) + Len(t) :
               u[i] = IF i <= Len(s) THEN s[i] ELSE t[i - Len(s)]
    BY ConcatProperties
  <1>2. /\ Len(s) \in Nat /\ Len(t) \in Nat
        /\ DOMAIN s = 1..Len(s) /\ DOMAIN t = 1..Len(t) /\ DOMAIN u = 1..(Len(s) + Len(t))
    BY <1>1, LenProperties
  <1>3. Range(u) = Range(s) \cup Range(t)
    BY RangeConcatenation
  <1> HIDE DEF u
  <1>4. ASSUME IsInjective(s), IsInjective(t), Range(s) \cap Range(t) = {}
        PROVE  IsInjective(u)
    <2> SUFFICES ASSUME NEW i \in DOMAIN u, NEW j \in DOMAIN u, u[i] = u[j]
                 PROVE  i = j
      BY DEF IsInjective
    <2>1. CASE i <= Len(s) /\ j <= Len(s)
      BY <1>1, <1>2, <1>4, <2>1 DEF IsInjective
    <2>2. CASE ~(i <= Len(s)) /\ ~(j <= Len(s))
      <3>1. i - Len(s) \in DOMAIN t /\ j - Len(s) \in DOMAIN t
        BY <1>2, <2>2
      <3>2. t[i - Len(s)] = t[j - Len(s)]
        BY <1>1, <1>2, <2>2
      <3>3. i - Len(s) = j - Len(s)
        BY <1>4, <3>1, <3>2 DEF IsInjective
      <3> QED BY <1>2, <3>3
    <2>3. ASSUME NEW k \in DOMAIN u, NEW l \in DOMAIN u, k <= Len(s), ~(l <= Len(s))
          PROVE  u[k] # u[l]
      <3>1. k \in DOMAIN s /\ l - Len(s) \in DOMAIN t
        BY <1>2, <2>3
      <3>2. u[k] \in Range(s) /\ u[l] \in Range(t)
        BY <1>1, <1>2, <2>3, <3>1 DEF Range
      <3> QED BY <1>4, <3>2
    <2> QED BY <2>1, <2>2, <2>3
  <1> QED BY <1>1, <1>3, <1>4 DEF u

LEMMA HeadTailRange ==
    ASSUME NEW S, NEW s \in Seq(S), s # <<>>
    PROVE  /\ Head(s) \in S
           /\ Tail(s) \in Seq(S)
           /\ Range(s) = {Head(s)} \cup Range(Tail(s))
  <1> DEFINE t == Tail(s)
  <1>1. /\ Head(s) \in S /\ t \in Seq(S) /\ Len(t) = Len(s) - 1
        /\ \A i \in 1..Len(t) : t[i] = s[i + 1]
    BY HeadTailProperties
  <1>2. Len(s) \in Nat \ {0} /\ DOMAIN s = 1..Len(s) /\ DOMAIN t = 1..Len(t)
    BY <1>1, LenProperties, EmptySeq
  <1>3. Head(s) = s[1]
    OBVIOUS
  <1> HIDE DEF t
  <1>4. \A x \in Range(s) : x \in {Head(s)} \cup Range(t)
    <2> SUFFICES ASSUME NEW i \in 1..Len(s) PROVE s[i] \in {Head(s)} \cup Range(t)
      BY <1>2 DEF Range
    <2>1. CASE i = 1
      BY <1>3, <2>1
    <2>2. CASE i # 1
      <3>1. i - 1 \in 1..Len(t) /\ t[i - 1] = s[i]
        BY <1>1, <1>2, <2>2
      <3> QED BY <1>2, <3>1 DEF Range
    <2> QED BY <2>1, <2>2
  <1>5. \A x \in {Head(s)} \cup Range(t) : x \in Range(s)
    BY <1>1, <1>2, <1>3 DEF Range
  <1> QED BY <1>1, <1>4, <1>5 DEF t

LEMMA DedupedType ==
    ASSUME NEW S, NEW s \in Seq(S), NEW kept \in Shorter(s)
    PROVE  kept \in Seq(S)
  <1>1. Len(s) \in Nat /\ Range(s) \subseteq S
    BY LenProperties, RangeOfSeq
  <1>2. PICK n \in 0..Len(s) : kept \in [1..n -> Range(s)]
    BY DEF Shorter
  <1>3. n \in Nat /\ kept \in [1..n -> S]
    BY <1>1, <1>2
  <1> QED BY <1>3, SeqDef

\* The lines that are whole: all but one that was never terminated.
WholeOf(s, t) == {s[i] : i \in 1..(IF t THEN Len(s) - 1 ELSE Len(s))}

\* No line is there twice, but for those that do not parse.
NoRepeat(s) == \A i, j \in DOMAIN s : s[i] = s[j] /\ s[i] # Bad => i = j

\* A line written where the last one was terminated, or was not.
LEMMA WrittenProperties ==
    ASSUME NEW s \in Seq(Lines), NEW t \in BOOLEAN, t => s # <<>>, NEW line \in Lines
    PROVE  /\ Written(s, t, line) \in Seq(Lines)
           /\ Written(s, t, line) # <<>>
           /\ ~t => Range(Written(s, t, line)) = Range(s) \cup {line}
           /\ t => Bad \in Range(Written(s, t, line))
  <1>1. CASE ~t
    BY <1>1, AppendRange DEF Written
  <1>2. CASE t
    <2> DEFINE new == [s EXCEPT ![Len(s)] = Bad]
    <2>1. Len(s) \in 1..Len(s) /\ Len(s) \in Nat
      BY <1>2, EmptySeq, LenProperties
    <2>2. Bad \in Lines
      BY DEF Lines
    <2>3. /\ new \in Seq(Lines) /\ Len(new) = Len(s)
          /\ \A j \in 1..Len(s) : new[j] = IF j = Len(s) THEN Bad ELSE s[j]
      BY <2>1, <2>2, ExceptSeq
    <2> HIDE DEF new
    <2>4. DOMAIN new = 1..Len(s) /\ new # <<>>
      BY <2>1, <2>3, LenProperties
    <2>5. Bad \in Range(new)
      BY <2>1, <2>3, <2>4 DEF Range
    <2> QED BY <1>2, <2>3, <2>4, <2>5 DEF Written, new
  <1> QED BY <1>1, <1>2
\* What that does to the lines that are whole.
LEMMA WrittenWhole ==
    ASSUME NEW s \in Seq(Lines), NEW t \in BOOLEAN, t => s # <<>>, NEW line \in Lines
    PROVE  LET w == Written(s, t, line) IN
           /\ WholeOf(w, FALSE) \subseteq WholeOf(s, t) \cup {line, Bad}
           /\ WholeOf(w, TRUE) \subseteq WholeOf(s, t)
           /\ NoRepeat(s) /\ line \notin WholeOf(s, t) \ {Bad} => NoRepeat(w)
  <1> DEFINE w == Written(s, t, line)
  <1>0. Len(s) \in Nat /\ DOMAIN s = 1..Len(s)
    BY LenProperties
  <1>1. CASE ~t
    <2>1. /\ w \in Seq(Lines) /\ Len(w) = Len(s) + 1
          /\ \A i \in 1..Len(s) : w[i] = s[i]
          /\ w[Len(s) + 1] = line
      BY <1>1, AppendProperties DEF Written
    <2>2. DOMAIN w = 1..(Len(s) + 1)
      BY <2>1, LenProperties
    <2> HIDE DEF w
    <2>3. WholeOf(w, FALSE) \subseteq WholeOf(s, t) \cup {line, Bad}
      BY <1>0, <1>1, <2>1 DEF WholeOf
    <2>4. WholeOf(w, TRUE) \subseteq WholeOf(s, t)
      BY <1>0, <1>1, <2>1 DEF WholeOf
    <2>5. NoRepeat(s) /\ line \notin WholeOf(s, t) \ {Bad} => NoRepeat(w)
      BY <1>0, <1>1, <2>1, <2>2 DEF WholeOf, NoRepeat
    <2> QED BY <2>3, <2>4, <2>5 DEF w
  <1>2. CASE t
    <2>1. Len(s) \in 1..Len(s)
      BY <1>2, EmptySeq, LenProperties
    <2>2. Bad \in Lines
      BY DEF Lines
    <2>3. /\ w \in Seq(Lines) /\ Len(w) = Len(s)
          /\ \A j \in 1..Len(s) : w[j] = IF j = Len(s) THEN Bad ELSE s[j]
      BY <1>2, <2>1, <2>2, ExceptSeq DEF Written
    <2>4. DOMAIN w = 1..Len(s)
      BY <2>3, LenProperties
    <2> HIDE DEF w
    <2> DEFINE n == Len(s)
    <2>a. WholeOf(s, t) = {s[i] : i \in 1..n - 1}
      BY <1>2 DEF WholeOf
    <2>b. /\ WholeOf(w, TRUE) = {w[i] : i \in 1..n - 1}
          /\ WholeOf(w, FALSE) = {w[i] : i \in 1..n}
      BY <2>3 DEF WholeOf
    <2>c. n \in Nat /\ \A i \in 1..n : w[i] = IF i = n THEN Bad ELSE s[i]
      BY <1>0, <2>3
    <2> HIDE DEF n
    <2>d. \A i \in 1..n - 1 : w[i] \in WholeOf(s, t)
      <3> SUFFICES ASSUME NEW i \in 1..n - 1 PROVE w[i] \in WholeOf(s, t)
        OBVIOUS
      <3>1. i \in 1..n /\ i # n
        BY <2>c
      <3>2. w[i] = s[i]
        BY <2>c, <3>1
      <3> QED BY <2>a, <3>2
    <2>e. \A i \in 1..n : i \in 1..n - 1 \/ w[i] = Bad
      BY <2>c
    <2>5. WholeOf(w, FALSE) \subseteq WholeOf(s, t) \cup {line, Bad}
      BY <2>b, <2>d, <2>e
    <2>6. WholeOf(w, TRUE) \subseteq WholeOf(s, t)
      BY <2>b, <2>d
    <2>7. NoRepeat(s) => NoRepeat(w)
      BY <1>0, <2>1, <2>3, <2>4 DEF NoRepeat
    <2> QED BY <2>5, <2>6, <2>7 DEF w
  <1> QED BY <1>1, <1>2

LEMMA WholeInRange ==
    ASSUME NEW S, NEW s \in Seq(S), NEW t \in BOOLEAN
    PROVE  /\ WholeOf(s, t) \subseteq Range(s)
           /\ WholeOf(s, FALSE) = Range(s)
           /\ t => WholeOf(s, t) = Range(Front(s)) \/ s = <<>>
  <1>1. Len(s) \in Nat /\ DOMAIN s = 1..Len(s)
    BY LenProperties
  <1>2. WholeOf(s, t) \subseteq Range(s) /\ WholeOf(s, FALSE) = Range(s)
    BY <1>1 DEF WholeOf, Range
  <1>3. ASSUME t, s # <<>> PROVE WholeOf(s, t) = Range(Front(s))
    <2> DEFINE n == Len(s) - 1
               u == SubSeq(s, 1, n)
    <2>1. n \in Nat
      BY <1>1, <1>3, EmptySeq
    <2>2. \A i \in 1..n : s[i] \in S
      BY <1>1, <2>1, ElementOfSeq
    <2> HIDE DEF n
    <2>3. /\ u \in Seq(S)
          /\ Len(u) = IF 1 <= n THEN n - 1 + 1 ELSE 0
          /\ \A i \in 1..n - 1 + 1 : u[i] = s[1 + i - 1]
      BY <2>1, <2>2, SubSeqProperties
    <2> HIDE DEF u
    <2>4. Len(u) = n /\ DOMAIN u = 1..n /\ \A i \in 1..n : u[i] = s[i]
      BY <2>1, <2>3, LenProperties
    <2>5. Range(u) = {s[i] : i \in 1..n}
      BY <2>4 DEF Range
    <2> QED BY <1>3, <2>5 DEF Front, WholeOf, u, n
  <1> QED BY <1>2, <1>3

-----------------------------------------------------------------------------
(* Steps.                                                                  *)

\* What a process does to the entries, alone or in a poll.
StoreAction(p) ==
    \/ StoreStep(p)
    \/ Exit(p)
    \/ \E entries \in Batches : Snapshot(p, entries)
    \/ Return(p)

StoreChange == (\E p \in Procs : StoreAction(p)) /\ UNCHANGED shared

LEMMA EntrySteps == [EntryNext]_storeVars => StoreChange \/ UNCHANGED storeVars
  BY DEF EntryNext, StoreChange, StoreAction

LEMMA PollSteps == [PollNext]_allVars => StoreChange \/ UNCHANGED storeVars
  <1> SUFFICES ASSUME PollNext PROVE StoreChange \/ UNCHANGED storeVars
    BY DEF allVars
  <1>1. CASE \E p \in Procs : PollStep(p)
    <2> PICK p \in Procs : PollStep(p)
      BY <1>1
    <2>1. CASE StoreStep(p) \/ Die(p) \/ \E entries \in Batches : AppendDownloaded(p, entries)
      BY <2>1 DEF StoreChange, StoreAction, Die, AppendDownloaded, PollNext
    <2>2. CASE Appended(p)
      BY <2>2 DEF StoreChange, StoreAction, Appended, PollNext
    <2>3. CASE \/ ResetCooldown(p) \/ SaveReset(p) \/ StartPoll(p) \/ NotModified(p)
               \/ \E delay \in 1..MaxDelay : Throttled(p, delay)
               \/ PollFails(p) \/ Downloaded(p) \/ SaveState(p) \/ SaveFails(p)
      BY <2>3 DEF ResetCooldown, SaveReset, StartPoll, NotModified, Throttled, PollFails,
                  Downloaded, SaveState, SaveFails
    <2> QED BY <2>1, <2>2, <2>3 DEF PollStep
  <1>2. CASE (\E items \in SUBSET Hashes : Publish(items)) \/ Wait
    BY <1>2 DEF Publish, Wait
  <1> QED BY <1>1, <1>2 DEF PollNext

-----------------------------------------------------------------------------
(* Type correctness of the store.                                          *)

StoreType == EntryTypeOK /\ (torn => current # <<>>)

LEMMA StoreTypeInit == EntryInit => StoreType
  <1> SUFFICES ASSUME EntryInit PROVE StoreType
    OBVIOUS
  <1>1. PICK n \in 0..MaxLegacy : current \in [1..n -> Hashes]
    BY DEF EntryInit
  <1>2. n \in Nat /\ current \in [1..n -> Lines]
    BY <1>1, EntryStoreAssumption DEF Lines
  <1>3. current \in Seq(Lines)
    BY <1>2, SeqDef
  <1>4. \A S : <<>> \in Seq(S)
    BY EmptySeq
  <1> QED BY <1>3, <1>4 DEF EntryInit, StoreType, EntryTypeOK

LEMMA StoreTypeNext == StoreType /\ StoreChange => StoreType'
  <1> SUFFICES ASSUME StoreType, UNCHANGED shared, NEW p \in Procs, StoreAction(p)
               PROVE  StoreType'
    BY DEF StoreChange
  <1> USE DEF StoreType, EntryTypeOK, disk, append
  <1>1. CASE ScanFile(p)
    <2>1. PICK kept \in Shorter(current) : rewrite' = [rewrite EXCEPT ![p] = kept]
      BY <1>1 DEF ScanFile
    <2>2. kept \in Seq(Lines)
      BY <2>1, DedupedType
    <2> QED BY <1>1, <2>1, <2>2 DEF ScanFile
  <1>2. CASE RewriteFile(p)
    BY <1>2 DEF RewriteFile
  <1>3. CASE BuildIndex(p)
    <2>1. PICK kept \in Shorter(current) : idx' = [idx EXCEPT ![p] = kept]
      BY <1>3 DEF BuildIndex
    <2>2. Range(current) \subseteq Hashes
      BY <1>3, RangeOfSeq DEF BuildIndex, Parses, Lines
    <2>3. current \in Seq(Hashes)
      BY <2>2, SeqOfRange, SeqMonotonic
    <2>4. kept \in Seq(Hashes)
      BY <2>1, <2>3, DedupedType
    <2> QED BY <1>3, <2>1, <2>4, EmptySeq DEF BuildIndex
  <1>4. CASE OpenCurrent(p) \/ OpenFails(p) \/ WriteFails(p)
    <2>1. CASE OpenCurrent(p) BY <2>1 DEF OpenCurrent
    <2>2. CASE OpenFails(p) BY <2>2 DEF OpenFails
    <2>3. CASE WriteFails(p) BY <2>3 DEF WriteFails
    <2> QED BY <1>4, <2>1, <2>2, <2>3
  <1>5. CASE SkipKnown(p) \/ WriteEntry(p) \/ \E part \in Lines : WriteTorn(p, part)
    <2>1. batch[p] # <<>>
      BY <1>5 DEF SkipKnown, WriteEntry, WriteTorn, InLoop
    <2>2. Next1(p) \in Hashes /\ Tail(batch[p]) \in Seq(Hashes)
      BY <2>1, HeadTailRange DEF Next1
    <2>3. Next1(p) \in Lines /\ Append(added[p], Next1(p)) \in Seq(Hashes)
      BY <2>2, AppendRange DEF Lines
    <2>4. CASE SkipKnown(p)
      BY <2>2, <2>4 DEF SkipKnown
    <2>5. CASE WriteEntry(p)
      <3>1. Written(current, torn, Next1(p)) \in Seq(Lines)
        BY <2>3, WrittenProperties
      <3> QED BY <2>2, <2>3, <2>5, <3>1 DEF WriteEntry
    <2>6. CASE \E part \in Lines : WriteTorn(p, part)
      <3>1. PICK part \in Lines : WriteTorn(p, part)
        BY <2>6
      <3>2. /\ Written(current, torn, part) \in Seq(Lines)
            /\ Written(current, torn, part) # <<>>
        BY WrittenProperties
      <3> QED BY <3>1, <3>2 DEF WriteTorn
    <2> QED BY <1>5, <2>4, <2>5, <2>6
  <1>6. CASE Commit(p)
    <2>1. idx[p] \o added[p] \in Seq(Hashes)
      BY ConcatRange
    <2> QED BY <1>6, <2>1 DEF Commit
  <1>7. CASE Exit(p) \/ Return(p)
    <2>1. <<>> \in Seq(Hashes) /\ <<>> \in Seq(Lines)
      BY EmptySeq
    <2>2. CASE Exit(p) BY <2>1, <2>2 DEF Exit, Forget
    <2>3. CASE Return(p) BY <2>1, <2>3 DEF Return, Forget
    <2> QED BY <1>7, <2>2, <2>3
  <1>8. CASE \E entries \in Batches : Snapshot(p, entries)
    <2>1. PICK entries \in Batches : Snapshot(p, entries)
      BY <1>8
    <2>2. entries \in Seq(Hashes)
      <3>1. PICK n \in 1..MaxBatch : entries \in [1..n -> Hashes]
        BY DEF Batches
      <3> QED BY <3>1, SeqDef, n \in Nat, EntryStoreAssumption
    <2>3. Range(idx[p]) \in SUBSET Hashes
      BY RangeOfSeq
    <2> QED BY <2>1, <2>2, <2>3 DEF Snapshot
  <1> QED BY <1>1, <1>2, <1>3, <1>4, <1>5, <1>6, <1>7, <1>8 DEF StoreAction, StoreStep

-----------------------------------------------------------------------------
(* No index repeats an entry.                                              *)

\* While an append looks at its entries, known is what is indexed and what it has
\* written, and the two are apart.
IndexOf(p) ==
    /\ IsInjective(idx[p])
    /\ pc[p] \in {"open", "write"} =>
           /\ known[p] = Range(idx[p]) \cup Range(added[p])
           /\ IsInjective(added[p])
           /\ Range(added[p]) \cap Range(idx[p]) = {}
    /\ pc[p] \notin {"write", "returned"} => added[p] = <<>>

IndexInv == \A p \in Procs : IndexOf(p)

LEMMA EmptyRange == Range(<<>>) = {} /\ IsInjective(<<>>)
  BY DEF Range, IsInjective

LEMMA IndexInit == EntryInit => IndexInv
  BY EmptyRange DEF EntryInit, IndexInv, IndexOf

LEMMA IndexNext == StoreType /\ IndexInv /\ StoreChange => IndexInv'
  <1> SUFFICES ASSUME StoreType, IndexInv, NEW p \in Procs, StoreAction(p),
                      NEW q \in Procs
               PROVE  IndexOf(q)'
    BY DEF StoreChange, IndexInv
  <1> USE DEF StoreType, EntryTypeOK, disk, append
  <1>0. IndexOf(p) /\ IndexOf(q)
    BY DEF IndexInv
  <1>1. CASE ScanFile(p)
    BY <1>0, <1>1 DEF ScanFile, IndexOf
  <1>2. CASE RewriteFile(p)
    BY <1>0, <1>2 DEF RewriteFile, IndexOf
  <1>3. CASE BuildIndex(p)
    <2>1. PICK kept : Deduped(current, kept) /\ idx' = [idx EXCEPT ![p] = kept]
      BY <1>3 DEF BuildIndex
    <2>2. IsInjective(idx'[q])
      BY <1>0, <2>1 DEF Deduped, IndexOf
    <2> QED BY <1>0, <1>3, <2>2 DEF BuildIndex, IndexOf
  <1>4. CASE OpenCurrent(p) \/ OpenFails(p)
    <2>1. CASE OpenCurrent(p)
      BY <1>0, <2>1 DEF OpenCurrent, IndexOf
    <2>2. CASE OpenFails(p)
      BY <1>0, <2>2 DEF OpenFails, IndexOf
    <2> QED BY <1>4, <2>1, <2>2
  <1>5. CASE SkipKnown(p) \/ WriteFails(p) \/ \E part \in Lines : WriteTorn(p, part)
    <2>1. UNCHANGED <<idx, pc, known, added>>
      BY <1>5 DEF SkipKnown, WriteFails, WriteTorn
    <2> QED BY <1>0, <2>1 DEF IndexOf
  <1>6. CASE WriteEntry(p)
    <2> DEFINE h == Next1(p)
    <2>1. pc[p] = "write" /\ batch[p] # <<>> /\ h \notin known[p]
      BY <1>6 DEF WriteEntry, InLoop
    <2>2. h \in Hashes
      BY <2>1, HeadTailRange DEF Next1
    <2>3. /\ known' = [known EXCEPT ![p] = known[p] \cup {h}]
          /\ added' = [added EXCEPT ![p] = Append(added[p], h)]
          /\ UNCHANGED <<idx, pc>>
      BY <1>6 DEF WriteEntry
    <2> HIDE DEF h
    <2>4. /\ Range(Append(added[p], h)) = Range(added[p]) \cup {h}
          /\ IsInjective(added[p]) /\ h \notin Range(added[p])
                 => IsInjective(Append(added[p], h))
      BY <2>2, AppendRange
    <2> QED BY <1>0, <2>1, <2>3, <2>4 DEF IndexOf
  <1>7. CASE Commit(p)
    <2>1. IsInjective(idx[p]) /\ IsInjective(added[p]) /\ Range(idx[p]) \cap Range(added[p]) = {}
      BY <1>0, <1>7 DEF Commit, IndexOf
    <2>2. IsInjective(idx[p] \o added[p])
      BY <2>1, ConcatRange
    <2> QED BY <1>0, <1>7, <2>2 DEF Commit, IndexOf
  <1>8. CASE Exit(p) \/ Return(p)
    <2>1. CASE Exit(p)
      BY <1>0, <2>1, EmptyRange DEF Exit, Forget, IndexOf
    <2>2. CASE Return(p)
      BY <1>0, <2>2 DEF Return, Forget, IndexOf
    <2> QED BY <1>8, <2>1, <2>2
  <1>9. CASE \E entries \in Batches : Snapshot(p, entries)
    BY <1>0, <1>9, EmptyRange DEF Snapshot, IndexOf
  <1> QED BY <1>1, <1>2, <1>3, <1>4, <1>5, <1>6, <1>7, <1>8, <1>9 DEF StoreAction, StoreStep

LEMMA StoreInvariant ==
    /\ EntrySpec => [](StoreType /\ IndexInv)
    /\ PollSpec => [](StoreType /\ IndexInv)
  <1>1. EntryInit => StoreType /\ IndexInv
    BY StoreTypeInit, IndexInit
  <1>2. StoreType /\ IndexInv /\ (StoreChange \/ UNCHANGED storeVars)
            => (StoreType /\ IndexInv)'
    <2>1. StoreType /\ IndexInv /\ StoreChange => (StoreType /\ IndexInv)'
      BY StoreTypeNext, IndexNext
    <2>2. StoreType /\ IndexInv /\ UNCHANGED storeVars => (StoreType /\ IndexInv)'
      BY DEF StoreType, EntryTypeOK, IndexInv, IndexOf, storeVars, disk, append
    <2> QED BY <2>1, <2>2
  <1>3. StoreType /\ IndexInv /\ [EntryNext]_storeVars => (StoreType /\ IndexInv)'
    BY <1>2, EntrySteps
  <1>4. StoreType /\ IndexInv /\ [PollNext]_allVars => (StoreType /\ IndexInv)'
    BY <1>2, PollSteps
  <1>5. PollInit => StoreType /\ IndexInv
    BY <1>1 DEF PollInit
  <1> QED BY <1>1, <1>3, <1>4, <1>5, PTL DEF EntrySpec, PollSpec

\* No reader is shown an entry twice, however many processes append to the file at
\* once, whatever fails and whatever lines are on disk.
THEOREM NeverShownTwice == PollSpec => []ShownOnce
  <1>1. IndexInv => ShownOnce
    BY DEF IndexInv, IndexOf, ShownOnce
  <1> QED BY <1>1, StoreInvariant, PTL

-----------------------------------------------------------------------------
(* The store of processes that run one at a time.                          *)

\* What p holds of the file: the rewrite it is about to put in place is the file
\* without its repetitions, a file it has opened has none, whole lines are indexed
\* or about to be, and what is indexed is on disk unless two lines ran together.
AloneOf(p) ==
    /\ ~orphan[p]
    /\ pc[p] = "down" => idx[p] = <<>>
    /\ pc[p] = "rewrite" => IsInjective(rewrite[p]) /\ Range(rewrite[p]) = Range(current)
    /\ pc[p] \notin {"down", "rewrite"} => NoRepeat(current)
    /\ Running(p) => WholeOf(current, torn) \subseteq Range(idx[p]) \cup Range(added[p]) \cup {Bad}
    /\ pc[p] = "returned" => WholeOf(current, torn) \subseteq Range(idx[p]) \cup {Bad}
    /\ Bad \in Range(current) \/ Range(idx[p]) \cup Range(added[p]) \subseteq Range(current)

OneAtATime == \A p, q \in Procs : pc[p] # "down" /\ pc[q] # "down" => p = q

AloneInv == ~shared => OneAtATime /\ \A p \in Procs : AloneOf(p)

LEMMA AloneInit == EntryInit => AloneInv
  BY EmptyRange DEF EntryInit, AloneInv, AloneOf, OneAtATime, Running

LEMMA InjectiveNoRepeat ==
    ASSUME NEW s, IsInjective(s)
    PROVE  NoRepeat(s)
  BY DEF IsInjective, NoRepeat

\* A process that is down while another one works.
LEMMA OthersDown ==
    ASSUME StoreType, IndexInv, AloneInv, ~shared, NEW p \in Procs, StoreAction(p),
           NEW q \in Procs, q # p
    PROVE  AloneOf(q)'
  <1> USE DEF StoreType, EntryTypeOK, disk, append
  <1>1. pc[q] = "down"
    <2>1. CASE ScanFile(p)
      BY <2>1 DEF ScanFile
    <2>2. CASE pc[p] # "down"
      BY <2>2 DEF AloneInv, OneAtATime
    <2>3. ScanFile(p) \/ pc[p] # "down"
      BY DEF StoreAction, StoreStep, RewriteFile, BuildIndex, OpenCurrent, OpenFails, SkipKnown,
             WriteEntry, WriteFails, WriteTorn, InLoop, Commit, Exit, Return, Snapshot
    <2> QED BY <2>1, <2>2, <2>3
  <1>2. /\ idx[q] = <<>> /\ ~orphan[q]
        /\ added[q] = <<>>
    BY <1>1 DEF AloneInv, AloneOf, IndexInv, IndexOf
  <1>3. UNCHANGED <<pc[q], idx[q], added[q], orphan[q]>>
    <2>1. CASE StoreStep(p)
      BY <1>1, <2>1 DEF StoreStep, ScanFile, RewriteFile, BuildIndex, OpenCurrent, OpenFails,
                        SkipKnown, WriteEntry, WriteFails, WriteTorn, Commit
    <2>2. CASE Exit(p) \/ Return(p) \/ \E entries \in Batches : Snapshot(p, entries)
      BY <2>2 DEF Exit, Return, Snapshot, Forget
    <2> QED BY <2>1, <2>2 DEF StoreAction
  <1>4. Range(idx'[q]) = {} /\ Range(added'[q]) = {}
    BY <1>2, <1>3, EmptyRange
  <1> QED BY <1>1, <1>2, <1>3, <1>4 DEF AloneOf, Running

LEMMA AloneNext == StoreType /\ IndexInv /\ AloneInv /\ StoreChange => AloneInv'
  <1> SUFFICES ASSUME StoreType, IndexInv, AloneInv, StoreChange, ~shared
               PROVE  (OneAtATime /\ \A q \in Procs : AloneOf(q))'
    BY DEF AloneInv, StoreChange
  <1> PICK p \in Procs : StoreAction(p)
    BY DEF StoreChange
  <1> USE DEF StoreType, EntryTypeOK, disk, append
  <1>1. OneAtATime'
    <2>1. \A q \in Procs : q # p => pc'[q] = "down"
      BY OthersDown DEF AloneOf, AloneInv, OneAtATime, StoreAction, StoreStep, ScanFile,
         RewriteFile, BuildIndex, OpenCurrent, OpenFails, SkipKnown, WriteEntry, WriteFails,
         WriteTorn, InLoop, Commit, Exit, Return, Snapshot
    <2> QED BY <2>1 DEF OneAtATime
  <1>2. SUFFICES AloneOf(p)'
    BY <1>1, OthersDown
  <1>0. /\ AloneOf(p) /\ IndexOf(p) /\ \A q \in Procs : ~orphan[q]
        /\ \A q \in Procs \ {p} : pc[p] # "down" => pc[q] = "down"
    BY DEF AloneInv, AloneOf, IndexInv, OneAtATime
  <1>3. CASE ScanFile(p)
    <2>1. PICK kept : Deduped(current, kept) /\ rewrite' = [rewrite EXCEPT ![p] = kept]
      BY <1>3 DEF ScanFile
    <2>2. IsInjective(current) => NoRepeat(current)
      BY InjectiveNoRepeat
    <2> QED BY <1>0, <1>3, <2>1, <2>2 DEF ScanFile, Deduped, AloneOf, Running
  <1>4. CASE RewriteFile(p)
    <2>1. NoRepeat(rewrite[p])
      BY <1>0, <1>4, InjectiveNoRepeat DEF RewriteFile, AloneOf
    <2>2. ~orphan'[p]
      BY <1>0, <1>4 DEF RewriteFile
    <2> QED BY <1>0, <1>4, <2>1, <2>2 DEF RewriteFile, AloneOf, Running
  <1>5. CASE BuildIndex(p)
    <2>1. PICK kept : Deduped(current, kept) /\ idx' = [idx EXCEPT ![p] = kept]
      BY <1>5 DEF BuildIndex
    <2>2. Range(idx'[p]) = Range(current)
      BY <2>1 DEF Deduped
    <2>3. WholeOf(current, torn) \subseteq Range(current)
      BY WholeInRange
    <2>4. added[p] = <<>> /\ Range(added[p]) = {}
      BY <1>0, <1>5, EmptyRange DEF BuildIndex, IndexOf
    <2> QED BY <1>0, <1>5, <2>2, <2>3, <2>4 DEF BuildIndex, AloneOf, Running
  <1>6. CASE OpenCurrent(p) \/ OpenFails(p)
    <2>1. CASE OpenCurrent(p)
      BY <1>0, <2>1 DEF OpenCurrent, AloneOf, Running
    <2>2. CASE OpenFails(p)
      <3>1. Range(added[p]) = {}
        BY <1>0, <2>2, EmptyRange DEF OpenFails, IndexOf
      <3> QED BY <1>0, <2>2, <3>1 DEF OpenFails, AloneOf, Running
    <2> QED BY <1>6, <2>1, <2>2
  <1>7. CASE SkipKnown(p) \/ WriteFails(p)
    <2>1. UNCHANGED <<current, torn, idx, pc, rewrite, added, orphan>>
      BY <1>7 DEF SkipKnown, WriteFails
    <2> QED BY <1>0, <2>1 DEF AloneOf, Running
  <1>8. CASE WriteEntry(p) \/ \E part \in Lines : WriteTorn(p, part)
    <2> DEFINE h == Next1(p)
    <2>1. pc[p] = "write" /\ batch[p] # <<>> /\ h \notin known[p]
      BY <1>8 DEF WriteEntry, WriteTorn, InLoop
    <2>2. h \in Hashes /\ h \in Lines /\ h # Bad
      BY <2>1, HeadTailRange, EntryStoreAssumption DEF Next1, Lines
    <2>3. h \notin WholeOf(current, torn)
      BY <1>0, <2>1, <2>2 DEF AloneOf, IndexOf, Running
    <2>4. NoRepeat(current)
      BY <1>0, <2>1 DEF AloneOf
    <2>5. CASE WriteEntry(p)
      <3>1. /\ current' = Written(current, torn, h) /\ torn' = FALSE
            /\ added' = [added EXCEPT ![p] = Append(added[p], h)]
            /\ UNCHANGED <<idx, pc, rewrite, orphan>>
        BY <1>0, <2>5 DEF WriteEntry
      <3> HIDE DEF h
      <3>2. Range(added'[p]) = Range(added[p]) \cup {h}
        BY <2>2, <3>1, AppendRange
      <3>3. /\ WholeOf(current', FALSE) \subseteq WholeOf(current, torn) \cup {h, Bad}
            /\ NoRepeat(current')
        BY <2>2, <2>3, <2>4, <3>1, WrittenWhole
      <3>4. /\ ~torn => Range(current') = Range(current) \cup {h}
            /\ torn => Bad \in Range(current')
        BY <2>2, <3>1, WrittenProperties
      <3>5. Bad \in Range(current') \/ Range(idx[p]) \cup Range(added'[p]) \subseteq Range(current')
        BY <1>0, <3>2, <3>4 DEF AloneOf
      <3> QED BY <1>0, <2>1, <3>1, <3>2, <3>3, <3>5 DEF AloneOf, Running
    <2>6. CASE \E part \in Lines : WriteTorn(p, part)
      <3>1. PICK part \in Lines : WriteTorn(p, part)
        BY <2>6
      <3>2. /\ current' = Written(current, torn, part) /\ torn' = TRUE
            /\ part \in {h, Bad}
            /\ UNCHANGED <<idx, pc, rewrite, added, orphan>>
        BY <3>1 DEF WriteTorn
      <3> HIDE DEF h
      <3>3. part \notin WholeOf(current, torn) \ {Bad}
        BY <2>3, <3>2
      <3>4. /\ WholeOf(current', TRUE) \subseteq WholeOf(current, torn)
            /\ NoRepeat(current')
        BY <2>4, <3>2, <3>3, WrittenWhole
      <3>5. /\ ~torn => Range(current') = Range(current) \cup {part}
            /\ torn => Bad \in Range(current')
        BY <3>2, WrittenProperties
      <3>6. Bad \in Range(current') \/ Range(idx[p]) \cup Range(added[p]) \subseteq Range(current')
        BY <1>0, <3>5 DEF AloneOf
      <3> QED BY <1>0, <2>1, <3>2, <3>4, <3>6 DEF AloneOf, Running
    <2> QED BY <1>8, <2>5, <2>6
  <1>9. CASE Commit(p)
    <2>1. Range(idx'[p]) = Range(idx[p]) \cup Range(added[p])
      BY <1>9, ConcatRange DEF Commit
    <2> QED BY <1>0, <1>9, <2>1 DEF Commit, AloneOf, Running
  <1>10. CASE Exit(p) \/ Return(p)
    <2>1. CASE Exit(p)
      BY <1>0, <2>1, EmptyRange DEF Exit, Forget, AloneOf, Running
    <2>2. CASE Return(p)
      BY <1>0, <2>2, EmptyRange DEF Return, Forget, AloneOf, Running
    <2> QED BY <1>10, <2>1, <2>2
  <1>11. CASE \E entries \in Batches : Snapshot(p, entries)
    BY <1>0, <1>11 DEF Snapshot, AloneOf, Running
  <1> QED BY <1>3, <1>4, <1>5, <1>6, <1>7, <1>8, <1>9, <1>10, <1>11 DEF StoreAction, StoreStep

LEMMA AloneInvariant == PollSpec => [](StoreType /\ IndexInv /\ AloneInv)
  <1> DEFINE I == StoreType /\ IndexInv /\ AloneInv
  <1>1. PollInit => I
    BY StoreTypeInit, IndexInit, AloneInit DEF PollInit
  <1>2. I /\ [PollNext]_allVars => I'
    <2>1. I /\ StoreChange => I'
      BY StoreTypeNext, IndexNext, AloneNext
    <2>2. I /\ UNCHANGED storeVars => I'
      BY DEF StoreType, EntryTypeOK, IndexInv, IndexOf, AloneInv, AloneOf, OneAtATime,
             Running, storeVars, disk, append
    <2> QED BY <2>1, <2>2, PollSteps
  <1> QED BY <1>1, <1>2, PTL DEF PollSpec

\* Once Open has cleaned the file no entry is in it twice, as long as the processes
\* run one at a time.
THEOREM CleanedForGood == PollSpec => []NoDuplicateLines
  <1>1. AloneInv => NoDuplicateLines
    BY DEF AloneInv, AloneOf, NoDuplicateLines, NoRepeat, Running
  <1> QED BY <1>1, AloneInvariant, PTL

\* The index of a process misses no whole line of the file between two appends,
\* whatever failed half way in the ones before.
THEOREM IndexMissesNothing == PollSpec => []IndexCoversDisk
  <1>1. StoreType /\ IndexInv /\ AloneInv => IndexCoversDisk
    <2> SUFFICES ASSUME StoreType, IndexInv, AloneInv, ~shared, NEW p \in Procs,
                        pc[p] \in {"idle", "open", "returned"}
                 PROVE  Range(IF torn THEN Front(current) ELSE current) \ {Bad}
                            \subseteq Range(idx[p])
      BY DEF IndexCoversDisk
    <2>1. AloneOf(p) /\ IndexOf(p)
      BY DEF AloneInv, IndexInv
    <2>2. Range(IF torn THEN Front(current) ELSE current) = WholeOf(current, torn)
      BY WholeInRange DEF StoreType, EntryTypeOK
    <2>3. WholeOf(current, torn) \subseteq Range(idx[p]) \cup {Bad}
      BY <2>1, EmptyRange DEF AloneOf, IndexOf, Running
    <2> QED BY <2>2, <2>3
  <1> QED BY <1>1, AloneInvariant, PTL

\* What a reader is shown is on disk, unless the file no longer parses.
THEOREM ShownIsOnDisk == PollSpec => []LossIsLoud
  <1>1. AloneInv => LossIsLoud
    BY DEF AloneInv, AloneOf, LossIsLoud
  <1> QED BY <1>1, AloneInvariant, PTL


-----------------------------------------------------------------------------
(* Type correctness of a poll.                                             *)

PollStates == [at : {"none", "reset", "ready", "sent", "append", "save"},
               st : FeedState, version : Nat]

\* A validator names a version that was brought out; so does what is downloaded.
PollType ==
    /\ feed \in Seq(SUBSET Hashes) /\ feed # <<>>
    /\ fstate \in FeedState /\ fstate.etag <= Len(feed)
    /\ poll \in [Procs -> PollStates]
    /\ \A p \in Procs : /\ poll[p].st.etag <= Len(feed)
                        /\ poll[p].at = "append" => poll[p].version \in 1..Len(feed)
    /\ clock \in Nat

LEMMA FreshType == Fresh \in FeedState /\ NoPoll \in PollStates
  BY DEF Fresh, FeedState, NoPoll, PollStates

LEMMA HealthyErroredType ==
    ASSUME NEW st \in FeedState
    PROVE  /\ Healthy(st) \in FeedState /\ Errored(st) \in FeedState
           /\ Healthy(st).etag = st.etag /\ Errored(st).etag = st.etag
           /\ Healthy(st).lastFetched = st.lastFetched
           /\ Healthy(st).lastSuccess = st.lastFetched
           /\ Healthy(st).retryAfter = 0 /\ Healthy(st).failing = FALSE
           /\ Errored(st).lastFetched = st.lastFetched
           /\ Errored(st).lastSuccess = st.lastSuccess
           /\ Errored(st).retryAfter = st.retryAfter /\ Errored(st).failing = TRUE
  BY DEF FeedState, Healthy, Errored

LEMMA PollTypeInit == PollInit => PollType
  <1> SUFFICES ASSUME PollInit PROVE PollType
    OBVIOUS
  <1>1. feed = <<{}>> /\ feed \in Seq(SUBSET Hashes) /\ feed # <<>> /\ Len(feed) = 1
    BY DEF PollInit
  <1> QED BY <1>1, FreshType DEF PollInit, PollType, Fresh, NoPoll

\* What a process leaves its poll at, when the publisher does nothing.
LEMMA BecomesType ==
    ASSUME PollType, NEW p \in Procs, UNCHANGED feed,
           NEW at \in {"none", "reset", "ready", "sent", "append", "save"},
           NEW st \in FeedState, st.etag <= Len(feed), NEW version \in Nat,
           at = "append" => version \in 1..Len(feed),
           Becomes(p, at, st, version),
           fstate' \in FeedState, fstate'.etag <= Len(feed), clock' \in Nat
    PROVE  PollType'
  BY DEF PollType, PollStates, Becomes

LEMMA PollTypeNext == PollType /\ PollNext => PollType'
  <1> SUFFICES ASSUME PollType, PollNext PROVE PollType'
    OBVIOUS
  <1>0. Len(feed) \in Nat /\ Len(feed) \in 1..Len(feed)
    BY EmptySeq, LenProperties DEF PollType
  <1>1. ASSUME NEW p \in Procs, PollStep(p) PROVE PollType'
    <2> DEFINE st == poll[p].st
    <2>0. /\ st \in FeedState /\ st.etag <= Len(feed) /\ poll[p].version \in Nat
          /\ poll[p].at = "append" => poll[p].version \in 1..Len(feed)
      BY DEF PollType, PollStates
    <2>a. Healthy(st) \in FeedState /\ Errored(st) \in FeedState
          /\ Healthy(st).etag = st.etag /\ Errored(st).etag = st.etag
      BY <2>0, HealthyErroredType
    <2>b. NoPoll \in PollStates /\ NoPoll.at = "none" /\ NoPoll.st.etag = 0
      BY FreshType DEF NoPoll, Fresh
    <2>1. CASE StoreStep(p) /\ UNCHANGED pollVars
      BY <2>1 DEF pollVars, PollType
    <2>2. CASE Die(p) \/ SaveState(p) \/ SaveFails(p)
      BY <1>0, <2>0, <2>2, <2>b DEF Die, SaveState, SaveFails, PollType
    <2>3. CASE ResetCooldown(p)
      <3>1. [fstate EXCEPT !.retryAfter = 0] \in FeedState
            /\ [fstate EXCEPT !.retryAfter = 0].etag = fstate.etag
        BY DEF PollType, FeedState
      <3>2. Fresh \in FeedState /\ Fresh.etag <= Len(feed)
        BY <1>0, FreshType DEF Fresh
      <3>3. fstate.etag <= Len(feed) /\ fstate' = fstate /\ clock' = clock /\ feed' = feed
        BY <2>3 DEF ResetCooldown, PollType
      <3>4. CASE fstate.retryAfter = 0
        BY <2>3, <3>2, <3>3, <3>4, BecomesType DEF ResetCooldown, PollType
      <3>5. CASE fstate.retryAfter # 0
        BY <2>3, <3>1, <3>3, <3>5, BecomesType DEF ResetCooldown, PollType
      <3> QED BY <3>4, <3>5
    <2>4. CASE SaveReset(p)
      <3>1. Fresh \in FeedState /\ Fresh.etag <= Len(feed)
        BY <1>0, FreshType DEF Fresh
      <3>2. fstate' \in FeedState /\ fstate'.etag <= Len(feed)
        BY <2>0, <2>4 DEF SaveReset, PollType
      <3> QED BY <2>4, <3>1, <3>2, BecomesType DEF SaveReset, PollType
    <2>5. CASE StartPoll(p)
      <3>1. clock' \in Nat
        BY <2>5 DEF StartPoll, PollType
      <3>2. [fstate EXCEPT !.lastFetched = clock'] \in FeedState
            /\ [fstate EXCEPT !.lastFetched = clock'].etag = fstate.etag
        BY <3>1 DEF PollType, FeedState
      <3>3. CASE poll' = [poll EXCEPT ![p] = NoPoll]
        BY <1>0, <2>5, <2>b, <3>1, <3>3 DEF StartPoll, PollType
      <3>4. CASE Becomes(p, "sent", [fstate EXCEPT !.lastFetched = clock'], 0)
        BY <2>5, <3>1, <3>2, <3>4, BecomesType DEF StartPoll, PollType
      <3> QED BY <2>5, <3>3, <3>4 DEF StartPoll
    <2>6. CASE NotModified(p) \/ PollFails(p)
      BY <2>0, <2>6, <2>a, BecomesType DEF NotModified, PollFails, PollType
    <2>7. CASE \E delay \in 1..MaxDelay : Throttled(p, delay)
      <3>1. PICK delay \in 1..MaxDelay : Throttled(p, delay)
        BY <2>7
      <3> DEFINE new == [Errored(st) EXCEPT !.retryAfter = st.lastFetched + delay]
      <3>2. new \in FeedState /\ new.etag = st.etag
        <4>1. delay \in Nat /\ st.lastFetched + delay \in Nat
          BY <2>0, FeedPollAssumption DEF FeedState
        <4> QED BY <2>a, <4>1 DEF FeedState
      <3>3. Becomes(p, "save", new, 0) /\ UNCHANGED <<feed, fstate, clock>>
        BY <3>1 DEF Throttled
      <3> HIDE DEF new
      <3> QED BY <2>0, <3>2, <3>3, BecomesType DEF PollType
    <2>8. CASE Downloaded(p)
      BY <1>0, <2>0, <2>8, BecomesType DEF Downloaded, Version, PollType
    <2>9. CASE \E entries \in Batches : AppendDownloaded(p, entries)
      BY <2>9 DEF AppendDownloaded, pollVars, PollType
    <2>10. CASE Appended(p)
      <3> DEFINE new == [Healthy(st) EXCEPT !.etag = poll[p].version]
      <3>1. new \in FeedState /\ new.etag = poll[p].version
        BY <2>0, <2>a DEF FeedState
      <3>2. poll[p].version <= Len(feed)
        BY <1>0, <2>0, <2>10 DEF Appended
      <3>3. /\ Becomes(p, "save", new, 0) \/ Becomes(p, "save", Errored(st), 0)
            /\ UNCHANGED <<feed, fstate, clock>>
        BY <2>10 DEF Appended
      <3> HIDE DEF new
      <3>4. CASE Becomes(p, "save", new, 0)
        BY <3>1, <3>2, <3>3, <3>4, BecomesType DEF PollType
      <3>5. CASE Becomes(p, "save", Errored(st), 0)
        BY <2>0, <2>a, <3>3, <3>5, BecomesType DEF PollType
      <3> QED BY <3>3, <3>4, <3>5
    <2> QED BY <1>1, <2>1, <2>2, <2>3, <2>4, <2>5, <2>6, <2>7, <2>8, <2>9, <2>10 DEF PollStep
  <1>2. ASSUME NEW items \in SUBSET Hashes, Publish(items) PROVE PollType'
    <2>1. /\ feed' \in Seq(SUBSET Hashes) /\ feed' # <<>> /\ Len(feed') = Len(feed) + 1
          /\ UNCHANGED <<fstate, poll, clock>>
      BY <1>2, AppendProperties DEF Publish, PollType
    <2>2. \A n \in Nat : n <= Len(feed) => n <= Len(feed')
      BY <1>0, <2>1
    <2>3. \A p \in Procs : poll[p].st.etag \in Nat /\ fstate.etag \in Nat
      BY DEF PollType, PollStates, FeedState
    <2> QED BY <1>0, <2>1, <2>2, <2>3 DEF PollType, FeedState
  <1>3. CASE Wait
    BY <1>3 DEF Wait, PollType
  <1> QED BY <1>1, <1>2, <1>3 DEF PollNext

\* The variables of a poll keep their types.
THEOREM PollTypeCorrect == PollSpec => []PollTypeOK
  <1>1. PollType /\ UNCHANGED allVars => PollType'
    BY DEF PollType, allVars, pollVars
  <1>2. PollType /\ [PollNext]_allVars => PollType'
    BY <1>1, PollTypeNext
  <1>3. StoreType /\ PollType => PollTypeOK
    BY DEF StoreType, PollType, PollTypeOK, PollStates
  <1> QED BY <1>2, <1>3, PollTypeInit, AloneInvariant, PTL DEF PollSpec


-----------------------------------------------------------------------------
(* The health of a feed.                                                   *)

\* A state as it is saved, and as it is between a request and its outcome.
Told(st, now) ==
    /\ st.lastSuccess <= st.lastFetched /\ st.lastFetched <= now
    /\ st.failing <=> st.lastSuccess < st.lastFetched
    /\ st.retryAfter # 0 => st.failing
Asked(st, now) == st.lastSuccess < st.lastFetched /\ st.lastFetched <= now

StageTold(at, st, now) == IF at \in {"sent", "append"} THEN Asked(st, now) ELSE Told(st, now)

HealthInv ==
    /\ Told(fstate, clock)
    /\ \A p \in Procs : StageTold(poll[p].at, poll[p].st, clock)

\* Time alone changes neither.
LEMMA ToldLater ==
    ASSUME NEW st \in FeedState, NEW now \in Nat, NEW later \in Nat, now <= later
    PROVE  /\ Told(st, now) => Told(st, later)
           /\ Asked(st, now) => Asked(st, later)
  BY DEF Told, Asked, FeedState

LEMMA FreshTold ==
    ASSUME NEW now \in Nat
    PROVE  Told(Fresh, now)
  BY DEF Told, Fresh

\* The outcomes: a health that was asked for is told again.
LEMMA OutcomeTold ==
    ASSUME NEW st \in FeedState, NEW now \in Nat, Asked(st, now)
    PROVE  /\ Told(Healthy(st), now)
           /\ \A version \in Nat : Told([Healthy(st) EXCEPT !.etag = version], now)
           /\ Told(Errored(st), now)
           /\ \A until \in Nat : Told([Errored(st) EXCEPT !.retryAfter = until], now)
  <1>1. Told(Healthy(st), now) /\ Told(Errored(st), now)
    <2> DEFINE h == Healthy(st)
               e == Errored(st)
    <2>1. /\ h.lastFetched = st.lastFetched /\ h.lastSuccess = st.lastFetched
          /\ h.retryAfter = 0 /\ h.failing = FALSE
          /\ e.lastFetched = st.lastFetched /\ e.lastSuccess = st.lastSuccess
          /\ e.failing = TRUE
      BY HealthyErroredType
    <2>2. /\ st.lastFetched \in Nat /\ st.lastSuccess \in Nat
          /\ st.lastSuccess < st.lastFetched /\ st.lastFetched <= now
      BY DEF Asked, FeedState
    <2> HIDE DEF h, e
    <2>3. Told(h, now)
      BY <2>1, <2>2 DEF Told
    <2>4. Told(e, now)
      BY <2>1, <2>2 DEF Told
    <2> QED BY <2>3, <2>4 DEF h, e
  <1>2. Healthy(st) \in FeedState /\ Errored(st) \in FeedState /\ Errored(st).failing
    BY HealthyErroredType
  <1> DEFINE good == Healthy(st)
             bad == Errored(st)
  <1> HIDE DEF good, bad
  <1>3. ASSUME NEW version \in Nat PROVE Told([good EXCEPT !.etag = version], now)
    BY <1>1, <1>2 DEF Told, FeedState, good
  <1>4. ASSUME NEW until \in Nat PROVE Told([bad EXCEPT !.retryAfter = until], now)
    BY <1>1, <1>2 DEF Told, FeedState, bad
  <1> QED BY <1>1, <1>3, <1>4 DEF good, bad

LEMMA BecomesHealth ==
    ASSUME PollType, HealthInv, NEW p \in Procs,
           NEW at \in {"none", "reset", "ready", "sent", "append", "save"},
           NEW st, NEW version,
           Becomes(p, at, st, version),
           clock' \in Nat, clock <= clock',
           StageTold(at, st, clock'), Told(fstate', clock')
    PROVE  HealthInv'
  <1> SUFFICES ASSUME NEW q \in Procs PROVE StageTold(poll'[q].at, poll'[q].st, clock')
    BY DEF HealthInv
  <1>1. CASE q = p
    <2>1. poll'[q] = [at |-> at, st |-> st, version |-> version]
      BY <1>1 DEF Becomes, PollType
    <2>2. poll'[q].at = at /\ poll'[q].st = st
      BY <2>1
    <2> QED BY <2>2
  <1>2. CASE q # p
    <2>1. poll'[q] = poll[q] /\ poll[q].st \in FeedState
      BY <1>2 DEF Becomes, PollType, PollStates
    <2>2. StageTold(poll[q].at, poll[q].st, clock) /\ clock \in Nat
      BY DEF HealthInv, PollType
    <2> QED BY <2>1, <2>2, ToldLater DEF StageTold
  <1> QED BY <1>1, <1>2

LEMMA HealthNext == PollType /\ HealthInv /\ PollNext => HealthInv'
  <1> SUFFICES ASSUME PollType, HealthInv, PollNext PROVE HealthInv'
    OBVIOUS
  <1>0. /\ clock \in Nat /\ clock <= clock /\ fstate \in FeedState /\ Told(fstate, clock)
        /\ Fresh \in FeedState
        /\ \A now \in Nat : Told(Fresh, now)
    BY FreshTold, FreshType DEF PollType, HealthInv
  <1>1. ASSUME NEW p \in Procs, PollStep(p) PROVE HealthInv'
    <2> DEFINE st == poll[p].st
    <2>0. st \in FeedState /\ poll[p].version \in Nat /\ StageTold(poll[p].at, st, clock)
      BY DEF PollType, PollStates, HealthInv
    <2>a. poll[p].at \in {"sent", "append"} => Asked(st, clock)
      BY <2>0 DEF StageTold
    <2>b. poll[p].at \in {"save", "reset"} => Told(st, clock)
      BY <2>0 DEF StageTold
    <2>c. [poll EXCEPT ![p] = NoPoll] = poll' => Becomes(p, "none", Fresh, 0)
      BY DEF NoPoll, Becomes
    <2>d. \A now : /\ StageTold("none", Fresh, now) <=> Told(Fresh, now)
                   /\ StageTold("ready", Fresh, now) <=> Told(Fresh, now)
      BY DEF StageTold
    <2>e. \A s, now : /\ StageTold("save", s, now) <=> Told(s, now)
                      /\ StageTold("reset", s, now) <=> Told(s, now)
                      /\ StageTold("sent", s, now) <=> Asked(s, now)
                      /\ StageTold("append", s, now) <=> Asked(s, now)
      BY DEF StageTold
    <2> HIDE DEF st
    <2>1. CASE (StoreStep(p) \/ \E entries \in Batches : AppendDownloaded(p, entries))
               /\ UNCHANGED pollVars
      BY <2>1 DEF pollVars, HealthInv
    <2>2. CASE Die(p) \/ SaveState(p) \/ SaveFails(p)
      <3>1. Becomes(p, "none", Fresh, 0) /\ clock' = clock
        BY <2>2, <2>c DEF Die, SaveState, SaveFails
      <3>2. Told(fstate', clock)
        BY <1>0, <2>2, <2>b DEF Die, SaveState, SaveFails, st
      <3> QED BY <1>0, <2>d, <3>1, <3>2, BecomesHealth
    <2>3. CASE ResetCooldown(p)
      <3>1. Told([fstate EXCEPT !.retryAfter = 0], clock)
        BY <1>0 DEF Told, FeedState
      <3>2. fstate' = fstate /\ clock' = clock
        BY <2>3 DEF ResetCooldown
      <3>3. CASE Becomes(p, "ready", Fresh, 0)
        BY <1>0, <2>d, <3>2, <3>3, BecomesHealth
      <3>4. CASE Becomes(p, "reset", [fstate EXCEPT !.retryAfter = 0], 0)
        BY <1>0, <2>e, <3>1, <3>2, <3>4, BecomesHealth
      <3> QED BY <2>3, <3>3, <3>4 DEF ResetCooldown
    <2>4. CASE SaveReset(p)
      <3>1. Becomes(p, "ready", Fresh, 0) /\ clock' = clock
        BY <2>4 DEF SaveReset
      <3>2. Told(fstate', clock)
        BY <1>0, <2>4, <2>b DEF SaveReset, st
      <3> QED BY <1>0, <2>d, <3>1, <3>2, BecomesHealth
    <2>5. CASE StartPoll(p)
      <3>1. clock' = clock + 1 /\ clock' \in Nat /\ clock <= clock' /\ fstate' = fstate
        BY <1>0, <2>5 DEF StartPoll
      <3>2. Asked([fstate EXCEPT !.lastFetched = clock'], clock')
        BY <1>0, <3>1 DEF Told, Asked, FeedState
      <3>3. Told(fstate', clock')
        BY <1>0, <3>1, ToldLater
      <3>4. CASE Becomes(p, "none", Fresh, 0)
        BY <1>0, <2>d, <3>1, <3>3, <3>4, BecomesHealth
      <3>5. CASE Becomes(p, "sent", [fstate EXCEPT !.lastFetched = clock'], 0)
        BY <2>e, <3>1, <3>2, <3>3, <3>5, BecomesHealth
      <3> QED BY <2>5, <2>c, <3>4, <3>5 DEF StartPoll
    <2>6. CASE NotModified(p) \/ PollFails(p)
      <3>1. Told(Healthy(st), clock) /\ Told(Errored(st), clock) /\ UNCHANGED <<fstate, clock>>
        BY <1>0, <2>0, <2>6, <2>a, OutcomeTold DEF NotModified, PollFails
      <3>2. CASE Becomes(p, "save", Healthy(st), 0)
        BY <1>0, <2>e, <3>1, <3>2, BecomesHealth
      <3>3. CASE Becomes(p, "save", Errored(st), 0)
        BY <1>0, <2>e, <3>1, <3>3, BecomesHealth
      <3> QED BY <2>6, <3>2, <3>3 DEF NotModified, PollFails, st
    <2>7. CASE \E delay \in 1..MaxDelay : Throttled(p, delay)
      <3>1. PICK delay \in 1..MaxDelay : Throttled(p, delay)
        BY <2>7
      <3>2. st.lastFetched + delay \in Nat
        BY <2>0, FeedPollAssumption DEF FeedState
      <3> DEFINE new == [Errored(st) EXCEPT !.retryAfter = st.lastFetched + delay]
      <3>3. Becomes(p, "save", new, 0) /\ UNCHANGED <<fstate, clock>>
        BY <3>1 DEF Throttled, st
      <3>4. Told(new, clock)
        BY <1>0, <2>0, <2>a, <3>1, <3>2, OutcomeTold DEF Throttled
      <3> HIDE DEF new
      <3> QED BY <1>0, <2>e, <3>3, <3>4, BecomesHealth
    <2>8. CASE Downloaded(p)
      BY <1>0, <2>8, <2>a, <2>e, BecomesHealth DEF Downloaded, st
    <2>9. CASE Appended(p)
      <3> DEFINE new == [Healthy(st) EXCEPT !.etag = poll[p].version]
      <3>1. Told(new, clock) /\ Told(Errored(st), clock) /\ UNCHANGED <<fstate, clock>>
        BY <1>0, <2>0, <2>9, <2>a, OutcomeTold DEF Appended
      <3>2. Becomes(p, "save", new, 0) \/ Becomes(p, "save", Errored(st), 0)
        BY <2>9 DEF Appended, st
      <3> HIDE DEF new
      <3>3. CASE Becomes(p, "save", new, 0)
        BY <1>0, <2>e, <3>1, <3>3, BecomesHealth
      <3>4. CASE Becomes(p, "save", Errored(st), 0)
        BY <1>0, <2>e, <3>1, <3>4, BecomesHealth
      <3> QED BY <3>2, <3>3, <3>4
    <2> QED BY <1>1, <2>1, <2>2, <2>3, <2>4, <2>5, <2>6, <2>7, <2>8, <2>9
            DEF PollStep, AppendDownloaded
  <1>2. CASE \E items \in SUBSET Hashes : Publish(items)
    BY <1>2 DEF Publish, HealthInv
  <1>3. CASE Wait
    <2>1. clock' \in Nat /\ clock <= clock' /\ UNCHANGED <<fstate, poll>>
      BY <1>0, <1>3 DEF Wait
    <2>2. Told(fstate', clock')
      BY <1>0, <2>1, ToldLater
    <2>3. ASSUME NEW p \in Procs PROVE StageTold(poll'[p].at, poll'[p].st, clock')
      <3>1. poll[p].st \in FeedState /\ StageTold(poll[p].at, poll[p].st, clock)
        BY DEF PollType, PollStates, HealthInv
      <3> QED BY <1>0, <2>1, <3>1, ToldLater DEF StageTold
    <2> QED BY <2>2, <2>3 DEF HealthInv
  <1> QED BY <1>1, <1>2, <1>3 DEF PollNext

\* What the feeds page says of a feed is what its last poll came to: the two times
\* diverge just while it is failing, and a cooldown outlives no success, whatever
\* other processes poll the same feed and whichever of them saves last.
THEOREM HealthIsTold == PollSpec => []HealthTold
  <1>1. PollInit => HealthInv
    <2> SUFFICES ASSUME PollInit PROVE HealthInv
      OBVIOUS
    <2>1. fstate = Fresh /\ clock = 1 /\ \A p \in Procs : poll[p] = NoPoll
      BY DEF PollInit
    <2>2. Told(Fresh, 1)
      BY FreshTold
    <2> QED BY <2>1, <2>2 DEF HealthInv, StageTold, NoPoll
  <1>2. PollType /\ [PollNext]_allVars => PollType'
    BY PollTypeNext DEF PollType, allVars, pollVars
  <1>3. PollType /\ HealthInv /\ [PollNext]_allVars => HealthInv'
    BY HealthNext DEF HealthInv, allVars, pollVars
  <1>4. HealthInv => HealthTold
    BY DEF HealthInv, HealthTold, Told
  <1> QED BY <1>1, <1>2, <1>3, <1>4, PollTypeInit, PTL DEF PollSpec


-----------------------------------------------------------------------------
(* What a poll carries to the index.                                       *)

\* A poll waits while its process is in AppendEntries, which has the entries of the
\* version downloaded: indexed, written or still to be looked at.
CarriedOf(p) ==
    /\ poll[p].at # "none" =>
           \/ pc[p] = "idle"
           \/ /\ poll[p].at = "append" /\ feed[poll[p].version] # {}
              /\ pc[p] \in {"open", "write", "returned"}
    /\ poll[p].at = "append" /\ pc[p] \in {"open", "write"} =>
           feed[poll[p].version] \subseteq Range(idx[p]) \cup Range(added[p]) \cup Range(batch[p])
    /\ poll[p].at = "append" /\ pc[p] = "returned" /\ ~failed[p] =>
           feed[poll[p].version] \subseteq Range(idx[p])

CarriedInv == \A p \in Procs : CarriedOf(p)

LEMMA CarriedInit == PollInit => CarriedInv
  BY DEF PollInit, NoPoll, CarriedInv, CarriedOf

\* A process leaves alone what is another's.
LEMMA Untouched ==
    ASSUME StoreType, PollType, NEW p \in Procs, PollStep(p), NEW q \in Procs, q # p
    PROVE  UNCHANGED <<pc[q], idx[q], added[q], batch[q], failed[q], poll[q]>>
  <1> USE DEF StoreType, EntryTypeOK, append, storeVars, PollType, pollVars
  <1>1. CASE StoreStep(p) /\ UNCHANGED pollVars
    BY <1>1 DEF StoreStep, ScanFile, RewriteFile, BuildIndex, OpenCurrent, OpenFails, SkipKnown,
                WriteEntry, WriteFails, WriteTorn, Commit
  <1>2. CASE Die(p)
    BY <1>2 DEF Die, Exit, Forget
  <1>3. CASE ResetCooldown(p) \/ SaveReset(p) \/ StartPoll(p) \/ NotModified(p) \/ PollFails(p)
    BY <1>3 DEF ResetCooldown, SaveReset, StartPoll, NotModified, PollFails, Becomes
  <1>4. CASE \/ \E delay \in 1..MaxDelay : Throttled(p, delay)
             \/ Downloaded(p) \/ SaveState(p) \/ SaveFails(p)
    BY <1>4 DEF Throttled, Downloaded, SaveState, SaveFails, Becomes
  <1>5. CASE \E entries \in Batches : AppendDownloaded(p, entries)
    BY <1>5 DEF AppendDownloaded, Snapshot
  <1>6. CASE Appended(p)
    BY <1>6 DEF Appended, Return, Forget, Becomes
  <1> QED BY <1>1, <1>2, <1>3, <1>4, <1>5, <1>6 DEF PollStep

\* A step of the store keeps what the poll it is part of carries.
LEMMA CarriedStore ==
    ASSUME StoreType, IndexInv, NEW p \in Procs, CarriedOf(p),
           StoreStep(p), UNCHANGED <<feed, poll>>
    PROVE  CarriedOf(p)'
  <1> USE DEF StoreType, EntryTypeOK, disk, append
  <1>0. IndexOf(p)
    BY DEF IndexInv
  <1>1. CASE ScanFile(p) \/ RewriteFile(p) \/ BuildIndex(p)
    <2>1. pc[p] \in {"down", "rewrite", "index"} /\ poll'[p].at = "none"
      BY <1>1 DEF ScanFile, RewriteFile, BuildIndex, CarriedOf
    <2>2. pc'[p] \in {"index", "rewrite", "idle"}
      BY <1>1 DEF ScanFile, RewriteFile, BuildIndex
    <2> QED BY <2>1, <2>2 DEF CarriedOf
  <1>2. CASE OpenCurrent(p) \/ OpenFails(p)
    <2>1. CASE OpenCurrent(p)
      BY <2>1 DEF OpenCurrent, CarriedOf
    <2>2. CASE OpenFails(p)
      BY <2>2 DEF OpenFails, CarriedOf
    <2> QED BY <1>2, <2>1, <2>2
  <1>3. CASE WriteFails(p) \/ \E part \in Lines : WriteTorn(p, part)
    <2>1. pc[p] = "write" /\ UNCHANGED <<pc, idx, added, batch>>
      BY <1>3 DEF WriteFails, WriteTorn, InLoop
    <2> QED BY <2>1 DEF CarriedOf
  <1>4. CASE SkipKnown(p) \/ WriteEntry(p)
    <2>1. pc[p] = "write" /\ batch[p] # <<>> /\ batch[p] \in Seq(Hashes)
      BY <1>4 DEF SkipKnown, WriteEntry, InLoop
    <2>2. /\ Next1(p) \in Hashes
          /\ Range(batch[p]) = {Next1(p)} \cup Range(Tail(batch[p]))
      BY <2>1, HeadTailRange DEF Next1
    <2>3. /\ batch' = [batch EXCEPT ![p] = Tail(batch[p])]
          /\ UNCHANGED <<idx, pc>>
      BY <1>4 DEF SkipKnown, WriteEntry
    <2>4. Next1(p) \in Range(idx'[p]) \cup Range(added'[p]) /\ Range(added[p]) \subseteq Range(added'[p])
      <3>1. CASE SkipKnown(p)
        BY <1>0, <2>1, <2>3, <3>1 DEF SkipKnown, IndexOf
      <3>2. CASE WriteEntry(p)
        BY <2>2, <2>3, <3>2, AppendRange DEF WriteEntry
      <3> QED BY <1>4, <3>1, <3>2
    <2> QED BY <2>1, <2>2, <2>3, <2>4 DEF CarriedOf
  <1>5. CASE Commit(p)
    <2>1. Range(idx'[p]) = Range(idx[p]) \cup Range(added[p])
      BY <1>5, ConcatRange DEF Commit
    <2>2. pc[p] = "write" /\ pc'[p] = "returned" /\ UNCHANGED <<failed, batch>>
      BY <1>5 DEF Commit
    <2>3. ~failed[p] => Range(batch[p]) = {}
      BY <1>5, <2>2, EmptyRange DEF Commit, InLoop
    <2> QED BY <2>1, <2>2, <2>3 DEF CarriedOf
  <1> QED BY <1>1, <1>2, <1>3, <1>4, <1>5 DEF StoreStep

LEMMA CarriedNext ==
    StoreType /\ IndexInv /\ PollType /\ CarriedInv /\ PollNext => CarriedInv'
  <1> SUFFICES ASSUME StoreType, IndexInv, PollType, CarriedInv, PollNext PROVE CarriedInv'
    OBVIOUS
  <1>1. ASSUME NEW p \in Procs, PollStep(p) PROVE CarriedInv'
    <2>0. CarriedOf(p) /\ poll \in [Procs -> PollStates]
      BY DEF CarriedInv, PollType
    <2>1. UNCHANGED feed
      BY <1>1 DEF PollStep, pollVars, Die, ResetCooldown, SaveReset, StartPoll, NotModified,
                  Throttled, PollFails, Downloaded, AppendDownloaded, Appended, SaveState, SaveFails
    <2>2. ASSUME NEW q \in Procs, q # p PROVE CarriedOf(q)'
      <3>1. UNCHANGED <<pc[q], idx[q], added[q], batch[q], failed[q], poll[q]>>
        BY <1>1, <2>2, Untouched
      <3> QED BY <2>1, <3>1 DEF CarriedInv, CarriedOf
    <2>3. SUFFICES CarriedOf(p)'
      BY <2>2 DEF CarriedInv
    <2>4. CASE StoreStep(p) /\ UNCHANGED pollVars
      BY <2>0, <2>4, CarriedStore DEF pollVars
    <2>5. CASE Die(p) \/ SaveState(p) \/ SaveFails(p)
      BY <2>0, <2>5 DEF Die, SaveState, SaveFails, NoPoll, CarriedOf
    <2>6. CASE ResetCooldown(p) \/ StartPoll(p)
      BY <2>0, <2>6 DEF ResetCooldown, StartPoll, Becomes, NoPoll, CarriedOf, storeVars
    <2>7. CASE SaveReset(p) \/ NotModified(p) \/ PollFails(p) \/ Downloaded(p)
               \/ \E delay \in 1..MaxDelay : Throttled(p, delay)
      BY <2>0, <2>7 DEF SaveReset, NotModified, PollFails, Downloaded, Throttled, Becomes,
                        CarriedOf, storeVars
    <2>8. CASE \E entries \in Batches : AppendDownloaded(p, entries)
      <3>1. PICK entries \in Batches : AppendDownloaded(p, entries)
        BY <2>8
      <3>2. Range(entries) # {}
        <4>1. PICK n \in 1..MaxBatch : entries \in [1..n -> Hashes]
          BY DEF Batches
        <4>2. 1 \in DOMAIN entries
          BY <4>1, EntryStoreAssumption
        <4> QED BY <4>2 DEF Range
      <3>3. /\ Range(entries) = feed[poll[p].version] /\ poll[p].at = "append"
            /\ pc'[p] = "open" /\ batch'[p] = entries /\ UNCHANGED <<poll, feed>>
        BY <3>1 DEF AppendDownloaded, Snapshot, pollVars, StoreType, EntryTypeOK
      <3> QED BY <3>2, <3>3 DEF CarriedOf
    <2>9. CASE Appended(p)
      <3>1. poll'[p].at = "save"
        BY <2>0, <2>9 DEF Appended, Becomes
      <3>2. pc'[p] = "idle"
        BY <2>0, <2>9 DEF Appended, Return, storeVars, CarriedOf, StoreType, EntryTypeOK
      <3> QED BY <3>1, <3>2 DEF CarriedOf
    <2> QED BY <1>1, <2>4, <2>5, <2>6, <2>7, <2>8, <2>9 DEF PollStep
  <1>2. ASSUME NEW items \in SUBSET Hashes, Publish(items) PROVE CarriedInv'
    <2>1. /\ \A n \in 1..Len(feed) : feed'[n] = feed[n]
          /\ UNCHANGED <<storeVars, poll>>
      BY <1>2, AppendProperties DEF Publish, PollType
    <2>2. \A p \in Procs : poll[p].at = "append" => feed'[poll[p].version] = feed[poll[p].version]
      BY <2>1 DEF PollType
    <2> QED BY <2>1, <2>2 DEF CarriedInv, CarriedOf, storeVars, append
  <1>3. CASE Wait
    BY <1>3 DEF Wait, CarriedInv, CarriedOf, storeVars, append
  <1> QED BY <1>1, <1>2, <1>3 DEF PollNext


-----------------------------------------------------------------------------
(* What the validator licenses the publisher to leave out is served.       *)

Served(etag, hashes) == etag # 0 => feed[etag] \subseteq hashes

\* What the state file vouches for is in the entry file, if that parses, and in the
\* index of the one process that runs; so is what its poll read from the state file
\* or is about to save.
ServedOf(p) ==
    /\ Running(p) => Served(fstate.etag, Range(idx[p]))
    /\ poll[p].at # "none" => Served(poll[p].st.etag, Range(idx[p]))

ServedInv ==
    ~shared => /\ Bad \in Range(current) \/ Served(fstate.etag, Range(current))
               /\ \A p \in Procs : ServedOf(p)

LEMMA ServedInit == PollInit => ServedInv
  BY DEF PollInit, EntryInit, NoPoll, Fresh, Served, ServedOf, Running, ServedInv

\* A process that carries out a poll is running.
LEMMA PollRuns ==
    ASSUME CarriedInv, NEW p \in Procs, poll[p].at # "none"
    PROVE  Running(p)
  BY DEF CarriedInv, CarriedOf, Running

\* A step of the store loses nothing from the file that parses, nor from an index.
LEMMA StoreKeeps ==
    ASSUME StoreType, AloneInv, ~shared, NEW p \in Procs, StoreStep(p)
    PROVE  /\ Bad \in Range(current') \/ Range(current) \subseteq Range(current')
           /\ Running(p) => Range(idx[p]) \subseteq Range(idx'[p])
           /\ ~Running(p) /\ Running(p)' => Bad \notin Range(current)
                                            /\ Range(idx'[p]) = Range(current)
           /\ \A q \in Procs \ {p} : UNCHANGED <<pc[q], idx[q]>>
  <1> USE DEF StoreType, EntryTypeOK, disk, append
  <1>0. AloneOf(p)
    BY DEF AloneInv
  <1>1. CASE ScanFile(p) \/ OpenCurrent(p) \/ OpenFails(p) \/ SkipKnown(p) \/ WriteFails(p)
    <2>1. UNCHANGED <<current, idx>> /\ (Running(p)' => Running(p))
          /\ \A q \in Procs \ {p} : UNCHANGED pc[q]
      BY <1>1 DEF ScanFile, OpenCurrent, OpenFails, SkipKnown, WriteFails, InLoop, Running
    <2> QED BY <2>1
  <1>2. CASE RewriteFile(p)
    BY <1>0, <1>2 DEF RewriteFile, AloneOf, Running
  <1>3. CASE BuildIndex(p)
    <2>1. PICK kept : Deduped(current, kept) /\ idx' = [idx EXCEPT ![p] = kept]
      BY <1>3 DEF BuildIndex
    <2> QED BY <1>3, <2>1 DEF BuildIndex, Deduped, Parses, Running
  <1>4. CASE WriteEntry(p) \/ \E part \in Lines : WriteTorn(p, part)
    <2>1. /\ batch[p] # <<>> /\ pc[p] = "write" /\ UNCHANGED <<idx, pc>>
          /\ UNCHANGED current \/ \E line \in Lines \cup {Next1(p)} : current' = Written(current, torn, line)
      BY <1>4 DEF WriteEntry, WriteTorn, InLoop
    <2>2. Next1(p) \in Lines
      BY <2>1, HeadTailRange DEF Next1, Lines
    <2>3. Bad \in Range(current') \/ Range(current) \subseteq Range(current')
      <3>1. ASSUME NEW line \in Lines, current' = Written(current, torn, line)
            PROVE  Bad \in Range(current') \/ Range(current) \subseteq Range(current')
        <4>1. LET w == Written(current, torn, line) IN
              /\ ~torn => Range(w) = Range(current) \cup {line}
              /\ torn => Bad \in Range(w)
          BY WrittenProperties
        <4> QED BY <3>1, <4>1
      <3> QED BY <2>1, <2>2, <3>1
    <2> QED BY <2>1, <2>3 DEF Running
  <1>5. CASE Commit(p)
    <2>1. Range(idx'[p]) = Range(idx[p]) \cup Range(added[p])
      BY <1>5, ConcatRange DEF Commit
    <2> QED BY <1>5, <2>1 DEF Commit, Running
  <1> QED BY <1>1, <1>2, <1>3, <1>4, <1>5 DEF StoreStep

\* A step of a poll that leaves the file and the indexes alone: it saves what it
\* holds, or what was saved stays; and what it holds then is served too.
LEMMA ServedKept ==
    ASSUME StoreType, PollType, AloneInv, CarriedInv, ServedInv, ~shared,
           NEW p \in Procs, UNCHANGED <<feed, current, idx, shared>>,
           \A q \in Procs : Running(q)' => Running(q),
           fstate' = fstate \/ (poll[p].at # "none" /\ fstate' = poll[p].st),
           \A q \in Procs \ {p} : poll'[q] = poll[q],
           poll'[p].at = "none" \/ Served(poll'[p].st.etag, Range(idx[p]))
    PROVE  ServedInv'
  <1>1. CASE fstate' = fstate
    BY <1>1 DEF ServedInv, ServedOf, Served
  <1>2. CASE poll[p].at # "none" /\ fstate' = poll[p].st
    <2>1. Running(p) /\ \A q \in Procs : Running(q) => q = p
      BY <1>2, PollRuns DEF AloneInv, OneAtATime, Running
    <2>2. Served(fstate'.etag, Range(idx[p]))
      BY <1>2 DEF ServedInv, ServedOf
    <2>3. Bad \in Range(current) \/ Range(idx[p]) \subseteq Range(current)
      BY DEF AloneInv, AloneOf
    <2>4. Bad \in Range(current) \/ Served(fstate'.etag, Range(current))
      BY <2>2, <2>3 DEF Served
    <2>5. ASSUME NEW q \in Procs PROVE ServedOf(q)'
      BY <2>1, <2>2 DEF ServedInv, ServedOf, Served
    <2> QED BY <2>4, <2>5 DEF ServedInv, Served
  <1> QED BY <1>1, <1>2

LEMMA ServedNext ==
    StoreType /\ PollType /\ AloneInv /\ CarriedInv /\ ServedInv /\ PollNext => ServedInv'
  <1> SUFFICES ASSUME StoreType, PollType, AloneInv, CarriedInv, ServedInv, PollNext, ~shared
               PROVE  ServedInv'
    BY DEF ServedInv, PollNext
  <1>0. UNCHANGED shared
    BY DEF PollNext
  <1>1. ASSUME NEW p \in Procs, PollStep(p) PROVE ServedInv'
    <2>0. /\ poll \in [Procs -> PollStates] /\ CarriedOf(p) /\ ServedOf(p)
          /\ pc \in [Procs -> {"down", "rewrite", "index", "idle", "open", "write", "returned"}]
      BY DEF PollType, CarriedInv, ServedInv, StoreType, EntryTypeOK
    <2>a. poll[p].at # "none" => Served(poll[p].st.etag, Range(idx[p])) /\ Running(p)
      BY <2>0, PollRuns DEF ServedOf
    <2>b. Served(0, Range(idx[p]))
      BY DEF Served
    <2>1. CASE StoreStep(p) /\ UNCHANGED pollVars
      <3>1. /\ Bad \in Range(current') \/ Range(current) \subseteq Range(current')
            /\ Running(p) => Range(idx[p]) \subseteq Range(idx'[p])
            /\ ~Running(p) /\ Running(p)' => Bad \notin Range(current)
                                            /\ Range(idx'[p]) = Range(current)
            /\ \A q \in Procs \ {p} : UNCHANGED <<pc[q], idx[q]>>
        BY <2>1, StoreKeeps
      <3>2. (Bad \in Range(current) \/ Served(fstate.etag, Range(current)))'
        BY <2>1, <3>1 DEF pollVars, ServedInv, Served
      <3>3. ServedOf(p)'
        BY <2>1, <2>a, <3>1 DEF pollVars, ServedInv, ServedOf, Served
      <3>4. ASSUME NEW q \in Procs, q # p PROVE ServedOf(q)'
        BY <2>1, <3>1, <3>4 DEF pollVars, ServedInv, ServedOf, Served, Running
      <3> QED BY <2>1, <3>2, <3>3, <3>4 DEF pollVars, ServedInv, Served
    <2>2. CASE Die(p)
      <3>1. /\ pc'[p] = "down" /\ poll'[p].at = "none"
            /\ UNCHANGED <<current, feed, fstate>>
            /\ \A q \in Procs \ {p} : UNCHANGED <<pc[q], idx[q], poll[q]>>
        BY <2>0, <2>2 DEF Die, Exit, NoPoll, disk, StoreType, EntryTypeOK
      <3>2. ServedOf(p)'
        BY <3>1 DEF ServedOf, Running
      <3>3. ASSUME NEW q \in Procs, q # p PROVE ServedOf(q)'
        BY <3>1, <3>3 DEF ServedInv, ServedOf, Served, Running
      <3> QED BY <3>1, <3>2, <3>3 DEF ServedInv, Served
    <2>3. CASE ResetCooldown(p) \/ StartPoll(p)
      <3>1. /\ UNCHANGED <<feed, current, idx, pc, fstate>> /\ Running(p)
            /\ \A q \in Procs \ {p} : poll'[q] = poll[q]
            /\ poll'[p].at = "none" \/ poll'[p].st.etag \in {0, fstate.etag}
        <4>1. CASE ResetCooldown(p)
          BY <2>0, <4>1 DEF ResetCooldown, Becomes, Fresh, storeVars, disk, Running, PollType, FeedState
        <4>2. CASE StartPoll(p)
          BY <2>0, <4>2 DEF StartPoll, Becomes, NoPoll, storeVars, disk, Running, PollType, FeedState
        <4> QED BY <2>3, <4>1, <4>2
      <3>2. poll'[p].at = "none" \/ Served(poll'[p].st.etag, Range(idx[p]))
        BY <2>0, <2>b, <3>1 DEF ServedOf
      <3> QED BY <1>0, <3>1, <3>2, ServedKept DEF Running
    <2>4. CASE SaveReset(p) \/ SaveState(p) \/ SaveFails(p)
      <3>1. /\ UNCHANGED <<feed, current, idx, pc>> /\ poll[p].at # "none"
            /\ \A q \in Procs \ {p} : poll'[q] = poll[q]
            /\ fstate' = fstate \/ fstate' = poll[p].st
            /\ poll'[p].at = "none" \/ poll'[p].st.etag = 0
        BY <2>0, <2>4 DEF SaveReset, SaveState, SaveFails, Becomes, Fresh, NoPoll, storeVars, disk
      <3> QED BY <1>0, <2>b, <3>1, ServedKept DEF Running
    <2>5. CASE \/ NotModified(p) \/ PollFails(p) \/ Downloaded(p)
               \/ \E delay \in 1..MaxDelay : Throttled(p, delay)
      <3>1. poll[p].st \in FeedState
        BY <2>0 DEF PollStates
      <3>2. /\ UNCHANGED <<feed, current, idx, pc, fstate>> /\ poll[p].at # "none"
            /\ \A q \in Procs \ {p} : poll'[q] = poll[q]
            /\ poll'[p].st.etag = poll[p].st.etag
        <4> DEFINE st == poll[p].st
        <4>1. /\ Healthy(st).etag = st.etag /\ Errored(st).etag = st.etag
              /\ Errored(st) \in FeedState
          BY <3>1, HealthyErroredType
        <4>2. \A delay : [Errored(st) EXCEPT !.retryAfter = st.lastFetched + delay].etag = st.etag
          <5> DEFINE e == Errored(st)
          <5> HIDE DEF e
          <5>1. \A until : [e EXCEPT !.retryAfter = until].etag = e.etag
            BY <4>1 DEF e, FeedState
          <5> QED BY <4>1, <5>1 DEF e
        <4>3. /\ UNCHANGED <<feed, current, idx, pc, fstate>> /\ poll[p].at # "none"
              /\ \A q \in Procs \ {p} : poll'[q] = poll[q]
          BY <2>0, <2>5 DEF NotModified, PollFails, Downloaded, Throttled, Becomes, storeVars, disk
        <4>4. \/ poll'[p].st \in {st, Healthy(st), Errored(st)}
              \/ \E delay : poll'[p].st = [Errored(st) EXCEPT !.retryAfter = st.lastFetched + delay]
          BY <2>0, <2>5 DEF NotModified, PollFails, Downloaded, Throttled, Becomes
        <4> HIDE DEF st
        <4>5. poll'[p].st.etag = st.etag
          BY <4>1, <4>2, <4>4
        <4> QED BY <4>3, <4>5 DEF st
      <3> QED BY <1>0, <2>a, <3>2, ServedKept DEF Running
    <2>6. CASE \E entries \in Batches : AppendDownloaded(p, entries)
      <3>1. /\ UNCHANGED <<feed, current, idx, fstate, poll>> /\ poll[p].at # "none"
            /\ \A q \in Procs : Running(q)' => Running(q)
        BY <2>0, <2>6 DEF AppendDownloaded, Snapshot, pollVars, disk, Running
      <3> QED BY <1>0, <2>a, <3>1, ServedKept
    <2>7. CASE Appended(p)
      <3>1. /\ UNCHANGED <<feed, current, idx, fstate>> /\ poll[p].at = "append"
            /\ \A q \in Procs : Running(q)' => Running(q)
            /\ \A q \in Procs \ {p} : poll'[q] = poll[q]
        BY <2>0, <2>7 DEF Appended, Return, Becomes, storeVars, disk, Running
      <3>2. poll[p].st \in FeedState
        BY <2>0 DEF PollStates
      <3>3. CASE failed[p]
        <4>1. poll'[p].st = Errored(poll[p].st)
          BY <2>0, <2>7, <3>3 DEF Appended, Becomes
        <4>2. poll'[p].st.etag = poll[p].st.etag
          BY <3>2, <4>1, HealthyErroredType
        <4> QED BY <1>0, <2>a, <3>1, <4>2, ServedKept
      <3>4. CASE ~failed[p]
        <4>1. poll'[p].st.etag = poll[p].version
          <5> DEFINE h == Healthy(poll[p].st)
          <5>1. h \in FeedState /\ poll[p].version \in Nat
            BY <2>0, <3>2, HealthyErroredType DEF PollStates
          <5>2. poll'[p].st = [h EXCEPT !.etag = poll[p].version]
            BY <2>0, <2>7, <3>4 DEF Appended, Becomes
          <5> HIDE DEF h
          <5> QED BY <5>1, <5>2 DEF FeedState
        <4>2. feed[poll[p].version] \subseteq Range(idx[p])
          BY <2>0, <2>7, <3>4 DEF Appended, Return, CarriedOf
        <4> QED BY <1>0, <3>1, <4>1, <4>2, ServedKept DEF Served
      <3> QED BY <3>3, <3>4
    <2> QED BY <1>1, <2>1, <2>2, <2>3, <2>4, <2>5, <2>6, <2>7 DEF PollStep
  <1>2. ASSUME NEW items \in SUBSET Hashes, Publish(items) PROVE ServedInv'
    <2>1. /\ \A n \in 1..Len(feed) : feed'[n] = feed[n]
          /\ UNCHANGED <<storeVars, poll, fstate>>
      BY <1>2, AppendProperties DEF Publish, PollType
    <2>2. /\ fstate.etag # 0 => feed'[fstate.etag] = feed[fstate.etag]
          /\ \A p \in Procs : poll[p].st.etag # 0 => feed'[poll[p].st.etag] = feed[poll[p].st.etag]
      BY <2>1 DEF PollType, PollStates, FeedState
    <2> QED BY <2>1, <2>2 DEF ServedInv, ServedOf, Served, Running, storeVars, disk
  <1>3. CASE Wait
    BY <1>3 DEF Wait, ServedInv, ServedOf, Served, Running, storeVars, disk
  <1> QED BY <1>1, <1>2, <1>3 DEF PollNext

\* As long as no two processes run at a time, the publisher is asked for "what has
\* changed since" only of a version whose every item is served: no failed write, no
\* crash between the append and the save and no restart skips an entry for good.
THEOREM NothingSkipped == PollSpec => []ValidatorImpliesServedAlone
  <1>1. PollType /\ [PollNext]_allVars => PollType'
    BY PollTypeNext DEF PollType, allVars, pollVars
  <1>2. StoreType /\ IndexInv /\ PollType /\ CarriedInv /\ [PollNext]_allVars => CarriedInv'
    BY CarriedNext DEF CarriedInv, CarriedOf, allVars, storeVars, append, pollVars
  <1>3. StoreType /\ PollType /\ AloneInv /\ CarriedInv /\ ServedInv /\ [PollNext]_allVars
            => ServedInv'
    <2>1. ServedInv /\ UNCHANGED allVars => ServedInv'
      <3> SUFFICES ASSUME ServedInv, UNCHANGED <<shared, current, idx, pc, feed, fstate, poll>>
                   PROVE  ServedInv'
        BY DEF allVars, storeVars, disk, pollVars
      <3>1. \A p \in Procs : ServedOf(p) => ServedOf(p)'
        BY DEF ServedOf, Served, Running
      <3> QED BY <3>1 DEF ServedInv, Served
    <2> QED BY <2>1, ServedNext
  <1>4. ServedInv => ValidatorImpliesServedAlone
    BY DEF ServedInv, ServedOf, Served, ValidatorImpliesServedAlone, ValidatorImpliesServed
  <1> QED BY <1>1, <1>2, <1>3, <1>4, PollTypeInit, CarriedInit, ServedInit, AloneInvariant, PTL
          DEF PollSpec


=============================================================================
