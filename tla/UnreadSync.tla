----------------------------- MODULE UnreadSync -----------------------------
(***************************************************************************)
(* The unread counts a Reader client polls: StateLog with the entries      *)
(* AppendEntries adds, handleUnreadCount of internal/reader, and a client  *)
(* that repeats its request with the ETag of the last full answer.         *)
(*                                                                         *)
(* The handler is not atomic: it reads the version and then, feed by feed, *)
(* copies the index and reads the flags one entry at a time; setFlag or    *)
(* AppendEntries may take Store.mu between any two of these.  Polls of     *)
(* different feeds run at once, each with the time it began at, and commit *)
(* in any order.  The subscription list, the other half of the ETag, does  *)
(* not change.  Nothing ends a write half way here (StateLog has those     *)
(* faults).                                                                *)
(***************************************************************************)
EXTENDS StateLog

CONSTANTS
    Feeds,          \* the subscriptions: each the entries it may ever publish
    NoBody,         \* nothing cached, nothing being answered
    SlowRestart     \* a restart takes longer than the second that is under way

Answering ==
    [ver : Nat, copied : SUBSET Feeds, todo : SUBSET Hashes, unread : SUBSET Hashes]
Answered == [ver : Nat, unread : SUBSET Hashes]

\* No entry is published by two feeds.
ASSUME FeedsAssumption ==
    /\ UNION Feeds = Hashes
    /\ \A f, g \in Feeds : f # g => f \cap g = {}

ASSUME SyncAssumption ==
    /\ NoBody \notin Answering /\ NoBody \notin Answered
    /\ SlowRestart \in BOOLEAN

VARIABLES
    fetched,    \* disk and Store.idx: FetchedAt of each stored entry, 0 if none
    pollStart,  \* now of the Poll of each feed being carried out, 0 if none
    answer,     \* the request being answered: its ETag, the feeds it has come to,
                \* the entries still to count, those found unread
    cached      \* the client's last full answer: its ETag and what it counted

syncVars == <<fetched, pollStart, answer, cached>>
allVars == <<vars, syncVars>>

Stored == {h \in Hashes : fetched[h] # 0}
Unread == {h \in Stored : ~flag["read"][h]}
NewestFetched == Max({0} \cup {fetched[h] : h \in Hashes})

\* The version Open rebuilds.
DiskVersion == Max({FoldedVersion, NewestFetched})

SyncInit ==
    /\ Init
    /\ fetched = [h \in Hashes |-> 0]
    /\ pollStart = [f \in Feeds |-> 0]
    /\ answer = NoBody
    /\ cached = NoBody

-----------------------------------------------------------------------------

SyncOpen ==
    /\ SlowRestart => DiskVersion < Second(clock)
    /\ OpenWith(NewestFetched)
    /\ UNCHANGED syncVars

\* Time passes while no process runs.
Downtime ==
    /\ ~up
    /\ clock < MaxClock
    /\ clock' = Later(clock)
    /\ UNCHANGED <<disk, up, memory, step, req, syncVars>>

\* The polls and the answer die with the process; the client keeps its cache.
SyncCrash ==
    /\ Crash
    /\ pollStart' = [f \in Feeds |-> 0]
    /\ answer' = NoBody
    /\ UNCHANGED <<fetched, cached>>

\* Poll reads the clock, then spends its time on the network.  A feed is polled
\* by one worker at a time (OnePollPerFeed of Refresher), other feeds by others.
PollStart(f) ==
    /\ up
    /\ pollStart[f] = 0
    /\ clock < MaxClock
    /\ clock' = Later(clock)
    /\ pollStart' = [pollStart EXCEPT ![f] = clock']
    /\ UNCHANGED <<disk, up, memory, step, req, fetched, answer, cached>>

\* AppendEntries commits new entries, all with the poll's time, under Store.mu.
AppendEntries(f, new) ==
    /\ up /\ step = "idle"
    /\ pollStart[f] # 0
    /\ clock < MaxClock
    /\ new \cap Stored = {}
    /\ clock' = Later(clock)
    /\ fetched' = [h \in Hashes |-> IF h \in new THEN pollStart[f] ELSE fetched[h]]
    /\ contentVer' = IF new # {} /\ clock' > contentVer THEN clock' ELSE contentVer
    /\ pollStart' = [pollStart EXCEPT ![f] = 0]
    /\ UNCHANGED <<disk, up, flag, updatedAt, lines, live, step, req, answer, cached>>

\* The ETag is read, and matched against the client's, before anything is
\* counted.  On a match the answer is 304 and the client keeps what it has.
ReadVersion ==
    /\ up /\ step = "idle"
    /\ answer = NoBody
    /\ cached # NoBody => cached.ver # contentVer
    /\ answer' = [ver |-> contentVer, copied |-> {}, todo |-> {}, unread |-> {}]
    /\ UNCHANGED <<vars, fetched, pollStart, cached>>

\* IndexedEntries copies the entries of the next feed.
CopyIndex(f) ==
    /\ step = "idle"
    /\ answer # NoBody
    /\ f \notin answer.copied /\ answer.todo = {}
    /\ answer' = [answer EXCEPT !.copied = @ \cup {f}, !.todo = Stored \cap f]
    /\ UNCHANGED <<vars, fetched, pollStart, cached>>

\* EntryState reads one entry's flags.
CountEntry(h) ==
    /\ step = "idle"
    /\ answer # NoBody
    /\ h \in answer.todo
    /\ answer' = [answer EXCEPT !.todo = @ \ {h},
                     !.unread = IF flag["read"][h] THEN @ ELSE @ \cup {h}]
    /\ UNCHANGED <<vars, fetched, pollStart, cached>>

Answer ==
    /\ answer # NoBody
    /\ answer.copied = Feeds /\ answer.todo = {}
    /\ cached' = [ver |-> answer.ver, unread |-> answer.unread]
    /\ answer' = NoBody
    /\ UNCHANGED <<vars, fetched, pollStart>>

\* setFlag as in StateLog.
FlagWork == AppendLine \/ AppendFails \/ Apply \/ CompactLocked \/ CompactFails

FlagStep ==
    /\ \/ \E k \in Kinds, h \in Hashes, want \in BOOLEAN : SetFlag(k, h, want)
       \/ FlagWork
    /\ UNCHANGED syncVars

SyncNext ==
    \/ SyncOpen
    \/ Downtime
    \/ SyncCrash
    \/ FlagStep
    \/ \E f \in Feeds : PollStart(f)
    \/ \E f \in Feeds : \E new \in SUBSET f : AppendEntries(f, new)
    \/ ReadVersion
    \/ \E f \in Feeds : CopyIndex(f)
    \/ \E h \in Hashes : CountEntry(h)
    \/ Answer

SyncSpec == SyncInit /\ [][SyncNext]_allVars

-----------------------------------------------------------------------------

SyncTypeOK ==
    /\ TypeOK
    /\ fetched \in [Hashes -> Nat]
    /\ pollStart \in [Feeds -> Nat]
    /\ answer # NoBody => answer \in Answering
    /\ cached # NoBody => cached \in Answered

\* A client is told 304 only when what it has counted is still right, however
\* setFlag and AppendEntries interleave with the counting, and whatever version a
\* restart rebuilds ("after a restart the validator necessarily differs").
NoStale304 ==
    up /\ step = "idle" /\ cached # NoBody =>
        (cached.ver = contentVer => cached.unread = Unread)
=============================================================================
