---------------------------- MODULE FeedIdentity ----------------------------
(***************************************************************************)
(* When two items seen across polls are the same entry: the entry hash,    *)
(* the sticky set of reused guids in reused-guids.json, and the polls that *)
(* maintain it and store what it tells apart (hash.go,                     *)
(* AssignEntryHashesForFeed and the callers around it).                    *)
(*                                                                         *)
(* A hash is modelled by what it is computed from, so equal hashes are     *)
(* equal tuples.  An item is what a feed publishes:                        *)
(*     guid    [stem, tail]: tail is the date some feeds append, 0 if none *)
(*     link    a location, or None                                        *)
(*     title   its title                                                  *)
(*     date    the day it gives, or None                                  *)
(* A stored entry is an item with its hash and its FetchedAt.              *)
(***************************************************************************)
EXTENDS Integers, Sequences, FiniteSets, FiniteSetsExt, SequencesExt

CONSTANTS
    Published,      \* for each feed, the items it ever publishes
    None,           \* no guid, no link, no date
    MaxEntries,     \* bound on the entries of a feed
    MaxLines,       \* bound on the lines of the two state logs
    MaxPolls        \* bound on the polls

Feeds == DOMAIN Published
Kinds == {"read", "starred"}

ASSUME IdentityAssumption ==
    /\ \A f \in Feeds : IsFiniteSet(Published[f])
    /\ \A f \in Feeds : \A i \in Published[f] :
           i \in [guid : {i.guid}, link : {i.link}, title : {i.title}, date : {i.date}]
    /\ MaxEntries \in Nat /\ MaxLines \in Nat /\ MaxPolls \in Nat

VARIABLES
    files,      \* disk: the entries of each feed, in the order they were stored
    sticky,     \* disk: the reused guids of each feed
    log,        \* disk: read.log and starred.log
    upgraded,   \* the data directory is run by this version of the program
    step,       \* what the one process at work is doing
    batch,      \* the poll under way: its feed and its entries, hashed
    polls       \* Poll's now: the number of polls begun

idDisk == <<files, sticky, log>>
idVars == <<idDisk, upgraded, step, batch, polls>>

NoBatch == [feed |-> None, entries |-> {}]

-----------------------------------------------------------------------------
(* The entry hash.                                                         *)

\* The guid without the date a feed may append to it.
NormalizeGUID(guid) == guid.stem

HasGuid(item) == NormalizeGUID(item.guid) # None

\* entryHashKey: the guid alone (D1); the guid and the link when the feed reuses
\* the guid (D4); the link; the title and the date (D3).
EntryHash(item, reused) ==
    IF HasGuid(item) /\ NormalizeGUID(item.guid) \notin reused
        THEN <<"guid", NormalizeGUID(item.guid)>>
    ELSE IF HasGuid(item)
        THEN <<"guid and link", NormalizeGUID(item.guid), item.link>>
    ELSE IF item.link # None
        THEN <<"link", item.link>>
    ELSE <<"title", item.title, item.date>>

\* The guids that occur twice in one batch: by count alone.
ReusedInBatch(items) ==
    {NormalizeGUID(i.guid) : i \in {j \in items :
        HasGuid(j) /\ \E k \in items \ {j} : NormalizeGUID(k.guid) = NormalizeGUID(j.guid)}}

Entry(item, hash, now) ==
    [guid |-> item.guid, link |-> item.link, title |-> item.title,
     date |-> item.date, hash |-> hash, at |-> now]

StoredHashes(f) == {files[f][i].hash : i \in DOMAIN files[f]}

\* The flag a log gives an entry: the last line about it, as foldStateFile and
\* foldLog read it.
On(lines, hash) ==
    \E i \in DOMAIN lines :
        /\ lines[i].hash = hash /\ lines[i].on
        /\ \A j \in DOMAIN lines : j > i => lines[j].hash # hash

-----------------------------------------------------------------------------

IdInit ==
    /\ files = [f \in Feeds |-> <<>>]
    /\ sticky = [f \in Feeds |-> {}]
    /\ log = [k \in Kinds |-> <<>>]
    /\ upgraded = FALSE
    /\ step = "idle"
    /\ batch = NoBatch
    /\ polls = 0

\* External, an earlier version: it stored an item under the guid and the link,
\* or under the guid alone unless it took the guid for reused.
OldPoll(f, item, reused) ==
    LET hash == EntryHash(item, reused) IN
    /\ ~upgraded
    /\ Len(files[f]) < MaxEntries /\ polls < MaxPolls
    /\ hash \notin StoredHashes(f)
    /\ reused \subseteq {NormalizeGUID(item.guid)} \ {None}
    /\ polls' = polls + 1
    /\ files' = [files EXCEPT ![f] = Append(@, Entry(item, hash, polls'))]
    /\ UNCHANGED <<sticky, log, upgraded, step, batch>>

Upgrade ==
    /\ ~upgraded
    /\ upgraded' = TRUE
    /\ UNCHANGED <<idDisk, step, batch, polls>>

\* setFlag of a stored entry, in one step: StateLog has the rest.
SetFlag(k, hash, want) ==
    /\ step = "idle"
    /\ Len(log["read"]) + Len(log["starred"]) < MaxLines
    /\ \E f \in Feeds : hash \in StoredHashes(f)
    /\ On(log[k], hash) # want
    /\ log' = [log EXCEPT ![k] = Append(@, [on |-> want, hash |-> hash])]
    /\ UNCHANGED <<files, sticky, upgraded, step, batch, polls>>

\* Poll gives an item without a date the time of the poll.
Parsed(item, now) == IF item.date = None THEN [item EXCEPT !.date = now] ELSE item

\* Mutant: the hashes are assigned from this batch's reuse alone.
AssignFromBatch(f, items) ==
    LET parsed == {Parsed(i, polls + 1) : i \in items} IN
    /\ upgraded /\ step = "idle"
    /\ polls < MaxPolls
    /\ polls' = polls + 1
    /\ sticky' = [sticky EXCEPT ![f] = @ \cup ReusedInBatch(parsed)]
    /\ batch' = [feed |-> f,
                 entries |-> {Entry(i, EntryHash(i, ReusedInBatch(parsed)), polls') : i \in parsed}]
    /\ step' = "append"
    /\ UNCHANGED <<files, log, upgraded>>

\* Poll's items, and AssignEntryHashesForFeed: the guids the batch reuses join the
\* sticky set, which is saved if it grew, and only then are the hashes assigned.
\* A failing load or save ends the poll with nothing changed.
AssignEntryHashesForFeed(f, items) ==
    LET parsed == {Parsed(i, polls + 1) : i \in items} IN
    /\ upgraded /\ step = "idle"
    /\ polls < MaxPolls
    /\ polls' = polls + 1
    /\ sticky' = [sticky EXCEPT ![f] = @ \cup ReusedInBatch(parsed)]
    /\ batch' = [feed |-> f,
                 entries |-> {Entry(i, EntryHash(i, sticky'[f]), polls') : i \in parsed}]
    /\ step' = "append"
    /\ UNCHANGED <<files, log, upgraded>>

\* One entry for each hash the feed does not have yet.
NewEntries(f, entries) ==
    LET fresh == {e \in entries : e.hash \notin StoredHashes(f)} IN
    {CHOOSE e \in fresh : e.hash = h : h \in {e.hash : e \in fresh}}

\* AppendEntries (EntryStore has the rest).
AppendEntries ==
    LET f == batch.feed
        new == NewEntries(f, batch.entries)
    IN
    /\ step = "append"
    /\ Len(files[f]) + Cardinality(new) <= MaxEntries
    /\ files' = [files EXCEPT ![f] = @ \o SetToSeq(new)]
    /\ step' = "idle"
    /\ batch' = NoBatch
    /\ UNCHANGED <<sticky, log, upgraded, polls>>

\* The process dies, or AppendEntries fails: the set is saved, the entries not.
PollDies ==
    /\ step = "append"
    /\ step' = "idle"
    /\ batch' = NoBatch
    /\ UNCHANGED <<idDisk, upgraded, polls>>

IdNext ==
    \/ \E f \in Feeds : \E item \in Published[f] :
           \E reused \in SUBSET {NormalizeGUID(item.guid)} : OldPoll(f, item, reused)
    \/ Upgrade
    \/ \E k \in Kinds, want \in BOOLEAN :
           \E hash \in UNION {StoredHashes(f) : f \in Feeds} : SetFlag(k, hash, want)
    \/ \E f \in Feeds : \E items \in SUBSET Published[f] \ {{}} : AssignEntryHashesForFeed(f, items)
    \/ AppendEntries
    \/ PollDies

=============================================================================
