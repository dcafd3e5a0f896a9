----------------------------- MODULE ReaderSync -----------------------------
(***************************************************************************)
(* A Reader client that keeps a copy of a stream - a feed, the feeds of a  *)
(* label, the reading list - and the endpoints it calls (internal/reader): *)
(*   - it walks the stream page by page (stream/items/ids or contents,     *)
(*     with n, c and r), each time from the sync time (ot) it had come to; *)
(*   - it edits the flags of items it has (edit-tag), and marks the stream *)
(*     as read up to that time (mark-all-as-read with ts).                 *)
(* It makes one request at a time.  collectStream copies the feeds of the  *)
(* stream one after the other: polls commit between two copies, two        *)
(* requests or two calls of setFlag, and the server restarts there.  The   *)
(* streams of a flag, it=, xt= and nt= are not modelled; unread-count is   *)
(* in UnreadSync.                                                          *)
(***************************************************************************)
EXTENDS UnreadSync

CONSTANTS
    FutureDated,    \* the entries dated later than any is fetched; the others
                    \* are dated long before they are fetched
    PageSize        \* the n of every request, at most MaxPage

Call == [kind : Kinds, hash : Hashes, want : BOOLEAN]
Walk == [oldest : BOOLEAN, offset : Nat, next : Nat]
List == [copied : SUBSET Feeds, entries : SUBSET Hashes]
Job == [calls : Seq(Call), todo : Seq(Call), calling : BOOLEAN, marks : BOOLEAN]

ASSUME ReaderAssumption ==
    /\ Hashes \subseteq Nat
    /\ FutureDated \subseteq Hashes
    /\ PageSize \in Nat \ {0}
    /\ NoBody \notin Walk /\ NoBody \notin List /\ NoBody \notin Job

VARIABLES
    stream,     \* the feeds of the stream the client keeps
    known,      \* the entries the client has
    since,      \* the sync time it has come to
    asked,      \* the ot of the walk under way, or else of the last one
    walk,       \* the walk under way: its order, c, and the ot of the next walk
    due,        \* what the stream held when the last walk began
    list,       \* the list being collected for a page, or to be marked as read
    job         \* the edit-tag or mark-all-as-read under way: its calls of setFlag,
                \* those still to make, and whether one is being carried out

readerVars == <<stream, known, since, asked, walk, due, list, job>>
everything == <<allVars, readerVars>>

-----------------------------------------------------------------------------
(* The list.                                                               *)

Published(h) == IF h \in FutureDated THEN MaxClock + 1 ELSE 0

\* Mutant: the date alone, as before v0.13.0.
SyncTimePublished(h) == Published(h)

\* entrySyncTime: an entry counts from when it was fetched, or from its date if
\* that is later.
SyncTime(h) == IF fetched[h] > Published(h) THEN fetched[h] ELSE Published(h)

\* entrySyncLess.
SyncLess(a, b) ==
    \/ SyncTime(a) < SyncTime(b)
    \/ SyncTime(a) = SyncTime(b) /\ Published(a) < Published(b)
    \/ SyncTime(a) = SyncTime(b) /\ Published(a) = Published(b) /\ a < b

\* applyRequestFilters, with ot alone.
After(ot, entries) == {h \in entries : ot = 0 \/ SyncTime(h) > ot}

\* The place of an entry in the list of collectStream, newest first, or after
\* sortForRequest (r=o), oldest first.
Place(h, entries, oldest) ==
    Cardinality({g \in entries :
        g = h \/ (IF oldest THEN SyncLess(g, h) ELSE SyncLess(h, g))})

-----------------------------------------------------------------------------

ReaderInit ==
    /\ SyncInit
    /\ stream \in SUBSET Feeds \ {{}}
    /\ known = {}
    /\ since = 0 /\ asked = 0
    /\ walk = NoBody
    /\ due = {}
    /\ list = NoBody
    /\ job = NoBody

\* The client has no request under way and no page to ask for.
Quiet == walk = NoBody /\ list = NoBody /\ job = NoBody

BeginWalk(oldest) ==
    /\ Quiet
    /\ asked' = since
    /\ walk' = [oldest |-> oldest, offset |-> 0, next |-> 0]
    /\ UNCHANGED <<allVars, stream, known, since, due, list, job>>

\* A request reaches collectStream.
Collect ==
    /\ up
    /\ list' = [copied |-> {}, entries |-> {}]
    /\ UNCHANGED <<allVars, stream, known, since, asked, walk, due, job>>

\* The page the walk has come to, once more if the server died over it.
AskPage == walk # NoBody /\ list = NoBody /\ Collect

AskMarkAll == Quiet /\ since # 0 /\ Collect

\* IndexedEntries waits for a setFlag or AppendEntries that holds Store.mu.
Free == up /\ step = "idle"

CopyFeed(f) ==
    /\ Free
    /\ list # NoBody
    /\ f \in stream \ list.copied
    /\ list' = [copied |-> list.copied \cup {f}, entries |-> list.entries \cup (Stored \cap f)]
    /\ UNCHANGED <<allVars, stream, known, since, asked, walk, due, job>>

Collected == list # NoBody /\ list.copied = stream

\* writeStreamPage and handleItemsIDs: the page at the token's offset into the list
\* as it is now, with a token when the list goes on.
SendPage ==
    /\ Collected
    /\ walk # NoBody
    /\ LET entries == After(asked, list.entries)
           length == Cardinality(entries)
           from == IF walk.offset < length THEN walk.offset ELSE length
           to == from + PageSize
           page == {h \in entries :
                       LET p == Place(h, entries, walk.oldest) IN from < p /\ p <= to}
           \* The client takes its next ot from the crawl times on the first page.
           next == IF walk.offset > 0 THEN walk.next
                   ELSE Max({asked} \cup {fetched[h] : h \in page})
       IN /\ known' = known \cup page
          /\ IF to < length
             THEN walk' = [walk EXCEPT !.offset = to, !.next = next] /\ UNCHANGED since
             ELSE walk' = NoBody /\ since' = next
    /\ due' = IF walk.offset = 0 THEN list.entries ELSE due
    /\ list' = NoBody
    /\ UNCHANGED <<allVars, stream, asked, job>>

Start(calls, marks) ==
    /\ job' = [calls |-> calls, todo |-> calls, calling |-> FALSE, marks |-> marks]
    /\ UNCHANGED <<allVars, stream, known, since, asked, walk, due>>

\* One call for each flag, in some order: no two are about the same flag.
Calls(kinds, hashes, on) == SetToSeq([kind : kinds, hash : hashes, want : {on}])

\* handleEditTag: what is added, then what is removed.
EditTag(hashes, add, rem) ==
    /\ Quiet /\ Free
    /\ Start(Calls(add, hashes, TRUE) \o Calls(rem, hashes, FALSE), FALSE)
    /\ UNCHANGED list

\* Mutant: ts is ignored.
MarkAllIgnoringTs ==
    /\ Collected /\ walk = NoBody
    /\ Start(Calls({"read"}, list.entries, TRUE), TRUE)
    /\ list' = NoBody

\* handleMarkAllRead: the whole stream, without the entries later than ts.
MarkAllRead ==
    /\ Collected /\ walk = NoBody
    /\ Start(Calls({"read"}, {h \in list.entries : SyncTime(h) <= since}, TRUE), TRUE)
    /\ list' = NoBody

\* The next call of setFlag, which returns at once if there is nothing to change.
CallSetFlag ==
    /\ Free
    /\ job # NoBody /\ ~job.calling /\ job.todo # <<>>
    /\ LET call == Head(job.todo) IN
       IF flag[call.kind][call.hash] = call.want
       THEN job' = [job EXCEPT !.todo = Tail(@)] /\ UNCHANGED vars
       ELSE SetFlag(call.kind, call.hash, call.want) /\ job' = [job EXCEPT !.calling = TRUE]
    /\ UNCHANGED <<syncVars, stream, known, since, asked, walk, due, list>>

\* Mutant: the handler goes on after an error.
ReturnedIgnored(failed) == [job EXCEPT !.todo = Tail(@), !.calling = FALSE]

\* What the handler does when setFlag returns: an error ends it with a 500, and
\* the calls before stand.
Returned(failed) ==
    IF failed THEN NoBody ELSE [job EXCEPT !.todo = Tail(@), !.calling = FALSE]

SetFlagStep ==
    /\ job # NoBody
    /\ FlagWork
    /\ job' = IF step' # "idle" THEN job ELSE Returned(AppendFails \/ CompactFails)
    /\ UNCHANGED <<syncVars, stream, known, since, asked, walk, due, list>>

Finished == job # NoBody /\ ~job.calling /\ job.todo = <<>>

AnswerOK ==
    /\ Finished
    /\ job' = NoBody
    /\ UNCHANGED <<allVars, stream, known, since, asked, walk, due, list>>

\* The request dies with the process.  The walk goes on after a restart: a token is
\* only an offset.
ReaderCrash ==
    /\ SyncCrash
    /\ list' = NoBody /\ job' = NoBody
    /\ UNCHANGED <<stream, known, since, asked, walk, due>>

\* The store and the poller, whoever their callers are.
StoreStep ==
    /\ \/ SyncOpen
       \/ Downtime
       \/ \E f \in Feeds : PollStart(f)
       \/ \E f \in Feeds : \E new \in SUBSET f : AppendEntries(f, new)
    /\ UNCHANGED readerVars

ReaderNext ==
    \/ StoreStep
    \/ ReaderCrash
    \/ \E oldest \in BOOLEAN : BeginWalk(oldest)
    \/ AskPage
    \/ AskMarkAll
    \/ \E f \in Feeds : CopyFeed(f)
    \/ SendPage
    \/ \E hashes \in SUBSET known \ {{}}, add, rem \in SUBSET Kinds : EditTag(hashes, add, rem)
    \/ MarkAllRead
    \/ CallSetFlag
    \/ SetFlagStep
    \/ AnswerOK

ReaderSpec == ReaderInit /\ [][ReaderNext]_everything

-----------------------------------------------------------------------------

ReaderTypeOK ==
    /\ SyncTypeOK
    /\ stream \in SUBSET Feeds \ {{}}
    /\ known \subseteq Stored /\ due \subseteq Stored
    /\ since \in Nat /\ asked \in Nat
    /\ walk # NoBody => walk \in Walk /\ job = NoBody
    /\ list # NoBody => list \in List /\ list.copied \subseteq stream /\ up /\ job = NoBody
    /\ job # NoBody => job \in Job /\ (job.calling <=> step # "idle")

OneFeed == Cardinality(stream) = 1

\* A client ends a walk of any stream with every entry of the stream that is later
\* than the ot it asked for; and a walk of one feed with every entry the feed had,
\* for those that are not later it has already.  Neither polls that commit between
\* two pages, and shift the offsets, nor restarts, nor entries dated long before or
\* after they arrive make it skip one ("so clients with more than MaxPage unread
\* items can walk the full set").
SyncComplete ==
    walk = NoBody =>
        \A h \in due : OneFeed \/ asked = 0 \/ SyncTime(h) > asked => h \in known

\* The same of every stream ("keeps stream ordering and the `ot=`/`nt=` windows
\* monotonic with arrival so incremental clients (Reeder) see late-fetched,
\* old-dated items as new").  It fails for a stream of two feeds: FetchedAt is when
\* the poll began, and the poll that began first may commit last.
ReadingListComplete ==
    walk = NoBody => due \subseteq known

\* Marking a feed as read, up to the sync time the client has come to, marks no
\* entry that the client was never sent, whatever polls have committed since.
MarksOnlySeen ==
    OneFeed /\ job # NoBody /\ job.marks =>
        \A i \in DOMAIN job.calls : job.calls[i].hash \in known

\* An answer OK to edit-tag or mark-all-as-read means that each flag has the last
\* value the request gave it, in memory and after a restart.
OkMeansDurable ==
    Finished =>
        \A i \in DOMAIN job.calls :
            LET call == job.calls[i] IN
            (\A j \in DOMAIN job.calls :
                j > i => job.calls[j].kind # call.kind \/ job.calls[j].hash # call.hash)
            => /\ flag[call.kind][call.hash] = call.want
               /\ On(log[call.kind], call.hash) <=> call.want

=============================================================================
