# harb in TLA+

harb is a single-user RSS reader server: it polls feeds, keeps their entries and
the user's read and starred flags in files, and serves them through a Google
Reader compatible API and a small web UI. This directory holds TLA+ models of the
parts of it where order, failure or concurrency decide correctness, the TLC runs
that check them on small instances, and TLAPS proofs of the main results.

Run a check with `tlc -config StateLogDurable.cfg StateLog`, a proof with
`tlapm StateLogProofs.tla`. `PROJECT.json` lists the runs, the theorems, the
mutants that show each property can fail, and the source lines behind each
definition.

## The system

| Component | State it keeps | Operations | What is hard | Model |
|---|---|---|---|---|
| State log (`store/store.go`) | `read.log`, `starred.log`; maps and counters folded from them | `SetRead`, `SetStarred`, compaction, fold at `Open` | failure or crash between append, apply and compact; lines torn by a full disk | `FlagStore`, `StateLog` |
| Entry store (`store/store.go`, `store/migrate.go`) | one `current.ndjson` per feed; in-memory index | `AppendEntries`, index build and duplicate collapse at `Open` | partial failure in a loop; a lock released around file I/O; two processes | `EntryStore` |
| Poller (`poll/poll.go`) | one state file per feed (validators, cooldown, error fields) | `Poll`, `ResetCooldown` | crash between append and save; read-modify-write of the file by two processes | `FeedPoll` |
| Refresher (`poll/refresher.go`) | `inFlight`, `stopped`, a wait group, contexts | `Trigger`, `cycle`, `Start`, `Stop` | races of `Trigger` and `Stop`, bounded workers, liveness | `RefreshService`, `Refresher` |
| Reader API (`reader/reader.go`) | none of its own; ETags, copies and sync times in clients | unread counts, item streams, edit-tag, mark-all-as-read, subscriptions | reads several locked values without one lock; conditional requests; paging through a list that changes | `UnreadSync`, `ReaderSync`, `Opml` (its subscription and tag requests) |
| Feed identity (`store/hash.go`, `AssignEntryHashesForFeed`) | sticky guid set per feed | hash of an entry | an item must keep its hash as batches change | `FeedIdentity` |
| Identity migration (`store/idmigrate.go`) | a version file | one-time rewrite of entries and logs | a crash between its writes, a second run, entries that collapse | `IdentityMigration` |
| Subscriptions (`store/opml.go`, `config/config.go`) | `subscriptions.opml`, a cached copy | load, save, update, import | requests that change one list at once; a failed save; what a file can say of a list | `SubscriptionList`, `Opml`, `FileOPML` |
| Auth sessions (`auth/auth.go`) | `tokens.json`, `config.json`, maps | login, verify, revoke, password change | memory and file disagreeing after a failed save; a login beside a change of password | `AuthStore` |
| Passkeys (`passkey/`, `ui/passkey.go`) | `credentials.json`, challenges waiting for an answer | register, login, delete | an answer sent twice; counter check and update under two locks; failed saves | `WebLogin` |
| Web UI (`ui/ui.go`, `ui/static/keys.js`) | none; a version in each page | list pages, auto-refresh, the writes of the other components | a page is put together without a lock | `WebPage` |
| Resolvers, enrichment, observations, access log, link rewriting, sanitizing | none, or write-only | rendering, text transformation | pure text and I/O | not modelled |

How they interact. Every request under `/reader/api/0/` and `/ui/` calls
`Refresher.Trigger`; a ticker does too. A cycle polls every subscription with a
bounded number of workers; `Poll` reads the feed's state file, makes a
conditional GET, hands the entries to `Store.AppendEntries` and replaces the
state file. Reader and UI handlers read the in-memory index and flags, and set
flags through `SetRead` and `SetStarred`. `harb poll-once` is a second process
that opens the same files and polls every feed once.

## Modules

### FlagStore and StateLog

`FlagStore` is the promise: a durable value of every flag, changed by one
request at a time, and a served value which is the durable one or the one just
before the request being carried out; stopping, starting and housekeeping
change no durable flag.

`StateLog` is the code. `setFlag` holds `Store.mu` throughout, so requests do not
interleave, but it is modelled in three steps (`append`, `apply`, `compact`)
because the process may die between them and each may fail on its own:

| Action | Code |
|---|---|
| `SetFlag` | `setFlag` up to the append, its early return being the guard |
| `AppendLine`, `AppendFails`, `AppendTorn`, `CloseFails` | `appendLine`: whole line; no byte; part of the line; line written but `Close` fails |
| `Apply` | the in-memory half and the compaction threshold |
| `CompactLocked`, `CompactFails`, `CompactUnsynced` | `compactLocked`: renamed; not renamed; renamed but the directory cannot be synced |
| `Crash`, `Open` | the end of the process; both folds, `recountLive`, the version |

A log is a sequence of lines. A line keeps its second (the code formats RFC 3339
without a fraction), its operation and its hash; a line that does not parse has
the hash `Garbled`, two lines run together have the hash `Junk`, which belongs
to no entry. The clock advances in ticks, several to a second.

### UnreadSync, ReaderSync and WebPage

`UnreadSync` is `StateLog` with the entries of several feeds, `handleUnreadCount` and a
client that sends back the ETag of its last full answer. The handler's reads are
separate steps (version, then feed by feed the index copy and one flag at a time), because
the code takes and releases `Store.mu` for each. A poll has two steps: `PollStart` reads the
clock, which becomes the `FetchedAt` of its entries, and `AppendEntries` commits them. A feed
is polled once at a time (`OnePollPerFeed` of `Refresher`), several feeds at the same time,
so polls commit in any order, whenever they began. `SyncOpen`
rebuilds the version from the times in the files, which are whole seconds in the logs;
with `SlowRestart` it waits until the second of the newest is over, and `Downtime` is the
time that passes while nothing runs.

`ReaderSync` adds a client that keeps a copy of a stream, which is any set of feeds: one feed, a
label, the reading list.

| Action | Code |
|---|---|
| `BeginWalk` | the client's: a walk from the sync time (`ot`) it has come to, newest or oldest first |
| `AskPage`, `AskMarkAll`, `CopyFeed` | `collectStream`: `IndexedEntries` of one feed after the other, under the lock for each |
| `SendPage` | `handleItemsIDs`, `handleStreamContents`: the list sorted, filtered by `ot`, cut at the offset of the token |
| `EditTag`, `MarkAllRead` | `handleEditTag`, `handleMarkAllRead` up to their first call of `setFlag` |
| `CallSetFlag`, `SetFlagStep`, `AnswerOK` | the calls, one after the other; the first error ends the request |

The client takes its next `ot`, and the `ts` of mark-all, from the newest crawl time on the
first page of a walk. What walks promise depends on the stream. Each sends everything that is
later than its `ot` (`SyncComplete`, any stream). For a stream of one feed that is everything
the client does not have, because a poll begins after the one before it has
committed; for a stream of several it is not, because the poll that began first may commit
last (`ReadingListComplete`, run `ReadingListLate`). `MarksOnlySeen` is about a feed for the same reason.

`WebPage` adds a browser page to `UnreadSync`: `Visit`, `IndexedEntries`, `FilterEntry`,
`RowOf` and `Render` are the steps of `handleHome`, `handleFeed` and `crossFeed`; `PollVersion`
and `Dismiss` are the auto-refresh script.

### EntryStore

`current.ndjson` of one feed with, for each process, the index and the progress
of `Open` or `AppendEntries`. `Snapshot` is `indexedHashes` under the read lock;
the loop writes line by line with no lock; `Commit` indexes what was written,
also after an error. `Open` is `ScanFile` (parse everything, rewrite if there
are duplicates), `RewriteFile` and `BuildIndex`. A rename leaves a process that
had the old file open writing to a file without a name (`orphan`). The constant
behaviour `shared` says whether processes run beside one another in this
behaviour, or one at a time: some properties promise less for the former.

### FeedPoll

`EntryStore` with the poll around it: `StartPoll` (load the state file, read the
clock, check the cooldown), one action for each outcome that changes the state
file, `AppendDownloaded`/`Appended` around `AppendEntries`, `SaveState`. ETag and
Last-Modified are one validator, the number of the version it came with; the
publisher brings out versions at any time. `ResetCooldown`/`SaveReset` are what
`poll-once` does before each poll.

### RefreshService and Refresher

`RefreshService` is the promise: one pass at a time, a bounded number of feeds
being polled and none twice, and a close that takes effect only when nothing is
polled. `Refresher` has one process per goroutine: callers of `Trigger` (requests
and the ticker), cycles with their dispatch loop and workers, and the goroutine
that calls `Start` and `Stop`. A critical section of `Refresher.mu` is one step,
and so is each atomic, channel, wait-group or `go` operation outside.

### Opml, SubscriptionList and FileOPML

`Opml` is the list as data: what each request of the web UI and of the Reader API
makes of it, and `Marshal` and `ParseOPML`, which are not inverse to each other.
The tags of a feed are written joined with commas and split at commas when read,
so a tag name is modelled as the set of its pieces: `{x}` is the tag `x`, `{x, y}`
the tag `x,y`, and the latter is read back as two.

`SubscriptionList` is the promise: one list is shown, and every request takes effect on all
of it at one instant before its answer. What is kept is what is shown, except after a save that
failed past its rename: then it is what is shown with that refused request on it, until the next change
undoes the request or a restart grants it. `FileOPML` is the code, with a process for
each goroutine that serves a request, and `harb import`:

| Action | Code |
|---|---|
| `Ask`, `BadRequest` | the handler's own checks, then the first half of `ensureLoaded` (read lock) |
| `EnsureLoaded`, `LoadFails` | its second half (lock, look again, read the file) |
| `Show` | `Load` |
| `Update`, `Abort` | `Update` up to the return of the closure, with or without an error |
| `WriteOPML`, `WriteFails`, `WriteUnsynced` | the save under the same lock: renamed; not renamed; renamed but the directory cannot be opened to be synced, so that the file is new, the cached list old and the request refused |
| `Publish` | `cur` is replaced, the lock released |
| `ImportLoad`, `ImportSave`, `ImportFails` | `cmdImport` |
| `Serve`, `Die` | the server starts; it ends, wherever its goroutines are |

### FeedIdentity and IdentityMigration

A hash is what it is computed from, as a tuple, so two entries have the same hash
just when SHA-1 is given the same bytes: `EntryHash` chooses between the guid, guid and link,
link, and title and date. `AssignEntryHashesForFeed` saves the sticky set and
hashes the batch; `AppendEntries` is a later step, and the process may die between
the two (`PollDies`). `OldPoll` is what earlier versions may have left: entries
under either scheme, and no sticky set.

`IdentityMigration` adds `harb migrate --identity`. What it drops from a file or a log is
written as the `Part` that stays, at places chosen by a condition on each. `MigrateIdentity` is everything it
reads and computes; `RewriteFile`, `SaveStickyGUIDs`, `RemapReadLog`, `RemapStarredLog` and
`WriteIdentityMarker` are its writes, each an atomic rename; `MigrationStops` is a death or
an error before any of them. Polls and flags go on before, between and after runs.

### AuthStore and WebLogin

`AuthStore` is the auth store and the handlers that use it. A method of the store
holds its lock and is one step; a handler is as many steps as it calls methods
(`VerifyLogin` then `NewSession`; `VerifyOld`, `SaveConfig`, `SetPasswordHash`,
`RevokeAllSessions`). Every method changes memory first and saves then, and a save may
fail, before its rename or after it. `CmdInit` and `CmdPasswd` write `config.json` from another process.

`WebLogin` adds passkeys. The environment is the browser and the authenticator: the
answer to a challenge is fixed when the challenge is begun, and may be sent any
number of times, to either endpoint, at any time. A finish request is `Redeem`
(take the challenge), then `AddKey`, or `VerifyAssertion`, `UpdateSignCount` and `NewSession`.
`CounterAccepted` is the library's rule for the counter.

## Runs

| Run | Question | Answer |
|---|---|---|
| `StateLogDurable` | with refused appends, failed compactions and crashes, does a restart bring back what was served, are the counters exact, do the logs stay within their threshold, is `FlagStore` implemented | yes |
| `StateLogFaults` | with torn lines, failing closes and half-done compactions, what can one write damage | its own entry's flag and that of the line it runs into |
| `FeedPoll` | two processes, one at a time or beside one another, every fault: can an index repeat an entry, do the state file's fields agree; and one at a time, do file and index agree, are entries lost silently, can a saved validator hide an entry | no; yes; they agree; no; no |
| `FeedPollOnce` | can a validator saved by `poll-once` hide entries from a running `serve` | yes |
| `RefresherCycles` | single flight, no overlapping polls, final stop, refinement; does `Stop` return, does polling go on, is every feed polled | yes |
| `Subscriptions` | two goroutines, failing loads and saves, restarts, import while the server is down: is `SubscriptionList` implemented, is what is served what a restart brings back, does the pseudo tag stay out | yes; yes, but for the last change refused after its rename; yes |
| `WebLogin` | two requests at once, failing saves, expiry, restarts, `harb passwd` beside `serve`: is what was given out honoured, does what was ended stay ended, is a challenge good once | yes |
| `Identity` | two feeds without an item in common, migrated once or after interrupted runs: do flags follow their entries, is every article kept, is the result a fixed point, can a later poll store an article under its guid again | yes; yes; yes; no |
| `UnreadSync` | can a 304 hide a count that changed, over polls of two feeds, flags and restarts that take a second | no |
| `ReaderSync` | over polls of two feeds at once: can a walk skip an entry later than its `ot`, or any entry of a stream of one feed; can mark-all of one feed mark an entry that was never sent; is an OK durable | no; no; yes |
| `ReadingListLate` | does a walk of two feeds end with all they had when it began | no: not what a poll that began before the client's `ot` commits after it |
| `PageStale` | does the auto-refresh poll notice everything a page does not show | no: not what was committed while the page was put together |

The three runs with a counterexample are described, with the lines they
contradict, under "findings" in `PROJECT.json`. The behaviour behind `FeedPollOnce`
also puts an entry in `current.ndjson` twice: with a second process, the index of
the first is not the superset of the file that `AppendEntries` takes it for.

### Known disagreements

The first three are counterexamples TLC finds when constants of a run that passes are
changed as said; the theorems of the same properties assume that constant or condition.

- `UnreadSync` with `SlowRestart = FALSE`: state logs keep whole seconds, so a server that
  starts again within the second of a flag change, takes a flag in it and starts once more is
  back at a version it gave out before that flag, and the client that has it is told 304.
  `store.go:113-118` says that the version "Persists across restarts because it is rebuilt from
  on-disk state-log UpdatedAt timestamps in Open" and "after a restart the validator
  necessarily differs".
- `UnreadSync` with one entry in one feed, `CompactMin = 1`, `MaxClock = 20`: `compactLocked` writes no line for a flag that is
  off, so when no entry is read any more the log is empty, the times in it are gone, and the next
  `Open` rebuilds an older version, which a client may have from before the flags.
- `Identity` with `Published <- SharedArticle`: two feeds that stored the same opaque guid have the
  same old hash for it. When only one of them has it with two links, the guid becomes sticky
  there, and as `HashRemap` is one map for all feeds (`idmigrate.go:206`), the feed read last decides for
  both: the flag of the entry in the other feed goes with the wrong hash (`FlagsFollow`). `idmigrate.go:112-113`
  says "Remap read.log / starred.log hash columns IN PLACE so read/starred state follows each entry to its survivor".

No run shows the others:

- A line of a state log that is written in part makes the next one, which is
  acknowledged and served, unreadable at the next restart (`appendLine`). The
  comment of `store.go:342-344` gives the order of `setFlag` as a protection against
  that. `StateLogFaults` has the fault; `DamageLocal` bounds what it damages.
- `Open` folds `starred.log` after `read.log` into one `UpdatedAt`, so after a restart an
  entry starred first and read later has the time of the star, though
  `store.go:71-72` calls it "the time of the most recent fold-relevant event".
- `Marshal` joins tags with commas and `ParseOPML` splits at commas, so a folder or label
  with a comma in its name is one tag until it is saved, and two afterwards.
- `toggleFlag` (`ui.go:1261`) sets the flag before it looks for the entry: a 404 leaves a line in the log.
- Mark-all of the web UI has no cutoff: it marks entries that arrived after the page.
- What `ReadingListLate` shows for two feeds has two more faces: mark-all of a label or of the reading
  list, with the client's sync time as `ts`, marks the entries its walks miss; and a client that takes
  `ot` from the clock, or from the `updated` of an answer, which is the clock too (`reader.go:741`),
  misses what a poll of any one feed commits that began before.
- `harb passwd` leaves the random API tokens of the old scheme valid; the settings page drops them.

### Bounds

Two entries are enough for a property about one entry and its neighbour in the
log; two kinds are all there are. The thresholds of compaction, 32 lines and a
ratio of 10 in the code, are constants: small ones make compactions happen
several times within `MaxClock`, which bounds the number of requests; the runs
that must not compact keep 32 and 10. Two or three ticks make a second, so
that events fall in the same second and in different ones. `MaxLines`, `MaxBatch`
and `MaxVersions` allow a whole batch to be appended, to fail in the middle and
to be tried again. Two callers besides the ticker, and two cycle goroutines,
let a cycle begin while the one before has not called `wg.Done`; three feeds with
two slots make the dispatch loop wait. The state of `FileOPML` is finite without a
bound: two goroutines, two feeds, two words for tags and the pseudo tag let every
pair of requests meet on the same feed and on different ones.

`WebLogin` has two requests, one key and two challenges; the key may be registered from before.
So two logins with the same key meet, and a removal, or a removal and a new registration, comes between
the steps of a login; two passwords and two sessions let a login meet a change of
password, and one session's save meet another's. The two requests are
exchangeable and used symmetrically (`SYMMETRY`). `Identity` has the two cases the
migration tells apart, an opaque guid with two links (reused) and a guid that is a URI
(moved), in two feeds, with two stored entries each, so that a group collapses; three
polls and three lines of the logs let the flags of two copies contradict
one another.

`ReaderSync` has three entries, in feeds of one and of two, and a page of one, so that a commit falls between
any two pages, two copies and two calls; one entry is dated in the future; the client keeps either feed or both;
and five readings of the clock after the first (one to a second) are two polls, at once or one after the other, and
a flag, or one poll and three flags, with restarts and requests wherever they fall. The client makes one
request at a time, since what it marks and what it has are one state. `ReadingListLate` needs an entry in each
of two feeds. Nothing in `ReaderSync` counts, and nothing in
`UnreadSync` walks: the two share the store alone. `UnreadSync` has two entries, one in each of two feeds, which are
exchangeable, so that one can change while the other is counted, and five readings of the
clock after the first, two to a second: a version, a change, a restart and another change, in one
second or in several. Its threshold of compaction is the code's 32, which no run of it reaches.

`CHECK_DEADLOCK` is off because every model does stop: at its bound on the clock, polls
or challenges, or when the server has shut down.

### Fairness

Safety needs none. The liveness properties of `RefresherCycles` assume weak fairness of every goroutine
that can run, which the Go scheduler provides; of `FinishPoll`, because the HTTP
client has a timeout; of the ticker's channel; and strong fairness of the ticker
goroutine's exit, because a `select` whose two cases keep being ready does not
choose the same one for ever. Requests, the signal and a failing listener are
the environment's and have none.

## Proofs

`StateLogProofs`, for any set of entries, thresholds, clock resolution and length
of run:

- `TypeCorrect`: types, whatever the faults. The invariant `TypeInv` adds what the
  types rest on: `live` counts the flags that are set (otherwise the decrement
  in `Apply` could leave the naturals), no line is later than the clock.
- `FlagsSurviveRestart`, `AppliedIsPersisted`, `CountersCount`,
  `StateLogImplementsFlagStore`: assuming `AllOrNothing` (an append leaves its whole line or
  nothing, a compaction that fails has left the old file), which a short write
  shows to be needed. `DurableInv` relates each log to memory *during* a request:
  the flag of the request being applied is already on disk and not yet in
  memory, every other flag is the same in both. The lemmas are about the log as
  a data structure: what appending one line changes (`AppendOn`), what a
  compacted log says (`CompactedProperties`).
- `LogsStayBounded` follows from the same invariant: the counters are exact, so the
  threshold is compared with what is on disk. `DamageIsLocal` has no assumption on faults:
  `DamageLocalStep` goes through what each fault writes, of which only the line a torn one
  runs into is not the request's own.

`UnreadSyncProofs`, on top of `StateLogProofs`, for any feeds:

- `SyncTypeCorrect`: types, and that no time in the files is later than the clock.
- `NeverStale304` assumes `SlowRestart` and that no compaction empties a log
  (`NothingEmptied`); each is needed (Known disagreements). `VersionInv` says of each version that the store, a client or an unfinished
  answer holds that no restart can rebuild it (`Fresh`), that every restart rebuilds a
  later one, or that it is the one a restart would rebuild now and every change to come will be
  written at a later second (`Settled`). `CountInv` says that a client whose version is the
  one in memory has the count of memory, one whose version is the one on disk has the count of the disk,
  and that an answer under way has counted right so far if its version is still the current one.

`ReaderProofs`, on top of both, for any entries, page size and clock:

- `ReaderTypeCorrect` (with `ReaderTypeInv`: a walk's client knows stored entries only).
- `WalksSendAll` is about every stream and needs nothing of the order in which polls commit.
  `WalkInv` is about the list while it changes: `Coming` is the least that the list being collected,
  or the next, will hold, `Ahead(h)` what of it the walk sends up to `h`; what is due and not sent
  lies past the offset in it, and stays there, because polls, copies and restarts only add to it (`ComingGrows`)
  and so move an entry to a later place.
- `WalksAreComplete` and `MarksOnlyWhatWasSent` add what holds for a stream of one feed, while any number
  of others are polled: `InOrder(f)` says that the poll of `f` under way began after every time the client
  has come to or may come to by this walk, that what is stored and not due is later than the latter, and that
  what a list being collected misses of `f` is later than all it holds. It rests on one poll of a
  feed at a time (`PollsDoNotOverlap` and `OnePollPerFeed` of the refresher) and is false of two feeds together, as `ReadingListLate` shows.
- `AnswersAreDurable` is about every stream too. `CallsInv` says that every call of the request that
  has returned is in memory and, by `DurableInv`, on disk, and that the handler goes on only
  after a call without an error.

`RefresherProofs`, for any finite sets of callers, cycles and feeds and any concurrency:

- `RefresherInvariant`: the inductive invariant `RefresherInv`. Its parts are
  `OneOwner` (single flight, caller by caller and cycle by cycle), `Counted` (the
  wait group counts the ticker, the live cycles, and the callers that have added
  themselves but not yet spawned), `Slots`, `Workers` and `Progress`. `Counted` is
  what makes `Stop` final: when `wg` is 0 nobody is left, and `stopped` admits
  nobody new.
- `CyclesAreSingleFlight`, `PollsDoNotOverlap`, `PollsAreBounded`, `StoppedForGood`
  follow from it, and `RefresherImplementsService` is the refinement.

`FileOPMLProofs`, for any clients, requests, feeds and files:

- `SubscriptionTypes` and `PseudoTagStaysOut` need no assumption on the requests.
  The second is inductive with what `Add`, `Edit`, `RenameTag` and `ParseOPML` do
  to a list that has no pseudo tag; it rests on the handlers' check of a new name.
- `ServedIsSaved`, `SyncedListIsSaved` and `FileOPMLImplementsSubscriptionList` assume `Plain`: no name with
  a comma in it, no title of white space only, and no import beside the server.
  Each part is needed: without the first two a list is not what its file reads
  back as (lemma `RoundTrip`), and an import that runs
  beside the server overwrites what the server saved and is overwritten in turn.
  `SavedInv` says which list is in the file at each place of a request: the cached
  one before the write, or that with the one request on it whose save failed after its rename; the
  goroutine's own copy after the write. `SyncedListIsSaved` assumes `~Unsynced` besides, that a directory can
  always be opened to be synced, and says that then nothing refused is in the file; `WriteUnsynced` shows that it is needed.

`FeedPollProofs`, for any processes, entries, bounds and faults:

- `NeverShownTwice` (no index repeats an entry) and `HealthIsTold` (the state file agrees with
  itself) hold with any number of processes beside one another. The first rests on
  `IndexInv`: while a process appends, the entries it knows cover its index and
  what it has written is not in it, whatever is in the file.
- `CleanedForGood`, `IndexMissesNothing`, `ShownIsOnDisk` and `NothingSkipped` are about processes
  that run one at a time. `AloneInv` ties the file to the index of the one
  that runs, place by place: a line of the file that is not in the index is one it has
  just written, a last line without its newline belongs to a write that failed. `ServedInv` and `CarriedInv` follow a
  validator from the answer it came with, through the append, to the state file.
- `PollTypeCorrect`: types, with any faults.

`WebLoginProofs`, for any requests, keys, challenges and bounds: the seven properties of the
run `WebLogin`. The invariant `LoginInv` is inductive: beside the types it says that what is revoked
is among the tokens drawn and in no store, that a session drawn later is none of them; that a
challenge held by a request is not pending and is held by no other; that the counters in memory, on disk and in every
answer are at most the authenticator's; and that a key confirmed and not removed is
in the file and, while serve runs, in memory.

`IdentityProofs`, for any feeds, whatever they publish, and any runs before:

- The lemmas are about the plan as data: `InOrder` counts through a finite set of places,
  `PartOfAll` and `OnPart` say what a part of a file or a log keeps, `SurvivorProperties` and
  `NewFileProperties` that a planned file has the hash of its fields in every entry, each
  hash once, and for every old entry one of its identity that is not younger; `RemapIs` what
  the one map for all feeds does to a hash.
- `NoArticleLost` and `MigrationIsIdempotent` need no assumption on the runs before:
  `PlanInv` says which files and sets are already those of the plan at each step, and that
  the others are covered by it. Once all are, the second plan is the first.
- `HashesStayCurrent` and `BasisNeverFlipsBack`: `HashInv` says both of every file after the marker. The second
  is inductive only with the first: an entry stored under guid and link shows
  that its guid is in the set a later poll hashes with.
- `FlagsFollowSurvivors` assumes `FeedsApart`: no two feeds publish items of one identity
  (the guid, or the link or title where there is none), which the feeds of the run `Identity` satisfy. The maps of the
  migration are keyed by hash alone, and Known disagreements says what happens without the assumption. `Fresh`
  says what a directory is before its first run: an entry's hash is of its own
  fields, no two of a feed have one, and the logs are about entries that are there. `FlagsRemapped` then
  compares the last lines about an entry and about its copies.

The assumptions are the modules' `ASSUME`s on constants, which TLC evaluates in
every run, and those each theorem names. Of the properties of the passing runs the three of liveness
are only model-checked: `StopReturns`, `KeepsPolling` and `EveryFeedPolled` rest on fairness and
ENABLED, which are out of the prover's reach. `ImplementsService` has no fairness and is proved.
The invariants a proof uses were first checked by TLC on the instances of the runs.

## Abstractions

- The clock only advances, and two readings a file write apart differ. A wall
  clock stepped back can make the version repeat; that is not modelled.
- The open of `Store` is not interleaved with requests: the server listens after it.
- One feed in `EntryStore` and `FeedPoll`: there feeds share only the index map, which is changed under the
  lock, and `contentVer`. `UnreadSync`, `ReaderSync` and `WebPage` have several, with the lists that merge them; no entry is in
  two of them. Feeds are copied in any order, of which the code takes the one of the list.
- Rollover into archives is called by tests only; `byHash` follows the index;
  the order by `Published` decides nothing that is checked.
- In `UnreadSync` and `WebPage` the subscription list, the other half of the unread ETag, does not
  change.
- In `Opml` the order of feeds and of tags is left out (both are sorted on every
  save), and a file that names one URL in two outlines cannot be written down.
- An atomic write whose error comes after its rename (`syncDir`) is modelled where the two differ for the
  program: compaction (`CompactUnsynced`), subscriptions (`WriteUnsynced`), `tokens.json` (`Persist`), `credentials.json` (`PersistKeys`) and
  `config.json` (`SaveConfig`). A poll ends the same way whether its state file was replaced or not, so that `FeedPoll` has
  the two outcomes; an `Open` or a migration that stops on such an error is one that wrote the file and stopped at the next step.
- An import beside the server is in `FileOPML` (`ImportBeside`) but in no run: the
  updates it loses are those the code's comments and docs never promise.
- In `FeedIdentity` a batch is a set: a feed that lists one item twice, which the
  reuse detector counts as two, and the order within a batch are left out. The
  instances have no item without a guid. One without guid, link and date gets the time of
  the poll, and with it a new hash at every poll.
- A rerun of an interrupted migration starts from entries with new hashes and logs
  with old ones, and cannot carry those flags over: `FlagsFollow` is about runs that follow
  no interrupted one, the other properties about all of them. Two lines
  of one file are never in different files: archives are left out.
- In `AuthStore` presenting a wrong password or a token changes nothing and is no step, and
  the API token of today, a function of the password hash, has no state. The model
  lets a login that verified the old password mint its session after
  `RevokeAllSessions`, and two changes of password leave different ones in memory and in
  `config.json`; no property forbids what no document does.
- In `WebLogin` an answer that no key made is refused and is no step, so signatures, origins and formats
  are in `pinopass`, which is external.

## Not modelled

- Resolvers, enrichment, previews, link rewriting and sanitizing rewrite text between a request and
  its answer and keep no state; an error of theirs is `PollFails`.
- Observations and the access log are written and never read by the program.
- Templates, keyboard handling and the out-of-band fragments of the web UI: layout. What they
  show is what `rowFor` and `unreadCounts` read, which is in `WebPage`.
- The streams of a flag and `it=`, `xt=`, `nt=` of the Reader API; `stream/items/contents` by id; `RolloverArchives`.
- Flag parsing, output and self-update of the commands; the Reeder compatibility suite, a test harness.
