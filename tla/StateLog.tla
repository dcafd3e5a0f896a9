------------------------------ MODULE StateLog ------------------------------
(***************************************************************************)
(* The read and starred flags of internal/store: two append-only logs on   *)
(* disk, the maps and counters folded from them, setFlag with its          *)
(* compaction, the death of the process at any point, and Open.            *)
(*                                                                         *)
(* One setFlag runs at a time (it holds Store.mu from its first line to    *)
(* its return), but it is three steps here - append, apply, compact -      *)
(* because the process may die, or the disk refuse, between them.          *)
(***************************************************************************)
EXTENDS Integers, Sequences, FiniteSets, FiniteSetsExt, SequencesExt

CONSTANTS
    Hashes,         \* entry hashes
    Junk,           \* a hash no entry has: two lines run together
    Garbled,        \* stands in a line that foldLog skips
    Down,           \* what is served while no process runs
    Faults,         \* the faults the environment may inject
    CompactMin,     \* 32 in the code
    CompactRatio,   \* 10 in the code
    TicksPerSecond, \* the log keeps whole seconds, memory keeps ticks
    MaxClock        \* bound on the clock, hence on the number of requests

Kinds == {"read", "starred"}
Ids == Hashes \cup {Junk}
FaultKinds == {"append", "torn", "close", "compact", "sync", "crash"}

ASSUME StateLogAssumption ==
    /\ IsFiniteSet(Hashes)
    /\ Junk \notin Hashes
    /\ Garbled \notin Ids
    /\ Down \notin [Kinds -> [Hashes -> BOOLEAN]]
    /\ Faults \subseteq FaultKinds
    /\ CompactMin \in Nat /\ CompactRatio \in Nat \ {0}
    /\ TicksPerSecond \in Nat \ {0, 1}
    /\ MaxClock \in Nat

VARIABLES
    log,        \* disk: log[k] is the sequence of lines of read.log or starred.log
    torn,       \* disk: torn[k] iff the last line of log[k] has no newline yet
    up,         \* a process has the store open
    flag,       \* Store.state: flag[k][id] is EntryState.Read or .Starred
    updatedAt,  \* Store.state: EntryState.UpdatedAt
    lines,      \* Store.readN and starN
    live,       \* Store.liveR and liveS
    contentVer, \* Store.contentVer
    step,       \* where the setFlag holding Store.mu is
    req,        \* its arguments and its timestamp
    clock       \* Store.now

disk == <<log, torn>>
memory == <<flag, updatedAt, lines, live, contentVer>>
vars == <<disk, up, memory, step, req, clock>>

Line == [ts : Nat, on : BOOLEAN, hash : Ids \cup {Garbled}]
Request == [kind : Kinds, hash : Hashes, want : BOOLEAN, now : Nat]
NoRequest == "none"

-----------------------------------------------------------------------------
(* The log.                                                                *)

\* RFC3339 has no fraction: a tick is written as the second it falls in.
Second(t) == t - (t % TicksPerSecond)

\* The next reading of the clock: two readings a file write apart differ, and
\* none falls exactly on a second (one in a million does, in microseconds).
Later(t) == IF (t + 1) % TicksPerSecond = 0 THEN t + 2 ELSE t + 1

\* Two lines run together when the first was not terminated: SplitN leaves the
\* rest of the second in the hash column, or no timestamp parses at all.
RunTogether(line) ==
    [ts |-> line.ts, on |-> line.on,
     hash |-> IF line.hash = Garbled THEN Garbled ELSE Junk]

\* Mutant: the log is opened to be truncated, not appended to.
WrittenTruncated(lg, isTorn, line) == <<line>>

Written(lg, isTorn, line) ==
    IF isTorn THEN [lg EXCEPT ![Len(lg)] = RunTogether(@)]
              ELSE Append(lg, line)

Parsed(lg) == {i \in DOMAIN lg : lg[i].hash \in Ids}

\* Line i is the last one about its hash: what foldLog leaves in the map.
IsLast(lg, i) == \A j \in DOMAIN lg : j > i => lg[j].hash # lg[i].hash
LastAbout(lg, id) == {i \in DOMAIN lg : lg[i].hash = id /\ IsLast(lg, i)}

On(lg, id) == \E i \in LastAbout(lg, id) : lg[i].on
TimeOf(lg, id) == lg[CHOOSE i \in LastAbout(lg, id) : TRUE].ts

\* read.log is folded first, then starred.log over the same map: a line of
\* starred.log wins the timestamp whichever is older.
FoldedTime(id) ==
    IF LastAbout(log["starred"], id) # {} THEN TimeOf(log["starred"], id)
    ELSE IF LastAbout(log["read"], id) # {} THEN TimeOf(log["read"], id)
    ELSE 0

FoldedVersion ==
    Max({0} \cup UNION {{log[k][i].ts : i \in Parsed(log[k])} : k \in Kinds})

LiveIds(k) == {id \in Ids : flag[k][id]}
FoldedLive(k) == {id \in Ids : On(log[k], id)}

-----------------------------------------------------------------------------

Init ==
    /\ log = [k \in Kinds |-> <<>>]
    /\ torn = [k \in Kinds |-> FALSE]
    /\ up = FALSE
    /\ flag = [k \in Kinds |-> [id \in Ids |-> FALSE]]
    /\ updatedAt = [id \in Ids |-> 0]
    /\ lines = [k \in Kinds |-> 0]
    /\ live = [k \in Kinds |-> 0]
    /\ contentVer = 0
    /\ step = "idle"
    /\ req = NoRequest
    /\ clock = TicksPerSecond + 1

\* Mutant: buildIndex does not fold the newest FetchedAt into contentVer.
OpenWithLogsOnly(newest) ==
    /\ ~up
    /\ up' = TRUE
    /\ flag' = [k \in Kinds |-> [id \in Ids |-> On(log[k], id)]]
    /\ updatedAt' = [id \in Ids |-> FoldedTime(id)]
    /\ lines' = [k \in Kinds |-> Cardinality(Parsed(log[k]))]
    /\ live' = [k \in Kinds |-> Cardinality(FoldedLive(k))]
    /\ contentVer' = FoldedVersion
    /\ UNCHANGED <<disk, step, req, clock>>

\* Mutant: Open does not call recountLive.
OpenUncounted(newest) ==
    /\ ~up
    /\ up' = TRUE
    /\ flag' = [k \in Kinds |-> [id \in Ids |-> On(log[k], id)]]
    /\ updatedAt' = [id \in Ids |-> FoldedTime(id)]
    /\ lines' = [k \in Kinds |-> Cardinality(Parsed(log[k]))]
    /\ contentVer' = Max({FoldedVersion, newest})
    /\ UNCHANGED <<disk, live, step, req, clock>>

\* Open: fold both logs, count the live flags; newest is the latest FetchedAt of
\* the entries on disk.  migrateEntryHashes leaves the logs alone: it rewrites one
\* only for a hash of 16 hex digits or more that is not canonical, and setFlag
\* writes none.  (A torn line is shorter there, and one run together holds the
\* '-' of a date, unless the second write tore too, within its first 4 bytes.)
OpenWith(newest) ==
    /\ ~up
    /\ up' = TRUE
    /\ flag' = [k \in Kinds |-> [id \in Ids |-> On(log[k], id)]]
    /\ updatedAt' = [id \in Ids |-> FoldedTime(id)]
    /\ lines' = [k \in Kinds |-> Cardinality(Parsed(log[k]))]
    /\ live' = [k \in Kinds |-> Cardinality(FoldedLive(k))]
    /\ contentVer' = Max({FoldedVersion, newest})
    /\ UNCHANGED <<disk, step, req, clock>>

\* This module knows no entries: UnreadSync does.
Open == OpenWith(0)

\* The process ends, wherever setFlag was: memory is gone.
Crash ==
    /\ "crash" \in Faults
    /\ up
    /\ up' = FALSE
    /\ flag' = [k \in Kinds |-> [id \in Ids |-> FALSE]]
    /\ updatedAt' = [id \in Ids |-> 0]
    /\ lines' = [k \in Kinds |-> 0]
    /\ live' = [k \in Kinds |-> 0]
    /\ contentVer' = 0
    /\ step' = "idle"
    /\ req' = NoRequest
    /\ UNCHANGED <<disk, clock>>

\* Mutant: setFlag does not return early when the flag already has the value.
SetFlagAlways(k, h, want) ==
    /\ up
    /\ step = "idle"
    /\ clock < MaxClock
    /\ clock' = Later(clock)
    /\ req' = [kind |-> k, hash |-> h, want |-> want, now |-> clock']
    /\ step' = "append"
    /\ UNCHANGED <<disk, up, memory>>

\* SetRead or SetStarred, called with a value that changes the flag (the other
\* call returns at once).
SetFlag(k, h, want) ==
    /\ up
    /\ step = "idle"
    /\ flag[k][h] # want
    /\ clock < MaxClock
    /\ clock' = Later(clock)
    /\ req' = [kind |-> k, hash |-> h, want |-> want, now |-> clock']
    /\ step' = "append"
    /\ UNCHANGED <<disk, up, memory>>

\* The line of the request, with what became of its hash column.
RequestLine(hash) == [ts |-> Second(req.now), on |-> req.want, hash |-> hash]

Return == step' = "idle" /\ req' = NoRequest

\* appendLine writes the line and closes the file.
AppendLine ==
    /\ step = "append"
    /\ log' = [log EXCEPT ![req.kind] = Written(@, torn[req.kind], RequestLine(req.hash))]
    /\ torn' = [torn EXCEPT ![req.kind] = FALSE]
    /\ step' = "apply"
    /\ UNCHANGED <<up, memory, req, clock>>

\* Mutant: memory is changed although the line was refused.
AppendFailsApplied ==
    /\ "append" \in Faults
    /\ step = "append"
    /\ flag' = [flag EXCEPT ![req.kind][req.hash] = req.want]
    /\ Return
    /\ UNCHANGED <<disk, up, updatedAt, lines, live, contentVer, clock>>

\* appendLine fails before a byte is written: setFlag returns the error.
AppendFails ==
    /\ "append" \in Faults
    /\ step = "append"
    /\ Return
    /\ UNCHANGED <<disk, up, memory, clock>>

\* appendLine fails after part of the line is written (a full disk): what is
\* left is the line without its newline, a shorter hash, or no line at all.
AppendTorn(part) ==
    /\ "torn" \in Faults
    /\ step = "append"
    /\ part \in {req.hash, Junk, Garbled}
    /\ log' = [log EXCEPT ![req.kind] =
                  Written(@, torn[req.kind], RequestLine(part))]
    /\ torn' = [torn EXCEPT ![req.kind] = TRUE]
    /\ Return
    /\ UNCHANGED <<up, memory, clock>>

\* The line is written and Close fails: setFlag returns the error all the same.
CloseFails ==
    /\ "close" \in Faults
    /\ step = "append"
    /\ log' = [log EXCEPT ![req.kind] = Written(@, torn[req.kind], RequestLine(req.hash))]
    /\ torn' = [torn EXCEPT ![req.kind] = FALSE]
    /\ Return
    /\ UNCHANGED <<up, memory, clock>>

\* Mutant: the threshold looks at the number of lines before this one.
ApplyLate ==
    LET k == req.kind
        d == IF req.want THEN 1 ELSE -1
    IN
    /\ step = "apply"
    /\ flag' = [flag EXCEPT ![k][req.hash] = req.want]
    /\ updatedAt' = [updatedAt EXCEPT ![req.hash] = req.now]
    /\ live' = [live EXCEPT ![k] = @ + d]
    /\ lines' = [lines EXCEPT ![k] = @ + 1]
    /\ contentVer' = req.now
    /\ IF lines[k] > CompactMin /\ lines[k] > CompactRatio * live'[k]
       THEN step' = "compact" /\ UNCHANGED req
       ELSE Return
    /\ UNCHANGED <<disk, up, clock>>

\* The line is on disk: memory follows, and the log is due for compaction when
\* it outgrew the live flags.
Apply ==
    LET k == req.kind
        d == IF req.want THEN 1 ELSE -1
    IN
    /\ step = "apply"
    /\ flag' = [flag EXCEPT ![k][req.hash] = req.want]
    /\ updatedAt' = [updatedAt EXCEPT ![req.hash] = req.now]
    /\ live' = [live EXCEPT ![k] = @ + d]
    /\ lines' = [lines EXCEPT ![k] = @ + 1]
    /\ contentVer' = req.now
    /\ IF lines'[k] > CompactMin /\ lines'[k] > CompactRatio * live'[k]
       THEN step' = "compact" /\ UNCHANGED req
       ELSE Return
    /\ UNCHANGED <<disk, up, clock>>

\* Mutant: the flag just set is not yet in the map the log is rewritten from.
CompactedBefore(k) ==
    LET old == LiveIds(k) \ {req.hash}
        ids == SetToSeq(old)
    IN [i \in 1..Cardinality(old) |->
            [ts |-> Second(clock), on |-> TRUE, hash |-> ids[i]]]

\* compactLocked: the log becomes one line for each flag that is set, stamped
\* now, by an atomic rename.
Compacted(k) ==
    LET ids == SetToSeq(LiveIds(k)) IN
    [i \in 1..Cardinality(LiveIds(k)) |->
        [ts |-> Second(clock), on |-> TRUE, hash |-> ids[i]]]

\* Mutant: the counter of lines is not reset.
CompactKeepsCount ==
    /\ step = "compact"
    /\ log' = [log EXCEPT ![req.kind] = Compacted(req.kind)]
    /\ torn' = [torn EXCEPT ![req.kind] = FALSE]
    /\ Return
    /\ UNCHANGED <<up, flag, updatedAt, lines, live, contentVer, clock>>

CompactLocked ==
    /\ step = "compact"
    /\ log' = [log EXCEPT ![req.kind] = Compacted(req.kind)]
    /\ torn' = [torn EXCEPT ![req.kind] = FALSE]
    /\ lines' = [lines EXCEPT ![req.kind] = Cardinality(LiveIds(req.kind))]
    /\ Return
    /\ UNCHANGED <<up, flag, updatedAt, live, contentVer, clock>>

\* The rewrite fails: setFlag returns an error for a change it has made.
CompactFails ==
    /\ "compact" \in Faults
    /\ step = "compact"
    /\ Return
    /\ UNCHANGED <<disk, up, memory, clock>>

\* The new file is in place but its directory cannot be opened to be synced: an
\* error, and the counter of lines is not reset.
CompactUnsynced ==
    /\ "sync" \in Faults
    /\ step = "compact"
    /\ log' = [log EXCEPT ![req.kind] = Compacted(req.kind)]
    /\ torn' = [torn EXCEPT ![req.kind] = FALSE]
    /\ Return
    /\ UNCHANGED <<up, memory, clock>>

Next ==
    \/ Open
    \/ Crash
    \/ \E k \in Kinds, h \in Hashes, want \in BOOLEAN : SetFlag(k, h, want)
    \/ AppendLine
    \/ AppendFails
    \/ \E part \in Ids \cup {Garbled} : AppendTorn(part)
    \/ CloseFails
    \/ Apply
    \/ CompactLocked
    \/ CompactFails
    \/ CompactUnsynced

Spec == Init /\ [][Next]_vars

-----------------------------------------------------------------------------

TypeOK ==
    /\ log \in [Kinds -> Seq(Line)]
    /\ torn \in [Kinds -> BOOLEAN]
    /\ up \in BOOLEAN
    /\ flag \in [Kinds -> [Ids -> BOOLEAN]]
    /\ updatedAt \in [Ids -> Nat]
    /\ lines \in [Kinds -> Nat]
    /\ live \in [Kinds -> Nat]
    /\ contentVer \in Nat
    /\ step \in {"idle", "append", "apply", "compact"}
    /\ IF step = "idle" THEN req = NoRequest ELSE req \in Request /\ up
    /\ clock \in Nat

\* Between two requests the flags in memory are those a restart would fold from
\* the logs (the promise of setFlag's persist-first order and of compaction).
FlagsDurable ==
    up /\ step # "apply" =>
        \A k \in Kinds, h \in Hashes : flag[k][h] <=> On(log[k], h)

\* readN, starN, liveR and liveS are what they count: lines on disk, flags set.
\* They decide compaction, and CountRead and CountStarred return them.
CountersExact ==
    up /\ step # "apply" =>
        \A k \in Kinds : /\ lines[k] = Cardinality(Parsed(log[k]))
                        /\ live[k] = Cardinality(LiveIds(k))

\* A log setFlag would not compact.
Within(k) == Len(log[k]) <= CompactMin \/ Len(log[k]) <= CompactRatio * live[k]

\* A request that returns no error leaves its log within the threshold, whatever
\* crashes and failed compactions came before: the counters the threshold looks
\* at survive them.
LogBounded ==
    [][\A k \in Kinds :
        (/\ step = "apply" \/ (step = "compact" /\ log' # log)
         /\ step' = "idle" /\ up'
         /\ k = req.kind) => Within(k)']_vars

\* setFlag applies to memory only what it has persisted: "otherwise a persist
\* failure leaves the reader showing a flag set that survives only until restart".
AppliedIsDurable ==
    step = "apply" => (On(log[req.kind], req.hash) <=> req.want)

\* Whatever faults a log meets, one write changes on disk the flag of its own
\* entry, that of the unterminated line it runs into, and, when it is a
\* compaction, brings flags back to what memory serves.  No other entry's flag
\* is damaged.
DamageLocal ==
    [][\A k \in Kinds, h \in Hashes :
        On(log[k], h)' # On(log[k], h) =>
            /\ k = req.kind
            /\ \/ h = req.hash
               \/ torn[k] /\ h = log[k][Len(log[k])].hash
               \/ step = "compact" /\ On(log[k], h)' = flag[k][h]]_disk

-----------------------------------------------------------------------------
(* StateLog implements FlagStore: the logs are the durable flags, the maps *)
(* of a running process the served ones.                                   *)

Durable == [k \in Kinds |-> [h \in Hashes |-> On(log[k], h)]]
Served == IF up THEN [k \in Kinds |-> [h \in Hashes |-> flag[k][h]]] ELSE Down

FS == INSTANCE FlagStore WITH durable <- Durable, served <- Served

\* Every step of the logs, the compaction, the crash and the fold is a step of
\* FlagStore or changes nothing a client can see.
ImplementsFlagStore == FS!Spec

=============================================================================
