----------------------------- MODULE EntryStore -----------------------------
(***************************************************************************)
(* The entries of one feed in internal/store: current.ndjson on disk, the  *)
(* in-memory index each process builds from it, AppendEntries, and what    *)
(* Open does about duplicates.                                             *)
(*                                                                         *)
(* AppendEntries holds no lock while it writes: it copies the known hashes *)
(* under RLock, writes line by line, and takes Store.mu only to commit.    *)
(* `harb serve` and `harb poll-once` may share a data directory, so the    *)
(* index and the append are per process; one process appends to one feed   *)
(* once at a time (Refresher!OnePollPerFeed).                              *)
(***************************************************************************)
EXTENDS Naturals, Sequences, FiniteSets, SequencesExt

CONSTANTS
    Procs,      \* processes sharing the data directory
    Hashes,     \* canonical entry hashes
    Bad,        \* a line that is not one JSON object
    Faults,     \* the faults the environment may inject
    MaxLegacy,  \* bound on the lines an older version left behind
    MaxBatch,   \* bound on the entries of one AppendEntries
    MaxLines    \* bound on the lines of current.ndjson

ASSUME EntryStoreAssumption ==
    /\ Bad \notin Hashes
    /\ Faults \subseteq {"open", "write", "torn", "crash"}
    /\ MaxLegacy \in Nat /\ MaxBatch \in Nat /\ MaxLines \in Nat

VARIABLES
    current,    \* disk: the lines of current.ndjson
    torn,       \* disk: its last line has no newline yet
    idx,        \* Store.idx of each process, in order of arrival
    pc,         \* where each process is in Open or AppendEntries
    rewrite,    \* migrateEntryFile: the lines to put in place of the file
    batch,      \* AppendEntries: entries not yet looked at
    known,      \* AppendEntries: the snapshot, plus what it has written
    added,      \* AppendEntries: what it has written
    failed,     \* AppendEntries: an open or a write returned an error
    orphan,     \* the file it has open is no longer current.ndjson
    shared      \* whether the processes run beside one another, or one at a time

disk == <<current, torn>>
append == <<batch, known, added, failed, orphan>>
storeVars == <<disk, idx, pc, rewrite, append, shared>>

Lines == Hashes \cup {Bad}
Batches == UNION {[1..n -> Hashes] : n \in 1..MaxBatch}

\* A process whose Open has succeeded.
Running(p) == pc[p] \notin {"down", "rewrite", "index"}

Shorter(s) == UNION {[1..n -> Range(s)] : n \in 0..Len(s)}

\* What migrateEntryFile and buildIndex keep of lines: the first about each
\* hash, in order.  kept is the one sequence of which this is so.
Deduped(s, kept) ==
    /\ IsInjective(kept)
    /\ Range(kept) = Range(s)
    /\ \A i, j \in DOMAIN kept : i < j =>
           \E n \in DOMAIN s : s[n] = kept[i] /\ \A m \in 1..n : s[m] # kept[j]

\* O_APPEND on a last line that was never terminated makes one line of two, and
\* two JSON objects on a line do not parse.
Written(s, isTorn, line) ==
    IF isTorn THEN [s EXCEPT ![Len(s)] = Bad] ELSE Append(s, line)

\* Older versions could write an entry twice.
EntryInit ==
    /\ current \in UNION {[1..n -> Hashes] : n \in 0..MaxLegacy}
    /\ torn = FALSE
    /\ idx = [p \in Procs |-> <<>>]
    /\ pc = [p \in Procs |-> "down"]
    /\ rewrite = [p \in Procs |-> <<>>]
    /\ batch = [p \in Procs |-> <<>>]
    /\ known = [p \in Procs |-> {}]
    /\ added = [p \in Procs |-> <<>>]
    /\ failed = [p \in Procs |-> FALSE]
    /\ orphan = [p \in Procs |-> FALSE]
    /\ shared \in BOOLEAN

-----------------------------------------------------------------------------
(* Open.                                                                   *)

\* Mutant: lines that do not parse are let through.
ParsesAnyway == TRUE

\* scanEntries stops at the first line json.Unmarshal refuses.
Parses == Bad \notin Range(current)

\* migrateEntryFile reads the file; a line that does not parse fails Open.  Only
\* a file with duplicates is rewritten.
ScanFile(p) ==
    /\ pc[p] = "down"
    /\ shared \/ \A q \in Procs : pc[q] = "down"
    /\ Parses
    /\ \E kept \in Shorter(current) :
           Deduped(current, kept) /\ rewrite' = [rewrite EXCEPT ![p] = kept]
    /\ pc' = [pc EXCEPT ![p] = IF IsInjective(current) THEN "index" ELSE "rewrite"]
    /\ UNCHANGED <<disk, idx, append>>

\* atomicWriteFile renames the new file over the old: whoever has the old one
\* open goes on writing to a file no name leads to.
RewriteFile(p) ==
    /\ pc[p] = "rewrite"
    /\ current' = rewrite[p]
    /\ torn' = FALSE
    /\ orphan' = [q \in Procs |-> orphan[q] \/ pc[q] = "write"]
    /\ pc' = [pc EXCEPT ![p] = "index"]
    /\ UNCHANGED <<idx, rewrite, batch, known, added, failed>>

\* Mutant: buildIndex indexes every line it reads.
BuildIndexAll(p) ==
    /\ pc[p] = "index"
    /\ Parses
    /\ idx' = [idx EXCEPT ![p] = current]
    /\ rewrite' = [rewrite EXCEPT ![p] = <<>>]
    /\ pc' = [pc EXCEPT ![p] = "idle"]
    /\ UNCHANGED <<disk, append>>

\* buildIndex reads it again and keeps the first entry of each hash.
BuildIndex(p) ==
    /\ pc[p] = "index"
    /\ Parses
    /\ \E kept \in Shorter(current) :
           Deduped(current, kept) /\ idx' = [idx EXCEPT ![p] = kept]
    /\ rewrite' = [rewrite EXCEPT ![p] = <<>>]
    /\ pc' = [pc EXCEPT ![p] = "idle"]
    /\ UNCHANGED <<disk, append>>

Forget(p) ==
    /\ batch' = [batch EXCEPT ![p] = <<>>]
    /\ known' = [known EXCEPT ![p] = {}]
    /\ added' = [added EXCEPT ![p] = <<>>]
    /\ failed' = [failed EXCEPT ![p] = FALSE]
    /\ orphan' = [orphan EXCEPT ![p] = FALSE]

\* The process ends: its index and the append under way are gone.
Exit(p) ==
    /\ "crash" \in Faults
    /\ pc[p] # "down"
    /\ idx' = [idx EXCEPT ![p] = <<>>]
    /\ rewrite' = [rewrite EXCEPT ![p] = <<>>]
    /\ pc' = [pc EXCEPT ![p] = "down"]
    /\ Forget(p)
    /\ UNCHANGED disk

-----------------------------------------------------------------------------
(* AppendEntries.                                                          *)

\* Mutant: AppendEntries starts from an empty set of known hashes.
SnapshotNothing(p, entries) ==
    /\ pc[p] = "idle"
    /\ batch' = [batch EXCEPT ![p] = entries]
    /\ pc' = [pc EXCEPT ![p] = "open"]
    /\ UNCHANGED <<disk, idx, rewrite, known, added, failed, orphan>>

\* indexedHashes, under RLock.
Snapshot(p, entries) ==
    /\ pc[p] = "idle"
    /\ batch' = [batch EXCEPT ![p] = entries]
    /\ known' = [known EXCEPT ![p] = Range(idx[p])]
    /\ pc' = [pc EXCEPT ![p] = "open"]
    /\ UNCHANGED <<disk, idx, rewrite, added, failed, orphan>>

OpenCurrent(p) ==
    /\ pc[p] = "open"
    /\ pc' = [pc EXCEPT ![p] = "write"]
    /\ UNCHANGED <<disk, idx, rewrite, append>>

OpenFails(p) ==
    /\ "open" \in Faults
    /\ pc[p] = "open"
    /\ failed' = [failed EXCEPT ![p] = TRUE]
    /\ pc' = [pc EXCEPT ![p] = "returned"]
    /\ UNCHANGED <<disk, idx, rewrite, batch, known, added, orphan>>

\* The entry the loop is at, when the loop is not over.
Next1(p) == Head(batch[p])
InLoop(p) == pc[p] = "write" /\ batch[p] # <<>> /\ ~failed[p]

SkipKnown(p) ==
    /\ InLoop(p)
    /\ Next1(p) \in known[p]
    /\ batch' = [batch EXCEPT ![p] = Tail(@)]
    /\ UNCHANGED <<disk, idx, pc, rewrite, known, added, failed, orphan>>

\* One line is written, to the file the process has open.
WriteEntry(p) ==
    /\ InLoop(p)
    /\ Next1(p) \notin known[p]
    /\ Len(current) < MaxLines
    /\ IF orphan[p]
       THEN UNCHANGED disk
       ELSE /\ current' = Written(current, torn, Next1(p))
            /\ torn' = FALSE
    /\ batch' = [batch EXCEPT ![p] = Tail(@)]
    /\ known' = [known EXCEPT ![p] = @ \cup {Next1(p)}]
    /\ added' = [added EXCEPT ![p] = Append(@, Next1(p))]
    /\ UNCHANGED <<idx, pc, rewrite, failed, orphan>>

\* Mutant: the entry is counted as added before its write is known to succeed.
WriteFailsAdded(p) ==
    /\ "write" \in Faults
    /\ InLoop(p)
    /\ Next1(p) \notin known[p]
    /\ failed' = [failed EXCEPT ![p] = TRUE]
    /\ added' = [added EXCEPT ![p] = Append(@, Next1(p))]
    /\ UNCHANGED <<disk, idx, pc, rewrite, batch, known, orphan>>

\* The entry cannot be marshalled, or not a byte of it is written: the loop
\* stops there.
WriteFails(p) ==
    /\ "write" \in Faults
    /\ InLoop(p)
    /\ Next1(p) \notin known[p]
    /\ failed' = [failed EXCEPT ![p] = TRUE]
    /\ UNCHANGED <<disk, idx, pc, rewrite, batch, known, added, orphan>>

\* Part of the line is written: all but its newline, or less than the object.
WriteTorn(p, part) ==
    /\ "torn" \in Faults
    /\ InLoop(p)
    /\ Next1(p) \notin known[p]
    /\ ~orphan[p]
    /\ Len(current) < MaxLines
    /\ part \in {Next1(p), Bad}
    /\ current' = Written(current, torn, part)
    /\ torn' = TRUE
    /\ failed' = [failed EXCEPT ![p] = TRUE]
    /\ UNCHANGED <<idx, pc, rewrite, batch, known, added, orphan>>

\* Mutant: an error returns before what was written is indexed.
CommitUnlessFailed(p) ==
    /\ pc[p] = "write"
    /\ ~InLoop(p)
    /\ idx' = [idx EXCEPT ![p] = IF failed[p] THEN @ ELSE @ \o added[p]]
    /\ pc' = [pc EXCEPT ![p] = "returned"]
    /\ UNCHANGED <<disk, rewrite, append>>

\* Whatever was written is indexed, after an error too, under Store.mu.
Commit(p) ==
    /\ pc[p] = "write"
    /\ ~InLoop(p)
    /\ idx' = [idx EXCEPT ![p] = @ \o added[p]]
    /\ pc' = [pc EXCEPT ![p] = "returned"]
    /\ UNCHANGED <<disk, rewrite, append>>

\* AppendEntries returns failed[p] to Poll.
Return(p) ==
    /\ pc[p] = "returned"
    /\ pc' = [pc EXCEPT ![p] = "idle"]
    /\ Forget(p)
    /\ UNCHANGED <<disk, idx, rewrite>>

\* What a process does to the files on its own, once asked.
StoreStep(p) ==
    \/ ScanFile(p) \/ RewriteFile(p) \/ BuildIndex(p)
    \/ OpenCurrent(p) \/ OpenFails(p)
    \/ SkipKnown(p) \/ WriteEntry(p) \/ WriteFails(p)
    \/ \E part \in Lines : WriteTorn(p, part)
    \/ Commit(p)

EntryNext ==
    /\ \E p \in Procs :
           \/ StoreStep(p)
           \/ Exit(p)
           \/ \E entries \in Batches : Snapshot(p, entries)
           \/ Return(p)
    /\ UNCHANGED shared

EntrySpec == EntryInit /\ [][EntryNext]_storeVars

-----------------------------------------------------------------------------

EntryTypeOK ==
    /\ current \in Seq(Lines)
    /\ torn \in BOOLEAN
    /\ idx \in [Procs -> Seq(Hashes)]
    /\ pc \in [Procs -> {"down", "rewrite", "index", "idle", "open", "write", "returned"}]
    /\ rewrite \in [Procs -> Seq(Lines)]
    /\ batch \in [Procs -> Seq(Hashes)]
    /\ known \in [Procs -> SUBSET Hashes]
    /\ added \in [Procs -> Seq(Hashes)]
    /\ failed \in [Procs -> BOOLEAN]
    /\ orphan \in [Procs -> BOOLEAN]
    /\ shared \in BOOLEAN

\* "Deduping against idx can never reintroduce a duplicate that a disk scan would
\* have caught": once Open has cleaned the file, no entry is in it twice.
NoDuplicateLines ==
    ~shared /\ (\E p \in Procs : Running(p)) =>
        \A i, j \in DOMAIN current :
            current[i] = current[j] /\ current[i] # Bad => i = j

\* "s.idx is a complete superset of the on-disk known-hash set", whatever failed
\* half way, once no append is under way: the next poll writes nothing again.
\* (The line of a failed write is no entry until a restart reads it.)
IndexCoversDisk ==
    LET whole == IF torn THEN Front(current) ELSE current IN
    ~shared => \A p \in Procs : pc[p] \in {"idle", "open", "returned"} =>
        Range(whole) \ {Bad} \subseteq Range(idx[p])

\* No reader is shown an entry twice, whatever is on disk: neither buildIndex nor
\* two processes that append to the same file make an index repeat itself.
ShownOnce ==
    \A p \in Procs : IsInjective(idx[p])

\* Every entry a reader is shown is on disk, so that a restart brings it back,
\* after any failed append; a torn write can cost entries, but only with a line
\* that makes the next Open fail.
LossIsLoud ==
    ~shared => Bad \in Range(current) \/ \A p \in Procs : Range(idx[p]) \subseteq Range(current)
=============================================================================
