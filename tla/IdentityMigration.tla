------------------------- MODULE IdentityMigration -------------------------
(***************************************************************************)
(* harb migrate --identity (idmigrate.go) on a data directory that earlier *)
(* versions filled, that may be polled before and after it, and that an    *)
(* interrupted run left half migrated.                                     *)
(*                                                                         *)
(* MigrateIdentity reads everything, plans, and then writes: the entry     *)
(* files, the sticky sets, read.log, starred.log, the marker.  Each write  *)
(* is an atomic rename and a step; the process may die, or the write fail, *)
(* before any of them, and the command be run again.  Nothing else is at   *)
(* work on the directory meanwhile.                                        *)
(***************************************************************************)
EXTENDS FeedIdentity

CONSTANTS
    FeedOrder,      \* the feeds in the order of their hashes
    UriGuids        \* the guids that are absolute URIs

ASSUME MigrationAssumption ==
    /\ FeedOrder \in Seq(Feeds)
    /\ Range(FeedOrder) = Feeds
    /\ Len(FeedOrder) = Cardinality(Feeds)

VARIABLES
    plan,           \* what MigrateIdentity has worked out, and is now writing
    todo,           \* the feeds the step under way has still to write
    marker,         \* disk: identity-migration.json
    interrupted     \* some run of the migration has stopped half way

migrationVars == <<plan, todo, marker, interrupted>>
allVars == <<idVars, migrationVars>>

NoPlan == None

-----------------------------------------------------------------------------
(* The plan.                                                               *)

\* The part of a sequence that stands at the places I, in the same order.
InOrder(I) == [n \in 1..Cardinality(I) |-> CHOOSE i \in I : Cardinality({j \in I : j <= i}) = n]
Part(s, I) == [n \in 1..Cardinality(I) |-> s[InOrder(I)[n]]]

EntriesOf(f) == Range(files[f])

Links(f, guid) == {e.link : e \in {d \in EntriesOf(f) : NormalizeGUID(d.guid) = guid}}

\* The guids that reuse is read into: opaque, with two links on disk.
Seeded(f) ==
    {g \in {NormalizeGUID(e.guid) : e \in EntriesOf(f)} \ (UriGuids \cup {None}) :
        Cardinality(Links(f, g)) >= 2}

StickyPlan(f) == sticky[f] \cup Seeded(f)

NewHash(f, e) == EntryHash(e, StickyPlan(f))
Group(f, hash) == {e \in EntriesOf(f) : NewHash(f, e) = hash}

\* Mutant: the last copy fetched survives.
LatestSurvivor(f, hash) ==
    LET latest == {e \in Group(f, hash) : \A d \in Group(f, hash) : d.at <= e.at}
    IN [CHOOSE e \in latest : TRUE EXCEPT !.hash = hash]

\* Mutant: the survivor keeps its old hash.
SurvivorUnchanged(f, hash) ==
    CHOOSE e \in Group(f, hash) : \A d \in Group(f, hash) : e.at <= d.at

\* chooseSurvivor: the earliest fetched; CHOOSE stands for the order of the old
\* hashes, which decides between two of the same poll.
Survivor(f, hash) ==
    LET earliest == {e \in Group(f, hash) : \A d \in Group(f, hash) : e.at <= d.at}
    IN [CHOOSE e \in earliest : TRUE EXCEPT !.hash = hash]

\* stageFileRewrites: a survivor stands where the first of its group stood.
NewFile(f) ==
    LET First(i) == \A j \in DOMAIN files[f] :
                        NewHash(f, files[f][j]) = NewHash(f, files[f][i]) => i <= j
        firsts == Part(files[f], {i \in DOMAIN files[f] : First(i)})
    IN [n \in DOMAIN firsts |-> Survivor(f, NewHash(f, firsts[n]))]

\* HashRemap is one map for all feeds: of two entries with the same old hash, the
\* one read last decides.
Remap(hash) ==
    LET File(p) == files[FeedOrder[p[1]]]
        at == {p \in (DOMAIN FeedOrder) \X (1..MaxEntries) :
                   p[2] \in DOMAIN File(p) /\ File(p)[p[2]].hash = hash}
        last == CHOOSE p \in at : \A q \in at : q[1] < p[1] \/ (q[1] = p[1] /\ q[2] <= p[2])
    IN IF at = {} THEN hash ELSE NewHash(FeedOrder[last[1]], File(last)[last[2]])

\* collapseMembers, one map too: the old hashes a survivor stands for, where there
\* are at least two.
CollapseMembers(hash) ==
    LET with == {n \in DOMAIN FeedOrder : Cardinality(Group(FeedOrder[n], hash)) > 1}
    IN IF with = {} THEN {} ELSE {e.hash : e \in Group(FeedOrder[Max(with)], hash)}

\* Mutant: lines are remapped, and the last one wins.
RemappedLastWins(k) ==
    [i \in DOMAIN log[k] |-> [log[k][i] EXCEPT !.hash = Remap(@)]]

\* remapStateLog: the hash of every line is remapped; a line that clears the flag
\* of a survivor of which some copy had it is dropped.
RemappedLog(k) ==
    LET Positive(hash) == \E m \in CollapseMembers(hash) : On(log[k], m)
        Kept(line) == line.on \/ ~Positive(line.hash)
        remapped == [i \in DOMAIN log[k] |-> [log[k][i] EXCEPT !.hash = Remap(@)]]
    IN Part(remapped, {i \in DOMAIN remapped : Kept(remapped[i])})

Plan ==
    [files |-> [f \in Feeds |-> NewFile(f)],
     sticky |-> [f \in Feeds |-> StickyPlan(f)],
     log |-> [k \in Kinds |-> RemappedLog(k)],
     \* What was there when the run began.
     before |-> [files |-> files, log |-> log]]

-----------------------------------------------------------------------------

MigrationInit ==
    /\ IdInit
    /\ plan = NoPlan
    /\ todo = {}
    /\ marker = FALSE
    /\ interrupted = FALSE

\* The version gate, the fold, the gathering and the accounting.  Nothing is
\* written, so a dry run is this step alone.
MigrateIdentity ==
    /\ upgraded /\ step = "idle"
    /\ ~marker
    /\ plan' = Plan
    /\ step' = "files"
    /\ todo' = {f \in Feeds : files[f] # <<>>}
    /\ UNCHANGED <<idDisk, upgraded, batch, polls, marker, interrupted>>

\* applyFileRewrites.
RewriteFile(f) ==
    /\ step = "files"
    /\ f \in todo
    /\ \A i, j \in DOMAIN FeedOrder : FeedOrder[i] \in todo /\ FeedOrder[j] = f => j <= i
    /\ files' = [files EXCEPT ![f] = plan.files[f]]
    /\ todo' = todo \ {f}
    /\ UNCHANGED <<sticky, log, upgraded, step, batch, polls, plan, marker, interrupted>>

FilesDone ==
    /\ step = "files" /\ todo = {}
    /\ step' = "sticky"
    /\ todo' = {f \in Feeds : plan.sticky[f] # {}}
    /\ UNCHANGED <<idDisk, upgraded, batch, polls, plan, marker, interrupted>>

\* Mutant: a set is saved only over one that is there.
SaveStickyOverOld(f) ==
    /\ step = "sticky"
    /\ f \in todo
    /\ sticky' = [sticky EXCEPT ![f] = IF @ = {} THEN {} ELSE plan.sticky[f]]
    /\ todo' = todo \ {f}
    /\ UNCHANGED <<files, log, upgraded, step, batch, polls, plan, marker, interrupted>>

\* The map of sticky sets is walked in any order.
SaveStickyGUIDs(f) ==
    /\ step = "sticky"
    /\ f \in todo
    /\ sticky' = [sticky EXCEPT ![f] = plan.sticky[f]]
    /\ todo' = todo \ {f}
    /\ UNCHANGED <<files, log, upgraded, step, batch, polls, plan, marker, interrupted>>

RemapReadLog ==
    /\ step = "sticky" /\ todo = {}
    /\ log' = [log EXCEPT !["read"] = plan.log["read"]]
    /\ step' = "starred"
    /\ UNCHANGED <<files, sticky, upgraded, batch, polls, plan, todo, marker, interrupted>>

RemapStarredLog ==
    /\ step = "starred"
    /\ log' = [log EXCEPT !["starred"] = plan.log["starred"]]
    /\ step' = "marker"
    /\ UNCHANGED <<files, sticky, upgraded, batch, polls, plan, todo, marker, interrupted>>

WriteIdentityMarker ==
    /\ step = "marker"
    /\ marker' = TRUE
    /\ step' = "idle"
    /\ plan' = NoPlan
    /\ UNCHANGED <<idDisk, upgraded, batch, polls, todo, interrupted>>

\* The process dies before the next write, or the write fails.
MigrationStops ==
    /\ step \in {"files", "sticky", "starred", "marker"}
    /\ step' = "idle"
    /\ plan' = NoPlan
    /\ todo' = {}
    /\ interrupted' = TRUE
    /\ UNCHANGED <<idDisk, upgraded, batch, polls, marker>>

MigrationNext ==
    \/ IdNext /\ UNCHANGED migrationVars
    \/ MigrateIdentity
    \/ \E f \in Feeds : RewriteFile(f) \/ SaveStickyGUIDs(f)
    \/ FilesDone
    \/ RemapReadLog
    \/ RemapStarredLog
    \/ WriteIdentityMarker
    \/ MigrationStops

MigrationSpec == MigrationInit /\ [][MigrationNext]_allVars

-----------------------------------------------------------------------------

\* "read/starred state follows each entry to its survivor" (MigrateIdentity), and
\* a survivor has a flag when any copy of it had it: when the logs are written,
\* every entry there was when the run began is flagged, under its new hash, just
\* when a copy of it in its feed was.  Runs that repeat an interrupted one are left
\* out: the entries they start from have new hashes, the logs still the old ones.
FlagsFollow ==
    step = "marker" /\ ~interrupted =>
        \A f \in Feeds, k \in Kinds :
            LET copies == Range(plan.before.files[f])
                New(e) == EntryHash(e, plan.sticky[f])
            IN \A e \in copies :
                   On(log[k], New(e)) <=>
                       \E d \in copies : New(d) = New(e) /\ On(plan.before.log[k], d.hash)

\* The migration never loses an article: an entry leaves a file only for one of the
\* same identity, which is not younger, so that no client takes it for a new one.
ArticlesKept ==
    [][step = "files" =>
           \A f \in Feeds : \A e \in EntriesOf(f) :
               \E d \in Range(files'[f]) :
                   /\ d.hash = EntryHash(e, plan.sticky[f]) \/ d.hash = e.hash
                   /\ d.at <= e.at]_allVars

\* "The migration is also structurally idempotent": when a run is about to write
\* its marker, however many runs before it stopped half way, another run would
\* change nothing.
FixedPoint ==
    step = "marker" =>
        \A f \in Feeds :
            /\ NewFile(f) = files[f]
            /\ StickyPlan(f) = sticky[f]
            /\ \A k \in Kinds : RemappedLog(k) = log[k]

\* "The assigned hash is a pure function of (entry fields, sticky set)": once the
\* directory is migrated every entry has the hash of its fields and the sticky set,
\* except one stored under its guid before the guid was found to be reused.
HashesCurrent ==
    marker =>
        \A f \in Feeds : \A e \in EntriesOf(f) :
            \/ e.hash = EntryHash(e, sticky[f])
            \/ NormalizeGUID(e.guid) \in sticky[f] /\ e.hash = EntryHash(e, {})

\* A guid "stays marked forever (monotone), so an item's basis can never flip
\* D4->D1" (AssignEntryHashesForFeed): on a migrated directory no entry is stored
\* under a guid after one that was stored under the same guid and its link, though
\* polls fail or die after they have saved the set.
NeverBack ==
    marker =>
        \A f \in Feeds : \A i, j \in DOMAIN files[f] :
            i < j /\ HasGuid(files[f][i]) /\ NormalizeGUID(files[f][i].guid) = NormalizeGUID(files[f][j].guid)
                => ~ (files[f][i].hash[1] = "guid and link" /\ files[f][j].hash[1] = "guid")

=============================================================================
