------------------------------ MODULE FeedPoll ------------------------------
(***************************************************************************)
(* Polling one feed (internal/poll, Poller.Poll): the conditional GET, its *)
(* outcomes, AppendEntries of EntryStore, and the per-feed state file that *)
(* is read at the start of a poll and replaced at its end.                 *)
(*                                                                         *)
(* The publisher changes the feed at any time.  ETag and Last-Modified are *)
(* one validator here: the number of the version it was sent with.         *)
(***************************************************************************)
EXTENDS EntryStore

CONSTANTS
    Once,           \* the processes that run `harb poll-once`
    MaxVersions,    \* bound on the versions the publisher brings out
    MaxDelay,       \* bound on a cooldown, in ticks
    MaxClock        \* bound on the clock

ASSUME FeedPollAssumption ==
    /\ Once \subseteq Procs
    /\ MaxVersions \in Nat /\ MaxDelay \in Nat \ {0} /\ MaxClock \in Nat

VARIABLES
    feed,       \* the publisher: the items of each version brought out so far
    fstate,     \* disk: the FeedState of the feed
    poll,       \* the Poll each process is carrying out
    clock       \* Poller.Now

pollVars == <<feed, fstate, poll, clock>>
allVars == <<storeVars, pollVars>>

Version == Len(feed)

\* failing stands for ErrorCount > 0 and LastError # "", set and reset together.
\* A time of 0 is the zero time, an etag of 0 the empty string.
FeedState == [etag : Nat, lastFetched : Nat, lastSuccess : Nat,
              retryAfter : Nat, failing : BOOLEAN]

Fresh == [etag |-> 0, lastFetched |-> 0, lastSuccess |-> 0,
          retryAfter |-> 0, failing |-> FALSE]

\* at "none" no poll; "reset" and "ready" poll-once clears the cooldown; "sent" the
\* request is on its way; "append" entries have been parsed; "save" the new state
\* file is ready.  version is the one downloaded.
NoPoll == [at |-> "none", st |-> Fresh, version |-> 0]

PollInit ==
    /\ EntryInit
    /\ feed = <<{}>>
    /\ fstate = Fresh
    /\ poll = [p \in Procs |-> NoPoll]
    /\ clock = 1

Healthy(st) == [st EXCEPT !.failing = FALSE, !.lastSuccess = st.lastFetched,
                          !.retryAfter = 0]
Errored(st) == [st EXCEPT !.failing = TRUE]

-----------------------------------------------------------------------------
(* The environment.                                                        *)

Publish(items) ==
    /\ Version < MaxVersions
    /\ items # feed[Version]
    /\ feed' = Append(feed, items)
    /\ UNCHANGED <<storeVars, fstate, poll, clock>>

Wait ==
    /\ clock < MaxClock
    /\ clock' = clock + 1
    /\ UNCHANGED <<storeVars, feed, fstate, poll>>

\* The poll dies with its process, the state file stays.
Die(p) ==
    /\ Exit(p)
    /\ poll' = [poll EXCEPT ![p] = NoPoll]
    /\ UNCHANGED <<feed, fstate, clock>>

-----------------------------------------------------------------------------
(* Poll.                                                                   *)

Becomes(p, at, st, version) ==
    poll' = [poll EXCEPT ![p] = [at |-> at, st |-> st, version |-> version]]

\* poll-once must poll whatever the cooldown: ResetCooldown loads the state, and
\* saves it again only if there is a cooldown to clear.
ResetCooldown(p) ==
    /\ p \in Once
    /\ pc[p] = "idle"
    /\ poll[p].at = "none"
    /\ IF fstate.retryAfter = 0
       THEN Becomes(p, "ready", Fresh, 0)
       ELSE Becomes(p, "reset", [fstate EXCEPT !.retryAfter = 0], 0)
    /\ UNCHANGED <<storeVars, feed, fstate, clock>>

\* Its save; poll-once goes on whether it succeeds or not.
SaveReset(p) ==
    /\ poll[p].at = "reset"
    /\ \/ fstate' = poll[p].st
       \/ "write" \in Faults /\ UNCHANGED fstate
    /\ Becomes(p, "ready", Fresh, 0)
    /\ UNCHANGED <<storeVars, feed, clock>>

\* LoadFeedState, the clock, and the cooldown check, which ends the poll before
\* anything is sent or saved.
StartPoll(p) ==
    /\ pc[p] = "idle"
    /\ poll[p].at = IF p \in Once THEN "ready" ELSE "none"
    /\ clock < MaxClock
    /\ clock' = clock + 1
    /\ IF fstate.retryAfter # 0 /\ clock' < fstate.retryAfter
       THEN poll' = [poll EXCEPT ![p] = NoPoll]
       ELSE Becomes(p, "sent", [fstate EXCEPT !.lastFetched = clock'], 0)
    /\ UNCHANGED <<storeVars, feed, fstate>>

\* Mutant: a 304 does not end the cooldown.
NotModifiedStillCooling(p) ==
    /\ poll[p].at = "sent"
    /\ poll[p].st.etag = Version
    /\ LET st == poll[p].st IN
       Becomes(p, "save", [Healthy(st) EXCEPT !.retryAfter = st.retryAfter], 0)
    /\ UNCHANGED <<storeVars, feed, fstate, clock>>

\* 304: reachable and unchanged is a healthy sync.
NotModified(p) ==
    /\ poll[p].at = "sent"
    /\ poll[p].st.etag = Version
    /\ Becomes(p, "save", Healthy(poll[p].st), 0)
    /\ UNCHANGED <<storeVars, feed, fstate, clock>>

\* 429 and 503: a cooldown from the header, or the default one.
Throttled(p, delay) ==
    /\ poll[p].at = "sent"
    /\ LET st == poll[p].st IN
       Becomes(p, "save", [Errored(st) EXCEPT !.retryAfter = st.lastFetched + delay], 0)
    /\ UNCHANGED <<storeVars, feed, fstate, clock>>

\* Anything else that ends in recordErr: no answer, another status, a body too
\* large, a resolver, parser or sticky-set error.
PollFails(p) ==
    /\ poll[p].at = "sent"
    /\ Becomes(p, "save", Errored(poll[p].st), 0)
    /\ UNCHANGED <<storeVars, feed, fstate, clock>>

\* 2xx: the items of the moment, sent to a client with no validator, an old one,
\* or by a publisher that ignores validators.
Downloaded(p) ==
    /\ poll[p].at = "sent"
    /\ Becomes(p, "append", poll[p].st, Version)
    /\ UNCHANGED <<storeVars, feed, fstate, clock>>

\* The entries go to AppendEntries, in the publisher's order; an item may be
\* listed more than once.
AppendDownloaded(p, entries) ==
    /\ poll[p].at = "append"
    /\ Range(entries) = feed[poll[p].version]
    /\ Snapshot(p, entries)
    /\ UNCHANGED pollVars

\* Mutant: the validators are kept even if AppendEntries failed.
AppendedAnyway(p) ==
    /\ poll[p].at = "append"
    /\ \/ Return(p)
       \/ feed[poll[p].version] = {} /\ UNCHANGED storeVars
    /\ Becomes(p, "save", [Healthy(poll[p].st) EXCEPT !.etag = poll[p].version], 0)
    /\ UNCHANGED <<feed, fstate, clock>>

\* AppendEntries has returned: only a success keeps the validators sent with the
\* entries.  An empty feed does not get as far as the files.
Appended(p) ==
    /\ poll[p].at = "append"
    /\ \/ Return(p)
       \/ feed[poll[p].version] = {} /\ UNCHANGED storeVars
    /\ IF failed[p]
       THEN Becomes(p, "save", Errored(poll[p].st), 0)
       ELSE Becomes(p, "save", [Healthy(poll[p].st) EXCEPT !.etag = poll[p].version], 0)
    /\ UNCHANGED <<feed, fstate, clock>>

\* SaveFeedState replaces the whole file with this poll's copy.
SaveState(p) ==
    /\ poll[p].at = "save"
    /\ fstate' = poll[p].st
    /\ poll' = [poll EXCEPT ![p] = NoPoll]
    /\ UNCHANGED <<storeVars, feed, clock>>

SaveFails(p) ==
    /\ "write" \in Faults
    /\ poll[p].at = "save"
    /\ poll' = [poll EXCEPT ![p] = NoPoll]
    /\ UNCHANGED <<storeVars, feed, fstate, clock>>

PollStep(p) ==
    \/ StoreStep(p) /\ UNCHANGED pollVars
    \/ Die(p)
    \/ ResetCooldown(p)
    \/ SaveReset(p)
    \/ StartPoll(p)
    \/ NotModified(p)
    \/ \E delay \in 1..MaxDelay : Throttled(p, delay)
    \/ PollFails(p)
    \/ Downloaded(p)
    \/ \E entries \in Batches : AppendDownloaded(p, entries)
    \/ Appended(p)
    \/ SaveState(p)
    \/ SaveFails(p)

PollNext ==
    /\ \/ \E p \in Procs : PollStep(p)
       \/ \E items \in SUBSET Hashes : Publish(items)
       \/ Wait
    /\ UNCHANGED shared

PollSpec == PollInit /\ [][PollNext]_allVars

-----------------------------------------------------------------------------

PollTypeOK ==
    /\ EntryTypeOK
    /\ feed \in Seq(SUBSET Hashes)
    /\ fstate \in FeedState
    /\ poll \in [Procs -> [at : {"none", "reset", "ready", "sent", "append", "save"},
                           st : FeedState, version : Nat]]
    /\ clock \in Nat

\* The stored validator is the publisher's licence to answer 304, so every item
\* of the version it names is already served: whatever fails or dies between the
\* append and the save, no entry is skipped for good.
ValidatorImpliesServed ==
    \A p \in Procs : Running(p) /\ fstate.etag # 0 =>
        feed[fstate.etag] \subseteq Range(idx[p])

\* The same, as long as no two processes run at a time.
ValidatorImpliesServedAlone == ~shared => ValidatorImpliesServed

\* LastSuccess trails LastFetched exactly while the feed is failing ("the two
\* diverge once a feed starts failing"), and a cooldown outlives no success.
HealthTold ==
    /\ fstate.failing <=> fstate.lastSuccess < fstate.lastFetched
    /\ fstate.retryAfter # 0 => fstate.failing
=============================================================================
