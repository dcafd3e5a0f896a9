----------------------------- MODULE Refresher ------------------------------
(***************************************************************************)
(* Refresh cycles (internal/poll, Refresher): Trigger called by the ticker *)
(* and by every request, the cycle goroutine with its bounded workers, the *)
(* ticker goroutine, and Stop, called once by `harb serve` on its way out  *)
(* while handlers that outlived Shutdown may still be calling Trigger.     *)
(*                                                                         *)
(* A critical section of Refresher.mu is one step; so is every atomic      *)
(* operation, channel operation, wg.Add, wg.Done and go statement outside. *)
(***************************************************************************)
EXTENDS Naturals, FiniteSets

CONSTANTS
    Requests,       \* goroutines of the HTTP server that may call Trigger
    Ticker,         \* the ticker goroutine
    Cycles,         \* cycle goroutines: bounds those alive at once
    Feeds,          \* feed URLs; the OPML lists each once
    NoFeed,
    Concurrency     \* Refresher.Concurrency

ASSUME RefresherAssumption ==
    /\ IsFiniteSet(Requests) /\ IsFiniteSet(Cycles) /\ IsFiniteSet(Feeds)
    /\ Ticker \notin Requests
    /\ NoFeed \notin Feeds
    /\ Concurrency \in Nat \ {0}

VARIABLES
    inFlight,   \* Refresher.inFlight
    stopped,    \* Refresher.stopped
    wg,         \* the counter of Refresher.wg
    tickDone,   \* the ticker's context is cancelled
    baseDone,   \* Refresher.baseCtx is cancelled
    main,       \* where the goroutine that calls Start and Stop is
    ticker,     \* where the ticker goroutine is
    trig,       \* where each caller of Trigger is in it
    at,         \* where each cycle goroutine is in Refresher.cycle
    todo,       \* its feeds not yet dispatched
    cur,        \* the feed it is dispatching
    held,       \* the slots taken in its semaphore
    busy,       \* the feeds whose worker is in Poll
    leaving     \* the feeds whose worker has still to call workers.Done

shared == <<inFlight, stopped, wg, tickDone, baseDone, main, ticker, trig>>
cycles == <<at, todo, cur, held, busy, leaving>>
vars == <<shared, cycles>>

Callers == Requests \cup {Ticker}

Init ==
    /\ inFlight = 0
    /\ stopped = FALSE
    /\ wg = 0
    /\ tickDone = FALSE
    /\ baseDone = FALSE
    /\ main = "init"
    /\ ticker = "off"
    /\ trig = [c \in Callers |-> "out"]
    /\ at = [i \in Cycles |-> "none"]
    /\ todo = [i \in Cycles |-> {}]
    /\ cur = [i \in Cycles |-> NoFeed]
    /\ held = [i \in Cycles |-> 0]
    /\ busy = [i \in Cycles |-> {}]
    /\ leaving = [i \in Cycles |-> {}]

-----------------------------------------------------------------------------
(* harb serve: Start, serve, Stop.                                         *)

\* Mutant: the ticker goroutine is not counted.
StartUncounted ==
    /\ main = "init"
    /\ main' = "serving"
    /\ ticker' = "trigger"
    /\ UNCHANGED <<inFlight, stopped, wg, tickDone, baseDone, trig, cycles>>

\* Start: no other goroutine uses the Refresher yet.  The ticker goroutine kicks
\* a cycle before it waits for its first tick.
Start ==
    /\ main = "init"
    /\ main' = "serving"
    /\ wg' = wg + 1
    /\ ticker' = "trigger"
    /\ UNCHANGED <<inFlight, stopped, tickDone, baseDone, trig, cycles>>

\* A signal cancels the context Start was given, the parent of the ticker's.
Signal ==
    /\ main = "serving"
    /\ main' = "stop"
    /\ tickDone' = TRUE
    /\ UNCHANGED <<inFlight, stopped, wg, baseDone, ticker, trig, cycles>>

\* The listener fails: the deferred Stop runs before the context is cancelled.
ServeFails ==
    /\ main = "serving"
    /\ main' = "stop"
    /\ UNCHANGED <<inFlight, stopped, wg, tickDone, baseDone, ticker, trig, cycles>>

\* Stop, under mu.
StopMark ==
    /\ main = "stop"
    /\ main' = "cancelTicker"
    /\ stopped' = TRUE
    /\ UNCHANGED <<inFlight, wg, tickDone, baseDone, ticker, trig, cycles>>

StopTicker ==
    /\ main = "cancelTicker"
    /\ main' = "cancelBase"
    /\ tickDone' = TRUE
    /\ UNCHANGED <<inFlight, stopped, wg, baseDone, ticker, trig, cycles>>

StopBase ==
    /\ main = "cancelBase"
    /\ main' = "wait"
    /\ baseDone' = TRUE
    /\ UNCHANGED <<inFlight, stopped, wg, tickDone, ticker, trig, cycles>>

\* wg.Wait returns.
StopWait ==
    /\ main = "wait"
    /\ wg = 0
    /\ main' = "returned"
    /\ UNCHANGED <<inFlight, stopped, wg, tickDone, baseDone, ticker, trig, cycles>>

-----------------------------------------------------------------------------
(* Trigger.                                                                *)

\* The ticker goroutine returns from Trigger to its select.
Back(c) == ticker' = IF c = Ticker THEN "select" ELSE ticker

Calls(c) ==
    /\ trig[c] = "out"
    /\ IF c = Ticker THEN ticker = "trigger" ELSE main # "init"

\* The compare-and-swap succeeds.
Win(c) ==
    /\ Calls(c)
    /\ inFlight = 0
    /\ inFlight' = 1
    /\ trig' = [trig EXCEPT ![c] = "won"]
    /\ UNCHANGED <<stopped, wg, tickDone, baseDone, main, ticker, cycles>>

\* It fails: a request goes on its way, the ticker back to its select.
Lose ==
    /\ Calls(Ticker)
    /\ inFlight = 1
    /\ Back(Ticker)
    /\ UNCHANGED <<inFlight, stopped, wg, tickDone, baseDone, main, trig, cycles>>

\* Mutant: stopped is not looked at.
AdmitAlways(c) ==
    /\ trig[c] = "won"
    /\ wg' = wg + 1
    /\ trig' = [trig EXCEPT ![c] = "admitted"]
    /\ UNCHANGED <<inFlight, stopped, tickDone, baseDone, main, ticker, cycles>>

\* Under mu: the cycle is counted before Stop can wait.
Admit(c) ==
    /\ trig[c] = "won"
    /\ ~stopped
    /\ wg' = wg + 1
    /\ trig' = [trig EXCEPT ![c] = "admitted"]
    /\ UNCHANGED <<inFlight, stopped, tickDone, baseDone, main, ticker, cycles>>

Refuse(c) ==
    /\ trig[c] = "won"
    /\ stopped
    /\ trig' = [trig EXCEPT ![c] = "refused"]
    /\ UNCHANGED <<inFlight, stopped, wg, tickDone, baseDone, main, ticker, cycles>>

Undo(c) ==
    /\ trig[c] = "refused"
    /\ inFlight' = 0
    /\ trig' = [trig EXCEPT ![c] = "out"]
    /\ Back(c)
    /\ UNCHANGED <<stopped, wg, tickDone, baseDone, main, cycles>>

\* go r.cycle(ctx)
Spawn(c, i) ==
    /\ trig[c] = "admitted"
    /\ at[i] = "none"
    /\ at' = [at EXCEPT ![i] = "load"]
    /\ trig' = [trig EXCEPT ![c] = "out"]
    /\ Back(c)
    /\ UNCHANGED <<inFlight, stopped, wg, tickDone, baseDone, main,
                   todo, cur, held, busy, leaving>>

-----------------------------------------------------------------------------
(* The ticker goroutine.                                                   *)

Tick ==
    /\ ticker = "select"
    /\ ticker' = "trigger"
    /\ UNCHANGED <<inFlight, stopped, wg, tickDone, baseDone, main, trig, cycles>>

\* tctx.Done is one of the ready cases, the deferred wg.Done follows.
TickerExit ==
    /\ ticker = "select"
    /\ tickDone
    /\ ticker' = "off"
    /\ wg' = wg - 1
    /\ UNCHANGED <<inFlight, stopped, tickDone, baseDone, main, trig, cycles>>

-----------------------------------------------------------------------------
(* cycle.                                                                  *)

\* Feeds is the OPML of the moment; none, or none readable, ends the cycle.
LoadFeeds(i, urls) ==
    /\ at[i] = "load"
    /\ at' = [at EXCEPT ![i] = IF urls = {} THEN "release" ELSE "next"]
    /\ todo' = [todo EXCEPT ![i] = urls]
    /\ UNCHANGED <<shared, cur, held, busy, leaving>>

NextFeed(i, f) ==
    /\ at[i] = "next"
    /\ ~baseDone
    /\ f \in todo[i]
    /\ at' = [at EXCEPT ![i] = "acquire"]
    /\ cur' = [cur EXCEPT ![i] = f]
    /\ todo' = [todo EXCEPT ![i] = @ \ {f}]
    /\ UNCHANGED <<shared, held, busy, leaving>>

\* The select: a slot, or the cancellation, whichever is ready.
Acquire(i) ==
    /\ at[i] = "acquire"
    /\ held[i] < Concurrency
    /\ at' = [at EXCEPT ![i] = "check"]
    /\ held' = [held EXCEPT ![i] = @ + 1]
    /\ UNCHANGED <<shared, todo, cur, busy, leaving>>

GiveUp(i) ==
    /\ at[i] = "acquire"
    /\ baseDone
    /\ at' = [at EXCEPT ![i] = "check"]
    /\ UNCHANGED <<shared, todo, cur, held, busy, leaving>>

\* workers.Add(1); go func
Dispatch(i) ==
    /\ at[i] = "check"
    /\ ~baseDone
    /\ at' = [at EXCEPT ![i] = "next"]
    /\ busy' = [busy EXCEPT ![i] = @ \cup {cur[i]}]
    /\ cur' = [cur EXCEPT ![i] = NoFeed]
    /\ UNCHANGED <<shared, todo, held, leaving>>

\* Mutant: the loop may be left with feeds to dispatch.
LeaveLoopEarly(i) ==
    /\ \/ at[i] = "next"
       \/ at[i] = "check" /\ baseDone
    /\ at' = [at EXCEPT ![i] = "drain"]
    /\ cur' = [cur EXCEPT ![i] = NoFeed]
    /\ UNCHANGED <<shared, todo, held, busy, leaving>>

\* The loop is over or broken out of.
LeaveLoop(i) ==
    /\ \/ at[i] = "next" /\ (todo[i] = {} \/ baseDone)
       \/ at[i] = "check" /\ baseDone
    /\ at' = [at EXCEPT ![i] = "drain"]
    /\ cur' = [cur EXCEPT ![i] = NoFeed]
    /\ UNCHANGED <<shared, todo, held, busy, leaving>>

\* A worker: Poll returns and the slot is given back.
FinishPoll(i, f) ==
    /\ f \in busy[i]
    /\ busy' = [busy EXCEPT ![i] = @ \ {f}]
    /\ leaving' = [leaving EXCEPT ![i] = @ \cup {f}]
    /\ held' = [held EXCEPT ![i] = @ - 1]
    /\ UNCHANGED <<shared, at, todo, cur>>

WorkerDone(i, f) ==
    /\ f \in leaving[i]
    /\ leaving' = [leaving EXCEPT ![i] = @ \ {f}]
    /\ UNCHANGED <<shared, at, todo, cur, held, busy>>

\* Mutant: the cycle does not wait for its workers.
DrainedAtOnce(i) ==
    /\ at[i] = "drain"
    /\ at' = [at EXCEPT ![i] = "release"]
    /\ UNCHANGED <<shared, todo, cur, held, busy, leaving>>

\* workers.Wait returns.
Drained(i) ==
    /\ at[i] = "drain"
    /\ busy[i] = {} /\ leaving[i] = {}
    /\ at' = [at EXCEPT ![i] = "release"]
    /\ UNCHANGED <<shared, todo, cur, held, busy, leaving>>

\* Mutant: inFlight is not given back.
ReleaseNothing(i) ==
    /\ at[i] = "release"
    /\ at' = [at EXCEPT ![i] = "done"]
    /\ UNCHANGED <<shared, todo, cur, held, busy, leaving>>

\* The deferred calls, last one first: inFlight is given back before wg.Done.
Release(i) ==
    /\ at[i] = "release"
    /\ at' = [at EXCEPT ![i] = "done"]
    /\ inFlight' = 0
    /\ UNCHANGED <<stopped, wg, tickDone, baseDone, main, ticker, trig,
                   todo, cur, held, busy, leaving>>

\* Mutant: wg.Done is not called.
CycleExitUncounted(i) ==
    /\ at[i] = "done"
    /\ at' = [at EXCEPT ![i] = "none"]
    /\ todo' = [todo EXCEPT ![i] = {}]
    /\ held' = [held EXCEPT ![i] = 0]
    /\ UNCHANGED <<shared, cur, busy, leaving>>

\* Its variables die with the goroutine.
CycleExit(i) ==
    /\ at[i] = "done"
    /\ at' = [at EXCEPT ![i] = "none"]
    /\ todo' = [todo EXCEPT ![i] = {}]
    /\ held' = [held EXCEPT ![i] = 0]
    /\ wg' = wg - 1
    /\ UNCHANGED <<inFlight, stopped, tickDone, baseDone, main, ticker, trig,
                   cur, busy, leaving>>

-----------------------------------------------------------------------------

Stop == StopMark \/ StopTicker \/ StopBase \/ StopWait

InTrigger(c) == Admit(c) \/ Refuse(c) \/ Undo(c) \/ \E i \in Cycles : Spawn(c, i)

CycleStep(i) ==
    \/ \E urls \in SUBSET Feeds : LoadFeeds(i, urls)
    \/ \E f \in Feeds : NextFeed(i, f)
    \/ Acquire(i) \/ GiveUp(i) \/ Dispatch(i) \/ LeaveLoop(i)
    \/ Drained(i) \/ Release(i) \/ CycleExit(i)

Worker(i, f) == FinishPoll(i, f) \/ WorkerDone(i, f)

Next ==
    \/ Start \/ Signal \/ ServeFails \/ Stop
    \/ \E c \in Callers : Win(c) \/ InTrigger(c)
    \/ Lose \/ Tick \/ TickerExit
    \/ \E i \in Cycles : CycleStep(i) \/ \E f \in Feeds : Worker(i, f)

\* Goroutines are scheduled, a Poll ends (its client has a timeout), the ticker
\* ticks, and a select with two cases always ready does not always take the same.
\* Requests, the signal and the listener's failure may never come.
Fairness ==
    /\ WF_vars(Stop)
    /\ \A c \in Callers : WF_vars(InTrigger(c))
    /\ WF_vars(Win(Ticker) \/ Lose) /\ WF_vars(Tick) /\ SF_vars(TickerExit)
    /\ \A i \in Cycles : WF_vars(CycleStep(i))
    /\ \A i \in Cycles, f \in Feeds : WF_vars(Worker(i, f))

Spec == Init /\ [][Next]_vars
FairSpec == Spec /\ Fairness

-----------------------------------------------------------------------------

TypeOK ==
    /\ inFlight \in {0, 1}
    /\ stopped \in BOOLEAN
    /\ wg \in Nat
    /\ tickDone \in BOOLEAN
    /\ baseDone \in BOOLEAN
    /\ main \in {"init", "serving", "stop", "cancelTicker", "cancelBase", "wait",
                 "returned"}
    /\ ticker \in {"off", "trigger", "select"}
    /\ trig \in [Callers -> {"out", "won", "admitted", "refused"}]
    /\ at \in [Cycles -> {"none", "load", "next", "acquire", "check", "drain",
                          "release", "done"}]
    /\ todo \in [Cycles -> SUBSET Feeds]
    /\ cur \in [Cycles -> Feeds \cup {NoFeed}]
    /\ held \in [Cycles -> Nat]
    /\ busy \in [Cycles -> SUBSET Feeds]
    /\ leaving \in [Cycles -> SUBSET Feeds]

\* A cycle that has not yet given inFlight back.
Flying(i) == at[i] \notin {"none", "done"}

\* "inFlight is 1 iff a cycle goroutine is currently running": it is 1 exactly
\* when one caller is on its way to a cycle, or one cycle runs, and never two,
\* though a new cycle may start before the last one has called wg.Done.
SingleFlight ==
    LET owners == {c \in Callers : trig[c] # "out"}
        flying == {i \in Cycles : Flying(i)}
    IN /\ inFlight = 0 => owners = {} /\ flying = {}
       /\ inFlight = 1 => \/ \E c \in Callers : owners = {c} /\ flying = {}
                          \/ \E i \in Cycles : owners = {} /\ flying = {i}

\* At most Concurrency polls run at once, over all cycles, and no feed is polled
\* by two of them: AppendEntries relies on it.
OnePollPerFeed ==
    \A i, j \in Cycles : i # j => busy[i] = {} \/ busy[j] = {}

BoundedPolls ==
    \A i \in Cycles : Cardinality(busy[i]) <= Concurrency

\* When Stop returns no cycle, worker or ticker is alive and none can start,
\* whatever Trigger was doing.
StopIsFinal ==
    main = "returned" =>
        /\ ticker = "off"
        /\ \A i \in Cycles : at[i] = "none" /\ busy[i] = {} /\ leaving[i] = {}
        /\ \A c \in Callers : trig[c] # "admitted"

-----------------------------------------------------------------------------
(* The inductive invariant behind the safety properties.                   *)

Alive == {i \in Cycles : at[i] # "none"}
Admitted == {c \in Callers : trig[c] = "admitted"}

\* wg counts the cycles spawned or about to be, and the ticker goroutine.
Counted ==
    wg = Cardinality(Alive) + Cardinality(Admitted) + (IF ticker = "off" THEN 0 ELSE 1)

\* SingleFlight, caller by caller and cycle by cycle.
OneOwner ==
    /\ inFlight = 0 => /\ \A c \in Callers : trig[c] = "out"
                       /\ \A i \in Cycles : ~Flying(i)
    /\ inFlight = 1 => \/ \E c \in Callers : trig[c] # "out"
                       \/ \E i \in Cycles : Flying(i)
    /\ \A c, d \in Callers : trig[c] # "out" /\ trig[d] # "out" => c = d
    /\ \A i, j \in Cycles : Flying(i) /\ Flying(j) => i = j
    /\ \A c \in Callers, i \in Cycles : trig[c] # "out" => ~Flying(i)

\* A slot is held for every poll, and for the one about to start.
Slots ==
    \A i \in Cycles :
        /\ held[i] <= Concurrency
        /\ Cardinality(busy[i]) <= held[i]
        /\ at[i] = "check" /\ ~baseDone => Cardinality(busy[i]) < held[i]

\* Workers belong to a cycle in its loop or draining; a feed is dispatched once.
Workers ==
    \A i \in Cycles :
        /\ at[i] \in {"none", "load", "release", "done"} =>
               busy[i] = {} /\ leaving[i] = {}
        /\ at[i] \in {"none", "load"} => held[i] = 0 /\ todo[i] = {}
        /\ todo[i] \cap busy[i] = {}
        /\ IF at[i] \in {"acquire", "check"}
           THEN cur[i] \in Feeds \ (todo[i] \cup busy[i])
           ELSE cur[i] = NoFeed

\* How far main has come tells what is cancelled and who may be alive.
Progress ==
    /\ stopped <=> main \in {"cancelTicker", "cancelBase", "wait", "returned"}
    /\ main = "init" => ticker = "off" /\ \A c \in Callers : trig[c] = "out"
    /\ trig[Ticker] # "out" => ticker = "trigger"
    /\ main = "returned" => wg = 0

RefresherInv == TypeOK /\ OneOwner /\ Counted /\ Slots /\ Workers /\ Progress

-----------------------------------------------------------------------------

\* Stop returns.
StopReturns == main = "stop" ~> main = "returned"

\* An idle server polls for ever: while it serves, another cycle begins.
KeepsPolling ==
    main = "serving" ~> (main # "serving" \/ \E i \in Cycles : at[i] = "load")

\* Every feed of a cycle is polled, unless Stop cancels the cycle first.
EveryFeedPolled ==
    \A i \in Cycles, f \in Feeds :
        f \in todo[i] ~> (f \in busy[i] \/ baseDone)

-----------------------------------------------------------------------------
(* Refresher implements RefreshService.                                    *)

Service == INSTANCE RefreshService WITH
    active <- \E i \in Cycles : Flying(i),
    polling <- UNION {busy[i] : i \in Cycles},
    closed <- main = "returned"

\* Seen from outside, passes do not overlap and Stop closes the service.
ImplementsService == Service!ServiceSpec
=============================================================================
