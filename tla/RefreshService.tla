--------------------------- MODULE RefreshService ---------------------------
(***************************************************************************)
(* What the refresher promises: passes over the feeds, one at a time, with *)
(* a bound on the feeds being polled and no feed polled twice at once; and *)
(* a close that takes effect only when nothing is being polled, and after  *)
(* which nothing ever is.                                                  *)
(***************************************************************************)
EXTENDS Naturals, FiniteSets

CONSTANTS Feeds, Concurrency

VARIABLES
    active,     \* a pass is under way
    polling,    \* the feeds being polled
    closed      \* Stop has returned

serviceVars == <<active, polling, closed>>

ServiceInit ==
    /\ active = FALSE
    /\ polling = {}
    /\ closed = FALSE

Begin ==
    /\ ~active /\ ~closed
    /\ active' = TRUE
    /\ UNCHANGED <<polling, closed>>

Poll(f) ==
    /\ active /\ ~closed
    /\ f \notin polling
    /\ Cardinality(polling) < Concurrency
    /\ polling' = polling \cup {f}
    /\ UNCHANGED <<active, closed>>

Finish(f) ==
    /\ f \in polling
    /\ polling' = polling \ {f}
    /\ UNCHANGED <<active, closed>>

End ==
    /\ active /\ polling = {}
    /\ active' = FALSE
    /\ UNCHANGED <<polling, closed>>

Close ==
    /\ ~active /\ polling = {}
    /\ closed' = TRUE
    /\ UNCHANGED <<active, polling>>

ServiceNext ==
    \/ Begin \/ End \/ Close
    \/ \E f \in Feeds : Poll(f) \/ Finish(f)

ServiceSpec == ServiceInit /\ [][ServiceNext]_serviceVars
=============================================================================
