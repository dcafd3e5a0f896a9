-------------------------- MODULE SubscriptionList --------------------------
(***************************************************************************)
(* What the subscriptions promise, however they are cached and saved: one  *)
(* list is shown, and every request takes effect on the whole of it at one *)
(* instant between the moment it is made and its answer.  A request        *)
(* answered with an error has no effect on what is shown.  What is kept is *)
(* what is shown, but after a save that failed half way: then it is what   *)
(* is shown with the refused request on it, until the next change undoes   *)
(* that or the death of the process makes it the list that is shown.       *)
(***************************************************************************)
EXTENDS Opml

CONSTANTS
    Clients,    \* concurrent requests
    Requests,   \* the requests they make
    Imports,    \* lists given to harb import
    Unsynced,   \* TRUE: a save may fail half way
    None, Done

VARIABLES
    list,       \* the subscriptions that are kept: what a restart shows
    served,     \* the subscriptions that are shown
    pending,    \* pending[c]: c's request, Done when it has taken effect
    reply       \* reply[c]: the last answer c got, None while it waits

listVars == <<list, served, pending, reply>>

ListInit ==
    /\ list \in List
    /\ served = list
    /\ pending = [c \in Clients |-> None]
    /\ reply = [c \in Clients |-> None]

Demand(c, r) ==
    /\ pending[c] = None
    /\ pending' = [pending EXCEPT ![c] = r]
    /\ reply' = [reply EXCEPT ![c] = None]
    /\ UNCHANGED <<list, served>>

\* The change is made and kept.
Effect(c) ==
    /\ pending[c] \notin {None, Done}
    /\ ~Aborts(pending[c], served)
    /\ served' = Changed(pending[c], served)
    /\ list' = served'
    /\ pending' = [pending EXCEPT ![c] = Done]
    /\ UNCHANGED reply

Settle(c, answer) ==
    /\ pending' = [pending EXCEPT ![c] = None]
    /\ reply' = [reply EXCEPT ![c] = answer]

Acknowledge(c) ==
    /\ pending[c] = Done
    /\ Settle(c, "ok")
    /\ UNCHANGED <<list, served>>

\* A listing changes nothing: it is answered at once.
Show(c) ==
    /\ pending[c] \notin {None, Done} /\ pending[c].op = "list"
    /\ Settle(c, "ok")
    /\ UNCHANGED <<list, served>>

NotThere(c) ==
    /\ pending[c] \notin {None, Done} /\ Aborts(pending[c], served)
    /\ Settle(c, "not found")
    /\ UNCHANGED <<list, served>>

Fail(c) ==
    /\ pending[c] \notin {None, Done}
    /\ Settle(c, "error")
    /\ UNCHANGED <<list, served>>

\* The save fails half way: the change is refused, but kept.
FailLate(c) ==
    /\ Unsynced
    /\ pending[c] \notin {None, Done} /\ ~Aborts(pending[c], served)
    /\ list' = Changed(pending[c], served)
    /\ Settle(c, "error")
    /\ UNCHANGED served

Reject(c) ==
    /\ pending[c] = None
    /\ Settle(c, "bad request")
    /\ UNCHANGED <<list, served>>

\* The process dies: whoever waited never gets an answer.
Lose ==
    /\ pending' = [c \in Clients |-> None]
    /\ reply' = [c \in Clients |-> None]
    /\ served' = list
    /\ UNCHANGED list

\* An import, while nothing is served from memory.
Import(inc) ==
    /\ list' = Imported(inc, list)
    /\ served' = list'
    /\ UNCHANGED <<pending, reply>>

ListNext ==
    \/ \E c \in Clients :
          \/ \E r \in Requests : Demand(c, r)
          \/ Effect(c) \/ Acknowledge(c) \/ Show(c)
          \/ NotThere(c) \/ Fail(c) \/ FailLate(c) \/ Reject(c)
    \/ Lose
    \/ \E inc \in Imports : Import(inc)

ListSpec == ListInit /\ [][ListNext]_listVars
=============================================================================
