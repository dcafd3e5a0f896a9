----------------------------- MODULE FlagStore -----------------------------
(***************************************************************************)
(* What the store promises about the read and starred flags, whatever it   *)
(* does to keep the promise: a durable value of each flag, changed one     *)
(* flag at a time by a request, and the value served to readers, which is  *)
(* nothing while the process is down and otherwise the durable value or    *)
(* the one just before the request being carried out.  Stopping, starting  *)
(* and housekeeping change no durable flag.                                *)
(***************************************************************************)
CONSTANTS
    Kinds,      \* the flags an entry has
    Hashes,     \* entries, by hash
    Down        \* what is served while no process runs

VARIABLES
    durable,    \* durable[k][h]: the value a restart would bring back
    served      \* the value readers see, or Down

vars == <<durable, served>>

Init ==
    /\ durable = [k \in Kinds |-> [h \in Hashes |-> FALSE]]
    /\ served = Down

\* A request becomes durable.  It starts only when the previous one is served.
Set(k, h, b) ==
    /\ served = durable
    /\ durable' = [durable EXCEPT ![k][h] = b]
    /\ UNCHANGED served

Publish == served # Down /\ served' = durable /\ UNCHANGED durable
Stop    == served' = Down /\ UNCHANGED durable
Start   == served = Down /\ served' = durable /\ UNCHANGED durable

Next ==
    \/ \E k \in Kinds, h \in Hashes, b \in BOOLEAN : Set(k, h, b)
    \/ Publish \/ Stop \/ Start

Spec == Init /\ [][Next]_vars
=============================================================================
