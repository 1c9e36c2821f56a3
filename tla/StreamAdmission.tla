--------------------------- MODULE StreamAdmission ---------------------------
(***************************************************************************)
(* What a stream listener promises about admission and shutdown, without   *)
(* permits, counters, tasks or polling: at most Limit clients at a time    *)
(* while it is open, none once it is closing, and "quiet" is reported only *)
(* when every client has left.  StreamProxy implements it.                 *)
(***************************************************************************)
EXTENDS Integers, FiniteSets

CONSTANTS
    Clients,
    Limit       \* 0 means unlimited

VARIABLES
    live,       \* admitted clients that have not left
    state       \* "open", "closing", "quiet", "forced" or "failed"

Init == live = {} /\ state = "open"

Admit(c) ==
    /\ state = "open"
    /\ c \notin live
    /\ Limit > 0 => Cardinality(live) < Limit
    /\ live' = live \cup {c}
    /\ UNCHANGED state

Leave(c) ==
    /\ c \in live
    /\ live' = live \ {c}
    /\ UNCHANGED state

\* Ends of the open period: a shutdown request, or the listener is lost.
Close == state = "open" /\ state' \in {"closing", "failed"} /\ UNCHANGED live

Quiet == state = "closing" /\ live = {} /\ state' = "quiet" /\ UNCHANGED live

Force == state = "closing" /\ state' = "forced" /\ UNCHANGED live

Next == Close \/ Quiet \/ Force \/ \E c \in Clients : Admit(c) \/ Leave(c)

Spec == Init /\ [][Next]_<<live, state>>
=============================================================================
