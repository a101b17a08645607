----------------------------- MODULE MCBlocked -----------------------------
(* Instances of Blocked for TLC.                                             *)
EXTENDS Blocked, TLC

CONSTANTS
    x, y,   \* the keys
    Pair    \* the two clients of the scenes with two

\* Two keys in order, a move between two keys, and a consumer group.
CommandsMixed ==
    {[op |-> "blpop", keys |-> <<y, x>>, db |-> 0, timed |-> TRUE],
     [op |-> "blmove", keys |-> <<x, y>>, db |-> 0, timed |-> FALSE],
     [op |-> "xreadgroup", keys |-> <<x>>, db |-> 0, timed |-> FALSE]}

\* Clients that wait for one list.
CommandPop == {[op |-> "blpop", keys |-> <<x>>, db |-> 0, timed |-> FALSE]}

Busy == {c \in Clients : client[c] # IdleClient}
Present == {sl \in Slots : value[sl] # Absent}
Immortal == \A sl \in Slots : ttl[sl] = "none"
Typed(types) == \A sl \in Present : value[sl].type \in types
Running(ops) == \A c \in Clients : client[c].cmd # None => client[c].cmd.op \in ops

\* Two clients and lists and strings at two keys.
TwoKeys ==
    /\ Busy \subseteq Pair /\ Running({"blpop", "blmove"})
    /\ Present \subseteq {0} \X Keys /\ Typed({"list", "string"}) /\ Immortal /\ ~ paused

\* Two clients and one key in two databases, which may be swapped.
TwoDatabases ==
    /\ Busy \subseteq Pair /\ Running({"blpop", "xreadgroup"})
    /\ Present \subseteq Dbs \X {x} /\ Typed(KeyTypes) /\ Immortal /\ ~ paused

\* Two clients, one key and pauses.
Pauses == Busy \subseteq Pair /\ Present \subseteq {<<0, x>>} /\ Immortal

\* Two clients and one key that may expire.
Expiry == Busy \subseteq Pair /\ Present \subseteq {<<0, x>>} /\ ~ paused

\* Three clients and one list that may expire.
Queue == Running({"blpop"}) /\ Present \subseteq {<<0, x>>} /\ Typed({"list"}) /\ ~ paused

\* Limits what is sent, written and paused.  The steps of Fairness leave no
\* scene: they start no command, create at most the destination of a move, and
\* set no time to live.
Scenes == (TwoKeys \/ TwoDatabases \/ Pauses \/ Expiry \/ Queue)'
=============================================================================
