---------------------------- MODULE WriteHistory ----------------------------
(* What replication promises: clients make datasets by writing, and a server  *)
(* otherwise only moves to a dataset that was made that way, whatever is      *)
(* lost, promoted, demoted or restarted.  No write is ever applied to other   *)
(* data than the data it was made on.                                         *)
EXTENDS Sequences

CONSTANTS
    Nodes,   \* the servers
    Writes   \* the writes of clients

VARIABLES
    db,      \* per server the writes its dataset is made of, in order
    made     \* the datasets made by clients so far

vars == <<db, made>>

Init ==
    /\ <<>> \in made
    /\ db \in [Nodes -> made]

\* A client's write, on the data of one server.
Write(n, w) ==
    /\ \A d \in made : w \notin {d[i] : i \in DOMAIN d}
    /\ db' = [db EXCEPT ![n] = Append(@, w)]
    /\ made' = made \cup {Append(db[n], w)}

\* Replication, a restart: the server has the data of some server at some time.
Move(n) ==
    /\ UNCHANGED made
    /\ \E d \in made : db' = [db EXCEPT ![n] = d]

Next ==
    \E n \in Nodes :
        \/ Move(n)
        \/ \E w \in Writes : Write(n, w)

Spec == Init /\ [][Next]_vars
=============================================================================
