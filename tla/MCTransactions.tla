-------------------------- MODULE MCTransactions --------------------------
(***************************************************************************)
(* Instances of Transactions for TLC.                                      *)
(***************************************************************************)
EXTENDS Transactions, TLC

CONSTANTS
    x,      \* the key of the scene with two databases
    Other   \* the client that queues nothing in the scene with two keys

\* No watcher stays flagged as expired for a key that is not expired: what the
\* run transactions_restore goes without.  The commands of a running EXEC never
\* lead there.
MCSpec == Init /\ [][Next /\ FlagMeansExpired']_vars /\ Fairness

Queued(ops) == \A c \in Clients : \A i \in DOMAIN queue[c] : queue[c][i].op \in ops

\* Two keys in database 0, and a queue of two commands.
TwoKeys ==
    /\ keys \subseteq {0} \X Keys
    /\ \A c \in Clients : clientDb[c] = 0 /\ watched[c] \subseteq {0} \X Keys
    /\ Queued({"set", "get"}) /\ queue[Other] = <<>>

\* One key in two databases, and queues of one command.
TwoDatabases ==
    /\ keys \subseteq Dbs \X {x}
    /\ \A c \in Clients : /\ watched[c] \subseteq Dbs \X {x}
                          /\ queue[c] \in {<<>>, <<[op |-> "set", key |-> x]>>}

Scenes == (TwoKeys \/ TwoDatabases)'
=============================================================================
