---------------------------- MODULE MCReplication ----------------------------
(* Instances of Replication for TLC.                                          *)
EXTENDS Replication, TLC

Symmetry == Permutations(Nodes)

\* Every replica has finished its full synchronization, of a dataset with w
\* writes in it; host gives the primary of each node.  c commands and f faults
\* of the bounds are taken to have happened.
Synced(host, w, c, f, spare) ==
    LET empty == [replid |-> 1, reploff |-> 0]
        data == [i \in 1..w |-> i]
        online == [repl_state |-> "online", psync_initial_offset |-> 0, repl_ack_off |-> 0]
    IN
    /\ server = [n \in Nodes |-> IF n = spare THEN Started(None, n) ELSE
         [Started(host[n], 1) EXCEPT !.repl_backlog = [offset |-> 1, buf |-> <<>>], !.db = data,
            !.repl_state = IF host[n] = None THEN "none" ELSE "connected",
            !.primary = IF host[n] = None THEN None ELSE empty,
            !.replicas = [r \in Nodes |-> IF host[r] = n THEN online ELSE None]]]
    /\ disk = [n \in Nodes |-> IF n = spare THEN None ELSE [db |-> data, info |-> empty]]
    /\ net = [n \in Nodes |-> [NoConnection EXCEPT !.peer = host[n], !.open = host[n] # None]]
    /\ written = w /\ ids = 1 /\ commands = c /\ faults = f
    /\ made = {[i \in 1..k |-> i] : k \in 0..w}

Star(p) == [n \in Nodes |-> IF n = p THEN None ELSE p]
Chain(p, q) == [n \in Nodes |-> IF n = p THEN None ELSE IF n = q THEN p ELSE q]

\* A spare node, started on its own and left alone: a system of two servers.
Pair(p, q) == [n \in Nodes |-> IF n = q THEN p ELSE None]
Spare(n) == server[n].replid \in Nodes

InitSynced ==
    \E p, q, s \in Nodes :
        /\ Cardinality({p, q, s}) = 3
        /\ \/ Synced(Star(p), 2, 1, 1, None)      \* a command, a write
           \/ Synced(Chain(p, q), 2, 1, 0, None)  \* a command, a fault, a write
           \/ Synced(Star(p), 1, 2, 0, None)      \* a fault, two writes
           \/ Synced(Pair(p, q), 0, 0, 1, s)      \* two commands, three writes
           \/ Synced(Pair(p, q), 1, 1, 0, s)      \* a command, a fault, two writes

\* The spare node stays idle; diskless BGSAVEs are for the systems with a spare.
Bounds ==
    /\ \A n \in Nodes : Spare(n) => /\ server'[n] = server[n]
                                    /\ \A m \in Nodes : server'[m].primary_host # n
    /\ (\A n \in Nodes : ~Spare(n)) =>
          \A n \in Nodes : server'[n].rdb_child = None \/ server'[n].rdb_child.type = "disk"

SpecSynced == InitSynced /\ [][Next]_vars
=============================================================================
