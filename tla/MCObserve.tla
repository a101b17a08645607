----------------------------- MODULE MCObserve -----------------------------
(***************************************************************************)
(* Instances of Observe for TLC: the commands, the argument lists of       *)
(* UNOBSERVE and the restricted environments of single questions.          *)
(***************************************************************************)
EXTENDS Observe, TLC

CONSTANTS v1, v2

QueryGet == { << <<"GET">>, <<"x">> >> }

\* GET x and STRLEN x: two fingerprints of one key.
QueriesOneKey == QueryGet \cup { << <<"STRLEN">>, <<"x">> >> }

\* HMGET h "a b" and HMGET h a b.
QueriesSpaced ==
    { << <<"HMGET">>, <<"h">>, <<"a", "b">> >>, << <<"HMGET">>, <<"h">>, <<"a">>, <<"b">> >> }

ArgsSingle == {<<f>> : f \in Fingerprints}

ArgsPairs == {<<f, g>> : f, g \in Fingerprints}

\* Database 0 only.
OneDatabase ==
    /\ \A c \in Clients : clientDb[c] = 0
    /\ \A d \in Dbs \ {0}, k \in Keys : db[d][k] = None

\* GET x and the value v1 only.
OneCommand ==
    /\ \A c \in Clients : clientFps[c] \subseteq {Fingerprint[q] : q \in QueryGet}
    /\ \A d \in Dbs, k \in Keys : db[d][k] # v2
    /\ \A c \in Clients, f \in Fingerprints : view[c][f] = None \/ view[c][f].value # v2

\* Clients send nothing that leads out of both scenes, and no key changes in a
\* database while it is buffered for another: what the run observe_lost_update
\* goes without.
Scenes ==
    /\ (OneDatabase \/ OneCommand)'
    /\ \A k \in Keys : buffer[k] = None \/ buffer'[k] \in {None, buffer[k]}

\* No SELECT, SWAPDB, RESET, expiry or deletion: clients only subscribe,
\* write and come and go, each staying in the database it first selected.
WritersOnly(c) ==
    \/ Connect(c)
    \/ \E d \in Dbs : clientFps[c] = {} /\ Select(c, d)
    \/ \E version \in {2, 3} : Hello(c, version)
    \/ \E q \in Queries : Observe(c, q)
    \/ \E k \in Keys, v \in Values : Write(c, k, v)

SpecWriters ==
    /\ Init
    /\ [][(\E c \in Clients : WritersOnly(c)) \/ ObserveDebounceTimer]_vars
    /\ WF_vars(ObserveDebounceTimer)
=============================================================================
