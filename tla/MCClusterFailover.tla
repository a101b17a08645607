------------------------- MODULE MCClusterFailover -------------------------
(* One primary (1) with two replicas (2, 3) and two other primaries (4, 5). *)
EXTENDS ClusterFailover

MCPrimary == [i \in Nodes |-> IF i \in {2, 3} THEN 1 ELSE None]
MCOwner == [s \in Slots |-> s]

Scenario(cut, elections, commands, restarts, delays) ==
    [cut |-> cut, elections |-> elections, commands |-> commands,
     restarts |-> restarts, delays |-> delays]

MCScenarios ==
    {Scenario({1}, 2, 0, 1, 0),      \* two elections for one primary, and a restart
     Scenario({1}, 1, 0, 1, 1),      \* an election, a restart and a packet held up
     Scenario({5}, 1, 1, 0, 0),      \* an election or not, and an operator
     Scenario({5}, 0, 2, 0, 0),      \* two operators
     Scenario({5}, 0, 1, 0, 1),      \* an operator and a packet held up
     Scenario({4, 5}, 0, 2, 0, 1)}   \* two operators and a packet held up, in one shard

\* Votes arrive while the election they were asked for is open: what the run
\* cluster_late_vote goes without.
VotesInTime ==
    \A i \in Nodes :
        node'[i].auth.count > node[i].auth.count => node[i].auth.on /\ node[i].auth.sent

\* Two elections by each replica.
LateVoteScenarios == {Scenario({1}, 4, 0, 0, 0)}

\* All pings between the elections are late or lost.
NoGossip == <<failed, asked, net, won, left>>' # <<failed, asked, net, won, left>>
=============================================================================
