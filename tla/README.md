# Verification of DiceDB

DiceDB is a fork of Valkey 8.0 that adds live queries (`OBSERVE`). This
directory holds TLA+ models of the parts of the server in which several clients,
several servers or a server and its disk meet, TLC configurations that check them
on small instances, and TLAPS proofs of the central invariants for every
instance. Paths below are relative to `src/src/` unless they say otherwise.

## The system

The server executes one command, timer or cron step at a time in the main
thread. Inside one server it is hard that a command has effects on *other*
clients, whose state is kept in indexes spread over several structures and
released from many places. Everything hangs on one event, "this key changed":

```
 command -> call() -> dbAdd / dbSetValue / dbDelete        (db.c)
                        |- signalKeyAsReady / signalDeletedKeyAsReady -> blocked clients
                        '- signalModifiedKey -+- touchWatchedKey      -> transactions
                                              |- trackingInvalidateKey-> client-side caches
                                              '- observeNotifyKeyChange -> live queries
 FLUSHDB, SWAPDB  -> touchAllWatchedKeysInDb, scanDatabaseFor{Ready,Deleted}Keys
 beforeSleep      -> timeouts of blocked clients, unblocked clients, pending writes
 freeClient/RESET -> every index the client is in
```

Beyond one server the same write goes three ways, each with failures of its own:

```
 call() -> propagateNow -+- feedAppendOnlyFile -> aof_buf -> write, fsync -> files + manifest
                         '- replicationFeedReplicas -> backlog -> links -> replicas
 cluster bus: PING/PONG/UPDATE headers, vote requests and votes -> who serves a slot
```

### Inventory

| Part | State | Operations | Hard behaviour |
|---|---|---|---|
| Live queries, `observe.c` | per client, per fingerprint and per key copies of the subscriptions; counter of observers; debounce buffer and timer | OBSERVE, UNOBSERVE, key change, flush, disconnect | a flush that deletes an expired key and refills the buffer it is emptying; SELECT between change and flush; one buffer for all databases |
| Transactions, `multi.c` | queue, dirty flags, watched keys linked into two lists, `wk->expired` | WATCH, UNWATCH, MULTI, queueing, EXEC, DISCARD, touch | keys already expired when watched; FLUSHDB and SWAPDB; the queue freed by a touch |
| Blocked clients, `blocked.c`, `timeout.c` | waiting lists per key, counters by type, ready keys twice, timeout table, unblocked and postponed lists | BLPOP, BLMOVE, XREADGROUP, serving, timeout, CLIENT UNBLOCK, PAUSE, role change | a served command that makes other keys ready or blocks again; the list being iterated changes; four ways to leave |
| Keyspace, `db.c`, `expire.c` | values, expiry | add, overwrite, delete, flush, swap, expire | which signal each path sends |
| Client-side caching, `tracking.c` | invalidation table, prefixes, pending keys | remember, invalidate, evict | deferral to the end of EXEC |
| I/O threads, `io_threads.c` | job rings, client I/O state | push, process, collect | relaxed memory order, closing a client in flight |
| Replication, `replication.c` | ids, offsets, backlog, replica states, cached primary, RDB file | feed, PSYNC, full synchronization, REPLICAOF, FAILOVER | histories that fork at promotion; a link the two ends see break at different times; a restart with old ids |
| Persistence, `aof.c`, `bio.c`, `rdb.c` | buffer, manifest, base and incremental files, child, fsync worker | append, flush, rewrite, switch on and off, load | a crash, a power failure or a failed call between any two file operations |
| Cluster, `cluster_legacy.c` | epochs, votes, slots, `nodes.conf` | gossip, vote, failover, takeover | lost, repeated and delayed messages, restarts, elections at the same time |

`PROJECT.json` lists all parts, those left out with the reason, and the hazards
of the code at the line where they bite.

## Modules

| Module | Models | Content |
|---|---|---|
| `Observe` | `observe.c` and its hooks in `db.c`, `networking.c`, `server.c`, `config.c` | specification |
| `Transactions` | `multi.c` and the commands that touch watched keys | specification |
| `Blocked` | `blocked.c`, `timeout.c`, the blocking commands and the writes that wake them | specification |
| `Replication` | `replication.c`, with the callers in `server.c`, `rdb.c`, `networking.c` | specification |
| `WriteHistory` | what replication promises | abstract specification |
| `AppendOnlyFile` | `aof.c`, the worker in `bio.c`, the cron and CONFIG SET around them | specification |
| `ClusterFailover` | `cluster_legacy.c` | specification |
| `MCObserve`, `MCTransactions`, `MCBlocked`, `MCReplication`, `MCAppendOnlyFile`, `MCClusterFailover` | instances for TLC | constants, initial states, symmetry |
| `ObserveProofs`, `TransactionsProofs`, `ClusterFailoverProofs` | theorems | proofs |

A definition keeps the name of the C function it stands for, in the form it has
in C or capitalised. Definitions whose comment says *Mutant* are deliberately
wrong variants of the definition that follows: substituting one must make TLC
report the property named in `PROJECT.json`, which shows that the property is
about the code and not about the shape of the model.

### Observe

A query is a sequence of arguments, an argument a sequence of words: the
fingerprint joins the arguments with spaces before hashing, so `"a b"` and `a`,
`b` are the same to it. The hash of the joined text is taken to be injective. Lists are
counted (`clientsOf[f][c]`, `keyFps[k][f]`) so that a node added twice or left
behind shows. `view` is the last result the client received for a fingerprint.

One action is one handler: `Observe(c, q)` is `genericObserveCommand` with the
subscription, the reply and `markClientAsObserving`; a write is `setKey` with
the notification or buffering it triggers; `ObserveDebounceTimer` is the timer
handler with the whole flush, including the deletion of expired keys it meets
and the return value that keeps or ends the timer. `alive` becomes FALSE when
the code would follow a null pointer; nothing happens afterwards, which is why
deadlock is not checked in the runs that allow it.

### Transactions

Values do not matter to WATCH, so the keyspace is two sets: keys present and,
among them, keys past their time. The order of a key's list of watchers is the
relation `ahead`; it matters because `touchWatchedKey` leaves its loop early.
EXEC is modelled command by command (`ExecBegin`, `ExecCommand`, `ExecDenied`,
`ExecEnd`): between two commands only the clock can move, which the guard
`Idle` of all other actions expresses. `moved[c]` is a history variable: since
the client watched a key, that key was written or changed for its readers.

### Blocked

The functions of `blocked.c` change a dozen structures and call each other, so
they are operators from a server state (a record) to the next; an action applies
them to `Now` and installs the result with `Become`. A key holds nothing, a
string, a list of some length or a stream with a number of unread entries and
possibly the consumer group. The main thread is `idle`, inside a transaction of
writes (`exec`), or `serving`; serving takes one step per client so that the
iterator (`cursor`) and the lists it walks are visible in between. Timeouts are
relative to the clock: never, in the future, past. `older` is a history variable
for the order of service.

A key may have a time to live (`ttl`). Commands judge it by a cached time, which
moves in every turn of the event loop (`KeyExpires`) and with the command of every
client that is served (`enterExecutionUnit`; `late` is the set of keys that have
expired since). An expired key is deleted by the lookup of a command, or by the
expire cycle, whose signal stays queued until the next turn (`BlockedBeforeSleep`).

### Replication and WriteHistory

`server[n]` is the state of one process, a record; the functions of
`replication.c` are operators from one such record to the next. A dataset is the
sequence of the writes that made it, so that two servers have the same data
exactly if the same writes were applied in the same order. A unit of the stream
is one write and fills one block of the backlog; a partial synchronization sends
the rest of the backlog, a full one the content of an RDB file that a child
wrote earlier, to disk or straight to the sockets. `net[n]` is the connection
node `n` has opened to its primary: it delivers in order, loses its tail when it
breaks, and the two ends notice at different times. `disk[n]` is the RDB file
with the replication id and offset a restart takes up again.

`WriteHistory` has no ids, offsets or backlog: clients make datasets by writing,
and a server otherwise only moves to a dataset that was made that way. The
property `ImplementsHistory` is that `Replication` implements it, with `db`
mapped to `server[n].db`. It rules out what ids and offsets are there to prevent:
a replica that continues from its own offset on another history.

### AppendOnlyFile

A file is an inode with the writes it holds, how many of them survive a power
failure, and whether its tail is torn; `dir` gives names to inodes and holds the
manifest; `durable` is the set of states a power failure may leave the directory
in. A handler that changes the directory more than once is one action per
change, ordered by `main.at`, and `Crash` and `PowerLoss` may come between any
two. `Fault(place)` lets a system call fail where the code handles it, and the
error path is part of the action. `promised` is a history variable: the writes
acknowledged while `appendfsync` was `always`.

### ClusterFailover

`node[i]` is what node `i` holds in memory about all nodes; `saved[i]` the epochs
in its `nodes.conf`. A handler and the saving in `clusterBeforeSleep` are one
step. Vote requests stay available in `asked` (they may be lost, late, or
received twice), votes and delayed packets travel in `net`; an ordinary ping is
delivered at once, because a ping that comes later carries the later header and
one that is held up is `PingDelayed`. Delays, ranks and timeouts are left out:
any amount of time may pass between two steps. A node in `cut` is unreachable for
good, the case a failover is for.

## What is checked

Every run finishes within four minutes on two cores.

| Run | Instance | Shows |
|---|---|---|
| `observe` | 2 clients, debouncing on and off: GET and STRLEN of one key in one database with 2 values, or GET in 2 databases with 1 value; 50,344 states | `TypeOK`; `IndexConsistent`: the three copies agree and no list keeps a freed client; `ObservingCountExact`; `BufferedChangeHasTimer`; `DeliveredResultIsCurrent`: what is pushed is what the client's own database holds now; `SubscribersCatchUp`: no change is lost, whatever happens between buffer, timer and CONFIG SET |
| `observe_lost_update` | GET, 2 databases, clients that only subscribe and write | `SubscribersCatchUp` violated: see below |
| `observe_fingerprint` | `HMGET h "a b"` and `HMGET h a b` | `ResultsMatchCommand` violated: see below |
| `transactions` | 2 clients, SET, DEL, GET, RESTORE, FLUSHDB, SWAPDB, expiry: 2 keys and a queue of 2, or 1 key in 2 databases and queues of 1; 128,980 states | `TypeOK`, `WatchingCountExact`, `ListsWellFormed`; `MovedIsRemembered` and `ExecOnlyIfUntouched`: the optimistic lock; `DirtyOnlyIfMoved`: EXEC is refused only for a reason; `DoomedHoldsNoQueue`; `ExecQueueStable`; `ExecCompletes` |
| `transactions_restore` | with RESTORE REPLACE and no restriction | `ExecOnlyIfUntouched` violated: see below |
| `blocked` | BLPOP y x, BLMOVE x y, XREADGROUP x, all writes: 2 clients with 2 keys, with 1 key in 2 databases, with pauses, or with a key that expires; 3 clients with one list that expires; 58,944 states | `TypeOK`, `IndexConsistent`, `TimeoutTableExact`, `NoMissedWakeup`, `OneReplyPerCommand`, `IteratorValid`, `ServedInOrder`, `DeadlineKept`, `ServingEnds`, `NobodyForgotten` |
| `blocked_overwrite` | BLPOP against SET and SORT ... STORE | `NoMissedWakeup` violated: see below |
| `replication` | 3 servers in a star, a chain, or a pair and a spare, synchronized at first; 3 writes, 2 commands, 1 fault; 362,069 states | `TypeOK`; `InStep`: a replica in step holds its primary's data under the same id; `ImplementsHistory`: the refinement of `WriteHistory`; `FailoverKeepsWrites`: a FAILOVER without FORCE and without a fault loses nothing |
| `aof` | 2 writes, 3 commands, or 2 commands and 2 faults, `always` and `everysec`; 437,025 states | `TypeOK`; `Recoverable`: a process killed at any moment, or after one of the faults of the run, leaves files that load, with every write once and in order; `PromiseKept`: a power failure at any moment leaves every write acknowledged under `always`; `InitialRewriteEnds` |
| `aof_sync_dir` | the same with a directory that cannot be synced | `Recoverable` violated: see below |
| `cluster` | 5 nodes: a primary with 2 replicas, 2 other primaries; six scenarios of elections, commands, restarts and delayed packets; 232,366 states | `TypeOK`; `OneWinnerPerEpoch`; `SettledMeansAgreed`; `VotesRemembered`; `SlotEpochsGrow`: a slot moves only to an owner with a newer configuration |
| `cluster_late_vote` | 2 elections by each of 2 replicas, votes at any time | `OneWinnerPerEpoch` violated: see below |

**Bounds.** Two clients are needed for one to disturb the other; a third in
`blocked` gives an iterator a client before, at and behind its position. One key
suffices for Observe, whose keys interact only through the counter and the timer
(an instance with two keys has 1,953,720 states and passed too). Two databases make
SWAPDB and same-name keys possible. `MaxElements = 1` makes every element
contended; two elements behave as one push after another. `MaxQueue` of 2 is the
smallest queue in which the first command can endanger the second.

`observe`, `transactions` and `blocked` are several small instances in one: the
action constraint `Scenes` lets clients send what keeps the state in one of the
scenes listed in the MC module. All scenes contain the idle server, so a behaviour may
pass from one to another. They bound sizes and combinations: `transactions`, for
example, never has two keys and two databases at once. `blocked` does not pause the
server while a key expires, and combines the third client only with BLPOP.

Three servers are the smallest system with a chain and with a second replica
that has to follow a promotion; `replication` starts after the first full
synchronization (a further one takes place whenever the backlog no longer
reaches back), and its five initial states spend the bounds in different ways. A
backlog of size 0 keeps one write, so that one write more makes the difference
between partial and full synchronization. `aof` has two writes because one must
be able to sit in an old file while the other goes to a new one; a rewrite, a
switch and a second rewrite are three commands; two faults let one failure meet
the clean-up after another. `cluster` needs three shards for a majority that
excludes the failed primary, and two replicas for competing elections; the
scenarios bound elections, commands, restarts and delayed packets.

Four restrictions are no bounds: they leave out behaviour in which a property
fails. Each but the third has a run without it that shows this, and all are taken up
under *Differences met* and *Limits of the guarantees*.

- `observe`: a key does not change in a database while it is buffered for another
  one (second conjunct of `Scenes`); without it, `observe_lost_update`.
- `transactions`: no watcher stays flagged as expired for a key that is not
  (`FlagMeansExpired'` in `MCSpec`); without it, `transactions_restore`.
- `aof`: the faults do not include a failed sync of the directory (`sync_dir`,
  `sync_dir_rewrite`) or a write error of the flush in the rewrite handler
  (`rewrite_write`), and BGREWRITEAOF with the AOF off is combined with no fault
  (`OffRewriteFaultFree`). `aof_sync_dir` shows the first; the others are described
  as limits only.
- `cluster`: votes are counted only while the election they were asked for is open
  (`VotesInTime`); without it, `cluster_late_vote`.

**Fairness.** `Observe` assumes that the timer event fires (`WF`): `aeMain`
processes due time events on every turn and every handler terminates.
`Transactions` assumes that a running EXEC goes on: it is a loop in the main
thread. `Blocked` assumes that serving goes on (weakly fair, same reason), and that
unblocked clients and due timeouts are handled *strongly* fairly: `beforeSleep`
handles them on every turn of the event loop, so a step that is enabled again
and again cannot be starved by commands that disable it in between. The formula
`Fairness` spells out when these steps are enabled, because TLC evaluates
`ENABLED` of these actions slowly. In the runs that combine liveness with an action
constraint the constraint stops only steps of the environment (commands, writes,
pauses), never a step of the fairness condition.
`AppendOnlyFile` assumes that a turn of the event loop, the cron, a handler that
has begun, a child and the worker go on (`WF`); not that a dead server is started
again. Nothing is assumed of clients, writers, the clock, CLIENT PAUSE or faults.
`Replication` and `ClusterFailover` are checked for safety only: whether
synchronization or an election succeeds depends on timeouts and on the network.
Convergence of the cluster is stated as safety: where gossip has nothing more to
tell, all agree.

## Differences met

Each is the subject of one run.

1. `observe_lost_update`: the debounce buffer is keyed by key name alone
   (`observe.c:628`). When a key of the same name changes in two databases
   within one period, the first database's subscribers are not told.
   `src/docs/OBSERVE.md:7` promises a push whenever the observed key changes.
2. `transactions_restore`: `touchWatchedKey` leaves its loop at a watcher that is
   flagged `expired` although the key exists (`multi.c:399`), so that neither
   this client nor those behind it are marked. It takes a writer that does not
   look the key up before (RESTORE REPLACE), or SWAPDB leaving a flagged node of
   a client that is already dirty in the list.
3. `blocked_overwrite`: overwriting a string by a list signals only the deletion
   of the string (`db.c:329`), so a client in BLPOP stays blocked next to a
   list. It takes a command that writes a list with `setKey`: SORT ... STORE.
4. `observe_fingerprint`: the arguments are joined with spaces before they are
   hashed, so `HMGET h "a b"` and `HMGET h a b` share a fingerprint, and the second
   client to subscribe receives the results of the first one's command. With
   commands whose joined texts differ this cannot happen, so the passing run does
   not state the property.
5. `aof_sync_dir`: `writeAofManifestFile` reports failure also when only the sync of
   the directory failed, after the rename. `backgroundRewriteDoneHandler` then
   unlinks the base file which the manifest on disk already names
   (`aof.c:2616`), and a restart cannot load the data.
6. `cluster_late_vote`: scheduling a new election resets the count of votes, but
   the epoch of the election stays the old one until votes are asked for
   (`cluster_legacy.c:4668`, `:4725`). Votes for the old election that arrive in between
   are counted (`:3588`) and stay counted, so two replicas can win the same epoch;
   `cluster_legacy.c:1911` says this is not possible.

Seen while modelling, without a run of their own. `unobserveCommand` goes on looking
up arguments in `c->observe_fingerprints` after the removal of the last one has set
it to NULL (`observe.c:660`; the action `UnobserveCrash`). The sentence quoted in 1
also covers changes that take a key away: the deletion of a key is signalled but
nothing is pushed (`executeObserveCommand` returns if the key is missing), and
FLUSHDB, FLUSHALL and SWAPDB are not signalled to observers at all.
`SubscribersCatchUp` is therefore stated for existing keys, and excepts the step in
which a client selects another database or databases are swapped. RESET leaves a
connection's live queries in place. A blocking command that is executed again during
CLIENT PAUSE starts its full timeout anew afterwards. XGROUP SETID does not wake
readers.

## Limits of the guarantees

The properties hold within the restrictions their
runs state. What lies beyond was found by lifting a restriction, or by reading
where it says so, and is recorded here so that nobody takes the runs for more.

Blocked clients. `ServedInOrder` is about the *latest* blocking of a client. A key
that expires after it was signalled and before its clients are served makes the
first of them execute its command again in vain: it blocks again at the end of the list
(`blockForKeys`) and has lost its place to clients that came later. The comment
"We serve clients in the same order they blocked for this key" (`blocked.c:575`) can
also be read as the order of the commands, which then does not hold.

Transactions. Both paths of difference 2, RESTORE REPLACE and SWAPDB, lead beyond
`FlagMeansExpired`.

Replication. FAILOVER without FORCE waits until the target has acknowledged
everything (`FailoverSynced`); if the target then restarts from an older RDB file
before it is promoted, acknowledged writes are lost, hence "no faults" in
`FailoverKeepsWrites`. The bounds leave room for a FAILOVER next to one other
command at most. A `PSYNC ... FAILOVER` request that arrives after the
primary has given up still promotes the target.

Append-only file, in the faults and combinations the run leaves out:

- a write error of the flush inside `rewriteAppendOnlyFileBackground` leaves the
  buffer in place, and the same writes also reach the new file;
- difference 5 has a second form in `openNewIncrAofForAppend`, whose comment says
  "if any step fails, the entire operation will rollback" (`aof.c:765`);
- a failed fork in `startAppendOnly` leaves `aof_fd` open with the AOF off, and
  the next rewrite takes the last incremental file for the open one (`aof.c:500`);
- a rewrite with the AOF off that crashes before its history files are deleted
  lets a restart use the name of an old incremental file again;
- CONFIG SET appendonly yes inside EXEC while such a rewrite is running leaves no
  file open, and writes are refused;
- after a write error while waiting for the first rewrite, or one failed fsync of
  the worker, writes are refused until a rewrite or a switch succeeds;
- under `everysec` with an empty buffer the offset WAITAOF waits for may run ahead
  of the fsync (`aof.c:1075`; by reading, WAITAOF is not modelled); and a power
  failure may keep the newer incremental file and lose the end of the older one.

Cluster:

- difference 6: `OneWinnerPerEpoch` is checked under `VotesInTime`;
- `SlotEpochsGrow` says that a slot *changes hands* only in favour of a newer
  configuration. The epoch a node records for an owner that stays the same may go
  back, if the node takes it for a replica meanwhile: with two takeovers in one shard
  and a ping that was overtaken, the test for stale packets compares with the epoch
  of the claimed primary only (`cluster_legacy.c:3395`), and line 3409 then assigns the
  older epoch. The last scenario of the run contains this;
- by reading only: the old and the new primary of *another* shard may both vote in
  one epoch; and a vote may be written before `nodes.conf` is saved if its link
  was waiting to be written already.

## What is proved

The proofs hold for any constants that satisfy the modules' `ASSUME`s. For Observe
and Transactions these say that clients are finite, database 0 exists, the null
value is none of the values or results, and UNOBSERVE's arguments are fingerprints;
for ClusterFailover that nodes are a finite set of positive numbers, a replica's
primary is a primary, and every slot has a primary for its owner. Each theorem
states a property that a run checks too.

`ObserveProofs`: all safety properties of the run `observe`, without the
restriction and the bounds of the run.

- `TypeCorrect`, `IndexAlwaysConsistent`, `CountAlwaysExact`, `BufferAlwaysTimed`.
  The inductive invariant `IInv` is the conjunction of the four properties: the
  index alone is not inductive, because unsubscribing frees a fingerprint by the
  length of its list, and the list's length says something only if each client
  is in it as often as its own set says; the count needs the index (a client is
  flagged at its *first* subscription). `SubscribeStep` and `UnsubscribeStep` are
  the two lemmas that carry the argument, one for adding a subscription and one
  for removing any set of them, as UNOBSERVE and disconnect do.
- `DeliveredAlwaysCurrent`: an action property, from `IInv`. The index by key
  leads from a changed key only to fingerprints of that key (`NotifyCurrent`),
  and a flush deletes the expired keys it meets before it evaluates
  (`TimerCurrent`).

`TransactionsProofs`: all safety properties of the run `transactions`.

- `TypeCorrect`.
- `NoSpuriousAbort`: `DirtyOnlyIfMoved` is inductive together with the types.
  The work is in `TouchAllDirty` and `SwapDirty`: after a swap, a key flagged as
  expired before must be expired or gone.
- `ChangeRemembered` and `OptimisticLock`: if RESTORE is not among the commands
  and databases are not swapped, a changed watched key is never forgotten and
  EXEC runs only on untouched keys. The inductive invariant `LockInv` adds
  `FlagMeansExpired`: a touch passes over flagged watchers, which loses nothing
  only if a flag implies that the key is still there and expired. The two
  provisos are needed: the run `transactions_restore` and the second path of
  difference 2 break the conclusion without them.
- `ClientsConsistent`, `DoomedAlwaysEmpty` and `RunningQueueStable`: the counter of
  watching clients is exact, a doomed transaction holds no commands, and no command
  of a running EXEC releases the queue. The invariant `ClientInv` says that a client
  inside EXEC watches nothing; `Hits` names the clients a touch marks, and lemmas
  show that each writer's effect on the clients is a set of hits.
- `ListsAlwaysWellFormed`: a step either lets a set of clients leave all lists
  (`LeaveLists`) or appends one watcher to one list (`WatchLists`).

`ClusterFailoverProofs`

- `TypeCorrect`: with it the assertions of `clusterSetPrimary` (no node follows
  itself, a replica serves no slots) in a cluster of any size.
- `VotesAlwaysRemembered`: a node votes at most once per epoch, restarts included.
  The inductive invariant `IInv` says that memory and `nodes.conf` agree on the
  last vote, that it is no later than the current epoch in either, and that every
  packet under way has another node as its sender; there is one lemma for each
  step of the handling of a packet (`HeaderStep`, `SetPrimaryStep`,
  `UpdateSlotsStep`, `CollisionStep`, `SenderIsReplicaStep`).

Only model-checked: everything about `Blocked` (its role changes and the end of a
pause are folds over sets of clients, whose value the prover cannot derive),
`Replication` and `AppendOnlyFile`; the liveness properties, which are out of the
prover's reach; `OneWinnerPerEpoch`,
`SlotEpochsGrow` and `SettledMeansAgreed`, which hold under the restrictions of
the run and not for every behaviour of the module.

## What is not modelled

Contents of values, replies and the wire protocol; memory limits, eviction and
output buffer limits; statistics and logging; Lua and modules as sources of
commands. `FLUSHALL` is FLUSHDB of every database. Each unmodelled component is
listed in `PROJECT.json`. In the modules:

- `Blocked`: an expired key that is read inside a transaction of writes during a
  pause (it would not be deleted, `db.c:1949`), WAIT and WAITAOF, SHUTDOWN, blocking
  by modules, sorted sets (the list's code with another type), XREAD without a
  group, XGROUP SETID.
- `Replication`: dual-channel synchronization, diskless loading with SWAPDB,
  `killRDBChild` when no save points are configured, timeouts (a broken link may
  be noticed at any time), the content of REPLCONF. Starting a BGSAVE is an action
  of its own, for the immediate start and the one of `replicationCron` alike.
- `AppendOnlyFile`: the policy `no`, WAITAOF, the truncation of a damaged tail
  other than the last write, the upgrade from a single old file, timestamps.
- `ClusterFailover`: the failover that is coordinated with the primary (MFSTART and
  the offset), slot migration and with it `owner_not_claiming_slot`, replica
  migration, MEET and handshakes, failure reports (a node is flagged FAIL by all
  at once), the cluster state `clusterUpdateState` computes. The number of voting
  primaries is computed where the code caches it in `server.cluster->size`.

`tracking.c` and `io_threads.c` have no module. Client-side caching repeats the
shape of the indexes of `Observe`, with the end of a transaction as the point of
delivery; it is the next step. The rings of the I/O threads use relaxed atomic
operations (`IOJobQueue_removeJob` moves the tail without releasing the cleared
slot), so a faithful module has to model the order in which stores become visible
and not only the interleaving of steps; all other modules rest on one thread at a
time.

## Plan

1. `Tracking` (`tracking.c`): every cached key that changes is invalidated, also
   when the table is full, the redirection target is gone, or the change is made
   inside EXEC; composed with the transaction's end.
2. `IoThreads` (`io_threads.c`): the ring refines a FIFO under the memory order the
   code asks for; a client is owned by one thread at a time.
3. The coordinated failover and slot migration in `ClusterFailover`.
4. Proofs: the index and timeout table of `Blocked`; the
   refinement of `WriteHistory`.
