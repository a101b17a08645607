--------------------------- MODULE AppendOnlyFile ---------------------------
(***************************************************************************)
(* The append only file: the buffer of commands and its flush, the         *)
(* background fsync, the files and the manifest that lists them, the       *)
(* background rewrite, CONFIG SET appendonly, and loading after a restart  *)
(* (aof.c, with the fsync worker of bio.c and the callers in server.c and  *)
(* config.c).                                                              *)
(*                                                                         *)
(* The dataset is the sequence of the writes that made it.  A base file    *)
(* holds a whole dataset, an incr file the writes appended to it.  A file  *)
(* is an inode: `file[i]`, of which the first `synced` writes survive a    *)
(* power failure; `dir` gives names to inodes and holds the manifest.      *)
(* A handler that changes the directory more than once is one action per   *)
(* change, ordered by `main.at`, so that the server can die in between;    *)
(* the main thread does nothing else meanwhile.                            *)
(***************************************************************************)
EXTENDS Naturals, Sequences, FiniteSets, SequencesExt

CONSTANTS
    None,
    Policies,     \* the values of appendfsync: "always", "everysec", "no"
    Places,       \* where things go wrong: the arguments of Fault below
    Operations,   \* what is done: see Does
    MaxWrites,    \* bound: writes of clients
    MaxCommands,  \* bound: BGREWRITEAOF, automatic rewrites, BGSAVE, CONFIG SET
    MaxFaults     \* bound: failed system calls, crashes, power failures

ASSUME ConstantsAssumption ==
    /\ Policies \subseteq {"always", "everysec", "no"} /\ Policies # {}
    /\ MaxWrites \in Nat /\ MaxCommands \in Nat /\ MaxFaults \in Nat

VARIABLES
    db,       \* the dataset
    aof,      \* the server's fields that concern the append only file
    main,     \* where the main thread is: [at, am, fd]
    file,     \* the inodes, [data, synced, torn]
    dir,      \* [name: names to inodes, manifest: its content or None]
    durable,  \* what `dir` was since the directory was last synced
    bio,      \* the queue of the AOF worker, [type, fd]
    promised, \* history: the writes acknowledged under appendfsync always
    writes, commands, faults

vars == <<db, aof, main, file, dir, durable, bio, promised, writes, commands, faults>>
disk == <<file, dir, durable>>
counters == <<promised, writes, commands, faults>>

-----------------------------------------------------------------------------
(* The manifest.                                                            *)

Base(n) == <<"base", n>>
Incr(n) == <<"incr", n>>
Incrs(seqs) == [i \in DOMAIN seqs |-> Incr(seqs[i])]
TempIncr == <<"temp-incr", 0>>

AofManifestCreate == [base |-> None, incr |-> <<>>, hist |-> <<>>,
                      curr_base_file_seq |-> 0, curr_incr_file_seq |-> 0]

\* A manifest read back: the counters are those of the listed files, and the
\* history files do not count.
AofLoadManifestFromFile(m) ==
    [m EXCEPT !.curr_base_file_seq = IF m.base = None THEN 0 ELSE m.base,
              !.curr_incr_file_seq = IF m.incr = <<>> THEN 0 ELSE Last(m.incr)]

GetNewBaseFileNameAndMarkPreAsHistory(m) ==
    LET seq == m.curr_base_file_seq + 1
    IN [m EXCEPT !.base = seq, !.curr_base_file_seq = seq,
                 !.hist = (IF m.base = None THEN <<>> ELSE <<Base(m.base)>>) \o @]

GetNewIncrAofName(m) ==
    LET seq == m.curr_incr_file_seq + 1
    IN [m EXCEPT !.incr = Append(@, seq), !.curr_incr_file_seq = seq]

\* Mutant: the file being written is taken for a rewritten one.
MarkEveryIncrAofAsHistory(m, fd) ==
    [m EXCEPT !.incr = <<>>, !.hist = Incrs(m.incr) \o @]

\* The last incr file is skipped when a file is open: it is taken to be the
\* one being written.
MarkRewrittenIncrAofAsHistory(m, fd) ==
    IF m.incr = <<>> THEN m
    ELSE LET kept == IF fd = None THEN <<>> ELSE <<Last(m.incr)>>
             gone == SubSeq(m.incr, 1, Len(m.incr) - Len(kept))
         IN [m EXCEPT !.incr = kept, !.hist = Incrs(gone) \o @]

-----------------------------------------------------------------------------
(* Loading.                                                                 *)

Files(m) == (IF m.base = None THEN <<>> ELSE <<Base(m.base)>>)
            \o Incrs(m.incr)

Listed(d) == IF d.manifest = None THEN <<>> ELSE Files(d.manifest)

AllExist(d) == Range(Listed(d)) \subseteq DOMAIN d.name

Contents(d, f) == FlattenSeq([i \in DOMAIN Listed(d) |-> f[d.name[Listed(d)[i]]].data])

\* loadAppendOnlyFiles on the directory d and the contents f: a listed file
\* that is missing, or one before the last that is cut in the middle of a
\* command, is fatal; the last one may be cut.
LoadAppendOnlyFiles(d, f) ==
    IF /\ AllExist(d)
       /\ \A i \in 1..(Len(Listed(d)) - 1) : ~f[d.name[Listed(d)[i]]].torn
    THEN Contents(d, f)
    ELSE None

\* The contents of the files as a power failure leaves them at the worst.
Synced(f) == [i \in DOMAIN f |-> [f[i] EXCEPT !.data = SubSeq(@, 1, f[i].synced)]]

NewFile(data) == [data |-> data, synced |-> Len(data), torn |-> FALSE]

-----------------------------------------------------------------------------
(* Steps of the environment.                                                *)

\* A system call fails, a child process fails, or the machine does.
Fault(place) == place \in Places /\ faults < MaxFaults /\ faults' = faults + 1

NoFault == faults' = faults

\* What an instance may leave out: "appendonly" (CONFIG SET appendonly),
\* "rewrite_off" (BGREWRITEAOF while the AOF is off), "in_exec" (CONFIG SET
\* appendonly yes in a transaction), "bgsave", "appendfsync" (CONFIG SET).
Does(operation) == operation \in Operations

Command == commands < MaxCommands /\ commands' = commands + 1

At(place) == main.at = place

Idle == At("idle")

Rest == [at |-> "idle", am |-> None, fd |-> None]

Dies == /\ main' = [Rest EXCEPT !.at = "down"]
        /\ bio' = <<>>

\* What the directory becomes, unsynced and synced.
Names(names) == /\ dir' = [dir EXCEPT !.name = names]
                /\ durable' = durable \cup {dir'}

With(n, i) == [m \in DOMAIN dir.name \cup {n} |-> IF m = n THEN i ELSE dir.name[m]]

\* Mutant: the directory is not synced after the rename.
PersistedInPageCache(m) == /\ dir' = [dir EXCEPT !.manifest = m]
                           /\ durable' = durable \cup {dir'}

\* persistAofManifest succeeds: written, synced, renamed, directory synced.
Persisted(m) == /\ dir' = [dir EXCEPT !.manifest = m]
                /\ durable' = {dir'}

\* It fails: before the rename, or at the fsync of the directory after it.
PersistFails(m) ==
    \/ Fault("persist") /\ UNCHANGED <<dir, durable>>
    \/ /\ Fault("sync_dir")
       /\ dir' = [dir EXCEPT !.manifest = m]
       /\ durable' = durable \cup {dir'}

-----------------------------------------------------------------------------
(* Feeding and flushing.                                                    *)

Off(a) == a.aof_state = "off"
HasAofChild(a) == a.child # None /\ a.child.type = "aof"
AofLastIncrSize(a, f) == IF a.aof_fd = None THEN 0 ELSE Len(f[a.aof_fd].data)

WriteCommandsDeniedByDiskError(a) ==
    ~Off(a) /\ ("err" \in {a.aof_last_write_status, a.aof_bio_fsync_status})

\* A client's write is executed and propagated.
ClientWrite ==
    /\ Idle
    /\ writes < MaxWrites
    /\ ~WriteCommandsDeniedByDiskError(aof)
    /\ writes' = writes + 1
    /\ db' = Append(db, writes')
    /\ aof' = IF aof.aof_state = "on" \/ (aof.aof_state = "wait_rewrite" /\ HasAofChild(aof))
              THEN [aof EXCEPT !.aof_buf = Append(@, writes')]
              ELSE aof
    /\ UNCHANGED <<main, disk, bio, promised, commands, faults>>

AofFsyncInProgress == \E i \in DOMAIN bio : bio[i].type = "fsync"

\* The end of flushAppendOnlyFile: fsync at once, ask the worker for it, or
\* leave it.  s is [aof, file, bio].
TryFsync(s, due) ==
    LET a == s.aof
        size == AofLastIncrSize(a, s.file)
    IN CASE a.aof_fsync = "always" ->
              [s EXCEPT !.file[a.aof_fd].synced = size,
                        !.aof.aof_last_incr_fsync_offset = size]
         [] a.aof_fsync = "everysec" /\ due /\ ~AofFsyncInProgress ->
              [s EXCEPT !.bio = Append(@, [type |-> "fsync", fd |-> a.aof_fd]),
                        !.aof.aof_last_incr_fsync_offset = size]
         [] OTHER -> s

\* flushAppendOnlyFile with an empty buffer: what was written earlier may be
\* left to sync.
FlushNothing(s, due) ==
    LET a == s.aof
        unsynced == a.aof_last_incr_fsync_offset # AofLastIncrSize(a, s.file)
    IN IF \/ a.aof_fsync = "everysec" /\ unsynced /\ due /\ ~AofFsyncInProgress
          \/ a.aof_fsync = "always" /\ unsynced
       THEN TryFsync(s, due)
       ELSE s

\* flushAppendOnlyFile writes the whole buffer.
FlushAll(s, due) ==
    TryFsync([s EXCEPT !.file[s.aof.aof_fd].data = @ \o s.aof.aof_buf,
                       !.aof.aof_buf = <<>>,
                       !.aof.aof_last_write_status = "ok"], due)

\* A flush that meets no error.
Flushed(s, due) == IF s.aof.aof_buf = <<>> THEN FlushNothing(s, due) ELSE FlushAll(s, due)

\* A write that fails: n commands of the buffer got to the file and could not
\* be truncated away.
FlushShort(s, n) ==
    [s EXCEPT !.file = IF s.aof.aof_fd = None THEN @
                       ELSE [@ EXCEPT ![s.aof.aof_fd].data =
                                          @ \o SubSeq(s.aof.aof_buf, 1, n)],
              !.aof.aof_buf = SubSeq(@, n + 1, Len(@)),
              !.aof.aof_last_write_status = "err"]

Now == [aof |-> aof, file |-> file, bio |-> bio]

\* beforeSleep: the buffer is flushed before the replies are sent, unless an
\* fsync is in progress and the flush is put off.
BeforeSleep ==
    /\ Idle
    /\ ~Off(aof)
    /\ aof.aof_buf # <<>> => aof.aof_fd # None
    /\ \E due, late \in BOOLEAN :
          LET wait == /\ aof.aof_buf # <<>> /\ aof.aof_fsync = "everysec"
                      /\ AofFsyncInProgress /\ ~late
              s == IF wait THEN Now ELSE Flushed(Now, due)
          IN /\ aof' = s.aof
             /\ file' = s.file
             /\ bio' = s.bio
    /\ promised' = IF aof.aof_state = "on" /\ aof.aof_fsync = "always"
                   THEN promised \cup Range(aof.aof_buf) ELSE promised
    /\ UNCHANGED <<db, main, dir, durable, writes, commands, faults>>

\* beforeSleep when the write fails: the server keeps the rest and refuses
\* writes, or exits if it promised to have synced (where the fsync may be
\* what failed, after the whole write).
FlushFails ==
    /\ Idle
    /\ ~Off(aof)
    /\ aof.aof_buf # <<>>
    /\ IF aof.aof_fd = None THEN NoFault ELSE Fault("write")
    /\ \E n \in 0..Len(aof.aof_buf) :
          /\ n = Len(aof.aof_buf) => aof.aof_fsync = "always"
          /\ aof.aof_fd = None => n = 0
          /\ file' = FlushShort(Now, n).file
          /\ aof' = FlushShort(Now, n).aof
    /\ IF aof.aof_fsync = "always" THEN Dies ELSE UNCHANGED <<main, bio>>
    /\ UNCHANGED <<db, dir, durable, promised, writes, commands>>

\* bioProcessBackgroundJobs on the AOF worker.
Fsynced(job) ==
    /\ file' = [file EXCEPT ![job.fd].synced = Len(file[job.fd].data)]
    /\ aof' = [aof EXCEPT !.aof_bio_fsync_status = "ok"]

BioProcessBackgroundJobs ==
    /\ bio # <<>>
    /\ Fsynced(Head(bio))
    /\ bio' = Tail(bio)
    /\ UNCHANGED <<db, main, dir, durable, counters>>

BioFsyncFails ==
    /\ bio # <<>>
    /\ Fault("fsync")
    /\ aof' = [aof EXCEPT !.aof_bio_fsync_status = "err"]
    /\ bio' = Tail(bio)
    /\ UNCHANGED <<db, main, disk, promised, writes, commands>>

\* bioDrainWorker: the main thread waits until the queue is empty.
Drained(s) ==
    [s EXCEPT !.file = [i \in DOMAIN @ |->
                           IF \E k \in DOMAIN s.bio : s.bio[k].fd = i
                           THEN [@[i] EXCEPT !.synced = Len(s.file[i].data)] ELSE @[i]],
              !.bio = <<>>,
              !.aof.aof_bio_fsync_status = IF s.bio = <<>> THEN @ ELSE "ok"]

\* CONFIG SET appendfsync.
UpdateAppendFsync(policy) ==
    /\ Idle
    /\ Does("appendfsync")
    /\ policy # aof.aof_fsync
    /\ Command
    /\ LET s == [Now EXCEPT !.aof.aof_fsync = policy]
           t == IF policy = "always" THEN Drained(s) ELSE s
       IN /\ aof' = t.aof
          /\ file' = t.file
          /\ bio' = t.bio
    /\ UNCHANGED <<db, main, dir, durable, promised, writes, faults>>

-----------------------------------------------------------------------------
(* The background rewrite.                                                  *)

\* open(name, O_TRUNC | O_CREAT): the inode, and the files after it.
Inode(name, f) == IF name \in DOMAIN dir.name THEN dir.name[name] ELSE Len(f) + 1

Truncated(name, f) ==
    IF name \in DOMAIN dir.name THEN [f EXCEPT ![dir.name[name]] = NewFile(<<>>)]
    ELSE Append(f, NewFile(<<>>))

\* Mutant: the offset of the last fsync is that of the old file.
SwitchToKeepingOffset(s, fd) ==
    [s EXCEPT !.bio = IF s.aof.aof_fd = None THEN @
                      ELSE Append(@, [type |-> "close", fd |-> s.aof.aof_fd]),
              !.aof.aof_fd = fd]

\* The new file takes the place of the old one, which the worker syncs and
\* closes.
SwitchTo(s, fd) ==
    [s EXCEPT !.bio = IF s.aof.aof_fd = None THEN @
                      ELSE Append(@, [type |-> "close", fd |-> s.aof.aof_fd]),
              !.aof.aof_fd = fd,
              !.aof.aof_last_incr_fsync_offset = 0]

Forked(a) == [a EXCEPT !.child = [type |-> "aof", db |-> db],
                       !.aof_rewrite_scheduled = FALSE]

Reset(a) == [a EXCEPT !.aof_bio_fsync_status = "ok", !.aof_last_write_status = "ok"]

GoesOff(a) == [a EXCEPT !.aof_state = "off"]

\* serverFork succeeds or fails; startAppendOnly, if it is the caller (starting),
\* then resets the status of earlier errors, or gives up.
Forks(s, starting) ==
    /\ \/ NoFault /\ aof' = IF starting THEN Reset(Forked(s.aof)) ELSE Forked(s.aof)
       \/ Fault("fork") /\ aof' = IF starting THEN GoesOff(s.aof) ELSE s.aof
    /\ file' = s.file
    /\ bio' = s.bio

\* openNewIncrAofForAppend with the AOF on, up to the opening of the file.
OpenNewIncrAof(s) ==
    LET am == GetNewIncrAofName(aof.aof_manifest)
        name == Incr(Last(am.incr))
    IN \/ /\ NoFault
          /\ Names(With(name, Inode(name, s.file)))
          /\ file' = Truncated(name, s.file)
          /\ main' = [at |-> "persist_incr", am |-> am, fd |-> Inode(name, s.file)]
          /\ aof' = s.aof
          /\ bio' = s.bio
       \/ /\ Fault("open")
          /\ aof' = s.aof
          /\ file' = s.file
          /\ bio' = s.bio
          /\ UNCHANGED <<main, dir, durable>>

\* openNewIncrAofForAppend with the AOF waiting for its first rewrite: a
\* temporary file, unknown to the manifest, collects the writes.
OpenTempIncrAof(s, starting) ==
    LET fd == Inode(TempIncr, s.file)
        t == Drained(SwitchTo([s EXCEPT !.file = Truncated(TempIncr, s.file)], fd))
    IN \/ /\ Names(With(TempIncr, fd))
          /\ Forks(t, starting)
          /\ UNCHANGED main
       \/ /\ Fault("open")
          /\ aof' = IF starting THEN GoesOff(s.aof) ELSE s.aof
          /\ file' = s.file
          /\ bio' = s.bio
          /\ UNCHANGED <<main, dir, durable>>

\* rewriteAppendOnlyFileBackground, called in the state s, after its flush.
RewriteAppendOnlyFileBackground(s) ==
    \/ s.aof.aof_state = "on" /\ OpenNewIncrAof(s)
    \/ s.aof.aof_state = "wait_rewrite" /\ OpenTempIncrAof(s, FALSE)
    \/ Off(s.aof) /\ Forks(s, FALSE) /\ UNCHANGED <<main, dir, durable>>

\* The flush it begins with; force: nothing puts it off.  (Under appendfsync
\* always a flush that fails ends the server, as in FlushFails.)
FlushAndRewrite ==
    /\ aof.child = None
    /\ \/ \E due \in BOOLEAN : RewriteAppendOnlyFileBackground(Flushed(Now, due))
       \/ /\ aof.aof_buf # <<>> /\ aof.aof_fsync # "always"
          /\ "rewrite_write" \in Places
          /\ RewriteAppendOnlyFileBackground(FlushShort(Now, 0))

\* BGREWRITEAOF, alone or (in_exec) in a transaction, and the automatic
\* rewrite when the file has grown.
Bgrewriteaof ==
    /\ Idle
    /\ Off(aof) => Does("rewrite_off")
    /\ Command
    /\ FlushAndRewrite
    /\ UNCHANGED <<db, promised, writes>>

BgrewriteaofScheduled ==
    /\ Idle
    /\ Off(aof) => Does("rewrite_off")
    /\ ~HasAofChild(aof)
    /\ ~aof.aof_rewrite_scheduled
    /\ Command
    /\ aof' = [aof EXCEPT !.aof_rewrite_scheduled = TRUE]
    /\ UNCHANGED <<db, main, disk, bio, promised, writes, faults>>

\* serverCron starts what is scheduled.
ServerCron ==
    /\ Idle
    /\ aof.aof_rewrite_scheduled
    /\ FlushAndRewrite
    /\ UNCHANGED <<db, promised, writes, commands>>

\* openNewIncrAofForAppend, second half, and the fork.
PersistIncr ==
    /\ At("persist_incr")
    /\ \/ /\ Persisted(main.am)
          /\ Forks(SwitchTo([Now EXCEPT !.aof.aof_manifest = main.am], main.fd), FALSE)
       \/ /\ PersistFails(main.am)
          /\ UNCHANGED <<aof, file, bio>>
    /\ main' = Rest
    /\ UNCHANGED <<db, promised, writes, commands>>

\* BGSAVE: another child, which keeps a rewrite waiting.
RdbSaveBackground ==
    /\ Idle
    /\ Does("bgsave")
    /\ aof.child = None
    /\ Command
    /\ aof' = [aof EXCEPT !.child = [type |-> "rdb", db |-> db]]
    /\ UNCHANGED <<db, main, disk, bio, promised, writes, faults>>

BackgroundSaveDone ==
    /\ Idle
    /\ aof.child # None /\ ~HasAofChild(aof)
    /\ aof' = [aof EXCEPT !.child = None]
    /\ UNCHANGED <<db, main, disk, bio, counters>>

-----------------------------------------------------------------------------
(* The end of the rewrite: backgroundRewriteDoneHandler.                    *)

\* Mutant: a failed first rewrite is not scheduled again.
CleanupForGood(a) ==
    [a EXCEPT !.child = None,
              !.aof_buf = IF a.aof_state = "wait_rewrite" THEN <<>> ELSE @]

\* Its last lines, reached from every path: the memory, and the directory
\* without `names`.
Cleanup(a) ==
    LET waits == a.aof_state = "wait_rewrite"
    IN [a EXCEPT !.child = None,
                 !.aof_buf = IF waits THEN <<>> ELSE @,
                 !.aof_rewrite_scheduled = @ \/ waits]

RewriteFailed(d, names) ==
    LET temp == IF aof.aof_state = "wait_rewrite" THEN {TempIncr} ELSE {}
    IN /\ aof' = Cleanup(aof)
       /\ main' = Rest
       /\ dir' = [d EXCEPT !.name = [n \in DOMAIN @ \ (names \cup temp) |-> @[n]]]
       /\ durable' = durable \cup {d, dir'}

\* The child failed, or its file cannot be renamed.
RewriteTerminated ==
    /\ Idle
    /\ HasAofChild(aof)
    /\ Fault("child")
    /\ RewriteFailed(dir, {})
    /\ UNCHANGED <<db, file, bio, promised, writes, commands>>

\* The child's file becomes the new base.
RenameBase ==
    /\ Idle
    /\ HasAofChild(aof)
    /\ LET am == GetNewBaseFileNameAndMarkPreAsHistory(aof.aof_manifest)
       IN /\ Names(With(Base(am.base), Len(file) + 1))
          /\ main' = [at |-> IF aof.aof_state = "wait_rewrite" THEN "rename_incr" ELSE "persist",
                      am |-> am, fd |-> None]
    /\ file' = Append(file, NewFile(aof.child.db))
    /\ UNCHANGED <<db, aof, bio, counters>>

\* AOF_WAIT_REWRITE: the temporary incr file gets its name.
RenameIncr ==
    /\ At("rename_incr")
    /\ LET am == GetNewIncrAofName(main.am)
           name == Incr(Last(am.incr))
       IN \/ /\ NoFault
             /\ TempIncr \in DOMAIN dir.name
             /\ Names([n \in (DOMAIN dir.name \ {TempIncr}) \cup {name} |->
                          IF n = name THEN dir.name[TempIncr] ELSE dir.name[n]])
             /\ main' = [main EXCEPT !.at = "persist", !.am = am]
             /\ UNCHANGED aof
          \/ /\ (TempIncr \notin DOMAIN dir.name /\ NoFault) \/ Fault("rename")
             /\ RewriteFailed(dir, {Base(main.am.base)})
    /\ UNCHANGED <<db, file, bio, promised, writes, commands>>

\* Where aofDelHistoryFiles goes, called with the history hist.
DelHistory(hist) == IF hist = <<>> THEN "finish" ELSE "delete_history"

\* The manifest with the new base, and the incr files it replaces as history.
PersistRewrite ==
    /\ At("persist")
    /\ LET am == MarkRewrittenIncrAofAsHistory(main.am, aof.aof_fd)
           new == {Base(am.base)} \cup
                  IF aof.aof_state = "wait_rewrite" THEN {Incr(Last(main.am.incr))} ELSE {}
       IN \/ /\ NoFault
             /\ Persisted(am)
             /\ aof' = [aof EXCEPT !.aof_manifest = am]
             /\ main' = [Rest EXCEPT !.at = DelHistory(am.hist)]
          \/ Fault("persist") /\ RewriteFailed(dir, new)
          \/ Fault("sync_dir_rewrite") /\ RewriteFailed([dir EXCEPT !.manifest = am], new)
    /\ UNCHANGED <<db, file, bio, promised, writes, commands>>

\* aofDelHistoryFiles unlinks the history files one after the other.
AofDelHistoryFiles ==
    /\ At("delete_history")
    /\ LET hist == aof.aof_manifest.hist
       IN /\ Names([n \in DOMAIN dir.name \ {Head(hist)} |-> dir.name[n]])
          /\ aof' = [aof EXCEPT !.aof_manifest.hist = Tail(hist)]
          /\ main' = [main EXCEPT !.at = IF Len(hist) = 1 THEN "persist_history" ELSE @]
    /\ UNCHANGED <<db, file, bio, counters>>

\* Its manifest, whose failure is ignored.
PersistHistory ==
    /\ At("persist_history")
    /\ \/ NoFault /\ Persisted(aof.aof_manifest)
       \/ PersistFails(aof.aof_manifest)
    /\ main' = [main EXCEPT !.at = "finish"]
    /\ UNCHANGED <<db, aof, file, bio, promised, writes, commands>>

\* The rest of the handler, or of the start of the server.
FinishRewrite ==
    /\ At("finish")
    /\ aof' = IF aof.aof_state = "wait_rewrite"
              THEN Cleanup([aof EXCEPT !.aof_state = "on"])
              ELSE Cleanup(aof)
    /\ main' = Rest
    /\ UNCHANGED <<db, disk, bio, counters>>

-----------------------------------------------------------------------------
(* CONFIG SET appendonly.                                                   *)

\* killAppendOnlyChild.
Killed(a) == IF HasAofChild(a) THEN [a EXCEPT !.child = None] ELSE a

\* The file is synced and closed in the state s, and the rewrite given up.
Stopped(s) ==
    /\ aof' = [Killed(s.aof) EXCEPT !.aof_fd = None,
                                    !.aof_state = "off",
                                    !.aof_rewrite_scheduled = FALSE,
                                    !.aof_last_incr_fsync_offset = 0,
                                    !.aof_buf = <<>>]
    /\ file' = IF s.aof.aof_fd = None THEN s.file
               ELSE [s.file EXCEPT ![s.aof.aof_fd].synced = AofLastIncrSize(s.aof, s.file)]
    /\ bio' = s.bio

\* After a flush; what the flush cannot write is dropped.
StopAppendOnly ==
    /\ Does("appendonly")
    /\ Idle
    /\ ~Off(aof)
    /\ Command
    /\ \/ aof.aof_fd = None /\ NoFault /\ Stopped(Now)
       \/ aof.aof_fd # None /\ NoFault /\ \E due \in BOOLEAN : Stopped(Flushed(Now, due))
       \/ /\ aof.aof_fd # None /\ aof.aof_buf # <<>> /\ aof.aof_fsync # "always"
          /\ Fault("write")
          /\ \E n \in 0..(Len(aof.aof_buf) - 1) : Stopped(FlushShort(Now, n))
    /\ UNCHANGED <<db, main, dir, durable, promised, writes>>

\* Another child is at work, or a transaction runs: the rewrite is scheduled.
StartAppendOnlyLater ==
    /\ Does("appendonly")
    /\ Idle
    /\ Off(aof)
    /\ \/ aof.child # None /\ ~HasAofChild(aof)
       \/ Does("in_exec")
    /\ Command
    /\ aof' = Reset([aof EXCEPT !.aof_state = "wait_rewrite", !.aof_rewrite_scheduled = TRUE])
    /\ UNCHANGED <<db, main, disk, bio, promised, writes, faults>>

\* A rewrite starts at once, in place of one that is running.
StartAppendOnly ==
    /\ Does("appendonly")
    /\ Idle
    /\ Off(aof)
    /\ aof.child = None \/ HasAofChild(aof)
    /\ Command
    /\ LET s == [Now EXCEPT !.aof = Killed([aof EXCEPT !.aof_state = "wait_rewrite"])]
       IN \E due \in BOOLEAN : OpenTempIncrAof(Flushed(s, due), TRUE)
    /\ UNCHANGED <<db, promised, writes>>

-----------------------------------------------------------------------------
(* Death and restart.                                                       *)

Crash ==
    /\ ~At("down") /\ ~At("failed")
    /\ Fault("crash")
    /\ Dies
    /\ UNCHANGED <<db, aof, disk, promised, writes, commands>>

\* Of every file any part survives that holds what was synced; of the
\* directory, what it was at some time since it was synced.
PowerLoss ==
    /\ ~At("failed")
    /\ Fault("power")
    /\ Dies
    /\ LET dirty == {i \in DOMAIN file : file[i].synced < Len(file[i].data)}
       IN \E kept \in [dirty -> 0..MaxWrites], torn \in [dirty -> BOOLEAN] :
             /\ \A i \in dirty :
                   /\ kept[i] \in file[i].synced..Len(file[i].data)
                   /\ torn[i] => kept[i] < Len(file[i].data)
             /\ file' = [i \in DOMAIN file |->
                            IF i \in dirty
                            THEN [data |-> SubSeq(file[i].data, 1, kept[i]),
                                  synced |-> kept[i], torn |-> torn[i]]
                            ELSE file[i]]
    /\ \E d \in durable : dir' = d /\ durable' = {d}
    /\ UNCHANGED <<db, aof, promised, writes, commands>>

Started(policy, m) ==
    [aof_state |-> "on", aof_fsync |-> policy, aof_fd |-> None, aof_buf |-> <<>>,
     aof_manifest |-> m, aof_rewrite_scheduled |-> FALSE, child |-> None,
     aof_last_write_status |-> "ok", aof_bio_fsync_status |-> "ok",
     aof_last_incr_fsync_offset |-> 0]

\* aofLoadManifestFromDisk and loadDataFromDisk; the server exits if the
\* files cannot be loaded, and cuts what is torn off the last one.
Restart ==
    /\ At("down")
    /\ LET loaded == LoadAppendOnlyFiles(dir, file)
           m == IF dir.manifest = None THEN AofManifestCreate
                ELSE AofLoadManifestFromFile(dir.manifest)
       IN IF loaded = None
          THEN /\ main' = [main EXCEPT !.at = "failed"]
               /\ UNCHANGED <<db, aof, file>>
          ELSE /\ db' = loaded
               /\ aof' = Started(aof.aof_fsync, m)
               /\ file' = [i \in DOMAIN file |-> [file[i] EXCEPT !.torn = FALSE]]
               /\ main' = [main EXCEPT !.at = "open"]
    /\ UNCHANGED <<dir, durable, bio, counters>>

\* aofOpenIfNeededOnServerStart: a base file for an empty dataset, the last
\* incr file or a first one.
AofOpenOnServerStart ==
    /\ At("open")
    /\ LET m == aof.aof_manifest
           empty == m.base = None /\ m.incr = <<>>
           b == IF empty THEN GetNewBaseFileNameAndMarkPreAsHistory(m) ELSE m
           am == IF m.incr = <<>> THEN GetNewIncrAofName(b) ELSE b
           based == IF empty THEN Append(file, NewFile(db)) ELSE file
           names == IF empty THEN With(Base(b.base), Len(file) + 1) ELSE dir.name
           last == Incr(Last(am.incr))
           fd == IF last \in DOMAIN names THEN names[last] ELSE Len(based) + 1
           opened == IF last \in DOMAIN names THEN based ELSE Append(based, NewFile(<<>>))
       IN /\ Names([n \in DOMAIN names \cup {last} |-> IF n = last THEN fd ELSE names[n]])
          /\ file' = opened
          /\ aof' = [aof EXCEPT !.aof_manifest = am, !.aof_fd = fd,
                                !.aof_last_incr_fsync_offset = Len(opened[fd].data)]
    /\ main' = [main EXCEPT !.at = "start"]
    /\ UNCHANGED <<db, bio, counters>>

\* Its manifest, written if a file was added to it; the server exits if that
\* fails.
PersistStart ==
    /\ At("start")
    /\ LET dirty == Files(aof.aof_manifest) # Listed(dir)
       IN \/ /\ NoFault
             /\ IF dirty THEN Persisted(aof.aof_manifest) ELSE UNCHANGED <<dir, durable>>
             /\ main' = [main EXCEPT !.at = DelHistory(aof.aof_manifest.hist)]
             /\ UNCHANGED bio
          \/ dirty /\ PersistFails(aof.aof_manifest) /\ Dies
    /\ UNCHANGED <<db, aof, file, promised, writes, commands>>

-----------------------------------------------------------------------------
InitWith(c, f) ==
    /\ db = <<>>
    /\ \E policy \in Policies : aof = Started(policy, AofManifestCreate)
    /\ main = [Rest EXCEPT !.at = "down"]
    /\ file = <<>>
    /\ dir = [name |-> << >>, manifest |-> None]
    /\ durable = {dir}
    /\ bio = <<>>
    /\ promised = {}
    /\ writes = 0 /\ commands = c /\ faults = f

Init == InitWith(0, 0)

Handler ==
    \/ PersistIncr
    \/ RenameIncr \/ PersistRewrite \/ AofDelHistoryFiles \/ PersistHistory
    \/ FinishRewrite
    \/ AofOpenOnServerStart \/ PersistStart

ChildDone == RenameBase \/ RewriteTerminated \/ BackgroundSaveDone

Next ==
    \/ ClientWrite \/ BeforeSleep \/ FlushFails
    \/ BioProcessBackgroundJobs \/ BioFsyncFails
    \/ \E policy \in Policies : UpdateAppendFsync(policy)
    \/ Bgrewriteaof \/ BgrewriteaofScheduled \/ RdbSaveBackground
    \/ StopAppendOnly \/ StartAppendOnlyLater \/ StartAppendOnly
    \/ ServerCron \/ ChildDone \/ Handler
    \/ Crash \/ PowerLoss \/ Restart

\* The event loop turns, children end, the worker works; a server that died
\* need not be started again.
Fairness ==
    /\ WF_vars(BeforeSleep) /\ WF_vars(ServerCron) /\ WF_vars(ChildDone) /\ WF_vars(Handler)
    /\ WF_vars(BioProcessBackgroundJobs)

Spec == Init /\ [][Next]_vars /\ Fairness

-----------------------------------------------------------------------------
Running == main.at \notin {"down", "failed"}

\* The types of the fields; and the open file exists, is never synced beyond
\* its end, and the worker's jobs are about files that exist.
TypeOK ==
    /\ aof.aof_state \in {"off", "wait_rewrite", "on"} /\ aof.aof_fsync \in Policies
    /\ aof.aof_manifest.base \in Nat \cup {None} /\ aof.aof_rewrite_scheduled \in BOOLEAN
    /\ aof.aof_fd \in DOMAIN file \cup {None}
    /\ main.at = "idle" => aof.aof_last_incr_fsync_offset <= AofLastIncrSize(aof, file)
    /\ main.am # None => main.am.incr # <<>> \/ main.am.base # None
    /\ \A i \in DOMAIN file : file[i].synced <= Len(file[i].data)
    /\ \A i \in DOMAIN bio : bio[i].fd \in DOMAIN file
    /\ dir \in durable
    /\ \A n \in DOMAIN dir.name : dir.name[n] \in DOMAIN file

\* The process may be killed at any moment, in the middle of a handler too.
\* While the AOF is on, the files the manifest lists then hold every write
\* but those still in the buffer, each once and in order; while it is off or
\* waits for its first rewrite, they hold the dataset of some earlier time.
\* They can always be loaded.  The code keeps this through the faults of the
\* run aof; it does not when the fsync of the directory fails after the
\* manifest of a rewrite was renamed, the case of the run aof_sync_dir.
Recoverable ==
    Running =>
        LET loaded == LoadAppendOnlyFiles(dir, file)
        IN /\ loaded # None
           /\ IF aof.aof_state = "on" THEN loaded \o aof.aof_buf = db
              ELSE IsPrefix(loaded, db)

\* A write acknowledged under appendfsync always is found by every later
\* restart, whatever rewrites, switches, crashes and power failures follow:
\* it is among the synced writes of the files of the manifest, in every
\* state the directory may be left in.
PromiseKept ==
    \A d \in durable :
        /\ AllExist(d)
        /\ promised \subseteq Range(Contents(d, Synced(file)))

\* A server that waits for its first rewrite does not wait for ever: failed
\* rewrites are tried again, whatever failed.
InitialRewriteEnds ==
    (Running /\ aof.aof_state = "wait_rewrite")
        ~> (~Running \/ aof.aof_state # "wait_rewrite")
=============================================================================
