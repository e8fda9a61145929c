------------------------------- MODULE LevelDB -------------------------------
(***************************************************************************)
(* leveldb's DBImpl: the queue of writers and its group commits, the log,  *)
(* the switch of memtables, the background thread with its memtable        *)
(* compactions and merges, the manifest, the deletion of obsolete files,   *)
(* closing, crashes and recovery.                                          *)
(*                                                                         *)
(* An action is what a thread does between two points where it gives up    *)
(* the mutex, or one access to a file it makes without the mutex.  A write *)
(* is a batch of one update; an entry [seq, id] says that write id has the *)
(* sequence number seq.  Which entries a merge may drop and which files it *)
(* takes is LsmTree's subject: here every memtable becomes a table of      *)
(* level 0, a merge takes all tables and keeps all entries.                *)
(***************************************************************************)
EXTENDS Integers, FiniteSetsExt, SequencesExt

CONSTANTS
    Writers,                \* the threads that write
    SyncWriters,            \* those of them that write with WriteOptions::sync
    WriteBufferSize,        \* entries above which a memtable is full
    MaxGroup,               \* writes that fit in one group
    kL0_CompactionTrigger,  \* tables in level 0 that start a merge
    kL0_StopWritesTrigger,  \* tables in level 0 that block a writer
    MaxSteps                \* bound: writes, crashes, closings, failures, iterators

VARIABLES
    \* on disk
    logs,             \* for every log file, its records and how many are synced
    tables,           \* for every table file, its entries
    manifests,        \* for every manifest, its edits and how many are synced
    current,          \* the manifest that CURRENT names
    \* in memory
    phase,            \* "down", a step of DB::Open, "open" or "closing"
    writers,          \* DBImpl::writers_, the queue
    pc,               \* where each writer is in DBImpl::Write
    request,          \* the write each writer is at, 0 if none
    group,            \* the writers of the group that is being written
    mem, imm,         \* mem_ and imm_; imm is a set of at most one memtable
    torn,             \* an append to the log failed: log_->block_offset_ is off
    logfile_number, log_number, next_file_number, last_sequence,
    manifest_file_number,
    replay,           \* the logs DBImpl::Recover has yet to read
    version,          \* versions_->current(): the tables of level 0 and below
    bg_error,         \* DBImpl::bg_error_ is set
    bg,               \* the background thread: [pc, job, num]
    merge,            \* the merge it is at: a set of at most one
    edit,             \* the VersionEdit it is about to log
    pending_outputs,
    iterators,        \* the iterators and what they hold on to
    \* history
    issued,           \* number of writes so far
    promised,         \* acknowledged writes that an end of the process leaves
    synced,           \* those of them that a crash of the machine leaves, too
    risked,           \* acknowledged writes whose log record cannot be read
    events            \* number of crashes, closings, failures and iterators so far

phaseVars == <<phase, replay>>
diskVars == <<logs, tables, manifests, current>>
queueVars == <<writers, pc, request, group>>
memVars == <<mem, imm, torn, logfile_number>>
versionVars == <<log_number, next_file_number, manifest_file_number, version>>
bgVars == <<bg_error, bg, merge, edit, pending_outputs>>
promiseVars == <<promised, synced, risked>>
boundVars == <<issued, events>>
vars == <<diskVars, phaseVars, queueVars, memVars, versionVars, last_sequence,
          bgVars, iterators, promiseVars, boundVars>>

\* The bound on what the callers and the environment do.
CanStep == issued + events < MaxSteps

NoEdit == [add0 |-> {}, add1 |-> {}, del |-> {}, log |-> 0, next |-> 0, last |-> 0]
NoJob == [pc |-> "none", job |-> "none", num |-> 0]
EmptyVersion == [l0 |-> {}, l1 |-> {}]

TablesOf(v) == v.l0 \union v.l1
Contents(nums) == UNION {tables[n] : n \in nums \cap DOMAIN tables}
Ids(entries) == {e.id : e \in entries}
Put(f, k, v) == [x \in DOMAIN f \union {k} |-> IF x = k THEN v ELSE f[x]]
Keep(f, S) == [x \in DOMAIN f \cap S |-> f[x]]

\* VersionSet::Builder: the version an edit makes of another one.
Apply(v, e) == [l0 |-> (v.l0 \ e.del) \union e.add0,
                l1 |-> (v.l1 \ e.del) \union e.add1]

\* No database yet, and the process has not opened it.
Init ==
    /\ logs = [n \in {} |-> 0] /\ tables = [n \in {} |-> {}]
    /\ manifests = [n \in {} |-> 0] /\ current = 0
    /\ phase = "down" /\ replay = {}
    /\ writers = <<>> /\ group = <<>>
    /\ pc = [w \in Writers |-> "idle"]
    /\ request = [w \in Writers |-> 0]
    /\ mem = {} /\ imm = {} /\ torn = FALSE /\ logfile_number = 0
    /\ log_number = 0 /\ next_file_number = 2 /\ manifest_file_number = 0
    /\ version = EmptyVersion /\ last_sequence = 0
    /\ bg_error = FALSE /\ bg = NoJob /\ merge = {} /\ edit = NoEdit
    /\ pending_outputs = {} /\ iterators = {}
    /\ issued = 0 /\ promised = {} /\ synced = {} /\ risked = {}
    /\ events = 0

-----------------------------------------------------------------------------
(* Scheduling and signals.                                                 *)

NeedsCompaction(v) == Cardinality(v.l0) >= kL0_CompactionTrigger

\* Faulty: a database that is closing is not told apart.
MaybeScheduleAlways(b, i, v, error) ==
    IF b.pc = "none" /\ ~error /\ (i # {} \/ NeedsCompaction(v))
    THEN [NoJob EXCEPT !.pc = "scheduled"] ELSE b

\* MaybeScheduleCompaction: what the background thread is after the call, for
\* the values imm_, version and bg_error_ have then.
MaybeSchedule(b, i, v, error) ==
    IF b.pc = "none" /\ phase # "closing" /\ ~error
                     /\ (i # {} \/ NeedsCompaction(v))
    THEN [NoJob EXCEPT !.pc = "scheduled"] ELSE b

\* Faulty: nobody is woken.
SignalNobody == pc

\* background_work_finished_signal_.SignalAll(): the writer that waits for the
\* background thread looks again.
SignalAll == [w \in Writers |-> IF pc[w] = "bgwait" THEN "room" ELSE pc[w]]

-----------------------------------------------------------------------------
(* DBImpl::Write.                                                          *)

\* The writer joins the queue; at its front it goes on, elsewhere it waits.
Write(w) ==
    /\ phase = "open" /\ pc[w] = "idle"
    /\ CanStep
    /\ issued' = issued + 1
    /\ request' = [request EXCEPT ![w] = issued + 1]
    /\ writers' = Append(writers, w)
    /\ pc' = [pc EXCEPT ![w] = IF writers = <<>> THEN "room" ELSE "waiting"]
    /\ UNCHANGED <<diskVars, phaseVars, group, memVars, versionVars, last_sequence,
                   bgVars, iterators, promiseVars, events>>

\* Faulty: the new front of the queue is not woken.
LeaveSilently(p, n) ==
    LET left == {writers[i] : i \in 1 .. n}
    IN  /\ writers' = SubSeq(writers, n + 1, Len(writers))
        /\ pc' = [w \in Writers |-> IF w \in left THEN "idle" ELSE p[w]]
        /\ request' = [w \in Writers |-> IF w \in left THEN 0 ELSE request[w]]
        /\ group' = <<>>

\* The end of Write: the first n writers leave the queue with the same status,
\* and the new front is woken.
Leave(p, n) ==
    LET rest == SubSeq(writers, n + 1, Len(writers))
        left == {writers[i] : i \in 1 .. n}
    IN  /\ writers' = rest
        /\ pc' = [w \in Writers |-> IF w \in left THEN "idle"
                                    ELSE IF rest # <<>> /\ w = Head(rest) THEN "room"
                                    ELSE p[w]]
        /\ request' = [w \in Writers |-> IF w \in left THEN 0 ELSE request[w]]
        /\ group' = <<>>

MemFull == Cardinality(mem) > WriteBufferSize

\* MakeRoomForWrite gives the background error.
RoomError(w) ==
    /\ pc[w] = "room"
    /\ bg_error
    /\ Leave(pc, 1)
    /\ UNCHANGED <<diskVars, phaseVars, memVars, versionVars, last_sequence,
                   bgVars, iterators, promiseVars, boundVars>>

\* MakeRoomForWrite waits for the background thread: imm_ is still there, or
\* level 0 has too many tables.
RoomWait(w) ==
    /\ pc[w] = "room"
    /\ ~bg_error /\ MemFull
    /\ imm # {} \/ Cardinality(version.l0) >= kL0_StopWritesTrigger
    /\ pc' = [pc EXCEPT ![w] = "bgwait"]
    /\ UNCHANGED <<diskVars, phaseVars, writers, request, group, memVars, versionVars,
                   last_sequence, bgVars, iterators, promiseVars, boundVars>>

\* MakeRoomForWrite switches to a new log and memtable, without a sync of the
\* old log, and looks again.
RoomSwitch(w) ==
    /\ pc[w] = "room"
    /\ ~bg_error /\ MemFull
    /\ imm = {} /\ Cardinality(version.l0) < kL0_StopWritesTrigger
    /\ logs' = Put(logs, next_file_number, [recs |-> <<>>, synced |-> 0])
    /\ logfile_number' = next_file_number
    /\ next_file_number' = next_file_number + 1
    /\ imm' = {mem}
    /\ mem' = {}
    /\ torn' = FALSE
    /\ bg' = MaybeSchedule(bg, {mem}, version, bg_error)
    /\ UNCHANGED <<tables, manifests, current, phaseVars, queueVars, log_number,
                   manifest_file_number, version, last_sequence, bg_error, merge, edit, pending_outputs,
                   iterators, promiseVars, boundVars>>

\* Faulty: a write that wants a sync joins any group.
BuildBatchGroupMixed ==
    SubSeq(writers, 1, Max({k \in 1 .. Len(writers) : k <= MaxGroup}))

\* BuildBatchGroup: the writers behind the first one that go with it, up to a
\* size, but no writer that wants a sync with a first that does not.
BuildBatchGroup ==
    LET joins(i) == /\ writers[i] \in SyncWriters => Head(writers) \in SyncWriters
                    /\ i <= MaxGroup
        n == Max({k \in 1 .. Len(writers) : \A i \in 2 .. k : joins(i)})
    IN  SubSeq(writers, 1, n)

\* The entries of a group.
Entries(g) == {[seq |-> last_sequence + i, id |-> request[g[i]]] : i \in DOMAIN g}

\* MakeRoomForWrite finds room in the memtable.
HasRoom(w) == pc[w] = "room" /\ ~bg_error /\ ~MemFull

(***************************************************************************)
(* There is room: the group is built, and log_->AddRecord appends it.  In  *)
(* a torn log the reader may take the record for damaged: one without      *)
(* entries stands for it.  (Which ones it drops is LogFormat's subject.)   *)
(***************************************************************************)
AddRecord(w) ==
    /\ HasRoom(w)
    /\ group' = BuildBatchGroup
    /\ \E read \in {Entries(BuildBatchGroup)} \union (IF torn THEN {{}} ELSE {}) :
          logs' = [logs EXCEPT ![logfile_number].recs = Append(@, read)]
    /\ pc' = [pc EXCEPT ![w] = IF w \in SyncWriters THEN "sync" ELSE "apply"]
    /\ UNCHANGED <<tables, manifests, current, phaseVars, writers, request, memVars,
                   versionVars, last_sequence, bgVars, iterators, promiseVars, boundVars>>

\* log_->AddRecord fails and leaves a hole in the file: the group returns the
\* error, and further writes are taken.
AddRecordFails(w) ==
    /\ HasRoom(w)
    /\ CanStep
    /\ events' = events + 1
    /\ last_sequence' = last_sequence + Len(BuildBatchGroup)
    /\ torn' = TRUE
    /\ Leave(pc, Len(BuildBatchGroup))
    /\ UNCHANGED <<diskVars, phaseVars, mem, imm, logfile_number, versionVars,
                   bgVars, iterators, promiseVars, issued>>

\* logfile_->Sync.
SyncLog(w) ==
    /\ pc[w] = "sync"
    /\ logs' = [logs EXCEPT ![logfile_number].synced = Len(logs[logfile_number].recs)]
    /\ pc' = [pc EXCEPT ![w] = "apply"]
    /\ UNCHANGED <<tables, manifests, current, phaseVars, writers, request, group,
                   memVars, versionVars, last_sequence, bgVars, iterators,
                   promiseVars, boundVars>>

\* logfile_->Sync fails: the record may be in the log or not, so all further
\* writes are refused.  The sequence numbers are used up.
SyncLogFails(w) ==
    /\ pc[w] = "sync"
    /\ CanStep
    /\ events' = events + 1
    /\ bg_error' = TRUE
    /\ last_sequence' = last_sequence + Len(group)
    /\ Leave(SignalAll, Len(group))
    /\ UNCHANGED <<diskVars, phaseVars, memVars, versionVars, bg, merge, edit,
                   pending_outputs, iterators, promiseVars, issued>>

\* MakeRoomForWrite cannot make the new log: the number is given back, and the
\* error is the first writer's alone.
RoomSwitchFails(w) ==
    /\ pc[w] = "room"
    /\ ~bg_error /\ MemFull
    /\ imm = {} /\ Cardinality(version.l0) < kL0_StopWritesTrigger
    /\ CanStep
    /\ events' = events + 1
    /\ Leave(pc, 1)
    /\ UNCHANGED <<diskVars, phaseVars, memVars, versionVars, last_sequence,
                   bgVars, iterators, promiseVars, issued>>

\* A reader of the log finds the group's record.
RecordRead == Last(logs[logfile_number].recs) # {}

\* InsertInto(mem_), SetLastSequence, and the group returns with success.
InsertInto(w) ==
    /\ pc[w] = "apply"
    /\ mem' = mem \union Entries(group)
    /\ last_sequence' = last_sequence + Len(group)
    /\ IF RecordRead
       THEN /\ promised' = promised \union Ids(Entries(group))
            /\ synced' = synced \union
                  {request[x] : x \in Range(group) \intersect SyncWriters}
            /\ UNCHANGED risked
       ELSE /\ risked' = risked \union Ids(Entries(group))
            /\ UNCHANGED <<promised, synced>>
    /\ Leave(pc, Len(group))
    /\ UNCHANGED <<diskVars, phaseVars, imm, torn, logfile_number, versionVars,
                   bgVars, iterators, boundVars>>

WriterStep(w) ==
    \/ RoomError(w) \/ RoomWait(w) \/ RoomSwitch(w)
    \/ AddRecord(w) \/ SyncLog(w) \/ InsertInto(w)

-----------------------------------------------------------------------------
(* The background thread.                                                  *)

\* The files DeleteObsoleteFiles leaves, for a version and a log number.
KeptLogs(log) == {n \in DOMAIN logs : n >= log}
KeptTables(v, pending, running) ==
    TablesOf(v) \union pending \union (UNION {i.tables : i \in iterators})
        \union (UNION {r.tables : r \in running})
KeptManifests == {n \in DOMAIN manifests : n >= manifest_file_number}

\* Faulty: files are deleted after a background error too.
DeleteAfterErrors(ms, v, log, pending, running) ==
    /\ logs' = Keep(logs, KeptLogs(log))
    /\ tables' = Keep(tables, KeptTables(v, pending, running))
    /\ manifests' = Keep(ms, KeptManifests)

\* DeleteObsoleteFiles, with the manifests as they are then.
DeleteObsoleteFiles(ms, v, log, pending, running) ==
    IF bg_error
    THEN manifests' = ms /\ UNCHANGED <<logs, tables>>
    ELSE /\ logs' = Keep(logs, KeptLogs(log))
         /\ tables' = Keep(tables, KeptTables(v, pending, running))
         /\ manifests' = Keep(ms, KeptManifests)

\* The end of BackgroundCall: the thread may be scheduled again, and whoever
\* waits for it is woken.
EndCall(i, v, error) ==
    /\ bg' = MaybeSchedule(NoJob, i, v, error)
    /\ pc' = SignalAll

\* BackgroundCall finds the database closing, an error or no work.
BackgroundIdle ==
    /\ bg.pc = "scheduled"
    /\ phase = "closing" \/ bg_error \/ (imm = {} /\ ~NeedsCompaction(version))
    /\ EndCall(imm, version, bg_error)
    /\ UNCHANGED <<diskVars, phaseVars, writers, request, group, memVars, versionVars,
                   last_sequence, bg_error, merge, edit, pending_outputs, iterators,
                   promiseVars, boundVars>>

\* CompactMemTable, called by BackgroundCompaction or from the loop of a merge:
\* WriteLevel0Table takes a number and gives up the mutex.
CompactMemTable ==
    /\ imm # {} /\ phase # "closing"
    /\ (bg.pc = "scheduled" /\ ~bg_error) \/ bg.pc = "merge"
    /\ bg' = [pc |-> "build", job |-> "flush", num |-> next_file_number]
    /\ pending_outputs' = pending_outputs \union {next_file_number}
    /\ next_file_number' = next_file_number + 1
    /\ UNCHANGED <<diskVars, phaseVars, queueVars, memVars, log_number,
                   manifest_file_number, version, last_sequence, bg_error, merge,
                   edit, iterators, promiseVars, boundVars>>

\* What happens after CompactMemTable: the merge goes on, or the call ends.
AfterFlush(i, v, error) ==
    IF merge # {}
    THEN /\ bg' = [pc |-> "merge", job |-> "merge",
                   num |-> (CHOOSE r \in merge : TRUE).num]
         /\ pc' = SignalAll
    ELSE EndCall(i, v, error)

\* LogAndApply fills in what the edit leaves open and appends it to the
\* manifest.  (The append changes no memory, so it is one step with what comes
\* before it; a crash in between leaves what a lost append leaves.)
LogAndApply(e) ==
    LET full == [e EXCEPT !.next = next_file_number, !.last = last_sequence]
    IN  /\ edit' = full
        /\ manifests' = [manifests EXCEPT ![manifest_file_number].edits = Append(@, full)]

\* The manifest is synced; LogAndApply then installs the version.
SyncedManifests ==
    [manifests EXCEPT ![manifest_file_number].synced =
                          Len(manifests[manifest_file_number].edits)]

\* BuildTable has written and synced the table, and LogAndApply starts.
TableBuilt ==
    /\ bg.pc = "build" /\ phase # "closing"
    /\ tables' = Put(tables, bg.num, UNION imm)
    /\ pending_outputs' = pending_outputs \ {bg.num}
    /\ LogAndApply([NoEdit EXCEPT !.add0 = {bg.num}, !.log = logfile_number])
    /\ bg' = [bg EXCEPT !.pc = "sync"]
    /\ UNCHANGED <<logs, current, phaseVars, queueVars, memVars, versionVars,
                   last_sequence, bg_error, merge, iterators, promiseVars, boundVars>>

\* BuildTable fails and removes the file.
TableFails ==
    /\ bg.pc = "build" /\ CanStep
    /\ events' = events + 1
    /\ pending_outputs' = pending_outputs \ {bg.num}
    /\ bg_error' = TRUE
    /\ AfterFlush(imm, version, TRUE)
    /\ UNCHANGED <<diskVars, phaseVars, writers, request, group, memVars, versionVars,
                   last_sequence, merge, edit, iterators, promiseVars, issued>>

\* The table is built, but the database closes: an error.
FlushCloses ==
    /\ bg.pc = "build" /\ phase = "closing"
    /\ tables' = Put(tables, bg.num, UNION imm)
    /\ pending_outputs' = pending_outputs \ {bg.num}
    /\ bg_error' = TRUE
    /\ AfterFlush(imm, version, TRUE)
    /\ UNCHANGED <<logs, manifests, current, phaseVars, writers, request, group, memVars,
                   versionVars, last_sequence, merge, edit, iterators, promiseVars,
                   boundVars>>

\* BackgroundCompaction picks a compaction, which holds on to its version.
StartMerge ==
    /\ bg.pc = "scheduled" /\ phase # "closing" /\ ~bg_error
    /\ imm = {} /\ NeedsCompaction(version)
    /\ merge' = {[tables |-> TablesOf(version), num |-> 0]}
    /\ bg' = [pc |-> "merge", job |-> "merge", num |-> 0]
    /\ UNCHANGED <<diskVars, phaseVars, queueVars, memVars, versionVars, last_sequence,
                   bg_error, edit, pending_outputs, iterators, promiseVars, boundVars>>

\* OpenCompactionOutputFile.
OpenCompactionOutputFile ==
    /\ bg.pc = "merge" /\ bg.num = 0 /\ phase # "closing"
    /\ bg' = [bg EXCEPT !.num = next_file_number]
    /\ merge' = {[r EXCEPT !.num = next_file_number] : r \in merge}
    /\ pending_outputs' = pending_outputs \union {next_file_number}
    /\ tables' = Put(tables, next_file_number, {})
    /\ next_file_number' = next_file_number + 1
    /\ UNCHANGED <<logs, manifests, current, phaseVars, queueVars, memVars, log_number,
                   manifest_file_number, version, last_sequence, bg_error, edit,
                   iterators, promiseVars, boundVars>>

\* The inputs are read to the end, FinishCompactionOutputFile has synced the
\* output, and InstallCompactionResults calls LogAndApply.
FinishCompactionOutputFile ==
    /\ bg.pc = "merge" /\ bg.num # 0 /\ phase # "closing"
    /\ \E r \in merge :
          /\ tables' = [tables EXCEPT ![r.num] = Contents(r.tables)]
          /\ LogAndApply([NoEdit EXCEPT !.add1 = {r.num}, !.del = r.tables,
                                        !.log = log_number])
    /\ bg' = [bg EXCEPT !.pc = "sync"]
    /\ UNCHANGED <<logs, current, phaseVars, queueVars, memVars, versionVars,
                   last_sequence, bg_error, merge, pending_outputs, iterators,
                   promiseVars, boundVars>>

\* The end of a compaction that is not installed: CleanupCompaction.
CleanupCompaction ==
    /\ bg_error' = TRUE
    /\ merge' = {}
    /\ pending_outputs' = pending_outputs \ {bg.num}
    /\ EndCall(imm, version, TRUE)

\* DoCompactionWork leaves its loop because the database closes.
MergeCloses ==
    /\ bg.pc = "merge" /\ phase = "closing"
    /\ CleanupCompaction
    /\ UNCHANGED <<diskVars, phaseVars, writers, request, group, memVars, versionVars,
                   last_sequence, edit, iterators, promiseVars, boundVars>>

\* DoCompactionWork leaves its loop because a file operation fails.
MergeFails ==
    /\ bg.pc = "merge" /\ CanStep
    /\ events' = events + 1
    /\ CleanupCompaction
    /\ UNCHANGED <<diskVars, phaseVars, writers, request, group, memVars, versionVars,
                   last_sequence, edit, iterators, promiseVars, issued>>

\* LogAndApply: the sync fails.  The edit may be in the manifest or not; the
\* version stays, and so does the memtable.
SyncManifestFails ==
    /\ bg.pc = "sync" /\ CanStep
    /\ events' = events + 1
    /\ edit' = NoEdit
    /\ \/ /\ bg.job = "flush"
          /\ bg_error' = TRUE
          /\ AfterFlush(imm, version, TRUE)
          /\ UNCHANGED <<merge, pending_outputs>>
       \/ bg.job = "merge" /\ CleanupCompaction
    /\ UNCHANGED <<diskVars, phaseVars, writers, request, group, memVars, versionVars,
                   last_sequence, iterators, promiseVars, issued>>

\* What was acknowledged of the memtable is in a synced table of a synced
\* manifest: nothing takes it any more.
FlushedKept ==
    LET flushed == (promised \union risked) \intersect Ids(UNION imm)
    IN  /\ promised' = promised \union flushed
        /\ synced' = synced \union flushed
        /\ risked' = risked \ flushed

\* The manifest is synced, LogAndApply installs the version, CompactMemTable
\* drops the memtable and the obsolete files.
InstallFlush ==
    /\ bg.pc = "sync" /\ bg.job = "flush"
    /\ FlushedKept
    /\ version' = Apply(version, edit)
    /\ log_number' = edit.log
    /\ imm' = {}
    /\ edit' = NoEdit
    /\ DeleteObsoleteFiles(SyncedManifests, Apply(version, edit), edit.log,
                           pending_outputs, merge)
    /\ AfterFlush({}, Apply(version, edit), bg_error)
    /\ UNCHANGED <<current, phaseVars, writers, request, group, mem, torn,
                   logfile_number, next_file_number, manifest_file_number,
                   last_sequence, bg_error, merge, pending_outputs, iterators,
                   boundVars>>

\* The same for a merge: CleanupCompaction forgets the outputs,
\* ReleaseInputs the input version, and the obsolete files go.
InstallMerge ==
    /\ bg.pc = "sync" /\ bg.job = "merge"
    /\ version' = Apply(version, edit)
    /\ log_number' = edit.log
    /\ edit' = NoEdit
    /\ merge' = {}
    /\ pending_outputs' = pending_outputs \ {bg.num}
    /\ DeleteObsoleteFiles(SyncedManifests, Apply(version, edit), edit.log,
                           pending_outputs \ {bg.num}, {})
    /\ EndCall(imm, Apply(version, edit), bg_error)
    /\ UNCHANGED <<current, phaseVars, writers, request, group, memVars, next_file_number,
                   manifest_file_number, last_sequence, bg_error, iterators,
                   promiseVars, boundVars>>

BackgroundStep ==
    \/ BackgroundIdle \/ CompactMemTable \/ TableBuilt \/ FlushCloses
    \/ StartMerge \/ OpenCompactionOutputFile \/ FinishCompactionOutputFile
    \/ MergeCloses \/ InstallFlush \/ InstallMerge

-----------------------------------------------------------------------------
(* Readers.                                                                *)

\* NewInternalIterator takes a reference to both memtables and the version.
NewIterator ==
    /\ phase = "open" /\ CanStep
    /\ events' = events + 1
    /\ iterators' = iterators \union
          {[tables |-> TablesOf(version), mem |-> mem \union UNION imm,
            sees |-> promised \union risked]}
    /\ UNCHANGED <<diskVars, phaseVars, queueVars, memVars, versionVars, last_sequence,
                   bgVars, promiseVars, issued>>

\* CleanupIteratorState gives them back; no file is deleted before the next
\* DeleteObsoleteFiles.
CleanupIteratorState(i) ==
    /\ iterators' = iterators \ {i}
    /\ UNCHANGED <<diskVars, phaseVars, queueVars, memVars, versionVars, last_sequence,
                   bgVars, promiseVars, boundVars>>

-----------------------------------------------------------------------------
(* Closing and crashing.                                                   *)

\* What a new DBImpl starts with.  What only the memory held is lost.
MemoryLost ==
    /\ phase' = "down" /\ replay' = {}
    /\ writers' = <<>> /\ group' = <<>>
    /\ pc' = [w \in Writers |-> "idle"]
    /\ request' = [w \in Writers |-> 0]
    /\ mem' = {} /\ imm' = {} /\ torn' = FALSE /\ logfile_number' = 0
    /\ log_number' = 0 /\ next_file_number' = 2 /\ manifest_file_number' = 0
    /\ version' = EmptyVersion /\ last_sequence' = 0
    /\ bg_error' = FALSE /\ bg' = NoJob /\ merge' = {} /\ edit' = NoEdit
    /\ pending_outputs' = {} /\ iterators' = {} /\ risked' = {}

\* ~DBImpl: no call is under way and no iterator is left; it waits for the
\* background thread.
Close ==
    /\ phase = "open" /\ CanStep
    /\ writers = <<>> /\ iterators = {}
    /\ events' = events + 1
    /\ phase' = "closing"
    /\ UNCHANGED <<replay, diskVars, queueVars, memVars, versionVars, last_sequence, bgVars,
                   iterators, promiseVars, issued>>

Closed ==
    /\ phase = "closing" /\ bg.pc = "none"
    /\ MemoryLost
    /\ UNCHANGED <<diskVars, promised, synced, boundVars>>

\* The process ends at any point; the system still has what it wrote.
ProcessCrash ==
    /\ phase # "down" /\ CanStep
    /\ events' = events + 1
    /\ MemoryLost
    /\ UNCHANGED <<diskVars, promised, synced, issued>>

\* What is left of a file after n of its records.
Cut(file, n) == SubSeq(file, 1, n)

\* The machine stops: of every log and manifest some prefix is left, with at
\* least what was synced.  Only synced writes are still promised.
MachineCrash ==
    /\ CanStep
    /\ events' = events + 1
    /\ \E keep \in [DOMAIN logs -> 0 .. issued] :
          /\ \A n \in DOMAIN logs : keep[n] \in logs[n].synced .. Len(logs[n].recs)
          /\ logs' = [n \in DOMAIN logs |->
                         [recs |-> Cut(logs[n].recs, keep[n]), synced |-> keep[n]]]
    /\ \E left \in {Len(manifests[n].edits) : n \in DOMAIN manifests} \union
                   {manifests[n].synced : n \in DOMAIN manifests} :
          manifests' = [n \in DOMAIN manifests |->
              LET m == manifests[n]
                  k == IF left \in m.synced .. Len(m.edits) THEN left ELSE Len(m.edits)
              IN  [edits |-> Cut(m.edits, k), synced |-> k]]
    /\ promised' = promised \intersect synced
    /\ MemoryLost
    /\ UNCHANGED <<tables, current, synced, issued>>

-----------------------------------------------------------------------------
(* DB::Open, and FLevelDBStorageEngine, which calls it.                    *)

\* NewDB: the first manifest is closed but not synced, and CURRENT names it.
NewDB ==
    /\ phase = "down" /\ current = 0
    /\ manifests' = Put(manifests, 1,
                        [edits |-> <<[NoEdit EXCEPT !.next = 2]>>, synced |-> 0])
    /\ current' = 1
    /\ UNCHANGED <<logs, tables, phaseVars, queueVars, memVars, versionVars, last_sequence,
                   bgVars, iterators, promiseVars, boundVars>>

\* What the one Builder of VersionSet::Recover makes of all edits: the tables
\* of a level that were added and not deleted by a later edit.
Replayed(edits, adds) ==
    {n \in UNION Range(adds) :
        \E i \in DOMAIN edits :
            /\ n \in adds[i]
            /\ \A j \in DOMAIN edits : j > i => n \notin edits[j].del}

Replay(edits) == [l0 |-> Replayed(edits, [i \in DOMAIN edits |-> edits[i].add0]),
                  l1 |-> Replayed(edits, [i \in DOMAIN edits |-> edits[i].add1])]

\* Recover would find the manifest empty or a table missing.
Damaged ==
    \/ manifests[current].edits = <<>>
    \/ ~(TablesOf(Replay(manifests[current].edits)) \subseteq DOMAIN tables)

\* The directory of the database is deleted.
purgeDatabase ==
    /\ logs' = Keep(logs, {}) /\ tables' = Keep(tables, {})
    /\ manifests' = Keep(manifests, {}) /\ current' = 0

\* createDB: DB::Open finds the database damaged.
OpenDamaged ==
    /\ phase = "down" /\ current # 0 /\ Damaged
    /\ purgeDatabase
    /\ UNCHANGED <<phaseVars, queueVars, memVars, versionVars, last_sequence, bgVars,
                   iterators, promiseVars, boundVars>>

(***************************************************************************)
(* createDB: the lock, a file of the database, a table or the log that     *)
(* recovery writes, the manifest or CURRENT fails.  The database is        *)
(* deleted, damaged or not, with every write it ever acknowledged.  (When  *)
(* the second try fails createDB raises an exception: a ProcessCrash.)     *)
(***************************************************************************)
OpenFails ==
    /\ phase \in {"down", "replay", "recovered", "manifest"} /\ CanStep
    /\ events' = events + 1
    /\ purgeDatabase
    /\ MemoryLost
    /\ promised' = {} /\ synced' = {}
    /\ UNCHANGED issued

\* VersionSet::MarkFileNumberUsed.
MarkFileNumberUsed(next, number) == IF next <= number THEN number + 1 ELSE next

\* VersionSet::Recover reads the manifest, DBImpl::Recover lists the logs.
Recover ==
    /\ phase = "down" /\ current # 0 /\ ~Damaged
    /\ LET last == Last(manifests[current].edits)
       IN  /\ manifest_file_number' = last.next
           /\ next_file_number' = last.next + 1
           /\ last_sequence' = last.last
           /\ log_number' = last.log
           /\ replay' = {n \in DOMAIN logs : n >= last.log}
    /\ version' = Replay(manifests[current].edits)
    /\ phase' = "replay"
    /\ UNCHANGED <<diskVars, queueVars, memVars, bgVars, iterators, promiseVars,
                   boundVars>>

\* Faulty: the sequence numbers of the log do not count.
RecoverLogFileOnly ==
    /\ phase = "replay" /\ replay # {}
    /\ LET n == Min(replay)
           entries == UNION Range(logs[n].recs)
           table == IF entries = {} THEN {} ELSE {next_file_number}
       IN  /\ replay' = replay \ {n}
           /\ tables' = [t \in DOMAIN tables \union table |->
                            IF t \in table THEN entries ELSE tables[t]]
           /\ edit' = [edit EXCEPT !.add0 = @ \union table]
           /\ next_file_number' =
                 MarkFileNumberUsed(next_file_number + Cardinality(table), n)
    /\ UNCHANGED <<logs, manifests, current, phase, queueVars, memVars, log_number,
                   manifest_file_number, version, last_sequence, bg_error, bg, merge,
                   pending_outputs, iterators, promiseVars, boundVars>>

\* The oldest log that is left becomes a table of level 0, if it is not empty.
\* (A log never holds more than its memtable took, so it becomes one table.)
RecoverLogFile ==
    /\ phase = "replay" /\ replay # {}
    /\ LET n == Min(replay)
           entries == UNION Range(logs[n].recs)
           table == IF entries = {} THEN {} ELSE {next_file_number}
       IN  /\ replay' = replay \ {n}
           /\ tables' = [t \in DOMAIN tables \union table |->
                            IF t \in table THEN entries ELSE tables[t]]
           /\ edit' = [edit EXCEPT !.add0 = @ \union table]
           /\ next_file_number' =
                 MarkFileNumberUsed(next_file_number + Cardinality(table), n)
           /\ last_sequence' = Max({e.seq : e \in entries} \union {last_sequence})
    /\ UNCHANGED <<logs, manifests, current, phase, queueVars, memVars, log_number,
                   manifest_file_number, version, bg_error, bg, merge,
                   pending_outputs, iterators, promiseVars, boundVars>>

\* DB::Open makes a new log, and LogAndApply completes the edit.
NewLog ==
    /\ phase = "replay" /\ replay = {}
    /\ logs' = Put(logs, next_file_number, [recs |-> <<>>, synced |-> 0])
    /\ logfile_number' = next_file_number
    /\ next_file_number' = next_file_number + 1
    /\ edit' = [edit EXCEPT !.log = next_file_number, !.next = next_file_number + 1,
                            !.last = last_sequence]
    /\ phase' = "recovered"
    /\ UNCHANGED <<tables, manifests, current, queueVars, mem, imm, torn, log_number,
                   manifest_file_number, version, last_sequence, replay, bg_error, bg,
                   merge, pending_outputs, iterators, promiseVars, boundVars>>

\* LogAndApply writes and syncs a new manifest: the version as it is and the edit.
WriteSnapshot ==
    /\ phase = "recovered"
    /\ manifests' = Put(manifests, manifest_file_number,
          [edits |-> <<[NoEdit EXCEPT !.add0 = version.l0, !.add1 = version.l1], edit>>,
           synced |-> 2])
    /\ phase' = "manifest"
    /\ UNCHANGED <<replay, logs, tables, current, queueVars, memVars, versionVars,
                   last_sequence, bgVars, iterators, promiseVars, boundVars>>

SetCurrentFile ==
    /\ phase = "manifest"
    /\ current' = manifest_file_number
    /\ phase' = "current"
    /\ UNCHANGED <<replay, logs, tables, manifests, queueVars, memVars, versionVars,
                   last_sequence, bgVars, iterators, promiseVars, boundVars>>

\* The rest of DB::Open.
Open ==
    /\ phase = "current"
    /\ phase' = "open"
    /\ version' = Apply(version, edit)
    /\ log_number' = edit.log
    /\ edit' = NoEdit
    /\ DeleteObsoleteFiles(manifests, Apply(version, edit), edit.log, {}, {})
    /\ bg' = MaybeSchedule(bg, {}, Apply(version, edit), bg_error)
    /\ UNCHANGED <<replay, current, queueVars, memVars, next_file_number,
                   manifest_file_number, last_sequence, bg_error, merge,
                   pending_outputs, iterators, promiseVars, boundVars>>

OpenStep ==
    \/ NewDB \/ OpenDamaged \/ Recover \/ RecoverLogFile \/ NewLog
    \/ WriteSnapshot \/ SetCurrentFile \/ Open

-----------------------------------------------------------------------------
Next ==
    \/ \E w \in Writers :
          \/ Write(w) \/ WriterStep(w)
          \/ AddRecordFails(w) \/ SyncLogFails(w) \/ RoomSwitchFails(w)
    \/ BackgroundStep
    \/ TableFails \/ MergeFails \/ SyncManifestFails
    \/ NewIterator
    \/ \E i \in iterators : CleanupIteratorState(i)
    \/ Close \/ Closed \/ ProcessCrash \/ MachineCrash \/ OpenFails
    \/ OpenStep

(***************************************************************************)
(* The threads are scheduled, condition variables wake those they signal,  *)
(* and a database that is down is opened again.  Nothing obliges a caller  *)
(* to write, to read or to close, and nothing has to fail.                 *)
(***************************************************************************)
Spec ==
    /\ Init /\ [][Next]_vars
    /\ \A w \in Writers : WF_vars(WriterStep(w))
    /\ WF_vars(BackgroundStep)
    /\ WF_vars(OpenStep)
    /\ WF_vars(Closed)

-----------------------------------------------------------------------------
TypeOK ==
    /\ phase \in {"down", "replay", "recovered", "manifest", "current", "open", "closing"}
    /\ \A n \in DOMAIN logs : logs[n].synced \in 0 .. Len(logs[n].recs)
    /\ \A n \in DOMAIN manifests : manifests[n].synced \in 0 .. Len(manifests[n].edits)
    /\ pc \in [Writers -> {"idle", "waiting", "room", "bgwait", "sync", "apply"}]
    /\ {w \in Writers : pc[w] # "idle"} = Range(writers)
    /\ IsInjective(writers)
    /\ \A i \in DOMAIN writers : i > 1 <=> pc[writers[i]] = "waiting"
    /\ IsPrefix(group, writers)
    /\ Cardinality(imm) <= 1 /\ Cardinality(merge) <= 1
    /\ bg.pc \in {"none", "scheduled", "build", "merge", "sync"}
    /\ bg.job \in {"none", "flush", "merge"}
    /\ pending_outputs \subseteq 0 .. next_file_number
    /\ promised \subseteq 1 .. issued /\ risked \subseteq 1 .. issued
    /\ synced \subseteq promised

\* What a Get can find.
Readable == mem \union (UNION imm) \union Contents(TablesOf(version))

(***************************************************************************)
(* An open database finds every write it has acknowledged, whatever was    *)
(* flushed, merged, deleted or found damaged since, however often it was   *)
(* closed or the process crashed, at whatever step of a flush, a merge or  *)
(* a recovery, and after a crash of the machine every write that asked for *)
(* a sync or was in a flushed memtable (DBImpl::Write, CompactMemTable,    *)
(* DeleteObsoleteFiles, Recover).  Two things take acknowledged writes:    *)
(* an end of the process, of those whose record lies unreadable behind a   *)
(* failed append and that are not in a table yet, and an open that fails,  *)
(* after which createDB deletes the database.                              *)
(***************************************************************************)
AcknowledgedSurvive ==
    phase \in {"open", "closing"} => promised \union risked \subseteq Ids(Readable)

(***************************************************************************)
(* No file that somebody will still read is deleted: the tables of the     *)
(* version, of the running merge, of every iterator (which so finds all it *)
(* could find when it was made), and those of each version that a recovery *)
(* may find, for every end of the manifest that a crash may leave          *)
(* (DeleteObsoleteFiles).                                                  *)
(***************************************************************************)
LiveFilesExist ==
    /\ TablesOf(version) \subseteq DOMAIN tables
    /\ \A r \in merge : r.tables \subseteq DOMAIN tables
    /\ \A i \in iterators : /\ i.tables \subseteq DOMAIN tables
                            /\ i.sees \subseteq Ids(i.mem \union Contents(i.tables))
    /\ current # 0 =>
          LET m == manifests[current]
          IN  \A k \in m.synced .. Len(m.edits) :
                  TablesOf(Replay(SubSeq(m.edits, 1, k))) \subseteq DOMAIN tables

(***************************************************************************)
(* A sequence number names one write, also after failed writes and crashes *)
(* that take a number back: two entries that can be read, or replayed from *)
(* the log, with the same number are the same write                        *)
(* (DBImpl::Write, Recover).                                               *)
(***************************************************************************)
SequencesUnique ==
    phase = "open" =>
        \A e, f \in Readable : /\ e.seq = f.seq => e.id = f.id
                              /\ e.seq <= last_sequence

(***************************************************************************)
(* Every call of Write returns: no writer waits for ever behind another    *)
(* one, for room in the memtable or for the background thread, also after  *)
(* an error (MakeRoomForWrite, BackgroundCall, RecordBackgroundError).     *)
(***************************************************************************)
WritersReturn == \A w \in Writers : pc[w] # "idle" ~> pc[w] = "idle"

(***************************************************************************)
(* A database that is closed, crashes or fails to open is open again in    *)
(* the end, whatever state its files are in (~DBImpl, DB::Open, createDB). *)
(***************************************************************************)
Reopens == phase # "open" ~> phase = "open"
=============================================================================
