------------------------------- MODULE LsmTree -------------------------------
(***************************************************************************)
(* What leveldb's files hold and what a read finds in them (db_impl.cc and *)
(* version_set.cc): writes go to a memtable, full memtables become tables, *)
(* a background thread merges tables downwards and drops what no reader    *)
(* can see.  A merge runs without the mutex: it takes its inputs, the      *)
(* version and the oldest snapshot at its start and installs its outputs   *)
(* at its end, and writes, snapshots and memtable compactions happen in    *)
(* between.  Logs, crashes and the writers' queue are LevelDB's.           *)
(***************************************************************************)
EXTENDS Versions

CONSTANTS
    WriteBufferSize,        \* entries with which a memtable is surely full
    kL0_StopWritesTrigger,  \* files in level 0 that block a writer
    MaxSequence,            \* bound: number of writes
    MaxSnapshots            \* bound: snapshots held at a time

VARIABLES
    mem, imm,          \* entries of mem_ and imm_; {} is also "no imm_"
    files,             \* the current version
    last_sequence,     \* VersionSet::last_sequence_
    next_file_number,  \* VersionSet::next_file_number_
    snapshots,         \* sequence numbers in snapshots_
    compact_pointer,   \* for every level, where its next compaction starts
    file_to_compact,   \* Version::file_to_compact_, a set of at most one
    compaction,        \* the merges under way, a set of at most one
    history            \* history: what was written, by sequence number

treeVars == <<mem, imm, files, next_file_number, compact_pointer,
              file_to_compact, compaction>>
vars == <<treeVars, last_sequence, snapshots, history>>

\* The start of the key space: every file comes after it.
NoPointer == [key |-> NoKey, seq |-> 0]

Init ==
    /\ mem = {} /\ imm = {}
    /\ files = [l \in Levels |-> {}]
    /\ last_sequence = 0
    /\ next_file_number = 1
    /\ snapshots = {}
    /\ compact_pointer = [l \in Levels |-> NoPointer]
    /\ file_to_compact = {}
    /\ compaction = {}
    /\ history = <<>>

-----------------------------------------------------------------------------
(* Writing.                                                                *)

\* MakeRoomForWrite: there is room in mem_, or it becomes imm_, which has to be
\* free, and level 0 must not have too many files.  How many entries fill a
\* memtable depends on their sizes: any number from 1 to WriteBufferSize may,
\* more do.  The memtable to write to is mem_ afterwards.
MakeRoomForWrite(table) ==
    \/ /\ Cardinality(mem) < WriteBufferSize
       /\ table = mem
       /\ UNCHANGED imm
    \/ /\ mem # {}
       /\ imm = {}
       /\ Cardinality(files[0]) < kL0_StopWritesTrigger
       /\ table = {}
       /\ imm' = mem

\* Put or Delete of one key.
Write(key, del) ==
    \E table \in {mem, {}} :
        /\ last_sequence < MaxSequence
        /\ MakeRoomForWrite(table)
        /\ mem' = table \union {[key |-> key, seq |-> last_sequence + 1, del |-> del]}
        /\ last_sequence' = last_sequence + 1
        /\ history' = Append(history, [key |-> key, del |-> del])
        /\ UNCHANGED <<files, next_file_number, snapshots, compact_pointer,
                       file_to_compact, compaction>>

-----------------------------------------------------------------------------
(* Reading.                                                                *)

\* DBImpl::Get: mem_, imm_ and then the files; the first that has an entry of
\* the key decides.  0 stands for NotFound.
Get(key, seq) ==
    LET lookup == [key |-> key, seq |-> seq]
        search == FilesToSearch(files, lookup)
        found == SelectSeq(<<TableGet(mem, lookup), TableGet(imm, lookup)>>
                     \o [i \in DOMAIN search |-> TableGet(search[i].data, lookup)],
                     LAMBDA s : s # {})
        e == CHOOSE e \in Head(found) : TRUE
    IN  IF found = <<>> \/ e.del THEN 0 ELSE e.seq

\* The file a read at the latest sequence number charges with a seek: the
\* first file it reads, if it has to read a second one.
SeekFile(key) ==
    LET lookup == [key |-> key, seq |-> last_sequence]
        search == FilesToSearch(files, lookup)
    IN  IF /\ TableGet(mem, lookup) = {} /\ TableGet(imm, lookup) = {}
           /\ Len(search) > 1 /\ TableGet(search[1].data, lookup) = {}
        THEN {search[1]} ELSE {}

\* UpdateStats: a file that was charged often enough is to be compacted.  Any
\* charge may be the one that uses up allowed_seeks.
UpdateStats(key) ==
    /\ file_to_compact = {}
    /\ SeekFile(key) # {}
    /\ file_to_compact' = SeekFile(key)
    /\ UNCHANGED <<mem, imm, files, next_file_number, compact_pointer,
                   compaction, last_sequence, snapshots, history>>

GetSnapshot ==
    /\ Cardinality(snapshots) < MaxSnapshots
    /\ last_sequence \notin snapshots
    /\ snapshots' = snapshots \union {last_sequence}
    /\ UNCHANGED <<treeVars, last_sequence, history>>

ReleaseSnapshot(s) ==
    /\ s \in snapshots
    /\ snapshots' = snapshots \ {s}
    /\ UNCHANGED <<treeVars, last_sequence, history>>

-----------------------------------------------------------------------------
(* The background thread.                                                  *)

\* LogAndApply makes a version from the current one and an edit; a new
\* version has no file_to_compact_.
LogAndApply(deleted, added) ==
    /\ files' = [l \in Levels |-> (files[l] \ deleted[l]) \union added[l]]
    /\ file_to_compact' = {}

\* CompactMemTable and WriteLevel0Table.  It runs by itself or in the middle
\* of a merge.
CompactMemTable ==
    LET f == [number |-> next_file_number, data |-> imm]
        level == PickLevelForMemTableOutput(files, Smallest(f).key, Largest(f).key)
    IN  /\ imm # {}
        /\ LogAndApply([l \in Levels |-> {}],
                       [l \in Levels |-> IF l = level THEN {f} ELSE {}])
        /\ imm' = {}
        /\ next_file_number' = next_file_number + 1
        /\ UNCHANGED <<mem, last_sequence, snapshots, compact_pointer,
                       compaction, history>>

\* PickCompaction: too much data in a level comes before too many seeks.
PickCompaction ==
    IF SizeCompaction(files)
    THEN LET l == BestLevel(files)
         IN  SetupOtherInputs(files, l, PickBySize(files, l, compact_pointer[l]))
    ELSE LET f == CHOOSE f \in file_to_compact : TRUE
             l == LevelOf(files, f)
         IN  SetupOtherInputs(files, l, IF l = 0 THEN Inputs(files, 0, {f}) ELSE {f})

NeedsCompaction == SizeCompaction(files) \/ file_to_compact # {}

\* BackgroundCompaction with nothing to do for imm_: a lone file is moved to
\* the next level at once, otherwise a merge starts.
BackgroundCompaction ==
    LET oldest == IF snapshots = {} THEN last_sequence ELSE Min(snapshots)
    IN  /\ compaction = {}
        /\ imm = {}
        /\ NeedsCompaction
        /\ \E c \in {PickCompaction} :
              /\ compact_pointer' = [compact_pointer EXCEPT ![c.level] = c.pointer]
              /\ \/ /\ IsTrivialMove(c)
                    /\ LogAndApply(
                          [l \in Levels |-> IF l = c.level THEN c.in0 ELSE {}],
                          [l \in Levels |-> IF l = c.level + 1 THEN c.in0 ELSE {}])
                    /\ UNCHANGED compaction
                 \/ /\ ~IsTrivialMove(c)
                    /\ compaction' = {[c EXCEPT !.smallestSnapshot = oldest]}
                    /\ UNCHANGED <<files, file_to_compact>>
        /\ UNCHANGED <<mem, imm, last_sequence, next_file_number, snapshots, history>>

\* Faulty: the outputs are put into the level they came from.
InstallInTheSameLevel ==
    \E c \in compaction :
        LET outputs == DoCompactionWork(c.version, c)
            added == {[number |-> next_file_number + i - 1, data |-> outputs[i]] :
                                                        i \in DOMAIN outputs}
        IN  /\ LogAndApply([l \in Levels |-> CASE l = c.level -> c.in0
                                               [] l = c.level + 1 -> c.in1
                                               [] OTHER -> {}],
                           [l \in Levels |-> IF l = c.level THEN added ELSE {}])
            /\ next_file_number' = next_file_number + Len(outputs)
            /\ compaction' = {}
            /\ UNCHANGED <<mem, imm, last_sequence, snapshots, compact_pointer, history>>

\* The end of DoCompactionWork and InstallCompactionResults: the outputs, made
\* from the version the merge started with, replace the inputs in the version
\* that is current now.
InstallCompactionResults ==
    \E c \in compaction :
        LET outputs == DoCompactionWork(c.version, c)
            added == {[number |-> next_file_number + i - 1, data |-> outputs[i]] :
                                                        i \in DOMAIN outputs}
        IN  /\ LogAndApply([l \in Levels |-> CASE l = c.level -> c.in0
                                               [] l = c.level + 1 -> c.in1
                                               [] OTHER -> {}],
                           [l \in Levels |-> IF l = c.level + 1 THEN added ELSE {}])
            /\ next_file_number' = next_file_number + Len(outputs)
            /\ compaction' = {}
            /\ UNCHANGED <<mem, imm, last_sequence, snapshots, compact_pointer, history>>

Next ==
    \/ \E key \in Keys, del \in BOOLEAN : Write(key, del)
    \/ \E key \in Keys : UpdateStats(key)
    \/ GetSnapshot
    \/ \E s \in snapshots : ReleaseSnapshot(s)
    \/ CompactMemTable
    \/ BackgroundCompaction
    \/ InstallCompactionResults

Spec == Init /\ [][Next]_vars

-----------------------------------------------------------------------------
(* Properties.                                                             *)

\* The last thing that was written to a key up to a sequence number.
Latest(key, seq) ==
    LET writes == {i \in 1 .. seq : history[i].key = key}
    IN  IF writes = {} \/ history[Max(writes)].del THEN 0 ELSE Max(writes)

\* Whatever was flushed, moved, merged and dropped, a read at the latest
\* sequence number or at a held snapshot finds the last thing written up to it.
ReadsTheLatest ==
    \A s \in snapshots \union {last_sequence} :
        \A k \in Keys : Get(k, s) = Latest(k, s)

\* Version::Get stops at the first level that has the key because "entries
\* never hop across levels": of two places a read looks into one after the
\* other, the first has only newer entries of a key.
NewerAbove ==
    LET above(a, b) == \A d \in a, e \in b : d.key = e.key => d.seq > e.seq
        table(l) == UNION {f.data : f \in files[l]}
    IN  /\ above(mem, imm)
        /\ \A l \in Levels : above(imm, table(l))
        /\ \A f, g \in files[0] : f.number > g.number => above(f.data, g.data)
        /\ \A l, m \in Levels : l < m => above(table(l), table(m))

\* The files of a level below level 0 do not overlap, which SaveTo asserts of
\* every new version.
LevelsAreDisjoint ==
    \A l \in Levels \ {0} : \A f, g \in files[l] :
        f = g \/ Before(Largest(f), Smallest(g)) \/ Before(Largest(g), Smallest(f))

\* How far the entries are from the last level.
Height == SumFunction([l \in Levels |-> (kNumLevels - l) * TotalFileSize(files[l])])

\* A compaction, by merging or by moving a file, by size or by seeks, brings the
\* tree closer to rest: but for a new memtable's table, every new version has
\* its entries lower than the one before, so the compactions that a finite
\* number of writes leads to come to an end.
CompactionsSink ==
    [][files' # files /\ imm' = imm => Height' < Height]_vars
=============================================================================
