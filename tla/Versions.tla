------------------------------ MODULE Versions ------------------------------
(***************************************************************************)
(* The pure part of leveldb's version_set.cc: which files of a version a   *)
(* read looks into, which files a compaction takes, and which entries it   *)
(* keeps.                                                                  *)
(*                                                                         *)
(* An entry is [key, seq, del]: a user key, the sequence number it was     *)
(* written with, and whether it is a deletion.  The value of an entry is   *)
(* its sequence number.  A file is [number, data], data being its set of   *)
(* entries, and a version gives every level its set of files.  The size of *)
(* a file is its number of entries.                                        *)
(***************************************************************************)
EXTENDS Integers, FiniteSetsExt, SequencesExt

CONSTANTS
    Keys,                   \* the user keys, a range of integers
    kNumLevels,             \* number of levels; the last has no compaction
    kMaxMemCompactLevel,    \* deepest level a memtable is written to
    kL0_CompactionTrigger,  \* files in level 0 that start a compaction
    MaxBytesForLevel,       \* for every level > 0, the size that starts one
    MaxOutputFileSize,      \* size at which a compaction closes its output
    MaxGrandParentOverlap,  \* overlap with level + 2 that closes it as well
    ExpandedLimit           \* largest compaction that may be made by growing

Levels == 0 .. kNumLevels - 1

\* A sequence number above every real one (kMaxSequenceNumber), and a key
\* that comes before every real one.
Infinity == 1000
NoKey == Min(Keys) - 1

\* The elements of a set in the strict total order before.  (SetToSortSeq says
\* the same and enumerates all sequences over the set.)
SortBy(S, before(_, _)) ==
    [i \in 1 .. Cardinality(S) |->
        CHOOSE e \in S : Cardinality({d \in S : before(d, e)}) = i - 1]

-----------------------------------------------------------------------------
(* Internal keys: ascending user keys, descending sequence numbers.        *)

\* a comes before b in the order of InternalKeyComparator.
Before(a, b) == a.key < b.key \/ (a.key = b.key /\ a.seq > b.seq)

\* The keys FileMetaData keeps about a file.
Smallest(f) == CHOOSE e \in f.data : \A d \in f.data : d = e \/ Before(e, d)
Largest(f) == CHOOSE e \in f.data : \A d \in f.data : d = e \/ Before(d, e)

\* Builder::BySmallestKey, the order a version keeps a level's files in.
BySmallestKey(f, g) ==
    \/ Before(Smallest(f), Smallest(g))
    \/ Smallest(f) = Smallest(g) /\ f.number < g.number

InOrder(files) == SortBy(files, BySmallestKey)

TotalFileSize(files) == MapThenSumSet(LAMBDA f : Cardinality(f.data), files)

\* What a table, or a memtable, answers to a lookup: the first entry at or
\* after the lookup key, if it is one of that user key.
TableGet(data, lookup) ==
    {e \in data : /\ e.key = lookup.key
                  /\ ~Before(e, lookup)
                  /\ \A d \in data : Before(d, e) => Before(d, lookup)}

-----------------------------------------------------------------------------
(* Reading: Version::Get.                                                  *)

\* The files of a level > 0 are sorted and disjoint: the first one whose
\* largest key is not before the key, if there is one.
FindFile(files, key) ==
    {f \in files : /\ ~Before(Largest(f), key)
                   /\ \A g \in files : Before(Largest(g), Largest(f))
                                         => Before(Largest(g), key)}

\* The user keys from smallest to largest meet the range lo .. hi.
Meets(f, lo, hi) == Largest(f).key >= lo /\ Smallest(f).key <= hi

NewestFirst(f, g) == f.number > g.number

\* The files Version::Get reads until it finds the key, in order: those of
\* level 0 from the newest to the oldest, then at most one of each level.
FilesToSearch(version, lookup) ==
    LET level0 == {f \in version[0] : Meets(f, lookup.key, lookup.key)}
        oneOf(l) == {f \in FindFile(version[l], lookup) :
                                             Smallest(f).key <= lookup.key}
        below[l \in 0 .. kNumLevels - 1] ==
            IF l = 0 THEN <<>> ELSE below[l - 1] \o SetToSeq(oneOf(l))
    IN  SortBy(level0, NewestFirst) \o below[kNumLevels - 1]

\* The level a version has a file in.
LevelOf(version, f) == CHOOSE l \in Levels : f \in version[l]

-----------------------------------------------------------------------------
(* Choosing levels and files.                                              *)

\* Faulty: a file that ends with the first key of the range is missed.
OverlapInLevelShort(version, l, lo, hi) ==
    \E f \in version[l] : Largest(f).key > lo /\ Smallest(f).key <= hi

\* OverlapInLevel and SomeFileOverlapsRange: all files of level 0 are looked
\* at, in the other levels the first that does not end before the range.
OverlapInLevel(version, l, lo, hi) ==
    IF l = 0
    THEN \E f \in version[0] : Meets(f, lo, hi)
    ELSE \E f \in FindFile(version[l], [key |-> lo, seq |-> Infinity]) :
                                                      Smallest(f).key <= hi

\* GetOverlappingInputs.  Files of level 0 may overlap each other, so there
\* the range is widened until it cuts through no file.
GetOverlappingInputs(version, l, lo, hi) ==
    LET closed(a, b) == \A f \in version[0] :
                Meets(f, a, b) => a <= Smallest(f).key /\ Largest(f).key <= b
        a0 == Max({a \in Keys : a <= lo /\ \E b \in Keys : b >= hi /\ closed(a, b)})
        b0 == Min({b \in Keys : b >= hi /\ closed(a0, b)})
    IN  IF l = 0 THEN {f \in version[0] : Meets(f, a0, b0)}
                 ELSE {f \in version[l] : Meets(f, lo, hi)}

\* Faulty: level 0 is not looked at.
PickLevelIgnoringLevel0(version, lo, hi) ==
    Min({l \in 0 .. kMaxMemCompactLevel :
            l = kMaxMemCompactLevel \/ OverlapInLevel(version, l + 1, lo, hi)})

\* The level the table of a memtable with keys lo .. hi is put in.
PickLevelForMemTableOutput(version, lo, hi) ==
    IF OverlapInLevel(version, 0, lo, hi)
    THEN 0
    ELSE Min({l \in 0 .. kMaxMemCompactLevel :
                \/ l = kMaxMemCompactLevel
                \/ OverlapInLevel(version, l + 1, lo, hi)
                \/ /\ l + 2 < kNumLevels
                   /\ TotalFileSize(GetOverlappingInputs(version, l + 2, lo, hi))
                                                   > MaxGrandParentOverlap})

\* Finalize: how full a level is, as a fraction <<is, may be>>, and the level
\* that is fullest; the first of several.
Score(version, l) ==
    IF l = 0 THEN <<Cardinality(version[0]), kL0_CompactionTrigger>>
             ELSE <<TotalFileSize(version[l]), MaxBytesForLevel[l]>>

Fuller(s, t) == s[1] * t[2] > t[1] * s[2]

BestLevel(version) ==
    Min({l \in 0 .. kNumLevels - 2 :
            \A m \in 0 .. kNumLevels - 2 : ~Fuller(Score(version, m), Score(version, l))})

SizeCompaction(version) ==
    LET s == Score(version, BestLevel(version)) IN s[1] >= s[2]

-----------------------------------------------------------------------------
(* The inputs of a compaction.                                             *)

\* GetRange: the smallest and the largest internal key of some files.
RangeOf(files) == Smallest([data |-> UNION {f.data : f \in files}])
RangeEnd(files) == Largest([data |-> UNION {f.data : f \in files}])

\* Faulty: a user key that goes on in the next file is torn apart.
AddBoundaryInputsNone(levelFiles, files) == files

\* AddBoundaryInputs: when a user key goes on in the next file of the level,
\* that file, which has the key's older entries, is taken as well; and so on.
AddBoundaryInputs(levelFiles, files) ==
    LET boundary(last) == {f \in levelFiles : /\ Smallest(f).key = last.key
                                              /\ Before(last, Smallest(f))}
        grow[n \in 0 .. Cardinality(levelFiles)] ==
            IF n = 0 THEN [files |-> files, last |-> RangeEnd(files)]
            ELSE LET g == grow[n - 1]
                     b == boundary(g.last)
                 IN  IF b = {} THEN g
                     ELSE LET f == Head(InOrder(b))
                          IN  [files |-> g.files \union {f}, last |-> Largest(f)]
    IN  grow[Cardinality(levelFiles)].files

Inputs(version, l, files) ==
    GetOverlappingInputs(version, l, RangeOf(files).key, RangeEnd(files).key)

\* Files of a level with the files of the next level that they overlap.
WithParents(version, level, files) ==
    [in0 |-> files, in1 |-> Inputs(version, level + 1, files)]

\* The same for all files of the level in the range of such inputs.
Expanded(version, level, c) ==
    WithParents(version, level,
        AddBoundaryInputs(version[level], Inputs(version, level, c.in0 \union c.in1)))

\* The inputs c grow to e if that takes more files of the level, none of the
\* next level, and stays below a limit.
MayGrow(c, e) ==
    /\ c.in1 # {}
    /\ Cardinality(e.in0) > Cardinality(c.in0)
    /\ TotalFileSize(c.in1) + TotalFileSize(e.in0) < ExpandedLimit
    /\ Cardinality(e.in1) = Cardinality(c.in1)

Grow(c, e) == IF MayGrow(c, e) THEN e ELSE c

\* A compaction with its grandparents in level + 2 and the key after which the
\* next compaction of the level starts.
Compaction(version, level, c) ==
    [level |-> level, in0 |-> c.in0, in1 |-> c.in1,
     grandparents |-> IF level + 2 < kNumLevels
                      THEN Inputs(version, level + 2, c.in0 \union c.in1) ELSE {},
     pointer |-> RangeEnd(c.in0),
     smallestSnapshot |-> 0, version |-> version]

\* SetupOtherInputs: what is merged with the picked files of a level.
SetupOtherInputs(version, level, picked) ==
    LET grown(c) == Grow(c, Expanded(version, level, c))
    IN  Compaction(version, level,
            grown(WithParents(version, level,
                              AddBoundaryInputs(version[level], picked))))

\* PickCompaction for a level that is too full: the first file after the
\* level's compaction pointer, or the level's first; in level 0 with all the
\* files that overlap it.
PickBySize(version, level, pointer) ==
    LET after == {f \in version[level] : Before(pointer, Largest(f))}
        f == Head(InOrder(IF after = {} THEN version[level] ELSE after))
    IN  IF level = 0 THEN Inputs(version, 0, {f}) ELSE {f}

\* IsTrivialMove: a lone file can move down without being rewritten.
IsTrivialMove(c) ==
    /\ Cardinality(c.in0) = 1
    /\ c.in1 = {}
    /\ TotalFileSize(c.grandparents) <= MaxGrandParentOverlap

-----------------------------------------------------------------------------
(* The merge: DoCompactionWork.                                            *)

\* IsBaseLevelForKey: no file below the output level can have the key.
IsBaseLevelForKey(version, c, key) ==
    \A l \in c.level + 2 .. kNumLevels - 1 :
        \A f \in version[l] : ~Meets(f, key, key)

\* ShouldStopBefore: counts the grandparents the output has passed; passed
\* is the set of those counted or skipped so far.
PassedBefore(c, e) == {f \in c.grandparents : Before(Largest(f), e)}

\* An entry is dropped when a newer entry of its key is visible to every
\* reader, or when it is such a deletion and nothing is left to hide.
Drop(version, c, e, lastSeq) ==
    \/ lastSeq <= c.smallestSnapshot
    \/ /\ e.del
       /\ e.seq <= c.smallestSnapshot
       /\ IsBaseLevelForKey(version, c, e.key)

\* The data of the output files, in order.  The merge goes through the inputs
\* in internal order; lastSeq is the sequence number of the entry before it
\* of the same key, overlap and passed belong to ShouldStopBefore.
DoCompactionWork(version, c) ==
    LET input == SortBy(UNION {f.data : f \in c.in0 \union c.in1}, Before)
        step(acc, e) ==
            LET passed == PassedBefore(c, e)
                overlap == IF acc.seen
                           THEN acc.overlap + TotalFileSize(passed \ acc.passed)
                           ELSE acc.overlap
                stop == overlap > MaxGrandParentOverlap
                cut == stop /\ acc.open # {}
                before == IF cut THEN {} ELSE acc.open
                done == IF cut THEN Append(acc.done, acc.open) ELSE acc.done
                lastSeq == IF acc.key = e.key THEN acc.lastSeq ELSE Infinity
                open == IF Drop(version, c, e, lastSeq) THEN before
                                                        ELSE before \union {e}
                full == Cardinality(open) >= MaxOutputFileSize
            IN  [seen |-> TRUE, passed |-> passed,
                 overlap |-> IF stop THEN 0 ELSE overlap,
                 key |-> e.key, lastSeq |-> e.seq,
                 open |-> IF full THEN {} ELSE open,
                 done |-> IF full THEN Append(done, open) ELSE done]
        start == [seen |-> FALSE, passed |-> {}, overlap |-> 0, key |-> NoKey,
                  lastSeq |-> Infinity, open |-> {}, done |-> <<>>]
        end == FoldLeft(step, start, input)
    IN  IF end.open = {} THEN end.done ELSE Append(end.done, end.open)
=============================================================================
