------------------------------ MODULE SkipList ------------------------------
(***************************************************************************)
(* leveldb's memtable index: one thread inserts while others search and    *)
(* iterate without a lock.  A step of a thread is one access to a pointer  *)
(* that other threads may see; acquire and release make a published node's *)
(* key and lower pointers visible with it.  max_height_ is read and        *)
(* written without order, so a reader may see any of its values so far.    *)
(***************************************************************************)
EXTENDS Integers, FiniteSetsExt, SequencesExt

CONSTANTS
    ListKeys,    \* positive numbers
    kMaxHeight,
    Readers,
    MaxReads     \* bound: operations of the readers

ASSUME ListKeysAssumption ==
    ListKeys \subseteq Nat \ {0} /\ ListKeys # {} /\ IsFiniteSet(ListKeys)
ASSUME kMaxHeightAssumption == kMaxHeight \in Nat \ {0}

Head_ == 0                       \* head_, before all keys
Null == Max(ListKeys) + 1        \* nullptr, after all keys
Nodes == ListKeys \union {Head_}
Heights == 1 .. kMaxHeight

VARIABLES
    next,        \* next[x][i]: the pointer of node x at level i
    max_height,
    inserting,   \* the node being inserted: [key, height, level, prev]
    reads,       \* what each reader is at: [busy, op, key, x, level, before]
    node,        \* Iterator::node_ of each reader
    readCount

skipVars == <<next, max_height, inserting, reads, node, readCount>>

Idle == [key |-> Null, height |-> 0, level |-> 0, prev |-> <<>>]
NoRead == [busy |-> FALSE, op |-> "none", key |-> Null, x |-> Head_, level |-> 0,
           before |-> {}]

\* The keys a reader that starts now must find.
Linked == {k \in ListKeys : \E x \in Nodes : next[x][1] = k}

-----------------------------------------------------------------------------
(* Insert.                                                                 *)

\* FindGreaterOrEqual's prev: the last node before k at every level.  No other
\* thread writes, so the writer finds it in one step.
NodeBefore(k, i) == Max({x \in Nodes : x < k /\ (x = Head_ \/ \E y \in Nodes : next[y][i] = x)})

\* Insert picks a height and raises max_height_ before it links the node.
Insert(k, height) ==
    /\ inserting = Idle /\ k \notin Linked
    /\ inserting' = [key |-> k, height |-> height, level |-> 1,
                     prev |-> [i \in 1 .. height |-> NodeBefore(k, i)]]
    /\ max_height' = IF height > max_height THEN height ELSE max_height
    /\ UNCHANGED <<next, reads, node, readCount>>

\* Faulty: the upper levels are linked first.
LinkLevel == inserting.height + 1 - inserting.level

\* The levels are linked from the lowest up.
Level == inserting.level

\* NoBarrier_SetNext and SetNext at one level.
Link ==
    /\ inserting # Idle
    /\ LET k == inserting.key
           i == Level
           p == inserting.prev[i]
       IN  next' = [next EXCEPT ![k][i] = next[p][i], ![p][i] = k]
    /\ inserting' = IF inserting.level = inserting.height THEN Idle
                    ELSE [inserting EXCEPT !.level = @ + 1]
    /\ UNCHANGED <<max_height, reads, node, readCount>>

-----------------------------------------------------------------------------
(* Readers.                                                                *)

\* Seek, SeekToLast and Prev start at head_, at some value max_height_ has had.
\* Prev searches for the last node before the one the iterator is at.
StartSearch(r, op, key) ==
    /\ ~reads[r].busy /\ readCount < MaxReads
    /\ op = "Prev" => node[r] # Null /\ key = node[r]
    /\ op = "SeekToLast" => key = Null
    /\ \E h \in 1 .. max_height :
          reads' = [reads EXCEPT ![r] = [busy |-> TRUE, op |-> op, key |-> key,
                                         x |-> Head_, level |-> h, before |-> Linked]]
    /\ readCount' = readCount + 1
    /\ UNCHANGED <<next, max_height, inserting, node>>

\* What the search returns at the lowest level: FindGreaterOrEqual the node
\* after x, FindLessThan and FindLast x itself, or nothing for head_.
Found(r, after) ==
    IF reads[r].op = "Seek" THEN after
    ELSE IF reads[r].x = Head_ THEN Null ELSE reads[r].x

\* One turn of the loop of FindGreaterOrEqual, FindLessThan or FindLast.
SearchStep(r) ==
    /\ reads[r].busy
    /\ LET s == reads[r]
           after == next[s.x][s.level]
       IN  \/ /\ after < s.key
              /\ reads' = [reads EXCEPT ![r].x = after]
              /\ UNCHANGED node
           \/ /\ after >= s.key /\ s.level > 1
              /\ reads' = [reads EXCEPT ![r].level = @ - 1]
              /\ UNCHANGED node
           \/ /\ after >= s.key /\ s.level = 1
              /\ node' = [node EXCEPT ![r] = Found(r, after)]
              /\ reads' = [reads EXCEPT ![r].busy = FALSE]
    /\ UNCHANGED <<next, max_height, inserting, readCount>>

\* Iterator::Next and SeekToFirst: one pointer is read.
StepForward(r, x) ==
    /\ ~reads[r].busy /\ readCount < MaxReads
    /\ x = Head_ \/ (x = node[r] /\ x # Null)
    /\ node' = [node EXCEPT ![r] = next[x][1]]
    /\ reads' = [reads EXCEPT ![r] = NoRead]
    /\ readCount' = readCount + 1
    /\ UNCHANGED <<next, max_height, inserting>>

-----------------------------------------------------------------------------
SkipInit ==
    /\ next = [x \in Nodes |-> [i \in Heights |-> Null]]
    /\ max_height = 1
    /\ inserting = Idle
    /\ reads = [r \in Readers |-> NoRead]
    /\ node = [r \in Readers |-> Null]
    /\ readCount = 0

SkipNext ==
    \/ \E k \in ListKeys, h \in Heights : Insert(k, h)
    \/ Link
    \/ \E r \in Readers :
          \/ \E op \in {"Seek", "SeekToLast", "Prev"}, k \in ListKeys \union {Null} :
                StartSearch(r, op, k)
          \/ SearchStep(r)
          \/ \E x \in Nodes : StepForward(r, x)

SkipSpec == SkipInit /\ [][SkipNext]_skipVars

-----------------------------------------------------------------------------
(***************************************************************************)
(* A search misses nothing that was in the list when it began, whatever is *)
(* linked meanwhile at whatever level: between what Seek looks for and     *)
(* what it returns, and between what Prev or SeekToLast returns and where  *)
(* it looks from, there is no such key (FindGreaterOrEqual, FindLessThan,  *)
(* FindLast against Insert).                                               *)
(***************************************************************************)
SearchMissesNothing ==
    \A r \in Readers :
        LET s == reads[r]
            at == IF node[r] = Null THEN Head_ ELSE node[r]
        IN  ~s.busy =>
              /\ s.op = "Seek" =>
                    node[r] >= s.key /\ \A k \in s.before : ~(s.key <= k /\ k < node[r])
              /\ s.op \in {"Prev", "SeekToLast"} =>
                    at < s.key /\ \A k \in s.before : ~(at < k /\ k < s.key)
=============================================================================
