----------------------------- MODULE TableCache -----------------------------
(***************************************************************************)
(* leveldb's cache of open tables: TableCache over one shard of the LRU    *)
(* cache.  Gets, iterators and compactions of several threads look a table *)
(* up, open it when it is not there, use it and release it, while tables   *)
(* are pushed out by others and the files that no version needs any more   *)
(* are deleted.  The cache's mutex makes each of its calls one step; a     *)
(* table is opened between two of them.                                    *)
(***************************************************************************)
EXTENDS Integers, FiniteSets, FiniteSetsExt, SequencesExt, Functions

CONSTANTS
    Files,        \* the numbers of the table files
    Threads,
    Capacity,     \* capacity_ of the shard; every table has charge 1
    MaxHandles    \* bound: tables opened

ASSUME ThreadsAssumption == IsFiniteSet(Threads)
ASSUME CapacityAssumption == Capacity \in Nat

VARIABLES
    cache,        \* [lru, in_use, table, usage, entry]: see CacheInit
    users,        \* each thread's call: [at, file, handle]
    obsolete,     \* the files that DeleteObsoleteFiles has deleted
    closed        \* the cache was destroyed

cacheVars == <<cache, users, obsolete, closed>>

NoHandle == 0
NotBusy == [at |-> "idle", file |-> 0, handle |-> NoHandle]

\* The users of handle h.
Holders(h) == {t \in Threads : users[t].at = "using" /\ users[t].handle = h}

-----------------------------------------------------------------------------
(* LRUCache.  An entry is [file, refs, in_cache, open]; the list lru_ is a *)
(* sequence, oldest first, and in_use_, whose order says nothing, a set.   *)

LRU_Remove(c, h) ==
    [c EXCEPT !.lru = IF \E i \in DOMAIN @ : @[i] = h
                      THEN RemoveAt(@, CHOOSE i \in DOMAIN @ : @[i] = h) ELSE @,
              !.in_use = @ \ {h}]

Ref(c, h) ==
    LET d == IF c.entry[h].refs = 1 /\ c.entry[h].in_cache
             THEN [LRU_Remove(c, h) EXCEPT !.in_use = @ \union {h}]
             ELSE c
    IN  [d EXCEPT !.entry[h].refs = @ + 1]

\* The last reference calls the deleter, which closes the table.
Unref(c, h) ==
    LET d == [c EXCEPT !.entry[h].refs = @ - 1]
        e == d.entry[h]
    IN  IF e.refs = 0 THEN [d EXCEPT !.entry[h].open = FALSE]
        ELSE IF e.in_cache /\ e.refs = 1
        THEN [LRU_Remove(d, h) EXCEPT !.lru = Append(@, h)]
        ELSE d

\* Unref of an entry that has left the cache.
Drop(e) == [e EXCEPT !.in_cache = FALSE, !.refs = @ - 1,
                     !.open = IF e.refs = 1 THEN FALSE ELSE @]

\* The entry has left the table already.
FinishErase(c, h) ==
    IF h = NoHandle THEN c
    ELSE [LRU_Remove(c, h) EXCEPT !.entry[h] = Drop(@), !.usage = @ - 1]

\* The entry of a file is removed from the table and from the cache.
EraseFile(c, f) == FinishErase([c EXCEPT !.table[f] = NoHandle], c.table[f])

\* Faulty: the entry that a new one replaces in the table is forgotten.
ForgetReplaced(c, h) == c

\* What table_.Insert gives back is erased.
EraseReplaced(c, h) == FinishErase(c, h)

\* The loop of Insert pushes out the oldest entries nobody uses, as many as
\* are too many or, if there are fewer of them, all.
PushOut(c) ==
    LET n == IF c.usage <= Capacity THEN 0
             ELSE IF c.usage - Capacity < Len(c.lru) THEN c.usage - Capacity
             ELSE Len(c.lru)
        out == {c.lru[i] : i \in 1 .. n}
    IN  [c EXCEPT !.lru = SubSeq(@, n + 1, Len(@)),
                  !.table = [f \in Files |-> IF @[f] \in out THEN NoHandle ELSE @[f]],
                  !.entry = [h \in DOMAIN @ |-> IF h \in out THEN Drop(@[h]) ELSE @[h]],
                  !.usage = @ - n]

\* Insert of a table just opened: the new handle is the last entry.
CacheInsert(c, f) ==
    LET h == Len(c.entry) + 1
        new == [file |-> f, refs |-> 1, in_cache |-> FALSE, open |-> TRUE]
        cached == [new EXCEPT !.refs = 2, !.in_cache = TRUE]
    IN  PushOut(
          IF Capacity > 0
          THEN EraseReplaced([c EXCEPT !.entry = Append(@, cached), !.usage = @ + 1,
                                       !.in_use = @ \union {h}, !.table[f] = h],
                             c.table[f])
          ELSE [c EXCEPT !.entry = Append(@, new)])

-----------------------------------------------------------------------------
(* TableCache.                                                             *)

CacheInit ==
    /\ cache = [lru |-> <<>>, in_use |-> {}, table |-> [f \in Files |-> NoHandle],
                usage |-> 0, entry |-> <<>>]
    /\ users = [t \in Threads |-> NotBusy]
    /\ obsolete = {}
    /\ closed = FALSE

\* FindTable: a version the thread holds has the file, so it is not deleted.
FindTable(t, f) ==
    /\ ~closed /\ users[t] = NotBusy /\ f \notin obsolete
    /\ LET h == cache.table[f]
       IN  \/ /\ h # NoHandle
              /\ cache' = Ref(cache, h)
              /\ users' = [users EXCEPT ![t] = [at |-> "using", file |-> f, handle |-> h]]
           \/ /\ h = NoHandle
              /\ users' = [users EXCEPT ![t] = [at |-> "opening", file |-> f,
                                                handle |-> NoHandle]]
              /\ UNCHANGED cache
    /\ UNCHANGED <<obsolete, closed>>

\* The file was opened outside the lock; another thread may have been faster.
OpenedTable(t) ==
    /\ users[t].at = "opening" /\ Len(cache.entry) < MaxHandles
    /\ cache' = CacheInsert(cache, users[t].file)
    /\ users' = [users EXCEPT ![t].at = "using", ![t].handle = Len(cache.entry) + 1]
    /\ UNCHANGED <<obsolete, closed>>

\* The file or the table in it cannot be opened: nothing is cached.
OpenTableFails(t) ==
    /\ users[t].at = "opening"
    /\ users' = [users EXCEPT ![t] = NotBusy]
    /\ UNCHANGED <<cache, obsolete, closed>>

\* Get is done, or an iterator is deleted (UnrefEntry).
ReleaseTable(t) ==
    /\ users[t].at = "using"
    /\ cache' = Unref(cache, users[t].handle)
    /\ users' = [users EXCEPT ![t] = NotBusy]
    /\ UNCHANGED <<obsolete, closed>>

\* DeleteObsoleteFiles: no version has the file, so nobody is reading it.
Evict(f) ==
    /\ ~closed /\ f \notin obsolete /\ \A t \in Threads : users[t].file # f
    /\ obsolete' = obsolete \union {f}
    /\ cache' = EraseFile(cache, f)
    /\ UNCHANGED <<users, closed>>

\* The database is closed after its last call: ~LRUCache.
DestroyCache ==
    /\ ~closed /\ \A t \in Threads : users[t] = NotBusy
    /\ closed' = TRUE
    /\ cache' = [cache EXCEPT !.entry = [h \in DOMAIN @ |->
                      IF h \in Range(cache.lru) THEN Drop(@[h]) ELSE @[h]]]
    /\ UNCHANGED <<users, obsolete>>

CacheNext ==
    \/ \E t \in Threads :
          \/ \E f \in Files : FindTable(t, f)
          \/ OpenedTable(t) \/ OpenTableFails(t) \/ ReleaseTable(t)
    \/ \E f \in Files : Evict(f)
    \/ DestroyCache

CacheSpec == CacheInit /\ [][CacheNext]_cacheVars

-----------------------------------------------------------------------------
(***************************************************************************)
(* A table is open exactly as long as a thread uses it or the cache may    *)
(* hand it out: none is closed under a reader, also when two threads       *)
(* opened the same file or the entry was pushed out, and none stays open   *)
(* for ever, neither one that another replaced in the table nor one of a   *)
(* deleted file, whose disk space it would keep.  The cache never holds    *)
(* more tables than its capacity or, if they are more, than threads use    *)
(* tables at once, although only Insert pushes any out (Ref, Unref,        *)
(* FinishErase, Insert, FindTable, Evict, ~LRUCache).                      *)
(***************************************************************************)
OpenWhileUsed ==
    /\ \A h \in DOMAIN cache.entry :
          LET e == cache.entry[h]
              kept == ~closed /\ cache.table[e.file] = h
          IN  /\ e.open <=> Holders(h) # {} \/ kept
              /\ kept => e.file \notin obsolete
              /\ h \in Range(cache.lru) /\ ~closed <=> kept /\ Holders(h) = {}
    /\ cache.usage <= Max({Capacity, Cardinality(Threads)})
=============================================================================
