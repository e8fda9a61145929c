--------------------------- MODULE MergingIterator ---------------------------
(***************************************************************************)
(* leveldb's MergingIterator: one sorted sequence out of the memtable's    *)
(* and the tables' iterators.  It keeps a position in every child, and the *)
(* children other than the current one are only put right when the         *)
(* direction changes.                                                      *)
(*                                                                         *)
(* An iterator is a record [at, current, direction]; the entries are an    *)
(* argument, since the memtable grows under its iterator.                  *)
(***************************************************************************)
EXTENDS Integers

CONSTANT NoEntry    \* no position

\* A growing child and a fixed one.
Children == {"memtable", "table"}
NoChild == "none"

\* InternalKeyComparator: by key, then newest first.
Less(e, f) == e.key < f.key \/ (e.key = f.key /\ e.seq > f.seq)

Least(S) == IF S = {} THEN NoEntry ELSE CHOOSE e \in S : \A f \in S : ~Less(f, e)
Greatest(S) == IF S = {} THEN NoEntry ELSE CHOOSE e \in S : \A f \in S : ~Less(e, f)

Of(entries, c) == {e \in entries : e.child = c}
After(entries, c, e) == Least({f \in Of(entries, c) : Less(e, f)})
Before(entries, c, e) == Greatest({f \in Of(entries, c) : Less(f, e)})

\* key() and value().
Current(m) == IF m.current = NoChild THEN NoEntry ELSE m.at[m.current]

\* The child of an entry that some child is at.
ChildAt(e) == IF e = NoEntry THEN NoChild ELSE e.child
Positions(at) == {at[c] : c \in Children} \ {NoEntry}

FindSmallest(at) ==
    [at |-> at, current |-> ChildAt(Least(Positions(at))), direction |-> "forward"]
FindLargest(at) ==
    [at |-> at, current |-> ChildAt(Greatest(Positions(at))), direction |-> "reverse"]

MergedFirst(entries) == FindSmallest([c \in Children |-> Least(Of(entries, c))])
MergedLast(entries) == FindLargest([c \in Children |-> Greatest(Of(entries, c))])
MergedSeek(entries, target) ==
    FindSmallest([c \in Children |-> Least({e \in Of(entries, c) : ~Less(e, target)})])

\* Faulty: the other children stay where the moves back left them.
AfterCurrentOfOne(entries, m) == m.at

\* Every other child is put after the current entry.  No two children have
\* the same entry, so the one that Seek reaches is never skipped.
AfterCurrent(entries, m) ==
    [c \in Children |-> IF c = m.current THEN m.at[c] ELSE After(entries, c, Current(m))]

\* Every other child is put before the current entry.  Seek and Prev of a child
\* are one step.  (In the code an entry may be inserted into the memtable between
\* the two, and Prev stops at it, after the current entry.  It is newer than the
\* snapshot, and DBIter::Prev's loop goes on past it.)
BeforeCurrent(entries, m) ==
    [c \in Children |-> IF c = m.current THEN m.at[c] ELSE Before(entries, c, Current(m))]

MergedNext(entries, m) ==
    LET at == IF m.direction = "forward" THEN m.at ELSE AfterCurrent(entries, m)
    IN  FindSmallest([at EXCEPT ![m.current] = After(entries, m.current, @)])

MergedPrev(entries, m) ==
    LET at == IF m.direction = "reverse" THEN m.at ELSE BeforeCurrent(entries, m)
    IN  FindLargest([at EXCEPT ![m.current] = Before(entries, m.current, @)])
=============================================================================
