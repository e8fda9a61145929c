------------------------------- MODULE Cursor -------------------------------
(***************************************************************************)
(* What a database iterator promises: it moves over a fixed sorted view of *)
(* the database, the one its snapshot saw, whatever is written meanwhile.  *)
(***************************************************************************)
EXTENDS Integers, FiniteSetsExt

CONSTANTS UserKeys, NoEntry

VARIABLES
    view,   \* the entries of the snapshot: at most one for every key
    op,     \* the call under way: [name, target]
    at      \* the entry the iterator is at, or NoEntry

\* The entry of a set with the least or the greatest key.
First(S) == IF S = {} THEN NoEntry ELSE CHOOSE e \in S : \A f \in S : e.key <= f.key
Final(S) == IF S = {} THEN NoEntry ELSE CHOOSE e \in S : \A f \in S : e.key >= f.key

Result ==
    CASE op.name = "Seek" -> First({e \in view : e.key >= op.target})
      [] op.name = "SeekToFirst" -> First(view)
      [] op.name = "SeekToLast" -> Final(view)
      [] op.name = "Next" -> First({e \in view : e.key > at.key})
      [] op.name = "Prev" -> Final({e \in view : e.key < at.key})

Calls == {[name |-> n, target |-> 0] : n \in {"SeekToFirst", "SeekToLast", "Next", "Prev"}}
         \union [name: {"Seek"}, target: UserKeys]
NoCall == [name |-> "none", target |-> 0]

CursorInit == op = NoCall /\ at = NoEntry

Call(c) ==
    /\ op = NoCall
    /\ c.name \in {"Next", "Prev"} => at # NoEntry
    /\ op' = c
    /\ UNCHANGED <<view, at>>

Return ==
    /\ op # NoCall
    /\ at' = Result
    /\ op' = NoCall
    /\ UNCHANGED view

CursorNext == (\E c \in Calls : Call(c)) \/ Return

CursorSpec == CursorInit /\ [][CursorNext]_<<view, op, at>>
=============================================================================
