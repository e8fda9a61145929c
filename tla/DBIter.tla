------------------------------- MODULE DBIter -------------------------------
(***************************************************************************)
(* leveldb's DBIter: it makes the entries of the merging iterator, which   *)
(* has every version of every key, look like a map from keys to values as  *)
(* of a sequence number, in both directions, while a writer goes on        *)
(* inserting newer entries.  A step is one move of the merging iterator    *)
(* with what DBIter does about the entry it reaches.                       *)
(***************************************************************************)
EXTENDS MergingIterator, FiniteSetsExt

CONSTANTS
    UserKeys,      \* positive numbers
    Snapshot,      \* sequence_: the entries up to it are seen
    MaxEntries     \* bound: entries, the ones written later included

ASSUME KeysAssumption == UserKeys \subseteq Nat \ {0}
ASSUME SnapshotAssumption == Snapshot \in Nat
ASSUME NoEntryAssumption ==
    NoEntry \notin [child: Children, key: UserKeys, seq: Nat, value: BOOLEAN]

VARIABLES
    entries,       \* the entries of the internal iterator: [child, key, seq, value]
    merged,        \* iter_, the internal iterator
    direction,
    saved_key,     \* saved_key_; 0 is the empty string
    saved,         \* saved_value_ with the key it belongs to, or NoEntry
    valid,
    iterPC,        \* the loop DBIter is in
    skipping,      \* FindNextUserEntry's argument and local
    value_type,    \* FindPrevUserEntry's local: the last type seen is a value
    op,            \* the call under way
    shown          \* the entry the last call left the iterator at, or NoEntry

iterVars == <<merged, direction, saved_key, saved, valid, iterPC, skipping, value_type,
              op, shown>>
dbIterVars == <<entries, iterVars>>

NoCall == [name |-> "none", target |-> 0]

\* The entry that iter_ is at.
iter == Current(merged)

\* What the snapshot has: the newest entry of each key that it sees, if that
\* is not a deletion.
Seen == {e \in entries : e.seq <= Snapshot}
View == {e \in Seen : e.value /\ \A f \in Seen : f.key = e.key => f.seq <= e.seq}

-----------------------------------------------------------------------------
\* A call returns: key() and value() give the entry at iter_ when the
\* iterator moves forward, and the saved one when it moves back.
Returns(isValid, entry) ==
    /\ iterPC' = "idle"
    /\ op' = NoCall
    /\ valid' = isValid
    /\ shown' = IF isValid THEN entry ELSE NoEntry

\* With iter_ at m, FindNextUserEntry looks at it; at the end it returns.
\* As long as nothing is skipped, saved_key_ is only storage for it.
FindNextFrom(m, skip, key) ==
    /\ merged' = m
    /\ direction' = "forward"
    /\ UNCHANGED value_type
    /\ IF Current(m) # NoEntry
       THEN /\ iterPC' = "findNext" /\ skipping' = skip /\ saved_key' = key
            /\ UNCHANGED <<valid, op, shown>>
       ELSE saved_key' = 0 /\ skipping' = FALSE /\ Returns(FALSE, NoEntry)

\* A user calls one of the operations.
Calls(name, target) ==
    /\ iterPC = "idle" /\ op = NoCall
    /\ name \in {"Next", "Prev"} => valid
    /\ name = "Seek" <=> target # 0
    /\ op' = [name |-> name, target |-> target]
    /\ UNCHANGED <<entries, merged, direction, saved_key, saved, valid, iterPC, skipping,
                   value_type, shown>>

Seek ==
    /\ iterPC = "idle" /\ op.name = "Seek"
    /\ FindNextFrom(MergedSeek(entries, [key |-> op.target, seq |-> Snapshot]), FALSE, 0)
    /\ saved' = NoEntry
    /\ UNCHANGED entries

SeekToFirst ==
    /\ iterPC = "idle" /\ op.name = "SeekToFirst"
    /\ FindNextFrom(MergedFirst(entries), FALSE, saved_key)
    /\ saved' = NoEntry
    /\ UNCHANGED entries

\* After a move back, iter_ is just before the entries of the current key.
Next_ ==
    /\ iterPC = "idle" /\ op.name = "Next"
    /\ \/ direction = "reverse"
          /\ FindNextFrom(IF iter = NoEntry THEN MergedFirst(entries)
                                           ELSE MergedNext(entries, merged),
                          TRUE, saved_key)
       \/ direction = "forward" /\ FindNextFrom(merged, TRUE, iter.key)
    /\ UNCHANGED <<entries, saved>>

\* One turn of the loop of FindNextUserEntry.
FindNextUserEntry ==
    /\ iterPC = "findNext"
    /\ LET sees == iter.seq <= Snapshot
           hides == sees /\ ~iter.value
           yields == sees /\ iter.value /\ ~(skipping /\ iter.key <= saved_key)
       IN  \/ /\ yields
              /\ saved_key' = 0
              /\ Returns(TRUE, iter)
              /\ UNCHANGED <<merged, direction, skipping, value_type>>
           \/ /\ ~yields
              /\ FindNextFrom(MergedNext(entries, merged), skipping \/ hides,
                              IF hides THEN iter.key ELSE saved_key)
    /\ UNCHANGED <<entries, saved>>

\* FindPrevUserEntry starts with iter_ at m.
FindPrevFrom(m) ==
    /\ merged' = m
    /\ direction' = "reverse"
    /\ iterPC' = "findPrev"
    /\ value_type' = FALSE
    /\ UNCHANGED <<skipping, valid, op, shown>>

SeekToLast ==
    /\ iterPC = "idle" /\ op.name = "SeekToLast"
    /\ FindPrevFrom(MergedLast(entries))
    /\ saved' = NoEntry
    /\ UNCHANGED <<entries, saved_key>>

Prev ==
    /\ iterPC = "idle" /\ op.name = "Prev"
    /\ \/ /\ direction = "forward"
          /\ saved_key' = iter.key
          /\ iterPC' = "scanBack"
          /\ UNCHANGED <<merged, direction, saved, valid, skipping, value_type, op, shown>>
       \/ direction = "reverse" /\ FindPrevFrom(merged) /\ UNCHANGED <<saved_key, saved>>
    /\ UNCHANGED entries

\* Prev's loop: back over the entries of the current key.
ScanBack ==
    /\ iterPC = "scanBack"
    /\ LET m == MergedPrev(entries, merged)
           e == Current(m)
       IN  \/ /\ e = NoEntry
              /\ merged' = m /\ saved_key' = 0 /\ saved' = NoEntry
              /\ Returns(FALSE, NoEntry)
              /\ UNCHANGED <<direction, skipping, value_type>>
           \/ /\ e # NoEntry /\ e.key >= saved_key
              /\ merged' = m
              /\ UNCHANGED <<direction, saved_key, saved, valid, iterPC, skipping,
                             value_type, op, shown>>
           \/ e # NoEntry /\ e.key < saved_key /\ FindPrevFrom(m) /\ UNCHANGED <<saved_key, saved>>
    /\ UNCHANGED entries

\* The value that is saved belongs to a later key than the entry reached.
PassedTheSaved == iter.seq <= Snapshot /\ value_type /\ iter.key < saved_key

\* The end of FindPrevUserEntry.
FoundPrev ==
    /\ iterPC = "findPrev"
    /\ iter # NoEntry => PassedTheSaved
    /\ \/ ~value_type /\ saved_key' = 0 /\ saved' = NoEntry /\ direction' = "forward"
       \/ value_type /\ UNCHANGED <<saved_key, saved, direction>>
    /\ Returns(value_type, saved)
    /\ UNCHANGED <<entries, merged, skipping, value_type>>

\* One turn of the loop of FindPrevUserEntry.
FindPrevUserEntry ==
    /\ iterPC = "findPrev" /\ iter # NoEntry /\ ~PassedTheSaved
    /\ \/ /\ iter.seq <= Snapshot
          /\ value_type' = iter.value
          /\ saved_key' = IF iter.value THEN iter.key ELSE 0
          /\ saved' = IF iter.value THEN iter ELSE NoEntry
       \/ iter.seq > Snapshot /\ UNCHANGED <<value_type, saved_key, saved>>
    /\ merged' = MergedPrev(entries, merged)
    /\ UNCHANGED <<entries, direction, valid, iterPC, skipping, op, shown>>

\* A writer inserts into the memtable meanwhile.
InsertEntry(k, isValue) ==
    /\ Cardinality(entries) < MaxEntries
    /\ entries' = entries \union
          {[child |-> "memtable", key |-> k, value |-> isValue,
            seq |-> Max({e.seq : e \in entries} \union {Snapshot}) + 1]}
    /\ UNCHANGED iterVars

-----------------------------------------------------------------------------
\* Any history of the database up to the snapshot; any part of it, from the
\* oldest on, is in tables.
Histories ==
    {{[child |-> IF s <= split THEN "table" ELSE "memtable",
       key |-> h[s][1], seq |-> s, value |-> h[s][2]] : s \in 1 .. Snapshot} :
        h \in [1 .. Snapshot -> UserKeys \X BOOLEAN], split \in 0 .. Snapshot}

NewIterator ==
    /\ merged = [at |-> [c \in Children |-> NoEntry], current |-> NoChild,
                  direction |-> "forward"]
    /\ direction = "forward"
    /\ saved_key = 0 /\ saved = NoEntry /\ valid = FALSE
    /\ iterPC = "idle" /\ skipping = FALSE /\ value_type = FALSE
    /\ op = NoCall /\ shown = NoEntry

DBIterInit == entries \in Histories /\ NewIterator

DBIterStep ==
    \/ Seek \/ SeekToFirst \/ SeekToLast \/ Next_ \/ Prev
    \/ FindNextUserEntry \/ ScanBack \/ FoundPrev \/ FindPrevUserEntry

DBIterNext ==
    \/ \E n \in {"Seek", "SeekToFirst", "SeekToLast", "Next", "Prev"},
          t \in UserKeys \union {0} : Calls(n, t)
    \/ DBIterStep
    \/ \E k \in UserKeys, v \in BOOLEAN : InsertEntry(k, v)

DBIterSpec == DBIterInit /\ [][DBIterNext]_dbIterVars

C == INSTANCE Cursor WITH view <- View, op <- op, at <- shown

(***************************************************************************)
(* DBIter is a cursor over the snapshot: each call leaves it at the entry  *)
(* the same call of a cursor over the fixed view does, after any mixture   *)
(* of moves in both directions, over hidden and deleted entries, with      *)
(* newer entries inserted between any two steps (FindNextUserEntry,        *)
(* FindPrevUserEntry, the switches of direction in Next and Prev).         *)
(***************************************************************************)
ImplementsCursor == C!CursorSpec
=============================================================================
