---------------------------- MODULE MCStructures ----------------------------
(***************************************************************************)
(* The pieces leveldb is built from, each on its own: a behaviour is one   *)
(* of the log file, of the memtable's skip list, of the database iterator  *)
(* or of the table cache, and the others stay as they began.               *)
(***************************************************************************)
EXTENDS LogFormat, SkipList, DBIter, TableCache

VARIABLE which   \* the structure this behaviour is about

vars == <<which, logVars, skipVars, dbIterVars, cacheVars>>

Init ==
    /\ which \in {"log", "list", "iterator", "cache"}
    /\ LogInit /\ SkipInit /\ NewIterator /\ CacheInit
    /\ entries \in IF which = "iterator" THEN Histories ELSE {{}}

Next ==
    /\ UNCHANGED which
    /\ \/ which = "log" /\ LogNext /\ UNCHANGED <<skipVars, dbIterVars, cacheVars>>
       \/ which = "list" /\ SkipNext /\ UNCHANGED <<logVars, dbIterVars, cacheVars>>
       \/ which = "iterator" /\ DBIterNext /\ UNCHANGED <<logVars, skipVars, cacheVars>>
       \/ which = "cache" /\ CacheNext /\ UNCHANGED <<logVars, skipVars, dbIterVars>>

Spec == Init /\ [][Next]_vars
=============================================================================
