----------------------------- MODULE MCLevelDB -----------------------------
(* LevelDB with the constants of LevelDB.cfg and LevelDB_live.cfg.         *)
EXTENDS LevelDB
=============================================================================
