---------------------------- MODULE MCUserRecord ----------------------------
(* Small instances of UserRecord. *)
EXTENDS UserRecord

\* Gina, who signs in with Google, never had a record; Alice may have one.
MCFirstRecords ==
    {[u \in Users |-> IF u = "alice" THEN i ELSE NoInfo] : i \in {"al", NoInfo}}
=============================================================================
