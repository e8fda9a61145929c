------------------------------- MODULE MCFeed -------------------------------
(* Small instances of Feed. *)
EXTENDS Feed

\* Alice mints the odd post ids, Bob the even ones.
MCOwner == [k \in PostIds |-> IF k % 2 = 1 THEN "alice" ELSE "bob"]
=============================================================================
