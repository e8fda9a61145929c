----------------------------- MODULE MCMyPosts -----------------------------
(* Small instances of MyPosts. *)
EXTENDS MyPosts

CONSTANT MaxChanges   \* bound on edits and changes of user together

\* Alice mints the odd post ids, Bob the even ones.
MCOwner == [k \in PostIds |-> IF k % 2 = 1 THEN "alice" ELSE "bob"]

MCNext == Next /\ edits' + authSteps' <= MaxChanges

MCSpec == Init /\ [][MCNext]_vars
=============================================================================
