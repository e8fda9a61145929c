-------------------------- MODULE MCCommentThread --------------------------
(* Small instances of CommentThread. *)
EXTENDS CommentThread
=============================================================================
