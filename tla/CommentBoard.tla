---------------------------- MODULE CommentBoard ----------------------------
(***************************************************************************)
(* What the comments screen never does otherwise: comments are written to  *)
(* a board and stay there; the screen of a post shows comments of that     *)
(* post only, which are on the board, takes one more at a time and takes   *)
(* none away until it closes.  That all are shown in the end and each is   *)
(* listed once is not said here (EventuallyShown and ThreadIsExact of      *)
(* CommentThread say it).                                                  *)
(***************************************************************************)
CONSTANTS Comment, Threads

VARIABLES
    board,    \* the comments written so far
    thread,   \* <<>>, or <<t>>: the thread on the screen
    shown     \* the comments on the screen

vars == <<board, thread, shown>>

Init == board = {} /\ thread = <<>> /\ shown = {}

Write(c) ==
    /\ c \notin board
    /\ board' = board \cup {c}
    /\ UNCHANGED <<thread, shown>>

Open(t) ==
    /\ thread = <<>>
    /\ thread' = <<t>>
    /\ shown' = {}
    /\ UNCHANGED board

Close ==
    /\ thread # <<>>
    /\ thread' = <<>>
    /\ shown' = {}
    /\ UNCHANGED board

Show(c) ==
    /\ c \in board \ shown
    /\ thread = <<c.postId>>
    /\ shown' = shown \cup {c}
    /\ UNCHANGED <<board, thread>>

Next ==
    \/ \E c \in Comment : Write(c) \/ Show(c)
    \/ \E t \in Threads : Open(t)
    \/ Close

Spec == Init /\ [][Next]_vars
=============================================================================
