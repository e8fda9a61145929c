--------------------------- MODULE CommentThread ---------------------------
(***************************************************************************)
(* The comments of a post: CommentsController, PostCommentController and   *)
(* the COMMENTS block of FirebaseServices.                                 *)
(*                                                                         *)
(* Every screen that is opened observes the whole /comments node and keeps *)
(* the comments with its post's postId.  The observer outlives the screen, *)
(* but then only feeds a controller nobody sees: its events are left out.  *)
(***************************************************************************)
EXTENDS Integers, Sequences, FiniteSets

CONSTANTS
    CommentIds,   \* UUIDs; their order is the key order of /comments
    Threads,      \* postIds; a post without one has the postId ""
    LastDate      \* dates are ranks of the date texts in text order

ASSUME CommentIdsAssumption ==
    CommentIds \subseteq Nat /\ IsFiniteSet(CommentIds)
ASSUME LastDateAssumption == LastDate \in Nat

VARIABLES
    stored,       \* the comments written so far
    view,         \* those in this app's cache
    thread,       \* <<>>, or <<postId>>: the comments screen that is open
    registered,   \* the database queue has carried out its observe call
    events,       \* its closures on the main queue
    comments,
    rows,         \* the rows the table took at its last reload
    form          \* the form for a new comment

vars == <<stored, view, thread, registered, events, comments, rows, form>>

Comment == [id: CommentIds, postId: Threads, date: 1 .. LastDate]

(***************************************************************************)
(* The form is closed, or open; it has no user until the user's record     *)
(* reaches it.                                                             *)
(***************************************************************************)
FormStates == {"closed", "nouser", "ready"}

Ids(S) == {c.id : c \in S}
Items(s) == {s[i] : i \in DOMAIN s}

TypeOK ==
    /\ stored \subseteq Comment
    /\ view \subseteq stored
    /\ \A c, d \in stored : c.id = d.id => c = d
    /\ thread \in Seq(Threads) /\ Len(thread) <= 1
    /\ registered \in BOOLEAN
    /\ events \in Seq(Comment)
    /\ comments \in Seq(Comment)
    /\ rows \in Seq(Comment)
    /\ form \in FormStates

\* The permutations of a finite set.
Shuffles(S) == {f \in [S -> S] : \A y \in S : \E x \in S : f[x] = y}

Ascending(s) == \A i, j \in DOMAIN s : i < j => s[i].date <= s[j].date

\* Array.sort by ascending date; equal elements may come in any order.
Sorts(s) ==
    {r \in {[i \in DOMAIN s |-> s[f[i]]] : f \in Shuffles(DOMAIN s)} :
        Ascending(r)}

\* The enumerations of S in key order (there is exactly one).
KeyOrdered(S) ==
    {s \in [1 .. Cardinality(S) -> S] :
        \A i, j \in 1 .. Cardinality(S) : i < j => s[i].id < s[j].id}

-----------------------------------------------------------------------------
Init ==
    /\ stored = {}
    /\ view = {}
    /\ thread = <<>>
    /\ registered = FALSE
    /\ events = <<>>
    /\ comments = <<>>
    /\ rows = <<>>
    /\ form = "closed"

\* didSelectItemAt presents the screen; its viewDidLoad calls fetchPosts.
viewDidLoad(t) ==
    /\ thread = <<>>
    /\ thread' = <<t>>
    /\ UNCHANGED <<stored, view, registered, events, comments, rows, form>>

\* The database queue registers the observer and raises its first events.
Register ==
    /\ thread # <<>> /\ ~registered
    /\ registered' = TRUE
    /\ events' \in KeyOrdered(view)
    /\ UNCHANGED <<stored, view, thread, comments, rows, form>>

\* A comment enters the cache.
Cached(c) ==
    /\ view' = view \cup {c}
    /\ events' = IF registered THEN Append(events, c) ELSE events

\* tableView.reloadData()
reloadData == rows' = comments'

\* Faulty: the comments of all posts are listed.
fetchCommentsOfAll ==
    /\ events # <<>>
    /\ events' = Tail(events)
    /\ comments' \in Sorts(Append(comments, Head(events)))
    /\ reloadData
    /\ UNCHANGED <<stored, view, thread, registered, form>>

\* Faulty: the newest comment comes last, whatever its date.
fetchCommentsUnsorted ==
    /\ events # <<>>
    /\ events' = Tail(events)
    /\ comments' = IF Head(events).postId = thread[1]
                   THEN Append(comments, Head(events)) ELSE comments
    /\ reloadData
    /\ UNCHANGED <<stored, view, thread, registered, form>>

\* Faulty: the table is not reloaded.
fetchCommentsNoReload ==
    /\ events # <<>>
    /\ events' = Tail(events)
    /\ comments' \in Sorts(IF Head(events).postId = thread[1]
                           THEN Append(comments, Head(events)) ELSE comments)
    /\ UNCHANGED <<stored, view, thread, registered, rows, form>>

\* fetchComments drops other posts' comments, fetchPosts lists the rest.
fetchComments ==
    /\ events # <<>>
    /\ events' = Tail(events)
    /\ \/ /\ Head(events).postId = thread[1]
          /\ comments' \in Sorts(Append(comments, Head(events)))
          /\ reloadData
       \/ /\ Head(events).postId # thread[1]
          /\ UNCHANGED <<comments, rows>>
    /\ UNCHANGED <<stored, view, thread, registered, form>>

handlerPostComment ==
    /\ thread # <<>> /\ form = "closed"
    /\ form' = "nouser"
    /\ UNCHANGED <<stored, view, thread, registered, events, comments, rows>>

\* getCurrentUser's closure.
getCurrentUser ==
    /\ form = "nouser"
    /\ form' = "ready"
    /\ UNCHANGED <<stored, view, thread, registered, events, comments, rows>>

\* Faulty: a comment is written with an id that is taken.
postCommentSameId(id, d) ==
    /\ form = "ready"
    /\ LET c == [id |-> id, postId |-> thread[1], date |-> d] IN
          /\ stored' = stored \cup {c}
          /\ Cached(c)
    /\ form' = "closed"
    /\ UNCHANGED <<thread, registered, comments, rows>>

(***************************************************************************)
(* Submit.  Without a user, or with an empty text, nothing is written and  *)
(* the form stays; else the comment is written and the form dismissed.     *)
(***************************************************************************)
postComment(id, d) ==
    /\ form = "ready"
    /\ id \notin Ids(stored)
    /\ LET c == [id |-> id, postId |-> thread[1], date |-> d] IN
          /\ stored' = stored \cup {c}
          /\ Cached(c)
    /\ form' = "closed"
    /\ UNCHANGED <<thread, registered, comments, rows>>

handleDismiss ==
    /\ form # "closed"
    /\ form' = "closed"
    /\ UNCHANGED <<stored, view, thread, registered, events, comments, rows>>

\* The screen is dismissed; the next one has a controller of its own.
handleDismissComment ==
    /\ thread # <<>> /\ form = "closed"
    /\ thread' = <<>>
    /\ registered' = FALSE
    /\ events' = <<>>
    /\ comments' = <<>>
    /\ rows' = <<>>
    /\ UNCHANGED <<stored, view, form>>

\* Another device writes a comment, and later it reaches this one.
RemoteComment(id, t, d) ==
    /\ id \notin Ids(stored)
    /\ stored' = stored \cup {[id |-> id, postId |-> t, date |-> d]}
    /\ UNCHANGED <<view, thread, registered, events, comments, rows, form>>

CommentArrives(c) ==
    /\ c \in stored \ view
    /\ registered
    /\ Cached(c)
    /\ UNCHANGED <<stored, thread, registered, comments, rows, form>>

Next ==
    \/ \E t \in Threads : viewDidLoad(t)
    \/ Register
    \/ fetchComments
    \/ handlerPostComment
    \/ getCurrentUser
    \/ \E id \in CommentIds, d \in 1 .. LastDate :
          \/ postComment(id, d)
          \/ \E t \in Threads : RemoteComment(id, t, d)
    \/ handleDismiss
    \/ handleDismissComment
    \/ \E c \in stored : CommentArrives(c)

(***************************************************************************)
(* The queues are served, and a comment of another device arrives while    *)
(* there is an observer.                                                   *)
(***************************************************************************)
Spec ==
    /\ Init /\ [][Next]_vars
    /\ WF_vars(Register)
    /\ WF_vars(fetchComments)
    /\ WF_vars(\E c \in stored : CommentArrives(c))

-----------------------------------------------------------------------------
(***************************************************************************)
(* Once the observer is registered and its closures have run, the table    *)
(* shows exactly the cached comments of the post, each once, in ascending  *)
(* order of the date text: nothing is lost between the first events and    *)
(* the ones raised while they are delivered, and no other post's comment   *)
(* gets in.                                                                *)
(***************************************************************************)
ThreadIsExact ==
    registered /\ events = <<>> =>
        /\ Items(rows) = {c \in view : c.postId = thread[1]}
        /\ Len(rows) = Cardinality(Items(rows))
        /\ Ascending(rows)

(***************************************************************************)
(* The screen implements the board of CommentBoard: every step of it is a  *)
(* write, an opening, a closing or the showing of one comment that belongs *)
(* to the open thread and was not shown before, or changes nothing.        *)
(***************************************************************************)
Board == INSTANCE CommentBoard WITH board <- stored, shown <- Items(comments)
ImplementsBoard == Board!Spec

(***************************************************************************)
(* A comment of the open thread gets on the screen, unless the screen is   *)
(* closed first.                                                           *)
(***************************************************************************)
EventuallyShown ==
    \A t \in Threads, d \in 1 .. LastDate, k \in CommentIds :
        LET c == [id |-> k, postId |-> t, date |-> d] IN
        (c \in stored /\ thread = <<t>>) ~> (c \in Items(rows) \/ thread # <<t>>)
=============================================================================
