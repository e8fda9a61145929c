------------------------------ MODULE MyPosts ------------------------------
(***************************************************************************)
(* The list of the user's own posts: MyCommentsController, its table, its  *)
(* delete dialog and the form that edits a post.                           *)
(*                                                                         *)
(* viewDidLoad adds auth state listener 1 and every refresh adds one more. *)
(* Each listener, each time it is told of a user, makes one more observer  *)
(* of /posts that keeps that user's posts.  Neither is ever removed.       *)
(***************************************************************************)
EXTENDS PostsRef, AuthState, SequencesExt

CONSTANT
    MaxListeners    \* bound: 1 + refreshes

ASSUME MyPostsAssumption ==
    MaxListeners \in Nat /\ Never \notin Users \cup {NoUser}

VARIABLES
    observers,     \* the observeUserPost calls: who made them, for which uid
    registered,    \* how many of them the database queue has carried out
    newPosts,      \* newPosts[l]: the list of refresh l; newPosts[1] is unused
    myPost,
    rows,          \* the rows the table took at its last reload
    alert,         \* the delete dialog: <<>> or one Dialog
    form           \* the edit form: <<>> or <<userPost>>

listVars == <<observers, registered, newPosts, myPost, rows>>
vars == <<refVars, authVars, listVars, alert, form>>

(***************************************************************************)
(* deleteIconTapped's dialog.  `asked' is the post on the tapped row.  The *)
(* OK closure holds the row's cell, which the table reuses: `cell' is the  *)
(* post the cell holds now, `row' the row it now shows (0: none).          *)
(***************************************************************************)
Dialog == [asked: Post, cell: Post, row: Nat]

TypeOK ==
    /\ RefTypeOK
    /\ AuthTypeOK(Users \cup {NoUser})
    /\ observers \in Seq([lis: Nat \ {0}, uid: Users])
    /\ \A r \in DOMAIN observers : observers[r].lis \in DOMAIN told
    /\ registered \in 0 .. Len(observers)
    /\ EventsUpTo(registered)
    /\ newPosts \in Seq(Seq(Post))
    /\ Len(newPosts) = Len(told)
    /\ myPost \in Seq(Post)
    /\ rows \in Seq(Post)
    /\ alert \in Seq(Dialog) /\ Len(alert) <= 1
    /\ form \in Seq(Post) /\ Len(form) <= 1

\* Nothing covers the list.  (An account deletion that is answered late signs
\* out without presenting the login screen.)
Idle == alert = <<>> /\ form = <<>>

-----------------------------------------------------------------------------
Init ==
    /\ RefInit
    /\ AuthInit(Users \cup {NoUser})
    /\ observers = <<>>
    /\ registered = 0
    /\ newPosts = << <<>> >>
    /\ myPost = <<>>
    /\ rows = <<>>
    /\ alert = <<>>
    /\ form = <<>>

(***************************************************************************)
(* signIn's answer.  loginUser's observer of the user's record is never    *)
(* removed and signs in anew whenever the record changes: at any time, on  *)
(* any screen, and straight over another user.                             *)
(***************************************************************************)
SignIn(u) ==
    /\ SetUser(u)
    /\ UNCHANGED <<refVars, listVars, alert, form>>

\* handleLogout, on another tab, or the answer of an account deletion, which
\* may come late and find any screen.
SignOut ==
    /\ currentUser # NoUser
    /\ SetUser(NoUser)
    /\ UNCHANGED <<refVars, listVars, alert, form>>

\* Faulty: a listener acts on its first call only.
StateDidChangeOnce ==
    /\ \E l \in DOMAIN told :
          /\ CallListener(l)
          /\ observers' =
                IF told[l] = Never /\ currentUser # NoUser
                THEN Append(observers, [lis |-> l, uid |-> currentUser])
                ELSE observers
    /\ UNCHANGED <<refVars, registered, newPosts, myPost, rows, alert, form>>

\* fetchCurrentUserPost's listener: for a user, it makes an observer.
StateDidChange ==
    /\ \E l \in DOMAIN told :
          /\ CallListener(l)
          /\ observers' =
                IF IsNews(l) /\ currentUser # NoUser
                THEN Append(observers, [lis |-> l, uid |-> currentUser])
                ELSE observers
    /\ UNCHANGED <<refVars, registered, newPosts, myPost, rows, alert, form>>

\* A refresh adds a listener.
refreshData ==
    /\ Idle
    /\ Len(told) < MaxListeners
    /\ addStateDidChangeListener
    /\ newPosts' = Append(newPosts, <<>>)
    /\ UNCHANGED <<refVars, observers, registered, myPost, rows, alert, form>>

\* Faulty: the registration is numbered after its events are raised.
RegisterUncounted ==
    /\ registered < Len(observers)
    /\ observe(registered + 1)
    /\ UNCHANGED <<authVars, listVars, alert, form>>

\* The database queue carries out the next observe call.
Register ==
    /\ registered < Len(observers)
    /\ registered' = registered + 1
    /\ observe(registered + 1)
    /\ UNCHANGED <<authVars, observers, newPosts, myPost,
                   rows, alert, form>>

(***************************************************************************)
(* tableView.reloadData() takes the rows anew.  The visible cells go back  *)
(* to the reuse pool and are dealt out again: the cell an open dialog      *)
(* holds shows any row, or stays in the pool with the post it had.         *)
(***************************************************************************)
reloadData ==
    /\ rows' = myPost'
    /\ \/ alert = <<>> /\ alert' = <<>>
       \/ /\ alert # <<>>
          /\ \/ alert' = <<[alert[1] EXCEPT !.row = 0]>>
             \/ \E i \in DOMAIN myPost' :
                   alert' = <<[alert[1] EXCEPT !.row = i, !.cell = myPost'[i]]>>

\* fetchPostForCurrentUser's closure.
fetchPostForCurrentUser(p) ==
    /\ myPost' \in Sorts(Append(myPost, p))
    /\ UNCHANGED newPosts

\* Faulty: a refresh appends to the list instead of replacing it.
RefreshAppends(l, p) ==
    /\ newPosts' = [newPosts EXCEPT ![l] = Append(@, p)]
    /\ myPost' = Append(myPost, p)

\* The closure of refreshData's observers; they share the refresh's newPosts.
RefreshClosure(l, p) ==
    /\ newPosts' = [newPosts EXCEPT ![l] = Append(@, p)]
    /\ myPost' = Append(newPosts[l], p)

\* Faulty: a node without author passes for everybody's.
MineOrNobodys(p, o) == p.userId \in {o.uid, NoUser}

\* fetchCurrentUserPost: the post is by the user the observer was made for.
Mine(p, o) == p.userId = o.uid

\* The main queue runs the oldest closure; another user's post is dropped.
Deliver ==
    /\ events # <<>>
    /\ events' = Tail(events)
    /\ UNCHANGED <<db, view, minted, edits, authVars,
                   observers, registered, form>>
    /\ LET p == Head(events).post
           o == observers[Head(events).reg]
       IN  \/ /\ Mine(p, o)
              /\ IF o.lis = 1 THEN fetchPostForCurrentUser(p)
                              ELSE RefreshClosure(o.lis, p)
              /\ reloadData
           \/ /\ ~Mine(p, o)
              /\ UNCHANGED <<newPosts, myPost, rows, alert>>

deleteIconTapped(i) ==
    /\ Idle
    /\ alert' = <<[asked |-> rows[i], cell |-> rows[i], row |-> i]>>
    /\ UNCHANGED <<refVars, authVars, listVars, form>>

cancelDelete ==
    /\ alert # <<>>
    /\ alert' = <<>>
    /\ UNCHANGED <<refVars, authVars, listVars, form>>

\* Faulty: the post goes from the list without deleteRows.
deletePostKeepsRow ==
    /\ alert # <<>>
    /\ alert' = <<>>
    /\ IF alert[1].cell.key \in DOMAIN db THEN removePost(alert[1].cell.key)
                                          ELSE UNCHANGED refVars
    /\ myPost' = IF alert[1].row = 0 THEN myPost
                                     ELSE RemoveAt(myPost, alert[1].row)
    /\ UNCHANGED <<authVars, observers, registered, newPosts, rows, form>>

(***************************************************************************)
(* OK: the post that the cell holds now is removed from the database, and  *)
(* if the cell is still in the table, so is the row it shows now.          *)
(***************************************************************************)
deletePost ==
    /\ alert # <<>>
    /\ alert' = <<>>
    /\ IF alert[1].cell.key \in DOMAIN db THEN removePost(alert[1].cell.key)
                                          ELSE UNCHANGED refVars
    /\ myPost' = IF alert[1].row = 0 THEN myPost
                                     ELSE RemoveAt(myPost, alert[1].row)
    /\ rows' = IF alert[1].row = 0 THEN rows ELSE myPost'
    /\ UNCHANGED <<authVars, observers, registered,
                   newPosts, form>>

editIconTapped(i) ==
    /\ Idle
    /\ form' = <<rows[i]>>
    /\ UNCHANGED <<refVars, authVars, listVars, alert>>

handleDismissEdit ==
    /\ form # <<>>
    /\ form' = <<>>
    /\ UNCHANGED <<refVars, authVars, listVars, alert>>

\* The form's change is confirmed and the form dismissed.
handleEditUserPost(t, d) ==
    /\ form # <<>>
    /\ form' = <<>>
    /\ editUserPost(form[1].key, t, d, TRUE, registered)
    /\ UNCHANGED <<authVars, listVars, alert>>

\* Posts of this user here, and the writes of the other devices.
DatabaseChanges ==
    /\ \E k \in PostIds, t \in Titles, d \in Dates :
          \/ /\ Owner[k] = currentUser
             /\ alert = <<>> /\ form = <<>>
             /\ uploadPost(k, t, d, TRUE, registered)
          \/ uploadPost(k, t, d, FALSE, registered)
          \/ editUserPost(k, t, d, FALSE, registered)
          \/ removePost(k)
          \/ ChildArrives(k, registered)
    /\ UNCHANGED <<authVars, listVars, alert, form>>

Next ==
    \/ \E u \in Users : SignIn(u)
    \/ SignOut
    \/ StateDidChange
    \/ refreshData
    \/ Register
    \/ Deliver
    \/ \E i \in DOMAIN rows : deleteIconTapped(i) \/ editIconTapped(i)
    \/ cancelDelete
    \/ deletePost
    \/ \E t \in Titles, d \in Dates : handleEditUserPost(t, d)
    \/ handleDismissEdit
    \/ DatabaseChanges

Spec == Init /\ [][Next]_vars

-----------------------------------------------------------------------------
\* Every listener and every observer is up to date, every closure has run.
Quiet ==
    /\ authCalls = <<>>
    /\ registered = Len(observers)
    /\ events = <<>>

(***************************************************************************)
(* The table agrees with myPost, which deleteRows needs (UIKit aborts the  *)
(* app when the row counts before and after do not fit), and the row that  *)
(* an open delete dialog's cell shows exists and holds the cell's post:    *)
(* the row deletePost takes from the list is the post it took from the     *)
(* database, whatever was delivered while the dialog was open.             *)
(***************************************************************************)
DeletesTheRowItShows ==
    /\ rows = myPost
    /\ alert # <<>> /\ alert[1].row # 0 =>
          /\ alert[1].row \in DOMAIN myPost
          /\ myPost[alert[1].row] = alert[1].cell

(***************************************************************************)
(* No row, dialog or form holds a node without author, which an edit of a  *)
(* post that was deleted meanwhile makes (editUserPost,                    *)
(* FirebaseServices.swift:164).  Such a node has no postId either, and     *)
(* deletePost and editUserPost call child("") for it, which raises an      *)
(* exception nobody catches.                                               *)
(***************************************************************************)
NobodysPostsHaveNoRow ==
    /\ \A i \in DOMAIN myPost : myPost[i].userId # NoUser
    /\ \A i \in DOMAIN alert : alert[i].cell.userId # NoUser
    /\ \A i \in DOMAIN form : form[i].userId # NoUser

(***************************************************************************)
(* Once all is quiet, every post of the signed-in user that the cache      *)
(* holds is in her list: neither a refresh, nor the observers left over    *)
(* from an earlier session, nor a deletion drops another post.             *)
(***************************************************************************)
OwnPostsListed ==
    Quiet /\ currentUser # NoUser
        => \A k \in view : db[k].userId = currentUser => k \in Keys(myPost)

(***************************************************************************)
(* As long as no listener is told of one user twice and viewDidLoad's      *)
(* listener was told of each user before any refresh's, the list shows     *)
(* each post once, although several observers are handed every post and    *)
(* viewDidLoad's append to the list that the refreshes' replace.  (When a  *)
(* sign-in comes straight over another user while a refresh's listener     *)
(* waits for its first call, the refresh's is told first, viewDidLoad's    *)
(* append behind it, and the posts are listed twice.)                      *)
(***************************************************************************)
ToldInOrder ==
    /\ \A q, r \in DOMAIN observers : observers[q] = observers[r] => q = r
    /\ \A q \in DOMAIN observers :
          observers[q].lis # 1 =>
              \E r \in 1 .. q : observers[r] = [lis |-> 1, uid |-> observers[q].uid]
ListedOnce ==
    ToldInOrder
    => \A i, j \in DOMAIN myPost : myPost[i].key = myPost[j].key => i = j

(***************************************************************************)
(* What deleteIconTapped's "Are you sure you want to delete this post?"    *)
(* (MyComments+DelegateAndDatasource.swift:76) says: OK deletes the post   *)
(* whose icon was tapped.                                                  *)
(***************************************************************************)
DeletesWhatWasAsked == alert # <<>> => alert[1].cell.key = alert[1].asked.key
=============================================================================
