-------------------------------- MODULE Feed --------------------------------
(***************************************************************************)
(* The list of all posts: MainController and its data source.              *)
(*                                                                         *)
(* viewDidLoad's observeUser makes registration 1; every refresh makes one *)
(* more, and none is ever removed, so every later post is handed to all of *)
(* them.  They all write the one list `posts'.                             *)
(***************************************************************************)
EXTENDS PostsRef

CONSTANTS
    MaxObserve,   \* bound on the observers of one launch: 1 + refreshes
    MaxRelaunch   \* bound on the number of restarts of the app

ASSUME FeedBoundsAssumption == MaxObserve \in Nat /\ MaxRelaunch \in Nat

VARIABLES
    requested,      \* number of observeUserPost calls made since launch
    newPosts,       \* newPosts[r]: refresh r's own list; newPosts[1] is unused
    posts,
    filteredPosts,
    showResult,
    barShown,       \* heightConstraint.constant # 0
    rendered,       \* the rows the collection view took at its last reload
    opened,         \* <<>>, or <<p>>: the comments of p cover the list
    relaunches

uiVars == <<requested, newPosts, posts, filteredPosts, showResult, barShown,
            rendered, opened>>
vars == <<refVars, uiVars, relaunches>>

Registered == Len(newPosts)

\* numberOfItemsInSection and cellForItemAt: the rows the data source offers.
DataSource == IF showResult THEN filteredPosts ELSE posts

TypeOK ==
    /\ RefTypeOK
    /\ requested \in Nat
    /\ newPosts \in Seq(Seq(Post))
    /\ Registered <= requested
    /\ EventsUpTo(Registered)
    /\ posts \in Seq(Post)
    /\ filteredPosts \in Seq(Post)
    /\ showResult \in BOOLEAN
    /\ barShown \in BOOLEAN
    /\ rendered \in Seq(Post)
    /\ opened \in Seq(Post) /\ Len(opened) <= 1
    /\ relaunches \in Nat

\* collectionView.reloadData()
reloadData == rendered' = IF showResult' THEN filteredPosts' ELSE posts'

-----------------------------------------------------------------------------
Init ==
    /\ RefInit
    /\ requested = 1
    /\ newPosts = <<>>
    /\ posts = <<>>
    /\ filteredPosts = <<>>
    /\ showResult = FALSE
    /\ barShown = FALSE
    /\ rendered = <<>>
    /\ opened = <<>>
    /\ relaunches = 0

\* Faulty: the refresh's list is not set up before its observer runs.
RegisterTooEarly ==
    /\ Registered < requested
    /\ observe(Registered + 1)
    /\ UNCHANGED <<uiVars, relaunches>>

\* The database queue carries out the next observe call.
Register ==
    /\ Registered < requested
    /\ newPosts' = Append(newPosts, <<>>)
    /\ observe(Registered + 1)
    /\ UNCHANGED <<requested, posts, filteredPosts, showResult, barShown,
                   rendered, opened, relaunches>>

\* Faulty: the list is not sorted.
observeUserUnsorted(p) ==
    /\ posts' = Append(posts, p)
    /\ UNCHANGED newPosts

\* The closure observeUser gives to observeUserPost.
observeUser(p) ==
    /\ posts' \in Sorts(Append(posts, p))
    /\ UNCHANGED newPosts

\* Faulty: the list is assigned before the post is appended to newPosts.
RefreshAssignsFirst(r, p) ==
    /\ posts' = newPosts[r]
    /\ newPosts' = [newPosts EXCEPT ![r] = Append(@, p)]

\* The closure refreshData gives to observeUserPost, for its newPosts.
RefreshClosure(r, p) ==
    /\ newPosts' = [newPosts EXCEPT ![r] = Append(@, p)]
    /\ posts' = Append(newPosts[r], p)

\* The main queue runs the oldest closure.
Deliver ==
    /\ events # <<>>
    /\ events' = Tail(events)
    /\ LET e == Head(events) IN
          IF e.reg = 1 THEN observeUser(e.post) ELSE RefreshClosure(e.reg, e.post)
    /\ UNCHANGED <<db, view, minted, edits, requested, filteredPosts,
                   showResult, barShown, opened, relaunches>>
    /\ reloadData

\* Pull to refresh, or the refresh button.
refreshData ==
    /\ opened = <<>>
    /\ requested < MaxObserve
    /\ requested' = requested + 1
    /\ UNCHANGED <<refVars, newPosts, posts, filteredPosts, showResult,
                   barShown, rendered, opened, relaunches>>

handleShowSearchIcon ==
    /\ opened = <<>>
    /\ barShown' = ~barShown
    /\ UNCHANGED <<refVars, requested, newPosts, posts, filteredPosts,
                   showResult, rendered, opened, relaunches>>

\* posts.filter: the posts whose title matches, in the order of the list.
Filters(s, matches) ==
    {[i \in DOMAIN f |-> s[f[i]]] :
        f \in InOrder({i \in DOMAIN s : s[i].title \in matches})}

\* Faulty: an emptied search field does not reload the rows.
textDidChangeNoReload(matches, isEmpty) ==
    /\ opened = <<>>
    /\ barShown
    /\ isEmpty => matches = {}
    /\ filteredPosts' \in Filters(posts, matches)
    /\ showResult' = ~isEmpty
    /\ rendered' = IF isEmpty THEN rendered ELSE filteredPosts'
    /\ UNCHANGED <<refVars, requested, newPosts, posts, barShown, opened,
                   relaunches>>

(***************************************************************************)
(* A search text is the set of titles that contain it.  No title contains  *)
(* the empty text (range(of:) gives nil), whose `matches' are therefore {} *)
(* and which is told apart by isEmpty.                                     *)
(***************************************************************************)
textDidChange(matches, isEmpty) ==
    /\ opened = <<>>
    /\ barShown
    /\ isEmpty => matches = {}
    /\ filteredPosts' \in Filters(posts, matches)
    /\ showResult' = ~isEmpty
    /\ UNCHANGED <<refVars, requested, newPosts, posts, barShown, opened,
                   relaunches>>
    /\ reloadData

\* Faulty: the row number is used on the whole list during a search.
didSelectItemAtOfPosts(i) ==
    /\ opened = <<>>
    /\ i \in DOMAIN rendered \cap DOMAIN posts
    /\ opened' = <<posts[i]>>
    /\ UNCHANGED <<refVars, requested, newPosts, posts, filteredPosts,
                   showResult, barShown, rendered, relaunches>>

\* The user taps row i: the comments of the data source's post i are shown.
didSelectItemAt(i) ==
    /\ opened = <<>>
    /\ i \in DOMAIN rendered
    /\ opened' = IF showResult THEN <<filteredPosts[i]>> ELSE <<posts[i]>>
    /\ UNCHANGED <<refVars, requested, newPosts, posts, filteredPosts,
                   showResult, barShown, rendered, relaunches>>

handleDismissComment ==
    /\ opened # <<>>
    /\ opened' = <<>>
    /\ UNCHANGED <<refVars, requested, newPosts, posts, filteredPosts,
                   showResult, barShown, rendered, relaunches>>

\* The process ends at any moment and is started again.
Relaunch ==
    /\ relaunches < MaxRelaunch
    /\ relaunches' = relaunches + 1
    /\ ForgetCache
    /\ requested' = 1
    /\ newPosts' = <<>>
    /\ posts' = <<>>
    /\ filteredPosts' = <<>>
    /\ showResult' = FALSE
    /\ barShown' = FALSE
    /\ rendered' = <<>>
    /\ opened' = <<>>

\* Writes of this and of other devices, and their arrival in the cache.
DatabaseChanges ==
    /\ \E k \in PostIds :
          \/ \E t \in Titles, d \in Dates, here \in BOOLEAN :
                \/ uploadPost(k, t, d, here, Registered)
                \/ editUserPost(k, t, d, here, Registered)
          \/ removePost(k)
          \/ ChildArrives(k, Registered)
    /\ UNCHANGED <<uiVars, relaunches>>

Next ==
    \/ DatabaseChanges
    \/ Register
    \/ Deliver
    \/ refreshData
    \/ handleShowSearchIcon
    \/ \E m \in SUBSET Titles, e \in BOOLEAN : textDidChange(m, e)
    \/ \E i \in DOMAIN rendered : didSelectItemAt(i)
    \/ handleDismissComment
    \/ Relaunch

(***************************************************************************)
(* The database queue and the main queue are served: nothing in the app    *)
(* blocks either of them.  The user, the other devices and the network owe *)
(* nothing.                                                                *)
(***************************************************************************)
Spec == Init /\ [][Next]_vars /\ WF_vars(Register) /\ WF_vars(Deliver)

-----------------------------------------------------------------------------
\* All observers are registered and all closures have run.
Quiet == Registered = requested /\ events = <<>>

(***************************************************************************)
(* The rows on the screen are the rows of the data source.  cellForItemAt, *)
(* sizeForItemAt and didSelectItemAt index posts or filteredPosts with row *)
(* numbers the collection view counted earlier: a change of either list,   *)
(* or of showResult, without a reload would show the wrong posts or index  *)
(* out of range.                                                           *)
(***************************************************************************)
RenderedIsCurrent == rendered = DataSource

(***************************************************************************)
(* Whatever observers pile up and in whatever order refreshes, posts and   *)
(* deletions come, once the queues are empty every child the app's cache   *)
(* holds is in `posts': a refresh replaces the whole list with its own,    *)
(* and must not lose a post an older observer has already put there.       *)
(***************************************************************************)
NothingLost == Quiet => view \subseteq Keys(posts)

(***************************************************************************)
(* After a refresh that has been handed anything, the quiet list is the    *)
(* newest refresh's own: the closures of observeUser and of older          *)
(* refreshes, which still run for every post and overwrite or re-sort the  *)
(* list, never have the last word.                                         *)
(***************************************************************************)
NewestRefreshWins ==
    Quiet /\ Registered > 1 /\ newPosts[Registered] # <<>>
        => posts = newPosts[Registered]

\* Until the first refresh the list is in descending order of the date text.
SortedUntilRefreshed == Registered <= 1 => Descending(posts)

(***************************************************************************)
(* The post whose comments open is one the user sees when she taps, also   *)
(* when search results cover a list that has changed since the search.     *)
(***************************************************************************)
OpensWhatIsShown ==
    [][opened' # opened /\ opened' # <<>>
          => \E i \in DOMAIN rendered : opened' = <<rendered[i]>>]_vars

(***************************************************************************)
(* Every child of the cache reaches the list, or is removed, or the app is *)
(* restarted: no sequence of refreshes keeps a post out for ever.          *)
(***************************************************************************)
EventuallyListed ==
    \A k \in PostIds : k \in view ~> (k \in Keys(posts) \/ k \notin view)

\* Post k is neither in the database nor on its way to an observer.
Gone(k) == k \notin DOMAIN db /\ \A i \in DOMAIN events : events[i].post.key # k

(***************************************************************************)
(* "refreshing collection view after user has deleted a post"              *)
(* (MainController.swift:77): a refresh asked for after a post is gone     *)
(* takes the post off the list, however many older observers still hold it *)
(* in theirs.  It needs another post to be there: with none the closure    *)
(* never runs and the list stays (MainController.swift:84).                *)
(***************************************************************************)
RefreshDropsDeleted ==
    \A k \in PostIds :
        Registered < requested /\ view # {} /\ Gone(k)
            ~> (k \notin Keys(posts) \/ k \in DOMAIN db \/ view = {})
=============================================================================
