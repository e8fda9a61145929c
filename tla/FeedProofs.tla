----------------------------- MODULE FeedProofs -----------------------------
(***************************************************************************)
(* Proofs about the list of all posts, for any number of posts, users,     *)
(* titles, dates, refreshes and restarts.                                  *)
(***************************************************************************)
EXTENDS Feed, PostsRefProofs

\* The part of TypeOK that the database operations leave alone.
UITypeOK ==
    /\ requested \in Nat
    /\ newPosts \in Seq(Seq(Post))
    /\ Registered <= requested
    /\ posts \in Seq(Post)
    /\ filteredPosts \in Seq(Post)
    /\ showResult \in BOOLEAN
    /\ barShown \in BOOLEAN
    /\ rendered \in Seq(Post)
    /\ opened \in Seq(Post) /\ Len(opened) <= 1
    /\ relaunches \in Nat

\* TypeOK splits into a part about /posts and a part about the screen.
LEMMA TypeOKSplits == TypeOK <=> RefInv(Registered) /\ UITypeOK
BY DEF TypeOK, RefInv, UITypeOK

\* The number of registrations is a number.
LEMMA RegisteredType == ASSUME UITypeOK PROVE Registered \in Nat
BY DEF UITypeOK, Registered

\* Searching a list gives a list.
LEMMA FiltersType ==
    ASSUME NEW S, NEW s \in Seq(S), NEW matches, NEW r \in Filters(s, matches)
    PROVE  r \in Seq(S)
<1> DEFINE T == {i \in DOMAIN s : s[i].title \in matches}
<1>1. PICK f \in InOrder(T) : r = [i \in DOMAIN f |-> s[f[i]]]
      BY DEF Filters
<1>2. DOMAIN s = 1 .. Len(s) /\ Len(s) \in Nat
      OBVIOUS
<1>3. IsFiniteSet(1 .. Len(s))
      BY <1>2, FS_Interval
<1>4. T \subseteq 1 .. Len(s)
      BY <1>2
<1>5. IsFiniteSet(T)
      BY <1>3, <1>4, FS_Subset
<1> HIDE DEF T
<1>6. Cardinality(T) \in Nat /\ f \in [1 .. Cardinality(T) -> T]
      BY <1>5, InOrderType
<1>7. ASSUME NEW i \in 1 .. Cardinality(T) PROVE s[f[i]] \in S
  <2>1. f[i] \in 1 .. Len(s)
        BY <1>4, <1>6
  <2> QED BY <2>1
<1>8. r \in [1 .. Cardinality(T) -> S]
      BY <1>1, <1>6, <1>7
<1> QED BY <1>6, <1>8

\* What a closure of observeUserPost leaves is well-formed.
LEMMA DeliverTypes ==
    ASSUME UITypeOK, RefInv(Registered), Deliver
    PROVE  /\ newPosts' \in Seq(Seq(Post))
           /\ Registered' = Registered
           /\ posts' \in Seq(Post)
<1> DEFINE p == Head(events).post
           r == Head(events).reg
<1>0. Registered \in Nat
      BY RegisteredType
<1>1. r \in 1 .. Registered /\ p \in Post
      BY <1>0, TakeEventOK DEF Deliver
<1>2. CASE r = 1
  <2>1. newPosts' = newPosts /\ posts' \in Sorts(Append(posts, p))
        BY <1>2 DEF Deliver, observeUser
  <2>2. Append(posts, p) \in Seq(Post)
        BY <1>1 DEF UITypeOK
  <2>3. posts' \in Seq(Post)
        BY <2>1, <2>2, SortsFacts
  <2> QED BY <2>1, <2>3 DEF UITypeOK, Registered
<1>3. CASE r # 1
  <2>1. /\ newPosts' = [newPosts EXCEPT ![r] = Append(@, p)]
        /\ posts' = Append(newPosts[r], p)
        BY <1>3 DEF Deliver, RefreshClosure
  <2>2. r \in 1 .. Len(newPosts) /\ newPosts[r] \in Seq(Post)
        BY <1>1 DEF UITypeOK, Registered
  <2>3. Append(newPosts[r], p) \in Seq(Post)
        BY <1>1, <2>2
  <2> HIDE DEF p, r
  <2>4. newPosts' \in Seq(Seq(Post)) /\ Len(newPosts') = Len(newPosts)
        BY <2>1, <2>2, <2>3 DEF UITypeOK
  <2> QED BY <2>1, <2>3, <2>4 DEF Registered
<1> QED BY <1>2, <1>3

\* The initial state is well-formed.
LEMMA TypeOKInit == Init => TypeOK
<1> SUFFICES ASSUME Init PROVE TypeOK
    OBVIOUS
<1>1. RefInv(0)
      BY RefInitOK DEF Init
<1>2. newPosts = <<>> /\ Registered = 0
      BY DEF Init, Registered
<1>3. <<>> \in Seq(Post) /\ <<>> \in Seq(Seq(Post)) /\ Len(<<>>) = 0
      OBVIOUS
<1>4. requested \in Nat /\ relaunches \in Nat /\ Registered <= requested
      BY <1>2 DEF Init
<1>5. opened = <<>> /\ Len(opened) <= 1
      BY <1>3 DEF Init
<1>6. showResult \in BOOLEAN /\ barShown \in BOOLEAN
      BY DEF Init
<1>7. UITypeOK
      BY <1>2, <1>3, <1>4, <1>5, <1>6 DEF Init, UITypeOK
<1> QED BY <1>1, <1>2, <1>7, TypeOKSplits

(***************************************************************************)
(* Every step keeps the state well-formed.  didSelectItemAt indexes a list *)
(* with the number of a row on the screen, so this needs the rows to be    *)
(* those of the data source.                                               *)
(***************************************************************************)
LEMMA TypeOKStep == TypeOK /\ RenderedIsCurrent /\ [Next]_vars => TypeOK'
<1> SUFFICES ASSUME RefInv(Registered), UITypeOK, RenderedIsCurrent, [Next]_vars
             PROVE  RefInv(Registered)' /\ UITypeOK'
    BY DEF TypeOK, RefInv, UITypeOK
<1>0. Registered \in Nat
      BY RegisteredType
<1>s. ASSUME UNCHANGED refVars, Registered' = Registered
      PROVE  RefInv(Registered)'
      BY <1>s DEF refVars, RefInv, RefTypeOK, EventsUpTo
<1>1. CASE DatabaseChanges
  <2>1. UITypeOK' /\ Registered' = Registered
        BY <1>1 DEF DatabaseChanges, uiVars, UITypeOK, Registered
  <2>2. PICK k \in PostIds :
            \/ \E t \in Titles, d \in Dates, here \in BOOLEAN :
                  \/ uploadPost(k, t, d, here, Registered)
                  \/ editUserPost(k, t, d, here, Registered)
            \/ removePost(k)
            \/ ChildArrives(k, Registered)
        BY <1>1 DEF DatabaseChanges
  <2> DEFINE n == Registered
  <2>3. n \in Nat /\ RefInv(n)
        BY <1>0
  <2>4. RefTypeOK' /\ EventsUpTo(Registered)'
        BY <2>1, <2>2, <2>3, uploadPostOK, editUserPostOK, removePostOK,
           ChildArrivesOK DEF RefInv
  <2> QED BY <2>1, <2>4 DEF RefInv
<1>2. CASE Register
  <2>0. PICK n \in Nat : n = Registered
        BY <1>0
  <2>1. RefInv(n) /\ observe(n + 1)
        BY <1>2, <2>0 DEF Register
  <2>2. /\ newPosts' = Append(newPosts, <<>>)
        /\ Registered < requested
        BY <1>2 DEF Register
  <2>3. /\ newPosts' \in Seq(Seq(Post))
        /\ Registered' = n + 1
        /\ Registered' <= requested
        BY <2>0, <2>2, <1>0 DEF UITypeOK, Registered
  <2>4. UITypeOK'
        BY <1>2, <2>3 DEF Register, UITypeOK
  <2>5. RefTypeOK' /\ EventsUpTo(n + 1)'
        BY <2>1, observeOK DEF RefInv
  <2>6. EventsUpTo(Registered)'
        BY <2>3, <2>5 DEF EventsUpTo
  <2> QED BY <2>4, <2>5, <2>6 DEF RefInv
<1>3. CASE Deliver
  <2>0. PICK n \in Nat : n = Registered
        BY <1>0
  <2>1. /\ newPosts' \in Seq(Seq(Post))
        /\ Registered' = n
        /\ posts' \in Seq(Post)
        BY <1>3, <2>0, DeliverTypes
  <2>2. RefInv(n)
        BY <2>0
  <2>3. RefTypeOK' /\ EventsUpTo(n)'
        BY <1>3, <2>2, TakeEventOK DEF Deliver, RefInv
  <2>4. UITypeOK'
        BY <1>3, <2>0, <2>1 DEF Deliver, reloadData, UITypeOK
  <2>5. EventsUpTo(Registered)'
        BY <2>1, <2>3 DEF EventsUpTo
  <2> QED BY <2>3, <2>4, <2>5 DEF RefInv
<1>4. CASE refreshData
      BY <1>0, <1>4, <1>s DEF refreshData, UITypeOK, Registered
<1>5. CASE handleShowSearchIcon
      BY <1>5, <1>s DEF handleShowSearchIcon, UITypeOK, Registered
<1>6. ASSUME NEW m \in SUBSET Titles, NEW e \in BOOLEAN, textDidChange(m, e)
      PROVE  RefInv(Registered)' /\ UITypeOK'
  <2>1. filteredPosts' \in Seq(Post)
        BY <1>6, FiltersType DEF textDidChange, UITypeOK
  <2> QED BY <1>6, <1>s, <2>1 DEF textDidChange, reloadData, UITypeOK, Registered
<1>7. ASSUME NEW i \in DOMAIN rendered, didSelectItemAt(i)
      PROVE  RefInv(Registered)' /\ UITypeOK'
  <2>1. DataSource[i] \in Post
        BY DEF RenderedIsCurrent, UITypeOK
  <2>2. opened' = <<DataSource[i]>>
        BY <1>7 DEF didSelectItemAt, DataSource
  <2>3. opened' \in Seq(Post) /\ Len(opened') <= 1
        BY <2>1, <2>2
  <2> QED BY <1>7, <1>s, <2>3 DEF didSelectItemAt, UITypeOK, Registered
<1>8. CASE handleDismissComment
      BY <1>8, <1>s DEF handleDismissComment, UITypeOK, Registered
<1>9. CASE Relaunch
  <2>1. RefTypeOK' /\ EventsUpTo(0)'
        BY <1>9, ForgetCacheOK DEF Relaunch, RefInv
  <2>2. newPosts' = <<>> /\ Registered' = 0
        BY <1>9 DEF Relaunch, Registered
  <2>3. <<>> \in Seq(Post) /\ <<>> \in Seq(Seq(Post)) /\ Len(<<>>) = 0
        OBVIOUS
  <2>4. requested' \in Nat /\ relaunches' \in Nat /\ Registered' <= requested'
        BY <1>9, <2>2 DEF Relaunch, UITypeOK
  <2>5. opened' = <<>> /\ Len(opened') <= 1
        BY <1>9, <2>3 DEF Relaunch
  <2>6. showResult' \in BOOLEAN /\ barShown' \in BOOLEAN
        BY <1>9 DEF Relaunch
  <2>7. UITypeOK'
        BY <1>9, <2>2, <2>3, <2>4, <2>5, <2>6 DEF Relaunch, UITypeOK
  <2> QED BY <2>1, <2>2, <2>7 DEF RefInv, EventsUpTo
<1>10. CASE UNCHANGED vars
      BY <1>10, <1>s DEF vars, uiVars, UITypeOK, Registered
<1> QED BY <1>1, <1>2, <1>3, <1>4, <1>5, <1>6, <1>7, <1>8, <1>9, <1>10 DEF Next

\* Every step leaves the rows of the data source on the screen.
LEMMA RenderedStep == RenderedIsCurrent /\ [Next]_vars => RenderedIsCurrent'
<1> SUFFICES ASSUME RenderedIsCurrent, [Next]_vars PROVE RenderedIsCurrent'
    OBVIOUS
<1> USE DEF RenderedIsCurrent, DataSource
<1>1. CASE DatabaseChanges
      BY <1>1 DEF DatabaseChanges, uiVars
<1>2. CASE Register
      BY <1>2 DEF Register
<1>3. CASE Deliver
      BY <1>3 DEF Deliver, reloadData
<1>4. CASE refreshData
      BY <1>4 DEF refreshData
<1>5. CASE handleShowSearchIcon
      BY <1>5 DEF handleShowSearchIcon
<1>6. ASSUME NEW m \in SUBSET Titles, NEW e \in BOOLEAN, textDidChange(m, e)
      PROVE  RenderedIsCurrent'
      BY <1>6 DEF textDidChange, reloadData
<1>7. ASSUME NEW i \in DOMAIN rendered, didSelectItemAt(i)
      PROVE  RenderedIsCurrent'
      BY <1>7 DEF didSelectItemAt
<1>8. CASE handleDismissComment
      BY <1>8 DEF handleDismissComment
<1>9. CASE Relaunch
      BY <1>9 DEF Relaunch
<1>10. CASE UNCHANGED vars
      BY <1>10 DEF vars, uiVars
<1> QED BY <1>1, <1>2, <1>3, <1>4, <1>5, <1>6, <1>7, <1>8, <1>9, <1>10 DEF Next

(***************************************************************************)
(* The state is always well-formed and the rows on the screen are always   *)
(* those of the list the data source reads (MainController's posts, or     *)
(* filteredPosts during a search): the two need each other.                *)
(***************************************************************************)
THEOREM FeedRowsAreCurrent == Spec => [](TypeOK /\ RenderedIsCurrent)
<1>1. Init => TypeOK /\ RenderedIsCurrent
      BY TypeOKInit DEF Init, RenderedIsCurrent, DataSource
<1>2. TypeOK /\ RenderedIsCurrent /\ [Next]_vars => (TypeOK /\ RenderedIsCurrent)'
      BY TypeOKStep, RenderedStep
<1> QED BY <1>1, <1>2, PTL DEF Spec

(***************************************************************************)
(* The feed's state is always well-formed: in particular the row that      *)
(* didSelectItemAt takes is one of the list it indexes.                    *)
(***************************************************************************)
THEOREM FeedType == Spec => []TypeOK
BY FeedRowsAreCurrent, PTL

-----------------------------------------------------------------------------
(***************************************************************************)
(* Until the first refresh, the list is in descending order.               *)
(***************************************************************************)
LEMMA SortedStep ==
    TypeOK /\ SortedUntilRefreshed /\ [Next]_vars => SortedUntilRefreshed'
<1> SUFFICES ASSUME RefInv(Registered), UITypeOK, SortedUntilRefreshed,
                    [Next]_vars, Registered' <= 1
             PROVE  Descending(posts')
    BY TypeOKSplits DEF SortedUntilRefreshed, Descending
<1>0. Registered \in Nat
      BY RegisteredType
<1>1. CASE UNCHANGED <<newPosts, posts>>
      BY <1>1 DEF SortedUntilRefreshed, Registered
<1>2. CASE Register
  <2>1. Registered' = Registered + 1 /\ posts' = posts
        BY <1>2 DEF Register, Registered, UITypeOK
  <2> QED BY <1>0, <2>1 DEF SortedUntilRefreshed
<1>3. CASE Deliver
  <2> DEFINE p == Head(events).post
             r == Head(events).reg
  <2>1. r \in 1 .. Registered /\ p \in Post
        BY <1>0, <1>3, TakeEventOK DEF Deliver
  <2>2. r = 1
        BY <1>0, <1>3, <2>1, DeliverTypes
  <2>3. posts' \in Sorts(Append(posts, p)) /\ Append(posts, p) \in Seq(Post)
        BY <1>3, <2>1, <2>2 DEF Deliver, observeUser, UITypeOK
  <2> QED BY <2>3, SortsFacts
<1>4. CASE Relaunch
  <2>1. posts' = <<>> /\ DOMAIN posts' = {}
        BY <1>4 DEF Relaunch
  <2> QED BY <2>1 DEF Descending
<1> QED
  BY <1>1, <1>2, <1>3, <1>4 DEF Next, DatabaseChanges, refreshData, uiVars, vars,
     handleShowSearchIcon, textDidChange, didSelectItemAt, handleDismissComment

(***************************************************************************)
(* Until the first refresh of a launch, observeUser's list is in           *)
(* descending order of the date texts, whatever arrives and in whatever    *)
(* order.                                                                  *)
(***************************************************************************)
THEOREM FeedIsSorted == Spec => []SortedUntilRefreshed
<1>1. Init => SortedUntilRefreshed
  <2> SUFFICES ASSUME Init PROVE Descending(posts)
      BY DEF SortedUntilRefreshed
  <2>1. posts = <<>> /\ DOMAIN posts = {}
        BY DEF Init
  <2> QED BY <2>1 DEF Descending
<1>2. TypeOK /\ SortedUntilRefreshed /\ [Next]_vars => SortedUntilRefreshed'
      BY SortedStep
<1> QED BY <1>1, <1>2, FeedRowsAreCurrent, PTL DEF Spec

(***************************************************************************)
(* didSelectItemAt opens the comments of a post that is on the screen.     *)
(***************************************************************************)
THEOREM FeedOpensWhatIsShown == Spec => OpensWhatIsShown
<1>1. ASSUME RenderedIsCurrent, [Next]_vars
      PROVE  [opened' # opened /\ opened' # <<>>
                => \E i \in DOMAIN rendered : opened' = <<rendered[i]>>]_vars
  <2> SUFFICES ASSUME Next, opened' # opened, opened' # <<>>
               PROVE  \E i \in DOMAIN rendered : opened' = <<rendered[i]>>
      BY <1>1
  <2>1. PICK i \in DOMAIN rendered : didSelectItemAt(i)
        BY DEF Next, DatabaseChanges, Register, Deliver, refreshData, uiVars,
           handleShowSearchIcon, textDidChange, handleDismissComment, Relaunch
  <2>2. opened' = <<DataSource[i]>>
        BY <2>1 DEF didSelectItemAt, DataSource
  <2> QED BY <1>1, <2>2 DEF RenderedIsCurrent
<1> QED BY <1>1, FeedRowsAreCurrent, PTL DEF Spec, OpensWhatIsShown

-----------------------------------------------------------------------------
(***************************************************************************)
(* The observers piling up on the list of all posts lose none of them, and *)
(* the newest refresh has the last word.                                   *)
(***************************************************************************)

\* A closure that hands post k to registration r is on the main queue.
Awaits(r, k) ==
    \E i \in DOMAIN events : events[i].reg = r /\ events[i].post.key = k

(***************************************************************************)
(* What makes NothingLost inductive: every cached child is in each         *)
(* refresh's own list, or on its way to that refresh; and it is in `posts' *)
(* or on its way to some registration.                                     *)
(***************************************************************************)
OwnListsComplete ==
    \A r \in 2 .. Registered : \A k \in view :
        k \in Keys(newPosts[r]) \/ Awaits(r, k)

ListComplete ==
    Registered > 0 =>
        \A k \in view : k \in Keys(posts) \/ \E r \in 1 .. Registered : Awaits(r, k)

(***************************************************************************)
(* What makes NewestRefreshWins inductive: the newest refresh has never    *)
(* been handed anything, or the last closure on the main queue is its own, *)
(* or the queue is empty and the list is its list.                         *)
(***************************************************************************)
LastWord ==
    Registered > 1 =>
        \/ /\ newPosts[Registered] = <<>>
           /\ \A i \in DOMAIN events : events[i].reg # Registered
        \/ events # <<>> /\ events[Len(events)].reg = Registered
        \/ events = <<>> /\ posts = newPosts[Registered]

\* A closure stays on the queue when others are put behind it.
LEMMA AwaitsAppended ==
    ASSUME NEW r, NEW k, events \in Seq(Event), NEW new \in Seq(Event),
           events' = events \o new,
           \/ Awaits(r, k)
           \/ \E j \in DOMAIN new : new[j].reg = r /\ new[j].post.key = k
    PROVE  Awaits(r, k)'
<1>0. DOMAIN events' = 1 .. Len(events) + Len(new) /\ DOMAIN new = 1 .. Len(new)
      OBVIOUS
<1>1. CASE Awaits(r, k)
  <2>1. PICK i \in DOMAIN events : events[i].reg = r /\ events[i].post.key = k
        BY <1>1 DEF Awaits
  <2>2. i \in DOMAIN events' /\ events'[i] = events[i]
        OBVIOUS
  <2> QED BY <2>1, <2>2 DEF Awaits
<1>2. ASSUME NEW j \in DOMAIN new, new[j].reg = r, new[j].post.key = k
      PROVE  Awaits(r, k)'
  <2>1. Len(events) + j \in DOMAIN events' /\ events'[Len(events) + j] = new[j]
        BY <1>0
  <2> QED BY <1>2, <2>1 DEF Awaits
<1> QED BY <1>1, <1>2

\* A closure stays on the queue until it is the oldest one and runs.
LEMMA AwaitsTaken ==
    ASSUME NEW r, NEW k, events \in Seq(Event), events # <<>>,
           events' = Tail(events), Awaits(r, k)
    PROVE  Awaits(r, k)' \/ (Head(events).reg = r /\ Head(events).post.key = k)
<1>1. PICK i \in DOMAIN events : events[i].reg = r /\ events[i].post.key = k
      BY DEF Awaits
<1>2. DOMAIN events = 1 .. Len(events) /\ DOMAIN events' = 1 .. Len(events) - 1
      OBVIOUS
<1>3. CASE i = 1
      BY <1>1, <1>3
<1>4. CASE i # 1
  <2>1. i - 1 \in DOMAIN events' /\ events'[i - 1] = events[i]
        BY <1>2, <1>4
  <2> QED BY <1>1, <2>1 DEF Awaits
<1> QED BY <1>3, <1>4

\* What a change of /posts does to the cache and to the main queue.
LEMMA DatabaseEffect ==
    ASSUME TypeOK, DatabaseChanges
    PROVE  /\ UNCHANGED uiVars
           /\ \/ events' = events /\ view' \subseteq view
              \/ \E p \in Post : /\ events' = events \o AddedEvents(p, Registered)
                                 /\ view' \subseteq view \cup {p.key}
<1>1. UNCHANGED uiVars
      BY DEF DatabaseChanges
<1> DEFINE Goal ==
        \/ events' = events /\ view' \subseteq view
        \/ \E p \in Post : /\ events' = events \o AddedEvents(p, Registered)
                           /\ view' \subseteq view \cup {p.key}
<1>2. ASSUME NEW p \in Post, NEW here \in BOOLEAN, PutChild(p, here, Registered)
      PROVE  Goal
      BY <1>2 DEF PutChild
<1>3. ASSUME NEW k \in PostIds, NEW t \in Titles, NEW d \in Dates,
             NEW here \in BOOLEAN, uploadPost(k, t, d, here, Registered)
      PROVE  Goal
  <2> DEFINE p == [key |-> k, userId |-> Owner[k], title |-> t, date |-> d]
  <2>1. p \in Post
        BY OwnerAssumption, LastDateAssumption DEF Post, Dates
  <2>2. PutChild(p, here, Registered)
        BY <1>3 DEF uploadPost
  <2> HIDE DEF p, Goal
  <2> QED BY <2>1, <2>2, <1>2
<1>4. ASSUME NEW k \in PostIds, NEW t \in Titles, NEW d \in Dates,
             NEW here \in BOOLEAN, editUserPost(k, t, d, here, Registered)
      PROVE  Goal
  <2> DEFINE p == [key |-> k, userId |-> NoUser, title |-> t,
                   date |-> UpdatedOn(d)]
  <2>1. p \in Post
        BY LastDateAssumption DEF Post, Dates, UpdatedOn
  <2>2. CASE k \in DOMAIN db
        BY <1>4, <2>2 DEF editUserPost
  <2>3. CASE k \notin DOMAIN db
    <3>1. PutChild(p, here, Registered)
          BY <1>4, <2>3 DEF editUserPost
    <3> HIDE DEF p, Goal
    <3> QED BY <2>1, <3>1, <1>2
  <2> QED BY <2>2, <2>3
<1>5. ASSUME NEW k \in PostIds, removePost(k) PROVE Goal
      BY <1>5 DEF removePost
<1>6. ASSUME NEW k \in PostIds, ChildArrives(k, Registered) PROVE Goal
  <2>1. db[k] \in Post /\ db[k].key = k
        BY <1>6 DEF ChildArrives, TypeOK, RefTypeOK
  <2> QED BY <1>6, <2>1 DEF ChildArrives
<1> HIDE DEF Goal
<1>7. Goal
      BY <1>3, <1>4, <1>5, <1>6 DEF DatabaseChanges
<1> QED BY <1>1, <1>7 DEF Goal

\* What the registration of an observer does to the queue.
LEMMA RegisterEffect ==
    ASSUME TypeOK, Register
    PROVE  \E new \in Seq(Event) :
               /\ events' = events \o new
               /\ \A j \in DOMAIN new : new[j].reg = Registered + 1
               /\ \A k \in view : \E j \in DOMAIN new : new[j].post.key = k
<1>1. IsFiniteSet(view) /\ view \subseteq Nat
      BY PostIdsAssumption, FS_Subset DEF TypeOK, RefTypeOK
<1>2. PICK s \in InOrder(view) :
          events' = events \o [i \in 1 .. Cardinality(view) |->
                                  [reg |-> Registered + 1, post |-> db[s[i]]]]
      BY DEF Register, observe
<1>3. Cardinality(view) \in Nat /\ s \in [1 .. Cardinality(view) -> view]
      BY <1>1, InOrderType
<1>4. \A k \in view : \E j \in 1 .. Cardinality(view) : s[j] = k
      BY <1>1, InOrderCovers
<1> DEFINE new == [i \in 1 .. Cardinality(view) |->
                      [reg |-> Registered + 1, post |-> db[s[i]]]]
<1>5. \A i \in 1 .. Cardinality(view) : db[s[i]] \in Post /\ db[s[i]].key = s[i]
      BY <1>3 DEF TypeOK, RefTypeOK
<1>6. Registered + 1 \in Nat \ {0}
      BY DEF TypeOK, Registered
<1>7. new \in Seq(Event)
  <2>1. \A i \in 1 .. Cardinality(view) :
            [reg |-> Registered + 1, post |-> db[s[i]]] \in Event
        BY <1>5, <1>6 DEF Event
  <2> QED BY <1>3, <2>1
<1>8. \A j \in DOMAIN new : new[j].reg = Registered + 1
      OBVIOUS
<1>9. \A k \in view : \E j \in DOMAIN new : new[j].post.key = k
      BY <1>4, <1>5
<1> QED BY <1>2, <1>7, <1>8, <1>9

-----------------------------------------------------------------------------
(***************************************************************************)
(* Every step keeps the refreshes' own lists complete.                     *)
(***************************************************************************)
LEMMA OwnListsStep ==
    TypeOK /\ OwnListsComplete /\ [Next]_vars => OwnListsComplete'
<1> SUFFICES ASSUME TypeOK, OwnListsComplete, [Next]_vars,
                    NEW r \in 2 .. Registered', NEW k \in view'
             PROVE  k \in Keys(newPosts'[r]) \/ Awaits(r, k)'
    BY DEF OwnListsComplete
<1>0. Registered \in Nat /\ events \in Seq(Event)
      BY DEF TypeOK, RefTypeOK, Registered
<1>1. CASE UNCHANGED <<events, view, newPosts>>
      BY <1>1 DEF OwnListsComplete, Awaits, Registered
<1>2. CASE DatabaseChanges
  <2>1. newPosts' = newPosts /\ Registered' = Registered
        BY <1>2, DatabaseEffect DEF uiVars, Registered
  <2>2. CASE events' = events /\ view' \subseteq view
        BY <2>1, <2>2 DEF OwnListsComplete, Awaits
  <2>3. ASSUME NEW p \in Post, events' = events \o AddedEvents(p, Registered),
               view' \subseteq view \cup {p.key}
        PROVE  k \in Keys(newPosts'[r]) \/ Awaits(r, k)'
    <3>1. AddedEvents(p, Registered) \in Seq(Event)
          BY <1>0, AddedEventsType
    <3>2. /\ r \in DOMAIN AddedEvents(p, Registered)
          /\ AddedEvents(p, Registered)[r] = [reg |-> r, post |-> p]
          BY <1>0, <2>1 DEF AddedEvents
    <3>3. CASE k = p.key
      <4>1. \E j \in DOMAIN AddedEvents(p, Registered) :
                /\ AddedEvents(p, Registered)[j].reg = r
                /\ AddedEvents(p, Registered)[j].post.key = k
            BY <3>2, <3>3
      <4> QED BY <1>0, <2>3, <3>1, <4>1, AwaitsAppended
    <3>4. CASE k \in view
      <4>1. k \in Keys(newPosts[r]) \/ Awaits(r, k)
            BY <2>1, <3>4 DEF OwnListsComplete
      <4> QED BY <1>0, <2>1, <2>3, <3>1, <4>1, AwaitsAppended
    <3> QED BY <2>3, <3>3, <3>4
  <2> QED BY <1>2, <2>2, <2>3, DatabaseEffect
<1>3. CASE Register
  <2>1. /\ newPosts' = Append(newPosts, <<>>) /\ view' = view
        /\ newPosts \in Seq(Seq(Post))
        BY <1>3 DEF Register, observe, TypeOK
  <2>2. /\ Registered' = Registered + 1
        /\ \A q \in 1 .. Registered : newPosts'[q] = newPosts[q]
        BY <2>1 DEF Registered
  <2>3. PICK new \in Seq(Event) :
            /\ events' = events \o new
            /\ \A j \in DOMAIN new : new[j].reg = Registered + 1
            /\ \A x \in view : \E j \in DOMAIN new : new[j].post.key = x
        BY <1>3, RegisterEffect
  <2>4. CASE r = Registered + 1
    <3>1. \E j \in DOMAIN new : new[j].reg = r /\ new[j].post.key = k
          BY <2>1, <2>3, <2>4
    <3> QED BY <1>0, <2>3, <3>1, AwaitsAppended
  <2>5. CASE r # Registered + 1
    <3>1. r \in 2 .. Registered /\ newPosts'[r] = newPosts[r]
          BY <1>0, <2>2, <2>5
    <3>2. k \in Keys(newPosts[r]) \/ Awaits(r, k)
          BY <2>1, <3>1 DEF OwnListsComplete
    <3> QED BY <1>0, <2>3, <3>1, <3>2, AwaitsAppended
  <2> QED BY <2>4, <2>5
<1>4. CASE Deliver
  <2> DEFINE e == Head(events)
  <2>1. e.reg \in 1 .. Registered /\ e.post \in Post
        BY <1>0, <1>4, TypeOKSplits, TakeEventOK DEF Deliver
  <2>2. /\ view' = view /\ events # <<>> /\ events' = Tail(events)
        /\ Registered' = Registered
        BY <1>4, TypeOKSplits, DeliverTypes DEF Deliver
  <2>3. k \in Keys(newPosts[r]) \/ Awaits(r, k)
        BY <2>2 DEF OwnListsComplete
  <2>4. newPosts[r] \in Seq(Post) /\ r \in DOMAIN newPosts
        BY <1>0, <2>2 DEF TypeOK, Registered
  <2>5. CASE e.reg = r
    <3>1. newPosts'[r] = Append(newPosts[r], e.post)
          BY <1>4, <2>4, <2>5 DEF Deliver, RefreshClosure
    <3>2. Keys(newPosts[r]) \cup {e.post.key} \subseteq Keys(newPosts'[r])
          BY <2>1, <2>4, <3>1, KeysAppend
    <3> QED BY <1>0, <2>2, <2>3, <3>2, AwaitsTaken
  <2>6. CASE e.reg # r
    <3>1. newPosts'[r] = newPosts[r]
          BY <1>4, <2>4, <2>6 DEF Deliver, RefreshClosure, observeUser
    <3> QED BY <1>0, <2>2, <2>3, <2>6, <3>1, AwaitsTaken
  <2> QED BY <2>5, <2>6
<1>5. CASE Relaunch
  <2>1. Registered' = 0
        BY <1>5 DEF Relaunch, Registered
  <2> QED BY <2>1
<1> QED
  BY <1>1, <1>2, <1>3, <1>4, <1>5 DEF Next, refreshData, vars, uiVars, refVars,
     handleShowSearchIcon, textDidChange, didSelectItemAt, handleDismissComment

\* Every step keeps the list complete.
LEMMA ListStep ==
    TypeOK /\ OwnListsComplete /\ ListComplete /\ [Next]_vars => ListComplete'
<1> SUFFICES ASSUME TypeOK, OwnListsComplete, ListComplete, [Next]_vars,
                    Registered' > 0, NEW k \in view'
             PROVE  k \in Keys(posts') \/ \E r \in 1 .. Registered' : Awaits(r, k)'
    BY DEF ListComplete
<1>0. Registered \in Nat /\ events \in Seq(Event)
      BY DEF TypeOK, RefTypeOK, Registered
<1>1. CASE UNCHANGED <<events, view, newPosts, posts>>
      BY <1>1 DEF ListComplete, Awaits, Registered
<1>2. CASE DatabaseChanges
  <2>1. posts' = posts /\ newPosts' = newPosts /\ Registered' = Registered
        BY <1>2, DatabaseEffect DEF uiVars, Registered
  <2>2. CASE events' = events /\ view' \subseteq view
        BY <2>1, <2>2 DEF ListComplete, Awaits
  <2>3. ASSUME NEW p \in Post, events' = events \o AddedEvents(p, Registered),
               view' \subseteq view \cup {p.key}
        PROVE  k \in Keys(posts') \/ \E r \in 1 .. Registered' : Awaits(r, k)'
    <3>1. AddedEvents(p, Registered) \in Seq(Event)
          BY <1>0, AddedEventsType
    <3>2. /\ 1 \in 1 .. Registered /\ 1 \in DOMAIN AddedEvents(p, Registered)
          /\ AddedEvents(p, Registered)[1] = [reg |-> 1, post |-> p]
          BY <1>0, <2>1 DEF AddedEvents
    <3>3. CASE k = p.key
      <4>1. Awaits(1, k)'
            BY <1>0, <2>3, <3>1, <3>2, <3>3, AwaitsAppended
      <4> QED BY <2>1, <3>2, <4>1
    <3>4. CASE k \in view
      <4>1. k \in Keys(posts) \/ \E r \in 1 .. Registered : Awaits(r, k)
            BY <2>1, <3>4 DEF ListComplete
      <4> QED BY <1>0, <2>1, <2>3, <3>1, <4>1, AwaitsAppended
    <3> QED BY <2>3, <3>3, <3>4
  <2> QED BY <1>2, <2>2, <2>3, DatabaseEffect
<1>3. CASE Register
  <2>1. /\ newPosts' = Append(newPosts, <<>>) /\ view' = view
        /\ newPosts \in Seq(Seq(Post))
        BY <1>3 DEF Register, observe, TypeOK
  <2>2. Registered' = Registered + 1 /\ Registered' \in 1 .. Registered'
        BY <1>0, <2>1 DEF Registered
  <2>3. PICK new \in Seq(Event) :
            /\ events' = events \o new
            /\ \A j \in DOMAIN new : new[j].reg = Registered + 1
            /\ \A x \in view : \E j \in DOMAIN new : new[j].post.key = x
        BY <1>3, RegisterEffect
  <2>4. PICK q \in Nat : q = Registered + 1
        BY <1>0
  <2>5. Awaits(q, k)'
        BY <1>0, <2>1, <2>3, <2>4, AwaitsAppended
  <2> QED BY <2>2, <2>4, <2>5
<1>4. CASE Deliver
  <2>1. PICK r \in Nat, p \in Post : r = Head(events).reg /\ p = Head(events).post
                                     /\ r \in 1 .. Registered
        BY <1>0, <1>4, TypeOKSplits, TakeEventOK DEF Deliver
  <2>2. /\ view' = view /\ events # <<>> /\ events' = Tail(events)
        /\ Registered' = Registered
        BY <1>4, TypeOKSplits, DeliverTypes DEF Deliver
  <2>3. CASE r = 1
    <3>1. k \in Keys(posts) \/ \E q \in 1 .. Registered : Awaits(q, k)
          BY <2>2 DEF ListComplete
    <3>2. posts' \in Sorts(Append(posts, p)) /\ posts \in Seq(Post)
          BY <1>4, <2>1, <2>3 DEF Deliver, observeUser, TypeOK
    <3>3. Keys(posts) \cup {p.key} \subseteq Keys(posts')
      <4>1. Append(posts, p) \in Seq(Post)
            BY <3>2
      <4>2. Keys(Append(posts, p)) \subseteq Keys(posts')
            BY <3>2, <4>1, SortsFacts
      <4> QED BY <3>2, <4>2, KeysAppend
    <3> QED BY <1>0, <2>1, <2>2, <3>1, <3>3, AwaitsTaken
  <2>4. CASE r # 1
    <3>1. r \in 2 .. Registered
          BY <1>0, <2>1, <2>4
    <3>2. posts' = Append(newPosts[r], p) /\ newPosts[r] \in Seq(Post)
          BY <1>4, <2>1, <2>4 DEF Deliver, RefreshClosure, TypeOK, Registered
    <3>3. Keys(newPosts[r]) \cup {p.key} \subseteq Keys(posts')
          BY <3>2, KeysAppend
    <3>4. k \in Keys(newPosts[r]) \/ Awaits(r, k)
          BY <2>2, <3>1 DEF OwnListsComplete
    <3> QED BY <1>0, <2>1, <2>2, <3>3, <3>4, AwaitsTaken
  <2> QED BY <2>3, <2>4
<1>5. CASE Relaunch
  <2>1. Registered' = 0
        BY <1>5 DEF Relaunch, Registered
  <2> QED BY <2>1
<1> QED
  BY <1>1, <1>2, <1>3, <1>4, <1>5 DEF Next, refreshData, vars, uiVars, refVars,
     handleShowSearchIcon, textDidChange, didSelectItemAt, handleDismissComment

(***************************************************************************)
(* Once the queues are empty, every cached post is in MainController's     *)
(* list, however many observers its refreshes have left behind.            *)
(***************************************************************************)
THEOREM FeedNothingLost == Spec => []NothingLost
<1>1. Init => OwnListsComplete /\ ListComplete /\ requested > 0
      BY DEF Init, Registered, OwnListsComplete, ListComplete
<1>2. TypeOK /\ OwnListsComplete /\ ListComplete /\ requested > 0 /\ [Next]_vars
          => (OwnListsComplete /\ ListComplete /\ requested > 0)'
  <2>1. TypeOK /\ requested > 0 /\ [Next]_vars => requested' > 0
        BY DEF TypeOK, Next, DatabaseChanges, Register, Deliver, refreshData,
           vars, uiVars, handleShowSearchIcon, textDidChange, didSelectItemAt,
           handleDismissComment, Relaunch
  <2> QED BY <2>1, OwnListsStep, ListStep
<1>3. ListComplete /\ requested > 0 => NothingLost
      BY DEF ListComplete, NothingLost, Quiet, Awaits
<1> QED BY <1>1, <1>2, <1>3, FeedRowsAreCurrent, PTL DEF Spec

-----------------------------------------------------------------------------
(***************************************************************************)
(* Every step leaves the last word to the newest refresh.                  *)
(***************************************************************************)
LEMMA LastWordStep == TypeOK /\ LastWord /\ [Next]_vars => LastWord'
<1> SUFFICES ASSUME TypeOK, LastWord, [Next]_vars PROVE LastWord'
    OBVIOUS
<1>0. /\ Registered \in Nat /\ events \in Seq(Event)
      /\ newPosts \in Seq(Seq(Post)) /\ Registered = Len(newPosts)
      BY DEF TypeOK, RefTypeOK, Registered
<1>1. CASE UNCHANGED <<events, newPosts, posts>>
      BY <1>1 DEF LastWord, Registered
<1>2. CASE DatabaseChanges
  <2>1. posts' = posts /\ newPosts' = newPosts /\ Registered' = Registered
        BY <1>2, DatabaseEffect DEF uiVars, Registered
  <2>2. CASE events' = events
        BY <2>1, <2>2 DEF LastWord
  <2>3. ASSUME NEW p \in Post, events' = events \o AddedEvents(p, Registered),
               Registered > 1
        PROVE  events' # <<>> /\ events'[Len(events')].reg = Registered
    <3> DEFINE new == AddedEvents(p, Registered)
    <3>1. new \in Seq(Event) /\ Len(new) = Registered
          BY <1>0, AddedEventsType
    <3>2. new[Registered].reg = Registered
          BY <1>0, <2>3 DEF AddedEvents
    <3>0. events' = events \o new
          BY <2>3
    <3> HIDE DEF new
    <3>3. Len(events') = Len(events) + Registered
      <4>1. Len(events \o new) = Len(events) + Len(new)
            BY <1>0, <3>1
      <4> QED BY <3>0, <3>1, <4>1
    <3>5. Len(events') > 0 /\ Len(<<>>) = 0
          BY <1>0, <2>3, <3>3
    <3>4. events'[Len(events) + Registered] = new[Registered]
          BY <1>0, <2>3, <3>0, <3>1
    <3> QED BY <3>2, <3>3, <3>4, <3>5
  <2> QED BY <1>2, <2>1, <2>2, <2>3, DatabaseEffect DEF LastWord
<1>3. CASE Register
  <2>1. /\ newPosts' = Append(newPosts, <<>>)
        /\ Registered' = Registered + 1
        /\ newPosts'[Registered + 1] = <<>>
        BY <1>0, <1>3 DEF Register, Registered
  <2>2. PICK new \in Seq(Event) :
            /\ events' = events \o new
            /\ \A j \in DOMAIN new : new[j].reg = Registered + 1
        BY <1>3, RegisterEffect
  <2>3. CASE new = <<>>
    <3>1. events' = events
          BY <1>0, <2>2, <2>3
    <3>2. \A i \in DOMAIN events : events[i].reg <= Registered
          BY DEF TypeOK, EventsUpTo
    <3>3. \A i \in DOMAIN events : events[i].reg # Registered + 1
          BY <1>0, <3>2
    <3> QED BY <2>1, <3>1, <3>3 DEF LastWord
  <2>4. CASE new # <<>>
    <3>1. Len(new) > 0 /\ Len(new) \in DOMAIN new
          BY <2>4
    <3>2. events' # <<>> /\ events'[Len(events')] = new[Len(new)]
          BY <1>0, <2>2, <3>1
    <3> QED BY <2>1, <2>2, <3>1, <3>2 DEF LastWord
  <2> QED BY <2>3, <2>4
<1>4. CASE Deliver
  <2> SUFFICES ASSUME Registered' > 1
               PROVE  \/ /\ newPosts'[Registered'] = <<>>
                         /\ \A i \in DOMAIN events' : events'[i].reg # Registered'
                      \/ events' # <<>> /\ events'[Len(events')].reg = Registered'
                      \/ events' = <<>> /\ posts' = newPosts'[Registered']
      BY DEF LastWord
  <2>1. PICK r \in Nat, p \in Post : r = Head(events).reg /\ p = Head(events).post
                                     /\ r \in 1 .. Registered
        BY <1>0, <1>4, TypeOKSplits, TakeEventOK DEF Deliver
  <2>2. events # <<>> /\ events' = Tail(events) /\ Registered' = Registered
        BY <1>4, TypeOKSplits, DeliverTypes DEF Deliver
  <2>3. /\ Len(events) > 0 /\ Head(events) = events[1]
        /\ DOMAIN events = 1 .. Len(events)
        /\ Len(events') = Len(events) - 1 /\ DOMAIN events' = 1 .. Len(events) - 1
        /\ \A i \in 1 .. Len(events) - 1 : events'[i] = events[i + 1]
        BY <1>0, <2>2
  <2>4. CASE /\ newPosts[Registered] = <<>>
             /\ \A i \in DOMAIN events : events[i].reg # Registered
    <3>1. r # Registered /\ \A i \in DOMAIN events' : events'[i].reg # Registered
      <4>1. 1 \in DOMAIN events
            BY <1>0, <2>3
      <4>2. \A i \in DOMAIN events' : i + 1 \in DOMAIN events
            BY <1>0, <2>3
      <4> QED BY <2>1, <2>3, <2>4, <4>1, <4>2
    <3>2. newPosts'[Registered] = newPosts[Registered]
          BY <1>0, <1>4, <2>1, <3>1 DEF Deliver, RefreshClosure, observeUser
    <3> QED BY <2>2, <2>4, <3>1, <3>2
  <2>5. CASE events[Len(events)].reg = Registered /\ Len(events) > 1
    <3>1. events'[Len(events')] = events[Len(events)] /\ events' # <<>>
          BY <1>0, <2>3, <2>5
    <3> QED BY <2>2, <2>5, <3>1
  <2>6. CASE events[Len(events)].reg = Registered /\ Len(events) = 1
    <3>1. events' = <<>> /\ r = Registered /\ r # 1
          BY <1>0, <2>1, <2>2, <2>3, <2>6
    <3>2. /\ newPosts' = [newPosts EXCEPT ![r] = Append(@, p)]
          /\ posts' = Append(newPosts[r], p)
          BY <1>4, <2>1, <3>1 DEF Deliver, RefreshClosure
    <3>3. posts' = newPosts'[r]
          BY <1>0, <2>1, <3>2
    <3> QED BY <2>2, <3>1, <3>3
  <2> QED BY <1>0, <2>2, <2>3, <2>4, <2>5, <2>6 DEF LastWord
<1>5. CASE Relaunch
  <2>1. Registered' = 0
        BY <1>5 DEF Relaunch, Registered
  <2> QED BY <2>1 DEF LastWord
<1> QED
  BY <1>1, <1>2, <1>3, <1>4, <1>5 DEF Next, refreshData, vars, uiVars, refVars,
     handleShowSearchIcon, textDidChange, didSelectItemAt, handleDismissComment

(***************************************************************************)
(* Once the queues are empty, the list is the newest refresh's own, if it  *)
(* was handed anything: refreshData's closures and observeUser's, which    *)
(* all write MainController.posts, end with the newest one.                *)
(***************************************************************************)
THEOREM FeedNewestRefreshWins == Spec => []NewestRefreshWins
<1>1. Init => LastWord
      BY DEF Init, Registered, LastWord
<1>2. TypeOK /\ LastWord /\ [Next]_vars => LastWord'
      BY LastWordStep
<1>3. LastWord => NewestRefreshWins
      BY DEF LastWord, NewestRefreshWins, Quiet
<1> QED BY <1>1, <1>2, <1>3, FeedRowsAreCurrent, PTL DEF Spec
=============================================================================
