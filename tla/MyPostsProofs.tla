---------------------------- MODULE MyPostsProofs ----------------------------
(***************************************************************************)
(* Proofs about the list of the user's own posts, for any number of posts, *)
(* users, listeners, refreshes, sign-ins and edits.                        *)
(***************************************************************************)
EXTENDS MyPosts, PostsRefProofs, SequenceTheorems

\* A post that has an author.
UserPost == {p \in Post : p.userId \in Users}

\* The listeners and the observers they have made.
ObserversOK ==
    /\ AuthTypeOK(Users \cup {NoUser})
    /\ Len(told) > 0
    /\ observers \in Seq([lis: Nat \ {0}, uid: Users])
    /\ \A r \in DOMAIN observers : observers[r].lis \in DOMAIN told
    /\ registered \in 0 .. Len(observers)

\* Only posts with an author get into the lists, and the table agrees.
ListsOK ==
    /\ newPosts \in Seq(Seq(UserPost))
    /\ Len(newPosts) = Len(told)
    /\ myPost \in Seq(UserPost)
    /\ rows = myPost

\* What an open dialog and an open form hold.
UserDialog == [asked: UserPost, cell: UserPost, row: Nat]

AlertOK ==
    \/ alert = <<>>
    \/ \E d \in UserDialog :
          /\ alert = <<d>>
          /\ d.row # 0 => d.row \in DOMAIN myPost /\ myPost[d.row] = d.cell

FormOK == form = <<>> \/ \E p \in UserPost : form = <<p>>

(***************************************************************************)
(* The inductive invariant for the table and the dialog.                   *)
(***************************************************************************)
Inv == RefInv(registered) /\ ObserversOK /\ ListsOK /\ AlertOK /\ FormOK

-----------------------------------------------------------------------------
\* A list of elements of A is a list of elements of a larger set.
LEMMA SeqMono ==
    ASSUME NEW A, NEW B, A \subseteq B, NEW s \in Seq(A)
    PROVE  s \in Seq(B)
BY SeqDef

\* What a list holds.
LEMMA Element ==
    ASSUME NEW S, NEW s \in Seq(S), NEW i \in DOMAIN s PROVE s[i] \in S
OBVIOUS

\* A one-element list.
LEMMA Single ==
    ASSUME NEW S, NEW x \in S
    PROVE  /\ <<x>> \in Seq(S) /\ Len(<<x>>) = 1 /\ DOMAIN <<x>> = {1}
           /\ <<x>>[1] = x /\ <<x>> # <<>>
OBVIOUS

\* The posts with an author are posts.
LEMMA UserPostType == UserPost \subseteq Post
BY DEF UserPost

\* The inductive invariant implies the type invariant.
LEMMA InvType == Inv => TypeOK
<1> SUFFICES ASSUME Inv PROVE TypeOK
    OBVIOUS
<1>1. newPosts \in Seq(Seq(Post))
  <2>1. Seq(UserPost) \subseteq Seq(Post)
        BY SeqMono, UserPostType
  <2> QED BY <2>1, SeqMono DEF Inv, ListsOK
<1>2. myPost \in Seq(Post) /\ rows \in Seq(Post)
      BY SeqMono, UserPostType DEF Inv, ListsOK
<1>3. alert \in Seq(Dialog) /\ Len(alert) <= 1
  <2>1. CASE alert = <<>>
        BY <2>1
  <2>2. ASSUME NEW d \in UserDialog, alert = <<d>>
        PROVE  alert \in Seq(Dialog) /\ Len(alert) <= 1
    <3>1. d \in Dialog
          BY UserPostType DEF Dialog, UserDialog
    <3> QED BY <2>2, <3>1, Single
  <2> QED BY <2>1, <2>2 DEF Inv, AlertOK
<1>4. form \in Seq(Post) /\ Len(form) <= 1
  <2>1. CASE form = <<>>
        BY <2>1
  <2>2. ASSUME NEW p \in UserPost, form = <<p>>
        PROVE  form \in Seq(Post) /\ Len(form) <= 1
        BY <2>2, UserPostType, Single
  <2> QED BY <2>1, <2>2 DEF Inv, FormOK
<1> QED BY <1>1, <1>2, <1>3, <1>4 DEF Inv, RefInv, ObserversOK, ListsOK, TypeOK

\* The inductive invariant implies what deletePost relies on.
LEMMA InvRows == Inv => DeletesTheRowItShows
<1> SUFFICES ASSUME Inv, alert # <<>>, alert[1].row # 0
             PROVE  /\ alert[1].row \in DOMAIN myPost
                    /\ myPost[alert[1].row] = alert[1].cell
    BY DEF DeletesTheRowItShows, Inv, ListsOK
<1>1. PICK d \in UserDialog :
          /\ alert = <<d>>
          /\ d.row # 0 => d.row \in DOMAIN myPost /\ myPost[d.row] = d.cell
      BY DEF Inv, AlertOK
<1>2. alert[1] = d
      BY <1>1
<1> QED BY <1>1, <1>2

\* The inductive invariant keeps nodes without author off the screen.
LEMMA InvAuthors == Inv => NobodysPostsHaveNoRow
<1> SUFFICES ASSUME Inv PROVE NobodysPostsHaveNoRow
    OBVIOUS
<1>0. \A p \in UserPost : p.userId # NoUser
      BY OwnerAssumption DEF UserPost
<1>1. \A i \in DOMAIN myPost : myPost[i].userId # NoUser
      BY <1>0 DEF Inv, ListsOK
<1>2. \A i \in DOMAIN alert : alert[i].cell.userId # NoUser
      BY <1>0, Single DEF Inv, AlertOK, UserDialog
<1>3. \A i \in DOMAIN form : form[i].userId # NoUser
      BY <1>0, Single DEF Inv, FormOK
<1> QED BY <1>1, <1>2, <1>3 DEF NobodysPostsHaveNoRow

\* The initial states.
LEMMA InvInit == Init => Inv
<1> SUFFICES ASSUME Init PROVE Inv
    OBVIOUS
<1>1. RefInv(registered)
      BY RefInitOK DEF Init
<1>2. told = <<Never>> /\ Len(told) = 1 /\ DOMAIN told = {1}
      /\ told \in Seq((Users \cup {NoUser}) \cup {Never})
      BY Single DEF Init, AuthInit
<1>3. authCalls \in Seq(DOMAIN told)
      BY <1>2, Single DEF Init, AuthInit
<1>4. ObserversOK
      BY <1>2, <1>3, MaxAuthAssumption DEF Init, AuthInit, AuthTypeOK, ObserversOK
<1>5. <<>> \in Seq(UserPost) /\ <<>> \in Seq([lis: Nat \ {0}, uid: Users])
      OBVIOUS
<1>6. newPosts \in Seq(Seq(UserPost)) /\ Len(newPosts) = 1
      BY <1>5, Single DEF Init
<1> QED BY <1>1, <1>2, <1>4, <1>5, <1>6 DEF Init, Inv, ListsOK, AlertOK, FormOK

-----------------------------------------------------------------------------
\* The invariant does not look at /posts beyond RefInv.
LEMMA ScreenUnchanged ==
    ASSUME Inv, RefInv(registered)', UNCHANGED <<authVars, listVars, alert, form>>
    PROVE  Inv'
<1>1. ObserversOK'
      BY DEF Inv, ObserversOK, AuthTypeOK, authVars, listVars
<1>2. ListsOK' /\ AlertOK' /\ FormOK'
      BY DEF Inv, ListsOK, AlertOK, FormOK, authVars, listVars
<1> QED BY <1>1, <1>2 DEF Inv

\* A step of the screen leaves /posts as it is.
LEMMA RefUnchanged ==
    ASSUME RefInv(registered), UNCHANGED <<refVars, registered>>
    PROVE  RefInv(registered)'
BY DEF RefInv, RefTypeOK, EventsUpTo, refVars

\* A sign-in or a sign-out.
LEMMA SetUserStep ==
    ASSUME Inv, NEW u \in Users \cup {NoUser}, SetUser(u),
           UNCHANGED <<refVars, listVars, alert, form>>
    PROVE  Inv'
<1>1. RefInv(registered)'
      BY RefUnchanged DEF Inv, listVars
<1>2. authCalls' \in Seq(DOMAIN told')
  <2>1. [l \in 1 .. Len(told) |-> l] \in Seq(DOMAIN told)
        BY DEF Inv, ObserversOK, AuthTypeOK
  <2> QED BY <2>1 DEF SetUser, Inv, ObserversOK, AuthTypeOK
<1>3. authSteps' \in 0 .. MaxAuth
      BY MaxAuthAssumption DEF SetUser, Inv, ObserversOK, AuthTypeOK
<1>4. ObserversOK'
      BY <1>2, <1>3 DEF Inv, ObserversOK, AuthTypeOK, SetUser, listVars
<1>5. ListsOK' /\ AlertOK' /\ FormOK'
      BY DEF Inv, ListsOK, AlertOK, FormOK, listVars, SetUser
<1> QED BY <1>1, <1>4, <1>5 DEF Inv

\* A listener is called.
LEMMA StateDidChangeStep == ASSUME Inv, StateDidChange PROVE Inv'
<1>1. PICK l \in DOMAIN told :
          /\ CallListener(l)
          /\ observers' =
                IF IsNews(l) /\ currentUser # NoUser
                THEN Append(observers, [lis |-> l, uid |-> currentUser])
                ELSE observers
      BY DEF StateDidChange
<1>2. RefInv(registered)'
      BY RefUnchanged DEF Inv, StateDidChange
<1>3. /\ told \in Seq((Users \cup {NoUser}) \cup {Never})
      /\ currentUser \in Users \cup {NoUser} /\ authCalls \in Seq(DOMAIN told)
      /\ DOMAIN told = 1 .. Len(told)
      BY DEF Inv, ObserversOK, AuthTypeOK
<1>4. /\ told' \in Seq((Users \cup {NoUser}) \cup {Never})
      /\ Len(told') = Len(told) /\ DOMAIN told' = DOMAIN told
      BY <1>1, <1>3 DEF CallListener
<1>5. authCalls' \in Seq(DOMAIN told')
      BY <1>1, <1>3, <1>4 DEF CallListener
<1>6. CASE IsNews(l) /\ currentUser # NoUser
  <2> DEFINE o == [lis |-> l, uid |-> currentUser]
  <2>1. o \in [lis: Nat \ {0}, uid: Users] /\ o.lis \in DOMAIN told'
        BY <1>3, <1>4, <1>6
  <2>2. observers' = Append(observers, o)
        BY <1>1, <1>6
  <2> HIDE DEF o
  <2>3. observers' \in Seq([lis: Nat \ {0}, uid: Users])
        BY <2>1, <2>2 DEF Inv, ObserversOK
  <2>4. \A r \in DOMAIN observers' : observers'[r].lis \in DOMAIN told'
        BY <1>4, <2>1, <2>2 DEF Inv, ObserversOK
  <2>5. registered' \in 0 .. Len(observers')
        BY <2>2 DEF Inv, ObserversOK, StateDidChange
  <2>6. ObserversOK'
        BY <1>1, <1>4, <1>5, <2>3, <2>4, <2>5
        DEF Inv, ObserversOK, AuthTypeOK, CallListener
  <2> QED BY <1>2, <1>4, <2>6 DEF Inv, ListsOK, AlertOK, FormOK, StateDidChange
<1>7. CASE ~(IsNews(l) /\ currentUser # NoUser)
  <2>1. observers' = observers
        BY <1>1, <1>7
  <2>2. ObserversOK'
        BY <1>1, <1>4, <1>5, <2>1
        DEF Inv, ObserversOK, AuthTypeOK, CallListener, StateDidChange
  <2> QED BY <1>2, <1>4, <2>2 DEF Inv, ListsOK, AlertOK, FormOK, StateDidChange
<1> QED BY <1>6, <1>7

\* A refresh adds a listener.
LEMMA refreshDataStep == ASSUME Inv, refreshData PROVE Inv'
<1>1. RefInv(registered)'
      BY RefUnchanged DEF Inv, refreshData
<1>2. /\ told \in Seq((Users \cup {NoUser}) \cup {Never})
      /\ authCalls \in Seq(DOMAIN told)
      /\ told' = Append(told, Never)
      /\ authCalls' = Append(authCalls, Len(told) + 1)
      BY DEF Inv, ObserversOK, AuthTypeOK, refreshData, addStateDidChangeListener
<1>3. /\ told' \in Seq((Users \cup {NoUser}) \cup {Never})
      /\ Len(told') = Len(told) + 1
      /\ DOMAIN told \subseteq DOMAIN told' /\ Len(told) + 1 \in DOMAIN told'
      BY <1>2
<1>4. authCalls' \in Seq(DOMAIN told')
  <2>1. authCalls \in Seq(DOMAIN told')
        BY <1>2, <1>3, SeqMono
  <2> QED BY <1>2, <1>3, <2>1
<1>5. ObserversOK'
      BY <1>3, <1>4
      DEF Inv, ObserversOK, AuthTypeOK, refreshData, addStateDidChangeListener
<1>6. <<>> \in Seq(UserPost)
      OBVIOUS
<1>7. newPosts' \in Seq(Seq(UserPost)) /\ Len(newPosts') = Len(told')
      BY <1>2, <1>3, <1>6 DEF Inv, ListsOK, refreshData
<1> QED BY <1>1, <1>5, <1>7 DEF Inv, ListsOK, AlertOK, FormOK, refreshData

\* An observe call is carried out.
LEMMA RegisterStep == ASSUME Inv, Register PROVE Inv'
<1>1. PICK n \in Nat : n = registered
      BY DEF Inv, ObserversOK
<1>2. registered' = n + 1 /\ observe(n + 1) /\ RefInv(n)
      BY <1>1 DEF Register, Inv
<1>3. RefInv(n + 1)'
      BY <1>2, observeOK
<1>4. RefInv(registered)'
      BY <1>2, <1>3 DEF RefInv, EventsUpTo
<1>5. ObserversOK'
      BY <1>1, <1>2 DEF Inv, ObserversOK, AuthTypeOK, Register, authVars
<1> QED BY <1>4, <1>5 DEF Inv, ListsOK, AlertOK, FormOK, Register, authVars

-----------------------------------------------------------------------------
\* What reloadData does to an open dialog.
LEMMA reloadDataOK ==
    ASSUME AlertOK, reloadData, myPost' \in Seq(UserPost)
    PROVE  rows' = myPost' /\ AlertOK'
<1>1. rows' = myPost'
      BY DEF reloadData
<1>2. CASE alert = <<>>
      BY <1>1, <1>2 DEF reloadData, AlertOK
<1>3. CASE alert # <<>>
  <2>1. PICK d \in UserDialog : alert = <<d>>
        BY <1>3 DEF AlertOK
  <2>2. alert[1] = d
        BY <2>1
  <2>3. CASE alert' = <<[alert[1] EXCEPT !.row = 0]>>
    <3>1. PICK e : e = [d EXCEPT !.row = 0]
          OBVIOUS
    <3>2. e \in UserDialog /\ e.row = 0 /\ alert' = <<e>>
          BY <2>2, <2>3, <3>1 DEF UserDialog
    <3> QED BY <1>1, <3>2 DEF AlertOK
  <2>4. ASSUME NEW j \in DOMAIN myPost',
               alert' = <<[alert[1] EXCEPT !.row = j, !.cell = myPost'[j]]>>
        PROVE  AlertOK'
    <3>1. PICK m \in UserPost : m = myPost'[j] /\ j \in Nat
          OBVIOUS
    <3>2. PICK e : e = [d EXCEPT !.row = j, !.cell = m]
          OBVIOUS
    <3>3. e \in UserDialog /\ e.row = j /\ e.cell = m
          BY <3>1, <3>2 DEF UserDialog
    <3>4. alert' = <<e>>
          BY <2>2, <2>4, <3>1, <3>2
    <3> QED BY <3>1, <3>3, <3>4 DEF AlertOK
  <2>5. AlertOK'
        BY <1>3, <2>3, <2>4 DEF reloadData
  <2> QED BY <1>1, <2>5
<1> QED BY <1>2, <1>3

\* The oldest closure: for which registration, and what it was handed.
LEMMA DeliverTakes ==
    ASSUME Inv, Deliver
    PROVE  /\ Head(events).reg \in DOMAIN observers
           /\ Head(events).reg \in 1 .. registered
           /\ Head(events).post \in Post
           /\ observers[Head(events).reg].lis \in 1 .. Len(told)
           /\ observers[Head(events).reg].uid \in Users
           /\ RefInv(registered)'
<1>1. PICK n \in Nat : n = registered
      BY DEF Inv, ObserversOK
<1>2. RefInv(n) /\ registered' = n
      BY <1>1 DEF Inv, Deliver
<1>3. RefInv(n)' /\ Head(events).reg \in 1 .. n /\ Head(events).post \in Post
      BY <1>2, TakeEventOK DEF Deliver
<1>4. RefInv(registered)'
      BY <1>2, <1>3 DEF RefInv, EventsUpTo
<1>5. Head(events).reg \in DOMAIN observers /\ DOMAIN told = 1 .. Len(told)
      BY <1>1, <1>3 DEF Inv, ObserversOK, AuthTypeOK
<1>6. PICK r \in DOMAIN observers : r = Head(events).reg
      BY <1>5
<1>7. observers[r].lis \in 1 .. Len(told) /\ observers[r].uid \in Users
  <2>1. observers \in Seq([lis: Nat \ {0}, uid: Users])
        BY DEF Inv, ObserversOK
  <2>2. observers[r] \in [lis: Nat \ {0}, uid: Users]
        BY <1>6, <2>1, Element
  <2>3. observers[r].lis \in DOMAIN told
        BY <1>6 DEF Inv, ObserversOK
  <2> QED BY <1>5, <2>2, <2>3
<1> QED BY <1>1, <1>3, <1>4, <1>6, <1>7

\* What the closure does to the lists, by whose it is.
LEMMA DeliverLists ==
    ASSUME Inv, Deliver, NEW p, p = Head(events).post,
           NEW o, o = observers[Head(events).reg]
    PROVE  \/ /\ p.userId # o.uid
              /\ UNCHANGED <<newPosts, myPost, rows, alert>>
           \/ /\ p.userId = o.uid /\ p \in UserPost /\ o.lis = 1
              /\ myPost' \in Sorts(Append(myPost, p))
              /\ myPost' \in Seq(UserPost)
              /\ newPosts' = newPosts
              /\ reloadData
           \/ /\ p.userId = o.uid /\ p \in UserPost /\ o.lis \in 2 .. Len(told)
              /\ newPosts' = [newPosts EXCEPT ![o.lis] = Append(@, p)]
              /\ newPosts'[o.lis] = Append(newPosts[o.lis], p)
              /\ newPosts[o.lis] \in Seq(UserPost)
              /\ myPost' = newPosts'[o.lis]
              /\ reloadData
<1>1. p \in Post /\ o.uid \in Users /\ o.lis \in 1 .. Len(told)
      BY DeliverTakes
<1>2. CASE ~Mine(p, o)
      BY <1>2 DEF Mine, Deliver
<1>3. CASE Mine(p, o) /\ o.lis = 1
  <2>1. p.userId = o.uid /\ p \in UserPost
        BY <1>1, <1>3 DEF Mine, UserPost
  <2>2. fetchPostForCurrentUser(p) /\ reloadData
        BY <1>3 DEF Deliver
  <2>3. Append(myPost, p) \in Seq(UserPost)
        BY <2>1 DEF Inv, ListsOK
  <2>4. myPost' \in Seq(UserPost)
        BY <2>2, <2>3, SortsFacts DEF fetchPostForCurrentUser
  <2> QED BY <1>3, <2>1, <2>2, <2>4 DEF fetchPostForCurrentUser
<1>4. CASE Mine(p, o) /\ o.lis # 1
  <2>1. p.userId = o.uid /\ p \in UserPost
        BY <1>1, <1>4 DEF Mine, UserPost
  <2>2. RefreshClosure(o.lis, p) /\ reloadData
        BY <1>4 DEF Deliver
  <2>3. o.lis \in 2 .. Len(told)
        BY <1>1, <1>4 DEF Inv, ObserversOK, AuthTypeOK
  <2>4. o.lis \in DOMAIN newPosts /\ newPosts[o.lis] \in Seq(UserPost)
        BY <1>1 DEF Inv, ListsOK
  <2>5. newPosts'[o.lis] = Append(newPosts[o.lis], p)
        BY <2>2, <2>4 DEF RefreshClosure
  <2> QED BY <2>1, <2>2, <2>3, <2>4, <2>5 DEF RefreshClosure
<1> QED BY <1>2, <1>3, <1>4

\* The main queue runs a closure.
LEMMA DeliverStep == ASSUME Inv, Deliver PROVE Inv'
<1>1. RefInv(registered)'
      BY DeliverTakes
<1>2. ObserversOK'
      BY DEF Inv, ObserversOK, AuthTypeOK, Deliver, authVars
<1>3. FormOK' /\ told' = told
      BY DEF Inv, FormOK, Deliver, authVars
<1>4. PICK p, o : p = Head(events).post /\ o = observers[Head(events).reg]
      OBVIOUS
<1>5. CASE UNCHANGED <<newPosts, myPost, rows, alert>>
      BY <1>1, <1>2, <1>3, <1>5 DEF Inv, ListsOK, AlertOK
<1>6. CASE myPost' \in Seq(UserPost) /\ newPosts' = newPosts /\ reloadData
      BY <1>1, <1>2, <1>3, <1>6, reloadDataOK DEF Inv, ListsOK
<1>7. CASE /\ p \in UserPost /\ o.lis \in 2 .. Len(told)
           /\ newPosts' = [newPosts EXCEPT ![o.lis] = Append(@, p)]
           /\ newPosts'[o.lis] = Append(newPosts[o.lis], p)
           /\ newPosts[o.lis] \in Seq(UserPost)
           /\ myPost' = newPosts'[o.lis]
           /\ reloadData
  <2>1. Append(newPosts[o.lis], p) \in Seq(UserPost)
        BY <1>7
  <2>2. newPosts' \in Seq(Seq(UserPost)) /\ Len(newPosts') = Len(newPosts)
        BY <1>7, <2>1 DEF Inv, ListsOK
  <2>3. myPost' \in Seq(UserPost)
        BY <1>7, <2>1
  <2> QED BY <1>1, <1>2, <1>3, <1>7, <2>2, <2>3, reloadDataOK DEF Inv, ListsOK
<1> QED BY <1>4, <1>5, <1>6, <1>7, DeliverLists

-----------------------------------------------------------------------------
\* Taking row i from a list keeps the keys of the other posts.
LEMMA RemoveAtFacts ==
    ASSUME NEW s \in Seq(UserPost), NEW i \in DOMAIN s
    PROVE  /\ RemoveAt(s, i) \in Seq(UserPost)
           /\ Keys(s) \ {s[i].key} \subseteq Keys(RemoveAt(s, i))
<1> DEFINE a == SubSeq(s, 1, i - 1)
           b == SubSeq(s, i + 1, Len(s))
<1>1. /\ a \in Seq(UserPost) /\ Len(a) = i - 1
      /\ \A j \in 1 .. i - 1 : a[j] = s[j]
      OBVIOUS
<1>2. /\ b \in Seq(UserPost) /\ Len(b) = Len(s) - i
      /\ \A j \in 1 .. Len(s) - i : b[j] = s[i + j]
      OBVIOUS
<1>3. RemoveAt(s, i) = a \o b
      BY DEF RemoveAt
<1> HIDE DEF a, b
<1>4. ASSUME NEW j \in DOMAIN s, j # i
      PROVE  \E x \in DOMAIN (a \o b) : (a \o b)[x] = s[j]
  <2>1. CASE j < i
    <3>1. j \in DOMAIN (a \o b) /\ (a \o b)[j] = a[j] /\ a[j] = s[j]
          BY <1>1, <1>2, <2>1
    <3> QED BY <3>1
  <2>2. CASE j > i
    <3>1. PICK x \in 1 .. Len(s) - i : x = j - i
          BY <2>2
    <3>2. b[x] = s[j] /\ j - 1 = Len(a) + x
          BY <1>1, <1>2, <3>1
    <3>3. /\ Len(a) + x \in DOMAIN (a \o b)
          /\ (a \o b)[Len(a) + x] = b[x]
          BY <1>1, <1>2
    <3> QED BY <3>2, <3>3
  <2> QED BY <1>4, <2>1, <2>2
<1>5. Keys(s) \ {s[i].key} \subseteq Keys(a \o b)
      BY <1>4 DEF Keys
<1> QED BY <1>1, <1>2, <1>3, <1>5

\* What deletePost does, in terms of the dialog's cell.
LEMMA deletePostLists ==
    ASSUME Inv, deletePost
    PROVE  /\ myPost' \in Seq(UserPost) /\ rows' = myPost' /\ alert' = <<>>
           /\ alert[1].cell \in UserPost
           /\ Keys(myPost) \ {alert[1].cell.key} \subseteq Keys(myPost')
           /\ IF alert[1].cell.key \in DOMAIN db
              THEN removePost(alert[1].cell.key) ELSE UNCHANGED refVars
<1>1. PICK c \in UserPost, i \in Nat :
          /\ alert[1].row = i /\ alert[1].cell = c
          /\ i # 0 => i \in DOMAIN myPost /\ myPost[i] = c
      BY Single DEF Inv, AlertOK, deletePost, UserDialog
<1>2. alert[1].row = i /\ alert[1].cell = c
      BY <1>1
<1>3. alert' = <<>> /\ myPost \in Seq(UserPost) /\ rows = myPost
      BY DEF deletePost, Inv, ListsOK
<1>4. IF c.key \in DOMAIN db THEN removePost(c.key) ELSE UNCHANGED refVars
      BY <1>2 DEF deletePost
<1>5. CASE i = 0
      BY <1>2, <1>3, <1>4, <1>5 DEF deletePost
<1>6. CASE i # 0
  <2>1. myPost' = RemoveAt(myPost, i) /\ rows' = myPost'
        BY <1>2, <1>6 DEF deletePost
  <2> QED BY <1>1, <1>2, <1>3, <1>4, <1>6, <2>1, RemoveAtFacts
<1> QED BY <1>5, <1>6

\* OK in the delete dialog.
LEMMA deletePostStep == ASSUME Inv, deletePost PROVE Inv'
<1>1. PICK n \in Nat : n = registered
      BY DEF Inv, ObserversOK
<1>2. PICK k \in PostIds : k = alert[1].cell.key
      BY deletePostLists DEF UserPost, Post
<1>3. RefInv(n) /\ registered' = n
      BY <1>1 DEF Inv, deletePost
<1>4. removePost(k) => RefInv(n)'
      BY <1>3, removePostOK
<1>5. UNCHANGED refVars => RefInv(n)'
      BY <1>3 DEF RefInv, RefTypeOK, EventsUpTo, refVars
<1>6. RefInv(registered)'
  <2>1. RefInv(n)'
        BY <1>2, <1>4, <1>5, deletePostLists
  <2> QED BY <1>3, <2>1 DEF RefInv, EventsUpTo
<1>7. ObserversOK'
      BY DEF Inv, ObserversOK, AuthTypeOK, deletePost, authVars
<1> QED BY <1>6, <1>7, deletePostLists
        DEF Inv, ListsOK, AlertOK, FormOK, deletePost, authVars

\* The dialog and the form are opened and dismissed.
LEMMA ScreenStep ==
    ASSUME Inv,
           \/ \E i \in DOMAIN rows : deleteIconTapped(i) \/ editIconTapped(i)
           \/ cancelDelete
           \/ handleDismissEdit
    PROVE  Inv'
<1>1. ASSUME NEW i \in DOMAIN rows, deleteIconTapped(i) PROVE Inv'
  <2>1. rows[i] \in UserPost /\ i \in Nat /\ i \in DOMAIN myPost
        /\ myPost[i] = rows[i]
        BY DEF Inv, ListsOK
  <2>2. AlertOK'
    <3>1. PICK d : d = [asked |-> rows[i], cell |-> rows[i], row |-> i]
          OBVIOUS
    <3>2. d \in UserDialog /\ d.row = i /\ d.cell = rows[i]
          BY <2>1, <3>1 DEF UserDialog
    <3>3. alert' = <<d>> /\ myPost' = myPost
          BY <1>1, <3>1 DEF deleteIconTapped, listVars
    <3> QED BY <2>1, <3>2, <3>3 DEF AlertOK
  <2>3. RefInv(registered)'
        BY <1>1, RefUnchanged DEF Inv, deleteIconTapped, listVars
  <2> QED BY <1>1, <2>2, <2>3
          DEF Inv, ObserversOK, AuthTypeOK, ListsOK, FormOK, deleteIconTapped,
              authVars, listVars
<1>2. ASSUME NEW i \in DOMAIN rows, editIconTapped(i) PROVE Inv'
  <2>1. rows[i] \in UserPost
        BY DEF Inv, ListsOK
  <2>2. FormOK'
        BY <1>2, <2>1 DEF FormOK, editIconTapped
  <2>3. RefInv(registered)'
        BY <1>2, RefUnchanged DEF Inv, editIconTapped, listVars
  <2> QED BY <1>2, <2>2, <2>3
          DEF Inv, ObserversOK, AuthTypeOK, ListsOK, AlertOK, editIconTapped,
              authVars, listVars
<1>3. CASE cancelDelete
  <2>1. RefInv(registered)'
        BY <1>3, RefUnchanged DEF Inv, cancelDelete, listVars
  <2> QED BY <1>3, <2>1
          DEF Inv, ObserversOK, AuthTypeOK, ListsOK, FormOK, AlertOK,
              cancelDelete, authVars, listVars
<1>4. CASE handleDismissEdit
  <2>1. RefInv(registered)'
        BY <1>4, RefUnchanged DEF Inv, handleDismissEdit, listVars
  <2> QED BY <1>4, <2>1
          DEF Inv, ObserversOK, AuthTypeOK, ListsOK, FormOK, AlertOK,
              handleDismissEdit, authVars, listVars
<1> QED BY <1>1, <1>2, <1>3, <1>4

\* The form's edit is written.
LEMMA handleEditStep ==
    ASSUME Inv, NEW t \in Titles, NEW d \in Dates, handleEditUserPost(t, d)
    PROVE  Inv'
<1>1. PICK n \in Nat : n = registered
      BY DEF Inv, ObserversOK
<1>2. PICK p \in UserPost : form = <<p>>
      BY DEF Inv, FormOK, handleEditUserPost
<1>3. form[1].key = p.key /\ p.key \in PostIds
      BY <1>2 DEF UserPost, Post
<1>4. RefInv(n) /\ registered' = n /\ editUserPost(p.key, t, d, TRUE, n)
      BY <1>1, <1>3 DEF Inv, handleEditUserPost, listVars
<1>5. RefInv(n)'
      BY <1>3, <1>4, editUserPostOK
<1>6. RefInv(registered)'
      BY <1>4, <1>5 DEF RefInv, EventsUpTo
<1> QED BY <1>6
        DEF Inv, ObserversOK, AuthTypeOK, ListsOK, FormOK, AlertOK,
            handleEditUserPost, authVars, listVars

\* The other changes of /posts.
LEMMA DatabaseStep == ASSUME Inv, DatabaseChanges PROVE Inv'
<1>1. PICK n \in Nat : n = registered
      BY DEF Inv, ObserversOK
<1>2. RefInv(n) /\ registered' = n
      BY <1>1 DEF Inv, DatabaseChanges, listVars
<1>3. PICK k \in PostIds, t \in Titles, d \in Dates :
          \/ uploadPost(k, t, d, TRUE, n)
          \/ uploadPost(k, t, d, FALSE, n)
          \/ editUserPost(k, t, d, FALSE, n)
          \/ removePost(k)
          \/ ChildArrives(k, n)
      BY <1>1 DEF DatabaseChanges
<1>4. RefInv(n)'
      BY <1>2, <1>3, uploadPostOK, editUserPostOK, removePostOK, ChildArrivesOK
<1>5. RefInv(registered)'
      BY <1>2, <1>4 DEF RefInv, EventsUpTo
<1> QED BY <1>5, ScreenUnchanged DEF DatabaseChanges

\* Every step preserves the invariant.
LEMMA InvStep == Inv /\ [Next]_vars => Inv'
<1> SUFFICES ASSUME Inv, [Next]_vars PROVE Inv'
    OBVIOUS
<1>1. CASE UNCHANGED vars
  <2>1. RefInv(registered)'
        BY <1>1, RefUnchanged DEF Inv, vars, listVars
  <2> QED BY <1>1, <2>1, ScreenUnchanged DEF vars
<1>2. ASSUME NEW u \in Users, SignIn(u) PROVE Inv'
      BY <1>2, SetUserStep DEF SignIn
<1>3. CASE SignOut
      BY <1>3, SetUserStep DEF SignOut
<1> QED BY <1>1, <1>2, <1>3, StateDidChangeStep, refreshDataStep, RegisterStep,
           DeliverStep, deletePostStep, ScreenStep, handleEditStep, DatabaseStep
        DEF Next

(***************************************************************************)
(* The controller's variables keep their types: no observer is left        *)
(* without its listener, no closure without its observer.                  *)
(***************************************************************************)
THEOREM MyPostsType == Spec => []TypeOK
BY InvInit, InvStep, InvType, PTL DEF Spec

(***************************************************************************)
(* The row that deletePost takes from the list exists and holds the post   *)
(* it takes from the database, whatever the observers' closures did to the *)
(* list while the dialog was open.                                         *)
(***************************************************************************)
THEOREM MyPostsDeletesItsRow == Spec => []DeletesTheRowItShows
BY InvInit, InvStep, InvRows, PTL DEF Spec

(***************************************************************************)
(* No row, dialog or form ever holds a node without author, for which      *)
(* child("") would raise an exception.                                     *)
(***************************************************************************)
THEOREM MyPostsHaveAuthors == Spec => []NobodysPostsHaveNoRow
BY InvInit, InvStep, InvAuthors, PTL DEF Spec
-----------------------------------------------------------------------------
(***************************************************************************)
(* What makes OwnPostsListed inductive.  A closure that hands registration *)
(* r the post k of user u is on the main queue:                            *)
(***************************************************************************)
Awaits(r, k, u) ==
    \E i \in DOMAIN events : /\ events[i].reg = r
                             /\ events[i].post.key = k
                             /\ events[i].post.userId = u

\* Registration r is listener l's, for user u; the cache holds u's post k.
Serves(r, l, u) == /\ r \in 1 .. registered
                   /\ observers[r].lis = l /\ observers[r].uid = u
Owns(u, k) == k \in view /\ db[k].userId = u

\* Every listener knows the current user, or will be called.
ToldOrCalled ==
    \A l \in DOMAIN told :
        told[l] = currentUser \/ \E i \in DOMAIN authCalls : authCalls[i] = l

\* A listener that was told of a user has an observer for her.
ToldHasObserver ==
    \A l \in DOMAIN told : \A u \in Users :
        told[l] = u => \E r \in DOMAIN observers :
                          observers[r].lis = l /\ observers[r].uid = u

\* Whatever is on the queue or in a refresh's list was posted once.
KeysMinted ==
    /\ \A i \in DOMAIN events : events[i].post.key \in minted
    /\ \A l \in DOMAIN newPosts : Keys(newPosts[l]) \subseteq minted

(***************************************************************************)
(* An own post is in each refresh's list, or on its way to that refresh's  *)
(* observer.  It is in myPost, or on its way to each observer of           *)
(* viewDidLoad's listener, unless some refresh has replaced myPost: then   *)
(* myPost still has all that this refresh's list has and the database too. *)
(***************************************************************************)
RefreshesComplete ==
    \A r \in Nat, l \in Nat, u \in Users, k \in PostIds :
        Serves(r, l, u) /\ l # 1 /\ Owns(u, k)
            => Awaits(r, k, u) \/ k \in Keys(newPosts[l])

FirstComplete ==
    \A r \in Nat, u \in Users, k \in PostIds :
        Serves(r, 1, u) /\ Owns(u, k) => Awaits(r, k, u) \/ k \in Keys(myPost)

ShowsRefresh(l) ==
    \A k \in Keys(newPosts[l]) \cap DOMAIN db :
        db[k].userId \in Users => k \in Keys(myPost)

ListComplete == FirstComplete \/ \E l \in 2 .. Len(told) : ShowsRefresh(l)

Complete == KeysMinted /\ RefreshesComplete /\ ListComplete

\* A closure stays on the queue when others are put behind it.
LEMMA AwaitsAppended ==
    ASSUME NEW r, NEW k, NEW u, events \in Seq(Event), NEW new \in Seq(Event),
           events' = events \o new,
           \/ Awaits(r, k, u)
           \/ \E j \in DOMAIN new : /\ new[j].reg = r
                                    /\ new[j].post.key = k
                                    /\ new[j].post.userId = u
    PROVE  Awaits(r, k, u)'
<1>0. DOMAIN events' = 1 .. Len(events) + Len(new) /\ DOMAIN new = 1 .. Len(new)
      OBVIOUS
<1>1. \A i \in DOMAIN events : i \in DOMAIN events' /\ events'[i] = events[i]
      OBVIOUS
<1>2. \A j \in DOMAIN new : /\ Len(events) + j \in DOMAIN events'
                            /\ events'[Len(events) + j] = new[j]
      BY <1>0
<1> QED BY <1>1, <1>2 DEF Awaits

\* A closure stays on the queue until it is the oldest one and runs.
LEMMA AwaitsTaken ==
    ASSUME NEW r, NEW k, NEW u, events \in Seq(Event), events # <<>>,
           events' = Tail(events), Awaits(r, k, u)
    PROVE  \/ Awaits(r, k, u)'
           \/ /\ Head(events).reg = r /\ Head(events).post.key = k
              /\ Head(events).post.userId = u
<1>1. PICK i \in DOMAIN events : /\ events[i].reg = r
                                 /\ events[i].post.key = k
                                 /\ events[i].post.userId = u
      BY DEF Awaits
<1>2. DOMAIN events = 1 .. Len(events) /\ DOMAIN events' = 1 .. Len(events) - 1
      OBVIOUS
<1>3. CASE i = 1
      BY <1>1, <1>3
<1>4. CASE i # 1
  <2>1. i - 1 \in DOMAIN events' /\ events'[i - 1] = events[i]
        BY <1>2, <1>4
  <2> QED BY <1>1, <2>1 DEF Awaits
<1> QED BY <1>3, <1>4

(***************************************************************************)
(* What an operation on /posts does to the posts that have an author: it   *)
(* raises no event and caches nothing, or it caches one child and tells    *)
(* all n registrations; no post ever used gets an author again, and only a *)
(* child that is deleted leaves the cache.                                 *)
(***************************************************************************)
RefEffect(n) ==
    /\ minted \subseteq minted'
    /\ \A k \in DOMAIN db' : db'[k].userId \in Users =>
           \/ k \notin minted /\ db'[k].userId = Owner[k]
           \/ k \in DOMAIN db /\ db'[k].userId = db[k].userId
    /\ view \cap DOMAIN db' \subseteq view'
    /\ \/ events' = events /\ view' \subseteq view
       \/ \E p \in Post : /\ events' = events \o AddedEvents(p, n)
                          /\ view' = view \cup {p.key} /\ p.key \notin view
                          /\ p.key \in DOMAIN db' /\ db'[p.key] = p
                          /\ p.key \in minted'

\* A child is written.
LEMMA PutChildEffect ==
    ASSUME NEW p \in Post, NEW here \in BOOLEAN, NEW n \in Nat, RefTypeOK,
           PutChild(p, here, n), minted \subseteq minted', p.key \in minted',
           p.key \notin DOMAIN db,
           (p.key \notin minted /\ p.userId = Owner[p.key]) \/ p.userId = NoUser
    PROVE  RefEffect(n)
<1>1. /\ DOMAIN db' = DOMAIN db \cup {p.key} /\ db'[p.key] = p
      /\ \A k \in DOMAIN db : k # p.key => db'[k] = db[k]
      BY DEF PutChild
<1>2. ASSUME NEW k \in DOMAIN db', db'[k].userId \in Users
      PROVE  \/ k \notin minted /\ db'[k].userId = Owner[k]
             \/ k \in DOMAIN db /\ db'[k].userId = db[k].userId
      BY <1>1, <1>2, OwnerAssumption
<1>3. view \subseteq view' /\ p.key \notin view
      BY DEF PutChild, RefTypeOK
<1>4. CASE here
      BY <1>1, <1>2, <1>3, <1>4 DEF PutChild, RefEffect
<1>5. CASE ~here
      BY <1>1, <1>2, <1>3, <1>5 DEF PutChild, RefEffect
<1> QED BY <1>4, <1>5

\* A new post is one whose id was never used.
LEMMA uploadPostEffect ==
    ASSUME NEW k \in PostIds, NEW t \in Titles, NEW d \in Dates,
           NEW here \in BOOLEAN, NEW n \in Nat,
           RefTypeOK, uploadPost(k, t, d, here, n)
    PROVE  RefEffect(n)
<1> DEFINE p == [key |-> k, userId |-> Owner[k], title |-> t, date |-> d]
<1>1. p \in Post
      BY OwnerAssumption, LastDateAssumption DEF Post, Dates
<1>2. p.key = k /\ p.userId = Owner[k] /\ PutChild(p, here, n)
      BY DEF uploadPost
<1> HIDE DEF p
<1>3. k \notin minted /\ minted' = minted \cup {k} /\ k \notin DOMAIN db
      BY DEF uploadPost, RefTypeOK
<1> QED BY <1>1, <1>2, <1>3, PutChildEffect

\* An edit never gives a node an author.
LEMMA editUserPostEffect ==
    ASSUME NEW k \in PostIds, NEW t \in Titles, NEW d \in Dates,
           NEW here \in BOOLEAN, NEW n \in Nat,
           RefTypeOK, editUserPost(k, t, d, here, n)
    PROVE  RefEffect(n)
<1>1. k \in minted /\ minted' = minted
      BY DEF editUserPost
<1>2. CASE k \in DOMAIN db
  <2>1. /\ db' = [db EXCEPT ![k].title = t, ![k].date = UpdatedOn(d)]
        /\ view' = view /\ events' = events
        BY <1>2 DEF editUserPost
  <2>2. DOMAIN db' = DOMAIN db
        BY <2>1
  <2>3. ASSUME NEW x \in DOMAIN db PROVE db'[x].userId = db[x].userId
    <3>1. db[x] \in Post
          BY DEF RefTypeOK
    <3>2. CASE x = k
      <4>1. db'[x] = [[db[k] EXCEPT !.title = t] EXCEPT !.date = UpdatedOn(d)]
            BY <1>2, <2>1, <3>2
      <4> QED BY <3>1, <3>2, <4>1 DEF Post
    <3>3. CASE x # k
          BY <2>1, <3>3
    <3> QED BY <3>2, <3>3
  <2> QED BY <1>1, <2>1, <2>2, <2>3 DEF RefEffect
<1>3. CASE k \notin DOMAIN db
  <2> DEFINE p == [key |-> k, userId |-> NoUser, title |-> t,
                   date |-> UpdatedOn(d)]
  <2>1. p \in Post
        BY LastDateAssumption DEF Post, Dates, UpdatedOn
  <2>2. p.key = k /\ p.userId = NoUser /\ PutChild(p, here, n)
        BY <1>3 DEF editUserPost
  <2> HIDE DEF p
  <2> QED BY <1>1, <1>3, <2>1, <2>2, PutChildEffect
<1> QED BY <1>2, <1>3

\* A deletion raises nothing.
LEMMA removePostEffect ==
    ASSUME NEW k, NEW n, removePost(k) PROVE RefEffect(n)
<1>1. /\ DOMAIN db' = DOMAIN db \ {k}
      /\ \A x \in DOMAIN db' : db'[x] = db[x]
      /\ view' = view \ {k} /\ minted' = minted /\ events' = events
      BY DEF removePost
<1> QED BY <1>1 DEF RefEffect

\* An arriving child is handed out as the database has it.
LEMMA ChildArrivesEffect ==
    ASSUME NEW k \in PostIds, NEW n \in Nat, RefTypeOK, ChildArrives(k, n)
    PROVE  RefEffect(n)
<1>1. db[k] \in Post /\ db[k].key = k /\ k \in DOMAIN db /\ k \in minted
      BY DEF ChildArrives, RefTypeOK
<1> QED BY <1>1 DEF ChildArrives, RefEffect

\* A post that is cached with an author after such a change.
LEMMA EffectAwaits ==
    ASSUME NEW n \in Nat, RefInv(n), RefInv(n)', RefEffect(n),
           NEW r \in 1 .. n, NEW u \in Users, NEW k, Owns(u, k)'
    PROVE  \/ Awaits(r, k, u)'
           \/ Owns(u, k) /\ (Awaits(r, k, u) => Awaits(r, k, u)')
<1>0. events \in Seq(Event)
      BY DEF RefInv, RefTypeOK
<1>1. k \in view' /\ k \in DOMAIN db' /\ db'[k].userId = u
      BY DEF Owns, RefInv, RefTypeOK
<1>2. k \in view => Owns(u, k)
      BY <1>1 DEF RefEffect, Owns, RefInv, RefTypeOK
<1>3. CASE events' = events /\ view' \subseteq view
      BY <1>1, <1>2, <1>3 DEF Awaits
<1>4. ASSUME NEW p \in Post, events' = events \o AddedEvents(p, n),
             view' \subseteq view \cup {p.key}, db'[p.key] = p
      PROVE  \/ Awaits(r, k, u)'
             \/ Owns(u, k) /\ (Awaits(r, k, u) => Awaits(r, k, u)')
  <2>1. AddedEvents(p, n) \in Seq(Event)
        BY AddedEventsType
  <2>2. CASE k = p.key
    <3>1. /\ r \in DOMAIN AddedEvents(p, n)
          /\ AddedEvents(p, n)[r] = [reg |-> r, post |-> p]
          BY DEF AddedEvents
    <3>2. \E j \in DOMAIN AddedEvents(p, n) :
              /\ AddedEvents(p, n)[j].reg = r
              /\ AddedEvents(p, n)[j].post.key = k
              /\ AddedEvents(p, n)[j].post.userId = u
          BY <1>1, <1>4, <2>2, <3>1
    <3> QED BY <1>0, <1>4, <2>1, <3>2, AwaitsAppended
  <2>3. CASE k \in view
        BY <1>0, <1>2, <1>4, <2>1, <2>3, AwaitsAppended
  <2> QED BY <1>1, <1>4, <2>2, <2>3
<1> QED BY <1>3, <1>4 DEF RefEffect

\* Changes of /posts alone keep the lists complete.
LEMMA CompleteEffect ==
    ASSUME Inv, Inv', Complete, RefEffect(registered),
           UNCHANGED <<observers, registered, newPosts, myPost, told>>
    PROVE  Complete'
<1>1. PICK n \in Nat : n = registered
      BY DEF Inv, ObserversOK
<1>2. RefInv(n) /\ RefInv(n)' /\ RefEffect(n) /\ registered' = n
      BY <1>1 DEF Inv, RefInv, EventsUpTo
<1>3. KeysMinted'
  <2>1. \A l \in DOMAIN newPosts' : Keys(newPosts'[l]) \subseteq minted'
        BY <1>2 DEF Complete, KeysMinted, RefEffect
  <2>2. CASE events' = events
        BY <1>2, <2>1, <2>2 DEF Complete, KeysMinted, RefEffect
  <2>3. ASSUME NEW p \in Post, events' = events \o AddedEvents(p, n),
               p.key \in minted'
        PROVE  KeysMinted'
    <3>1. events \in Seq(Event) /\ AddedEvents(p, n) \in Seq(Event)
          BY AddedEventsType, <1>2 DEF RefInv, RefTypeOK
    <3>2. \A j \in DOMAIN AddedEvents(p, n) : AddedEvents(p, n)[j].post = p
          BY DEF AddedEvents
    <3>3. ASSUME NEW i \in DOMAIN events' PROVE events'[i].post.key \in minted'
      <4>1. CASE i \in DOMAIN events
        <5>1. events'[i] = events[i]
              BY <2>3, <3>1, <4>1
        <5> QED BY <1>2, <4>1, <5>1 DEF Complete, KeysMinted, RefEffect
      <4>2. CASE i \notin DOMAIN events
        <5>1. /\ i - Len(events) \in DOMAIN AddedEvents(p, n)
              /\ events'[i] = AddedEvents(p, n)[i - Len(events)]
              BY <2>3, <3>1, <4>2
        <5> QED BY <2>3, <3>2, <5>1
      <4> QED BY <4>1, <4>2
    <3> QED BY <2>1, <3>3 DEF KeysMinted
  <2> QED BY <1>2, <2>2, <2>3 DEF RefEffect
<1>4. RefreshesComplete'
  <2> SUFFICES ASSUME NEW r \in Nat, NEW l \in Nat, NEW u \in Users,
                      NEW k \in PostIds, Serves(r, l, u)', l # 1, Owns(u, k)'
               PROVE  Awaits(r, k, u)' \/ k \in Keys(newPosts'[l])
      BY DEF RefreshesComplete
  <2>1. Serves(r, l, u) /\ r \in 1 .. n
        BY <1>1 DEF Serves
  <2> QED BY <1>2, <2>1, EffectAwaits DEF Complete, RefreshesComplete
<1>5. FirstComplete => FirstComplete'
  <2> SUFFICES ASSUME FirstComplete, NEW r \in Nat, NEW u \in Users,
                      NEW k \in PostIds, Serves(r, 1, u)', Owns(u, k)'
               PROVE  Awaits(r, k, u)' \/ k \in Keys(myPost')
      BY DEF FirstComplete
  <2>1. Serves(r, 1, u) /\ r \in 1 .. n
        BY <1>1 DEF Serves
  <2> QED BY <1>2, <2>1, EffectAwaits DEF FirstComplete
<1>6. ASSUME NEW l \in 2 .. Len(told), ShowsRefresh(l) PROVE ShowsRefresh(l)'
  <2> SUFFICES ASSUME NEW k \in Keys(newPosts[l]) \cap DOMAIN db',
                      db'[k].userId \in Users
               PROVE  k \in Keys(myPost)
      BY DEF ShowsRefresh
  <2>1. k \in minted
        BY DEF Complete, KeysMinted, Inv, ListsOK
  <2>2. k \in DOMAIN db /\ db[k].userId \in Users
        BY <1>2, <2>1 DEF RefEffect
  <2> QED BY <1>6, <2>2 DEF ShowsRefresh
<1>7. ListComplete'
      BY <1>5, <1>6 DEF Complete, ListComplete
<1> QED BY <1>3, <1>4, <1>7 DEF Complete
-----------------------------------------------------------------------------
\* The events that hand registration r every cached post, each once.
Replay(new, r) ==
    /\ \A j \in DOMAIN new : /\ new[j].reg = r /\ new[j].post.key \in view
                             /\ new[j].post = db[new[j].post.key]
    /\ \A i, j \in DOMAIN new : new[i].post.key = new[j].post.key => i = j
    /\ \A k \in view : \E j \in DOMAIN new : new[j].post = db[k]

\* What the registration of an observer does to the queue.
LEMMA observeEffect ==
    ASSUME NEW n \in Nat, RefInv(n), observe(n + 1)
    PROVE  \E new \in Seq(Event) : events' = events \o new /\ Replay(new, n + 1)
<1>1. IsFiniteSet(view) /\ view \subseteq Nat
      BY PostIdsAssumption, FS_Subset DEF RefInv, RefTypeOK
<1>2. PICK s \in InOrder(view) :
          events' = events \o [i \in 1 .. Cardinality(view) |->
                                  [reg |-> n + 1, post |-> db[s[i]]]]
      BY DEF observe
<1>3. Cardinality(view) \in Nat /\ s \in [1 .. Cardinality(view) -> view]
      BY <1>1, InOrderType
<1>4. \A k \in view : \E j \in 1 .. Cardinality(view) : s[j] = k
      BY <1>1, InOrderCovers
<1> DEFINE new == [i \in 1 .. Cardinality(view) |->
                      [reg |-> n + 1, post |-> db[s[i]]]]
<1>5. \A i \in 1 .. Cardinality(view) : db[s[i]] \in Post /\ db[s[i]].key = s[i]
      BY <1>3 DEF RefInv, RefTypeOK
<1>6. new \in Seq(Event)
  <2>1. \A i \in 1 .. Cardinality(view) :
            [reg |-> n + 1, post |-> db[s[i]]] \in Event
        BY <1>5 DEF Event
  <2> QED BY <1>3, <2>1
<1>7. \A j \in DOMAIN new : /\ new[j].reg = n + 1 /\ new[j].post.key \in view
                             /\ new[j].post = db[new[j].post.key]
      BY <1>3, <1>5
<1>9. \A i, j \in DOMAIN new : new[i].post.key = new[j].post.key => i = j
  <2> SUFFICES ASSUME NEW i \in 1 .. Cardinality(view), NEW j \in 1 .. Cardinality(view),
                      s[i] = s[j]
               PROVE  i = j
      BY <1>5
  <2>1. s[i] \in Nat /\ s[j] \in Nat
        BY <1>1, <1>3
  <2>2. (i < j => s[i] < s[j]) /\ (j < i => s[j] < s[i])
        BY <1>2 DEF InOrder
  <2> QED BY <1>3, <2>1, <2>2
<1>8. \A k \in view : \E j \in DOMAIN new : new[j].post = db[k]
      BY <1>4
<1>10. Replay(new, n + 1)
       BY <1>7, <1>8, <1>9 DEF Replay
<1> QED BY <1>2, <1>6, <1>10

\* A new registration is handed every cached post.
LEMMA CompleteRegister ==
    ASSUME Inv, Complete, Register PROVE Complete'
<1>1. PICK n \in Nat : n = registered
      BY DEF Inv, ObserversOK
<1>2. /\ RefInv(n) /\ registered' = n + 1 /\ observe(n + 1)
      /\ events \in Seq(Event)
      BY <1>1 DEF Inv, Register, RefInv, RefTypeOK
<1>3. /\ db' = db /\ view' = view /\ minted' = minted
      /\ observers' = observers /\ newPosts' = newPosts /\ myPost' = myPost
      /\ told' = told
      BY DEF Register, observe, authVars
<1>r. PICK new \in Seq(Event) : events' = events \o new /\ Replay(new, n + 1)
      BY <1>2, observeEffect
<1>4. /\ events' = events \o new
      /\ \A j \in DOMAIN new : new[j].reg = n + 1 /\ new[j].post.key \in view
      /\ \A k \in view : \E j \in DOMAIN new : new[j].post = db[k]
      BY <1>r DEF Replay
<1>5. ASSUME NEW r \in Nat, NEW l \in Nat, NEW u \in Users, NEW k \in PostIds,
             Serves(r, l, u)', Owns(u, k)'
      PROVE  \/ Awaits(r, k, u)'
             \/ /\ Serves(r, l, u) /\ Owns(u, k)
                /\ Awaits(r, k, u) => Awaits(r, k, u)'
  <2>1. r \in 1 .. n + 1 /\ observers[r].lis = l /\ observers[r].uid = u
        /\ Owns(u, k)
        BY <1>2, <1>3, <1>5 DEF Serves, Owns
  <2>2. CASE r = n + 1
    <3>1. db[k].key = k /\ db[k].userId = u /\ k \in view
          BY <1>2, <2>1 DEF Owns, RefInv, RefTypeOK
    <3>2. \E j \in DOMAIN new : /\ new[j].reg = r
                                /\ new[j].post.key = k
                                /\ new[j].post.userId = u
          BY <1>4, <2>2, <3>1
    <3> QED BY <1>2, <1>4, <3>2, AwaitsAppended
  <2>3. CASE r # n + 1
    <3>1. Serves(r, l, u)
          BY <1>1, <2>1, <2>3 DEF Serves
    <3> QED BY <1>2, <1>4, <2>1, <3>1, AwaitsAppended
  <2> QED BY <2>2, <2>3
<1>6. RefreshesComplete'
      BY <1>3, <1>5 DEF Complete, RefreshesComplete
<1>7. FirstComplete => FirstComplete'
      BY <1>3, <1>5 DEF FirstComplete
<1>8. \A l : ShowsRefresh(l) => ShowsRefresh(l)'
      BY <1>3 DEF ShowsRefresh
<1>9. ListComplete'
      BY <1>3, <1>7, <1>8 DEF Complete, ListComplete
<1>10. KeysMinted'
  <2>1. view \subseteq minted
        BY <1>2 DEF RefInv, RefTypeOK
  <2>2. ASSUME NEW i \in DOMAIN events' PROVE events'[i].post.key \in minted
    <3>1. CASE i \in DOMAIN events
      <4>1. events'[i] = events[i]
            BY <1>2, <1>4, <3>1
      <4> QED BY <3>1, <4>1 DEF Complete, KeysMinted
    <3>2. CASE i \notin DOMAIN events
      <4>1. i - Len(events) \in DOMAIN new /\ events'[i] = new[i - Len(events)]
            BY <1>2, <1>4, <3>2
      <4> QED BY <1>4, <2>1, <4>1
    <3> QED BY <3>1, <3>2
  <2> QED BY <1>3, <2>2 DEF Complete, KeysMinted
<1> QED BY <1>6, <1>9, <1>10 DEF Complete

\* The queue loses its oldest closure and nothing else.
LEMMA TakenKeys ==
    ASSUME RefTypeOK, KeysMinted, events # <<>>, events' = Tail(events)
    PROVE  /\ Head(events).post.key \in minted
           /\ \A i \in DOMAIN events' : events'[i].post.key \in minted
<1>1. /\ Len(events) > 0 /\ Head(events) = events[1] /\ 1 \in DOMAIN events
      /\ \A i \in DOMAIN events' : /\ i + 1 \in DOMAIN events
                                   /\ events'[i] = events[i + 1]
      BY DEF RefTypeOK
<1> QED BY <1>1 DEF KeysMinted

\* A closure puts the post it is handed where it was expected.
LEMMA CompleteDeliver ==
    ASSUME Inv, Complete, Deliver PROVE Complete'
<1>0. /\ events \in Seq(Event) /\ events # <<>> /\ events' = Tail(events)
      /\ RefTypeOK
      BY DEF Inv, RefInv, RefTypeOK, Deliver
<1>1. /\ db' = db /\ view' = view /\ minted' = minted /\ told' = told
      /\ observers' = observers /\ registered' = registered
      BY DEF Deliver, authVars
<1>h. PICK h, p, o : /\ h = Head(events).reg
                     /\ p = Head(events).post
                     /\ o = observers[Head(events).reg]
      OBVIOUS
<1>2. /\ h = Head(events).reg /\ h \in 1 .. registered
      /\ p = Head(events).post /\ p \in Post /\ o = observers[h]
      /\ o = observers[Head(events).reg]
      /\ o.lis \in 1 .. Len(told) /\ o.uid \in Users
      BY <1>h, DeliverTakes
<1>3. p.key \in minted /\ \A i \in DOMAIN events' : events'[i].post.key \in minted
      BY <1>0, <1>2, TakenKeys DEF Complete
<1>4. /\ newPosts \in Seq(Seq(UserPost)) /\ Len(newPosts) = Len(told)
      /\ myPost \in Seq(UserPost) /\ myPost \in Seq(Post)
      /\ \A l \in DOMAIN newPosts : newPosts[l] \in Seq(Post)
      /\ Len(told) \in Nat
  <2>1. Seq(UserPost) \subseteq Seq(Post)
        BY SeqMono, UserPostType
  <2> QED BY <2>1 DEF Inv, ListsOK
\* What the closure adds to.
<1>5. ASSUME NEW r \in Nat, NEW l \in Nat, NEW u \in Users, NEW k \in PostIds,
             Serves(r, l, u)', Owns(u, k)'
      PROVE  /\ Serves(r, l, u) /\ Owns(u, k) /\ l \in 1 .. Len(told)
             /\ Awaits(r, k, u) =>
                   \/ Awaits(r, k, u)'
                   \/ p.key = k /\ p.userId = o.uid /\ o.lis = l
  <2>1. Serves(r, l, u) /\ Owns(u, k)
        BY <1>1, <1>5 DEF Serves, Owns
  <2>2. l \in 1 .. Len(told)
        BY <2>1 DEF Serves, Inv, ObserversOK, AuthTypeOK
  <2>3. ASSUME Awaits(r, k, u), ~Awaits(r, k, u)'
        PROVE  p.key = k /\ p.userId = o.uid /\ o.lis = l
    <3>1. h = r /\ p.key = k /\ p.userId = u
          BY <1>0, <1>2, <2>3, AwaitsTaken
    <3> QED BY <1>2, <2>1, <3>1 DEF Serves
  <2> QED BY <2>1, <2>2, <2>3
<1>6. ASSUME NEW l \in 1 .. Len(told)
      PROVE  /\ Keys(newPosts[l]) \subseteq Keys(newPosts'[l])
             /\ Keys(newPosts'[l]) \subseteq minted
             /\ l # 1 /\ o.lis = l /\ p.userId = o.uid
                    => p.key \in Keys(newPosts'[l])
  <2>1. l \in DOMAIN newPosts /\ newPosts[l] \in Seq(Post)
        BY <1>4
  <2>2. Keys(newPosts[l]) \subseteq minted
        BY <2>1 DEF Complete, KeysMinted
  <2>3. CASE newPosts'[l] = newPosts[l] /\ ~(l # 1 /\ o.lis = l /\ p.userId = o.uid)
        BY <2>2, <2>3
  <2>4. CASE newPosts'[l] = Append(newPosts[l], p)
    <3>1. Keys(newPosts[l]) \cup {p.key} \subseteq Keys(newPosts'[l])
          BY <1>2, <2>1, <2>4, KeysAppend
    <3>2. Keys(newPosts'[l]) \subseteq Keys(newPosts[l]) \cup {p.key}
      <4>1. \A i \in DOMAIN Append(newPosts[l], p) :
                \/ i \in DOMAIN newPosts[l] /\ Append(newPosts[l], p)[i] = newPosts[l][i]
                \/ Append(newPosts[l], p)[i] = p
            BY <2>1
      <4> QED BY <2>4, <4>1 DEF Keys
    <3> QED BY <1>3, <2>2, <3>1, <3>2
  <2>5. \/ newPosts'[l] = newPosts[l] /\ ~(l # 1 /\ o.lis = l /\ p.userId = o.uid)
        \/ newPosts'[l] = Append(newPosts[l], p)
    <3>1. CASE UNCHANGED newPosts /\ (p.userId # o.uid \/ o.lis = 1)
          BY <3>1
    <3>2. CASE newPosts' = [newPosts EXCEPT ![o.lis] = Append(@, p)]
      <4>1. CASE l = o.lis
            BY <2>1, <3>2, <4>1
      <4>2. CASE l # o.lis
            BY <2>1, <3>2, <4>2
      <4> QED BY <4>1, <4>2
    <3> QED BY <1>2, <3>1, <3>2, DeliverLists
  <2> QED BY <2>3, <2>4, <2>5
<1>7. KeysMinted'
  <2>1. DOMAIN newPosts' = 1 .. Len(told)
        BY <1>4, <1>2, DeliverLists
  <2> QED BY <1>1, <1>3, <1>6, <2>1 DEF KeysMinted
<1>8. RefreshesComplete'
  <2> SUFFICES ASSUME NEW r \in Nat, NEW l \in Nat, NEW u \in Users,
                      NEW k \in PostIds, Serves(r, l, u)', l # 1, Owns(u, k)'
               PROVE  Awaits(r, k, u)' \/ k \in Keys(newPosts'[l])
      BY DEF RefreshesComplete
  <2>1. /\ l \in 1 .. Len(told)
        /\ Awaits(r, k, u) \/ k \in Keys(newPosts[l])
        BY <1>5 DEF Complete, RefreshesComplete
  <2> QED BY <1>5, <1>6, <2>1
\* The list after the closure.
<1>9. CASE p.userId # o.uid
  <2>1. newPosts' = newPosts /\ myPost' = myPost
        BY <1>2, <1>9, DeliverLists
  <2>2. FirstComplete => FirstComplete'
        BY <1>5, <1>9, <2>1 DEF FirstComplete
  <2>3. \A l : ShowsRefresh(l) => ShowsRefresh(l)'
        BY <1>1, <2>1 DEF ShowsRefresh
  <2> QED BY <1>1, <1>7, <1>8, <2>2, <2>3 DEF Complete, ListComplete
<1>10. CASE p.userId = o.uid /\ o.lis = 1
  <2>1. newPosts' = newPosts /\ myPost' \in Sorts(Append(myPost, p))
        BY <1>2, <1>10, DeliverLists
  <2>2. Keys(myPost) \cup {p.key} \subseteq Keys(myPost')
    <3>1. Append(myPost, p) \in Seq(Post)
          BY <1>2, <1>4
    <3>2. Keys(Append(myPost, p)) \subseteq Keys(myPost')
          BY <2>1, <3>1, SortsFacts
    <3> QED BY <1>2, <1>4, <3>2, KeysAppend
  <2>3. FirstComplete => FirstComplete'
        BY <1>5, <2>2 DEF FirstComplete
  <2>4. \A l : ShowsRefresh(l) => ShowsRefresh(l)'
        BY <1>1, <2>1, <2>2 DEF ShowsRefresh
  <2> QED BY <1>1, <1>7, <1>8, <2>3, <2>4 DEF Complete, ListComplete
<1>11. CASE p.userId = o.uid /\ o.lis # 1
  <2>1. o.lis \in 2 .. Len(told) /\ myPost' = newPosts'[o.lis]
        BY <1>2, <1>11, DeliverLists
  <2>2. PICK l \in 2 .. Len(told) : l = o.lis /\ myPost' = newPosts'[l]
        BY <2>1
  <2>3. ShowsRefresh(l)'
        BY <2>2 DEF ShowsRefresh
  <2> QED BY <1>1, <1>7, <1>8, <2>3 DEF Complete, ListComplete
<1> QED BY <1>9, <1>10, <1>11
-----------------------------------------------------------------------------
\* OK in the delete dialog takes one post from the database and the list.
LEMMA CompleteDelete ==
    ASSUME Inv, Inv', Complete, deletePost PROVE Complete'
<1>1. PICK c \in PostIds : c = alert[1].cell.key
      BY deletePostLists DEF UserPost, Post
<1>2. /\ Keys(myPost) \ {c} \subseteq Keys(myPost')
      /\ IF c \in DOMAIN db THEN removePost(c) ELSE UNCHANGED refVars
      BY <1>1, deletePostLists
<1>3. /\ observers' = observers /\ registered' = registered
      /\ newPosts' = newPosts /\ told' = told
      BY DEF deletePost, authVars
<1>4. /\ DOMAIN db' = DOMAIN db \ {c} /\ \A x \in DOMAIN db' : db'[x] = db[x]
      /\ view' = view \ {c} /\ minted' = minted /\ events' = events
  <2>1. CASE c \in DOMAIN db
        BY <1>2, <2>1 DEF removePost
  <2>2. CASE c \notin DOMAIN db
        BY <1>2, <2>2 DEF refVars, Inv, RefInv, RefTypeOK
  <2> QED BY <2>1, <2>2
<1>5. ASSUME NEW r \in Nat, NEW l \in Nat, NEW u \in Users, NEW k \in PostIds,
             Serves(r, l, u)', Owns(u, k)'
      PROVE  /\ Serves(r, l, u) /\ Owns(u, k) /\ k # c
             /\ Awaits(r, k, u) => Awaits(r, k, u)'
  <2>1. view' \subseteq DOMAIN db'
        BY DEF Inv, RefInv, RefTypeOK
  <2> QED BY <1>3, <1>4, <1>5, <2>1 DEF Serves, Owns, Awaits
<1>6. KeysMinted'
      BY <1>3, <1>4 DEF Complete, KeysMinted
<1>7. RefreshesComplete'
      BY <1>3, <1>5 DEF Complete, RefreshesComplete
<1>8. FirstComplete => FirstComplete'
      BY <1>2, <1>5 DEF FirstComplete
<1>9. \A l : ShowsRefresh(l) => ShowsRefresh(l)'
      BY <1>2, <1>3, <1>4 DEF ShowsRefresh
<1> QED BY <1>3, <1>6, <1>7, <1>8, <1>9 DEF Complete, ListComplete

\* A listener's new observer is not registered yet.
LEMMA CompleteListener ==
    ASSUME Inv, Complete, StateDidChange PROVE Complete'
<1>1. /\ UNCHANGED <<refVars, registered, newPosts, myPost>>
      BY DEF StateDidChange
<1>2. \A r \in 1 .. registered : observers'[r] = observers[r]
      BY DEF StateDidChange, Inv, ObserversOK
<1>3. Len(told') = Len(told)
      BY DEF StateDidChange, CallListener, Inv, ObserversOK, AuthTypeOK
<1>4. \A r, l, u : Serves(r, l, u)' => Serves(r, l, u)
      BY <1>1, <1>2 DEF Serves
<1>5. \A r, k, u : (Owns(u, k)' => Owns(u, k)) /\ (Awaits(r, k, u) => Awaits(r, k, u)')
      BY <1>1 DEF Owns, Awaits, refVars
<1>6. RefreshesComplete'
      BY <1>1, <1>4, <1>5 DEF Complete, RefreshesComplete
<1>7. FirstComplete => FirstComplete'
      BY <1>1, <1>4, <1>5 DEF FirstComplete
<1>8. \A l : ShowsRefresh(l) => ShowsRefresh(l)'
      BY <1>1 DEF ShowsRefresh, refVars
<1>9. KeysMinted'
      BY <1>1 DEF Complete, KeysMinted, refVars
<1> QED BY <1>3, <1>6, <1>7, <1>8, <1>9 DEF Complete, ListComplete

\* A refresh starts with an empty list that nobody is served with yet.
LEMMA CompleteRefresh ==
    ASSUME Inv, Complete, refreshData PROVE Complete'
<1>1. UNCHANGED <<refVars, registered, observers, myPost>>
      BY DEF refreshData
<1>2. /\ newPosts \in Seq(Seq(UserPost)) /\ Len(newPosts) = Len(told)
      /\ Len(told) \in Nat
      /\ newPosts' = Append(newPosts, <<>>) /\ Len(told') = Len(told) + 1
      BY DEF Inv, ListsOK, ObserversOK, AuthTypeOK, refreshData,
             addStateDidChangeListener
<1>3. /\ DOMAIN newPosts' = 1 .. Len(told) + 1
      /\ \A l \in 1 .. Len(told) : newPosts'[l] = newPosts[l]
      /\ newPosts'[Len(told) + 1] = <<>>
      BY <1>2
<1>4. ASSUME NEW r, NEW l, NEW u, Serves(r, l, u)'
      PROVE  Serves(r, l, u) /\ newPosts'[l] = newPosts[l]
  <2>1. Serves(r, l, u)
        BY <1>1, <1>4 DEF Serves
  <2>2. l \in 1 .. Len(told)
        BY <2>1 DEF Serves, Inv, ObserversOK, AuthTypeOK
  <2> QED BY <1>3, <2>1, <2>2
<1>5. \A r, k, u : (Owns(u, k)' => Owns(u, k)) /\ (Awaits(r, k, u) => Awaits(r, k, u)')
      BY <1>1 DEF Owns, Awaits, refVars
<1>6. RefreshesComplete'
      BY <1>4, <1>5 DEF Complete, RefreshesComplete
<1>7. FirstComplete => FirstComplete'
      BY <1>1, <1>4, <1>5 DEF FirstComplete
<1>8. ASSUME NEW l \in 2 .. Len(told), ShowsRefresh(l) PROVE ShowsRefresh(l)'
  <2>1. newPosts'[l] = newPosts[l]
        BY <1>2, <1>3
  <2> QED BY <1>1, <1>8, <2>1 DEF ShowsRefresh, refVars
<1>9. KeysMinted'
  <2>1. Keys(<<>>) = {}
        BY DEF Keys
  <2>2. ASSUME NEW l \in DOMAIN newPosts' PROVE Keys(newPosts'[l]) \subseteq minted'
    <3>1. CASE l = Len(told) + 1
          BY <1>3, <2>1, <3>1
    <3>2. CASE l # Len(told) + 1
      <4>1. l \in DOMAIN newPosts /\ newPosts'[l] = newPosts[l]
            BY <1>2, <1>3, <3>2
      <4> QED BY <1>1, <4>1 DEF Complete, KeysMinted, refVars
    <3> QED BY <3>1, <3>2
  <2> QED BY <1>1, <2>2 DEF Complete, KeysMinted, refVars
<1>10. 2 .. Len(told) \subseteq 2 .. Len(told')
       BY <1>2
<1> QED BY <1>6, <1>7, <1>8, <1>9, <1>10 DEF Complete, ListComplete

\* Every step keeps the lists complete.
LEMMA CompleteStep == Inv /\ Inv' /\ Complete /\ [Next]_vars => Complete'
<1> SUFFICES ASSUME Inv, Inv', Complete, [Next]_vars PROVE Complete'
    OBVIOUS
<1>1. CASE UNCHANGED <<refVars, observers, registered, newPosts, myPost, told>>
  <2>1. RefEffect(registered)
        BY <1>1 DEF RefEffect, refVars
  <2> QED BY <1>1, <2>1, CompleteEffect
<1>2. PICK n \in Nat : n = registered /\ RefTypeOK
      BY DEF Inv, ObserversOK, RefInv
<1>3. CASE DatabaseChanges
  <2>1. PICK k \in PostIds, t \in Titles, d \in Dates :
            \/ uploadPost(k, t, d, TRUE, n)
            \/ uploadPost(k, t, d, FALSE, n)
            \/ editUserPost(k, t, d, FALSE, n)
            \/ removePost(k)
            \/ ChildArrives(k, n)
        BY <1>2, <1>3 DEF DatabaseChanges
  <2>2. RefEffect(n)
        BY <1>2, <2>1, uploadPostEffect, editUserPostEffect, removePostEffect,
           ChildArrivesEffect
  <2> QED BY <1>2, <1>3, <2>2, CompleteEffect
          DEF DatabaseChanges, authVars, listVars
<1>4. ASSUME NEW t \in Titles, NEW d \in Dates, handleEditUserPost(t, d)
      PROVE  Complete'
  <2>1. PICK p \in UserPost : form = <<p>>
        BY <1>4 DEF Inv, FormOK, handleEditUserPost
  <2>2. p.key \in PostIds /\ editUserPost(p.key, t, d, TRUE, n)
        BY <1>2, <1>4, <2>1 DEF handleEditUserPost, UserPost, Post
  <2>3. RefEffect(n)
        BY <1>2, <2>2, editUserPostEffect
  <2> QED BY <1>2, <1>4, <2>3, CompleteEffect
          DEF handleEditUserPost, authVars, listVars
<1> QED BY <1>1, <1>3, <1>4, CompleteRegister, CompleteDeliver, CompleteDelete,
           CompleteListener, CompleteRefresh
        DEF Next, vars, SignIn, SignOut, SetUser, deleteIconTapped, editIconTapped,
            cancelDelete, handleDismissEdit, authVars, listVars

\* Every step keeps the listeners informed.
LEMMA ToldStep ==
    Inv /\ ToldOrCalled /\ ToldHasObserver /\ [Next]_vars
        => ToldOrCalled' /\ ToldHasObserver'
<1> SUFFICES ASSUME Inv, ToldOrCalled, ToldHasObserver, [Next]_vars
             PROVE  ToldOrCalled' /\ ToldHasObserver'
    OBVIOUS
<1>0. /\ told \in Seq((Users \cup {NoUser}) \cup {Never})
      /\ authCalls \in Seq(DOMAIN told)
      /\ observers \in Seq([lis: Nat \ {0}, uid: Users])
      /\ currentUser \in Users \cup {NoUser}
      BY DEF Inv, ObserversOK, AuthTypeOK
<1>1. CASE UNCHANGED <<authVars, observers>>
      BY <1>1 DEF ToldOrCalled, ToldHasObserver, authVars
<1>2. ASSUME NEW u, SetUser(u), observers' = observers
      PROVE  ToldOrCalled' /\ ToldHasObserver'
  <2>1. /\ told' = told
        /\ authCalls' = authCalls \o [l \in 1 .. Len(told) |-> l]
        BY <1>2 DEF SetUser
  <2>2. PICK ls : ls = [l \in 1 .. Len(told) |-> l]
        OBVIOUS
  <2>3. /\ ls \in Seq(Nat) /\ Len(ls) = Len(told) /\ DOMAIN told = 1 .. Len(told)
        /\ \A l \in DOMAIN told : ls[l] = l
        BY <1>0, <2>2
  <2>4. ASSUME NEW l \in DOMAIN told
        PROVE  \E i \in DOMAIN authCalls' : authCalls'[i] = l
    <3>0. authCalls \in Seq(Nat)
      <4>1. DOMAIN told \subseteq Nat
            BY <1>0
      <4> QED BY <1>0, <4>1, SeqMono
    <3>1. /\ Len(authCalls) + l \in DOMAIN authCalls'
          /\ authCalls'[Len(authCalls) + l] = ls[l]
          BY <2>1, <2>2, <2>3, <3>0
    <3> QED BY <2>3, <3>1
  <2> QED BY <1>2, <2>1, <2>4 DEF ToldOrCalled, ToldHasObserver
<1>3. CASE refreshData
  <2>1. /\ told' = Append(told, Never)
        /\ authCalls' = Append(authCalls, Len(told) + 1)
        /\ currentUser' = currentUser /\ observers' = observers
        BY <1>3 DEF refreshData, addStateDidChangeListener
  <2>2. /\ DOMAIN told' = 1 .. Len(told) + 1 /\ DOMAIN told = 1 .. Len(told)
        /\ told'[Len(told) + 1] = Never /\ Len(told) \in Nat
        /\ \A l \in DOMAIN told : told'[l] = told[l]
        BY <1>0, <2>1
  <2>3. /\ DOMAIN authCalls \subseteq DOMAIN authCalls'
        /\ \A i \in DOMAIN authCalls : authCalls'[i] = authCalls[i]
        /\ Len(authCalls) + 1 \in DOMAIN authCalls'
        /\ authCalls'[Len(authCalls) + 1] = Len(told) + 1
        BY <1>0, <2>1
  <2>4. \A l \in DOMAIN told' : l \in DOMAIN told \/ l = Len(told) + 1
        BY <2>2
  <2>5. ToldOrCalled'
        BY <2>1, <2>2, <2>3, <2>4 DEF ToldOrCalled
  <2>6. ToldHasObserver'
        BY <2>1, <2>2, <2>4, MyPostsAssumption DEF ToldHasObserver
  <2> QED BY <2>5, <2>6
<1>4. CASE StateDidChange
  <2>1. PICK l \in DOMAIN told :
            /\ CallListener(l)
            /\ observers' =
                  IF IsNews(l) /\ currentUser # NoUser
                  THEN Append(observers, [lis |-> l, uid |-> currentUser])
                  ELSE observers
        BY <1>4 DEF StateDidChange
  <2>2. /\ authCalls # <<>> /\ l = Head(authCalls) /\ authCalls' = Tail(authCalls)
        /\ currentUser' = currentUser
        /\ DOMAIN told' = DOMAIN told /\ told'[l] = currentUser
        /\ \A m \in DOMAIN told : m # l => told'[m] = told[m]
        BY <1>0, <2>1 DEF CallListener
  <2>3. ASSUME NEW i \in DOMAIN authCalls, authCalls[i] # l
        PROVE  \E j \in DOMAIN authCalls' : authCalls'[j] = authCalls[i]
    <3>1. i # 1
          BY <1>0, <2>2, <2>3
    <3>2. i - 1 \in DOMAIN authCalls' /\ authCalls'[i - 1] = authCalls[i]
          BY <1>0, <2>2, <3>1
    <3> QED BY <3>2
  <2>4. ToldOrCalled'
    <3> SUFFICES ASSUME NEW m \in DOMAIN told, m # l, told[m] # currentUser
                 PROVE  \E j \in DOMAIN authCalls' : authCalls'[j] = m
        BY <2>2 DEF ToldOrCalled
    <3>1. PICK i \in DOMAIN authCalls : authCalls[i] = m
          BY DEF ToldOrCalled
    <3> QED BY <2>3, <3>1
  <2>5. ASSUME NEW r \in DOMAIN observers
        PROVE  r \in DOMAIN observers' /\ observers'[r] = observers[r]
    <3>1. CASE observers' = observers
          BY <3>1
    <3>2. CASE observers' = Append(observers, [lis |-> l, uid |-> currentUser])
          BY <1>0, <3>2
    <3> QED BY <2>1, <3>1, <3>2
  <2>6. ASSUME NEW u \in Users, currentUser = u
        PROVE  \E r \in DOMAIN observers' :
                   observers'[r].lis = l /\ observers'[r].uid = u
    <3>1. CASE told[l] = u
      <4>1. PICK r \in DOMAIN observers :
                observers[r].lis = l /\ observers[r].uid = u
            BY <3>1 DEF ToldHasObserver
      <4> QED BY <2>5, <4>1
    <3>2. CASE told[l] # u
      <4>1. observers' = Append(observers, [lis |-> l, uid |-> currentUser])
            BY <2>1, <2>6, <3>2, OwnerAssumption DEF IsNews
      <4>2. /\ Len(observers) + 1 \in DOMAIN observers'
            /\ observers'[Len(observers) + 1] = [lis |-> l, uid |-> currentUser]
            BY <1>0, <4>1
      <4> QED BY <2>6, <4>2
    <3> QED BY <3>1, <3>2
  <2>7. ToldHasObserver'
    <3> SUFFICES ASSUME NEW m \in DOMAIN told, NEW u \in Users, told'[m] = u
                 PROVE  \E r \in DOMAIN observers' :
                            observers'[r].lis = m /\ observers'[r].uid = u
        BY <2>2 DEF ToldHasObserver
    <3>1. CASE m = l
          BY <2>2, <2>6, <3>1
    <3>2. CASE m # l
      <4>1. PICK r \in DOMAIN observers :
                observers[r].lis = m /\ observers[r].uid = u
            BY <2>2, <3>2 DEF ToldHasObserver
      <4> QED BY <2>5, <4>1
    <3> QED BY <3>1, <3>2
  <2> QED BY <2>4, <2>7
<1>5. ASSUME NEW u \in Users, SignIn(u) PROVE ToldOrCalled' /\ ToldHasObserver'
      BY <1>2, <1>5 DEF SignIn, listVars
<1>6. CASE SignOut
      BY <1>2, <1>6 DEF SignOut, listVars
<1> QED BY <1>1, <1>3, <1>4, <1>5, <1>6
        DEF Next, vars, Register, Deliver, deleteIconTapped, editIconTapped,
            cancelDelete, deletePost, handleEditUserPost, handleDismissEdit,
            DatabaseChanges, listVars

\* A quiet complete list shows every own post.
LEMMA CompleteListed ==
    Inv /\ ToldOrCalled /\ ToldHasObserver /\ Complete => OwnPostsListed
<1> SUFFICES ASSUME Inv, ToldOrCalled, ToldHasObserver, Complete, Quiet,
                    currentUser # NoUser, NEW k \in view,
                    db[k].userId = currentUser
             PROVE  k \in Keys(myPost)
    BY DEF OwnPostsListed
<1>1. PICK u \in Users : u = currentUser
      BY DEF Inv, ObserversOK, AuthTypeOK
<1>2. k \in PostIds /\ k \in DOMAIN db /\ Owns(u, k)
      BY <1>1 DEF Inv, RefInv, RefTypeOK, Owns
<1>3. \A r : ~Awaits(r, k, u)
      BY DEF Quiet, Awaits
<1>4. ASSUME NEW l \in 1 .. Len(told) PROVE \E r \in Nat : Serves(r, l, u)
  <2>1. l \in DOMAIN told /\ told[l] = u
    <3>1. l \in DOMAIN told
          BY DEF Inv, ObserversOK, AuthTypeOK
    <3> QED BY <1>1, <3>1 DEF ToldOrCalled, Quiet
  <2>2. PICK r \in DOMAIN observers : observers[r].lis = l /\ observers[r].uid = u
        BY <2>1 DEF ToldHasObserver
  <2>3. r \in 1 .. registered
        BY DEF Quiet, Inv, ObserversOK
  <2> QED BY <2>2, <2>3 DEF Serves
<1>5. CASE FirstComplete
  <2>1. 1 \in 1 .. Len(told)
        BY DEF Inv, ObserversOK, AuthTypeOK
  <2> QED BY <1>2, <1>3, <1>4, <1>5, <2>1 DEF FirstComplete
<1>6. ASSUME NEW l \in 2 .. Len(told), ShowsRefresh(l) PROVE k \in Keys(myPost)
  <2>1. l \in 1 .. Len(told) /\ l # 1 /\ l \in Nat
        BY DEF Inv, ObserversOK, AuthTypeOK
  <2>2. k \in Keys(newPosts[l])
        BY <1>2, <1>3, <1>4, <2>1 DEF Complete, RefreshesComplete
  <2> QED BY <1>1, <1>2, <1>6, <2>2 DEF ShowsRefresh
<1> QED BY <1>5, <1>6 DEF Complete, ListComplete

(***************************************************************************)
(* Once all is quiet, MyCommentsController's list shows every cached post  *)
(* of the signed-in user, although every refresh and every sign-in leaves  *)
(* one more observer behind and all of them overwrite the one list.        *)
(***************************************************************************)
THEOREM MyPostsAreListed == Spec => []OwnPostsListed
<1>1. Init => ToldOrCalled /\ ToldHasObserver /\ Complete
  <2> SUFFICES ASSUME Init PROVE ToldOrCalled /\ ToldHasObserver /\ Complete
      OBVIOUS
  <2>1. ToldOrCalled
        BY DEF Init, AuthInit, ToldOrCalled
  <2>2. ToldHasObserver
        BY MyPostsAssumption DEF Init, AuthInit, ToldHasObserver
  <2>3. KeysMinted
        BY DEF Init, RefInit, KeysMinted, Keys
  <2>4. RefreshesComplete /\ FirstComplete
        BY DEF Init, RefInit, RefreshesComplete, FirstComplete, Owns
  <2> QED BY <2>1, <2>2, <2>3, <2>4 DEF Complete, ListComplete
<1> QED BY <1>1, InvInit, InvStep, ToldStep, CompleteStep, CompleteListed, PTL
        DEF Spec

-----------------------------------------------------------------------------
(***************************************************************************)
(* What makes ListedOnce inductive.                                        *)
(***************************************************************************)
UniqueKeys(s) == \A i, j \in DOMAIN s : s[i].key = s[j].key => i = j

\* No closure that brings post k with its author is left, and no list has it.
Unseen(k) ==
    /\ \A i \in DOMAIN events :
          events[i].post.key = k => events[i].post.userId \notin Users
    /\ k \notin Keys(myPost)
    /\ \A l \in DOMAIN newPosts : k \notin Keys(newPosts[l])

\* A post that may still enter the cache with its author.
Awaited(k) == k \notin minted \/ (k \in DOMAIN db \ view /\ db[k].userId \in Users)

Fresh == \A k \in PostIds : Awaited(k) => Unseen(k)

\* The author of a post is the user who made its id.
ByOwner(p) == p.userId \in Users => p.userId = Owner[p.key]
Authors ==
    /\ \A k \in DOMAIN db : ByOwner(db[k])
    /\ \A i \in DOMAIN events : ByOwner(events[i].post)

\* The registrations are handed a post in the order of registration, each once.
Clash(e, f) == /\ e.post.key = f.post.key
               /\ e.post.userId \in Users /\ f.post.userId \in Users
InTurn ==
    \A i, j \in DOMAIN events :
        i < j /\ Clash(events[i], events[j]) => events[i].reg < events[j].reg

\* What is in a list was brought by an observer of its author.
Served ==
    /\ \A l \in DOMAIN newPosts : \A k \in Keys(newPosts[l]) :
          \E r \in 1 .. registered : observers[r].lis = l /\ observers[r].uid = Owner[k]
    /\ \A k \in Keys(myPost) : \E r \in 1 .. registered : observers[r].uid = Owner[k]

\* Post k, on its way to an observer of its author, is not in that observer's
\* list; on its way to one of the first listener it is in no list.
Expected(e, o) ==
    e.post.userId = o.uid =>
        /\ e.post.key \notin Keys(newPosts[o.lis])
        /\ o.lis = 1 => /\ e.post.key \notin Keys(myPost)
                        /\ \A l \in DOMAIN newPosts : e.post.key \notin Keys(newPosts[l])
Once ==
    /\ \A i \in DOMAIN events : Expected(events[i], observers[events[i].reg])
    /\ UniqueKeys(myPost) /\ \A l \in DOMAIN newPosts : UniqueKeys(newPosts[l])

Posted == Fresh /\ Authors /\ InTurn /\ Served
ListsOnce == Posted /\ (ToldInOrder => Once)

\* A post that is not in a list is appended to it.
LEMMA UniqueAppend ==
    ASSUME NEW s \in Seq(UserPost), NEW p \in UserPost
    PROVE  /\ Append(s, p) \in Seq(UserPost)
           /\ Keys(Append(s, p)) = Keys(s) \cup {p.key}
           /\ UniqueKeys(s) /\ p.key \notin Keys(s) => UniqueKeys(Append(s, p))
<1> PICK t : t = Append(s, p)
    OBVIOUS
<1>1. /\ t \in Seq(UserPost) /\ DOMAIN t = 1 .. Len(s) + 1 /\ DOMAIN s = 1 .. Len(s)
      /\ Len(s) \in Nat /\ t[Len(s) + 1] = p
      /\ \A i \in 1 .. Len(s) : t[i] = s[i]
      OBVIOUS
<1>2. \A i \in DOMAIN t : i = Len(s) + 1 \/ i \in DOMAIN s
      BY <1>1
<1>3. Keys(t) = Keys(s) \cup {p.key}
  <2>1. \A i \in DOMAIN t : t[i].key \in Keys(s) \cup {p.key}
        BY <1>1, <1>2 DEF Keys
  <2>2. \A i \in DOMAIN s : s[i].key \in Keys(t)
        BY <1>1 DEF Keys
  <2>3. Len(s) + 1 \in DOMAIN t
        BY <1>1
  <2>4. p.key \in Keys(t)
        BY <1>1, <2>3 DEF Keys
  <2> QED BY <2>1, <2>2, <2>4 DEF Keys
<1>4. ASSUME UniqueKeys(s), p.key \notin Keys(s) PROVE UniqueKeys(t)
  <2> SUFFICES ASSUME NEW i \in DOMAIN t, NEW j \in DOMAIN t, t[i].key = t[j].key
               PROVE  i = j
      BY DEF UniqueKeys
  <2>1. \A x \in DOMAIN s : t[x] = s[x] /\ s[x].key # p.key
        BY <1>1, <1>4 DEF Keys
  <2> QED BY <1>1, <1>2, <1>4, <2>1 DEF UniqueKeys
<1> QED BY <1>1, <1>3, <1>4

\* Sorting keeps the keys, each as often as it was there.
LEMMA UniqueSorts ==
    ASSUME NEW s \in Seq(UserPost), NEW r \in Sorts(s)
    PROVE  Keys(r) = Keys(s) /\ (UniqueKeys(s) => UniqueKeys(r))
<1>1. PICK f \in Shuffles(DOMAIN s) : r = [i \in DOMAIN s |-> s[f[i]]]
      BY DEF Sorts
<1>2. DOMAIN s = 1 .. Len(s) /\ Len(s) \in Nat /\ DOMAIN r = DOMAIN s
      BY <1>1
<1>3. f \in [DOMAIN s -> DOMAIN s] /\ \A y \in DOMAIN s : \E x \in DOMAIN s : f[x] = y
      BY ShufflesType
<1>4. \A i \in DOMAIN s : f[i] \in DOMAIN s /\ r[i] = s[f[i]]
      BY <1>1, <1>3
<1>5. Keys(r) = Keys(s)
  <2>1. \A i \in DOMAIN r : r[i].key \in Keys(s)
        BY <1>2, <1>4 DEF Keys
  <2>2. ASSUME NEW y \in DOMAIN s PROVE \E x \in DOMAIN r : r[x].key = s[y].key
    <3>1. PICK x \in DOMAIN s : f[x] = y
          BY <1>3
    <3> QED BY <1>2, <1>4, <3>1
  <2> QED BY <2>1, <2>2 DEF Keys
<1>6. \A i, j \in DOMAIN s : f[i] = f[j] => i = j
  <2>1. IsFiniteSet(DOMAIN s)
        BY <1>2, FS_Interval
  <2>2. f \in Surjection(DOMAIN s, DOMAIN s)
        BY <1>3 DEF Surjection
  <2>3. f \in Injection(DOMAIN s, DOMAIN s)
        BY <2>1, <2>2, FS_Surjection
  <2> QED BY <2>3 DEF Injection, IsInjective
<1> QED BY <1>2, <1>4, <1>5, <1>6 DEF UniqueKeys

\* A row is taken from a list.
LEMMA UniqueRemoveAt ==
    ASSUME NEW s \in Seq(UserPost), NEW i \in DOMAIN s
    PROVE  /\ Keys(RemoveAt(s, i)) \subseteq Keys(s)
           /\ UniqueKeys(s) => UniqueKeys(RemoveAt(s, i))
<1>a. PICK n \in Nat : n = Len(s) /\ DOMAIN s = 1 .. n /\ i \in 1 .. n
      OBVIOUS
<1>b. PICK a : a = SubSeq(s, 1, i - 1)
      OBVIOUS
<1>c. PICK b : b = SubSeq(s, i + 1, Len(s))
      OBVIOUS
<1>1. a \in Seq(UserPost) /\ Len(a) = i - 1 /\ \A j \in 1 .. i - 1 : a[j] = s[j]
      BY <1>b
<1>2. b \in Seq(UserPost) /\ Len(b) = n - i /\ \A j \in 1 .. n - i : b[j] = s[i + j]
      BY <1>a, <1>c
<1>d. PICK t : t = a \o b
      OBVIOUS
<1>3. t = RemoveAt(s, i)
      BY <1>b, <1>c, <1>d DEF RemoveAt
<1>e. /\ DOMAIN t = 1 .. n - 1
      /\ \A j \in 1 .. i - 1 : t[j] = a[j]
      /\ \A j \in 1 .. n - i : t[(i - 1) + j] = b[j]
  <2>1. PICK x \in Nat : x = i - 1 /\ Len(a) = x
        BY <1>a, <1>1
  <2>2. PICK y \in Nat : y = n - i /\ Len(b) = y
        BY <1>a, <1>2
  <2>3. x + y = n - 1
        BY <1>a, <2>1, <2>2
  <2>4. /\ DOMAIN t = 1 .. x + y
        /\ \A j \in 1 .. x : t[j] = a[j]
        /\ \A j \in 1 .. y : t[x + j] = b[j]
    <3>1. a \in Seq(UserPost) /\ b \in Seq(UserPost)
          BY <1>1, <1>2
    <3>2. DOMAIN t = 1 .. x + y /\ \A j \in 1 .. x : t[j] = a[j]
          BY <1>d, <2>1, <2>2, <3>1
    <3>3. \A j \in 1 .. y : t[x + j] = b[j]
          BY <1>d, <2>1, <2>2, <3>1
    <3> QED BY <3>2, <3>3
  <2> QED BY <2>1, <2>2, <2>3, <2>4
<1>4. n \in Nat /\ i \in Nat /\ 1 <= i /\ i <= n /\ DOMAIN s = 1 .. n /\ DOMAIN t = 1 .. n - 1
      BY <1>a, <1>e
<1>5. ASSUME NEW j \in DOMAIN t
      PROVE  \/ j < i /\ j \in DOMAIN s /\ t[j] = s[j]
             \/ j >= i /\ j + 1 \in DOMAIN s /\ t[j] = s[j + 1]
  <2>0. j \in Nat /\ 1 <= j /\ j <= n - 1
    <3>1. j \in 1 .. n - 1
          BY <1>4, <1>5
    <3> QED BY <1>4, <3>1
  <2>1. CASE j < i
    <3>1. j \in 1 .. i - 1 /\ j \in 1 .. n
          BY <1>4, <2>0, <2>1
    <3>2. t[j] = s[j]
          BY <1>1, <1>e, <3>1
    <3> QED BY <1>4, <2>1, <3>1, <3>2
  <2>2. CASE j >= i
    <3>1. PICK x \in Nat : x = (j + 1) - i
          BY <1>4, <2>0, <2>2
    <3>2. x \in 1 .. n - i /\ j = (i - 1) + x /\ j + 1 = i + x
          BY <1>4, <2>0, <2>2, <3>1
    <3>3. t[j] = b[x]
          BY <1>e, <3>2
    <3>4. b[x] = s[i + x]
          BY <1>2, <3>2
    <3>5. j + 1 \in 1 .. n
          BY <1>4, <2>0
    <3> QED BY <1>4, <2>2, <3>2, <3>3, <3>4, <3>5
  <2> QED BY <1>4, <2>0, <2>1, <2>2
<1>6. Keys(t) \subseteq Keys(s)
  <2>1. ASSUME NEW j \in DOMAIN t PROVE \E x \in DOMAIN s : t[j] = s[x]
        BY <1>5, <2>1
  <2> QED BY <2>1 DEF Keys
<1>7. ASSUME UniqueKeys(s), NEW j \in DOMAIN t, NEW k \in DOMAIN t, t[j].key = t[k].key
      PROVE  j = k
  <2>1. j \in Nat /\ k \in Nat /\ i \in Nat
    <3>1. j \in 1 .. n - 1 /\ k \in 1 .. n - 1
          BY <1>4, <1>7
    <3> QED BY <1>4, <3>1
  <2>2. PICK x \in DOMAIN s : t[j] = s[x] /\ ((j < i /\ x = j) \/ (j >= i /\ x = j + 1))
        BY <1>5, <1>7
  <2>3. PICK y \in DOMAIN s : t[k] = s[y] /\ ((k < i /\ y = k) \/ (k >= i /\ y = k + 1))
        BY <1>5, <1>7
  <2>4. x = y
        BY <1>7, <2>2, <2>3 DEF UniqueKeys
  <2> QED BY <2>1, <2>2, <2>3, <2>4
<1> QED BY <1>3, <1>6, <1>7 DEF UniqueKeys

-----------------------------------------------------------------------------
\* No observer is the second of its listener and user, and none of the first
\* listener comes after another one of its user.
LEMMA NotEarlier ==
    ASSUME Inv, ToldInOrder,
           NEW q \in DOMAIN observers, NEW r \in DOMAIN observers, r < q,
           observers[r].uid = observers[q].uid
    PROVE  observers[q].lis # 1 /\ observers[r].lis # observers[q].lis
<1>1. observers \in Seq([lis: Nat \ {0}, uid: Users]) /\ DOMAIN observers \subseteq Nat
      BY DEF Inv, ObserversOK
<1>2. \A x \in DOMAIN observers : observers[x] \in [lis: Nat \ {0}, uid: Users]
      BY <1>1, Element
<1>3. ASSUME NEW x \in DOMAIN observers, x < q, observers[x].lis = observers[q].lis,
             observers[x].uid = observers[q].uid
      PROVE  FALSE
  <2>1. observers[x] = observers[q]
        BY <1>2, <1>3
  <2> QED BY <1>1, <1>3, <2>1 DEF ToldInOrder
<1>4. PICK x \in DOMAIN observers : /\ x <= r /\ observers[x].lis = 1
                                    /\ observers[x].uid = observers[r].uid
  <2>1. r \in Nat /\ DOMAIN observers = 1 .. Len(observers) /\ Len(observers) \in Nat
        BY <1>1
  <2>2. CASE observers[r].lis = 1
        BY <2>1, <2>2
  <2>3. CASE observers[r].lis # 1
    <3>1. PICK y \in 1 .. r : observers[y] = [lis |-> 1, uid |-> observers[r].uid]
          BY <2>3 DEF ToldInOrder
    <3>2. y \in DOMAIN observers /\ y <= r
          BY <2>1, <3>1
    <3> QED BY <3>1, <3>2
  <2> QED BY <2>2, <2>3
<1>5. x < q
      BY <1>1, <1>4
<1> QED BY <1>3, <1>4, <1>5

-----------------------------------------------------------------------------
\* Whose closures are on the queue, and where their lists are.
LEMMA EventFacts ==
    ASSUME Inv, NEW i \in DOMAIN events
    PROVE  /\ events[i] \in Event /\ events[i].reg \in 1 .. registered
           /\ events[i].reg \in DOMAIN observers
           /\ observers[events[i].reg].lis \in DOMAIN newPosts
           /\ observers[events[i].reg].uid \in Users
<1>1. events \in Seq(Event) /\ EventsUpTo(registered)
      BY DEF Inv, RefInv, RefTypeOK
<1>2. events[i] \in Event /\ events[i].reg <= registered
      BY <1>1, Element DEF EventsUpTo
<1>3. /\ registered \in 0 .. Len(observers) /\ DOMAIN observers = 1 .. Len(observers)
      /\ observers \in Seq([lis: Nat \ {0}, uid: Users])
      BY DEF Inv, ObserversOK
<1>4. events[i].reg \in 1 .. registered /\ events[i].reg \in DOMAIN observers
      BY <1>2, <1>3 DEF Event
<1>5. PICK r \in DOMAIN observers : r = events[i].reg
      BY <1>4
<1>6. observers[r] \in [lis: Nat \ {0}, uid: Users]
      BY <1>3, <1>5, Element
<1>7. observers[r].lis \in DOMAIN told /\ DOMAIN told = DOMAIN newPosts
      BY DEF Inv, ObserversOK, ListsOK, AuthTypeOK
<1> QED BY <1>2, <1>4, <1>5, <1>6, <1>7

EventsListed ==
    \A i \in DOMAIN events : /\ observers[events[i].reg].lis \in DOMAIN newPosts
                             /\ observers[events[i].reg].uid \in Users

\* The same after a step.
LEMMA EventFactsAfter == Inv' => EventsListed'
<1>1. Inv => EventsListed
      BY EventFacts DEF EventsListed
<1> QED BY <1>1, PTL

\* What is put behind the queue.
LEMMA Behind ==
    ASSUME NEW s \in Seq(Event), NEW new \in Seq(Event), NEW i \in DOMAIN (s \o new)
    PROVE  \/ i \in DOMAIN s /\ (s \o new)[i] = s[i]
           \/ \E j \in DOMAIN new : i = Len(s) + j /\ (s \o new)[i] = new[j]
<1>1. /\ DOMAIN s = 1 .. Len(s) /\ DOMAIN new = 1 .. Len(new)
      /\ Len(s) \in Nat /\ Len(new) \in Nat
      /\ DOMAIN (s \o new) = 1 .. Len(s) + Len(new)
      OBVIOUS
<1>2. CASE i \in DOMAIN s
      BY <1>2
<1>3. CASE i \notin DOMAIN s
  <2>1. PICK j \in DOMAIN new : j = i - Len(s)
        BY <1>1, <1>3
  <2>2. i = Len(s) + j
        BY <1>1, <2>1
  <2>3. (s \o new)[Len(s) + j] = new[j]
        BY <1>1
  <2> QED BY <2>2, <2>3
<1> QED BY <1>2, <1>3

\* Changes of /posts, and a deletion's row, bring no post a second time.
LEMMA PostedEffect ==
    ASSUME Inv, Inv', Posted, RefEffect(registered),
           UNCHANGED <<observers, registered, newPosts>>,
           Keys(myPost') \subseteq Keys(myPost),
           UniqueKeys(myPost) => UniqueKeys(myPost')
    PROVE  Posted' /\ (Once => Once')
<1>1. PICK n \in Nat : n = registered
      BY DEF Inv, ObserversOK
<1>2. /\ RefEffect(n) /\ registered' = n /\ events \in Seq(Event)
      /\ observers' = observers /\ newPosts' = newPosts
      /\ RefTypeOK /\ RefTypeOK'
      BY <1>1 DEF Inv, RefInv, RefTypeOK
\* What may enter the cache later could do so before.
<1>3. ASSUME NEW k \in DOMAIN db', k \notin view' \/ k \notin view,
             db'[k].userId \in Users
      PROVE  Awaited(k)
      BY <1>2, <1>3 DEF RefEffect, Awaited, RefTypeOK
<1>4. ASSUME NEW k \in PostIds, Awaited(k)' PROVE Unseen(k)
  <2>1. CASE k \notin minted'
    <3>1. Awaited(k)
          BY <1>2, <2>1 DEF RefEffect, Awaited
    <3> QED BY <3>1 DEF Posted, Fresh
  <2>2. CASE k \in DOMAIN db' \ view' /\ db'[k].userId \in Users
        BY <1>3, <2>2 DEF Posted, Fresh
  <2> QED BY <1>4, <2>1, <2>2 DEF Awaited
<1>5. \A k \in DOMAIN db' : ByOwner(db'[k])
  <2> SUFFICES ASSUME NEW k \in DOMAIN db', db'[k].userId \in Users
               PROVE  db'[k].userId = Owner[db'[k].key]
      BY DEF ByOwner
  <2>1. db'[k].key = k
        BY <1>2 DEF RefTypeOK
  <2>2. CASE k \notin minted /\ db'[k].userId = Owner[k]
        BY <2>1, <2>2
  <2>3. CASE k \in DOMAIN db /\ db'[k].userId = db[k].userId
        BY <1>2, <2>1, <2>3 DEF Posted, Authors, ByOwner, RefTypeOK
  <2> QED BY <1>2, <2>2, <2>3 DEF RefEffect
<1>6. Served'
      BY <1>1, <1>2 DEF Posted, Served
<1>7. CASE events' = events
  <2>1. Fresh'
    <3> SUFFICES ASSUME NEW k \in PostIds, Awaited(k)' PROVE Unseen(k)'
        BY DEF Fresh
    <3> QED BY <1>2, <1>4, <1>7 DEF Unseen
  <2>2. Authors' /\ InTurn'
        BY <1>5, <1>7 DEF Posted, Authors, InTurn
  <2>3. Once => Once'
        BY <1>2, <1>7 DEF Once, Expected
  <2> QED BY <1>6, <2>1, <2>2, <2>3 DEF Posted
<1>8. ASSUME NEW p \in Post, events' = events \o AddedEvents(p, n),
             view' = view \cup {p.key}, p.key \notin view,
             p.key \in DOMAIN db', db'[p.key] = p, p.key \in minted'
      PROVE  Posted' /\ (Once => Once')
  <2>0. PICK new : new = AddedEvents(p, n)
        OBVIOUS
  <2>1. /\ new \in Seq(Event) /\ DOMAIN new = 1 .. n
        /\ \A j \in DOMAIN new : new[j].reg = j /\ new[j].post = p
        BY <2>0, AddedEventsType DEF AddedEvents
  <2>2. /\ \A i \in DOMAIN events' :
              \/ i \in DOMAIN events /\ events'[i] = events[i]
              \/ \E j \in DOMAIN new : i = Len(events) + j /\ events'[i] = new[j]
        /\ DOMAIN events = 1 .. Len(events) /\ Len(events) \in Nat
        BY <1>2, <1>8, <2>0, <2>1, Behind
  <2>3. \A i \in DOMAIN events' :
            \/ i \in DOMAIN events /\ events'[i] = events[i]
            \/ /\ events'[i].post = p /\ i > Len(events)
               /\ i = Len(events) + events'[i].reg /\ events'[i].reg \in 1 .. n
    <3> SUFFICES ASSUME NEW i \in DOMAIN events', NEW j \in DOMAIN new,
                        i = Len(events) + j, events'[i] = new[j]
                 PROVE  /\ events'[i].post = p /\ i > Len(events)
                        /\ i = Len(events) + events'[i].reg /\ events'[i].reg \in 1 .. n
        BY <2>2
    <3>1. events'[i].post = p /\ events'[i].reg = j /\ j \in 1 .. n
          BY <2>1
    <3> QED BY <2>2, <3>1
  <2>4. ~Awaited(p.key)' /\ (p.userId \in Users => Awaited(p.key) /\ Unseen(p.key))
    <3>1. ~Awaited(p.key)'
          BY <1>8 DEF Awaited
    <3>2. p.key \in PostIds
          BY <1>8 DEF Post
    <3> QED BY <1>3, <1>8, <3>1, <3>2 DEF Posted, Fresh
  <2>5. Fresh'
    <3> SUFFICES ASSUME NEW k \in PostIds, Awaited(k)' PROVE Unseen(k)'
        BY DEF Fresh
    <3>1. Unseen(k) /\ k # p.key
          BY <1>4, <2>4
    <3> QED BY <1>2, <2>3, <3>1 DEF Unseen
  <2>6. Authors'
    <3>1. ByOwner(p)
          BY <1>5, <1>8
    <3> QED BY <1>5, <2>3, <3>1 DEF Posted, Authors
  <2>7. InTurn'
    <3> SUFFICES ASSUME NEW i \in DOMAIN events', NEW j \in DOMAIN events', i < j,
                        Clash(events'[i], events'[j])
                 PROVE  events'[i].reg < events'[j].reg
        BY DEF InTurn, Clash
    <3>1. CASE i \in DOMAIN events /\ events'[i] = events[i]
      <4>1. CASE j \in DOMAIN events /\ events'[j] = events[j]
            BY <3>1, <4>1 DEF Posted, InTurn
      <4>2. CASE events'[j].post = p
            BY <2>4, <3>1, <4>2 DEF Clash, Unseen
      <4> QED BY <2>3, <4>1, <4>2
    <3>2. CASE i > Len(events) /\ i = Len(events) + events'[i].reg /\ events'[i].reg \in 1 .. n
      <4>1. j \notin DOMAIN events
            BY <2>2, <3>2
      <4>2. j = Len(events) + events'[j].reg /\ events'[j].reg \in 1 .. n
            BY <2>3, <4>1
      <4> QED BY <2>2, <3>2, <4>2
    <3> QED BY <2>3, <3>1, <3>2
  <2>8. ASSUME Once PROVE Once'
    <3>1. ASSUME NEW i \in DOMAIN events'
          PROVE  Expected(events[i], observers[events[i].reg])'
      <4>1. CASE i \in DOMAIN events /\ events'[i] = events[i]
        <5>1. Expected(events[i], observers[events[i].reg])
              BY <2>8, <4>1 DEF Once
        <5> QED BY <1>2, <4>1, <5>1 DEF Expected
      <4>2. CASE events'[i].post = p
        <5>1. observers'[events'[i].reg].uid \in Users /\ observers'[events'[i].reg].lis \in DOMAIN newPosts'
              BY <3>1, EventFactsAfter DEF EventsListed
        <5> QED BY <1>2, <2>4, <4>2, <5>1 DEF Expected, Unseen
      <4> QED BY <2>3, <4>1, <4>2
    <3> QED BY <1>2, <2>8, <3>1 DEF Once
  <2> QED BY <1>6, <2>5, <2>6, <2>7, <2>8 DEF Posted
<1> QED BY <1>2, <1>7, <1>8 DEF RefEffect

-----------------------------------------------------------------------------
\* A new registration is handed each post once, and none that its list has.
LEMMA PostedRegister ==
    ASSUME Inv, Inv', Posted, Register
    PROVE  Posted' /\ (ToldInOrder' => ToldInOrder) /\ (ToldInOrder /\ Once => Once')
<1>1. PICK n \in Nat : n = registered
      BY DEF Inv, ObserversOK
<1>2. /\ RefInv(n) /\ registered' = n + 1 /\ observe(n + 1)
      /\ events \in Seq(Event) /\ RefTypeOK
      BY <1>1 DEF Inv, Register, RefInv, RefTypeOK
<1>3. /\ db' = db /\ view' = view /\ minted' = minted
      /\ observers' = observers /\ newPosts' = newPosts /\ myPost' = myPost
      BY DEF Register, observe
<1>r. PICK new \in Seq(Event) : events' = events \o new /\ Replay(new, n + 1)
      BY <1>2, observeEffect
<1>4. /\ events' = events \o new
      /\ \A j \in DOMAIN new : /\ new[j].reg = n + 1 /\ new[j].post.key \in view
                               /\ new[j].post = db[new[j].post.key]
      /\ \A i, j \in DOMAIN new : new[i].post.key = new[j].post.key => i = j
      BY <1>r DEF Replay
<1>5. /\ \A i \in DOMAIN events' :
            \/ i \in DOMAIN events /\ events'[i] = events[i]
            \/ \E j \in DOMAIN new : i = Len(events) + j /\ events'[i] = new[j]
      /\ DOMAIN events = 1 .. Len(events) /\ Len(events) \in Nat
      /\ DOMAIN new \subseteq Nat \ {0}
      BY <1>2, <1>4, Behind
<1>6. \A i \in DOMAIN events' :
          \/ i \in DOMAIN events /\ events'[i] = events[i]
          \/ /\ i \notin DOMAIN events /\ events'[i].reg = n + 1
             /\ events'[i].post.key \in view
             /\ events'[i].post = db[events'[i].post.key]
  <2>1. \A j \in DOMAIN new : Len(events) + j \notin DOMAIN events
        BY <1>5
  <2> QED BY <1>4, <1>5, <2>1
<1>7. Fresh'
  <2> SUFFICES ASSUME NEW k \in PostIds, Awaited(k)' PROVE Unseen(k)'
      BY DEF Fresh
  <2>1. Awaited(k) /\ Unseen(k)
        BY <1>3 DEF Awaited, Posted, Fresh
  <2>2. k \notin view
        BY <1>2, <2>1 DEF Awaited, RefTypeOK
  <2> QED BY <1>3, <1>6, <2>1, <2>2 DEF Unseen
<1>8. Authors'
  <2>1. \A k \in view : ByOwner(db[k])
        BY <1>2 DEF Posted, Authors, RefTypeOK
  <2> QED BY <1>3, <1>6, <2>1 DEF Posted, Authors
<1>9. InTurn'
  <2> SUFFICES ASSUME NEW i \in DOMAIN events', NEW j \in DOMAIN events', i < j,
                      Clash(events'[i], events'[j])
               PROVE  events'[i].reg < events'[j].reg
      BY DEF InTurn, Clash
  <2>1. CASE j \in DOMAIN events /\ events'[j] = events[j]
    <3>1. i \in DOMAIN events
          BY <1>4, <1>5, <2>1
    <3>2. events'[i] = events[i]
          BY <1>6, <3>1
    <3> QED BY <2>1, <3>1, <3>2 DEF Posted, InTurn
  <2>2. CASE events'[j].reg = n + 1 /\ i \in DOMAIN events /\ events'[i] = events[i]
    <3>1. events[i].reg \in 1 .. registered
          BY <2>2, EventFacts
    <3> QED BY <1>1, <2>2, <3>1
  <2>3. CASE i \notin DOMAIN events /\ j \notin DOMAIN events
    <3>1. PICK x \in DOMAIN new : i = Len(events) + x /\ events'[i] = new[x]
          BY <1>5, <2>3
    <3>2. PICK y \in DOMAIN new : j = Len(events) + y /\ events'[j] = new[y]
          BY <1>5, <2>3
    <3>3. x = y
          BY <1>4, <3>1, <3>2 DEF Clash
    <3> QED BY <1>5, <3>1, <3>2, <3>3
  <2> QED BY <1>6, <2>1, <2>2, <2>3
<1>10. Served'
  <2>1. 1 .. registered \subseteq 1 .. registered'
        BY <1>1, <1>2
  <2> QED BY <1>3, <2>1 DEF Posted, Served
<1>11. ToldInOrder' => ToldInOrder
       BY <1>3 DEF ToldInOrder
<1>12. ASSUME ToldInOrder, Once PROVE Once'
  <2>1. PICK q \in DOMAIN observers : q = n + 1 /\ 1 .. registered \subseteq DOMAIN observers
        BY <1>1, <1>2 DEF Register, Inv, ObserversOK
  <2>2. \A r \in 1 .. registered : r \in DOMAIN observers /\ r < q
        BY <1>1, <2>1
  <2>3. ASSUME NEW i \in DOMAIN events'
        PROVE  Expected(events[i], observers[events[i].reg])'
    <3>1. CASE i \in DOMAIN events /\ events'[i] = events[i]
      <4>1. Expected(events[i], observers[events[i].reg])
            BY <1>12, <3>1 DEF Once
      <4> QED BY <1>3, <3>1, <4>1 DEF Expected
    <3>2. CASE /\ events'[i].reg = n + 1 /\ events'[i].post.key \in view
               /\ events'[i].post = db[events'[i].post.key]
      <4>1. PICK p, o : p = events'[i].post /\ o = observers[q]
            OBVIOUS
      <4>2. PICK k : k = p.key
            OBVIOUS
      <4> SUFFICES ASSUME p.userId = o.uid
                   PROVE  /\ k \notin Keys(newPosts[o.lis])
                          /\ o.lis = 1 => /\ k \notin Keys(myPost)
                                          /\ \A l \in DOMAIN newPosts : k \notin Keys(newPosts[l])
          BY <1>3, <2>1, <3>2, <4>1, <4>2 DEF Expected
      <4>3. o.uid \in Users /\ o.lis \in DOMAIN newPosts
        <5>1. observers'[events'[i].reg].uid \in Users /\ observers'[events'[i].reg].lis \in DOMAIN newPosts'
              BY <2>3, EventFactsAfter DEF EventsListed
        <5> QED BY <1>3, <2>1, <3>2, <4>1, <5>1
      <4>4. Owner[k] = o.uid
        <5>1. ByOwner(p)
              BY <1>8, <2>3, <4>1 DEF Authors
        <5> QED BY <4>2, <4>3, <5>1 DEF ByOwner
      <4>5. \A r \in 1 .. registered : observers[r].uid = Owner[k] =>
                o.lis # 1 /\ observers[r].lis # o.lis
            BY <1>12, <2>2, <4>1, <4>4, NotEarlier
      <4> QED BY <4>3, <4>5 DEF Posted, Served
    <3> QED BY <1>6, <3>1, <3>2
  <2> QED BY <1>3, <1>12, <2>3 DEF Once
<1> QED BY <1>7, <1>8, <1>9, <1>10, <1>11, <1>12 DEF Posted

-----------------------------------------------------------------------------
\* A closure that takes its post takes it once.
LEMMA PostedDeliver ==
    ASSUME Inv, Inv', Posted, Deliver
    PROVE  Posted' /\ (ToldInOrder' => ToldInOrder) /\ (ToldInOrder /\ Once => Once')
<1>0. /\ events \in Seq(Event) /\ events # <<>> /\ events' = Tail(events)
      /\ RefTypeOK
      BY DEF Inv, RefInv, RefTypeOK, Deliver
<1>1. /\ db' = db /\ view' = view /\ minted' = minted
      /\ observers' = observers /\ registered' = registered
      BY DEF Deliver
<1>2. /\ 1 \in DOMAIN events /\ Head(events) = events[1] /\ DOMAIN events \subseteq Nat
      /\ \A i \in DOMAIN events' : /\ i + 1 \in DOMAIN events /\ 1 < i + 1
                                   /\ events'[i] = events[i + 1] /\ i \in Nat
      BY <1>0
<1>3. PICK h, p, o : /\ h = Head(events).reg /\ p = Head(events).post
                     /\ o = observers[Head(events).reg]
      OBVIOUS
<1>4. /\ h = events[1].reg /\ p = events[1].post /\ o = observers[h]
      /\ h \in 1 .. registered /\ h \in DOMAIN observers /\ p \in Post
      /\ o.lis \in DOMAIN newPosts /\ o.uid \in Users
      BY <1>2, <1>3, EventFacts DEF Event
<1>5. PICK k \in PostIds : k = p.key
      BY <1>4 DEF Post
<1>6. /\ newPosts \in Seq(Seq(UserPost)) /\ DOMAIN newPosts = 1 .. Len(told)
      /\ myPost \in Seq(UserPost)
      /\ \A l \in DOMAIN newPosts : newPosts[l] \in Seq(UserPost)
      BY DEF Inv, ListsOK
\* The oldest closure's post is not awaited any more; it is by its owner.
<1>7. ASSUME p.userId = o.uid PROVE ~Awaited(k) /\ Owner[k] = o.uid
  <2>1. ByOwner(p)
        BY <1>2, <1>4 DEF Posted, Authors
  <2>2. ~Unseen(k)
        BY <1>2, <1>4, <1>5, <1>7 DEF Unseen
  <2> QED BY <1>4, <1>5, <1>7, <2>1, <2>2 DEF ByOwner, Posted, Fresh
\* The lists that the closure leaves.
<1>9. /\ DOMAIN newPosts' = DOMAIN newPosts
      /\ \A l \in DOMAIN newPosts : \/ newPosts'[l] = newPosts[l]
                                    \/ /\ l = o.lis /\ p.userId = o.uid
                                       /\ newPosts'[l] = Append(newPosts[l], p)
      /\ \/ myPost' = myPost
         \/ p.userId = o.uid /\ o.lis = 1 /\ myPost' \in Sorts(Append(myPost, p))
         \/ p.userId = o.uid /\ o.lis \in DOMAIN newPosts /\ myPost' = newPosts'[o.lis]
  <2>1. CASE UNCHANGED <<newPosts, myPost>>
        BY <2>1
  <2>2. CASE /\ p.userId = o.uid /\ o.lis = 1 /\ myPost' \in Sorts(Append(myPost, p))
             /\ newPosts' = newPosts
        BY <2>2
  <2>3. CASE /\ p.userId = o.uid /\ newPosts' = [newPosts EXCEPT ![o.lis] = Append(@, p)]
             /\ myPost' = newPosts'[o.lis]
    <3>1. DOMAIN newPosts' = DOMAIN newPosts
          BY <1>6, <2>3
    <3>2. \A l \in DOMAIN newPosts :
              newPosts'[l] = IF l = o.lis THEN Append(newPosts[l], p) ELSE newPosts[l]
          BY <1>6, <2>3
    <3> QED BY <1>4, <2>3, <3>1, <3>2
  <2> QED BY <1>3, <2>1, <2>2, <2>3, DeliverLists
<1>10. p.userId = o.uid => p \in UserPost
       BY <1>4 DEF UserPost
<1>11. ASSUME NEW l \in DOMAIN newPosts
       PROVE  /\ \A x \in Keys(newPosts'[l]) :
                    x \in Keys(newPosts[l]) \/ (x = k /\ l = o.lis /\ p.userId = o.uid)
              /\ UniqueKeys(newPosts[l]) /\ (p.userId = o.uid => k \notin Keys(newPosts[o.lis]))
                    => UniqueKeys(newPosts'[l])
  <2>1. CASE newPosts'[l] = newPosts[l]
        BY <2>1
  <2>2. CASE l = o.lis /\ p.userId = o.uid /\ newPosts'[l] = Append(newPosts[l], p)
    <3>1. PICK s \in Seq(UserPost) : s = newPosts[l]
          BY <1>6
    <3>2. /\ Keys(Append(s, p)) = Keys(s) \cup {k}
          /\ UniqueKeys(s) /\ k \notin Keys(s) => UniqueKeys(Append(s, p))
          BY <1>5, <1>10, <2>2, UniqueAppend
    <3> QED BY <2>2, <3>1, <3>2
  <2> QED BY <1>9, <2>1, <2>2
<1>12. /\ \A x \in Keys(myPost') :
             \/ x \in Keys(myPost)
             \/ x = k /\ p.userId = o.uid
             \/ x \in Keys(newPosts[o.lis])
       /\ /\ UniqueKeys(myPost) /\ \A l \in DOMAIN newPosts : UniqueKeys(newPosts'[l])
          /\ p.userId = o.uid /\ o.lis = 1 => k \notin Keys(myPost)
          => UniqueKeys(myPost')
  <2>1. CASE myPost' = myPost
        BY <2>1
  <2>2. CASE p.userId = o.uid /\ o.lis = 1 /\ myPost' \in Sorts(Append(myPost, p))
    <3>1. /\ Append(myPost, p) \in Seq(UserPost)
          /\ Keys(Append(myPost, p)) = Keys(myPost) \cup {k}
          /\ UniqueKeys(myPost) /\ k \notin Keys(myPost) => UniqueKeys(Append(myPost, p))
          BY <1>5, <1>6, <1>10, <2>2, UniqueAppend
    <3>2. /\ Keys(myPost') = Keys(Append(myPost, p))
          /\ UniqueKeys(Append(myPost, p)) => UniqueKeys(myPost')
          BY <2>2, <3>1, UniqueSorts
    <3> QED BY <2>2, <3>1, <3>2
  <2>3. CASE p.userId = o.uid /\ myPost' = newPosts'[o.lis]
        BY <1>4, <1>11, <2>3
  <2> QED BY <1>9, <2>1, <2>2, <2>3
<1>13. Fresh'
  <2> SUFFICES ASSUME NEW x \in PostIds, Awaited(x)' PROVE Unseen(x)'
      BY DEF Fresh
  <2>1. Awaited(x) /\ Unseen(x)
        BY <1>1 DEF Awaited, Posted, Fresh
  <2>2. p.userId = o.uid => x # k
        BY <1>7, <2>1
  <2>3. x \notin Keys(myPost') /\ \A l \in DOMAIN newPosts' : x \notin Keys(newPosts'[l])
        BY <1>4, <1>9, <1>11, <1>12, <2>1, <2>2 DEF Unseen
  <2>4. \A i \in DOMAIN events' : events'[i].post.key = x => events'[i].post.userId \notin Users
        BY <1>2, <2>1 DEF Unseen
  <2> QED BY <2>3, <2>4 DEF Unseen
<1>14. Authors'
       BY <1>1, <1>2 DEF Posted, Authors
<1>15. InTurn'
  <2> SUFFICES ASSUME NEW i \in DOMAIN events', NEW j \in DOMAIN events', i < j,
                      Clash(events'[i], events'[j])
               PROVE  events'[i].reg < events'[j].reg
      BY DEF InTurn, Clash
  <2>1. i + 1 < j + 1
        BY <1>2
  <2> QED BY <1>2, <2>1 DEF Posted, InTurn
<1>16. Served'
  <2>1. ASSUME NEW l \in DOMAIN newPosts', NEW x \in Keys(newPosts'[l])
        PROVE  \E r \in 1 .. registered : observers[r].lis = l /\ observers[r].uid = Owner[x]
    <3>1. CASE x \in Keys(newPosts[l])
          BY <1>9, <3>1 DEF Posted, Served
    <3>2. CASE x = k /\ l = o.lis /\ p.userId = o.uid
          BY <1>4, <1>7, <3>2
    <3> QED BY <1>9, <1>11, <2>1, <3>1, <3>2
  <2>2. ASSUME NEW x \in Keys(myPost')
        PROVE  \E r \in 1 .. registered : observers[r].uid = Owner[x]
    <3>1. CASE x \in Keys(myPost)
          BY <3>1 DEF Posted, Served
    <3>2. CASE x = k /\ p.userId = o.uid
          BY <1>4, <1>7, <3>2
    <3>3. CASE x \in Keys(newPosts[o.lis])
          BY <1>4, <3>3 DEF Posted, Served
    <3> QED BY <1>12, <2>2, <3>1, <3>2, <3>3
  <2> QED BY <1>1, <2>1, <2>2 DEF Served
<1>17. ToldInOrder' => ToldInOrder
       BY <1>1 DEF ToldInOrder
<1>18. ASSUME ToldInOrder, Once PROVE Once'
  <2>1. ASSUME p.userId = o.uid
        PROVE  k \notin Keys(newPosts[o.lis]) /\ (o.lis = 1 => k \notin Keys(myPost))
    <3>1. Expected(events[1], observers[events[1].reg])
          BY <1>2, <1>18 DEF Once
    <3> QED BY <1>4, <1>5, <2>1, <3>1 DEF Expected
  <2>2. ASSUME NEW i \in DOMAIN events'
        PROVE  Expected(events[i], observers[events[i].reg])'
    <3>1. PICK j \in DOMAIN events : j = i + 1 /\ events'[i] = events[j] /\ 1 < j
          BY <1>2, <2>2
    <3>2. PICK e, q, x : e = events[j] /\ q = e.reg /\ x = e.post.key
          OBVIOUS
    <3>3. q \in DOMAIN observers /\ observers[q].uid \in Users /\ observers[q].lis \in DOMAIN newPosts
          BY <3>2, EventFacts
    <3> SUFFICES ASSUME e.post.userId = observers[q].uid
                 PROVE  /\ x \notin Keys(newPosts'[observers[q].lis])
                        /\ observers[q].lis = 1 =>
                              /\ x \notin Keys(myPost')
                              /\ \A l \in DOMAIN newPosts' : x \notin Keys(newPosts'[l])
        BY <1>1, <3>1, <3>2 DEF Expected
    <3>4. /\ x \notin Keys(newPosts[observers[q].lis])
          /\ observers[q].lis = 1 => /\ x \notin Keys(myPost)
                                     /\ \A l \in DOMAIN newPosts : x \notin Keys(newPosts[l])
      <4>1. Expected(events[j], observers[events[j].reg])
            BY <1>18 DEF Once
      <4> QED BY <3>2, <4>1 DEF Expected
    <3>5. ASSUME p.userId = o.uid, x = k
          PROVE  observers[q].lis # 1 /\ o.lis # observers[q].lis
      <4>1. h < q
        <5>1. Clash(events[1], events[j])
          <6>1. ByOwner(events[j].post)
                BY DEF Posted, Authors
          <6> QED BY <1>4, <1>5, <3>2, <3>3, <3>5 DEF Clash
        <5> QED BY <1>2, <1>4, <3>1, <3>2, <5>1 DEF Posted, InTurn
      <4>2. observers[q].uid = Owner[k]
        <5>1. ByOwner(events[j].post)
              BY DEF Posted, Authors
        <5> QED BY <3>2, <3>3, <3>5, <5>1 DEF ByOwner
      <4> QED BY <1>4, <1>7, <1>18, <3>3, <3>5, <4>1, <4>2, NotEarlier
    <3> QED BY <1>4, <1>9, <1>11, <1>12, <3>3, <3>4, <3>5
  <2>3. \A l \in DOMAIN newPosts : UniqueKeys(newPosts'[l])
        BY <1>11, <1>18, <2>1 DEF Once
  <2>4. UniqueKeys(myPost')
        BY <1>12, <1>18, <2>1, <2>3 DEF Once
  <2> QED BY <1>9, <2>2, <2>3, <2>4 DEF Once
<1> QED BY <1>13, <1>14, <1>15, <1>16, <1>17, <1>18 DEF Posted

-----------------------------------------------------------------------------
\* New observers and new refreshes take part in nothing yet.
LEMMA PostedKept ==
    ASSUME Inv, Posted, UNCHANGED <<refVars, registered, myPost>>,
           \A r \in 1 .. registered : observers'[r] = observers[r],
           DOMAIN newPosts \subseteq DOMAIN newPosts',
           \A l \in DOMAIN newPosts' : IF l \in DOMAIN newPosts
                                       THEN newPosts'[l] = newPosts[l]
                                       ELSE newPosts'[l] = <<>>
    PROVE  Posted' /\ (Once => Once')
<1>1. /\ db' = db /\ view' = view /\ minted' = minted /\ events' = events
      /\ registered' = registered /\ myPost' = myPost
      BY DEF refVars
<1>2. Keys(<<>>) = {} /\ UniqueKeys(<<>>)
      BY DEF Keys, UniqueKeys
<1>3. \A l \in DOMAIN newPosts' : \A x : x \in Keys(newPosts'[l]) =>
          l \in DOMAIN newPosts /\ x \in Keys(newPosts[l])
      BY <1>2
<1>4. Fresh'
  <2> SUFFICES ASSUME NEW k \in PostIds, Awaited(k)' PROVE Unseen(k)'
      BY DEF Fresh
  <2>1. Unseen(k)
        BY <1>1 DEF Awaited, Posted, Fresh
  <2> QED BY <1>1, <1>3, <2>1 DEF Unseen
<1>5. Authors' /\ InTurn'
      BY <1>1 DEF Posted, Authors, InTurn
<1>6. Served'
      BY <1>1, <1>3 DEF Posted, Served
<1>7. ASSUME Once PROVE Once'
  <2>1. ASSUME NEW i \in DOMAIN events
        PROVE  Expected(events[i], observers[events[i].reg])'
    <3>1. PICK o : o = observers[events[i].reg]
          OBVIOUS
    <3>2. observers'[events[i].reg] = o /\ o.lis \in DOMAIN newPosts
          BY <2>1, <3>1, EventFacts
    <3>3. Expected(events[i], o)
          BY <1>7, <2>1, <3>1 DEF Once
    <3>4. newPosts'[o.lis] = newPosts[o.lis]
          BY <3>2
    <3> QED BY <1>1, <1>3, <3>2, <3>3, <3>4 DEF Expected
  <2>2. \A l \in DOMAIN newPosts' : UniqueKeys(newPosts'[l])
        BY <1>2, <1>7 DEF Once
  <2> QED BY <1>1, <1>7, <2>1, <2>2 DEF Once
<1> QED BY <1>4, <1>5, <1>6, <1>7 DEF Posted

\* Every step hands out each post once.
LEMMA ListsOnceStep == Inv /\ Inv' /\ ListsOnce /\ [Next]_vars => ListsOnce'
<1> SUFFICES ASSUME Inv, Inv', ListsOnce, [Next]_vars
             PROVE  Posted' /\ (ToldInOrder' => Once')
    BY DEF ListsOnce
<1>0. Posted /\ (ToldInOrder => Once)
      BY DEF ListsOnce
<1>s. ASSUME RefEffect(registered), UNCHANGED <<observers, registered, newPosts>>,
             Keys(myPost') \subseteq Keys(myPost),
             UniqueKeys(myPost) => UniqueKeys(myPost')
      PROVE  Posted' /\ (ToldInOrder' => Once')
  <2>1. Posted' /\ (Once => Once')
        BY <1>0, <1>s, PostedEffect
  <2>2. ToldInOrder' => ToldInOrder
        BY <1>s DEF ToldInOrder
  <2> QED BY <1>0, <2>1, <2>2
<1>1. CASE UNCHANGED <<refVars, observers, registered, newPosts, myPost>>
  <2>1. RefEffect(registered)
        BY <1>1 DEF RefEffect, refVars
  <2> QED BY <1>1, <1>s, <2>1
<1>2. PICK n \in Nat : n = registered /\ RefTypeOK
      BY DEF Inv, ObserversOK, RefInv
<1>3. CASE DatabaseChanges
  <2>1. PICK k \in PostIds, t \in Titles, d \in Dates :
            \/ uploadPost(k, t, d, TRUE, n)
            \/ uploadPost(k, t, d, FALSE, n)
            \/ editUserPost(k, t, d, FALSE, n)
            \/ removePost(k)
            \/ ChildArrives(k, n)
        BY <1>2, <1>3 DEF DatabaseChanges
  <2>2. RefEffect(n)
        BY <1>2, <2>1, uploadPostEffect, editUserPostEffect, removePostEffect,
           ChildArrivesEffect
  <2> QED BY <1>2, <1>3, <1>s, <2>2 DEF DatabaseChanges, listVars
<1>4. ASSUME NEW t \in Titles, NEW d \in Dates, handleEditUserPost(t, d)
      PROVE  Posted' /\ (ToldInOrder' => Once')
  <2>1. PICK p \in UserPost : form = <<p>>
        BY <1>4 DEF Inv, FormOK, handleEditUserPost
  <2>2. p.key \in PostIds /\ editUserPost(p.key, t, d, TRUE, n)
        BY <1>2, <1>4, <2>1 DEF handleEditUserPost, UserPost, Post
  <2>3. RefEffect(n)
        BY <1>2, <2>2, editUserPostEffect
  <2> QED BY <1>2, <1>4, <1>s, <2>3 DEF handleEditUserPost, listVars
<1>5. CASE deletePost
  <2>1. PICK c : c = alert[1].cell.key
        OBVIOUS
  <2>2. IF c \in DOMAIN db THEN removePost(c) ELSE UNCHANGED refVars
        BY <1>5, <2>1 DEF deletePost
  <2>3. RefEffect(registered)
    <3>1. UNCHANGED refVars => RefEffect(registered)
          BY DEF RefEffect, refVars
    <3> QED BY <2>2, <3>1, removePostEffect
  <2>4. myPost' = myPost \/ \E i \in DOMAIN myPost : myPost' = RemoveAt(myPost, i)
        BY <1>5, InvRows DEF deletePost, DeletesTheRowItShows
  <2>5. myPost \in Seq(UserPost)
        BY DEF Inv, ListsOK
  <2>6. /\ Keys(myPost') \subseteq Keys(myPost)
        /\ UniqueKeys(myPost) => UniqueKeys(myPost')
        BY <2>4, <2>5, UniqueRemoveAt
  <2> QED BY <1>5, <1>s, <2>3, <2>6 DEF deletePost
<1>6. CASE StateDidChange
  <2>1. UNCHANGED <<refVars, registered, myPost, newPosts>>
        BY <1>6 DEF StateDidChange
  <2>2. /\ DOMAIN observers \subseteq DOMAIN observers'
        /\ \A r \in DOMAIN observers : observers'[r] = observers[r]
        /\ 1 .. registered \subseteq DOMAIN observers
        BY <1>6 DEF StateDidChange, Inv, ObserversOK
  <2>3. Posted' /\ (Once => Once')
        BY <1>0, <2>1, <2>2, PostedKept
  <2>4. ToldInOrder' => ToldInOrder
    <3>1. observers \in Seq([lis: Nat \ {0}, uid: Users])
          BY DEF Inv, ObserversOK
    <3>2. \A q \in DOMAIN observers : 1 .. q \subseteq DOMAIN observers
          BY <3>1
    <3> QED BY <2>2, <3>2 DEF ToldInOrder
  <2> QED BY <1>0, <2>3, <2>4
<1>7. CASE refreshData
  <2>1. /\ UNCHANGED <<refVars, registered, myPost, observers>>
        /\ newPosts \in Seq(Seq(UserPost)) /\ newPosts' = Append(newPosts, <<>>)
        BY <1>7 DEF refreshData, Inv, ListsOK
  <2>2. /\ DOMAIN newPosts \subseteq DOMAIN newPosts'
        /\ \A l \in DOMAIN newPosts' : IF l \in DOMAIN newPosts
                                       THEN newPosts'[l] = newPosts[l]
                                       ELSE newPosts'[l] = <<>>
        BY <2>1
  <2>3. Posted' /\ (Once => Once')
        BY <1>0, <2>1, <2>2, PostedKept
  <2>4. ToldInOrder' => ToldInOrder
        BY <2>1 DEF ToldInOrder
  <2> QED BY <1>0, <2>3, <2>4
<1>8. CASE Register
      BY <1>0, <1>8, PostedRegister
<1>9. CASE Deliver
      BY <1>0, <1>9, PostedDeliver
<1> QED BY <1>1, <1>3, <1>4, <1>5, <1>6, <1>7, <1>8, <1>9
        DEF Next, vars, SignIn, SignOut, deleteIconTapped, editIconTapped,
            cancelDelete, handleDismissEdit, listVars

(***************************************************************************)
(* As long as no listener was told of the same user twice, and             *)
(* viewDidLoad's of each user before any refresh's, the list shows each    *)
(* post once at every moment, although every refresh and every sign-in     *)
(* leaves observers behind that are all handed every post.                 *)
(***************************************************************************)
THEOREM MyPostsListOnce == Spec => []ListedOnce
<1>1. Init => ListsOnce
  <2> SUFFICES ASSUME Init PROVE ListsOnce
      OBVIOUS
  <2>2. Keys(<<>>) = {} /\ UniqueKeys(<<>>)
        BY DEF Keys, UniqueKeys
  <2>3. newPosts = << <<>> >> /\ DOMAIN newPosts = {1} /\ newPosts[1] = <<>>
        BY DEF Init
  <2>4. Fresh /\ Authors /\ InTurn /\ Served
        BY <2>2, <2>3 DEF Init, RefInit, Fresh, Unseen, Authors, InTurn, Served
  <2>5. Once
        BY <2>2, <2>3 DEF Init, RefInit, Once
  <2> QED BY <2>4, <2>5 DEF ListsOnce, Posted
<1>2. ListsOnce => ListedOnce
      BY DEF ListsOnce, ListedOnce, Once, UniqueKeys
<1> QED BY <1>1, <1>2, InvInit, InvStep, ListsOnceStep, PTL DEF Spec

=============================================================================
