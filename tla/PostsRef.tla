------------------------------ MODULE PostsRef ------------------------------
(***************************************************************************)
(* The /posts node of the Firebase database as one running app sees it,    *)
(* and the operations of FirebaseServices.swift on it.                     *)
(*                                                                         *)
(* The app registers .childAdded observers on /posts and never removes     *)
(* one; registration r is the r-th observer.  The database library works   *)
(* on a serial queue of its own: a change of the cached children, or the   *)
(* registration of an observer, raises events, and the main queue runs the *)
(* observers' closures in the order in which the events were raised.       *)
(***************************************************************************)
EXTENDS Integers, Sequences, FiniteSets

CONSTANTS
    PostIds,    \* UUIDs of posts; their order is the key order of /posts
    Users,      \* uids
    NoUser,     \* "", what a missing userId decodes to
    Owner,      \* Owner[k]: the user who mints post id k
    Titles,
    LastDate,   \* dates are ranks of the date texts in text order
    MaxEdits    \* bound on the number of edits

ASSUME PostIdsAssumption == PostIds \subseteq Nat /\ IsFiniteSet(PostIds)
ASSUME OwnerAssumption == Owner \in [PostIds -> Users] /\ NoUser \notin Users
ASSUME LastDateAssumption == LastDate \in Nat \ {0}
ASSUME MaxEditsAssumption == MaxEdits \in Nat

VARIABLES
    db,       \* /posts: a function from the keys of its nodes to posts
    view,     \* the keys of the children that the app's cache holds
    minted,   \* the post ids ever used by uploadPost
    edits,    \* number of edits so far
    events    \* the closures on the main queue, oldest first

refVars == <<db, view, minted, edits, events>>

(***************************************************************************)
(* A date text is represented by its rank in text order.  setDate's texts  *)
(* begin with a month name, and the text of an edited post begins with     *)
(* "Updated on", which is greater than every month name.                   *)
(***************************************************************************)
Dates == 1 .. LastDate
UpdatedOn(d) == LastDate + d

(***************************************************************************)
(* A decoded snapshot.  `key' is the key of the node; the Posts structure  *)
(* itself has the postId, which is the key or, when userId is NoUser, "":  *)
(* both fields are missing together, in a node an edit has recreated.      *)
(***************************************************************************)
Post == [key: PostIds, userId: Users \cup {NoUser},
         title: Titles, date: 1 .. 2 * LastDate]

Event == [reg: Nat \ {0}, post: Post]

RefTypeOK ==
    /\ DOMAIN db \subseteq PostIds
    /\ \A k \in DOMAIN db : db[k] \in Post /\ db[k].key = k
    /\ view \subseteq DOMAIN db
    /\ DOMAIN db \subseteq minted
    /\ minted \subseteq PostIds
    /\ edits \in 0 .. MaxEdits
    /\ events \in Seq(Event)

\* All events are for the first n registrations.
EventsUpTo(n) == \A i \in DOMAIN events : events[i].reg <= n

\* The keys of the posts of a list.
Keys(s) == {s[i].key : i \in DOMAIN s}

\* The permutations of a finite set.
Shuffles(S) == {f \in [S -> S] : \A y \in S : \E x \in S : f[x] = y}

Descending(s) == \A i, j \in DOMAIN s : i < j => s[i].date >= s[j].date

(***************************************************************************)
(* Array.sort by descending date.  Swift does not promise that equal       *)
(* elements keep their order, so any descending arrangement may come out.  *)
(***************************************************************************)
Sorts(s) ==
    {r \in {[i \in DOMAIN s |-> s[f[i]]] : f \in Shuffles(DOMAIN s)} :
        Descending(r)}

\* Faulty: the registrations are served newest first.
AddedEventsNewestFirst(p, n) ==
    [r \in 1 .. n |-> [reg |-> n + 1 - r, post |-> p]]

(***************************************************************************)
(* One .childAdded event for each of the n registrations, in the order of  *)
(* registration.                                                           *)
(***************************************************************************)
AddedEvents(p, n) == [r \in 1 .. n |-> [reg |-> r, post |-> p]]

\* The enumerations of a set of numbers in increasing order (there is one).
InOrder(S) ==
    {s \in [1 .. Cardinality(S) -> S] :
        \A i, j \in 1 .. Cardinality(S) : i < j => s[i] < s[j]}

\* Faulty: a new registration is not sent the children already cached.
observeOnlyNew(r) == r > 0 /\ UNCHANGED refVars

(***************************************************************************)
(* A new registration is sent .childAdded for every cached child.          *)
(***************************************************************************)
observe(r) ==
    /\ \E s \in InOrder(view) :
          events' = events \o
              [i \in 1 .. Cardinality(view) |-> [reg |-> r, post |-> db[s[i]]]]
    /\ UNCHANGED <<db, view, minted, edits>>

(***************************************************************************)
(* A child that was not there is written: by this device, whose cache      *)
(* changes in the same call, or by another one.                            *)
(***************************************************************************)
PutChild(p, here, n) ==
    /\ db' = [k \in DOMAIN db \cup {p.key} |-> IF k = p.key THEN p ELSE db[k]]
    /\ view' = IF here THEN view \cup {p.key} ELSE view
    /\ events' = IF here THEN events \o AddedEvents(p, n) ELSE events

uploadPost(k, t, d, here, n) ==
    /\ k \notin minted
    /\ minted' = minted \cup {k}
    /\ PutChild([key |-> k, userId |-> Owner[k], title |-> t, date |-> d],
                here, n)
    /\ UNCHANGED edits

(***************************************************************************)
(* updateChildValues of title, detailPost and date.  The app has no        *)
(* .childChanged observer, so changing a node that is there raises         *)
(* nothing; when the post was deleted in the meantime the three values     *)
(* make a new node, without postId, userId and username.                   *)
(***************************************************************************)
editUserPost(k, t, d, here, n) ==
    /\ k \in minted
    /\ edits < MaxEdits
    /\ edits' = edits + 1
    /\ UNCHANGED minted
    /\ \/ /\ k \in DOMAIN db
          /\ db' = [db EXCEPT ![k].title = t, ![k].date = UpdatedOn(d)]
          /\ UNCHANGED <<view, events>>
       \/ /\ k \notin DOMAIN db
          /\ PutChild([key |-> k, userId |-> NoUser, title |-> t,
                       date |-> UpdatedOn(d)], here, n)

(***************************************************************************)
(* removeValue of a node.  The app has no .childRemoved observer; events   *)
(* already raised for the child stay on the main queue.  Another device's  *)
(* removal is the step in which the cache learns of it: while it has not,  *)
(* this app sees the child as if it were still there.                      *)
(***************************************************************************)
removePost(k) ==
    /\ k \in DOMAIN db
    /\ db' = [x \in DOMAIN db \ {k} |-> db[x]]
    /\ view' = view \ {k}
    /\ UNCHANGED <<minted, edits, events>>

(***************************************************************************)
(* The server's copy of a node reaches the cache: the answer to the first  *)
(* observer of a launch, or another device's write.  The server sends only *)
(* what some observer listens to.                                          *)
(***************************************************************************)
ChildArrives(k, n) ==
    /\ n > 0
    /\ k \in DOMAIN db \ view
    /\ view' = view \cup {k}
    /\ events' = events \o AddedEvents(db[k], n)
    /\ UNCHANGED <<db, minted, edits>>

\* The process starts anew: the cache and the main queue are gone.
ForgetCache ==
    /\ view' = {}
    /\ events' = <<>>
    /\ UNCHANGED <<db, minted, edits>>

RefInit ==
    /\ db = [k \in {} |-> 0]
    /\ view = {}
    /\ minted = {}
    /\ edits = 0
    /\ events = <<>>
=============================================================================
