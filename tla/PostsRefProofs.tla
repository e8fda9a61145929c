--------------------------- MODULE PostsRefProofs ---------------------------
(***************************************************************************)
(* What the operations on /posts preserve: lemmas for the proofs about the *)
(* two lists.                                                              *)
(***************************************************************************)
EXTENDS PostsRef, FiniteSetTheorems, TLAPS

\* A shuffle of the positions of a list.
LEMMA ShufflesType ==
    ASSUME NEW S, NEW f \in Shuffles(S)
    PROVE  f \in [S -> S] /\ \A y \in S : \E x \in S : f[x] = y
BY DEF Shuffles

\* Sorting a list gives a list of the same posts, in descending order.
LEMMA SortsFacts ==
    ASSUME NEW S, NEW s \in Seq(S), NEW r \in Sorts(s)
    PROVE  /\ r \in Seq(S)
           /\ Len(r) = Len(s)
           /\ Descending(r)
           /\ Keys(s) \subseteq Keys(r)
<1>1. PICK f \in Shuffles(DOMAIN s) : r = [i \in DOMAIN s |-> s[f[i]]]
      BY DEF Sorts
<1>0. DOMAIN s = 1 .. Len(s)
      OBVIOUS
<1>2. /\ f \in [1 .. Len(s) -> 1 .. Len(s)]
      /\ \A y \in 1 .. Len(s) : \E x \in 1 .. Len(s) : f[x] = y
      BY <1>0, ShufflesType
<1>3. r \in [1 .. Len(s) -> S]
      BY <1>1, <1>2
<1>4. Descending(r)
      BY DEF Sorts
<1>5. ASSUME NEW y \in 1 .. Len(s) PROVE \E x \in 1 .. Len(s) : r[x] = s[y]
      BY <1>0, <1>1, <1>2
<1>6. Keys(s) \subseteq Keys(r)
      BY <1>0, <1>3, <1>5 DEF Keys
<1> QED BY <1>3, <1>4, <1>6

\* A post is added to a list.
LEMMA KeysAppend ==
    ASSUME NEW s \in Seq(Post), NEW p \in Post
    PROVE  Keys(s) \cup {p.key} \subseteq Keys(Append(s, p))
<1>1. /\ DOMAIN Append(s, p) = 1 .. Len(s) + 1
      /\ \A i \in DOMAIN s : i \in 1 .. Len(s) /\ Append(s, p)[i] = s[i]
      /\ Append(s, p)[Len(s) + 1] = p
      OBVIOUS
<1> QED BY <1>1 DEF Keys

\* The enumeration of a finite set of numbers in order.
LEMMA InOrderType ==
    ASSUME NEW S, IsFiniteSet(S), NEW s \in InOrder(S)
    PROVE  /\ Cardinality(S) \in Nat
           /\ s \in [1 .. Cardinality(S) -> S]
           /\ s \in Seq(S)
           /\ Len(s) = Cardinality(S)
<1>1. Cardinality(S) \in Nat
      BY FS_CardinalityType
<1>2. s \in [1 .. Cardinality(S) -> S]
      BY DEF InOrder
<1> QED BY <1>1, <1>2

\* The enumeration in order leaves nothing out.
LEMMA InOrderCovers ==
    ASSUME NEW S, IsFiniteSet(S), S \subseteq Nat, NEW s \in InOrder(S)
    PROVE  \A k \in S : \E j \in 1 .. Cardinality(S) : s[j] = k
<1> DEFINE n == Cardinality(S)
<1>1. n \in Nat /\ s \in [1 .. n -> S]
      BY InOrderType
<1>2. \A i, j \in 1 .. n : i < j => s[i] < s[j]
      BY DEF InOrder
<1> HIDE DEF n
<1>3. ASSUME NEW i \in 1 .. n, NEW j \in 1 .. n, s[i] = s[j] PROVE i = j
  <2>1. s[i] \in Nat /\ s[j] \in Nat
        BY <1>1
  <2>2. ~(i < j) /\ ~(j < i)
        BY <1>2, <1>3, <2>1
  <2> QED BY <1>1, <2>2
<1>4. s \in Injection(1 .. n, S)
      BY <1>1, <1>3 DEF Injection, IsInjective
<1>5. IsFiniteSet(1 .. n) /\ Cardinality(1 .. n) = n
      BY <1>1, FS_Interval
<1>6. s \in Surjection(1 .. n, S)
      BY <1>4, <1>5, FS_Injection DEF n
<1> QED BY <1>6 DEF Surjection, n

\* The events of one change are well-formed.
LEMMA AddedEventsType ==
    ASSUME NEW p \in Post, NEW n \in Nat
    PROVE  /\ AddedEvents(p, n) \in Seq(Event)
           /\ Len(AddedEvents(p, n)) = n
           /\ \A i \in DOMAIN AddedEvents(p, n) : AddedEvents(p, n)[i].reg <= n
<1>1. \A r \in 1 .. n : [reg |-> r, post |-> p] \in Event
      BY DEF Event
<1>2. AddedEvents(p, n) \in [1 .. n -> Event]
      BY <1>1 DEF AddedEvents
<1>3. ASSUME NEW i \in DOMAIN AddedEvents(p, n)
      PROVE  AddedEvents(p, n)[i].reg <= n
  <2>1. i \in 1 .. n /\ AddedEvents(p, n)[i] = [reg |-> i, post |-> p]
        BY DEF AddedEvents
  <2> QED BY <2>1
<1> QED BY <1>2, <1>3

\* Appending well-formed events leaves the queue well-formed.
LEMMA EventsAppended ==
    ASSUME events \in Seq(Event), NEW new \in Seq(Event), NEW n \in Nat,
           EventsUpTo(n), \A i \in DOMAIN new : new[i].reg <= n,
           events' = events \o new
    PROVE  events' \in Seq(Event) /\ EventsUpTo(n)'
<1>1. events' \in Seq(Event)
      OBVIOUS
<1>2. ASSUME NEW i \in DOMAIN events' PROVE events'[i].reg <= n
  <2>1. i \in 1 .. Len(events) + Len(new)
        OBVIOUS
  <2>2. CASE i <= Len(events)
        BY <2>1, <2>2 DEF EventsUpTo
  <2>3. CASE i > Len(events)
    <3>1. i - Len(events) \in DOMAIN new /\ events'[i] = new[i - Len(events)]
          BY <2>1, <2>3
    <3> QED BY <3>1
  <2> QED BY <2>1, <2>2, <2>3
<1> QED BY <1>1, <1>2 DEF EventsUpTo

-----------------------------------------------------------------------------
(***************************************************************************)
(* Every operation on /posts keeps the node, the cache and the queue       *)
(* well-formed, and raises no event for a registration that is not there.  *)
(***************************************************************************)
RefInv(n) == RefTypeOK /\ EventsUpTo(n)

\* The initial state of /posts.
LEMMA RefInitOK == ASSUME RefInit PROVE RefInv(0)
<1>1. \A n \in Nat : EventsUpTo(n)
      BY DEF RefInit, EventsUpTo
<1>2. RefTypeOK
      BY MaxEditsAssumption DEF RefInit, RefTypeOK
<1> QED BY <1>1, <1>2 DEF RefInv

\* A child is written, here or by another device.
LEMMA PutChildOK ==
    ASSUME NEW p \in Post, NEW here \in BOOLEAN, NEW n \in Nat,
           RefTypeOK, EventsUpTo(n), PutChild(p, here, n)
    PROVE  /\ DOMAIN db' = DOMAIN db \cup {p.key}
           /\ DOMAIN db' \subseteq PostIds
           /\ \A k \in DOMAIN db' : db'[k] \in Post /\ db'[k].key = k
           /\ view' \subseteq DOMAIN db'
           /\ events' \in Seq(Event)
           /\ EventsUpTo(n)'
<1>1. p.key \in PostIds
      BY DEF Post
<1>2. DOMAIN db' = DOMAIN db \cup {p.key}
      BY DEF PutChild
<1>3. \A k \in DOMAIN db' : db'[k] \in Post /\ db'[k].key = k
      BY DEF PutChild, RefTypeOK
<1>4. view' \subseteq DOMAIN db'
      BY <1>2 DEF PutChild, RefTypeOK
<1>5. CASE here
  <2>1. events' = events \o AddedEvents(p, n)
        BY <1>5 DEF PutChild
  <2>4. events' \in Seq(Event) /\ EventsUpTo(n)'
        BY <2>1, AddedEventsType, EventsAppended DEF RefTypeOK
  <2> QED BY <1>1, <1>2, <1>3, <1>4, <2>4 DEF RefTypeOK
<1>6. CASE ~here
  <2>1. events' = events
        BY <1>6 DEF PutChild
  <2>2. events' \in Seq(Event) /\ EventsUpTo(n)'
        BY <2>1 DEF RefTypeOK, EventsUpTo
  <2> QED BY <1>1, <1>2, <1>3, <1>4, <2>2 DEF RefTypeOK
<1> QED BY <1>5, <1>6

\* A new post.
LEMMA uploadPostOK ==
    ASSUME NEW k \in PostIds, NEW t \in Titles, NEW d \in Dates,
           NEW here \in BOOLEAN, NEW n \in Nat,
           RefInv(n), uploadPost(k, t, d, here, n)
    PROVE  RefInv(n)'
<1> DEFINE p == [key |-> k, userId |-> Owner[k], title |-> t, date |-> d]
<1>1. p \in Post
      BY OwnerAssumption, LastDateAssumption DEF Post, Dates
<1>2. PutChild(p, here, n) /\ minted' = minted \cup {k} /\ edits' = edits
      BY DEF uploadPost
<1> HIDE DEF p
<1>3. p.key = k
      BY DEF p
<1>4. /\ DOMAIN db' = DOMAIN db \cup {k}
      /\ DOMAIN db' \subseteq PostIds
      /\ \A x \in DOMAIN db' : db'[x] \in Post /\ db'[x].key = x
      /\ view' \subseteq DOMAIN db'
      /\ events' \in Seq(Event)
      /\ EventsUpTo(n)'
      BY <1>1, <1>2, <1>3, PutChildOK DEF RefInv
<1> QED BY <1>2, <1>4 DEF RefInv, RefTypeOK

\* An edit, of a post that is there or of one deleted meanwhile.
LEMMA editUserPostOK ==
    ASSUME NEW k \in PostIds, NEW t \in Titles, NEW d \in Dates,
           NEW here \in BOOLEAN, NEW n \in Nat,
           RefInv(n), editUserPost(k, t, d, here, n)
    PROVE  RefInv(n)'
<1>1. UpdatedOn(d) \in 1 .. 2 * LastDate
      BY LastDateAssumption DEF UpdatedOn, Dates
<1>2. edits' \in 0 .. MaxEdits
      BY MaxEditsAssumption DEF editUserPost, RefInv, RefTypeOK
<1>3. k \in minted /\ minted' = minted
      BY DEF editUserPost
<1>4. CASE k \in DOMAIN db
  <2>1. /\ db' = [db EXCEPT ![k].title = t, ![k].date = UpdatedOn(d)]
        /\ view' = view /\ events' = events
        BY <1>4 DEF editUserPost
  <2>2. DOMAIN db' = DOMAIN db
        BY <2>1
  <2>3. ASSUME NEW x \in DOMAIN db' PROVE db'[x] \in Post /\ db'[x].key = x
    <3>1. db[x] \in Post /\ db[x].key = x
          BY <2>2 DEF RefInv, RefTypeOK
    <3>2. CASE x = k
      <4>1. db'[x] = [[db[k] EXCEPT !.title = t] EXCEPT !.date = UpdatedOn(d)]
            BY <2>1, <2>2, <3>2
      <4> QED BY <4>1, <3>1, <3>2, <1>1 DEF Post
    <3>3. CASE x # k
          BY <2>1, <2>2, <3>1, <3>3
    <3> QED BY <3>2, <3>3
  <2> QED BY <1>2, <1>3, <2>1, <2>2, <2>3 DEF RefInv, RefTypeOK, EventsUpTo
<1>5. CASE k \notin DOMAIN db
  <2> DEFINE p == [key |-> k, userId |-> NoUser, title |-> t,
                   date |-> UpdatedOn(d)]
  <2>1. p \in Post /\ p.key = k
        BY <1>1 DEF Post
  <2>2. PutChild(p, here, n)
        BY <1>5 DEF editUserPost
  <2> HIDE DEF p
  <2>3. /\ DOMAIN db' = DOMAIN db \cup {k}
        /\ DOMAIN db' \subseteq PostIds
        /\ \A x \in DOMAIN db' : db'[x] \in Post /\ db'[x].key = x
        /\ view' \subseteq DOMAIN db'
        /\ events' \in Seq(Event)
        /\ EventsUpTo(n)'
        BY <2>1, <2>2, PutChildOK DEF RefInv
  <2> QED BY <1>2, <1>3, <2>3 DEF RefInv, RefTypeOK
<1> QED BY <1>4, <1>5

\* A deletion.
LEMMA removePostOK ==
    ASSUME NEW k \in PostIds, NEW n \in Nat, RefInv(n), removePost(k)
    PROVE  RefInv(n)'
<1>1. DOMAIN db' = DOMAIN db \ {k}
      BY DEF removePost
<1>2. \A x \in DOMAIN db' : db'[x] = db[x]
      BY DEF removePost
<1>3. /\ view' = view \ {k}
      /\ minted' = minted /\ edits' = edits /\ events' = events
      BY DEF removePost
<1> QED BY <1>1, <1>2, <1>3 DEF RefInv, RefTypeOK, EventsUpTo

\* The arrival of a child.
LEMMA ChildArrivesOK ==
    ASSUME NEW k \in PostIds, NEW n \in Nat, RefInv(n), ChildArrives(k, n)
    PROVE  RefInv(n)'
<1>1. db[k] \in Post
      BY DEF ChildArrives, RefInv, RefTypeOK
<1>2. events' = events \o AddedEvents(db[k], n)
      BY DEF ChildArrives
<1>5. events' \in Seq(Event) /\ EventsUpTo(n)'
      BY <1>1, <1>2, AddedEventsType, EventsAppended DEF RefInv, RefTypeOK
<1> QED BY <1>5 DEF ChildArrives, RefInv, RefTypeOK

\* One more registration.
LEMMA observeOK ==
    ASSUME NEW n \in Nat, RefInv(n), observe(n + 1)
    PROVE  RefInv(n + 1)'
<1>1. IsFiniteSet(view)
      BY PostIdsAssumption, FS_Subset DEF RefInv, RefTypeOK
<1>2. PICK s \in InOrder(view) :
          events' = events \o [i \in 1 .. Cardinality(view) |->
                                  [reg |-> n + 1, post |-> db[s[i]]]]
      BY DEF observe
<1>3. Cardinality(view) \in Nat /\ s \in [1 .. Cardinality(view) -> view]
      BY <1>1, InOrderType
<1> DEFINE new == [i \in 1 .. Cardinality(view) |->
                      [reg |-> n + 1, post |-> db[s[i]]]]
<1>4. \A i \in 1 .. Cardinality(view) :
          [reg |-> n + 1, post |-> db[s[i]]] \in Event
      BY <1>3 DEF Event, RefInv, RefTypeOK
<1>5. new \in Seq(Event)
      BY <1>3, <1>4
<1>6. \A i \in DOMAIN new : new[i].reg <= n + 1
      OBVIOUS
<1>7. EventsUpTo(n + 1)
  <2> SUFFICES ASSUME NEW i \in DOMAIN events PROVE events[i].reg <= n + 1
      BY DEF EventsUpTo
  <2>1. events[i].reg <= n
        BY DEF RefInv, EventsUpTo
  <2>2. events[i] \in Event
        BY DEF RefInv, RefTypeOK
  <2>3. events[i].reg \in Nat
        BY <2>2 DEF Event
  <2> QED BY <2>1, <2>3
<1>8. events' = events \o new
      BY <1>2
<1> HIDE DEF new
<1>9. n + 1 \in Nat /\ events \in Seq(Event)
      BY DEF RefInv, RefTypeOK
<1>10. events' \in Seq(Event) /\ EventsUpTo(n + 1)'
      BY <1>5, <1>6, <1>7, <1>8, <1>9, EventsAppended
<1> QED BY <1>10 DEF observe, RefInv, RefTypeOK

\* A restart.
LEMMA ForgetCacheOK ==
    ASSUME RefTypeOK, ForgetCache PROVE RefInv(0)'
BY DEF ForgetCache, RefInv, RefTypeOK, EventsUpTo

\* The main queue takes its oldest closure.
LEMMA TakeEventOK ==
    ASSUME NEW n \in Nat, RefInv(n), events # <<>>, events' = Tail(events),
           UNCHANGED <<db, view, minted, edits>>
    PROVE  /\ RefInv(n)'
           /\ Head(events).reg \in 1 .. n
           /\ Head(events).post \in Post
<1>1. Len(events) > 0 /\ Head(events) = events[1] /\ 1 \in DOMAIN events
      BY DEF RefInv, RefTypeOK
<1>2. Head(events) \in Event /\ Head(events).reg <= n
      BY <1>1 DEF RefInv, RefTypeOK, EventsUpTo
<1>3. events' \in Seq(Event) /\ Len(events') = Len(events) - 1
      BY <1>1 DEF RefInv, RefTypeOK
<1>4. ASSUME NEW i \in DOMAIN events' PROVE events'[i].reg <= n
  <2>1. i + 1 \in DOMAIN events /\ events'[i] = events[i + 1]
        BY <1>1, <1>3 DEF RefInv, RefTypeOK
  <2> QED BY <2>1 DEF RefInv, EventsUpTo
<1>5. EventsUpTo(n)'
      BY <1>4 DEF EventsUpTo
<1>6. RefTypeOK'
      BY <1>3 DEF RefInv, RefTypeOK
<1> QED BY <1>2, <1>5, <1>6 DEF RefInv, Event
=============================================================================
