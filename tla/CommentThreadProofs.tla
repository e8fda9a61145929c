------------------------- MODULE CommentThreadProofs -------------------------
(***************************************************************************)
(* Proofs about the comments screen, for any comments, threads and dates:  *)
(* its table is exact, and it implements the board of CommentBoard.        *)
(***************************************************************************)
EXTENDS CommentThread, FiniteSetTheorems, SequenceTheorems, TLAPS

\* No comment is in a list twice.
Distinct(s) == \A i, j \in DOMAIN s : s[i] = s[j] => i = j

Of(S, t) == {c \in S : c.postId = t}

(***************************************************************************)
(* A screen that is not open, or not registered, has nothing on it.        *)
(***************************************************************************)
NothingBefore ==
    /\ thread = <<>> => ~registered /\ form = "closed"
    /\ ~registered => events = <<>> /\ comments = <<>>

(***************************************************************************)
(* Every cached comment of the thread is either on its way or listed, and  *)
(* only once.                                                              *)
(***************************************************************************)
OnTheWayOrListed ==
    /\ Items(events) \subseteq view
    /\ Distinct(events)
    /\ Items(comments) \cap Items(events) = {}
    /\ registered => Items(comments) \cup Of(Items(events), thread[1]) = Of(view, thread[1])

Listed ==
    /\ rows = comments
    /\ Ascending(comments)
    /\ Len(comments) = Cardinality(Items(comments))

Inv == TypeOK /\ NothingBefore /\ OnTheWayOrListed /\ Listed

-----------------------------------------------------------------------------
(* Lists.                                                                  *)

LEMMA EmptyItems == Items(<<>>) = {}
BY DEF Items

LEMMA AppendItems ==
    ASSUME NEW S, NEW s \in Seq(S), NEW c \in S
    PROVE  /\ Append(s, c) \in Seq(S)
           /\ Items(Append(s, c)) = Items(s) \cup {c}
           /\ Distinct(s) /\ c \notin Items(s) => Distinct(Append(s, c))
<1>1. /\ Append(s, c) \in Seq(S)
      /\ DOMAIN Append(s, c) = 1 .. Len(s) + 1
      /\ \A i \in 1 .. Len(s) : Append(s, c)[i] = s[i]
      /\ Append(s, c)[Len(s) + 1] = c
      /\ DOMAIN s = 1 .. Len(s) /\ Len(s) \in Nat
      OBVIOUS
<1>2. 1 .. Len(s) + 1 = (1 .. Len(s)) \cup {Len(s) + 1}
      BY <1>1
<1>3. Items(Append(s, c)) = Items(s) \cup {c}
      BY <1>1, <1>2 DEF Items
<1>4. ASSUME Distinct(s), c \notin Items(s) PROVE Distinct(Append(s, c))
  <2> SUFFICES ASSUME NEW i \in 1 .. Len(s) + 1, NEW j \in 1 .. Len(s) + 1,
                      Append(s, c)[i] = Append(s, c)[j]
               PROVE  i = j
      BY <1>1 DEF Distinct
  <2>1. CASE i \in 1 .. Len(s) /\ j \in 1 .. Len(s)
        BY <1>1, <1>4, <2>1 DEF Distinct
  <2>2. CASE i = Len(s) + 1 /\ j \in 1 .. Len(s)
        BY <1>1, <1>4, <2>2 DEF Items
  <2>3. CASE j = Len(s) + 1 /\ i \in 1 .. Len(s)
        BY <1>1, <1>4, <2>3 DEF Items
  <2> QED BY <1>2, <2>1, <2>2, <2>3
<1> QED BY <1>1, <1>3, <1>4

LEMMA TailItems ==
    ASSUME NEW S, NEW s \in Seq(S), s # <<>>
    PROVE  /\ Tail(s) \in Seq(S)
           /\ Head(s) \in S
           /\ Items(s) = Items(Tail(s)) \cup {Head(s)}
           /\ Distinct(s) => Distinct(Tail(s)) /\ Head(s) \notin Items(Tail(s))
<1>1. /\ Tail(s) \in Seq(S) /\ Head(s) = s[1] /\ Head(s) \in S
      /\ DOMAIN Tail(s) = 1 .. Len(s) - 1
      /\ \A i \in 1 .. Len(s) - 1 : Tail(s)[i] = s[i + 1]
      /\ DOMAIN s = 1 .. Len(s) /\ Len(s) \in Nat /\ Len(s) > 0
      OBVIOUS
<1>2. \A i \in 1 .. Len(s) : i = 1 \/ i - 1 \in 1 .. Len(s) - 1
      BY <1>1
<1>3. \A i \in 1 .. Len(s) - 1 : i + 1 \in 1 .. Len(s)
      BY <1>1
<1>4. ASSUME NEW c \in Items(s) PROVE c \in Items(Tail(s)) \cup {Head(s)}
  <2>1. PICK i \in 1 .. Len(s) : c = s[i]
        BY <1>1 DEF Items
  <2>2. CASE i = 1
        BY <1>1, <2>1, <2>2
  <2>3. CASE i - 1 \in 1 .. Len(s) - 1
    <3>1. Tail(s)[i - 1] = c
          BY <1>1, <2>1, <2>3
    <3> QED BY <1>1, <2>3, <3>1 DEF Items
  <2> QED BY <1>2, <2>2, <2>3
<1>5. Items(Tail(s)) \cup {Head(s)} \subseteq Items(s)
      BY <1>1, <1>3 DEF Items
<1>6. ASSUME Distinct(s) PROVE Distinct(Tail(s)) /\ Head(s) \notin Items(Tail(s))
  <2>1. Distinct(Tail(s))
        BY <1>1, <1>3, <1>6 DEF Distinct
  <2>2. Head(s) \notin Items(Tail(s))
        BY <1>1, <1>3, <1>6 DEF Distinct, Items
  <2> QED BY <2>1, <2>2
<1> QED BY <1>1, <1>4, <1>5, <1>6

LEMMA Single ==
    ASSUME NEW S, NEW s \in Seq(S), Len(s) <= 1, s # <<>>
    PROVE  s[1] \in S /\ s = <<s[1]>>
<1>1. Len(s) \in Nat /\ Len(s) # 0
      BY EmptySeq, LenProperties
<1>2. ASSUME NEW n \in Nat, n # 0, n <= 1 PROVE n = 1
      BY <1>2
<1>3. Len(s) = 1
      BY <1>1, <1>2
<1>4. s[1] \in S
      BY <1>3
<1> QED BY <1>3, <1>4

\* Sorting rearranges a list.
LEMMA SortsItems ==
    ASSUME NEW S, NEW s \in Seq(S), NEW r \in Sorts(s)
    PROVE  r \in Seq(S) /\ Len(r) = Len(s) /\ Ascending(r) /\ Items(r) = Items(s)
<1>0. DOMAIN s = 1 .. Len(s) /\ Len(s) \in Nat
      OBVIOUS
<1>1. PICK f \in Shuffles(DOMAIN s) : r = [i \in DOMAIN s |-> s[f[i]]]
      BY DEF Sorts
<1>2. /\ f \in [1 .. Len(s) -> 1 .. Len(s)]
      /\ \A y \in 1 .. Len(s) : \E x \in 1 .. Len(s) : f[x] = y
      BY <1>0 DEF Shuffles
<1>3. r \in [1 .. Len(s) -> S]
      BY <1>0, <1>1, <1>2
<1>4. r \in Seq(S) /\ Len(r) = Len(s) /\ DOMAIN r = 1 .. Len(s)
      BY <1>0, <1>3
<1>5. Items(r) = Items(s)
      BY <1>0, <1>1, <1>2, <1>4 DEF Items
<1>6. Ascending(r)
      BY DEF Sorts
<1> QED BY <1>4, <1>5, <1>6

\* The first events of an observer: every cached comment, once.
LEMMA KeyOrderedItems ==
    ASSUME NEW V, V \subseteq Comment, \A c, d \in V : c.id = d.id => c = d,
           NEW s \in KeyOrdered(V)
    PROVE  s \in Seq(V) /\ Items(s) = V /\ Distinct(s)
<1> DEFINE n == Cardinality(V)
<1>1. IsFiniteSet(V)
  <2> DEFINE id == [c \in V |-> c.id]
  <2>1. id \in Injection(V, CommentIds)
        BY DEF Comment, Injection, IsInjective
  <2>2. IsFiniteSet(CommentIds)
        BY CommentIdsAssumption
  <2> QED BY <2>1, <2>2, FS_Injection
<1>2. n \in Nat
      BY <1>1, FS_CardinalityType
<1>3. s \in [1 .. n -> V] /\ \A i, j \in 1 .. n : i < j => s[i].id < s[j].id
      BY DEF KeyOrdered
<1> HIDE DEF n
<1>4. s \in Seq(V) /\ Len(s) = n /\ DOMAIN s = 1 .. n
      BY <1>2, <1>3
<1>5. ASSUME NEW i \in 1 .. n, NEW j \in 1 .. n, s[i] = s[j] PROVE i = j
  <2>0. s[i] \in Comment /\ s[j] \in Comment
        BY <1>3
  <2>1. s[i].id \in Nat /\ s[j].id \in Nat
        BY <2>0, CommentIdsAssumption DEF Comment
  <2>2. ~(i < j) /\ ~(j < i)
        BY <1>3, <1>5, <2>1
  <2> QED BY <1>2, <2>2
<1>6. s \in Injection(1 .. n, V)
      BY <1>3, <1>5 DEF Injection, IsInjective
<1>7. IsFiniteSet(1 .. n) /\ Cardinality(1 .. n) = n
      BY <1>2, FS_Interval
<1>8. s \in Surjection(1 .. n, V)
      BY <1>1, <1>6, <1>7, FS_Injection DEF n
<1>9. Items(s) = V
      BY <1>3, <1>4, <1>8 DEF Surjection, Items
<1> QED BY <1>4, <1>5, <1>9 DEF Distinct

\* One more comment in a list.
LEMMA OneMore ==
    ASSUME NEW s \in Seq(Comment), NEW c \in Comment, c \notin Items(s),
           Len(s) = Cardinality(Items(s)), NEW r \in Sorts(Append(s, c))
    PROVE  /\ r \in Seq(Comment)
           /\ Items(r) = Items(s) \cup {c}
           /\ Ascending(r)
           /\ Len(r) = Cardinality(Items(r))
<1>1. Append(s, c) \in Seq(Comment) /\ Items(Append(s, c)) = Items(s) \cup {c}
      BY AppendItems
<1>2. /\ r \in Seq(Comment) /\ Len(r) = Len(Append(s, c)) /\ Ascending(r)
      /\ Items(r) = Items(s) \cup {c}
      BY <1>1, SortsItems
<1>3. Len(Append(s, c)) = Len(s) + 1 /\ Len(s) \in Nat
      OBVIOUS
<1>4. IsFiniteSet(Items(s))
  <2>1. /\ DOMAIN s = 1 .. Len(s)
        /\ IsFiniteSet(1 .. Len(s))
        BY <1>3, FS_Interval
  <2>2. s \in Surjection(1 .. Len(s), Items(s))
    <3>0. s = [i \in 1 .. Len(s) |-> s[i]]
          OBVIOUS
    <3>1. s \in [1 .. Len(s) -> Items(s)]
      <4>1. \A i \in 1 .. Len(s) : s[i] \in Items(s)
            BY <2>1 DEF Items
      <4> QED BY <3>0, <4>1
    <3>2. \A x \in Items(s) : \E i \in 1 .. Len(s) : s[i] = x
          BY <2>1 DEF Items
    <3> QED BY <3>1, <3>2 DEF Surjection
  <2> QED BY <2>1, <2>2, FS_Surjection
<1>5. Cardinality(Items(s) \cup {c}) = Cardinality(Items(s)) + 1
      BY <1>4, FS_AddElement
<1> QED BY <1>2, <1>3, <1>5

-----------------------------------------------------------------------------
(* The invariant.                                                          *)

LEMMA InitInv == ASSUME Init PROVE Inv
<1>1. Items(<<>>) = {} /\ Distinct(<<>>) /\ Ascending(<<>>) /\ Len(<<>>) = 0
      BY DEF Items, Distinct, Ascending
<1>2. Cardinality({}) = 0
      BY FS_EmptySet
<1>0. /\ <<>> \in Seq(Comment) /\ <<>> \in Seq(Threads) /\ Len(<<>>) <= 1
      /\ {} \subseteq Comment
      OBVIOUS
<1>3. TypeOK
      BY <1>0 DEF Init, TypeOK, FormStates
<1>4. NothingBefore /\ OnTheWayOrListed /\ Listed
      BY <1>1, <1>2 DEF Init, NothingBefore, OnTheWayOrListed, Listed
<1> QED BY <1>3, <1>4 DEF Inv

\* The screen's thread is the postId of a post.
LEMMA ThreadType ==
    ASSUME TypeOK, thread # <<>>
    PROVE  thread[1] \in Threads /\ thread = <<thread[1]>>
BY Single DEF TypeOK

LEMMA viewDidLoadInv ==
    ASSUME Inv, NEW t \in Threads, viewDidLoad(t) PROVE Inv'
<1>1. <<t>> \in Seq(Threads) /\ Len(<<t>>) = 1 /\ <<t>> # <<>>
      OBVIOUS
<1>2. TypeOK' /\ Listed'
      BY <1>1 DEF Inv, TypeOK, Listed, viewDidLoad
<1>3. ~registered /\ NothingBefore' /\ OnTheWayOrListed'
      BY <1>1 DEF Inv, NothingBefore, OnTheWayOrListed, viewDidLoad
<1> QED BY <1>2, <1>3 DEF Inv

LEMMA RegisterInv == ASSUME Inv, Register PROVE Inv'
<1>1. /\ view \subseteq Comment
      /\ \A c, d \in view : c.id = d.id => c = d
      BY DEF Inv, TypeOK
<1>2. events' \in Seq(view) /\ Items(events') = view /\ Distinct(events')
      BY <1>1, KeyOrderedItems DEF Register
<1>3. events' \in Seq(Comment)
      BY <1>1, <1>2
<1>4. comments = <<>> /\ Items(comments) = {}
      BY EmptyItems DEF Inv, NothingBefore, Register
<1>5. TypeOK' /\ Listed' /\ NothingBefore'
      BY <1>3 DEF Inv, TypeOK, Listed, NothingBefore, Register
<1>6. OnTheWayOrListed'
      BY <1>2, <1>4 DEF OnTheWayOrListed, Register
<1> QED BY <1>5, <1>6 DEF Inv

\* A comment that was not cached is cached, in a screen that changes no more.
LEMMA CachedInv ==
    ASSUME Inv, NEW c \in Comment, c \notin view, Cached(c),
           UNCHANGED <<thread, registered, comments, rows>>
    PROVE  /\ events' \in Seq(Comment)
           /\ ~registered => events' = <<>>
           /\ OnTheWayOrListed'
           /\ Listed'
<1>1. /\ events \in Seq(Comment) /\ Items(events) \subseteq view /\ Distinct(events)
      /\ Items(comments) \cap Items(events) = {}
      /\ ~registered => events = <<>> /\ comments = <<>>
      BY DEF Inv, TypeOK, OnTheWayOrListed, NothingBefore
<1>2. view' = view \cup {c}
      BY DEF Cached
<1>3. Listed'
      BY DEF Inv, Listed
<1>4. CASE ~registered
  <2>1. events' = <<>> /\ ~registered'
        BY <1>1, <1>4 DEF Cached
  <2> QED BY <1>1, <1>2, <1>3, <1>4, <2>1 DEF OnTheWayOrListed
<1>5. CASE registered
  <2>1. events' = Append(events, c)
        BY <1>5 DEF Cached
  <2>2. /\ events' \in Seq(Comment)
        /\ Items(events') = Items(events) \cup {c}
        /\ Distinct(events')
        BY <1>1, <2>1, AppendItems
  <2>3. /\ Items(comments) \cup Of(Items(events), thread[1]) = Of(view, thread[1])
        /\ Items(comments) \subseteq view
        BY <1>5 DEF Inv, OnTheWayOrListed, Of
  <2>4. OnTheWayOrListed'
        BY <1>1, <1>2, <2>2, <2>3 DEF OnTheWayOrListed, Of
  <2> QED BY <1>3, <1>5, <2>2, <2>4
<1> QED BY <1>4, <1>5

\* What a comment on its way becomes.
LEMMA HeadFacts ==
    ASSUME Inv, events # <<>>
    PROVE  /\ registered /\ thread # <<>>
           /\ Head(events) \in view
           /\ Head(events) \in Comment
           /\ Head(events) \notin Items(comments)
           /\ Tail(events) \in Seq(Comment)
           /\ Items(events) = Items(Tail(events)) \cup {Head(events)}
           /\ Distinct(Tail(events))
           /\ Head(events) \notin Items(Tail(events))
<1>1. events \in Seq(Comment) /\ Distinct(events)
      BY DEF Inv, TypeOK, OnTheWayOrListed
<1>2. registered /\ thread # <<>>
      BY DEF Inv, NothingBefore
<1> QED BY <1>1, <1>2, TailItems DEF Inv, OnTheWayOrListed

LEMMA fetchCommentsInv == ASSUME Inv, fetchComments PROVE Inv'
<1> DEFINE c == Head(events)
<1>0. events # <<>> /\ events' = Tail(events)
      /\ UNCHANGED <<stored, view, thread, registered, form>>
      BY DEF fetchComments
<1>1. /\ registered /\ thread # <<>> /\ c \in view /\ c \in Comment
      /\ c \notin Items(comments)
      /\ events' \in Seq(Comment)
      /\ Items(events) = Items(events') \cup {c}
      /\ Distinct(events')
      /\ c \notin Items(events')
      BY <1>0, HeadFacts
<1>2. /\ Items(events) \subseteq view
      /\ Items(comments) \cap Items(events) = {}
      /\ Items(comments) \cup Of(Items(events), thread[1]) = Of(view, thread[1])
      BY <1>1 DEF Inv, OnTheWayOrListed
<1>3. NothingBefore'
      BY <1>0, <1>1 DEF Inv, NothingBefore
<1>4. comments \in Seq(Comment) /\ Len(comments) = Cardinality(Items(comments))
      BY DEF Inv, TypeOK, Listed
<1>5. CASE c.postId = thread[1]
  <2>1. comments' \in Sorts(Append(comments, c)) /\ rows' = comments'
        BY <1>5 DEF fetchComments, reloadData
  <2>2. /\ comments' \in Seq(Comment)
        /\ Items(comments') = Items(comments) \cup {c}
        /\ Ascending(comments')
        /\ Len(comments') = Cardinality(Items(comments'))
        BY <1>1, <1>4, <2>1, OneMore
  <2>3. TypeOK' /\ Listed'
        BY <1>0, <1>1, <2>1, <2>2 DEF Inv, TypeOK, Listed
  <2>4. OnTheWayOrListed'
        BY <1>0, <1>1, <1>2, <1>5, <2>2 DEF OnTheWayOrListed, Of
  <2> QED BY <1>3, <2>3, <2>4 DEF Inv
<1>6. CASE c.postId # thread[1]
  <2>1. UNCHANGED <<comments, rows>>
        BY <1>6 DEF fetchComments
  <2>2. TypeOK' /\ Listed'
        BY <1>0, <1>1, <2>1 DEF Inv, TypeOK, Listed
  <2>3. OnTheWayOrListed'
        BY <1>0, <1>1, <1>2, <1>6, <2>1 DEF OnTheWayOrListed, Of
  <2> QED BY <1>3, <2>2, <2>3 DEF Inv
<1> QED BY <1>5, <1>6

\* A comment with a new id is new.
LEMMA NewComment ==
    ASSUME TypeOK, NEW id \in CommentIds, id \notin Ids(stored),
           NEW t \in Threads, NEW d \in 1 .. LastDate,
           stored' = stored \cup {[id |-> id, postId |-> t, date |-> d]}
    PROVE  /\ [id |-> id, postId |-> t, date |-> d] \in Comment
           /\ [id |-> id, postId |-> t, date |-> d] \notin stored
           /\ stored' \subseteq Comment
           /\ \A x, y \in stored' : x.id = y.id => x = y
<1> DEFINE c == [id |-> id, postId |-> t, date |-> d]
<1>1. c \in Comment /\ c.id = id
      BY DEF Comment
<1>2. \A x \in stored : x.id # id
      BY DEF Ids
<1> HIDE DEF c
<1>3. stored' = stored \cup {c}
      BY DEF c
<1>4. c \notin stored /\ stored' \subseteq Comment
      BY <1>1, <1>2, <1>3 DEF TypeOK
<1>5. \A x, y \in stored' : x.id = y.id => x = y
      BY <1>1, <1>2, <1>3 DEF TypeOK
<1> QED BY <1>1, <1>4, <1>5 DEF c

LEMMA postCommentInv ==
    ASSUME Inv, NEW id \in CommentIds, NEW d \in 1 .. LastDate, postComment(id, d)
    PROVE  Inv'
<1> DEFINE c == [id |-> id, postId |-> thread[1], date |-> d]
<1>0. thread # <<>>
      BY DEF Inv, NothingBefore, postComment
<1>1. thread[1] \in Threads
      BY <1>0, ThreadType DEF Inv
<1>2. /\ id \notin Ids(stored) /\ stored' = stored \cup {c} /\ Cached(c)
      /\ form' = "closed"
      /\ UNCHANGED <<thread, registered, comments, rows>>
      BY DEF postComment
<1>3. /\ c \in Comment /\ c \notin stored /\ stored' \subseteq Comment
      /\ \A x, y \in stored' : x.id = y.id => x = y
      BY <1>1, <1>2, NewComment DEF Inv
<1> HIDE DEF c
<1>4. /\ events' \in Seq(Comment) /\ (~registered => events' = <<>>)
      /\ OnTheWayOrListed' /\ Listed'
      BY <1>2, <1>3, CachedInv DEF Inv, TypeOK
<1>5. view' \subseteq stored'
      BY <1>2 DEF Cached, Inv, TypeOK
<1>6. TypeOK'
      BY <1>2, <1>3, <1>4, <1>5 DEF Inv, TypeOK, FormStates
<1>7. NothingBefore'
      BY <1>0, <1>2, <1>4 DEF Inv, NothingBefore
<1> QED BY <1>4, <1>6, <1>7 DEF Inv

LEMMA RemoteCommentInv ==
    ASSUME Inv, NEW id \in CommentIds, NEW t \in Threads, NEW d \in 1 .. LastDate,
           RemoteComment(id, t, d)
    PROVE  Inv'
<1>1. stored' \subseteq Comment /\ \A x, y \in stored' : x.id = y.id => x = y
      BY NewComment DEF RemoteComment, Inv
<1>2. stored \subseteq stored'
      BY DEF RemoteComment
<1>3. TypeOK'
      BY <1>1, <1>2 DEF Inv, TypeOK, RemoteComment
<1>4. NothingBefore' /\ OnTheWayOrListed' /\ Listed'
      BY DEF Inv, NothingBefore, OnTheWayOrListed, Listed, RemoteComment
<1> QED BY <1>3, <1>4 DEF Inv

LEMMA CommentArrivesInv ==
    ASSUME Inv, NEW c \in stored, CommentArrives(c) PROVE Inv'
<1>1. c \in Comment /\ c \notin view /\ Cached(c)
      BY DEF CommentArrives, Inv, TypeOK
<1>2. UNCHANGED <<stored, thread, registered, comments, rows, form>> /\ registered
      BY DEF CommentArrives
<1>3. events' \in Seq(Comment) /\ OnTheWayOrListed' /\ Listed'
      BY <1>1, <1>2, CachedInv
<1>4. TypeOK'
      BY <1>1, <1>2, <1>3 DEF Inv, TypeOK, Cached
<1>5. NothingBefore'
      BY <1>2 DEF Inv, NothingBefore
<1> QED BY <1>3, <1>4, <1>5 DEF Inv

\* The form comes and goes.
LEMMA formInv ==
    ASSUME Inv, handlerPostComment \/ getCurrentUser \/ handleDismiss PROVE Inv'
<1> USE DEF handlerPostComment, getCurrentUser, handleDismiss
<1>1. TypeOK'
      BY DEF Inv, TypeOK, FormStates
<1>2. NothingBefore' /\ OnTheWayOrListed' /\ Listed'
      BY DEF Inv, NothingBefore, OnTheWayOrListed, Listed
<1> QED BY <1>1, <1>2 DEF Inv

LEMMA handleDismissCommentInv == ASSUME Inv, handleDismissComment PROVE Inv'
<1>1. Items(<<>>) = {} /\ Distinct(<<>>) /\ Ascending(<<>>) /\ Len(<<>>) = 0
      BY DEF Items, Distinct, Ascending
<1>2. Cardinality({}) = 0
      BY FS_EmptySet
<1>0. <<>> \in Seq(Comment) /\ <<>> \in Seq(Threads) /\ Len(<<>>) <= 1
      OBVIOUS
<1>3. TypeOK'
      BY <1>0 DEF Inv, TypeOK, handleDismissComment
<1>4. NothingBefore' /\ OnTheWayOrListed' /\ Listed'
      BY <1>1, <1>2 DEF handleDismissComment, NothingBefore, OnTheWayOrListed, Listed
<1> QED BY <1>3, <1>4 DEF Inv

LEMMA NextInv == ASSUME Inv, [Next]_vars PROVE Inv'
<1>1. CASE UNCHANGED vars
  <2>1. TypeOK'
        BY <1>1 DEF Inv, TypeOK, vars
  <2>2. NothingBefore' /\ OnTheWayOrListed' /\ Listed'
        BY <1>1 DEF Inv, NothingBefore, OnTheWayOrListed, Listed, vars
  <2> QED BY <2>1, <2>2 DEF Inv
<1>2. CASE Next
      BY <1>2, viewDidLoadInv, RegisterInv, fetchCommentsInv, formInv, postCommentInv,
         RemoteCommentInv, handleDismissCommentInv, CommentArrivesInv DEF Next
<1> QED BY <1>1, <1>2

(***************************************************************************)
(* The invariant holds for ever: every cached comment of the open thread   *)
(* is on its way or listed, exactly once (fetchPosts, fetchComments).      *)
(***************************************************************************)
THEOREM CommentsInv == Spec => []Inv
<1>1. Init => Inv
      BY InitInv
<1>2. Inv /\ [Next]_vars => Inv'
      BY NextInv
<1> QED BY <1>1, <1>2, PTL DEF Spec

(***************************************************************************)
(* The variables keep their types; no two comments share an id and the     *)
(* cache never runs ahead of the database.                                 *)
(***************************************************************************)
THEOREM CommentsType == Spec => []TypeOK
<1>1. Inv => TypeOK
      BY DEF Inv
<1> QED BY <1>1, CommentsInv, PTL

(***************************************************************************)
(* For any number of comments and threads, the table of a screen whose     *)
(* closures have run shows exactly the cached comments of its post, once   *)
(* each and in the order of the dates.                                     *)
(***************************************************************************)
THEOREM CommentsAreExact == Spec => []ThreadIsExact
<1>1. ASSUME Inv PROVE ThreadIsExact
  <2> SUFFICES ASSUME registered, events = <<>>
               PROVE  /\ Items(rows) = Of(view, thread[1])
                      /\ Len(rows) = Cardinality(Items(rows))
                      /\ Ascending(rows)
      BY DEF ThreadIsExact, Of
  <2>1. Items(comments) = Of(view, thread[1])
        BY <1>1, EmptyItems DEF Inv, OnTheWayOrListed, Of
  <2> QED BY <1>1, <2>1 DEF Inv, Listed
<1>2. Inv => ThreadIsExact
      BY <1>1
<1> QED BY <1>2, CommentsInv, PTL

-----------------------------------------------------------------------------
(* The refinement.                                                         *)

LEMMA InitRefines == ASSUME Init PROVE Board!Init
BY EmptyItems DEF Init, Board!Init

\* Writing a comment, here or elsewhere.
LEMMA WriteRefines ==
    ASSUME Inv, NEW id \in CommentIds, id \notin Ids(stored),
           NEW t \in Threads, NEW d \in 1 .. LastDate,
           stored' = stored \cup {[id |-> id, postId |-> t, date |-> d]},
           UNCHANGED <<thread, comments>>
    PROVE  Board!Next
<1> DEFINE c == [id |-> id, postId |-> t, date |-> d]
<1>1. c \in Comment /\ c \notin stored
      BY NewComment DEF Inv
<1>2. Board!Write(c)
      BY <1>1 DEF Board!Write
<1> QED BY <1>1, <1>2 DEF Board!Next

\* Running the oldest closure shows its comment or nothing.
LEMMA ShowRefines == ASSUME Inv, fetchComments PROVE [Board!Next]_(Board!vars)
<1> DEFINE c == Head(events)
<1>0. events # <<>> /\ UNCHANGED <<stored, thread>>
      BY DEF fetchComments
<1>1. /\ thread # <<>> /\ c \in view /\ c \in Comment /\ c \notin Items(comments)
      BY <1>0, HeadFacts
<1>2. CASE c.postId = thread[1]
  <2>1. comments' \in Sorts(Append(comments, c))
        BY <1>2 DEF fetchComments
  <2>2. Items(comments') = Items(comments) \cup {c}
        BY <1>1, <2>1, OneMore DEF Inv, TypeOK, Listed
  <2>3. thread = <<c.postId>> /\ c \in stored
        BY <1>1, <1>2, ThreadType DEF Inv, TypeOK
  <2>4. Board!Show(c)
        BY <1>0, <1>1, <2>2, <2>3 DEF Board!Show
  <2> QED BY <1>1, <2>4 DEF Board!Next
<1>3. CASE c.postId # thread[1]
  <2>1. UNCHANGED comments
        BY <1>3 DEF fetchComments
  <2> QED BY <1>0, <2>1 DEF Board!vars
<1> QED BY <1>2, <1>3

LEMMA NextRefines == ASSUME Inv, [Next]_vars PROVE [Board!Next]_(Board!vars)
<1>1. CASE UNCHANGED vars
      BY <1>1 DEF vars, Board!vars
<1>2. ASSUME NEW t \in Threads, viewDidLoad(t) PROVE Board!Next
  <2>1. comments = <<>> /\ Items(comments) = {}
        BY <1>2, EmptyItems DEF viewDidLoad, Inv, NothingBefore
  <2>2. Board!Open(t)
        BY <1>2, <2>1 DEF viewDidLoad, Board!Open
  <2> QED BY <2>2 DEF Board!Next
<1>3. CASE \/ Register \/ handlerPostComment \/ getCurrentUser \/ handleDismiss
           \/ \E c \in stored : CommentArrives(c)
      BY <1>3 DEF Register, handlerPostComment, getCurrentUser, handleDismiss,
                  CommentArrives, Board!vars
<1>4. ASSUME NEW id \in CommentIds, NEW d \in 1 .. LastDate, postComment(id, d)
      PROVE  Board!Next
  <2>1. thread # <<>>
        BY <1>4 DEF Inv, NothingBefore, postComment
  <2>2. thread[1] \in Threads
        BY <2>1, ThreadType DEF Inv
  <2> QED BY <1>4, <2>2, WriteRefines DEF postComment
<1>5. ASSUME NEW id \in CommentIds, NEW t \in Threads, NEW d \in 1 .. LastDate,
             RemoteComment(id, t, d)
      PROVE  Board!Next
      BY <1>5, WriteRefines DEF RemoteComment
<1>6. ASSUME handleDismissComment PROVE Board!Next
  <2>1. Board!Close
        BY <1>6, EmptyItems DEF handleDismissComment, Board!Close
  <2> QED BY <2>1 DEF Board!Next
<1> QED BY <1>1, <1>2, <1>3, <1>4, <1>5, <1>6, ShowRefines DEF Next

(***************************************************************************)
(* The comments screen implements the board: whatever the order in which   *)
(* comments are written, arrive and are delivered, every step writes one,  *)
(* opens or closes a thread, or shows one comment of it for the first time.*)
(***************************************************************************)
THEOREM CommentsImplementBoard == Spec => ImplementsBoard
<1>1. Init => Board!Init
      BY InitRefines
<1>2. Inv /\ [Next]_vars => [Board!Next]_(Board!vars)
      BY NextRefines
<1> QED BY <1>1, <1>2, CommentsInv, PTL DEF Spec, ImplementsBoard, Board!Spec
=============================================================================
