-------------------------- MODULE UserRecordProofs --------------------------
(***************************************************************************)
(* Proofs about fetchUser and the screens that show a user's record, for   *)
(* any number of users, listeners, sign-ins and changes of records.        *)
(***************************************************************************)
EXTENDS UserRecord, FiniteSetTheorems, SequenceTheorems, TLAPS

\* What a record or a closure may hold.
Content == Infos \cup {NoInfo}

\* The listeners, and the screens they belong to.
ListenersOK ==
    /\ AuthTypeOK(Users \cup {NoUser})
    /\ Len(told) > 0
    /\ fetched \in Seq(Content)
    /\ Len(fetched) = Len(told)
    /\ profile \in 0 .. Len(told)
    /\ form \in 0 .. Len(told)

\* The observers they have made, and the closures raised for them.
ObserversOK ==
    /\ observers \in Seq([lis: Nat \ {0}, uid: Users])
    /\ \A r \in DOMAIN observers : observers[r].lis \in DOMAIN told
    /\ registered \in 0 .. Len(observers)
    /\ values \in Seq([reg: Nat \ {0}, info: Content])
    /\ \A n \in DOMAIN values : values[n].reg \in 1 .. registered

RecordsOK ==
    /\ records \in [Users -> Content]
    /\ view \in [Users -> Content \cup {Unknown}]
    /\ held \in [Users -> SUBSET Infos]
    /\ signUp \in Users \cup {NoUser}

(***************************************************************************)
(* What makes FormHasOwnName inductive: whatever is cached, on its way or  *)
(* was handed to a listener has been in the record of the user that is     *)
(* observed.                                                               *)
(***************************************************************************)
CacheWasHeld ==
    \A u \in Users : /\ records[u] \in held[u] \cup {NoInfo}
                     /\ view[u] \in held[u] \cup {NoInfo, Unknown}

ValuesWereHeld ==
    \A n \in DOMAIN values :
        values[n].info \in held[observers[values[n].reg].uid] \cup {NoInfo}

FetchedWasHeld ==
    \A l \in DOMAIN fetched :
        \/ fetched[l] = NoInfo
        \/ \E r \in DOMAIN observers : /\ observers[r].lis = l
                                       /\ fetched[l] \in held[observers[r].uid]

(***************************************************************************)
(* What makes ShowsOwnRecord inductive.  The last closure on its way to a  *)
(* listener whose observers are all of one user has what the cache holds   *)
(* of her record; when none is on its way, the listener was handed that.   *)
(***************************************************************************)
OnTheWay(l) == {n \in DOMAIN values : observers[values[n].reg].lis = l}

\* All of listener l's observers, and there is one, are of user u.
Observes(l, u) ==
    /\ \E r \in 1 .. registered : observers[r].lis = l
    /\ \A r \in 1 .. registered : observers[r].lis = l => observers[r].uid = u

LastIs(l, i) ==
    \/ OnTheWay(l) = {} /\ i \in {fetched[l], NoInfo}
    \/ \E n \in OnTheWay(l) :
          \A m \in OnTheWay(l) : m >= n => values[m].info = i

Fresh ==
    \A l \in DOMAIN told, u \in Users :
        view[u] # Unknown /\ Observes(l, u) => LastIs(l, view[u])

\* A listener was told of the current user, or its call is on the queue.
ToldOrCalled ==
    \A l \in DOMAIN told :
        told[l] = currentUser \/ \E n \in DOMAIN authCalls : authCalls[n] = l

\* A listener that was told of a user has an observer of her record.
ToldHasObserver ==
    \A l \in DOMAIN told :
        told[l] \in Users => \E r \in DOMAIN observers :
                                observers[r].lis = l /\ observers[r].uid = told[l]

\* The inductive invariant.
Inv ==
    /\ ListenersOK /\ ObserversOK /\ RecordsOK
    /\ CacheWasHeld /\ ValuesWereHeld /\ FetchedWasHeld
    /\ Fresh
    /\ ToldOrCalled /\ ToldHasObserver

-----------------------------------------------------------------------------
\* What a list holds.
LEMMA Element ==
    ASSUME NEW S, NEW s \in Seq(S), NEW i \in DOMAIN s PROVE s[i] \in S
OBVIOUS

\* A one-element list.
LEMMA Single ==
    ASSUME NEW S, NEW x \in S
    PROVE  /\ <<x>> \in Seq(S) /\ Len(<<x>>) = 1 /\ DOMAIN <<x>> = {1}
           /\ <<x>>[1] = x /\ <<x>> # <<>>
OBVIOUS

\* A list of elements of A is a list of elements of a larger set.
LEMMA SeqMono ==
    ASSUME NEW A, NEW B, A \subseteq B, NEW s \in Seq(A)
    PROVE  s \in Seq(B)
BY SeqDef

\* An element is added to a list.
LEMMA Appended ==
    ASSUME NEW S, NEW s \in Seq(S), NEW x \in S
    PROVE  /\ Append(s, x) \in Seq(S)
           /\ Len(Append(s, x)) = Len(s) + 1
           /\ DOMAIN Append(s, x) = DOMAIN s \cup {Len(s) + 1}
           /\ \A i \in DOMAIN s : Append(s, x)[i] = s[i]
           /\ Append(s, x)[Len(s) + 1] = x
           /\ Len(s) + 1 \notin DOMAIN s
           /\ Len(s) + 1 \in Nat \ {0}
OBVIOUS

\* The oldest element of a list is taken.
LEMMA Taken ==
    ASSUME NEW S, NEW s \in Seq(S), s # <<>>
    PROVE  /\ Tail(s) \in Seq(S)
           /\ Len(Tail(s)) = Len(s) - 1 /\ Len(s) \in Nat \ {0}
           /\ DOMAIN s = 1 .. Len(s) /\ DOMAIN Tail(s) = 1 .. Len(s) - 1
           /\ \A n \in DOMAIN Tail(s) : n + 1 \in DOMAIN s /\ Tail(s)[n] = s[n + 1]
           /\ \A n \in DOMAIN s : n # 1 => n - 1 \in DOMAIN Tail(s) /\ Tail(s)[n - 1] = s[n]
           /\ 1 \in DOMAIN s /\ Head(s) = s[1] /\ Head(s) \in S
<1>1. /\ Len(s) \in Nat \ {0} /\ DOMAIN s = 1 .. Len(s) /\ 1 \in DOMAIN s
      /\ Head(s) = s[1] /\ Head(s) \in S
      OBVIOUS
<1>2. Tail(s) \in Seq(S) /\ Len(Tail(s)) = Len(s) - 1
      OBVIOUS
<1>3. DOMAIN Tail(s) = 1 .. Len(s) - 1
      BY <1>2
<1>4. \A n \in DOMAIN Tail(s) : n + 1 \in DOMAIN s /\ Tail(s)[n] = s[n + 1]
      BY <1>1, <1>3
<1>5. ASSUME NEW n \in DOMAIN s, n # 1
      PROVE  n - 1 \in DOMAIN Tail(s) /\ Tail(s)[n - 1] = s[n]
  <2>1. n - 1 \in DOMAIN Tail(s) /\ (n - 1) + 1 = n
        BY <1>1, <1>3, <1>5
  <2> QED BY <1>4, <2>1
<1> QED BY <1>1, <1>2, <1>3, <1>4, <1>5

\* The initial states.
LEMMA InitInv == Init => Inv
<1> SUFFICES ASSUME Init PROVE Inv
    OBVIOUS
<1>1. told = <<Never>> /\ Len(told) = 1 /\ DOMAIN told = {1} /\ told[1] = Never
      /\ told \in Seq((Users \cup {NoUser}) \cup {Never})
      BY Single DEF Init, AuthInit
<1>2. authCalls \in Seq(DOMAIN told) /\ 1 \in DOMAIN authCalls /\ authCalls[1] = 1
      BY <1>1, Single DEF Init, AuthInit
<1>3. fetched \in Seq(Content) /\ Len(fetched) = 1 /\ DOMAIN fetched = {1}
      /\ fetched[1] = NoInfo
      BY Single DEF Init, Content
<1>4. /\ observers = <<>> /\ values = <<>> /\ registered = 0
      /\ <<>> \in Seq([lis: Nat \ {0}, uid: Users])
      /\ <<>> \in Seq([reg: Nat \ {0}, info: Content])
      /\ DOMAIN observers = {} /\ DOMAIN values = {} /\ Len(observers) = 0
      BY DEF Init
<1>5. records \in [Users -> Content]
      BY UserRecordAssumption DEF Init, Content
<1>6. ListenersOK
      BY <1>1, <1>2, <1>3, MaxAuthAssumption
      DEF Init, AuthInit, AuthTypeOK, ListenersOK
<1>7. ObserversOK
      BY <1>4 DEF ObserversOK
<1>8. RecordsOK /\ CacheWasHeld
      BY <1>5 DEF Init, RecordsOK, CacheWasHeld, Content
<1>9. ValuesWereHeld /\ FetchedWasHeld /\ Fresh
      BY <1>3, <1>4 DEF Init, ValuesWereHeld, FetchedWasHeld, Fresh, Observes
<1>10. ToldOrCalled /\ ToldHasObserver
      BY <1>1, <1>2, UserRecordAssumption DEF ToldOrCalled, ToldHasObserver
<1> QED BY <1>6, <1>7, <1>8, <1>9, <1>10 DEF Inv

-----------------------------------------------------------------------------
\* A sign-in or sign-out calls every listener.
LEMMA SetUserInv ==
    ASSUME Inv, NEW u \in Users \cup {NoUser}, SetUser(u),
           UNCHANGED <<data, fetchVars, profile, form>>,
           signUp' \in Users \cup {NoUser}
    PROVE  Inv'
<1> DEFINE all == [l \in 1 .. Len(told) |-> l]
<1>0. /\ told \in Seq(Users \cup {NoUser} \cup {Never}) /\ authCalls \in Seq(DOMAIN told)
      /\ authSteps \in 0 .. MaxAuth /\ Len(told) \in Nat /\ DOMAIN told = 1 .. Len(told)
      BY DEF Inv, ListenersOK, AuthTypeOK
<1>1. all \in Seq(DOMAIN told) /\ Len(all) = Len(told)
      BY <1>0
<1>2. /\ authCalls' \in Seq(DOMAIN told)
      /\ \A l \in DOMAIN told : /\ Len(authCalls) + l \in DOMAIN authCalls'
                                /\ authCalls'[Len(authCalls) + l] = l
  <2>1. authCalls' = authCalls \o all
        BY DEF SetUser
  <2>2. authCalls \o all \in Seq(DOMAIN told)
        BY <1>0, <1>1
  <2>3. \A l \in DOMAIN told : /\ Len(authCalls) + l \in DOMAIN (authCalls \o all)
                                /\ (authCalls \o all)[Len(authCalls) + l] = l
        BY <1>0, <1>1
  <2> QED BY <2>1, <2>2, <2>3
<1>3. authSteps' \in 0 .. MaxAuth
      BY <1>0, MaxAuthAssumption DEF SetUser
<1>4. UNCHANGED <<records, view, held, observers, registered, values, fetched, told,
                  profile, form>> /\ currentUser' = u
      BY DEF SetUser, data, fetchVars
<1>5. ListenersOK'
      BY <1>2, <1>3, <1>4 DEF Inv, ListenersOK, AuthTypeOK
<1>6. ObserversOK' /\ RecordsOK' /\ CacheWasHeld' /\ ValuesWereHeld' /\ FetchedWasHeld'
      BY <1>4 DEF Inv, ObserversOK, RecordsOK, CacheWasHeld, ValuesWereHeld,
                  FetchedWasHeld
<1>7. Fresh'
      BY <1>4 DEF Inv, Fresh, Observes, LastIs, OnTheWay
<1>8. ToldOrCalled'
      BY <1>2, <1>4 DEF ToldOrCalled
<1>9. ToldHasObserver'
      BY <1>4 DEF Inv, ToldHasObserver
<1> QED BY <1>5, <1>6, <1>7, <1>8, <1>9 DEF Inv

\* The forms that are closed without a change of a record, and the edit
\* profile form that is opened.
LEMMA ScreensInv ==
    ASSUME Inv, UNCHANGED <<authVars, data, fetchVars, signUp, profile>>,
           form' \in {form, 0}
    PROVE  Inv'
<1>1. UNCHANGED <<currentUser, authSteps, authCalls, records, view, held, observers,
                  registered, values, fetched, told, profile, signUp>>
      BY DEF authVars, data, fetchVars
<1>2. ListenersOK'
      BY <1>1 DEF Inv, ListenersOK, AuthTypeOK
<1>3. ObserversOK' /\ RecordsOK' /\ CacheWasHeld' /\ ValuesWereHeld' /\ FetchedWasHeld'
      BY <1>1 DEF Inv, ObserversOK, RecordsOK, CacheWasHeld, ValuesWereHeld,
                  FetchedWasHeld
<1>4. Fresh' /\ ToldOrCalled' /\ ToldHasObserver'
      BY <1>1 DEF Inv, Fresh, Observes, LastIs, OnTheWay, ToldOrCalled, ToldHasObserver
<1> QED BY <1>2, <1>3, <1>4 DEF Inv

\* A screen calls fetchUser, which adds a listener.
LEMMA ListenerInv ==
    ASSUME Inv, addStateDidChangeListener, fetched' = Append(fetched, NoInfo),
           UNCHANGED <<data, observers, registered, values, signUp>>,
           profile' \in {profile, Len(told) + 1}, form' \in {form, Len(told) + 1}
    PROVE  Inv'
<1>0. /\ told \in Seq(Users \cup {NoUser} \cup {Never}) /\ authCalls \in Seq(DOMAIN told)
      /\ authSteps \in 0 .. MaxAuth /\ Len(told) \in Nat /\ DOMAIN told = 1 .. Len(told)
      /\ fetched \in Seq(Content) /\ Len(fetched) = Len(told)
      /\ profile \in 0 .. Len(told) /\ form \in 0 .. Len(told)
      /\ DOMAIN fetched = DOMAIN told
      /\ currentUser \in Users \cup {NoUser}
      BY DEF Inv, ListenersOK, AuthTypeOK
<1>1. /\ told' \in Seq(Users \cup {NoUser} \cup {Never})
      /\ Len(told') = Len(told) + 1
      /\ DOMAIN told' = DOMAIN told \cup {Len(told) + 1}
      /\ \A l \in DOMAIN told : told'[l] = told[l]
      /\ told'[Len(told) + 1] = Never
      /\ Len(told) + 1 \notin DOMAIN told
      BY <1>0, Appended DEF addStateDidChangeListener
<1>2. /\ fetched' \in Seq(Content)
      /\ Len(fetched') = Len(told) + 1
      /\ DOMAIN fetched' = DOMAIN told \cup {Len(told) + 1}
      /\ \A l \in DOMAIN told : fetched'[l] = fetched[l]
      /\ fetched'[Len(told) + 1] = NoInfo
  <2>1. NoInfo \in Content
        BY DEF Content
  <2> QED BY <1>0, <2>1, Appended
<1>3. /\ authCalls' \in Seq(DOMAIN told')
      /\ DOMAIN authCalls' = DOMAIN authCalls \cup {Len(authCalls) + 1}
      /\ \A n \in DOMAIN authCalls : authCalls'[n] = authCalls[n]
      /\ authCalls'[Len(authCalls) + 1] = Len(told) + 1
  <2>1. authCalls \in Seq(DOMAIN told')
        BY <1>0, <1>1, SeqMono
  <2>2. Len(told) + 1 \in DOMAIN told'
        BY <1>1
  <2> QED BY <2>1, <2>2, Appended DEF addStateDidChangeListener
<1>4. UNCHANGED <<records, view, held, observers, registered, values, signUp,
                  currentUser, authSteps>>
      BY DEF addStateDidChangeListener, data
<1>5. ListenersOK'
  <2>1. profile' \in 0 .. Len(told) + 1 /\ form' \in 0 .. Len(told) + 1
        BY <1>0
  <2> QED BY <1>0, <1>1, <1>2, <1>3, <1>4, <2>1 DEF ListenersOK, AuthTypeOK
<1>6. ObserversOK'
      BY <1>1, <1>4 DEF Inv, ObserversOK
<1>7. RecordsOK' /\ CacheWasHeld' /\ ValuesWereHeld'
      BY <1>4 DEF Inv, RecordsOK, CacheWasHeld, ValuesWereHeld
<1>8. FetchedWasHeld'
  <2>1. ASSUME NEW l \in DOMAIN told
        PROVE  \/ fetched'[l] = NoInfo
               \/ \E r \in DOMAIN observers : /\ observers[r].lis = l
                                              /\ fetched'[l] \in held[observers[r].uid]
    <3>1. fetched'[l] = fetched[l] /\ l \in DOMAIN fetched
          BY <1>0, <1>2
    <3> QED BY <3>1 DEF Inv, FetchedWasHeld
  <2> QED BY <1>2, <1>4, <2>1 DEF FetchedWasHeld
<1>9. Fresh'
  <2> SUFFICES ASSUME NEW l \in DOMAIN told', NEW u \in Users,
                      view[u] # Unknown, Observes(l, u)'
               PROVE  LastIs(l, view[u])'
      BY <1>4 DEF Fresh
  <2>1. Observes(l, u) /\ OnTheWay(l)' = OnTheWay(l)
        BY <1>4 DEF Observes, OnTheWay
  <2>2. l \in DOMAIN told
    <3>1. PICK r \in 1 .. registered : observers[r].lis = l
          BY <2>1 DEF Observes
    <3>2. r \in DOMAIN observers
          BY DEF Inv, ObserversOK
    <3> QED BY <3>1, <3>2 DEF Inv, ObserversOK
  <2>3. LastIs(l, view[u])
        BY <2>1, <2>2 DEF Inv, Fresh
  <2> QED BY <1>2, <1>4, <2>1, <2>2, <2>3 DEF LastIs
<1>10. ToldOrCalled'
  <2> SUFFICES ASSUME NEW l \in DOMAIN told'
               PROVE  told'[l] = currentUser \/ \E n \in DOMAIN authCalls' :
                                                    authCalls'[n] = l
      BY <1>4 DEF ToldOrCalled
  <2>1. CASE l = Len(told) + 1
        BY <1>3, <2>1
  <2>2. CASE l \in DOMAIN told
        BY <1>1, <1>3, <2>2 DEF Inv, ToldOrCalled
  <2> QED BY <1>1, <2>1, <2>2
<1>11. ToldHasObserver'
      BY <1>1, <1>4, UserRecordAssumption DEF Inv, ToldHasObserver
<1> QED BY <1>5, <1>6, <1>7, <1>8, <1>9, <1>10, <1>11 DEF Inv

\* The main queue calls the oldest listener, which may make an observer.
LEMMA fetchUserInv == ASSUME Inv, fetchUser PROVE Inv'
<1> DEFINE new(l) == [lis |-> l, uid |-> currentUser]
<1>0. /\ told \in Seq(Users \cup {NoUser} \cup {Never}) /\ authCalls \in Seq(DOMAIN told)
      /\ authSteps \in 0 .. MaxAuth /\ Len(told) \in Nat /\ DOMAIN told = 1 .. Len(told)
      /\ currentUser \in Users \cup {NoUser}
      /\ observers \in Seq([lis: Nat \ {0}, uid: Users])
      /\ registered \in 0 .. Len(observers)
      BY DEF Inv, ListenersOK, AuthTypeOK, ObserversOK
<1>1. PICK l \in DOMAIN told :
          /\ CallListener(l)
          /\ observers' = IF IsNews(l) /\ currentUser # NoUser
                          THEN Append(observers, new(l)) ELSE observers
      BY DEF fetchUser
<1>2. /\ UNCHANGED <<records, view, held, registered, values, fetched, signUp, profile,
                     form, currentUser, authSteps>>
      /\ authCalls # <<>> /\ l = Head(authCalls) /\ authCalls' = Tail(authCalls)
      /\ told' = [told EXCEPT ![l] = currentUser]
      BY <1>1 DEF fetchUser, CallListener, data, signVars, screens
<1>3. /\ told' \in Seq(Users \cup {NoUser} \cup {Never})
      /\ Len(told') = Len(told) /\ DOMAIN told' = DOMAIN told
      /\ told'[l] = currentUser
      /\ \A k \in DOMAIN told : k # l => told'[k] = told[k]
      BY <1>0, <1>2
<1>4. /\ authCalls' \in Seq(DOMAIN told)
      /\ \A n \in DOMAIN authCalls : n # 1 => /\ n - 1 \in DOMAIN authCalls'
                                              /\ authCalls'[n - 1] = authCalls[n]
      /\ authCalls[1] = l
      BY <1>0, <1>2, Taken
<1>5. /\ observers' \in Seq([lis: Nat \ {0}, uid: Users])
      /\ Len(observers) <= Len(observers') /\ Len(observers') \in Nat
      /\ \A r \in DOMAIN observers : r \in DOMAIN observers' /\ observers'[r] = observers[r]
      /\ \A r \in DOMAIN observers' : observers'[r].lis \in DOMAIN told
      /\ currentUser \in Users /\ IsNews(l) =>
            \E r \in DOMAIN observers' : /\ observers'[r].lis = l
                                         /\ observers'[r].uid = currentUser
  <2>0. \A r \in DOMAIN observers : observers[r].lis \in DOMAIN told
        BY DEF Inv, ObserversOK
  <2>1. CASE IsNews(l) /\ currentUser # NoUser
    <3>1. new(l) \in [lis: Nat \ {0}, uid: Users] /\ new(l).lis = l
          /\ new(l).uid = currentUser
          BY <1>0, <2>1
    <3>2. observers' = Append(observers, new(l))
          BY <1>1, <2>1
    <3> HIDE DEF new
    <3>3. /\ observers' \in Seq([lis: Nat \ {0}, uid: Users])
          /\ Len(observers') = Len(observers) + 1
          /\ DOMAIN observers' = DOMAIN observers \cup {Len(observers) + 1}
          /\ \A r \in DOMAIN observers : observers'[r] = observers[r]
          /\ observers'[Len(observers) + 1] = new(l)
          BY <1>0, <3>1, <3>2, Appended
    <3>4. Len(observers) <= Len(observers') /\ Len(observers') \in Nat
      <4>1. Len(observers) \in Nat
            BY <1>0
      <4> QED BY <3>3, <4>1
    <3>5. PICK k : k = Len(observers) + 1
          OBVIOUS
    <3>6. /\ DOMAIN observers' = DOMAIN observers \cup {k}
          /\ observers'[k].lis = l /\ observers'[k].uid = currentUser
          BY <3>1, <3>3, <3>5
    <3> QED BY <2>0, <3>3, <3>4, <3>6
  <2>2. CASE ~(IsNews(l) /\ currentUser # NoUser)
    <3>1. observers' = observers
          BY <1>1, <2>2
    <3> QED BY <1>0, <2>0, <2>2, <3>1, UserRecordAssumption
  <2> QED BY <2>1, <2>2
<1>6. ListenersOK'
      BY <1>0, <1>2, <1>3, <1>4 DEF Inv, ListenersOK, AuthTypeOK
<1>7. ObserversOK'
  <2>1. registered' \in 0 .. Len(observers')
        BY <1>0, <1>2, <1>5
  <2>2. values' \in Seq([reg: Nat \ {0}, info: Content])
        /\ \A n \in DOMAIN values' : values'[n].reg \in 1 .. registered'
        BY <1>2 DEF Inv, ObserversOK
  <2> QED BY <1>3, <1>5, <2>1, <2>2 DEF ObserversOK
<1>8. RecordsOK' /\ CacheWasHeld'
      BY <1>2 DEF Inv, RecordsOK, CacheWasHeld
<1>9. \A r \in 1 .. registered : r \in DOMAIN observers /\ observers'[r] = observers[r]
  <2>1. 1 .. registered \subseteq DOMAIN observers
        BY <1>0
  <2> QED BY <1>5, <2>1
<1>10. \A n \in DOMAIN values : observers'[values[n].reg] = observers[values[n].reg]
      BY <1>9 DEF Inv, ObserversOK
<1>11. ValuesWereHeld'
      BY <1>2, <1>10 DEF Inv, ValuesWereHeld
<1>12. FetchedWasHeld'
      BY <1>2, <1>5 DEF Inv, FetchedWasHeld
<1>13. Fresh'
  <2> SUFFICES ASSUME NEW k \in DOMAIN told, NEW u \in Users,
                      view[u] # Unknown, Observes(k, u)'
               PROVE  LastIs(k, view[u])'
      BY <1>2, <1>3 DEF Fresh
  <2>1. Observes(k, u) /\ OnTheWay(k)' = OnTheWay(k)
        BY <1>2, <1>9, <1>10 DEF Observes, OnTheWay
  <2>2. LastIs(k, view[u])
        BY <2>1 DEF Inv, Fresh
  <2> QED BY <1>2, <2>1, <2>2 DEF LastIs
<1>14. ToldOrCalled'
  <2> SUFFICES ASSUME NEW k \in DOMAIN told, k # l
               PROVE  told'[k] = currentUser \/ \E n \in DOMAIN authCalls' :
                                                    authCalls'[n] = k
      BY <1>2, <1>3 DEF ToldOrCalled
  <2>1. CASE told[k] = currentUser
        BY <1>3, <2>1
  <2>2. ASSUME NEW n \in DOMAIN authCalls, authCalls[n] = k
        PROVE  \E m \in DOMAIN authCalls' : authCalls'[m] = k
        BY <1>4, <2>2
  <2> QED BY <2>1, <2>2 DEF Inv, ToldOrCalled
<1>15. ToldHasObserver'
  <2> SUFFICES ASSUME NEW k \in DOMAIN told, told'[k] \in Users
               PROVE  \E r \in DOMAIN observers' : /\ observers'[r].lis = k
                                                   /\ observers'[r].uid = told'[k]
      BY <1>3 DEF ToldHasObserver
  <2>1. CASE k = l /\ IsNews(l)
        BY <1>3, <1>5, <2>1
  <2>2. CASE told'[k] = told[k]
        BY <1>5, <2>2 DEF Inv, ToldHasObserver
  <2>3. k # l \/ ~IsNews(l) => told'[k] = told[k]
        BY <1>3 DEF IsNews
  <2> QED BY <2>1, <2>2, <2>3
<1> QED BY <1>6, <1>7, <1>8, <1>11, <1>12, <1>13, <1>14, <1>15 DEF Inv

-----------------------------------------------------------------------------
\* The closures on the main queue.
Value == [reg: Nat \ {0}, info: Content]

\* What new closures behind the others are.
LEMMA QueueGrows ==
    ASSUME NEW V, NEW s \in Seq(V), NEW new \in Seq(V)
    PROVE  /\ s \o new \in Seq(V)
           /\ \A n \in DOMAIN s : n \in DOMAIN (s \o new) /\ (s \o new)[n] = s[n]
           /\ \A j \in DOMAIN new : /\ Len(s) + j \in DOMAIN (s \o new)
                                    /\ (s \o new)[Len(s) + j] = new[j]
           /\ \A n \in DOMAIN (s \o new) :
                 n \notin DOMAIN s => /\ n > Len(s)
                                      /\ n - Len(s) \in DOMAIN new
                                      /\ (s \o new)[n] = new[n - Len(s)]
<1>1. /\ s \o new \in Seq(V) /\ Len(s) \in Nat /\ Len(new) \in Nat
      /\ DOMAIN s = 1 .. Len(s) /\ DOMAIN new = 1 .. Len(new)
      /\ DOMAIN (s \o new) = 1 .. Len(s) + Len(new)
      OBVIOUS
<1>2. \A n \in DOMAIN s : n \in DOMAIN (s \o new) /\ (s \o new)[n] = s[n]
      BY <1>1
<1>3. ASSUME NEW j \in DOMAIN new
      PROVE  Len(s) + j \in DOMAIN (s \o new) /\ (s \o new)[Len(s) + j] = new[j]
      BY <1>1
<1>4. ASSUME NEW n \in DOMAIN (s \o new), n \notin DOMAIN s
      PROVE  /\ n > Len(s) /\ n - Len(s) \in DOMAIN new
             /\ (s \o new)[n] = new[n - Len(s)]
      BY <1>1, <1>4
<1> QED BY <1>1, <1>2, <1>3, <1>4

\* New closures that hand i to listener l are the last ones on their way to it.
LEMMA LastGrows ==
    ASSUME values \in Seq(Value), NEW new \in Seq(Value), values' = values \o new,
           observers' = observers, NEW l, NEW i,
           \A j \in DOMAIN new : observers[new[j].reg].lis = l => new[j].info = i,
           NEW j \in DOMAIN new, observers[new[j].reg].lis = l
    PROVE  LastIs(l, i)'
<1>1. Len(values) + j \in OnTheWay(l)'
      BY QueueGrows DEF OnTheWay
<1>2. ASSUME NEW m \in OnTheWay(l)', m >= Len(values) + j
      PROVE  values'[m].info = i
  <2>1. m \in DOMAIN values' /\ observers[values'[m].reg].lis = l
        BY DEF OnTheWay
  <2>2. m \notin DOMAIN values
    <3>1. Len(values) \in Nat /\ DOMAIN values = 1 .. Len(values) /\ j \in Nat \ {0}
          OBVIOUS
    <3> QED BY <1>2, <3>1
  <2>3. m - Len(values) \in DOMAIN new /\ values'[m] = new[m - Len(values)]
        BY <2>1, <2>2, QueueGrows
  <2> QED BY <2>1, <2>3
<1> QED BY <1>1, <1>2 DEF LastIs

\* New closures for other listeners change nothing for listener l.
LEMMA LastStays ==
    ASSUME values \in Seq(Value), NEW new \in Seq(Value), values' = values \o new,
           observers' = observers, NEW l, NEW i,
           \A j \in DOMAIN new : observers[new[j].reg].lis # l,
           LastIs(l, i), fetched' = fetched
    PROVE  LastIs(l, i)'
<1>1. \A n \in DOMAIN values : n \in DOMAIN values' /\ values'[n] = values[n]
      BY QueueGrows
<1>2. \A n \in DOMAIN values' : n \notin DOMAIN values => observers[values'[n].reg].lis # l
      BY QueueGrows
<1>3. OnTheWay(l)' = OnTheWay(l) /\ \A n \in OnTheWay(l) : values'[n] = values[n]
      BY <1>1, <1>2 DEF OnTheWay
<1> QED BY <1>3 DEF LastIs

\* Nothing new changes nothing.
LEMMA ConcatEmpty == ASSUME NEW V, NEW s \in Seq(V) PROVE s \o <<>> = s
OBVIOUS

\* The database queue carries out an observe call.
LEMMA RegisterInv == ASSUME Inv, Register PROVE Inv'
<1>0. /\ observers \in Seq([lis: Nat \ {0}, uid: Users])
      /\ registered \in 0 .. Len(observers) /\ registered < Len(observers)
      /\ registered' = registered + 1 /\ values \in Seq(Value)
      /\ \A n \in DOMAIN values : values[n].reg \in 1 .. registered
      BY DEF Inv, ObserversOK, Register, Value
<1>1. UNCHANGED <<currentUser, authSteps, authCalls, records, view, held, observers,
                  fetched, told, profile, form, signUp>>
      BY DEF Register, authVars, data, signVars, screens
<1>2. PICK k : k = registered + 1
      OBVIOUS
<1>3. /\ k \in DOMAIN observers /\ k \in Nat \ {0} /\ 1 .. k = (1 .. registered) \cup {k}
      /\ k \notin 1 .. registered /\ registered' = k
      BY <1>0, <1>2
<1>4. PICK o \in [lis: Nat \ {0}, uid: Users] : o = observers[k]
      BY <1>0, <1>3, Element
<1>5. view[o.uid] \in Content \cup {Unknown} /\ o.lis \in DOMAIN told /\ o.uid \in Users
      BY <1>3, <1>4 DEF Inv, RecordsOK, ObserversOK
<1>6. PICK new \in Seq(Value) :
          /\ values' = values \o new
          /\ \A j \in DOMAIN new : new[j] = [reg |-> k, info |-> view[o.uid]]
          /\ view[o.uid] # Unknown => 1 \in DOMAIN new
  <2>1. CASE view[o.uid] = Unknown
    <3>1. values' = values
          BY <1>2, <1>4, <2>1 DEF Register
    <3>0. <<>> \in Seq(Value)
          OBVIOUS
    <3>2. PICK e \in Seq(Value) : e = <<>>
          BY <3>0
    <3>3. values' = values \o e /\ DOMAIN e = {}
          BY <1>0, <3>1, <3>2, ConcatEmpty
    <3> QED BY <2>1, <3>3
  <2>2. CASE view[o.uid] # Unknown
    <3>1. PICK v : v = [reg |-> k, info |-> view[o.uid]]
          OBVIOUS
    <3>2. v \in Value
          BY <1>3, <1>5, <2>2, <3>1 DEF Value
    <3>3. values' = Append(values, v)
          BY <1>2, <1>4, <2>2, <3>1 DEF Register
    <3>4. PICK e \in Seq(Value) : e = <<v>>
          BY <3>2, Single
    <3>5. values' = values \o e
          BY <1>0, <3>2, <3>3, <3>4
    <3>6. DOMAIN e = {1} /\ e[1] = v
          BY <3>2, <3>4, Single
    <3> QED BY <3>1, <3>5, <3>6
  <2> QED BY <2>1, <2>2
<1>7. \A j \in DOMAIN new : new[j].reg = k /\ new[j].info = view[o.uid]
      BY <1>6
<1>8. ListenersOK' /\ RecordsOK' /\ CacheWasHeld' /\ FetchedWasHeld'
      BY <1>1 DEF Inv, ListenersOK, AuthTypeOK, RecordsOK, CacheWasHeld, FetchedWasHeld
<1>9. \A n \in DOMAIN values' :
          \/ n \in DOMAIN values /\ values'[n] = values[n]
          \/ values'[n].reg = k /\ values'[n].info = view[o.uid]
      BY <1>0, <1>6, <1>7, QueueGrows
<1>10. ObserversOK'
  <2>1. values' \in Seq(Value)
        BY <1>0, <1>6, QueueGrows
  <2>2. registered' \in 0 .. Len(observers)
        BY <1>0
  <2>3. \A n \in DOMAIN values' : values'[n].reg \in 1 .. k
        BY <1>0, <1>3, <1>9
  <2> QED BY <1>1, <1>3, <2>1, <2>2, <2>3 DEF Inv, ObserversOK, Value
<1>11. ValuesWereHeld'
  <2>1. view[o.uid] # Unknown => view[o.uid] \in held[o.uid] \cup {NoInfo}
        BY <1>5 DEF Inv, CacheWasHeld
  <2>2. ASSUME NEW n \in DOMAIN values'
        PROVE  values'[n].info \in held[observers[values'[n].reg].uid] \cup {NoInfo}
    <3>1. CASE n \in DOMAIN values /\ values'[n] = values[n]
          BY <3>1 DEF Inv, ValuesWereHeld
    <3>2. CASE values'[n].reg = k /\ values'[n].info = view[o.uid]
      <4>1. values'[n] \in [reg: Nat \ {0}, info: Content]
            BY <1>10, <2>2, Element DEF ObserversOK
      <4>2. view[o.uid] # Unknown
            BY <3>2, <4>1, UserRecordAssumption DEF Content
      <4> QED BY <1>4, <2>1, <3>2, <4>2
    <3> QED BY <1>9, <3>1, <3>2
  <2> QED BY <1>1, <2>2 DEF ValuesWereHeld
<1>12. Fresh'
  <2> SUFFICES ASSUME NEW l \in DOMAIN told, NEW u \in Users,
                      view[u] # Unknown, Observes(l, u)'
               PROVE  LastIs(l, view[u])'
      BY <1>1 DEF Fresh
  <2>1. /\ \E r \in 1 .. k : observers[r].lis = l
        /\ \A r \in 1 .. k : observers[r].lis = l => observers[r].uid = u
        BY <1>1, <1>3 DEF Observes
  <2>2. CASE l = o.lis
    <3>1. u = o.uid
          BY <1>3, <1>4, <2>1, <2>2
    <3>2. 1 \in DOMAIN new
          BY <1>6, <3>1
    <3>3. /\ \A j \in DOMAIN new : observers[new[j].reg].lis = l => new[j].info = view[u]
          /\ observers[new[1].reg].lis = l
          BY <1>4, <1>7, <2>2, <3>1, <3>2
    <3>4. LastIs(l, view[u])'
      <4>1. PICK i : i = view[u]
            OBVIOUS
      <4>2. LastIs(l, i)'
            BY <1>0, <1>1, <1>6, <3>2, <3>3, <4>1, LastGrows
      <4> QED BY <1>1, <4>1, <4>2
    <3> QED BY <3>4
  <2>3. CASE l # o.lis
    <3>1. Observes(l, u)
          BY <1>3, <1>4, <2>1, <2>3 DEF Observes
    <3>2. PICK i : i = view[u]
          OBVIOUS
    <3>3. LastIs(l, i)
          BY <3>1, <3>2 DEF Inv, Fresh
    <3>4. \A j \in DOMAIN new : observers[new[j].reg].lis # l
          BY <1>4, <1>7, <2>3
    <3>5. LastIs(l, i)'
          BY <1>0, <1>1, <1>6, <3>3, <3>4, LastStays
    <3> QED BY <1>1, <3>2, <3>5
  <2> QED BY <2>2, <2>3
<1>13. ToldOrCalled' /\ ToldHasObserver'
      BY <1>1 DEF Inv, ToldOrCalled, ToldHasObserver
<1> QED BY <1>8, <1>10, <1>11, <1>12, <1>13 DEF Inv

\* The main queue runs an observer's closure.
LEMMA observeValueInv == ASSUME Inv, observeValue PROVE Inv'
<1>0. /\ values \in Seq(Value) /\ values # <<>> /\ values' = Tail(values)
      /\ \A n \in DOMAIN values : values[n].reg \in 1 .. registered
      /\ fetched \in Seq(Content) /\ Len(fetched) = Len(told)
      BY DEF Inv, ObserversOK, ListenersOK, observeValue, Value
<1>1. UNCHANGED <<currentUser, authSteps, authCalls, records, view, held, observers,
                  registered, told, profile, form, signUp>>
      BY DEF observeValue, authVars, data, signVars, screens
<1>2. /\ values' \in Seq(Value) /\ 1 \in DOMAIN values /\ Head(values) = values[1]
      /\ \A n \in DOMAIN values' : n + 1 \in DOMAIN values /\ values'[n] = values[n + 1]
      /\ \A n \in DOMAIN values : n # 1 => /\ n - 1 \in DOMAIN values'
                                           /\ values'[n - 1] = values[n]
      /\ DOMAIN values \subseteq Nat \ {0} /\ DOMAIN values' \subseteq Nat \ {0}
      BY <1>0, Taken
<1>3. PICK v \in Value : v = values[1]
      BY <1>0, <1>2, Element
<1>4. PICK o \in [lis: Nat \ {0}, uid: Users] : o = observers[v.reg]
  <2>1. v.reg \in DOMAIN observers
        BY <1>0, <1>2, <1>3 DEF Inv, ObserversOK
  <2> QED BY <2>1, Element DEF Inv, ObserversOK
<1>5. v.reg \in DOMAIN observers /\ o.lis \in DOMAIN told /\ v.info \in Content
      BY <1>0, <1>2, <1>3, <1>4 DEF Inv, ObserversOK, Value
<1>6. fetched' = IF v.info = NoInfo THEN fetched
                 ELSE [fetched EXCEPT ![o.lis] = v.info]
      BY <1>2, <1>3, <1>4 DEF observeValue
<1>7. /\ fetched' \in Seq(Content) /\ Len(fetched') = Len(told)
      /\ DOMAIN fetched = DOMAIN told /\ DOMAIN fetched' = DOMAIN told
      /\ \A l \in DOMAIN told : l # o.lis => fetched'[l] = fetched[l]
      /\ v.info = NoInfo => fetched' = fetched
      /\ v.info # NoInfo => fetched'[o.lis] = v.info
  <2>1. /\ DOMAIN fetched = 1 .. Len(told) /\ told \in Seq(Users \cup {NoUser} \cup {Never})
        /\ DOMAIN told = 1 .. Len(told)
        BY <1>0 DEF Inv, ListenersOK, AuthTypeOK
  <2> QED BY <1>0, <1>5, <1>6, <2>1
<1>8. ListenersOK'
      BY <1>1, <1>7 DEF Inv, ListenersOK, AuthTypeOK
<1>9. ObserversOK'
  <2>1. \A n \in DOMAIN values' : values'[n].reg \in 1 .. registered
        BY <1>0, <1>2
  <2> QED BY <1>1, <1>2, <2>1 DEF Inv, ObserversOK, Value
<1>10. RecordsOK' /\ CacheWasHeld'
      BY <1>1 DEF Inv, RecordsOK, CacheWasHeld
<1>11. ValuesWereHeld'
      BY <1>1, <1>2 DEF Inv, ValuesWereHeld
<1>12. FetchedWasHeld'
  <2>1. v.info \in held[o.uid] \cup {NoInfo}
        BY <1>2, <1>3, <1>4 DEF Inv, ValuesWereHeld
  <2>2. ASSUME NEW l \in DOMAIN told
        PROVE  \/ fetched'[l] = NoInfo
               \/ \E r \in DOMAIN observers : /\ observers[r].lis = l
                                              /\ fetched'[l] \in held[observers[r].uid]
    <3>1. CASE l = o.lis /\ v.info # NoInfo
          BY <1>4, <1>5, <1>7, <2>1, <3>1
    <3>2. CASE fetched'[l] = fetched[l]
          BY <1>7, <3>2 DEF Inv, FetchedWasHeld
    <3> QED BY <1>7, <3>1, <3>2
  <2> QED BY <1>1, <1>7, <2>2 DEF FetchedWasHeld
<1>13. Fresh'
  <2> SUFFICES ASSUME NEW l \in DOMAIN told, NEW u \in Users,
                      view[u] # Unknown, Observes(l, u)
               PROVE  LastIs(l, view[u])'
      BY <1>1 DEF Fresh, Observes
  <2>0. PICK i : i = view[u]
        OBVIOUS
  <2>1. LastIs(l, i)
        BY <2>0 DEF Inv, Fresh
  <2>2. \A n \in DOMAIN values : n \in OnTheWay(l) /\ n # 1 => n - 1 \in OnTheWay(l)'
        BY <1>1, <1>2 DEF OnTheWay
  <2>3. \A n \in OnTheWay(l)' : /\ n + 1 \in OnTheWay(l) /\ n \in Nat \ {0}
                                /\ values'[n] = values[n + 1]
        BY <1>1, <1>2 DEF OnTheWay
  <2>4. OnTheWay(l) \subseteq DOMAIN values /\ (1 \in OnTheWay(l) <=> l = o.lis)
        BY <1>2, <1>3, <1>4 DEF OnTheWay
  <2>5. CASE OnTheWay(l) = {} /\ i \in {fetched[l], NoInfo}
    <3>1. OnTheWay(l)' = {} /\ fetched'[l] = fetched[l]
          BY <1>7, <2>3, <2>4, <2>5
    <3>2. LastIs(l, i)'
          BY <2>5, <3>1 DEF LastIs
    <3> QED BY <1>1, <2>0, <3>2
  <2>6. ASSUME NEW n \in OnTheWay(l),
               \A m \in OnTheWay(l) : m >= n => values[m].info = i
        PROVE  LastIs(l, view[u])'
    <3>1. ASSUME NEW k \in OnTheWay(l)', k >= n - 1
          PROVE  LastIs(l, i)'
      <4>1. ASSUME NEW m \in OnTheWay(l)', m >= k PROVE values'[m].info = i
        <5>1. m + 1 >= n
              BY <1>2, <2>3, <2>4, <3>1, <4>1
        <5> QED BY <2>3, <2>6, <5>1
      <4> QED BY <4>1 DEF LastIs
    <3>2. CASE n # 1
      <4>1. n - 1 \in OnTheWay(l)' /\ n - 1 >= n - 1
            BY <1>2, <2>2, <2>4, <3>2
      <4> QED BY <1>1, <2>0, <3>1, <4>1
    <3>3. CASE n = 1 /\ OnTheWay(l)' # {}
      <4>1. PICK k \in OnTheWay(l)' : TRUE
            BY <3>3
      <4>2. k >= n - 1
            BY <2>3, <3>3
      <4> QED BY <1>1, <2>0, <3>1, <4>2
    <3>4. CASE n = 1 /\ OnTheWay(l)' = {}
      <4>1. v.info = i /\ l = o.lis
            BY <1>3, <2>4, <2>6, <3>4
      <4>2. i \in {fetched'[l], NoInfo}
            BY <1>7, <4>1
      <4>3. LastIs(l, i)'
            BY <3>4, <4>2 DEF LastIs
      <4> QED BY <1>1, <2>0, <4>3
    <3> QED BY <3>2, <3>3, <3>4
  <2> QED BY <2>1, <2>5, <2>6 DEF LastIs
<1>14. ToldOrCalled' /\ ToldHasObserver'
      BY <1>1 DEF Inv, ToldOrCalled, ToldHasObserver
<1> QED BY <1>8, <1>9, <1>10, <1>11, <1>12, <1>13, <1>14 DEF Inv

-----------------------------------------------------------------------------
\* The enumeration of a finite set of numbers in order leaves nothing out.
LEMMA InOrderCovers ==
    ASSUME NEW S, IsFiniteSet(S), S \subseteq Nat, NEW s \in InOrder(S)
    PROVE  /\ Cardinality(S) \in Nat
           /\ s \in [1 .. Cardinality(S) -> S]
           /\ \A k \in S : \E j \in 1 .. Cardinality(S) : s[j] = k
<1> DEFINE n == Cardinality(S)
<1>1. n \in Nat
      BY FS_CardinalityType
<1>2. s \in [1 .. n -> S] /\ \A i, j \in 1 .. n : i < j => s[i] < s[j]
      BY DEF InOrder
<1> HIDE DEF n
<1>3. ASSUME NEW i \in 1 .. n, NEW j \in 1 .. n, s[i] = s[j] PROVE i = j
  <2>1. s[i] \in Nat /\ s[j] \in Nat
        BY <1>2
  <2>2. ~(i < j) /\ ~(j < i)
        BY <1>2, <1>3, <2>1
  <2> QED BY <1>1, <2>2
<1>4. s \in Injection(1 .. n, S)
      BY <1>2, <1>3 DEF Injection, IsInjective
<1>5. IsFiniteSet(1 .. n) /\ Cardinality(1 .. n) = n
      BY <1>1, FS_Interval
<1>6. s \in Surjection(1 .. n, S)
      BY <1>4, <1>5, FS_Injection DEF n
<1> QED BY <1>1, <1>2, <1>6 DEF Surjection, n

\* A new value i of u's record in the cache raises a closure for every
\* registered observer of u, and no other.
LEMMA CachesFacts ==
    ASSUME Inv, NEW u \in Users, NEW i \in Content, Caches(u, i)
    PROVE  \E new \in Seq(Value) :
              /\ values' = values \o new
              /\ \A j \in DOMAIN new : new[j].reg \in Watching(u) /\ new[j].info = i
              /\ view[u] # i => \A r \in Watching(u) : \E j \in DOMAIN new : new[j].reg = r
<1>0. values \in Seq(Value) /\ registered \in Nat
      BY DEF Inv, ObserversOK, Value
<1>1. CASE view[u] = i
  <2>1. <<>> \in Seq(Value) /\ values' = values
        BY <1>1 DEF Caches
  <2>2. PICK e \in Seq(Value) : e = <<>>
        BY <2>1
  <2>3. values' = values \o e /\ DOMAIN e = {}
        BY <1>0, <2>1, <2>2, ConcatEmpty
  <2> QED BY <1>1, <2>3
<1>2. CASE view[u] # i
  <2>1. PICK S : S = Watching(u)
        OBVIOUS
  <2>2. S \subseteq 1 .. registered /\ S \subseteq Nat \ {0}
        BY <1>0, <2>1 DEF Watching
  <2>3. IsFiniteSet(S)
    <3>1. IsFiniteSet(1 .. registered)
          BY <1>0, FS_Interval
    <3> QED BY <2>2, <3>1, FS_Subset
  <2>4. PICK s \in InOrder(S) :
            values' = values \o [k \in 1 .. Cardinality(S) |-> [reg |-> s[k], info |-> i]]
        BY <1>2, <2>1 DEF Caches
  <2>5. /\ Cardinality(S) \in Nat /\ s \in [1 .. Cardinality(S) -> S]
        /\ \A k \in S : \E j \in 1 .. Cardinality(S) : s[j] = k
        BY <2>2, <2>3, <2>4, InOrderCovers
  <2>6. PICK c \in Nat : c = Cardinality(S)
        BY <2>5
  <2>7. PICK new : new = [k \in 1 .. c |-> [reg |-> s[k], info |-> i]]
        OBVIOUS
  <2>8. \A k \in 1 .. c : [reg |-> s[k], info |-> i] \in Value
        BY <2>2, <2>5, <2>6 DEF Value
  <2>9. new \in Seq(Value) /\ DOMAIN new = 1 .. c
        BY <2>6, <2>7, <2>8
  <2>10. \A j \in 1 .. c : new[j].reg = s[j] /\ new[j].info = i
        BY <2>7
  <2>11. values' = values \o new
        BY <2>4, <2>6, <2>7
  <2>12. /\ \A j \in 1 .. c : new[j].reg \in S
         /\ \A r \in S : \E j \in 1 .. c : new[j].reg = r
        BY <2>5, <2>6, <2>10
  <2>13. /\ \A j \in DOMAIN new : new[j].reg \in Watching(u) /\ new[j].info = i
         /\ \A r \in Watching(u) : \E j \in DOMAIN new : new[j].reg = r
        BY <2>1, <2>9, <2>10, <2>12
  <2> HIDE DEF Value
  <2> QED BY <2>9, <2>11, <2>13, Zenon
<1> QED BY <1>1, <1>2

\* An observer is of a user.
LEMMA ObserverUser ==
    ASSUME NEW s \in Seq([lis: Nat \ {0}, uid: Users]), NEW r \in DOMAIN s
    PROVE  s[r].uid \in Users
<1>1. s[r] \in [lis: Nat \ {0}, uid: Users]
      BY Element
<1> QED BY <1>1

\* The records after a change: what they hold has been added to the history.
Grown ==
    /\ records' \in [Users -> Content]
    /\ held' \in [Users -> SUBSET Infos]
    /\ \A u \in Users : /\ held[u] \subseteq held'[u]
                        /\ records'[u] \in held'[u] \cup {NoInfo}

\* What stays when records change.
RecordFrame ==
    /\ UNCHANGED <<currentUser, authSteps, authCalls, told, observers, registered,
                   fetched, profile, form>>
    /\ signUp' \in Users \cup {NoUser}

\* Records change, and the cache keeps what it holds.
LEMMA StoresInv ==
    ASSUME Inv, Grown, RecordFrame, UNCHANGED <<view, values>>
    PROVE  Inv'
<1>1. ListenersOK' /\ ObserversOK' /\ RecordsOK' /\ ToldOrCalled' /\ ToldHasObserver'
      BY DEF Inv, Grown, RecordFrame, ListenersOK, AuthTypeOK, ObserversOK, RecordsOK,
             ToldOrCalled, ToldHasObserver
<1>2. CacheWasHeld'
      BY DEF Inv, Grown, CacheWasHeld
<1>3. \A r \in DOMAIN observers : observers[r].uid \in Users
      BY ObserverUser DEF Inv, ObserversOK
<1>4. \A n \in DOMAIN values : values[n].reg \in DOMAIN observers
      BY DEF Inv, ObserversOK
<1>5. ValuesWereHeld'
  <2> SUFFICES ASSUME NEW n \in DOMAIN values
               PROVE  values[n].info \in held'[observers[values[n].reg].uid] \cup {NoInfo}
      BY DEF RecordFrame, ValuesWereHeld
  <2>1. observers[values[n].reg].uid \in Users
        BY <1>3, <1>4
  <2> QED BY <2>1 DEF Inv, ValuesWereHeld, Grown
<1>6. FetchedWasHeld'
      BY <1>3 DEF Inv, FetchedWasHeld, RecordFrame, Grown
<1>7. Fresh'
      BY DEF Inv, Fresh, Observes, LastIs, OnTheWay, RecordFrame
<1> QED BY <1>1, <1>2, <1>5, <1>6, <1>7 DEF Inv

\* The cache's record of a user becomes one that her record holds or has held.
LEMMA CachesInv ==
    ASSUME Inv, Grown, RecordFrame, NEW u \in Users, NEW i \in Content, Caches(u, i),
           i \in held'[u] \cup {NoInfo}
    PROVE  Inv'
<1>0. values \in Seq(Value) /\ registered \in 0 .. Len(observers)
      /\ view \in [Users -> Content \cup {Unknown}]
      BY DEF Inv, ObserversOK, RecordsOK, Value
<1>1. PICK new \in Seq(Value) :
          /\ values' = values \o new
          /\ \A j \in DOMAIN new : new[j].reg \in Watching(u) /\ new[j].info = i
          /\ view[u] # i => \A r \in Watching(u) : \E j \in DOMAIN new : new[j].reg = r
      BY CachesFacts
<1>2. \A r \in Watching(u) : r \in 1 .. registered /\ observers[r].uid = u
      BY DEF Watching
<1>3. /\ values' \in Seq(Value)
      /\ \A n \in DOMAIN values' : \/ n \in DOMAIN values /\ values'[n] = values[n]
                                   \/ values'[n].reg \in Watching(u) /\ values'[n].info = i
      BY <1>0, <1>1, QueueGrows
<1>4. view' = [view EXCEPT ![u] = i]
      BY DEF Caches
<1>5. ListenersOK' /\ ToldOrCalled' /\ ToldHasObserver'
      BY DEF Inv, RecordFrame, ListenersOK, AuthTypeOK, ToldOrCalled, ToldHasObserver
<1>6. ObserversOK'
  <2>1. \A n \in DOMAIN values' : values'[n].reg \in 1 .. registered
        BY <1>2, <1>3 DEF Inv, ObserversOK
  <2> QED BY <1>3, <2>1 DEF Inv, RecordFrame, ObserversOK, Value
<1>7. RecordsOK' /\ CacheWasHeld'
  <2>1. view' \in [Users -> Content \cup {Unknown}]
        BY <1>0, <1>4
  <2>2. \A w \in Users : view'[w] \in held'[w] \cup {NoInfo, Unknown}
        BY <1>0, <1>4 DEF Inv, CacheWasHeld, Grown
  <2> QED BY <2>1, <2>2 DEF Inv, RecordFrame, Grown, RecordsOK, CacheWasHeld
<1>8. \A r \in DOMAIN observers : observers[r].uid \in Users
      BY ObserverUser DEF Inv, ObserversOK
<1>9. ValuesWereHeld'
  <2> SUFFICES ASSUME NEW n \in DOMAIN values'
               PROVE  values'[n].info \in held'[observers[values'[n].reg].uid] \cup {NoInfo}
      BY DEF RecordFrame, ValuesWereHeld
  <2>1. CASE n \in DOMAIN values /\ values'[n] = values[n]
    <3>1. observers[values[n].reg].uid \in Users
      <4>1. values[n].reg \in DOMAIN observers
            BY <2>1 DEF Inv, ObserversOK
      <4> QED BY <1>8, <4>1
    <3> QED BY <2>1, <3>1 DEF Inv, ValuesWereHeld, Grown
  <2>2. CASE values'[n].reg \in Watching(u) /\ values'[n].info = i
        BY <1>2, <2>2
  <2> QED BY <1>3, <2>1, <2>2
<1>10. FetchedWasHeld'
      BY <1>8 DEF Inv, FetchedWasHeld, RecordFrame, Grown
<1>11. Fresh'
  <2> SUFFICES ASSUME NEW l \in DOMAIN told, NEW w \in Users,
                      view'[w] # Unknown, Observes(l, w)
               PROVE  \A x : x = view'[w] => LastIs(l, x)'
      BY DEF Fresh, Observes, RecordFrame
  <2>0. SUFFICES ASSUME NEW x, x = view'[w] PROVE LastIs(l, x)'
        OBVIOUS
  <2>1. CASE w = u /\ view[u] # i
    <3>1. x = i
          BY <1>0, <1>4, <2>0, <2>1
    <3>2. PICK r \in 1 .. registered : observers[r].lis = l /\ observers[r].uid = u
          BY <2>1 DEF Observes
    <3>3. PICK j \in DOMAIN new : new[j].reg = r
          BY <1>1, <2>1, <3>2 DEF Watching
    <3>4. \A k \in DOMAIN new : observers[new[k].reg].lis = l => new[k].info = i
          BY <1>1
    <3>5. LastIs(l, i)'
          BY <1>0, <1>1, <3>2, <3>3, <3>4, LastGrows DEF RecordFrame
    <3> QED BY <2>0, <3>1, <3>5
  <2>2. CASE w = u /\ view[u] = i
    <3>1. x = i /\ LastIs(l, i) /\ values' = values
          BY <1>0, <1>4, <2>0, <2>2 DEF Inv, Fresh, Caches
    <3>2. LastIs(l, i)'
          BY <3>1 DEF LastIs, OnTheWay, RecordFrame
    <3> QED BY <2>0, <3>1, <3>2
  <2>3. CASE w # u
    <3>1. x = view[w]
          BY <1>0, <1>4, <2>0, <2>3
    <3>2. LastIs(l, x)
          BY <2>0, <3>1 DEF Inv, Fresh
    <3>3. \A j \in DOMAIN new : observers[new[j].reg].lis # l
          BY <1>1, <1>2, <2>3 DEF Observes
    <3>4. LastIs(l, x)'
          BY <1>0, <1>1, <3>2, <3>3, LastStays DEF RecordFrame
    <3> QED BY <2>0, <3>4
  <2> QED BY <2>1, <2>2, <2>3
<1> QED BY <1>5, <1>6, <1>7, <1>9, <1>10, <1>11 DEF Inv

\* A record is written, and the history with it.
LEMMA StoresGrow ==
    ASSUME Inv, NEW u \in Users, NEW i \in Content, Stores(u, i)
    PROVE  Grown /\ i \in held'[u] \cup {NoInfo}
BY DEF Inv, RecordsOK, CacheWasHeld, Stores, Grown, Content

\* Records that stay.
LEMMA SameGrow == ASSUME Inv, UNCHANGED <<records, held>> PROVE Grown
BY DEF Inv, RecordsOK, CacheWasHeld, Grown

-----------------------------------------------------------------------------
\* Every step preserves the invariant.
LEMMA NextInv == Inv /\ [Next]_vars => Inv'
<1> SUFFICES ASSUME Inv, [Next]_vars PROVE Inv'
    OBVIOUS
<1>0. NoUser \in Users \cup {NoUser} /\ signUp \in Users \cup {NoUser}
      /\ NoInfo \in Content /\ Infos \subseteq Content
      BY DEF Inv, RecordsOK, Content
<1>1. CASE UNCHANGED vars
  <2>1. UNCHANGED <<authVars, data, fetchVars, signUp, profile>> /\ form' = form
        BY <1>1 DEF vars, signVars, screens
  <2> QED BY <2>1, ScreensInv
<1>2. CASE SignOut
      BY <1>0, <1>2, SetUserInv DEF SignOut, screens
<1>3. ASSUME NEW u \in Users, SignIn(u) \/ SignUp(u) \/ SignInAgain(u) PROVE Inv'
  <2>1. SetUser(u) /\ UNCHANGED <<data, fetchVars, profile, form>>
        BY <1>3 DEF SignIn, SignUp, SignInAgain, screens
  <2>2. signUp' \in Users \cup {NoUser}
        BY <1>0, <1>3 DEF SignIn, SignUp, SignInAgain, signVars
  <2> QED BY <2>1, <2>2, SetUserInv
<1>4. CASE fetchUser
      BY <1>4, fetchUserInv
<1>5. CASE Register
      BY <1>5, RegisterInv
<1>6. CASE observeValue
      BY <1>6, observeValueInv
<1>7. CASE showProfile
      BY <1>7, ListenerInv DEF showProfile, signVars
<1>8. CASE handleAdd
      BY <1>8, ListenerInv DEF handleAdd, signVars
<1>9. CASE handleDismiss \/ handleSubmit \/ handleEditProfile \/ handleCancelUpdateProfile
      BY <1>9, ScreensInv DEF handleDismiss, handleSubmit, handleEditProfile,
                              handleCancelUpdateProfile, signVars
<1>10. ASSUME NEW i \in Infos, createUser(i) PROVE Inv'
  <2>1. signUp \in Users /\ Stores(signUp, i) /\ Caches(signUp, i)
        BY <1>0, <1>10 DEF createUser
  <2>2. PICK u \in Users : u = signUp
        BY <2>1
  <2>3. Grown /\ i \in held'[u] \cup {NoInfo}
        BY <1>0, <2>1, <2>2, StoresGrow
  <2>4. RecordFrame
        BY <1>10 DEF createUser, RecordFrame, authVars, screens
  <2> QED BY <1>0, <2>1, <2>2, <2>3, <2>4, CachesInv
<1>11. ASSUME NEW i \in Infos, handleUpdateProfile(i) PROVE Inv'
  <2>1. RecordFrame
        BY <1>0, <1>11 DEF handleUpdateProfile, RecordFrame, authVars
  <2>2. CASE currentUser = NoUser
    <3>1. UNCHANGED <<records, held, view, values>>
          BY <1>11, <2>2 DEF handleUpdateProfile
    <3> QED BY <2>1, <3>1, SameGrow, StoresInv
  <2>3. CASE currentUser # NoUser
    <3>1. PICK u \in Users : u = currentUser
          BY <2>3 DEF Inv, ListenersOK, AuthTypeOK
    <3>2. /\ Stores(u, i)
          /\ IF view[u] = Unknown THEN UNCHANGED <<view, values>> ELSE Caches(u, i)
          BY <1>11, <2>3, <3>1 DEF handleUpdateProfile
    <3>3. Grown /\ i \in held'[u] \cup {NoInfo}
          BY <1>0, <3>2, StoresGrow
    <3>4. CASE view[u] = Unknown
          BY <2>1, <3>2, <3>3, <3>4, StoresInv
    <3>5. CASE view[u] # Unknown
          BY <1>0, <2>1, <3>2, <3>3, <3>5, CachesInv
    <3> QED BY <3>4, <3>5
  <2> QED BY <2>2, <2>3
<1>12. ASSUME NEW u \in Users, RecordArrives(u) PROVE Inv'
  <2>1. RecordFrame /\ UNCHANGED <<records, held>>
        BY <1>0, <1>12 DEF RecordArrives, RecordFrame, authVars, signVars, screens
  <2>2. PICK i \in Content : i = records[u]
        BY DEF Inv, RecordsOK
  <2>3. Grown /\ i \in held'[u] \cup {NoInfo}
        BY <2>1, <2>2, SameGrow DEF Grown
  <2>4. Caches(u, i)
        BY <1>12, <2>2 DEF RecordArrives
  <2> QED BY <2>1, <2>3, <2>4, CachesInv
<1>13. ASSUME NEW u \in Users, NEW i \in Infos \cup {NoInfo}, RemoteUpdate(u, i) PROVE Inv'
  <2>1. RecordFrame /\ UNCHANGED <<view, values>> /\ Stores(u, i)
        BY <1>0, <1>13 DEF RemoteUpdate, RecordFrame, authVars, fetchVars, screens
  <2>2. Grown
        BY <2>1, StoresGrow DEF Content
  <2> QED BY <2>1, <2>2, StoresInv
<1> QED BY <1>1, <1>2, <1>3, <1>4, <1>5, <1>6, <1>7, <1>8, <1>9, <1>10, <1>11, <1>12,
           <1>13 DEF Next

\* The invariant holds in every state the app can reach.
THEOREM UserRecordInv == Spec => []Inv
<1> QED BY InitInv, NextInv, PTL DEF Spec

(***************************************************************************)
(* An open form signs with a name that the record of its user holds or has *)
(* held: no observer left behind by an earlier form, listener or user      *)
(* reaches it (fetchUser, postUserInfo, uploadPost).                       *)
(***************************************************************************)
THEOREM UserRecordFormName == Spec => []FormHasOwnName
<1>1. Inv => FormHasOwnName
  <2> SUFFICES ASSUME Inv, form # 0,
                      \A r \in DOMAIN observers :
                         observers[r].lis = form => observers[r].uid = currentUser
               PROVE  fetched[form] \in held[currentUser] \cup {NoInfo}
      BY DEF FormHasOwnName
  <2>1. form \in DOMAIN fetched
        BY DEF Inv, ListenersOK
  <2> QED BY <2>1 DEF Inv, FetchedWasHeld
<1> QED BY <1>1, UserRecordInv, PTL

(***************************************************************************)
(* While all observers are of the current user, the quiet navigation bar,  *)
(* profile and form show what the cache holds of her record, however many  *)
(* listeners and observers there are (fetchUser and its callers).          *)
(***************************************************************************)
THEOREM UserRecordShown == Spec => []ShowsOwnRecord
<1>1. Inv => ShowsOwnRecord
  <2> SUFFICES ASSUME Inv, Quiet, currentUser # NoUser,
                      \A r \in DOMAIN observers : observers[r].uid = currentUser,
                      view[currentUser] \in Infos,
                      NEW l \in {1, profile, form} \ {0}
               PROVE  fetched[l] = view[currentUser]
      BY DEF ShowsOwnRecord
  <2>1. PICK u \in Users : u = currentUser
        BY DEF Inv, ListenersOK, AuthTypeOK
  <2>2. l \in DOMAIN told
    <3>1. Len(told) \in Nat /\ DOMAIN told = 1 .. Len(told)
          BY DEF Inv, ListenersOK, AuthTypeOK
    <3> QED BY <3>1 DEF Inv, ListenersOK
  <2>3. told[l] = u
    <3>1. DOMAIN authCalls = {}
          BY DEF Quiet
    <3> QED BY <2>1, <2>2, <3>1 DEF Inv, ToldOrCalled
  <2>4. PICK r \in DOMAIN observers : observers[r].lis = l
        BY <2>2, <2>3 DEF Inv, ToldHasObserver
  <2>5. DOMAIN observers = 1 .. registered
    <3>1. observers \in Seq([lis: Nat \ {0}, uid: Users])
          BY DEF Inv, ObserversOK
    <3> QED BY <3>1 DEF Quiet
  <2>6. Observes(l, u)
        BY <2>1, <2>4, <2>5 DEF Observes
  <2>7. view[u] # Unknown /\ view[u] # NoInfo
        BY <2>1, UserRecordAssumption
  <2>8. LastIs(l, view[u])
        BY <2>2, <2>6, <2>7 DEF Inv, Fresh
  <2>9. OnTheWay(l) = {}
        BY DEF OnTheWay, Quiet
  <2> QED BY <2>1, <2>7, <2>8, <2>9 DEF LastIs
<1> QED BY <1>1, UserRecordInv, PTL
=============================================================================
