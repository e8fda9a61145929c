--------------------------- MODULE SessionProofs ---------------------------
(***************************************************************************)
(* Proofs about signing up, in and out, for any users and any number of    *)
(* attempts, login screens, deletions and restarts, on a network that may  *)
(* fail.                                                                   *)
(***************************************************************************)
EXTENDS Session, TLAPS

(***************************************************************************)
(* What the invariants rest on: Google is asked for Google users only; as  *)
(* long as no account is deleted no deletion is under way, and whoever a   *)
(* sign-in is under way for, or loginUser was told of, has her record.     *)
(***************************************************************************)
GoogleCalls ==
    \A c \in calls : c.kind \in {"gid", "credential"} => c.u \in GoogleUsers

NoDeletePending == deletes = 0 => \A c \in calls : c.kind # "delete"

RecordsFound ==
    deletes = 0 => /\ \A c \in calls : c.kind = "signIn" => records[c.u] = "full"
                   /\ \A i \in DOMAIN values : values[i].exists =>
                         \A o \in values[i].who : records[o.u] = "full"

ValueEvent == [who: SUBSET Observer, exists: BOOLEAN]

\* Constant bounds are numbers.
LEMMA BoundsAreNumbers ==
    /\ MaxLogins \in Nat /\ MaxAttempts \in Nat /\ MaxUpdates \in Nat
    /\ MaxDeletes \in Nat /\ MaxRelaunch \in Nat
BY SessionBoundsAssumption

\* The events that a change of a record raises are for observers that exist.
LEMMA RaiseType ==
    ASSUME TypeOK, NEW u \in Users, NEW exists \in BOOLEAN
    PROVE  /\ Raise(u, exists) \in Seq(ValueEvent)
           /\ \A i \in DOMAIN Raise(u, exists) :
                  Raise(u, exists)[i].who \subseteq observers
<1> DEFINE who == {o \in observers : o.u = u}
           e == [who |-> who, exists |-> exists]
<1>1. values \in Seq(ValueEvent)
      BY DEF TypeOK, ValueEvent
<1>2. e \in ValueEvent /\ e.who \subseteq observers
      BY DEF TypeOK, ValueEvent
<1>3. CASE who = {}
  <2>1. Raise(u, exists) = values
        BY <1>3 DEF Raise
  <2> QED BY <1>1, <2>1 DEF TypeOK
<1>4. CASE who # {}
  <2>1. Raise(u, exists) = Append(values, e)
        BY <1>4 DEF Raise
  <2> HIDE DEF e
  <2>2. \A i \in DOMAIN Append(values, e) :
            \/ i \in DOMAIN values /\ Append(values, e)[i] = values[i]
            \/ Append(values, e)[i] = e
        BY <1>1
  <2>3. Append(values, e) \in Seq(ValueEvent)
        BY <1>1, <1>2
  <2> QED BY <1>2, <2>1, <2>2, <2>3 DEF TypeOK
<1> QED BY <1>3, <1>4

\* What a change of a record adds to the events, if it adds any.
LEMMA RaiseAdds ==
    ASSUME TypeOK, NEW u \in Users, NEW exists \in BOOLEAN
    PROVE  \A i \in DOMAIN Raise(u, exists) :
               \/ i \in DOMAIN values /\ Raise(u, exists)[i] = values[i]
               \/ \A o \in Raise(u, exists)[i].who : o.u = u
<1> DEFINE who == {o \in observers : o.u = u}
           e == [who |-> who, exists |-> exists]
<1>1. values \in Seq(ValueEvent) /\ e \in ValueEvent /\ \A o \in e.who : o.u = u
      BY DEF TypeOK, ValueEvent
<1>2. Raise(u, exists) = values \/ Raise(u, exists) = Append(values, e)
      BY DEF Raise
<1> HIDE DEF e
<1>3. \A i \in DOMAIN Append(values, e) :
          \/ i \in DOMAIN values /\ Append(values, e)[i] = values[i]
          \/ Append(values, e)[i] = e
      BY <1>1
<1> QED BY <1>1, <1>2, <1>3

\* Taking the oldest event leaves well-formed events.
LEMMA TailType ==
    ASSUME TypeOK, values # <<>>, values' = Tail(values), observers' = observers
    PROVE  /\ values' \in Seq(ValueEvent)
           /\ \A i \in DOMAIN values' : values'[i].who \subseteq observers'
<1>1. values \in Seq(ValueEvent)
      BY DEF TypeOK, ValueEvent
<1>2. \A i \in DOMAIN values' : i + 1 \in DOMAIN values /\ values'[i] = values[i + 1]
      BY <1>1
<1> QED BY <1>1, <1>2 DEF TypeOK

\* Dismissing leaves a login screen or none, and no sheet without its screen.
LEMMA DismissType ==
    ASSUME TypeOK, NEW vc, Dismiss(vc)
    PROVE  /\ login' \in 0 .. presented
           /\ reset' \in BOOLEAN
           /\ reset' => login' # 0
           /\ login' # login => login' = 0 /\ login = vc
BY DEF TypeOK, Dismiss

\* A new login screen is well-formed.
LEMMA PresentLoginType ==
    ASSUME TypeOK, NEW after \in SUBSET Call, NEW gid \in GoogleUsers \cup {NoUser},
           PresentLogin(after, gid)
    PROVE  /\ calls' \subseteq Call
           /\ presented' \in Nat /\ login' \in 0 .. presented' /\ login' # 0
           /\ reset' = FALSE
<1>1. presented \in Nat /\ presented + 1 \in Nat
      BY DEF TypeOK
<1>2. gid # NoUser => [kind |-> "gid", u |-> gid, ok |-> TRUE,
                       vc |-> presented + 1] \in Call
      BY <1>1, UsersAssumption DEF Call, Kinds
<1>3. calls' \subseteq Call
      BY <1>2 DEF PresentLogin
<1> QED BY <1>1, <1>3 DEF PresentLogin

-----------------------------------------------------------------------------
\* The initial state is well-formed.
LEMMA TypeOKInit == Init => TypeOK
<1> SUFFICES ASSUME Init PROVE TypeOK
    OBVIOUS
<1>1. values = <<>> /\ DOMAIN values = {} /\ values \in Seq(ValueEvent)
      BY DEF Init
<1>2. records \in [Users -> RecordStates]
      BY DEF Init, RecordStates
<1>3. reset \in BOOLEAN /\ login = 1 /\ presented = 1
      BY DEF Init
<1> QED BY <1>1, <1>2, <1>3, BoundsAreNumbers DEF Init, TypeOK, ValueEvent

\* What an answer leaves is well-formed.
LEMMA AnswerTypes ==
    ASSUME TypeOK, GoogleCalls, NEW c \in calls, Answer(c) PROVE TypeOK'
<1>0. c \in Call /\ c.u \in Users /\ c.vc \in Nat
      BY DEF TypeOK, Call
<1>1. CASE createUser(c)
  <2>1. records' \in [Users -> RecordStates]
        BY <1>1 DEF createUser, TypeOK, RecordStates, server
  <2>2. CASE UNCHANGED <<values, login, reset>>
        BY <1>0, <1>1, <2>1, <2>2 DEF createUser, TypeOK, counters
  <2>3. CASE values' = Raise(c.u, TRUE) /\ Dismiss(c.vc)
    <3>1. /\ values' \in Seq(ValueEvent)
          /\ \A i \in DOMAIN values' : values'[i].who \subseteq observers
          BY <1>0, <2>3, RaiseType
    <3>2. login' \in 0 .. presented /\ reset' \in BOOLEAN /\ (reset' => login' # 0)
          BY <2>3, DismissType
    <3>3. accounts' \subseteq Users /\ currentUser' \in Users \cup {NoUser}
          BY <1>0, <1>1 DEF createUser, TypeOK, server
    <3>4. hud' \in {"none", "error"}
          BY <1>1 DEF createUser
    <3> QED BY <1>1, <2>1, <3>1, <3>2, <3>3, <3>4
            DEF createUser, TypeOK, counters, ValueEvent
  <2> QED BY <1>1, <2>2, <2>3 DEF createUser
<1>2. CASE signIn(c)
  <2>1. CASE UNCHANGED <<currentUser, hud, login, reset>>
        BY <1>2, <2>1 DEF signIn, TypeOK, server, counters
  <2>2. CASE currentUser' = c.u /\ hud' = "none" /\ Dismiss(c.vc)
    <3>1. login' \in 0 .. presented /\ reset' \in BOOLEAN /\ (reset' => login' # 0)
          BY <2>2, DismissType
    <3> QED BY <1>0, <1>2, <2>2, <3>1 DEF signIn, TypeOK, server, counters
  <2> QED BY <1>2, <2>1, <2>2 DEF signIn
<1>3. CASE didSignInFor(c)
  <2>1. gidUser' \in GoogleUsers \cup {NoUser}
        BY <1>3 DEF didSignInFor, TypeOK, GoogleCalls
  <2>2. [kind |-> "credential", u |-> c.u, ok |-> TRUE, vc |-> presented] \in Call
        BY <1>0 DEF Call, Kinds, TypeOK
  <2>3. calls' \subseteq Call
        BY <1>3, <2>2 DEF didSignInFor, TypeOK
  <2> QED BY <1>3, <2>1, <2>3 DEF didSignInFor, TypeOK, server, counters
<1>4. CASE signInWithCredential(c)
  <2>1. CASE /\ accounts' \in {accounts, accounts \cup {c.u}}
             /\ UNCHANGED <<currentUser, login, reset>>
        BY <1>0, <1>4, <2>1 DEF signInWithCredential, TypeOK, counters
  <2>2. CASE accounts' = accounts \cup {c.u} /\ currentUser' = c.u /\ Dismiss(c.vc)
    <3>1. login' \in 0 .. presented /\ reset' \in BOOLEAN /\ (reset' => login' # 0)
          BY <2>2, DismissType
    <3> QED BY <1>0, <1>4, <2>2, <3>1 DEF signInWithCredential, TypeOK, counters
  <2> QED BY <1>4, <2>1, <2>2 DEF signInWithCredential
<1>5. CASE deleteUser(c)
  <2>1. records' \in [Users -> RecordStates]
        BY <1>5 DEF deleteUser, TypeOK, RecordStates
  <2>2. /\ values' \in Seq(ValueEvent)
        /\ \A i \in DOMAIN values' : values'[i].who \subseteq observers
        BY <1>0, <1>5, RaiseType DEF deleteUser, TypeOK, ValueEvent
  <2> QED BY <1>5, <2>1, <2>2 DEF deleteUser, TypeOK, counters, ValueEvent
<1>6. CASE sendPasswordReset(c)
      BY <1>6 DEF sendPasswordReset, TypeOK, server, counters
<1> QED BY <1>1, <1>2, <1>3, <1>4, <1>5, <1>6 DEF Answer

\* Every step keeps the state well-formed.
LEMMA TypeOKStep == TypeOK /\ GoogleCalls /\ [Next]_vars => TypeOK'
<1> SUFFICES ASSUME TypeOK, GoogleCalls, [Next]_vars PROVE TypeOK'
    OBVIOUS
<1> USE BoundsAreNumbers
<1>0. login \in Nat /\ presented \in Nat
      BY DEF TypeOK
<1>a. Attempt => /\ attempts' \in 0 .. MaxAttempts
                 /\ UNCHANGED <<updates, deletes, relaunches>>
      BY DEF Attempt, TypeOK
<1>u. Update => /\ updates' \in 0 .. MaxUpdates
                /\ UNCHANGED <<attempts, deletes, relaunches>>
      BY DEF Update, TypeOK
<1>1. ASSUME NEW u \in Users \ GoogleUsers, handleSignup(u) PROVE TypeOK'
  <2>1. [kind |-> "create", u |-> u, ok |-> TRUE, vc |-> login] \in Call
        BY <1>0 DEF Call, Kinds
  <2> QED BY <1>a, <1>1, <2>1 DEF handleSignup, TypeOK, server
<1>2. ASSUME NEW u \in Users \ GoogleUsers, NEW ok \in BOOLEAN, handleLogin(u, ok)
      PROVE  TypeOK'
  <2> DEFINE o == [u |-> u, ok |-> ok, vc |-> login]
             e == [who |-> {o}, exists |-> records[u] = "full"]
  <2>1. o \in Observer
        BY <1>0 DEF Observer
  <2>2. observers' = observers \cup {o} /\ values' = Append(values, e)
        BY <1>2 DEF handleLogin
  <2>3. e \in ValueEvent /\ e.who \subseteq observers'
        BY <2>1, <2>2 DEF ValueEvent
  <2>4. values \in Seq(ValueEvent)
        BY DEF TypeOK, ValueEvent
  <2> HIDE DEF e, o
  <2>5. \A i \in DOMAIN values' :
            \/ i \in DOMAIN values /\ values'[i] = values[i]
            \/ values'[i] = e
        BY <2>2, <2>4
  <2>6. \A i \in DOMAIN values' : values'[i].who \subseteq observers'
        BY <2>2, <2>3, <2>5 DEF TypeOK
  <2>7. values' \in Seq(ValueEvent) /\ observers' \subseteq Observer
        BY <2>1, <2>2, <2>3, <2>4 DEF TypeOK
  <2> QED BY <1>a, <1>2, <2>6, <2>7 DEF handleLogin, TypeOK, server, ValueEvent
<1>3. ASSUME NEW u \in GoogleUsers, handleGoogle(u) PROVE TypeOK'
  <2>1. [kind |-> "gid", u |-> u, ok |-> TRUE, vc |-> login] \in Call
        BY <1>0, UsersAssumption DEF Call, Kinds
  <2> QED BY <1>a, <1>3, <2>1 DEF handleGoogle, TypeOK, server
<1>4. CASE EmptyField
      BY <1>4 DEF EmptyField, TypeOK, server, counters
<1>5. CASE loginUser
  <2>1. /\ values' \in Seq(ValueEvent)
        /\ \A i \in DOMAIN values' : values'[i].who \subseteq observers'
        BY <1>5, TailType DEF loginUser
  <2>2. Head(values).who \subseteq Observer
        BY <1>5 DEF loginUser, TypeOK
  <2>3. \A o \in Head(values).who :
            [kind |-> "signIn", u |-> o.u, ok |-> o.ok, vc |-> o.vc] \in Call
        BY <2>2 DEF Observer, Call, Kinds
  <2>4. calls' \subseteq Call
        BY <1>5, <2>3 DEF loginUser, TypeOK
  <2> QED BY <1>5, <2>1, <2>4 DEF loginUser, TypeOK, server, counters, ValueEvent
<1>6. ASSUME NEW c \in calls, Answer(c) PROVE TypeOK'
      BY <1>6, AnswerTypes
<1>7. CASE showResetPassword
      BY <1>7 DEF showResetPassword, OnLogin, TypeOK, server, counters
<1>8. CASE handleCancelResetPassword
      BY <1>8 DEF handleCancelResetPassword, TypeOK, server, counters
<1>9. ASSUME NEW u \in Users, handleResetPassword(u) PROVE TypeOK'
  <2>1. [kind |-> "reset", u |-> u, ok |-> TRUE, vc |-> login] \in Call
        BY <1>0 DEF Call, Kinds
  <2> QED BY <1>9, <2>1 DEF handleResetPassword, TypeOK, server, counters
<1>10. ASSUME NEW u \in Users, RemoteUpdate(u) PROVE TypeOK'
  <2>1. /\ values' \in Seq(ValueEvent)
        /\ \A i \in DOMAIN values' : values'[i].who \subseteq observers
        BY <1>10, RaiseType DEF RemoteUpdate
  <2> QED BY <1>u, <1>10, <2>1 DEF RemoteUpdate, TypeOK, server, ValueEvent
<1>11. CASE handleLogout
  <2>1. CASE currentUser' = NoUser /\ PresentLogin(calls, NoUser)
    <3>1. /\ calls' \subseteq Call
          /\ presented' \in Nat /\ login' \in 0 .. presented' /\ login' # 0
          /\ reset' = FALSE
          BY <2>1, PresentLoginType DEF TypeOK
    <3> QED BY <1>11, <2>1, <3>1 DEF handleLogout, TypeOK, server, counters
  <2>2. CASE UNCHANGED <<currentUser, calls, login, presented, reset>>
        BY <1>11, <2>2 DEF handleLogout, TypeOK, server, counters
  <2> QED BY <1>11, <2>1, <2>2 DEF handleLogout
<1>12. CASE handleDeleteAccount
  <2> DEFINE after == IF currentUser = NoUser THEN calls
                      ELSE calls \cup {[kind |-> "delete", u |-> currentUser,
                                        ok |-> TRUE, vc |-> 0]}
  <2>1. after \in SUBSET Call
    <3>1. currentUser # NoUser => [kind |-> "delete", u |-> currentUser,
                                   ok |-> TRUE, vc |-> 0] \in Call
          BY DEF TypeOK, Call, Kinds
    <3> QED BY <3>1 DEF TypeOK
  <2>2. PresentLogin(after, gidUser) /\ gidUser \in GoogleUsers \cup {NoUser}
        BY <1>12 DEF handleDeleteAccount, TypeOK
  <2> HIDE DEF after
  <2>3. /\ calls' \subseteq Call
        /\ presented' \in Nat /\ login' \in 0 .. presented' /\ login' # 0
        /\ reset' = FALSE
        BY <2>1, <2>2, PresentLoginType
  <2>4. deletes' \in 0 .. MaxDeletes
        BY <1>12 DEF handleDeleteAccount, TypeOK
  <2> QED BY <1>12, <2>3, <2>4 DEF handleDeleteAccount, TypeOK, server
<1>13. CASE updateUserInfo
  <2>1. currentUser \in Users
        BY <1>13 DEF updateUserInfo, TypeOK
  <2>2. /\ values' \in Seq(ValueEvent)
        /\ \A i \in DOMAIN values' : values'[i].who \subseteq observers
        BY <1>13, <2>1, RaiseType DEF updateUserInfo, TypeOK, ValueEvent
  <2>3. records' \in [Users -> RecordStates]
        BY <1>13 DEF updateUserInfo, TypeOK, RecordStates
  <2> QED BY <1>u, <1>13, <2>2, <2>3 DEF updateUserInfo, TypeOK, ValueEvent
<1>14. CASE Relaunch
  <2>1. /\ accounts' \subseteq Users /\ currentUser' \in Users \cup {NoUser}
        /\ gidUser' \in GoogleUsers \cup {NoUser}
    <3>1. \A c \in calls : c.u \in Users /\ (c.kind = "gid" => c.u \in GoogleUsers)
          BY DEF TypeOK, Call, GoogleCalls
    <3>2. PICK done \in SUBSET calls :
            /\ accounts' = (accounts \cup UsersOf(done, {"create", "credential"}))
                              \ UsersOf(done, {"delete"})
            /\ \/ UNCHANGED currentUser
               \/ currentUser' \in UsersOf(done, {"create", "signIn", "credential"})
               \/ currentUser' = NoUser
            /\ gidUser' \in {gidUser} \cup UsersOf(done, {"gid"})
      <4>1. MayBeDone \subseteq calls
            BY DEF MayBeDone
      <4> QED BY <1>14, <4>1 DEF Relaunch
    <3> QED BY <3>1, <3>2 DEF TypeOK, UsersOf
  <2>2. values' = <<>> /\ DOMAIN values' = {} /\ values' \in Seq(ValueEvent)
        BY <1>14 DEF Relaunch
  <2>3. /\ calls' \subseteq Call
        /\ presented' \in Nat /\ login' \in 0 .. presented'
    <3>1. gidUser' # NoUser => [kind |-> "gid", u |-> gidUser', ok |-> TRUE,
                                vc |-> 1] \in Call
          BY <2>1, UsersAssumption DEF Call, Kinds
    <3>2. CASE currentUser' = NoUser
      <4>1. login' = 1 /\ presented' = 1
            BY <1>14, <3>2 DEF Relaunch
      <4>2. calls' \subseteq Call
            BY <1>14, <3>1, <3>2 DEF Relaunch
      <4> QED BY <4>1, <4>2
    <3>3. CASE currentUser' # NoUser
          BY <1>14, <3>3 DEF Relaunch
    <3> QED BY <3>2, <3>3
  <2>4. reset' = FALSE /\ relaunches' \in 0 .. MaxRelaunch
        BY <1>14 DEF Relaunch, TypeOK
  <2> QED BY <1>14, <2>1, <2>2, <2>3, <2>4 DEF Relaunch, TypeOK, ValueEvent
<1>15. CASE UNCHANGED vars
      BY <1>15 DEF vars, server, counters, TypeOK
<1> QED BY <1>1, <1>2, <1>3, <1>4, <1>5, <1>6, <1>7, <1>8, <1>9, <1>10, <1>11,
           <1>12, <1>13, <1>14, <1>15 DEF Next

-----------------------------------------------------------------------------
\* The calls of a state and what a step adds to them.
NewCalls == calls' \ calls

\* Which calls a step adds.
LEMMA NewCallsAre ==
    ASSUME TypeOK, GoogleCalls, [Next]_vars, NEW c \in NewCalls
    PROVE  /\ c.kind \in {"gid", "credential"} => c.u \in GoogleUsers
           /\ c.kind = "delete" => handleDeleteAccount
<1> USE DEF NewCalls
<1>1. ASSUME NEW u \in Users \ GoogleUsers, handleSignup(u)
      PROVE  c.kind = "create"
      BY <1>1 DEF handleSignup
<1>2. ASSUME NEW u \in GoogleUsers, handleGoogle(u)
      PROVE  c.kind = "gid" /\ c.u \in GoogleUsers
      BY <1>2 DEF handleGoogle
<1>3. loginUser => c.kind = "signIn"
      BY DEF loginUser
<1>4. ASSUME NEW d \in calls, Answer(d)
      PROVE  c.kind = "credential" /\ c.u \in GoogleUsers
  <2>1. didSignInFor(d)
        BY <1>4 DEF Answer, createUser, signIn, signInWithCredential, deleteUser,
           sendPasswordReset
  <2>2. d.u \in GoogleUsers
        BY <2>1 DEF didSignInFor, GoogleCalls
  <2> QED BY <2>1, <2>2 DEF didSignInFor
<1>5. ASSUME NEW u \in Users, handleResetPassword(u) PROVE c.kind = "reset"
      BY <1>5 DEF handleResetPassword
<1>6. ~handleLogout
      BY DEF handleLogout, PresentLogin
<1>7. handleDeleteAccount => \/ c.kind = "delete"
                             \/ c.kind = "gid" /\ c.u \in GoogleUsers
      BY DEF handleDeleteAccount, PresentLogin, TypeOK
<1>8. Relaunch => c.kind = "gid" /\ c.u \in GoogleUsers
      BY TypeOKStep DEF Relaunch, TypeOK
<1>9. ~UNCHANGED calls
      OBVIOUS
<1> QED BY <1>1, <1>2, <1>3, <1>4, <1>5, <1>6, <1>7, <1>8, <1>9
        DEF Next, vars, handleLogin, EmptyField, showResetPassword,
            handleCancelResetPassword, RemoteUpdate, updateUserInfo

\* The counter of deletions only grows, and grows with each deletion.
LEMMA DeletesGrow ==
    ASSUME TypeOK, [Next]_vars
    PROVE  /\ deletes' \in Nat /\ deletes' >= deletes
           /\ handleDeleteAccount => deletes' # 0
<1>0. deletes \in Nat
      BY DEF TypeOK
<1>1. handleDeleteAccount => deletes' = deletes + 1
      BY DEF handleDeleteAccount
<1>2. ~handleDeleteAccount => deletes' = deletes
      BY DEF Next, vars, counters, Attempt, Update, handleSignup, handleLogin,
         handleGoogle, EmptyField, loginUser, Answer, createUser, signIn,
         didSignInFor, signInWithCredential, deleteUser, sendPasswordReset,
         showResetPassword, handleCancelResetPassword, handleResetPassword,
         RemoteUpdate, handleLogout, updateUserInfo, Relaunch
<1> QED BY <1>0, <1>1, <1>2

\* What the invariants rest on.
Inv == TypeOK /\ GoogleCalls /\ NoDeletePending

\* It is inductive.
LEMMA InvStep == Inv /\ [Next]_vars => Inv'
<1> SUFFICES ASSUME Inv, [Next]_vars PROVE Inv'
    OBVIOUS
<1>1. TypeOK'
      BY TypeOKStep DEF Inv
<1>2. GoogleCalls'
      BY NewCallsAre DEF Inv, GoogleCalls, NewCalls
<1>3. NoDeletePending'
  <2> SUFFICES ASSUME deletes' = 0, NEW c \in calls' PROVE c.kind # "delete"
      BY DEF NoDeletePending
  <2>1. deletes = 0 /\ ~handleDeleteAccount
        BY DeletesGrow DEF Inv, TypeOK
  <2>2. CASE c \in calls
        BY <2>1, <2>2 DEF Inv, NoDeletePending
  <2>3. CASE c \notin calls
        BY <2>1, <2>3, NewCallsAre DEF Inv, NewCalls
  <2> QED BY <2>2, <2>3
<1> QED BY <1>1, <1>2, <1>3 DEF Inv

(***************************************************************************)
(* The state of the session is always well-formed.                         *)
(***************************************************************************)
THEOREM SessionInv == Spec => []Inv
<1>1. Init => Inv
      BY TypeOKInit DEF Inv, Init, GoogleCalls, NoDeletePending
<1> QED BY <1>1, InvStep, PTL DEF Spec

(***************************************************************************)
(* In particular its variables have their types: no answer that is late,   *)
(* lost or repeated leaves a login screen, a call or an observer that the  *)
(* code has no case for (FirebaseServices, GoogleServices+Login+Ext).      *)
(***************************************************************************)
THEOREM SessionType == Spec => []TypeOK
<1>1. Inv => TypeOK
      BY DEF Inv
<1> QED BY <1>1, SessionInv, PTL

-----------------------------------------------------------------------------
(***************************************************************************)
(* Up to the first deletion of an account, whoever is signed out sees the  *)
(* login screen: the completions of createUser, signIn and the Google      *)
(* sign-in dismiss it only together with signing somebody in.              *)
(***************************************************************************)
THEOREM SessionShowsLogin == Spec => []SignedOutMeansLogin
<1>1. Init => SignedOutMeansLogin
      BY DEF Init, SignedOutMeansLogin
<1>2. Inv /\ SignedOutMeansLogin /\ [Next]_vars => SignedOutMeansLogin'
  <2> SUFFICES ASSUME Inv, SignedOutMeansLogin, [Next]_vars,
                      deletes' = 0, currentUser' = NoUser
               PROVE  login' # 0
      BY DEF SignedOutMeansLogin
  <2>0. /\ deletes = 0 /\ ~handleDeleteAccount
        /\ currentUser = NoUser => login # 0
        /\ \A c \in calls : c.u # NoUser /\ c.kind # "delete"
        BY DeletesGrow, UsersAssumption
        DEF Inv, TypeOK, Call, NoDeletePending, SignedOutMeansLogin
  <2>1. CASE UNCHANGED <<currentUser, login>>
        BY <2>0, <2>1
  <2>2. ASSUME NEW c \in calls, Answer(c) PROVE login' # 0
        BY <2>0, <2>2 DEF Answer, createUser, signIn, didSignInFor,
           signInWithCredential, deleteUser, sendPasswordReset
  <2>3. CASE handleLogout
        BY <2>0, <2>3 DEF handleLogout, PresentLogin, Inv, TypeOK
  <2>4. CASE Relaunch
        BY <2>4 DEF Relaunch
  <2> QED BY <2>0, <2>1, <2>2, <2>3, <2>4
          DEF Next, vars, handleSignup, handleLogin, handleGoogle, EmptyField,
              loginUser, showResetPassword, handleCancelResetPassword,
              handleResetPassword, RemoteUpdate, updateUserInfo
<1> QED BY <1>1, <1>2, SessionInv, PTL DEF Spec

\* The records that sign-ins rely on stay there.
LEMMA RecordsFoundStep == Inv /\ RecordsFound /\ [Next]_vars => RecordsFound'
<1> SUFFICES ASSUME Inv, RecordsFound, [Next]_vars, deletes' = 0
             PROVE  /\ \A c \in calls' : c.kind = "signIn" => records'[c.u] = "full"
                    /\ \A i \in DOMAIN values' : values'[i].exists =>
                          \A o \in values'[i].who : records'[o.u] = "full"
    BY DEF RecordsFound
<1>0. /\ deletes = 0 /\ ~handleDeleteAccount /\ records \in [Users -> RecordStates]
      /\ values \in Seq(ValueEvent) /\ currentUser \in Users \cup {NoUser}
      /\ \A c \in calls : c.u \in Users /\ c.kind # "delete"
      BY DeletesGrow DEF Inv, TypeOK, Call, NoDeletePending, ValueEvent
<1>1. /\ \A c \in calls : c.kind = "signIn" => records[c.u] = "full"
      /\ \A i \in DOMAIN values : values[i].exists =>
            \A o \in values[i].who : records[o.u] = "full"
      BY <1>0 DEF RecordsFound
\* Records only become complete.
<1>2. \A u \in Users : records[u] = "full" => records'[u] = "full"
  <2>1. ASSUME NEW c \in calls, Answer(c)
        PROVE  \A u \in Users : records[u] = "full" => records'[u] = "full"
        BY <1>0, <2>1 DEF Answer, createUser, signIn, didSignInFor,
           signInWithCredential, deleteUser, sendPasswordReset, server
  <2>2. updateUserInfo => \A u \in Users : records[u] = "full" => records'[u] = "full"
        BY <1>0 DEF updateUserInfo
  <2> QED BY <1>0, <2>1, <2>2
          DEF Next, vars, server, handleSignup, handleLogin, handleGoogle, EmptyField,
              loginUser, showResetPassword, handleCancelResetPassword, Relaunch,
              handleResetPassword, RemoteUpdate, handleLogout
<1>3. ASSUME NEW c \in calls', c.kind = "signIn" PROVE records'[c.u] = "full"
  <2>1. CASE c \in calls
        BY <1>0, <1>1, <1>2, <1>3, <2>1
  <2>2. CASE c \notin calls
    <3>1. loginUser
      <4>1. ASSUME NEW u \in Users PROVE ~handleSignup(u) /\ ~handleGoogle(u)
                                         /\ ~handleResetPassword(u)
            BY <1>3, <2>2 DEF handleSignup, handleGoogle, handleResetPassword
      <4>2. ASSUME NEW d \in calls PROVE ~Answer(d)
        <5>1. ~didSignInFor(d)
              BY <1>3, <2>2 DEF didSignInFor
        <5>2. calls' # calls \ {d}
              BY <2>2
        <5> QED BY <5>1, <5>2 DEF Answer, createUser, signIn,
                   signInWithCredential, deleteUser, sendPasswordReset
      <4>3. ~handleLogout /\ ~Relaunch
            BY <1>3, <2>2 DEF handleLogout, PresentLogin, Relaunch
      <4>4. calls' # calls
            BY <2>2
      <4> QED BY <1>0, <4>1, <4>2, <4>3, <4>4, UsersAssumption
              DEF Next, vars, handleLogin, EmptyField, showResetPassword,
                  handleCancelResetPassword, RemoteUpdate, updateUserInfo
    <3>2. values # <<>> /\ Head(values).exists /\ \E o \in Head(values).who : c.u = o.u
          BY <2>2, <3>1 DEF loginUser
    <3>3. 1 \in DOMAIN values /\ Head(values) = values[1]
          BY <1>0, <3>2
    <3>4. records[c.u] = "full"
          BY <1>1, <3>2, <3>3
    <3> QED BY <3>1, <3>4 DEF loginUser, server
  <2> QED BY <2>1, <2>2
<1>4. ASSUME NEW i \in DOMAIN values', values'[i].exists,
             NEW o \in values'[i].who
      PROVE  records'[o.u] = "full"
  <2>1. ASSUME NEW j \in DOMAIN values, values'[i] = values[j] PROVE records'[o.u] = "full"
    <3>1. o \in Observer /\ o.u \in Users
          BY <1>0, <1>4, <2>1 DEF Inv, TypeOK, Observer
    <3> QED BY <1>1, <1>2, <1>4, <2>1, <3>1
  <2>2. CASE values' = values
        BY <1>4, <2>1, <2>2
  <2>3. ASSUME NEW u \in Users, values' = Raise(u, TRUE), records'[u] = "full"
        PROVE  records'[o.u] = "full"
        BY <1>4, <2>1, <2>3, RaiseAdds DEF Inv
  <2>4. ASSUME NEW u \in Users, NEW ok \in BOOLEAN, handleLogin(u, ok)
        PROVE  records'[o.u] = "full"
    <3>1. PICK e, b : /\ b = [u |-> u, ok |-> ok, vc |-> login]
                      /\ e = [who |-> {b}, exists |-> records[u] = "full"]
          OBVIOUS
    <3>2. /\ values' = Append(values, e) /\ records' = records
          /\ b.u = u /\ e.who = {b} /\ e.exists = (records[u] = "full")
          BY <2>4, <3>1 DEF handleLogin, server
    <3>3. \/ i \in DOMAIN values /\ values'[i] = values[i]
          \/ values'[i] = e
          BY <1>0, <1>4, <3>2
    <3> QED BY <1>4, <2>1, <3>2, <3>3
  <2>5. CASE loginUser
    <3>1. i + 1 \in DOMAIN values /\ values'[i] = values[i + 1]
          BY <1>0, <1>4, <2>5 DEF loginUser
    <3> QED BY <2>1, <3>1
  <2>6. ASSUME NEW c \in calls, Answer(c) PROVE records'[o.u] = "full"
    <3>1. CASE createUser(c) /\ values' = Raise(c.u, TRUE)
      <4>1. records' = [records EXCEPT ![c.u] = "full"] \/ values' = values
            BY <3>1 DEF createUser
      <4> QED BY <1>0, <2>2, <2>3, <3>1, <4>1
    <3> QED BY <1>0, <2>2, <2>6, <3>1 DEF Answer, createUser, signIn, didSignInFor,
               signInWithCredential, deleteUser, sendPasswordReset
  <2>7. ASSUME NEW u \in Users, RemoteUpdate(u) PROVE records'[o.u] = "full"
        BY <2>3, <2>7 DEF RemoteUpdate, server
  <2>8. CASE updateUserInfo
    <3>1. currentUser \in Users
          BY <1>0, <2>8 DEF updateUserInfo
    <3> QED BY <1>2, <2>2, <2>3, <2>8, <3>1 DEF updateUserInfo
  <2>9. CASE Relaunch
        BY <1>4, <2>9 DEF Relaunch
  <2> QED BY <1>0, <2>2, <2>4, <2>5, <2>6, <2>7, <2>8, <2>9, UsersAssumption
          DEF Next, vars, handleSignup, handleGoogle, EmptyField, showResetPassword,
              handleCancelResetPassword, handleResetPassword, handleLogout
<1> QED BY <1>3, <1>4

(***************************************************************************)
(* Up to the first deletion, whoever createUser's or loginUser's           *)
(* completion signs in has her record, although accounts without a record  *)
(* exist: the ones whose sign-up was answered with an error, or not        *)
(* answered before a restart.                                              *)
(***************************************************************************)
THEOREM SessionRecords == Spec => SignInFindsRecord
<1>1. Init => RecordsFound
      BY DEF Init, RecordsFound
<1>2. ASSUME Inv, RecordsFound, [Next]_vars
      PROVE  [deletes = 0 /\ relaunches' = relaunches /\ currentUser' # currentUser
                => \A u \in Users \ GoogleUsers :
                      currentUser' = u => records'[u] = "full"]_vars
  <2> SUFFICES ASSUME Next, deletes = 0, relaunches' = relaunches,
                      currentUser' # currentUser,
                      NEW u \in Users \ GoogleUsers, currentUser' = u
               PROVE  records'[u] = "full"
      BY <1>2
  <2>1. /\ records \in [Users -> RecordStates]
        /\ \A c \in calls : c.u \in Users /\ c.kind # "delete"
        /\ \A c \in calls : c.kind = "credential" => c.u \in GoogleUsers
        /\ \A c \in calls : c.kind = "signIn" => records[c.u] = "full"
        BY <1>2 DEF Inv, TypeOK, Call, NoDeletePending, GoogleCalls, RecordsFound
  <2>2. ~Relaunch /\ ~handleLogout
        BY <1>2, UsersAssumption DEF Relaunch, handleLogout, Inv, TypeOK
  <2>3. PICK c \in calls : Answer(c)
        BY <2>2 DEF Next, handleSignup, handleLogin, handleGoogle, EmptyField,
           loginUser, showResetPassword, handleCancelResetPassword,
           handleResetPassword, RemoteUpdate, handleDeleteAccount, updateUserInfo
  <2>4. CASE createUser(c)
        BY <2>1, <2>4 DEF createUser
  <2>5. CASE signIn(c)
        BY <2>1, <2>5 DEF signIn, server
  <2> QED BY <2>1, <2>3, <2>4, <2>5 DEF Answer, didSignInFor, signInWithCredential,
             deleteUser, sendPasswordReset
<1> QED BY <1>1, <1>2, RecordsFoundStep, SessionInv, PTL DEF Spec, SignInFindsRecord

(***************************************************************************)
(* A login screen is closed only by the answer to a call it made itself,   *)
(* which signs that call's user in: the completion closures that an        *)
(* earlier login screen left behind never close a later one.               *)
(***************************************************************************)
THEOREM SessionKeepsTheScreen == Spec => LateAnswersKeepTheScreen
<1>1. ASSUME Inv, [Next]_vars
      PROVE  [login' # login /\ login # 0 /\ login' = 0 /\ relaunches' = relaunches
                => \E c \in calls \ calls' : c.vc = login /\ currentUser' = c.u]_vars
  <2> SUFFICES ASSUME Next, login' # login, login # 0, login' = 0,
                      relaunches' = relaunches
               PROVE  \E c \in calls \ calls' : c.vc = login /\ currentUser' = c.u
      BY <1>1
  <2>1. ~Relaunch
        BY <1>1 DEF Relaunch, Inv, TypeOK
  <2>2. ~handleLogout /\ ~handleDeleteAccount
        BY <1>1 DEF handleLogout, handleDeleteAccount, PresentLogin, Inv, TypeOK
  <2>3. PICK c \in calls : Answer(c)
        BY <2>1, <2>2 DEF Next, handleSignup, handleLogin, handleGoogle, EmptyField,
           loginUser, showResetPassword, handleCancelResetPassword,
           handleResetPassword, RemoteUpdate, updateUserInfo
  <2>4. /\ createUser(c) \/ signIn(c) \/ signInWithCredential(c)
        /\ c \notin calls' /\ currentUser' = c.u /\ Dismiss(c.vc)
        BY <2>3 DEF Answer, createUser, signIn, signInWithCredential, didSignInFor,
           deleteUser, sendPasswordReset
  <2>5. c.vc = login
        BY <2>4 DEF Dismiss
  <2> QED BY <2>4, <2>5
<1> QED BY <1>1, SessionInv, PTL DEF Spec, LateAnswersKeepTheScreen
=============================================================================
