------------------------------ MODULE Session ------------------------------
(***************************************************************************)
(* Signing up, in and out, and deleting an account: LoginController,       *)
(* ResetPasswordController, the USER block of FirebaseServices, the Google *)
(* delegate, MainController's logout and ProfileController's deletion.     *)
(*                                                                         *)
(* Calls to the authentication server are answered later, in any order and *)
(* possibly with an error; by then the screen that made the call may be    *)
(* gone.  loginUser's query of the user record is an observer that is      *)
(* never removed and signs in again whenever the record changes.           *)
(***************************************************************************)
EXTENDS Integers, Sequences, FiniteSets

CONSTANTS
    Users,         \* people: each has one email address and one uid
    NoUser,
    GoogleUsers,   \* the users who sign in with Google
    NetworkFails,  \* whether a call may be answered with an error
    MaxLogins,     \* bound on the login screens presented
    MaxAttempts,   \* bound on taps of Sign up, Login and Google
    MaxUpdates,    \* bound on changes of user records
    MaxDeletes,    \* bound on account deletions
    MaxRelaunch    \* bound on restarts of the app

ASSUME UsersAssumption == GoogleUsers \subseteq Users /\ NoUser \notin Users
ASSUME NetworkAssumption == NetworkFails \in BOOLEAN
ASSUME SessionBoundsAssumption ==
    {MaxLogins, MaxAttempts, MaxUpdates, MaxDeletes, MaxRelaunch} \subseteq Nat

VARIABLES
    accounts,     \* the accounts of the authentication server
    records,      \* records[u]: the node users/u of the database
    currentUser,  \* Auth.auth().currentUser, kept across restarts
    gidUser,      \* the user GIDSignIn remembers, kept across restarts
    calls,        \* calls the server has not answered yet
    observers,    \* the observers of loginUser's query
    values,       \* the .value events on the main queue
    login,        \* 0, or the number of the login screen that is shown
    presented,    \* login screens presented since the last launch
    reset,        \* the reset password sheet covers the login screen
    hud,          \* what ProgressHUD shows
    attempts, updates, deletes, relaunches

server == <<accounts, records>>
counters == <<attempts, updates, deletes, relaunches>>
vars == <<server, currentUser, gidUser, calls, observers, values, login,
          presented, reset, hud, counters>>

\* `ok': the password typed is the account's; `vc': the login screen used.
Observer == [u: Users, ok: BOOLEAN, vc: Nat]

Kinds == {"create", "signIn", "gid", "credential", "delete", "reset"}

Call == [kind: Kinds, u: Users, ok: BOOLEAN, vc: Nat]

(***************************************************************************)
(* A user record has all of its fields after a sign-up.  updateUserInfo on *)
(* a record that is not there leaves one without an email.                 *)
(***************************************************************************)
RecordStates == {"none", "full", "partial"}

TypeOK ==
    /\ accounts \subseteq Users
    /\ records \in [Users -> RecordStates]
    /\ currentUser \in Users \cup {NoUser}
    /\ gidUser \in GoogleUsers \cup {NoUser}
    /\ calls \subseteq Call
    /\ observers \subseteq Observer
    /\ values \in Seq([who: SUBSET Observer, exists: BOOLEAN])
    /\ \A i \in DOMAIN values : values[i].who \subseteq observers
    /\ presented \in Nat
    /\ login \in 0 .. presented
    /\ reset \in BOOLEAN
    /\ reset => login # 0
    /\ hud \in {"none", "spinner", "error", "success"}
    /\ attempts \in 0 .. MaxAttempts
    /\ updates \in 0 .. MaxUpdates
    /\ deletes \in 0 .. MaxDeletes
    /\ relaunches \in 0 .. MaxRelaunch

-----------------------------------------------------------------------------
\* The .value events that a change of u's record raises: one per observer.
Raise(u, exists) ==
    LET who == {o \in observers : o.u = u}
    IN  IF who = {} THEN values
        ELSE Append(values, [who |-> who, exists |-> exists])

(***************************************************************************)
(* present of a new LoginController, whose viewDidLoad asks GIDSignIn to   *)
(* restore the user it remembers.  `after' are the calls made before.      *)
(***************************************************************************)
PresentLogin(after, gid) ==
    /\ presented' = presented + 1
    /\ login' = presented + 1
    /\ reset' = FALSE
    /\ calls' = IF gid = NoUser THEN after
                ELSE after \cup {[kind |-> "gid", u |-> gid, ok |-> TRUE,
                                  vc |-> presented + 1]}

(***************************************************************************)
(* vc.dismiss: a screen that presents another one dismisses that one, and  *)
(* a screen that is not shown dismisses nothing.                           *)
(***************************************************************************)
Dismiss(vc) ==
    /\ login' = IF login = vc /\ ~reset THEN 0 ELSE login
    /\ reset' = (reset /\ login # vc)

OnLogin == login # 0 /\ ~reset

Init ==
    /\ accounts = {}
    /\ records = [u \in Users |-> "none"]
    /\ currentUser = NoUser
    /\ gidUser = NoUser
    /\ calls = {}
    /\ observers = {}
    /\ values = <<>>
    /\ login = 1
    /\ presented = 1
    /\ reset = FALSE
    /\ hud = "none"
    /\ attempts = 0 /\ updates = 0 /\ deletes = 0 /\ relaunches = 0

Attempt ==
    /\ OnLogin
    /\ attempts < MaxAttempts
    /\ attempts' = attempts + 1
    /\ UNCHANGED <<updates, deletes, relaunches>>

\* handleSignup with all fields filled in, and createUser up to its call.
handleSignup(u) ==
    /\ Attempt
    /\ hud' = "spinner"
    /\ calls' = calls \cup {[kind |-> "create", u |-> u, ok |-> TRUE,
                             vc |-> login]}
    /\ UNCHANGED <<server, currentUser, gidUser, observers, values, login,
                   presented, reset>>

\* handleSignup, handleLogin or the sheet's button with an empty field.
EmptyField ==
    /\ login # 0
    /\ hud' = "error"
    /\ UNCHANGED <<server, currentUser, gidUser, calls, observers, values,
                   login, presented, reset, counters>>

\* handleLogin, and loginUser up to the registration of its observer.
handleLogin(u, ok) ==
    /\ Attempt
    /\ hud' = "spinner"
    /\ LET o == [u |-> u, ok |-> ok, vc |-> login] IN
          /\ observers' = observers \cup {o}
          /\ values' = Append(values, [who |-> {o}, exists |-> records[u] = "full"])
    /\ UNCHANGED <<server, currentUser, gidUser, calls, login, presented, reset>>

\* Faulty: the record is found and nobody is signed in.
loginUserOnlyChecks ==
    /\ values # <<>>
    /\ values' = Tail(values)
    /\ hud' = IF Head(values).exists THEN "none" ELSE "error"
    /\ UNCHANGED <<server, currentUser, gidUser, calls, observers, login,
                   presented, reset, counters>>

\* Faulty: whether the record is there is not looked at.
loginUserAnyway ==
    /\ values # <<>>
    /\ values' = Tail(values)
    /\ calls' = calls \cup {[kind |-> "signIn", u |-> o.u, ok |-> o.ok,
                             vc |-> o.vc] : o \in Head(values).who}
    /\ UNCHANGED <<server, currentUser, gidUser, observers, login, presented,
                   reset, hud, counters>>

\* The closure of loginUser's observers.
loginUser ==
    /\ values # <<>>
    /\ values' = Tail(values)
    /\ LET e == Head(values) IN
          IF e.exists
          THEN /\ calls' = calls \cup {[kind |-> "signIn", u |-> o.u,
                                        ok |-> o.ok, vc |-> o.vc] : o \in e.who}
               /\ UNCHANGED hud
          ELSE /\ hud' = "error"
               /\ UNCHANGED calls
    /\ UNCHANGED <<server, currentUser, gidUser, observers, login, presented,
                   reset, counters>>

handleGoogle(u) ==
    /\ Attempt
    /\ calls' = calls \cup {[kind |-> "gid", u |-> u, ok |-> TRUE, vc |-> login]}
    /\ UNCHANGED <<server, currentUser, gidUser, observers, values, login,
                   presented, reset, hud>>

-----------------------------------------------------------------------------
(***************************************************************************)
(* The answers.  An error may also mean that the server did what it was    *)
(* asked and its answer was lost; the library then changes nothing.        *)
(***************************************************************************)
\* createUser's completion: the record is written, the screen dismissed.
createUser(c) ==
    /\ c.kind = "create"
    /\ calls' = calls \ {c}
    /\ \/ /\ c.u \notin accounts
          /\ accounts' = accounts \cup {c.u}
          /\ currentUser' = c.u
          /\ records' = [records EXCEPT ![c.u] = "full"]
          /\ values' = Raise(c.u, TRUE)
          /\ hud' = "none"
          /\ Dismiss(c.vc)
       \/ /\ c.u \in accounts \/ NetworkFails
          /\ hud' = "error"
          /\ \/ UNCHANGED accounts
             \/ NetworkFails /\ accounts' = accounts \cup {c.u}
          /\ UNCHANGED <<records, currentUser, values, login, reset>>
    /\ UNCHANGED <<gidUser, observers, presented, counters>>

\* Faulty: the login screen is dismissed after an error, too.
signInDismissesAlways(c) ==
    /\ c.kind = "signIn"
    /\ calls' = calls \ {c}
    /\ Dismiss(c.vc)
    /\ \/ /\ c.ok /\ c.u \in accounts
          /\ currentUser' = c.u
          /\ hud' = "none"
       \/ /\ ~c.ok \/ c.u \notin accounts \/ NetworkFails
          /\ UNCHANGED <<currentUser, hud>>
    /\ UNCHANGED <<server, gidUser, observers, values, presented, counters>>

(***************************************************************************)
(* signIn's completion.  On an error there is no user, and the first guard *)
(* returns before anything is shown or dismissed.                          *)
(***************************************************************************)
signIn(c) ==
    /\ c.kind = "signIn"
    /\ calls' = calls \ {c}
    /\ \/ /\ c.ok /\ c.u \in accounts
          /\ currentUser' = c.u
          /\ hud' = "none"
          /\ Dismiss(c.vc)
       \/ /\ ~c.ok \/ c.u \notin accounts \/ NetworkFails
          /\ UNCHANGED <<currentUser, hud, login, reset>>
    /\ UNCHANGED <<server, gidUser, observers, values, presented, counters>>

\* GIDSignIn answers its delegate, which is the newest login screen.
didSignInFor(c) ==
    /\ c.kind = "gid"
    /\ \/ /\ gidUser' = c.u
          /\ calls' = (calls \ {c}) \cup
                {[kind |-> "credential", u |-> c.u, ok |-> TRUE,
                  vc |-> presented]}
       \/ /\ NetworkFails
          /\ calls' = calls \ {c}
          /\ UNCHANGED gidUser
    /\ UNCHANGED <<server, currentUser, observers, values, login, presented,
                   reset, hud, counters>>

\* The completion of the sign-in with Google's credential: no record is made.
signInWithCredential(c) ==
    /\ c.kind = "credential"
    /\ calls' = calls \ {c}
    /\ \/ /\ accounts' = accounts \cup {c.u}
          /\ currentUser' = c.u
          /\ Dismiss(c.vc)
       \/ /\ NetworkFails
          /\ accounts' \in {accounts, accounts \cup {c.u}}
          /\ UNCHANGED <<currentUser, login, reset>>
    /\ UNCHANGED <<records, gidUser, observers, values, presented, hud, counters>>

(***************************************************************************)
(* delete's completion.  The library has signed the user out if she still  *)
(* is the current one.  After an error the record is removed all the same. *)
(***************************************************************************)
deleteUser(c) ==
    /\ c.kind = "delete"
    /\ calls' = calls \ {c}
    /\ \/ /\ accounts' = accounts \ {c.u}
          /\ currentUser' = IF currentUser = c.u THEN NoUser ELSE currentUser
          /\ UNCHANGED hud
       \/ /\ NetworkFails
          /\ hud' = "error"
          /\ accounts' \in {accounts, accounts \ {c.u}}
          /\ UNCHANGED currentUser
    /\ records' = [records EXCEPT ![c.u] = "none"]
    /\ values' = IF records[c.u] = "full" THEN Raise(c.u, FALSE) ELSE values
    /\ UNCHANGED <<gidUser, observers, login, presented, reset, counters>>

sendPasswordReset(c) ==
    /\ c.kind = "reset"
    /\ calls' = calls \ {c}
    /\ \/ c.u \in accounts /\ hud' = "success"
       \/ (c.u \notin accounts \/ NetworkFails) /\ hud' = "error"
    /\ UNCHANGED <<server, currentUser, gidUser, observers, values, login,
                   presented, reset, counters>>

Answer(c) ==
    \/ createUser(c)
    \/ signIn(c)
    \/ didSignInFor(c)
    \/ signInWithCredential(c)
    \/ deleteUser(c)
    \/ sendPasswordReset(c)

-----------------------------------------------------------------------------
\* Faulty: the sheet is presented wherever the user is.
showResetPasswordAnywhere ==
    /\ ~reset
    /\ reset' = TRUE
    /\ UNCHANGED <<server, currentUser, gidUser, calls, observers, values,
                   login, presented, hud, counters>>

\* The link on the login screen, and the sheet's own two buttons.
showResetPassword ==
    /\ OnLogin
    /\ reset' = TRUE
    /\ UNCHANGED <<server, currentUser, gidUser, calls, observers, values,
                   login, presented, hud, counters>>

handleCancelResetPassword ==
    /\ reset
    /\ reset' = FALSE
    /\ UNCHANGED <<server, currentUser, gidUser, calls, observers, values,
                   login, presented, hud, counters>>

handleResetPassword(u) ==
    /\ reset
    /\ reset' = FALSE
    /\ calls' = calls \cup {[kind |-> "reset", u |-> u, ok |-> TRUE, vc |-> login]}
    /\ UNCHANGED <<server, currentUser, gidUser, observers, values, login,
                   presented, hud, counters>>

\* Faulty: a logout presents nothing.
handleLogoutStays ==
    /\ login = 0
    /\ presented < MaxLogins
    /\ gidUser' = NoUser
    /\ currentUser' = NoUser
    /\ UNCHANGED <<server, calls, observers, values, login, presented, reset,
                   hud, counters>>

(***************************************************************************)
(* OK in the logout dialog: GIDSignIn and Auth sign out, login is          *)
(* presented.  Auth's sign-out may throw, which is only printed.           *)
(***************************************************************************)
handleLogout ==
    /\ login = 0
    /\ presented < MaxLogins
    /\ gidUser' = NoUser
    /\ \/ /\ currentUser' = NoUser
          /\ PresentLogin(calls, NoUser)
       \/ UNCHANGED <<currentUser, calls, login, presented, reset>>
    /\ UNCHANGED <<server, observers, values, hud, counters>>

(***************************************************************************)
(* OK in the delete account dialog: the call is made and, without waiting  *)
(* for its answer, login is presented.                                     *)
(***************************************************************************)
handleDeleteAccount ==
    /\ login = 0
    /\ presented < MaxLogins
    /\ deletes < MaxDeletes
    /\ deletes' = deletes + 1
    /\ PresentLogin(IF currentUser = NoUser THEN calls
                    ELSE calls \cup {[kind |-> "delete", u |-> currentUser,
                                      ok |-> TRUE, vc |-> 0]}, gidUser)
    /\ UNCHANGED <<server, currentUser, gidUser, observers, values, hud,
                   attempts, updates, relaunches>>

Update ==
    /\ updates < MaxUpdates
    /\ updates' = updates + 1
    /\ UNCHANGED <<attempts, deletes, relaunches>>

updateUserInfo ==
    /\ login = 0
    /\ currentUser # NoUser
    /\ Update
    /\ records' = [records EXCEPT ![currentUser] =
                      IF @ = "none" THEN "partial" ELSE @]
    /\ values' = IF records[currentUser] = "full" THEN Raise(currentUser, TRUE)
                                                  ELSE values
    /\ hud' = "success"
    /\ UNCHANGED <<accounts, currentUser, gidUser, calls, observers, login,
                   presented, reset>>

\* A user changes her profile on another device.
RemoteUpdate(u) ==
    /\ records[u] = "full"
    /\ Update
    /\ values' = Raise(u, TRUE)
    /\ UNCHANGED <<server, currentUser, gidUser, calls, observers, login,
                   presented, reset, hud>>

(***************************************************************************)
(* The app is killed and started again.  Calls that were under way may     *)
(* have been carried out; the libraries may have saved the user that they  *)
(* sign in or out, but no completion has run.                              *)
(***************************************************************************)
MayBeDone ==
    {c \in calls : \/ c.kind = "create" /\ c.u \notin accounts
                   \/ c.kind = "signIn" /\ c.ok /\ c.u \in accounts
                   \/ c.kind \in {"gid", "credential", "delete"}}

UsersOf(cs, kinds) == {c.u : c \in {d \in cs : d.kind \in kinds}}

Relaunch ==
    /\ relaunches < MaxRelaunch
    /\ relaunches' = relaunches + 1
    /\ \E done \in SUBSET MayBeDone :
          /\ accounts' = (accounts \cup UsersOf(done, {"create", "credential"}))
                            \ UsersOf(done, {"delete"})
          /\ \/ UNCHANGED currentUser
             \/ currentUser' \in UsersOf(done, {"create", "signIn", "credential"})
             \/ currentUser \in UsersOf(done, {"delete"}) /\ currentUser' = NoUser
          /\ gidUser' \in {gidUser} \cup UsersOf(done, {"gid"})
    /\ observers' = {}
    /\ values' = <<>>
    /\ hud' = "none"
    /\ reset' = FALSE
    /\ IF currentUser' = NoUser
       THEN /\ login' = 1 /\ presented' = 1
            /\ calls' = IF gidUser' = NoUser THEN {}
                        ELSE {[kind |-> "gid", u |-> gidUser', ok |-> TRUE,
                               vc |-> 1]}
       ELSE login' = 0 /\ presented' = 0 /\ calls' = {}
    /\ UNCHANGED <<records, attempts, updates, deletes>>

Next ==
    \/ \E u \in Users \ GoogleUsers :
          \/ handleSignup(u)
          \/ \E ok \in BOOLEAN : handleLogin(u, ok)
    \/ \E u \in GoogleUsers : handleGoogle(u)
    \/ EmptyField
    \/ loginUser
    \/ \E c \in calls : Answer(c)
    \/ showResetPassword
    \/ handleCancelResetPassword
    \/ \E u \in Users : handleResetPassword(u) \/ RemoteUpdate(u)
    \/ handleLogout
    \/ handleDeleteAccount
    \/ updateUserInfo
    \/ Relaunch

(***************************************************************************)
(* The main queue is served and the server answers every call, perhaps     *)
(* with an error.  The user and the other devices owe nothing.             *)
(***************************************************************************)
Spec ==
    /\ Init /\ [][Next]_vars
    /\ WF_vars(loginUser)
    /\ \A k \in Kinds, u \in Users :
          WF_vars(\E c \in calls : c.kind = k /\ c.u = u /\ Answer(c))

-----------------------------------------------------------------------------
Quiet == calls = {} /\ values = <<>>

(***************************************************************************)
(* As long as no account is deleted, whoever is signed out sees the login  *)
(* screen: no answer, however late, and no observer of an earlier login    *)
(* closes it without signing somebody in.                                  *)
(***************************************************************************)
SignedOutMeansLogin == deletes = 0 /\ currentUser = NoUser => login # 0

(***************************************************************************)
(* As long as no account is deleted, nobody is signed in with email and    *)
(* password whose record is not there by then, except by a restart: not    *)
(* after a sign-up whose answer was lost, not by an observer of an earlier *)
(* login, and not by a sign-in answered long after loginUser's "Check if   *)
(* user exit before login" (FirebaseServices.swift:41).                    *)
(***************************************************************************)
SignInFindsRecord ==
    [][deletes = 0 /\ relaunches' = relaunches /\ currentUser' # currentUser
          => \A u \in Users \ GoogleUsers :
                currentUser' = u => records'[u] = "full"]_vars

(***************************************************************************)
(* The login screen only closes because a call that this very screen made  *)
(* is answered and signs its user in, also after deletions and restarts:   *)
(* the late answer to an earlier screen's call leaves it alone.            *)
(***************************************************************************)
LateAnswersKeepTheScreen ==
    [][login' # login /\ login # 0 /\ login' = 0 /\ relaunches' = relaunches
          => \E c \in calls \ calls' : c.vc = login /\ currentUser' = c.u]_vars

(***************************************************************************)
(* A login with the right password of an account with a record ends with   *)
(* that user signed in, if the network works.                              *)
(***************************************************************************)
LoginSucceeds ==
    \A u \in Users \ GoogleUsers :
        (\E i \in DOMAIN values : values[i].exists /\
            \E o \in values[i].who : o.u = u /\ o.ok) ~> currentUser = u
=============================================================================
