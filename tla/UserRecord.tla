----------------------------- MODULE UserRecord -----------------------------
(***************************************************************************)
(* fetchUser and the screens that show a user's record or sign with it:    *)
(* the name in MainController's navigation bar, ProfileController,         *)
(* EditProfileController and the form for a new post.                      *)
(*                                                                         *)
(* Each fetchUser adds an auth state listener, and each listener, each     *)
(* time it is told of a user, one more observer of her record.  Neither is *)
(* ever removed: listener 1 is the navigation bar's, and the others belong *)
(* to the profile and to the forms opened so far.                          *)
(***************************************************************************)
EXTENDS AuthState, FiniteSets

CONSTANTS
    Users, NoUser,
    GoogleUsers,  \* the users whose sign-in makes no record
    Infos,        \* what a record may hold: name, title and repository
    NoInfo,       \* there is no record
    Unknown,      \* the cache does not know the record
    FirstRecords, \* the records there may be at the launch
    MaxListeners, \* bound: the navigation bar, the profile and the forms
    MaxUpdates    \* bound on changes of records

ASSUME UserRecordAssumption ==
    /\ GoogleUsers \subseteq Users
    /\ NoUser \notin Users
    /\ Never \notin Users \cup {NoUser}
    /\ NoInfo \notin Infos
    /\ Unknown \notin Infos \cup {NoInfo}
    /\ FirstRecords \subseteq [Users -> Infos \cup {NoInfo}]
    /\ MaxListeners \in Nat
    /\ MaxUpdates \in Nat

VARIABLES
    records,      \* records[u]: the node users/u of the database
    view,         \* view[u]: the cache of it
    observers,    \* the observe(.value) calls: whose listener, for which uid
    registered,   \* how many of them the database queue has carried out
    values,       \* their closures on the main queue, oldest first
    fetched,      \* fetched[l]: what listener l's closure was last handed
    login,        \* the login screen covers the app
    signUp,       \* the user whose sign-up is not completed, or NoUser
    profile,      \* 0, or the listener of the profile, once it was shown
    form,         \* 0, or the listener of the open form for a post
    editing,      \* the edit profile form is open
    updates,
    uploads,      \* how many posts were written
    successes,    \* how often "Post Success" was shown
    held          \* held[u]: all that u's record has ever held (history)

data == <<records, view, updates, held>>
fetchVars == <<observers, registered, values, fetched>>
signVars == <<login, signUp>>
screens == <<profile, form, editing>>
posting == <<uploads, successes>>
vars == <<authVars, data, fetchVars, signVars, screens, posting>>

\* Nothing covers the tabs.
Idle == ~login /\ form = 0 /\ ~editing

-----------------------------------------------------------------------------
(***************************************************************************)
(* The app is launched: MainController's viewDidLoad presents login when   *)
(* there is no user, and its setNavUsername adds listener 1.               *)
(***************************************************************************)
Init ==
    /\ AuthInit(Users \cup {NoUser})
    /\ records \in FirstRecords
    /\ view = [u \in Users |-> Unknown]
    /\ observers = <<>>
    /\ registered = 0
    /\ values = <<>>
    /\ fetched = <<NoInfo>>
    /\ login = (currentUser = NoUser)
    /\ signUp = NoUser
    /\ profile = 0 /\ form = 0 /\ editing = FALSE
    /\ updates = 0
    /\ uploads = 0 /\ successes = 0
    /\ held = [u \in Users |-> {records[u]} \ {NoInfo}]

\* The registered observers of u's record.
Watching(u) == {r \in 1 .. registered : observers[r].uid = u}

\* The enumerations of a set of numbers in increasing order (there is one).
InOrder(S) ==
    {s \in [1 .. Cardinality(S) -> S] :
        \A i, j \in 1 .. Cardinality(S) : i < j => s[i] < s[j]}

(***************************************************************************)
(* The cache's record of u becomes i.  A new value is a .value event for   *)
(* each registered observer of u, in the order of registration.            *)
(***************************************************************************)
Caches(u, i) ==
    /\ view' = [view EXCEPT ![u] = i]
    /\ IF view[u] = i THEN UNCHANGED values
       ELSE \E s \in InOrder(Watching(u)) :
               values' = values \o [k \in 1 .. Cardinality(Watching(u)) |->
                                       [reg |-> s[k], info |-> i]]

\* u's record becomes i in the database.
Stores(u, i) ==
    /\ records' = [records EXCEPT ![u] = i]
    /\ held' = [held EXCEPT ![u] = @ \cup ({i} \ {NoInfo})]

-----------------------------------------------------------------------------
\* handleLogout and logOutUser.
SignOut ==
    /\ Idle
    /\ SetUser(NoUser)
    /\ login' = TRUE
    /\ UNCHANGED <<data, fetchVars, signUp, screens, posting>>

\* A login or a Google sign-in is answered and its screen dismissed.
SignIn(u) ==
    /\ login /\ signUp = NoUser /\ authCalls = <<>>
    /\ u \in GoogleUsers \/ records[u] # NoInfo
    /\ SetUser(u)
    /\ login' = FALSE
    /\ UNCHANGED <<data, fetchVars, signUp, screens, posting>>

\* A sign-up is answered: the user is signed in before createUser hears it.
SignUp(u) ==
    /\ login /\ signUp = NoUser /\ authCalls = <<>>
    /\ u \notin GoogleUsers /\ records[u] = NoInfo
    /\ SetUser(u)
    /\ signUp' = u
    /\ UNCHANGED <<data, fetchVars, login, screens, posting>>

\* createUser's completion writes the record and dismisses the screen.
createUser(i) ==
    /\ signUp # NoUser
    /\ signUp' = NoUser
    /\ login' = FALSE
    /\ Stores(signUp, i)
    /\ Caches(signUp, i)
    /\ UNCHANGED <<authVars, updates, observers, registered, fetched, screens, posting>>

(***************************************************************************)
(* The observer of an earlier login signs its user in again (loginUser in  *)
(* Session), whatever is on the screen.  Who logged in earlier is not      *)
(* kept here: it may be any user with a record.                            *)
(***************************************************************************)
SignInAgain(u) ==
    /\ u \notin GoogleUsers /\ records[u] # NoInfo
    /\ u # currentUser
    /\ SetUser(u)
    /\ UNCHANGED <<data, fetchVars, signVars, screens, posting>>

-----------------------------------------------------------------------------
\* Faulty: the listener never asks for a second user's record.
fetchUserOnce ==
    /\ \E l \in DOMAIN told :
          /\ CallListener(l)
          /\ observers' =
                IF currentUser # NoUser /\ \A r \in DOMAIN observers :
                                              observers[r].lis # l
                THEN Append(observers, [lis |-> l, uid |-> currentUser])
                ELSE observers
    /\ UNCHANGED <<data, registered, values, fetched, signVars, screens, posting>>

\* fetchUser's listener: for a user, it makes an observer of her record.
fetchUser ==
    /\ \E l \in DOMAIN told :
          /\ CallListener(l)
          /\ observers' =
                IF IsNews(l) /\ currentUser # NoUser
                THEN Append(observers, [lis |-> l, uid |-> currentUser])
                ELSE observers
    /\ UNCHANGED <<data, registered, values, fetched, signVars, screens, posting>>

\* Faulty: a new observer is not handed what the cache holds.
RegisterForChanges ==
    /\ registered < Len(observers)
    /\ registered' = registered + 1
    /\ UNCHANGED <<authVars, data, observers, values, fetched, signVars,
                   screens, posting>>

\* The database queue carries out the next observe call.
Register ==
    /\ registered < Len(observers)
    /\ registered' = registered + 1
    /\ LET u == observers[registered + 1].uid IN
          values' = IF view[u] = Unknown THEN values
                    ELSE Append(values, [reg |-> registered + 1, info |-> view[u]])
    /\ UNCHANGED <<authVars, data, observers, fetched, signVars, screens, posting>>

\* Faulty: every observer hands its record to the newest screen.
observeValueNewest ==
    /\ values # <<>>
    /\ values' = Tail(values)
    /\ fetched' = IF Head(values).info = NoInfo THEN fetched
                  ELSE [fetched EXCEPT ![Len(fetched)] = Head(values).info]
    /\ UNCHANGED <<authVars, data, observers, registered, signVars, screens,
                   posting>>

\* fetchUser's observer: without a record its caller's closure is not called.
observeValue ==
    /\ values # <<>>
    /\ values' = Tail(values)
    /\ fetched' = IF Head(values).info = NoInfo THEN fetched
                  ELSE [fetched EXCEPT ![observers[Head(values).reg].lis] =
                           Head(values).info]
    /\ UNCHANGED <<authVars, data, observers, registered, signVars, screens,
                   posting>>

\* The profile tab is shown for the first time; fetchUserInfo.
showProfile ==
    /\ Idle /\ profile = 0
    /\ Len(told) < MaxListeners
    /\ profile' = Len(told) + 1
    /\ addStateDidChangeListener
    /\ fetched' = Append(fetched, NoInfo)
    /\ UNCHANGED <<data, observers, registered, values, signVars, form,
                   editing, posting>>

\* A form for a new post is presented; its viewDidLoad calls postUserInfo.
handleAdd ==
    /\ Idle
    /\ Len(told) < MaxListeners
    /\ form' = Len(told) + 1
    /\ addStateDidChangeListener
    /\ fetched' = Append(fetched, NoInfo)
    /\ UNCHANGED <<data, observers, registered, values, signVars, profile,
                   editing, posting>>

handleDismiss ==
    /\ form # 0
    /\ form' = 0
    /\ UNCHANGED <<authVars, data, fetchVars, signVars, profile, editing, posting>>

(***************************************************************************)
(* handleSubmit with both fields filled in (else it only shows an error).  *)
(* uploadPost returns without a user or without her name; the success is   *)
(* shown all the same.                                                     *)
(***************************************************************************)
handleSubmit ==
    /\ form # 0
    /\ form' = 0
    /\ uploads' = IF currentUser = NoUser \/ fetched[form] = NoInfo
                  THEN uploads ELSE uploads + 1
    /\ successes' = successes + 1
    /\ UNCHANGED <<authVars, data, fetchVars, signVars, profile, editing>>

handleEditProfile ==
    /\ Idle /\ profile # 0
    /\ editing' = TRUE
    /\ UNCHANGED <<authVars, data, fetchVars, signVars, profile, form,
                   posting>>

handleCancelUpdateProfile ==
    /\ editing
    /\ editing' = FALSE
    /\ UNCHANGED <<authVars, data, fetchVars, signVars, profile, form,
                   posting>>

(***************************************************************************)
(* The change is confirmed: updateUserInfo merges it into the record of    *)
(* whoever is signed in now.  A merge into a record the cache does not     *)
(* know stays out of the cache until the record arrives.                   *)
(***************************************************************************)
handleUpdateProfile(i) ==
    /\ editing
    /\ editing' = FALSE
    /\ updates < MaxUpdates
    /\ updates' = updates + 1
    /\ IF currentUser = NoUser
       THEN UNCHANGED <<records, held, view, values>>
       ELSE /\ Stores(currentUser, i)
            /\ IF view[currentUser] = Unknown THEN UNCHANGED <<view, values>>
                                              ELSE Caches(currentUser, i)
    /\ UNCHANGED <<authVars, observers, registered, fetched, login, signUp,
                   profile, form, posting>>

\* Another device changes a record or, with its account, deletes it.
RemoteUpdate(u, i) ==
    /\ updates < MaxUpdates
    /\ updates' = updates + 1
    /\ records[u] \notin {NoInfo, i}
    /\ Stores(u, i)
    /\ UNCHANGED <<authVars, view, fetchVars, login, signUp,
                   screens, posting>>

\* The record of an observed user reaches the cache.
RecordArrives(u) ==
    /\ \E r \in 1 .. registered : observers[r].uid = u
    /\ view[u] # records[u]
    /\ Caches(u, records[u])
    /\ UNCHANGED <<authVars, records, updates, held, observers, registered,
                   fetched, signVars, screens, posting>>

Next ==
    \/ SignOut
    \/ \E u \in Users : SignIn(u) \/ SignUp(u) \/ SignInAgain(u)
    \/ fetchUser
    \/ Register
    \/ observeValue
    \/ showProfile
    \/ handleAdd
    \/ handleDismiss
    \/ handleSubmit
    \/ handleEditProfile
    \/ handleCancelUpdateProfile
    \/ \E i \in Infos : createUser(i) \/ handleUpdateProfile(i)
    \/ \E u \in Users : RecordArrives(u)
    \/ \E u \in Users, i \in Infos \cup {NoInfo} : RemoteUpdate(u, i)

(***************************************************************************)
(* The queues are served, and the connection brings what the observers     *)
(* listen to.  The user and the other devices owe nothing.                 *)
(***************************************************************************)
Spec ==
    /\ Init /\ [][Next]_vars
    /\ WF_vars(fetchUser)
    /\ WF_vars(Register)
    /\ WF_vars(observeValue)
    /\ \A u \in Users : WF_vars(RecordArrives(u))

-----------------------------------------------------------------------------
Quiet ==
    /\ authCalls = <<>>
    /\ registered = Len(observers)
    /\ values = <<>>

(***************************************************************************)
(* As long as only one user was signed in since the launch, the quiet      *)
(* navigation bar, profile and form all show what the cache holds of her   *)
(* record, however many observers of it there are and whatever was changed *)
(* here and elsewhere: none is left with an older value.                   *)
(***************************************************************************)
ShowsOwnRecord ==
    /\ Quiet
    /\ currentUser # NoUser
    /\ \A r \in DOMAIN observers : observers[r].uid = currentUser
    /\ view[currentUser] \in Infos
    => \A l \in {1, profile, form} \ {0} : fetched[l] = view[currentUser]

(***************************************************************************)
(* An open form signs with a name of the user it will post as, current or  *)
(* earlier, unless the user changed while it was open: the observers that  *)
(* earlier forms and users left behind do not reach it.                    *)
(***************************************************************************)
FormHasOwnName ==
    /\ form # 0
    /\ \A r \in DOMAIN observers :
          observers[r].lis = form => observers[r].uid = currentUser
    => fetched[form] \in held[currentUser] \cup {NoInfo}

\* The open form has no name yet, and the user has a record to take it from.
Waiting ==
    /\ form # 0
    /\ currentUser # NoUser
    /\ records[currentUser] # NoInfo
    /\ fetched[form] = NoInfo

(***************************************************************************)
(* No form waits for ever for the name of a user who has a record: however *)
(* the change of user, the registration and the arrival of the record are  *)
(* ordered, one of the form's observers is handed it.                      *)
(***************************************************************************)
NameArrives == Waiting ~> ~Waiting
=============================================================================
