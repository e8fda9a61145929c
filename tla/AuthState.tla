----------------------------- MODULE AuthState -----------------------------
(***************************************************************************)
(* Who is signed in, and the auth state listeners that the screens add and *)
(* never remove.  Listener l is the l-th one added.                        *)
(***************************************************************************)
EXTENDS Integers, Sequences

CONSTANTS
    Never,    \* a listener that was told of no user yet
    MaxAuth   \* bound on sign-ins and sign-outs

ASSUME MaxAuthAssumption == MaxAuth \in Nat

VARIABLES
    currentUser,   \* Auth.auth().currentUser?.uid
    authSteps,     \* sign-ins and sign-outs so far
    authCalls,     \* calls of listeners on the main queue, oldest first
    told           \* told[l]: the user listener l was last told of

authVars == <<currentUser, authSteps, authCalls, told>>

AuthTypeOK(users) ==
    /\ currentUser \in users
    /\ authSteps \in 0 .. MaxAuth
    /\ told \in Seq(users \cup {Never})
    /\ authCalls \in Seq(DOMAIN told)

\* One listener has been added, by a viewDidLoad.
AuthInit(users) ==
    /\ currentUser \in users
    /\ authSteps = 0
    /\ told = <<Never>>
    /\ authCalls = <<1>>

(***************************************************************************)
(* A sign-in or sign-out posts a notification on the main queue, which     *)
(* calls the listeners in the order in which they were added.              *)
(***************************************************************************)
SetUser(u) ==
    /\ authSteps < MaxAuth
    /\ authSteps' = authSteps + 1
    /\ currentUser' = u
    /\ authCalls' = authCalls \o [l \in 1 .. Len(told) |-> l]
    /\ UNCHANGED told

\* A listener is added; its first call is put on the main queue.
addStateDidChangeListener ==
    /\ told' = Append(told, Never)
    /\ authCalls' = Append(authCalls, Len(told) + 1)
    /\ UNCHANGED <<currentUser, authSteps>>

(***************************************************************************)
(* The main queue calls listener l.  Its closure runs the first time and   *)
(* whenever currentUser, read now, differs from the user it was last told  *)
(* of (IsNews).                                                            *)
(***************************************************************************)
CallListener(l) ==
    /\ authCalls # <<>>
    /\ l = Head(authCalls)
    /\ authCalls' = Tail(authCalls)
    /\ told' = [told EXCEPT ![l] = currentUser]
    /\ UNCHANGED <<currentUser, authSteps>>

IsNews(l) == told[l] # currentUser
=============================================================================
