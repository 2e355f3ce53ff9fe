-------------------------------- MODULE Portal --------------------------------
(****************************************************************************)
(* One browser tab of the front end: its session (api/client.js,            *)
(* AuthContext.jsx, authService.js, LoginPage.jsx) and a page that shows a  *)
(* list and, in a dialog, one row of it (useAsyncResource.js and            *)
(* PaidServicesPage.jsx), over a server that checks the token of every      *)
(* request (auth.service.ts, jwt-auth.guard.ts).                            *)
(*                                                                          *)
(* The load of a resource and the dialog's action are sent in one step,     *)
(* handled by the server in a second one, and their answer arrives in a     *)
(* third; other requests are handled when their answer arrives. Any request *)
(* may be lost, before or after it was handled. What runs between two       *)
(* awaits is one step. A superseded load is aborted, but many loaders do    *)
(* not pass the signal on: it may be answered. The row is known by its      *)
(* version. StrictMode, which mounts everything twice in development, is    *)
(* left out.                                                                *)
(****************************************************************************)
EXTENDS Naturals

CONSTANTS
    User,
    Token,         \* what logins hand out
    MaxVersion,    \* bound: versions of the row
    MaxReads,      \* bound: resource -> its loads while it is mounted
    NoUser, NoToken

Resource == {"LIST", "DETAILS"}

ASSUME PortalAssumption ==
    /\ NoUser \notin User /\ NoToken \notin Token
    /\ MaxVersion \in Nat \ {0} /\ MaxReads \in [Resource -> Nat \ {0}]

VARIABLES
    server,    \* who a token was issued to, which are refused, the row
    storage,   \* sessionStorage: accessToken and currentUser
    session,   \* the state of AuthProvider
    loading,   \* AuthProvider restores the session
    me,        \* the shared request for /auth/me: its token, and its last caller's
    signIn,    \* the user who signs in
    shown,     \* resource -> the state of its useAsyncResource
    reads,     \* the loads of mounted resources
    stray,     \* the tokens of loads whose page was left
    act        \* the dialog's action

vars == <<server, storage, session, loading, me, signIn, shown, reads, stray, act>>
auth == <<storage, session, loading, me, signIn>>
pages == <<shown, reads, stray, act>>

SessionType == [token : Token \cup {NoToken}, user : User \cup {NoUser}]
Signed(t, u) == [token |-> t, user |-> u]
SignedOut == Signed(NoToken, NoUser)

\* What the server answered: nothing yet, 401, another refusal, or success.
Answer == {"NONE", "UNAUTHORIZED", "REFUSED", "OK"}

\* The tab and the server hold values of their types.
TypeOK ==
    /\ server \in [owner : [Token -> User \cup {NoUser}], revoked : SUBSET Token,
                   version : 1..MaxVersion]
    /\ storage \in SessionType /\ session \in SessionType
    /\ loading \in BOOLEAN
    /\ me \in [sent : Token \cup {NoToken}, waiter : Token \cup {NoToken}]
    /\ signIn \in User \cup {NoUser}
    /\ shown \in [Resource -> [mounted : BOOLEAN, latest : Nat,
                               data : 0..MaxVersion, loading : BOOLEAN]]
    /\ reads \subseteq [of : Resource, id : Nat, token : Token,
                        answer : Answer, data : 0..MaxVersion]
    /\ stray \subseteq Token
    /\ act \in [phase : {"IDLE", "SENT", "RELOADING"}, token : Token \cup {NoToken},
                version : 0..MaxVersion, answer : Answer]

NoMe == [sent |-> NoToken, waiter |-> NoToken]
NoAct == [phase |-> "IDLE", token |-> NoToken, version |-> 0, answer |-> "NONE"]
Unmounted == [mounted |-> FALSE, latest |-> 0, data |-> 0, loading |-> FALSE]

Init ==
    /\ server = [owner |-> [t \in Token |-> NoUser], revoked |-> {}, version |-> 1]
    /\ storage = SignedOut /\ session = SignedOut
    /\ loading = FALSE
    /\ me = NoMe /\ signIn = NoUser /\ act = NoAct
    /\ shown = [x \in Resource |-> Unmounted]
    /\ reads = {} /\ stray = {}

-----------------------------------------------------------------------------
(* The server. *)

\* The token's user was deleted or deactivated, or it expired.
Revoke(t) ==
    /\ server.owner[t] # NoUser
    /\ t \notin server.revoked
    /\ server' = [server EXCEPT !.revoked = @ \cup {t}]
    /\ UNCHANGED <<auth, pages>>

\* Somebody else acts on the row.
OthersAct ==
    /\ server.version < MaxVersion
    /\ server' = [server EXCEPT !.version = @ + 1]
    /\ UNCHANGED <<auth, pages>>

\* canActivate
Accepts(t) == t \notin server.revoked

Checked(t) == IF Accepts(t) THEN "OK" ELSE "UNAUTHORIZED"

HandleRead(q) ==
    /\ q \in reads /\ q.answer = "NONE"
    /\ reads' = (reads \ {q}) \cup
          {[q EXCEPT !.answer = Checked(q.token),
                     !.data = IF Accepts(q.token) THEN server.version ELSE 0]}
    /\ UNCHANGED <<server, auth, shown, stray, act>>

\* The answer holds the row as the action left it; an action on another version
\* than the stored one is refused, and so may any other be.
HandleAct ==
    /\ act.phase = "SENT" /\ act.answer = "NONE"
    /\ \/ /\ Accepts(act.token)
          /\ act.version = server.version /\ server.version < MaxVersion
          /\ server' = [server EXCEPT !.version = @ + 1]
          /\ act' = [act EXCEPT !.answer = "OK", !.version = @ + 1]
       \/ /\ act' = [act EXCEPT !.answer = IF Accepts(act.token) THEN "REFUSED"
                                           ELSE "UNAUTHORIZED"]
          /\ UNCHANGED server
    /\ UNCHANGED <<auth, shown, reads, stray>>

-----------------------------------------------------------------------------
(* The session. *)

\* A protected page is shown (ProtectedRoute).
Authenticated == ~loading /\ session.token # NoToken /\ session.user # NoUser

\* The loads of the resources X, which unmount, may go on.
Strayed(X) ==
    /\ stray' = stray \cup {q.token : q \in {p \in reads : p.of \in X /\ p.answer # "OK"}}
    /\ reads' = {q \in reads : q.of \notin X}

\* Leaving the pages unmounts them; an action under way goes on unseen.
LeavePages ==
    /\ shown' = [x \in Resource |-> Unmounted]
    /\ act' = NoAct
    /\ Strayed(Resource)

\* Mutant: nothing tells AuthProvider.
StorageCleared == storage' = SignedOut /\ UNCHANGED <<session, loading>>

\* clearAuthentication, also called as unauthorizedHandler
Cleared == storage' = SignedOut /\ session' = SignedOut /\ loading' = FALSE

\* saveSession and setSession
Saved(t, u) == storage' = Signed(t, u) /\ session' = Signed(t, u)

\* The page is loaded: AuthProvider starts from the storage and restores it.
Restart ==
    /\ storage.token # NoToken
    /\ session' = storage
    /\ loading' = TRUE
    /\ me' = [sent |-> storage.token, waiter |-> storage.token]
    /\ signIn' = NoUser
    /\ shown' = [x \in Resource |-> Unmounted]
    /\ reads' = {} /\ stray' = {}
    /\ act' = NoAct
    /\ UNCHANGED <<server, storage>>

\* refreshUser, after the user edited the own account: it joins a request for
\* /auth/me that is under way, whichever token that was sent with.
RefreshUser ==
    /\ Authenticated
    /\ me' = IF me = NoMe THEN [sent |-> storage.token, waiter |-> storage.token]
             ELSE [me EXCEPT !.waiter = storage.token]
    /\ UNCHANGED <<server, storage, session, loading, signIn, pages>>

\* The pages stay while somebody is signed in (ProtectedRoute), unless it is another
\* user who may have another role (RoleRoute).
FollowSession ==
    \/ Authenticated' /\ UNCHANGED pages
    \/ ~(Authenticated' /\ session'.user = session.user) /\ LeavePages

\* The user of the token that was sent is saved with the token of the last one
\* who waits.
AnswerMe ==
    /\ me # NoMe
    /\ me' = NoMe
    /\ IF Accepts(me.sent)
       THEN Saved(me.waiter, server.owner[me.sent]) /\ loading' = FALSE
       ELSE Cleared
    /\ FollowSession
    /\ UNCHANGED <<server, signIn>>

\* Mutant: only an answer ends the restoring.
StillRestoring == loading

\* The finally of restoreSession
RestoringAfterError == FALSE

\* A session that cannot be verified stays as it is stored.
LoseMe ==
    /\ me # NoMe
    /\ me' = NoMe
    /\ loading' = RestoringAfterError
    /\ UNCHANGED <<server, storage, session, signIn, pages>>

\* handleSubmit of the login page
SignIn(u) ==
    /\ ~loading /\ ~Authenticated
    /\ signIn = NoUser
    /\ signIn' = u
    /\ UNCHANGED <<server, storage, session, loading, me, pages>>

\* Any token that is new does.
Unissued == {t \in Token : server.owner[t] = NoUser}

AnswerSignIn ==
    /\ signIn # NoUser
    /\ Unissued # {}
    /\ LET t == CHOOSE t \in Unissued : TRUE IN
          /\ server' = [server EXCEPT !.owner[t] = signIn]
          /\ Saved(t, signIn)
    /\ signIn' = NoUser
    /\ UNCHANGED <<loading, me>>
    /\ FollowSession

\* The server refuses, which is not taken for an expired session, or the answer
\* is lost.
FailToSignIn ==
    /\ signIn # NoUser
    /\ signIn' = NoUser
    /\ UNCHANGED <<server, storage, session, loading, me, pages>>

Logout ==
    /\ Authenticated
    /\ Cleared
    /\ LeavePages
    /\ UNCHANGED <<server, me, signIn>>

-----------------------------------------------------------------------------
(* The pages. *)

Reloaded(s) == [s EXCEPT !.latest = @ + 1, !.loading = TRUE]

\* reload() of resource x, in state s
Reload(x, s) ==
    /\ s.latest < MaxReads[x]
    /\ reads' = reads \cup {[of |-> x, id |-> s.latest + 1, token |-> storage.token,
                             answer |-> "NONE", data |-> 0]}

Mount(x) ==
    /\ Authenticated
    /\ ~shown[x].mounted
    /\ x = "DETAILS" => shown["LIST"].data # 0
    /\ Reload(x, Unmounted)
    /\ shown' = [shown EXCEPT ![x] = [Reloaded(Unmounted) EXCEPT !.mounted = TRUE]]
    /\ UNCHANGED <<server, auth, stray, act>>

\* The dialog lets itself be closed while it is not busy.
CloseDetails ==
    /\ shown["DETAILS"].mounted
    /\ act.phase = "IDLE"
    /\ shown' = [shown EXCEPT !["DETAILS"] = Unmounted]
    /\ Strayed({"DETAILS"})
    /\ UNCHANGED <<server, auth, act>>

\* Another page, or the browser's back button
Leave ==
    /\ shown["LIST"].mounted
    /\ LeavePages
    /\ UNCHANGED <<server, auth>>

\* The Refresh buttons and onRetry; the dialog hides the list's.
Refresh(x) ==
    /\ shown[x].mounted /\ ~shown[x].loading
    /\ x = "LIST" => ~shown["DETAILS"].mounted
    /\ act.phase = "IDLE"
    /\ Reload(x, shown[x])
    /\ shown' = [shown EXCEPT ![x] = Reloaded(@)]
    /\ UNCHANGED <<server, auth, stray, act>>

\* Mutant: whatever arrives is shown.
AnyAnswer(q) == TRUE

IsLatest(q) == q.id = shown[q.of].latest

CanAct == shown["DETAILS"].data # 0 /\ ~shown["DETAILS"].loading

\* run() sends the version that is shown.
Act ==
    /\ CanAct
    /\ act.phase = "IDLE"
    /\ act' = [phase |-> "SENT", token |-> storage.token,
               version |-> shown["DETAILS"].data, answer |-> "NONE"]
    /\ UNCHANGED <<server, auth, shown, reads, stray>>

\* A load ends with data, or with an error and none. run() ends with the load of
\* the list that it asked for.
EndRead(q, data) ==
    /\ reads' = reads \ {q}
    /\ shown' = IF IsLatest(q)
                THEN [shown EXCEPT ![q.of].data = data, ![q.of].loading = FALSE]
                ELSE shown
    /\ act' = IF q.of = "LIST" /\ act.phase = "RELOADING" /\ IsLatest(q) THEN NoAct ELSE act
    /\ UNCHANGED <<server, auth, stray>>

AnswerRead(q) == q.answer = "OK" /\ EndRead(q, q.data)

LoseRead(q) == IsLatest(q) /\ EndRead(q, 0)

\* A 401 that arrives, for whichever load, ends the session.
Unauthorized(q) ==
    /\ q.answer = "UNAUTHORIZED"
    /\ Cleared
    /\ LeavePages
    /\ UNCHANGED <<server, me, signIn>>

UnauthorizedStray(t) ==
    /\ ~Accepts(t)
    /\ Cleared
    /\ shown' = [x \in Resource |-> Unmounted]
    /\ act' = NoAct
    /\ reads' = {}
    /\ stray' = (stray \ {t}) \cup {q.token : q \in {p \in reads : p.answer # "OK"}}
    /\ UNCHANGED <<server, me, signIn>>

\* Success shows the row and loads the list again.
AnswerAct ==
    /\ act.phase = "SENT" /\ act.answer # "NONE"
    /\ CASE act.answer = "OK" ->
              /\ Reload("LIST", shown["LIST"])
              /\ shown' = [shown EXCEPT !["DETAILS"].data = act.version,
                                        !["DETAILS"].loading = FALSE,
                                        !["LIST"] = Reloaded(@)]
              /\ act' = [NoAct EXCEPT !.phase = "RELOADING"]
              /\ UNCHANGED <<storage, session, loading, stray>>
         [] act.answer = "REFUSED" ->
              act' = NoAct /\ UNCHANGED <<storage, session, loading, shown, reads, stray>>
         [] OTHER -> Cleared /\ LeavePages
    /\ UNCHANGED <<server, me, signIn>>

LoseAct ==
    /\ act.phase = "SENT"
    /\ act' = NoAct
    /\ UNCHANGED <<server, auth, shown, reads, stray>>

-----------------------------------------------------------------------------
Next ==
    \/ OthersAct \/ HandleAct
    \/ \E t \in Token : Revoke(t)
    \/ \E q \in reads : HandleRead(q) \/ AnswerRead(q) \/ LoseRead(q) \/ Unauthorized(q)
    \/ \E t \in stray : UnauthorizedStray(t)
    \/ Restart \/ RefreshUser \/ AnswerMe \/ LoseMe
    \/ \E u \in User : SignIn(u)
    \/ AnswerSignIn \/ FailToSignIn \/ Logout
    \/ \E x \in Resource : Mount(x) \/ Refresh(x)
    \/ CloseDetails \/ Leave \/ Act \/ AnswerAct \/ LoseAct

Spec == Init /\ [][Next]_vars

\* The browser ends every request it sends, with an answer or an error. Nobody
\* owes anything else: neither the users nor the server's clock.
Ends(x) ==
    \E q \in reads : q.of = x /\ IsLatest(q) /\ (AnswerRead(q) \/ LoseRead(q) \/ Unauthorized(q))

Fairness ==
    /\ WF_vars(AnswerMe \/ LoseMe)
    /\ WF_vars(AnswerSignIn \/ FailToSignIn)
    /\ WF_vars(AnswerAct \/ LoseAct)
    /\ \A x \in Resource : WF_vars(Ends(x))

FairSpec == Spec /\ Fairness

-----------------------------------------------------------------------------
(* Properties. *)

\* What the pages believe about the session is what the next request will be
\* sent with, after logouts, refusals and answers in any order.
CopiesAgree == session = storage

\* A resource never goes back to an older version than it shows: no answer of
\* a superseded load and no load that an action overtook is shown.
ShownNeverGoesBack ==
    [][\A x \in Resource : shown'[x].data # 0 => shown'[x].data >= shown[x].data]_vars

\* "Restoring your session...", "Signing in...", a busy dialog and a loading
\* page all end.
EveryWaitEnds ==
    /\ loading ~> ~loading
    /\ (signIn # NoUser) ~> (signIn = NoUser)
    /\ (act # NoAct) ~> (act = NoAct)
    /\ \A x \in Resource : shown[x].loading ~> ~shown[x].loading

\* back-end/README.md:23: "Logout clears the browser session". A refreshUser that
\* waits for its answer brings it back: it does not hold.
LogoutLasts == [][session = SignedOut /\ session' # session => signIn # NoUser]_vars
=============================================================================
