----------------------------- MODULE Portal_proofs -----------------------------
(****************************************************************************)
(* Proofs about Portal, for any users, tokens, number of loads and versions *)
(* of the row: the two copies of the session agree and no page goes back to *)
(* an older row.                                                            *)
(****************************************************************************)
EXTENDS Portal, TLAPS

\* A page is mounted while somebody is signed in, and shows only what it loaded.
ScreenOK ==
    /\ \A x \in Resource :
          /\ shown[x].data # 0 => shown[x].mounted
          /\ shown[x].mounted => storage.token # NoToken
    /\ shown["DETAILS"].mounted => shown["LIST"].mounted
    /\ me # NoMe => me.sent # NoToken /\ me.waiter # NoToken

\* Loads belong to mounted pages and are numbered; the latest one is waited for.
LoadsNumbered ==
    /\ \A q \in reads :
          /\ shown[q.of].mounted
          /\ q.id <= shown[q.of].latest
          /\ IsLatest(q) => shown[q.of].loading
    /\ \A p, q \in reads : p.of = q.of /\ p.id = q.id => p = q

\* What is shown and what is on its way is at most the server's row, and the answer of
\* the latest load is no older than what it replaces.
LoadsAhead ==
    /\ \A x \in Resource : shown[x].data <= server.version
    /\ \A q \in reads :
          /\ q.data <= server.version
          /\ IsLatest(q) /\ q.answer = "OK" => shown[q.of].data <= q.data

\* A dialog that is busy loads nothing, and its action is on the row it shows.
ActionAhead ==
    /\ act.phase # "IDLE" => shown["DETAILS"].mounted /\ ~shown["DETAILS"].loading
    /\ act.phase = "SENT" =>
          act.version <= server.version /\ shown["DETAILS"].data <= act.version

IInv == TypeOK /\ CopiesAgree /\ ScreenOK /\ LoadsNumbered /\ LoadsAhead /\ ActionAhead

\* What ShownNeverGoesBack says of a step
NoneGoesBack == \A x \in Resource : shown'[x].data # 0 => shown'[x].data >= shown[x].data

LEMMA InitIInv == Init => IInv
<1> SUFFICES ASSUME Init PROVE IInv
    OBVIOUS
<1>1. TypeOK
    <2>1. server \in [owner : [Token -> User \cup {NoUser}], revoked : SUBSET Token,
                      version : 1..MaxVersion]
          BY PortalAssumption DEF Init
    <2>2. storage \in SessionType /\ session \in SessionType
          BY DEF Init, SessionType, SignedOut, Signed
    <2>3. Unmounted \in [mounted : BOOLEAN, latest : Nat, data : 0..MaxVersion, loading : BOOLEAN]
          BY PortalAssumption DEF Unmounted
    <2>4. NoAct \in [phase : {"IDLE", "SENT", "RELOADING"}, token : Token \cup {NoToken},
                     version : 0..MaxVersion, answer : Answer]
          BY PortalAssumption DEF NoAct, Answer
    <2>5. NoMe \in [sent : Token \cup {NoToken}, waiter : Token \cup {NoToken}]
          BY DEF NoMe
    <2> QED
        BY <2>1, <2>2, <2>3, <2>4, <2>5 DEF Init, TypeOK
<1>2. CopiesAgree /\ ScreenOK /\ LoadsNumbered /\ LoadsAhead /\ ActionAhead
      BY PortalAssumption DEF Init, CopiesAgree, ScreenOK, LoadsNumbered, LoadsAhead, ActionAhead,
                              Unmounted, NoAct, Resource
<1> QED
    BY <1>1, <1>2 DEF IInv

-----------------------------------------------------------------------------
(* Steps that leave the pages as they are. *)

LEMMA ElsewhereKeeps ==
    ASSUME IInv, UNCHANGED pages, TypeOK', storage' = session',
           server'.version \in Nat, server.version <= server'.version,
           storage.token # NoToken => storage'.token # NoToken,
           me' # NoMe => me'.sent # NoToken /\ me'.waiter # NoToken
    PROVE  IInv' /\ NoneGoesBack
<1>1. server.version \in Nat /\ \A x \in Resource : shown[x].data \in Nat
      BY DEF IInv, TypeOK
<1>2. ScreenOK'
      BY DEF IInv, ScreenOK, pages
<1>3. LoadsNumbered'
      BY DEF IInv, LoadsNumbered, pages, IsLatest
<1>4. \A q \in reads : q.data \in Nat
      BY DEF IInv, TypeOK
<1>5. LoadsAhead'
      BY <1>1, <1>4 DEF IInv, LoadsAhead, pages, IsLatest
<1>6. act.version \in Nat
      BY DEF IInv, TypeOK
<1>7. ActionAhead'
      BY <1>1, <1>6 DEF IInv, ActionAhead, pages
<1>8. NoneGoesBack
      BY <1>1 DEF NoneGoesBack, pages
<1> QED
    BY <1>2, <1>3, <1>5, <1>7, <1>8 DEF IInv, CopiesAgree

LEMMA RevokeKeeps ==
    ASSUME IInv, NEW t \in Token, Revoke(t)
    PROVE  IInv' /\ NoneGoesBack
<1>1. server' = [server EXCEPT !.revoked = server.revoked \cup {t}] /\ UNCHANGED <<auth, pages>>
      BY DEF Revoke
<1>2. TypeOK'
      BY <1>1 DEF IInv, TypeOK, auth, pages
<1>3. server'.version = server.version /\ server.version \in Nat
      BY <1>1 DEF IInv, TypeOK
<1> QED
    BY <1>1, <1>2, <1>3, ElsewhereKeeps DEF IInv, CopiesAgree, ScreenOK, auth

LEMMA OthersActKeeps ==
    ASSUME IInv, OthersAct
    PROVE  IInv' /\ NoneGoesBack
<1>1. server' = [server EXCEPT !.version = server.version + 1] /\ UNCHANGED <<auth, pages>>
      BY DEF OthersAct
<1>2. server.version \in 1..MaxVersion /\ server.version + 1 \in 1..MaxVersion
      BY PortalAssumption DEF OthersAct, IInv, TypeOK
<1>3. TypeOK'
      BY <1>1, <1>2 DEF IInv, TypeOK, auth, pages
<1>4. server'.version = server.version + 1
      BY <1>1 DEF IInv, TypeOK
<1> QED
    BY <1>1, <1>2, <1>3, <1>4, ElsewhereKeeps, PortalAssumption DEF IInv, CopiesAgree, ScreenOK, auth

LEMMA RefreshUserKeeps ==
    ASSUME IInv, RefreshUser
    PROVE  IInv' /\ NoneGoesBack
<1>1. storage.token \in Token /\ storage.token # NoToken
      BY DEF RefreshUser, Authenticated, IInv, CopiesAgree, TypeOK, SessionType
<1>2. UNCHANGED <<server, storage, session, loading, signIn>> /\ UNCHANGED pages
      BY DEF RefreshUser
<1>3. /\ me' \in [sent : Token \cup {NoToken}, waiter : Token \cup {NoToken}]
      /\ me'.sent # NoToken /\ me'.waiter # NoToken
      BY <1>1 DEF RefreshUser, IInv, TypeOK, ScreenOK
<1>4. TypeOK'
      BY <1>2, <1>3 DEF IInv, TypeOK, pages
<1>5. server.version \in Nat
      BY DEF IInv, TypeOK
<1> QED
    BY <1>2, <1>3, <1>4, <1>5, ElsewhereKeeps DEF IInv, CopiesAgree

LEMMA WaitingKeeps ==
    ASSUME IInv, LoseMe \/ FailToSignIn \/ \E u \in User : SignIn(u)
    PROVE  IInv' /\ NoneGoesBack
<1>1. UNCHANGED <<server, storage, session>> /\ UNCHANGED pages
      BY DEF LoseMe, FailToSignIn, SignIn
<1>2. /\ me' = me \/ me' = NoMe
      /\ loading' \in BOOLEAN
      /\ signIn' \in User \cup {NoUser}
      BY DEF LoseMe, FailToSignIn, SignIn, RestoringAfterError, IInv, TypeOK
<1>3. NoMe \in [sent : Token \cup {NoToken}, waiter : Token \cup {NoToken}]
      BY DEF NoMe
<1>4. TypeOK'
      BY <1>1, <1>2, <1>3 DEF IInv, TypeOK, pages
<1>5. server.version \in Nat
      BY DEF IInv, TypeOK
<1> QED
    BY <1>1, <1>2, <1>4, <1>5, ElsewhereKeeps DEF IInv, CopiesAgree, ScreenOK

-----------------------------------------------------------------------------
(* Steps that take the pages away. *)

LEMMA GoneKeeps ==
    ASSUME IInv, TypeOK', storage' = session', server'.version = server.version,
           shown' = [x \in Resource |-> Unmounted], act' = NoAct, reads' = {},
           me' # NoMe => me'.sent # NoToken /\ me'.waiter # NoToken
    PROVE  IInv' /\ NoneGoesBack
<1>1. \A x \in Resource : shown'[x] = Unmounted
      OBVIOUS
<1>2. "LIST" \in Resource /\ "DETAILS" \in Resource /\ server.version \in Nat
      BY DEF Resource, IInv, TypeOK
<1>3. ScreenOK' /\ LoadsNumbered' /\ LoadsAhead' /\ ActionAhead' /\ NoneGoesBack
      BY <1>1, <1>2 DEF ScreenOK, LoadsNumbered, LoadsAhead, ActionAhead, NoneGoesBack, Unmounted,
                        NoAct
<1> QED
    BY <1>3 DEF IInv, CopiesAgree

LEMMA LeavePagesTypes ==
    ASSUME TypeOK, LeavePages
    PROVE  /\ reads' = {} /\ stray' \subseteq Token
           /\ shown' = [x \in Resource |-> Unmounted] /\ act' = NoAct
           /\ shown' \in [Resource -> [mounted : BOOLEAN, latest : Nat,
                                       data : 0..MaxVersion, loading : BOOLEAN]]
           /\ NoAct \in [phase : {"IDLE", "SENT", "RELOADING"}, token : Token \cup {NoToken},
                         version : 0..MaxVersion, answer : Answer]
<1>1. \A q \in reads : q.of \in Resource /\ q.token \in Token
      BY DEF TypeOK
<1>2. reads' = {} /\ stray' \subseteq Token
      BY <1>1 DEF LeavePages, Strayed, TypeOK
<1>3. Unmounted \in [mounted : BOOLEAN, latest : Nat, data : 0..MaxVersion, loading : BOOLEAN]
      BY PortalAssumption DEF Unmounted
<1>4. NoAct \in [phase : {"IDLE", "SENT", "RELOADING"}, token : Token \cup {NoToken},
                 version : 0..MaxVersion, answer : Answer]
      BY PortalAssumption DEF NoAct, Answer
<1> QED
    BY <1>2, <1>3, <1>4 DEF LeavePages

\* Logout and everything a 401 does.
LEMMA ClearedKeeps ==
    ASSUME IInv, Cleared, LeavePages, server' = server, me' = me \/ me' = NoMe, signIn' = signIn
    PROVE  IInv' /\ NoneGoesBack
<1>1. SignedOut \in SessionType
      BY DEF SignedOut, Signed, SessionType
<1>2. storage' = SignedOut /\ session' = SignedOut /\ loading' = FALSE
      BY DEF Cleared
<1>3. NoMe \in [sent : Token \cup {NoToken}, waiter : Token \cup {NoToken}]
      BY DEF NoMe
<1>4. TypeOK'
      BY <1>1, <1>2, <1>3, LeavePagesTypes DEF IInv, TypeOK
<1> QED
    BY <1>2, <1>4, LeavePagesTypes, GoneKeeps DEF IInv, ScreenOK

LEMMA StrayKeeps ==
    ASSUME IInv, NEW t \in stray, UnauthorizedStray(t)
    PROVE  IInv' /\ NoneGoesBack
<1>1. /\ storage' = SignedOut /\ session' = SignedOut /\ loading' = FALSE
      /\ shown' = [x \in Resource |-> Unmounted] /\ act' = NoAct /\ reads' = {}
      /\ UNCHANGED <<server, me, signIn>>
      BY DEF UnauthorizedStray, Cleared
<1>2. SignedOut \in SessionType
      BY DEF SignedOut, Signed, SessionType
<1>3. \A q \in reads : q.token \in Token
      BY DEF IInv, TypeOK
<1>4. stray' \subseteq Token
      BY <1>3 DEF UnauthorizedStray, IInv, TypeOK
<1>5. Unmounted \in [mounted : BOOLEAN, latest : Nat, data : 0..MaxVersion, loading : BOOLEAN]
      BY PortalAssumption DEF Unmounted
<1>6. NoAct \in [phase : {"IDLE", "SENT", "RELOADING"}, token : Token \cup {NoToken},
                 version : 0..MaxVersion, answer : Answer]
      BY PortalAssumption DEF NoAct, Answer
<1>7. TypeOK'
      BY <1>1, <1>2, <1>4, <1>5, <1>6 DEF IInv, TypeOK
<1> QED
    BY <1>1, <1>7, GoneKeeps DEF IInv, ScreenOK

LEMMA RestartKeeps ==
    ASSUME IInv, Restart
    PROVE  IInv' /\ NoneGoesBack
<1>1. /\ storage' = storage /\ session' = storage /\ loading' = TRUE /\ signIn' = NoUser
      /\ me' = [sent |-> storage.token, waiter |-> storage.token]
      /\ shown' = [x \in Resource |-> Unmounted] /\ act' = NoAct /\ reads' = {} /\ stray' = {}
      /\ server' = server
      BY DEF Restart
<1>2. storage.token \in Token /\ storage.token # NoToken
      BY DEF Restart, IInv, TypeOK, SessionType
<1>3. Unmounted \in [mounted : BOOLEAN, latest : Nat, data : 0..MaxVersion, loading : BOOLEAN]
      BY PortalAssumption DEF Unmounted
<1>4. NoAct \in [phase : {"IDLE", "SENT", "RELOADING"}, token : Token \cup {NoToken},
                 version : 0..MaxVersion, answer : Answer]
      BY PortalAssumption DEF NoAct, Answer
<1>5. TypeOK'
      BY <1>1, <1>2, <1>3, <1>4 DEF IInv, TypeOK
<1> QED
    BY <1>1, <1>2, <1>5, GoneKeeps

\* A new session: the pages stay, or those of another user go.
LEMMA SavedKeeps ==
    ASSUME IInv, NEW t \in Token, NEW u \in User \cup {NoUser}, Saved(t, u), FollowSession,
           server'.version = server.version,
           server' \in [owner : [Token -> User \cup {NoUser}], revoked : SUBSET Token,
                        version : 1..MaxVersion],
           loading' \in BOOLEAN, signIn' \in User \cup {NoUser}, me' = me \/ me' = NoMe
    PROVE  IInv' /\ NoneGoesBack
<1>1. /\ storage' = session' /\ storage' \in SessionType
      /\ storage'.token # NoToken
      BY PortalAssumption DEF Saved, Signed, SessionType
<1>2. NoMe \in [sent : Token \cup {NoToken}, waiter : Token \cup {NoToken}]
      BY DEF NoMe
<1>3. CASE UNCHANGED pages
    <2>1. TypeOK'
          BY <1>1, <1>2, <1>3 DEF IInv, TypeOK, pages
    <2>2. server.version \in Nat
          BY DEF IInv, TypeOK
    <2> QED
        BY <1>1, <1>3, <2>1, <2>2, ElsewhereKeeps DEF IInv, ScreenOK
<1>4. CASE LeavePages
    <2>1. TypeOK'
          BY <1>1, <1>2, <1>4, LeavePagesTypes DEF IInv, TypeOK
    <2> QED
        BY <1>1, <1>4, <2>1, LeavePagesTypes, GoneKeeps DEF IInv, ScreenOK
<1> QED
    BY <1>3, <1>4 DEF FollowSession

LEMMA AnswerMeKeeps ==
    ASSUME IInv, AnswerMe
    PROVE  IInv' /\ NoneGoesBack
<1>1. me.sent \in Token /\ me.waiter \in Token
      BY DEF AnswerMe, IInv, TypeOK, ScreenOK
<1>2. me' = NoMe /\ FollowSession /\ UNCHANGED <<server, signIn>>
      BY DEF AnswerMe
<1>3. CASE Accepts(me.sent)
    <2>1. Saved(me.waiter, server.owner[me.sent]) /\ loading' = FALSE
          BY <1>3 DEF AnswerMe
    <2>2. server.owner[me.sent] \in User \cup {NoUser}
          BY <1>1 DEF IInv, TypeOK
    <2> QED
        BY <1>1, <1>2, <2>1, <2>2, SavedKeeps DEF IInv, TypeOK
<1>4. CASE ~Accepts(me.sent)
    <2>1. Cleared
          BY <1>4 DEF AnswerMe
    <2>2. ~Authenticated'
          BY <2>1 DEF Cleared, Authenticated, SignedOut, Signed
    <2> QED
        BY <1>2, <2>1, <2>2, ClearedKeeps DEF FollowSession
<1> QED
    BY <1>3, <1>4

LEMMA AnswerSignInKeeps ==
    ASSUME IInv, AnswerSignIn
    PROVE  IInv' /\ NoneGoesBack
<1>1. PICK t \in Unissued : /\ server' = [server EXCEPT !.owner[t] = signIn]
                            /\ Saved(t, signIn)
      BY DEF AnswerSignIn
<1>2. t \in Token /\ signIn \in User \cup {NoUser}
      BY DEF Unissued, IInv, TypeOK
<1>3. signIn' = NoUser /\ FollowSession /\ UNCHANGED <<loading, me>>
      BY DEF AnswerSignIn
<1>4. /\ server' \in [owner : [Token -> User \cup {NoUser}], revoked : SUBSET Token,
                      version : 1..MaxVersion]
      /\ server'.version = server.version
      BY <1>1, <1>2 DEF IInv, TypeOK
<1>5. loading' \in BOOLEAN
      BY <1>3 DEF IInv, TypeOK
<1> QED
    BY <1>1, <1>2, <1>3, <1>4, <1>5, SavedKeeps

-----------------------------------------------------------------------------
(* What the pages do. *)

ShownType == [mounted : BOOLEAN, latest : Nat, data : 0..MaxVersion, loading : BOOLEAN]
ReadType == [of : Resource, id : Nat, token : Token, answer : Answer, data : 0..MaxVersion]
ActType == [phase : {"IDLE", "SENT", "RELOADING"}, token : Token \cup {NoToken},
            version : 0..MaxVersion, answer : Answer]

\* A row's type is kept by its page's steps, which leave the session alone.
LEMMA PageTypes ==
    ASSUME TypeOK, UNCHANGED auth,
           server' \in [owner : [Token -> User \cup {NoUser}], revoked : SUBSET Token,
                        version : 1..MaxVersion],
           shown' \in [Resource -> ShownType], reads' \subseteq ReadType, stray' \subseteq Token,
           act' \in ActType
    PROVE  TypeOK'
BY DEF TypeOK, auth, ShownType, ReadType, ActType

LEMMA PageTypesNow ==
    ASSUME TypeOK
    PROVE  /\ shown \in [Resource -> ShownType] /\ reads \subseteq ReadType /\ stray \subseteq Token
           /\ act \in ActType
           /\ server \in [owner : [Token -> User \cup {NoUser}], revoked : SUBSET Token,
                          version : 1..MaxVersion]
           /\ NoAct \in ActType /\ Unmounted \in ShownType
           /\ server.version \in Nat
           /\ \A x \in Resource : shown[x].data \in Nat /\ shown[x].latest \in Nat
           /\ \A q \in reads : q.of \in Resource /\ q.data \in Nat /\ q.id \in Nat
           /\ act.version \in Nat
BY PortalAssumption DEF TypeOK, ShownType, ReadType, ActType, NoAct, Unmounted, Answer

LEMMA HandleReadKeeps ==
    ASSUME IInv, NEW q \in reads, HandleRead(q)
    PROVE  IInv' /\ NoneGoesBack
<1> DEFINE r == [q EXCEPT !.answer = Checked(q.token),
                          !.data = IF Accepts(q.token) THEN server.version ELSE 0]
<1>1. TypeOK
      BY DEF IInv
<1>2. q \in ReadType
      BY <1>1, PageTypesNow
<1>3. /\ r \in ReadType /\ r.of = q.of /\ r.id = q.id
      /\ r.data <= server.version
      /\ r.answer = "OK" => r.data = server.version
    <2> DEFINE answer == Checked(q.token)
               data == IF Accepts(q.token) THEN server.version ELSE 0
    <2>1. answer \in Answer /\ (answer = "OK" <=> Accepts(q.token))
          BY DEF Checked, Answer
    <2>2. server.version \in 1..MaxVersion
          BY <1>1 DEF TypeOK
    <2>3. /\ data \in 0..MaxVersion /\ data <= server.version
          /\ answer = "OK" => data = server.version
          BY <2>1, <2>2, PortalAssumption
    <2>4. r = [[q EXCEPT !.answer = answer] EXCEPT !.data = data]
          BY <1>2 DEF ReadType
    <2> HIDE DEF answer, data, r
    <2>5. r \in ReadType /\ r.of = q.of /\ r.id = q.id /\ r.answer = answer /\ r.data = data
          BY <1>2, <2>1, <2>3, <2>4 DEF ReadType
    <2> QED
        BY <2>3, <2>5
<1>4. reads' = (reads \ {q}) \cup {r} /\ UNCHANGED <<server, auth, shown, stray, act>>
      BY DEF HandleRead
<1>5. TypeOK'
      BY <1>1, <1>3, <1>4, PageTypes, PageTypesNow
<1>6. ScreenOK' /\ ActionAhead' /\ NoneGoesBack
      BY <1>1, <1>4, PageTypesNow DEF IInv, ScreenOK, ActionAhead, NoneGoesBack, auth
<1>7. LoadsNumbered'
    <2> HIDE DEF r
    <2>1. \A p \in reads' : p \in reads \ {q} \/ p = r
          BY <1>4
    <2>2. \A p \in reads \ {q} : ~(p.of = q.of /\ p.id = q.id)
          BY DEF IInv, LoadsNumbered
    <2>3. ASSUME NEW p \in reads'
          PROVE  /\ shown'[p.of].mounted
                 /\ p.id <= shown'[p.of].latest
                 /\ p.id = shown'[p.of].latest => shown'[p.of].loading
          BY <1>3, <1>4, <2>1 DEF IInv, LoadsNumbered, IsLatest
    <2>4. \A p, o \in reads' : p.of = o.of /\ p.id = o.id => p = o
          BY <1>3, <2>1, <2>2 DEF IInv, LoadsNumbered
    <2> QED
        BY <2>3, <2>4 DEF LoadsNumbered, IsLatest
<1>8. LoadsAhead'
      BY <1>1, <1>2, <1>3, <1>4, PageTypesNow DEF IInv, LoadsAhead, IsLatest, ReadType
<1> QED
    BY <1>4, <1>5, <1>6, <1>7, <1>8 DEF IInv, CopiesAgree, auth

LEMMA HandleActKeeps ==
    ASSUME IInv, HandleAct
    PROVE  IInv' /\ NoneGoesBack
<1>1. TypeOK
      BY DEF IInv
<1>2. UNCHANGED <<auth, shown, reads, stray>> /\ act.phase = "SENT"
      BY DEF HandleAct
<1>3. CASE /\ act.version = server.version /\ server.version < MaxVersion
           /\ server' = [server EXCEPT !.version = server.version + 1]
           /\ act' = [act EXCEPT !.answer = "OK", !.version = act.version + 1]
    <2>1. /\ server' \in [owner : [Token -> User \cup {NoUser}], revoked : SUBSET Token,
                          version : 1..MaxVersion]
          /\ server'.version = server.version + 1
          BY <1>1, <1>3, PageTypesNow, PortalAssumption
    <2>2. act.version + 1 \in 0..MaxVersion
          BY <1>1, <1>3, PageTypesNow, PortalAssumption
    <2>3. act' \in ActType /\ act'.version = act.version + 1 /\ act'.phase = "SENT"
          BY <1>1, <1>2, <1>3, <2>2, PageTypesNow DEF ActType, Answer
    <2>4. TypeOK'
          BY <1>1, <1>2, <2>1, <2>3, PageTypes, PageTypesNow
    <2>5. ScreenOK' /\ LoadsNumbered' /\ NoneGoesBack
          BY <1>1, <1>2, PageTypesNow DEF IInv, ScreenOK, LoadsNumbered, IsLatest, NoneGoesBack, auth
    <2>6. LoadsAhead'
          BY <1>1, <1>2, <2>1, PageTypesNow DEF IInv, LoadsAhead, IsLatest
    <2>7. ActionAhead'
        <3>1. shown["DETAILS"].data \in Nat
              BY <1>1, PageTypesNow DEF Resource
        <3>2. server'.version = act'.version /\ shown'["DETAILS"].data <= act'.version
              BY <1>1, <1>2, <1>3, <2>1, <2>3, <3>1, PageTypesNow DEF IInv, ActionAhead
        <3>3. act'.version <= server'.version
              BY <1>1, <1>3, <2>1, <2>3, PageTypesNow
        <3> QED
            BY <1>2, <3>2, <3>3 DEF IInv, ActionAhead
    <2> QED
        BY <1>2, <2>4, <2>5, <2>6, <2>7 DEF IInv, CopiesAgree, auth
<1>4. CASE /\ act' = [act EXCEPT !.answer = IF Accepts(act.token) THEN "REFUSED" ELSE "UNAUTHORIZED"]
           /\ UNCHANGED server
    <2>1. act' \in ActType /\ act'.version = act.version /\ act'.phase = act.phase
          BY <1>1, <1>4, PageTypesNow DEF ActType, Answer
    <2>2. TypeOK'
          BY <1>1, <1>2, <1>4, <2>1, PageTypes, PageTypesNow
    <2>3. ScreenOK' /\ LoadsNumbered' /\ LoadsAhead' /\ ActionAhead' /\ NoneGoesBack
          BY <1>1, <1>2, <1>4, <2>1, PageTypesNow
             DEF IInv, ScreenOK, LoadsNumbered, LoadsAhead, ActionAhead, IsLatest, NoneGoesBack, auth
    <2> QED
        BY <1>2, <2>2, <2>3 DEF IInv, CopiesAgree, auth
<1> QED
    BY <1>3, <1>4 DEF HandleAct

\* A new load of resource x, whose state becomes s and keeps its data or has none.
LEMMA LoadKeeps ==
    ASSUME IInv, NEW x \in Resource, NEW s \in ShownType,
           UNCHANGED <<server, auth, stray>>, act' \in ActType,
           storage.token # NoToken,
           s.mounted, s.loading, s.data = 0 \/ s.data = shown[x].data,
           s.latest >= 1, \A q \in reads : q.of = x => q.id < s.latest,
           shown' = [shown EXCEPT ![x] = s],
           reads' = reads \cup {[of |-> x, id |-> s.latest, token |-> storage.token,
                                 answer |-> "NONE", data |-> 0]},
           x = "DETAILS" => shown["LIST"].mounted
    PROVE  /\ TypeOK' /\ CopiesAgree' /\ ScreenOK' /\ LoadsNumbered' /\ LoadsAhead'
           /\ NoneGoesBack
<1> DEFINE r == [of |-> x, id |-> s.latest, token |-> storage.token, answer |-> "NONE", data |-> 0]
<1>1. TypeOK
      BY DEF IInv
<1>2. r \in ReadType
      BY <1>1, PortalAssumption DEF ReadType, ShownType, Answer, TypeOK, SessionType
<1>3. TypeOK'
      BY <1>1, <1>2, PageTypes, PageTypesNow
<1>4. \A y \in Resource : shown'[y] = IF y = x THEN s ELSE shown[y]
      BY <1>1, PageTypesNow
<1>5. "LIST" \in Resource /\ "DETAILS" \in Resource
      BY DEF Resource
<1>6. ScreenOK'
      BY <1>4, <1>5 DEF IInv, ScreenOK, auth
<1>7. s.latest \in Nat /\ s.data \in Nat
      BY DEF ShownType
<1>8. LoadsNumbered'
    <2>1. \A q \in reads : q.of \in Resource /\ q.id \in Nat
          BY <1>1, PageTypesNow
    <2>2. ASSUME NEW q \in reads'
          PROVE  /\ shown'[q.of].mounted
                 /\ q.id <= shown'[q.of].latest
                 /\ q.id = shown'[q.of].latest => shown'[q.of].loading
          BY <1>4, <1>7, <2>1 DEF IInv, LoadsNumbered, IsLatest
    <2>3. \A p, q \in reads' : p.of = q.of /\ p.id = q.id => p = q
          BY <1>7, <2>1 DEF IInv, LoadsNumbered
    <2> QED
        BY <2>2, <2>3 DEF LoadsNumbered, IsLatest
<1>9. LoadsAhead'
      BY <1>1, <1>4, <1>7, PageTypesNow DEF IInv, LoadsAhead, IsLatest
<1>10. NoneGoesBack
      BY <1>1, <1>4, <1>7, PageTypesNow DEF NoneGoesBack
<1> QED
    BY <1>3, <1>6, <1>8, <1>9, <1>10 DEF IInv, CopiesAgree, auth

LEMMA ReloadedShape ==
    ASSUME NEW s \in ShownType
    PROVE  /\ Reloaded(s) \in ShownType
           /\ Reloaded(s).mounted = s.mounted
           /\ Reloaded(s).latest = s.latest + 1
           /\ Reloaded(s).data = s.data
           /\ Reloaded(s).loading
<1> DEFINE counted == [s EXCEPT !.latest = s.latest + 1]
<1>1. Reloaded(s) = [counted EXCEPT !.loading = TRUE]
      BY DEF Reloaded, ShownType
<1>2. /\ counted \in ShownType /\ counted.mounted = s.mounted
      /\ counted.latest = s.latest + 1 /\ counted.data = s.data
      BY DEF ShownType
<1> HIDE DEF counted
<1> QED
    BY <1>1, <1>2 DEF ShownType

LEMMA MountKeeps ==
    ASSUME IInv, NEW x \in Resource, Mount(x)
    PROVE  IInv' /\ NoneGoesBack
<1> DEFINE s == [Reloaded(Unmounted) EXCEPT !.mounted = TRUE]
<1>1. TypeOK
      BY DEF IInv
<1>2. s \in ShownType /\ s.mounted /\ s.latest = 1 /\ s.data = 0 /\ s.loading
    <2>1. /\ Unmounted \in ShownType
          /\ Unmounted.latest = 0 /\ Unmounted.data = 0
          BY <1>1, PageTypesNow DEF Unmounted
    <2>2. /\ Reloaded(Unmounted) \in ShownType
          /\ Reloaded(Unmounted).latest = 1 /\ Reloaded(Unmounted).data = 0
          /\ Reloaded(Unmounted).loading
          BY <2>1, ReloadedShape
    <2> QED
        BY <2>2 DEF ShownType
<1>3. s \in ShownType
      BY <1>2
<1>4. storage.token # NoToken
      BY DEF Mount, Authenticated, IInv, CopiesAgree
<1>5. \A q \in reads : q.of # x
      BY DEF Mount, IInv, LoadsNumbered
<1>6. /\ shown' = [shown EXCEPT ![x] = s]
      /\ reads' = reads \cup {[of |-> x, id |-> s.latest, token |-> storage.token,
                               answer |-> "NONE", data |-> 0]}
      /\ UNCHANGED <<server, auth, stray, act>>
    <2>1. Unmounted.latest + 1 = s.latest
          BY <1>2 DEF Unmounted
    <2> QED
        BY <2>1 DEF Mount, Reload
<1>7. x = "DETAILS" => shown["LIST"].mounted
      BY DEF Mount, IInv, ScreenOK, Resource
<1>8. act' \in ActType
      BY <1>1, <1>6, PageTypesNow
<1>9. /\ TypeOK' /\ CopiesAgree' /\ ScreenOK' /\ LoadsNumbered' /\ LoadsAhead'
      /\ NoneGoesBack
    <2>1. s.mounted /\ s.loading /\ s.data = 0 /\ s.latest >= 1
          BY <1>2
    <2> HIDE DEF s
    <2> QED
        BY <1>3, <1>4, <1>5, <1>6, <1>7, <1>8, <2>1, LoadKeeps
<1>10. ActionAhead'
    <2>1. act.phase # "IDLE" => x # "DETAILS"
          BY DEF Mount, IInv, ActionAhead
    <2>2. "DETAILS" \in Resource
          BY DEF Resource
    <2>3. act.phase # "IDLE" => shown'["DETAILS"] = shown["DETAILS"]
          BY <1>1, <1>6, <2>1, <2>2, PageTypesNow
    <2> QED
        BY <1>6, <2>3 DEF IInv, ActionAhead
<1> QED
    BY <1>9, <1>10 DEF IInv

LEMMA RefreshKeeps ==
    ASSUME IInv, NEW x \in Resource, Refresh(x)
    PROVE  IInv' /\ NoneGoesBack
<1> DEFINE s == Reloaded(shown[x])
<1>1. TypeOK
      BY DEF IInv
<1>2. shown[x] \in ShownType
      BY <1>1, PageTypesNow
<1>3. /\ s \in ShownType /\ s.mounted = shown[x].mounted /\ s.loading
      /\ s.data = shown[x].data /\ s.latest = shown[x].latest + 1
      BY <1>2, ReloadedShape
<1>4. shown[x].mounted /\ storage.token # NoToken
      BY DEF Refresh, IInv, ScreenOK
<1>5. \A q \in reads : q.of = x => q.id < s.latest
      BY <1>1, <1>3, PageTypesNow DEF IInv, LoadsNumbered
<1>6. /\ shown' = [shown EXCEPT ![x] = s]
      /\ reads' = reads \cup {[of |-> x, id |-> s.latest, token |-> storage.token,
                               answer |-> "NONE", data |-> 0]}
      /\ UNCHANGED <<server, auth, stray, act>>
      BY <1>3 DEF Refresh, Reload
<1>7. x = "DETAILS" => shown["LIST"].mounted
      BY <1>4 DEF IInv, ScreenOK
<1>8. act' \in ActType /\ act'.phase = "IDLE"
      BY <1>1, <1>6, PageTypesNow DEF Refresh
<1>9. /\ TypeOK' /\ CopiesAgree' /\ ScreenOK' /\ LoadsNumbered' /\ LoadsAhead'
      /\ NoneGoesBack
    <2>1. s.mounted /\ s.loading /\ s.data = shown[x].data /\ s.latest >= 1
          BY <1>1, <1>3, <1>4, PageTypesNow
    <2> HIDE DEF s
    <2> QED
        BY <1>3, <1>4, <1>5, <1>6, <1>7, <1>8, <2>1, LoadKeeps
<1>10. ActionAhead'
      BY <1>8 DEF ActionAhead
<1> QED
    BY <1>9, <1>10 DEF IInv

LEMMA CloseKeeps ==
    ASSUME IInv, CloseDetails
    PROVE  IInv' /\ NoneGoesBack
<1>1. TypeOK
      BY DEF IInv
<1>2. /\ shown' = [shown EXCEPT !["DETAILS"] = Unmounted]
      /\ reads' = {q \in reads : q.of # "DETAILS"}
      /\ act.phase = "IDLE"
      /\ UNCHANGED <<server, auth, act>>
      BY DEF CloseDetails, Strayed
<1>3. stray' \subseteq Token
      BY <1>1, PageTypesNow DEF CloseDetails, Strayed, ReadType
<1>4. "LIST" \in Resource /\ "DETAILS" \in Resource
      BY DEF Resource
<1>5. \A y \in Resource : shown'[y] = IF y = "DETAILS" THEN Unmounted ELSE shown[y]
      BY <1>1, <1>2, <1>4, PageTypesNow
<1>6. TypeOK'
      BY <1>1, <1>2, <1>3, PageTypes, PageTypesNow
<1>7. ScreenOK' /\ ActionAhead' /\ NoneGoesBack
      BY <1>1, <1>2, <1>4, <1>5, PageTypesNow
         DEF IInv, ScreenOK, ActionAhead, NoneGoesBack, Unmounted, auth
<1>8. LoadsNumbered' /\ LoadsAhead'
      BY <1>1, <1>2, <1>5, PageTypesNow DEF IInv, LoadsNumbered, LoadsAhead, IsLatest, Unmounted
<1> QED
    BY <1>2, <1>6, <1>7, <1>8 DEF IInv, CopiesAgree, auth

LEMMA LeaveKeeps ==
    ASSUME IInv, Leave
    PROVE  IInv' /\ NoneGoesBack
<1>1. LeavePages /\ UNCHANGED <<server, auth>>
      BY DEF Leave
<1>2. TypeOK'
      BY <1>1, LeavePagesTypes DEF IInv, TypeOK, auth
<1> QED
    BY <1>1, <1>2, LeavePagesTypes, GoneKeeps DEF IInv, ScreenOK, CopiesAgree, auth

LEMMA ActKeeps ==
    ASSUME IInv, Act
    PROVE  IInv' /\ NoneGoesBack
<1>1. TypeOK /\ "DETAILS" \in Resource
      BY DEF IInv, Resource
<1>2. /\ act' = [phase |-> "SENT", token |-> storage.token, version |-> shown["DETAILS"].data,
                 answer |-> "NONE"]
      /\ UNCHANGED <<server, auth, shown, reads, stray>>
      /\ shown["DETAILS"].data # 0 /\ ~shown["DETAILS"].loading
      BY DEF Act, CanAct
<1>3. act' \in ActType
      BY <1>1, <1>2 DEF ActType, Answer, TypeOK, SessionType
<1>4. TypeOK'
      BY <1>1, <1>2, <1>3, PageTypes, PageTypesNow
<1>5. ScreenOK' /\ LoadsNumbered' /\ LoadsAhead' /\ NoneGoesBack
      BY <1>1, <1>2, PageTypesNow
         DEF IInv, ScreenOK, LoadsNumbered, LoadsAhead, IsLatest, NoneGoesBack, auth
<1>6. ActionAhead'
      BY <1>1, <1>2, PageTypesNow DEF IInv, ActionAhead, ScreenOK, LoadsAhead
<1> QED
    BY <1>2, <1>4, <1>5, <1>6 DEF IInv, CopiesAgree, auth

\* A load ends with the row it brought, or with an error.
LEMMA EndReadKeeps ==
    ASSUME IInv, NEW q \in reads, NEW data \in {0, q.data}, data = 0 \/ q.answer = "OK",
           EndRead(q, data)
    PROVE  IInv' /\ NoneGoesBack
<1>1. TypeOK /\ q \in ReadType
      BY PageTypesNow DEF IInv
<1>2. reads' = reads \ {q} /\ UNCHANGED <<server, auth, stray>>
      BY DEF EndRead
<1>3. act' = act \/ act' = NoAct
      BY DEF EndRead
<1>4. CASE IsLatest(q)
    <2> DEFINE x == q.of
               s == [[shown[x] EXCEPT !.data = data] EXCEPT !.loading = FALSE]
    <2>1. x \in Resource /\ shown[x] \in ShownType /\ data \in 0..MaxVersion
          BY <1>1, PageTypesNow, PortalAssumption DEF ReadType
    <2>2. /\ s \in ShownType /\ s.mounted = shown[x].mounted /\ s.latest = shown[x].latest
          /\ s.data = data /\ ~s.loading
          BY <2>1 DEF ShownType
    <2>3. shown' = [shown EXCEPT ![x] = s]
          BY <1>1, <1>4, <2>1, PageTypesNow DEF EndRead
    <2>4. \A y \in Resource : shown'[y] = IF y = x THEN s ELSE shown[y]
          BY <1>1, <2>1, <2>3, PageTypesNow
    <2> HIDE DEF s
    <2>5. TypeOK'
          BY <1>1, <1>2, <1>3, <2>2, <2>3, PageTypes, PageTypesNow
    <2>6. shown[x].mounted /\ q.data <= server.version /\ (data # 0 => shown[x].data <= data)
          BY <1>4 DEF IInv, LoadsNumbered, LoadsAhead
    <2>7. "LIST" \in Resource /\ "DETAILS" \in Resource
          BY DEF Resource
    <2>8. \A y \in Resource : shown'[y].mounted = shown[y].mounted
          BY <2>2, <2>4
    <2>14. ScreenOK'
          BY <1>2, <2>2, <2>4, <2>6, <2>7, <2>8 DEF IInv, ScreenOK, auth
    <2>15. NoneGoesBack
          BY <1>1, <2>1, <2>2, <2>4, <2>6, PageTypesNow DEF NoneGoesBack
    <2>9. \A p \in reads' : p.of = x => p.id # shown[x].latest
          BY <1>2, <1>4 DEF IInv, LoadsNumbered, IsLatest
    <2>10. LoadsNumbered'
          BY <1>1, <1>2, <2>2, <2>4, <2>9, PageTypesNow DEF IInv, LoadsNumbered, IsLatest
    <2>11. LoadsAhead'
          BY <1>1, <1>2, <2>1, <2>2, <2>4, <2>6, <2>9, PageTypesNow DEF IInv, LoadsAhead, IsLatest
    <2>12. act.phase # "IDLE" => x # "DETAILS"
          BY <1>4 DEF IInv, ActionAhead, LoadsNumbered
    <2>13. ActionAhead'
          BY <1>2, <1>3, <2>4, <2>7, <2>12 DEF IInv, ActionAhead, NoAct
    <2> QED
        BY <1>2, <2>5, <2>14, <2>15, <2>10, <2>11, <2>13 DEF IInv, CopiesAgree, auth
<1>5. CASE ~IsLatest(q)
    <2>1. shown' = shown /\ act' = act
          BY <1>5 DEF EndRead
    <2>2. TypeOK'
          BY <1>1, <1>2, <2>1, PageTypes, PageTypesNow
    <2>3. ScreenOK' /\ LoadsNumbered' /\ LoadsAhead' /\ ActionAhead' /\ NoneGoesBack
          BY <1>1, <1>2, <2>1, PageTypesNow
             DEF IInv, ScreenOK, LoadsNumbered, LoadsAhead, ActionAhead, IsLatest, NoneGoesBack, auth
    <2> QED
        BY <1>2, <2>2, <2>3 DEF IInv, CopiesAgree, auth
<1> QED
    BY <1>4, <1>5

LEMMA LoseActKeeps ==
    ASSUME IInv, act' = NoAct, UNCHANGED <<server, auth, shown, reads, stray>>
    PROVE  IInv' /\ NoneGoesBack
<1>1. TypeOK
      BY DEF IInv
<1>2. TypeOK'
      BY <1>1, PageTypes, PageTypesNow
<1>3. ScreenOK' /\ LoadsNumbered' /\ LoadsAhead' /\ ActionAhead' /\ NoneGoesBack
      BY <1>1, PageTypesNow
         DEF IInv, ScreenOK, LoadsNumbered, LoadsAhead, ActionAhead, IsLatest, NoneGoesBack, NoAct, auth
<1> QED
    BY <1>2, <1>3 DEF IInv, CopiesAgree, auth
\* An answered action shows its row and loads the list again.
LEMMA AnsweredActKeeps ==
    ASSUME IInv, AnswerAct, act.answer = "OK"
    PROVE  IInv' /\ NoneGoesBack
<1> DEFINE d == [[shown["DETAILS"] EXCEPT !.data = act.version] EXCEPT !.loading = FALSE]
           l == Reloaded(shown["LIST"])
           r == [of |-> "LIST", id |-> l.latest, token |-> storage.token, answer |-> "NONE", data |-> 0]
<1>1. TypeOK /\ "LIST" \in Resource /\ "DETAILS" \in Resource
      BY DEF IInv, Resource
<1>2. shown["LIST"] \in ShownType /\ shown["DETAILS"] \in ShownType
      BY <1>1, PageTypesNow
<1>3. /\ l \in ShownType /\ l.mounted = shown["LIST"].mounted /\ l.loading
      /\ l.data = shown["LIST"].data /\ l.latest = shown["LIST"].latest + 1
      BY <1>2, ReloadedShape
<1>4. act.version \in 0..MaxVersion
      BY <1>1, PageTypesNow DEF ActType
<1>5. /\ d \in ShownType /\ d.mounted = shown["DETAILS"].mounted /\ ~d.loading
      /\ d.data = act.version /\ d.latest = shown["DETAILS"].latest
      BY <1>2, <1>4 DEF ShownType
<1>6. /\ act.phase = "SENT" /\ act' = [NoAct EXCEPT !.phase = "RELOADING"]
      /\ UNCHANGED <<storage, session, loading, stray, server, me, signIn>>
      BY DEF AnswerAct
<1>7. reads' = reads \cup {r}
      BY <1>3 DEF AnswerAct, Reload
<1>8. shown' = [[shown EXCEPT !["DETAILS"] = d] EXCEPT !["LIST"] = l]
    <2>1. shown' = [shown EXCEPT !["DETAILS"].data = act.version,
                                 !["DETAILS"].loading = FALSE,
                                 !["LIST"] = Reloaded(@)]
          BY DEF AnswerAct
    <2> QED
        BY <1>1, <2>1, PageTypesNow
<1> HIDE DEF d, l
<1>9. \A y \in Resource : shown'[y] = IF y = "LIST" THEN l ELSE d
      BY <1>1, <1>8, PageTypesNow DEF Resource
<1>10. act' \in ActType /\ act'.phase = "RELOADING"
      BY <1>1, <1>6, PageTypesNow DEF ActType, NoAct
<1>11. /\ shown["DETAILS"].mounted /\ shown["LIST"].mounted
       /\ storage.token \in Token /\ storage.token # NoToken
       /\ act.version <= server.version /\ shown["DETAILS"].data <= act.version
       BY <1>1, <1>6 DEF IInv, ActionAhead, ScreenOK, TypeOK, SessionType
<1>12. r \in ReadType
       BY <1>1, <1>3, <1>11, PortalAssumption DEF ReadType, Answer, ShownType
<1>13. shown' \in [Resource -> ShownType]
       BY <1>1, <1>3, <1>5, <1>8, PageTypesNow
<1>14. TypeOK'
       BY <1>1, <1>6, <1>7, <1>10, <1>12, <1>13, PageTypes, PageTypesNow DEF auth
<1>15. ScreenOK'
       BY <1>1, <1>3, <1>5, <1>6, <1>9, <1>11 DEF IInv, ScreenOK
<1>16. ActionAhead'
       BY <1>1, <1>5, <1>9, <1>10, <1>11 DEF ActionAhead
<1>17. NoneGoesBack
       BY <1>1, <1>3, <1>4, <1>5, <1>9, <1>11, PageTypesNow DEF NoneGoesBack, Resource
<1>18. \A q \in reads : /\ q.of \in Resource /\ q.id \in Nat /\ q.data \in Nat
                        /\ q.id <= shown[q.of].latest
                        /\ q.of = "DETAILS" => q.id # d.latest
       BY <1>1, <1>5, <1>6, PageTypesNow DEF IInv, LoadsNumbered, IsLatest, ActionAhead
<1>19. LoadsNumbered'
    <2>1. ASSUME NEW q \in reads'
          PROVE  /\ shown'[q.of].mounted
                 /\ q.id <= shown'[q.of].latest
                 /\ q.id = shown'[q.of].latest => shown'[q.of].loading
        <3>0. /\ l.mounted /\ l.loading /\ d.mounted
              /\ l.latest \in Nat /\ d.latest \in Nat /\ shown["LIST"].latest < l.latest
              BY <1>1, <1>3, <1>5, <1>11, PageTypesNow
        <3>1. CASE q \in reads
            <4>1. CASE q.of = "LIST"
                  BY <1>1, <1>9, <1>18, <3>0, <3>1, <4>1, PageTypesNow
            <4>2. CASE q.of = "DETAILS"
                  BY <1>1, <1>5, <1>9, <1>18, <3>0, <3>1, <4>2, PageTypesNow
            <4> QED
                BY <1>18, <3>1, <4>1, <4>2 DEF Resource
        <3>2. CASE q = r
              BY <1>1, <1>9, <3>0, <3>2
        <3> QED
            BY <1>7, <3>1, <3>2
    <2>2. \A p \in reads : ~(p.of = "LIST" /\ p.id = l.latest)
          BY <1>1, <1>3, <1>18, PageTypesNow
    <2>3. \A p, q \in reads' : p.of = q.of /\ p.id = q.id => p = q
          BY <1>7, <2>2 DEF IInv, LoadsNumbered
    <2> QED
        BY <2>1, <2>3 DEF LoadsNumbered, IsLatest
<1>20. LoadsAhead'
    <2>1. \A y \in Resource : shown'[y].data <= server'.version
          BY <1>1, <1>3, <1>5, <1>6, <1>9, <1>11 DEF IInv, LoadsAhead, Resource
    <2>2. ASSUME NEW q \in reads'
          PROVE  /\ q.data <= server'.version
                 /\ q.id = shown'[q.of].latest /\ q.answer = "OK" => shown'[q.of].data <= q.data
        <3>1. CASE q \in reads
            <4>1. q.id # shown'[q.of].latest
                  BY <1>1, <1>3, <1>9, <1>18, <3>1, PageTypesNow DEF Resource
            <4> QED
                BY <1>6, <3>1, <4>1 DEF IInv, LoadsAhead
        <3>2. CASE q = r
              BY <1>1, <1>6, <3>2, PageTypesNow
        <3> QED
            BY <1>7, <3>1, <3>2
    <2> QED
        BY <2>1, <2>2 DEF LoadsAhead, IsLatest
<1> QED
    BY <1>6, <1>14, <1>15, <1>16, <1>17, <1>19, <1>20 DEF IInv, CopiesAgree

-----------------------------------------------------------------------------
(* Every step. *)

LEMMA AnswerActKeeps ==
    ASSUME IInv, AnswerAct
    PROVE  IInv' /\ NoneGoesBack
<1>1. CASE act.answer = "OK"
      BY <1>1, AnsweredActKeeps
<1>2. CASE act.answer = "REFUSED"
      BY <1>2, LoseActKeeps DEF AnswerAct, auth
<1>3. CASE act.answer \notin {"OK", "REFUSED"}
      BY <1>3, ClearedKeeps DEF AnswerAct
<1> QED
    BY <1>1, <1>2, <1>3

LEMMA NextIInv ==
    ASSUME IInv, Next
    PROVE  IInv' /\ NoneGoesBack
<1>1. ASSUME NEW q \in reads, AnswerRead(q) \/ LoseRead(q) PROVE IInv' /\ NoneGoesBack
      BY <1>1, EndReadKeeps DEF AnswerRead, LoseRead
<1>2. ASSUME NEW q \in reads, Unauthorized(q) PROVE IInv' /\ NoneGoesBack
      BY <1>2, ClearedKeeps DEF Unauthorized
<1>3. ASSUME Logout PROVE IInv' /\ NoneGoesBack
      BY <1>3, ClearedKeeps DEF Logout
<1>4. ASSUME LoseAct PROVE IInv' /\ NoneGoesBack
      BY <1>4, LoseActKeeps DEF LoseAct
<1>5. ASSUME OthersAct \/ HandleAct \/ Restart \/ RefreshUser \/ AnswerMe \/ AnswerSignIn
             \/ CloseDetails \/ Leave \/ Act \/ AnswerAct
      PROVE  IInv' /\ NoneGoesBack
      BY <1>5, OthersActKeeps, HandleActKeeps, RestartKeeps, RefreshUserKeeps, AnswerMeKeeps,
         AnswerSignInKeeps, CloseKeeps, LeaveKeeps, ActKeeps, AnswerActKeeps
<1>6. ASSUME LoseMe \/ FailToSignIn \/ \E u \in User : SignIn(u) PROVE IInv' /\ NoneGoesBack
      BY <1>6, WaitingKeeps
<1>7. ASSUME NEW q \in reads, HandleRead(q) PROVE IInv' /\ NoneGoesBack
      BY <1>7, HandleReadKeeps
<1>8. ASSUME NEW t \in Token, Revoke(t) PROVE IInv' /\ NoneGoesBack
      BY <1>8, RevokeKeeps
<1>9. ASSUME NEW t \in stray, UnauthorizedStray(t) PROVE IInv' /\ NoneGoesBack
      BY <1>9, StrayKeeps
<1>10. ASSUME NEW x \in Resource, Mount(x) \/ Refresh(x) PROVE IInv' /\ NoneGoesBack
      BY <1>10, MountKeeps, RefreshKeeps
<1> QED
    BY <1>1, <1>2, <1>3, <1>4, <1>5, <1>6, <1>7, <1>8, <1>9, <1>10 DEF Next

LEMMA StutterIInv ==
    ASSUME IInv, UNCHANGED vars
    PROVE  IInv'
BY DEF IInv, TypeOK, CopiesAgree, ScreenOK, LoadsNumbered, LoadsAhead, ActionAhead, IsLatest, vars

\* The invariant holds for any users, tokens, loads and versions of the row.
THEOREM PortalInvariant == Spec => []IInv
<1>1. IInv /\ [Next]_vars => IInv'
      BY NextIInv, StutterIInv
<1> QED
    BY <1>1, InitIInv, PTL DEF Spec

\* The tab and the server hold values of their types: no request is sent, and no
\* session saved, without a token.
THEOREM TypeCorrect == Spec => []TypeOK
<1>1. IInv => TypeOK
      BY DEF IInv
<1> QED
    BY <1>1, PortalInvariant, PTL

\* What the pages show about the session is what the next request is sent with, after
\* restarts, refusals and answers in any order (api/client.js, AuthContext.jsx).
THEOREM SessionCopiesAgree == Spec => []CopiesAgree
<1>1. IInv => CopiesAgree
      BY DEF IInv
<1> QED
    BY <1>1, PortalInvariant, PTL

\* No page goes back to an older row, however many loads are answered in which order
\* and whatever is done meanwhile: the requestId of useAsyncResource and the busy state
\* of the dialog are enough.
THEOREM PagesOnlyAdvance == Spec => ShownNeverGoesBack
<1>1. IInv /\ [Next]_vars =>
          [\A x \in Resource : shown'[x].data # 0 => shown'[x].data >= shown[x].data]_vars
      BY NextIInv DEF NoneGoesBack
<1> QED
    BY <1>1, PortalInvariant, PTL DEF Spec, ShownNeverGoesBack
===============================================================================
