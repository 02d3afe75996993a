------------------------------ MODULE Sessions ------------------------------
(***************************************************************************)
(* Sign-in sessions of one user: AuthService over the refresh_tokens table *)
(* and Redis, and the browser tabs that hold the tokens.  The refresh      *)
(* token lives in a cookie all tabs of a browser share; the access token   *)
(* and the promise that stops concurrent refreshes live in each tab.       *)
(* Every step of a request is one round trip to the database, to Redis or  *)
(* to the browser.                                                         *)
(***************************************************************************)
EXTENDS Naturals

CONSTANTS
    Tabs, Browsers,
    BrowserOf,    \* the browser, and so the cookie jar, of a tab
    Nil,          \* no token, no request
    Resets,       \* password reset links that may be mailed
    MaxTokens,    \* bound: refresh tokens ever issued
    MaxPassword,  \* bound: password changes
    MaxSent,      \* bound: requests sent by the tabs
    MaxFaults     \* bound: requests or answers that are lost

ASSUME BrowserOfType == BrowserOf \in [Tabs -> Browsers]
ASSUME BoundsAreNat == MaxTokens \in Nat \ {0} /\ MaxPassword \in Nat
                          /\ MaxSent \in Nat /\ MaxFaults \in Nat

\* Tokens are numbered in the order they are issued.  An access token has the
\* number of the refresh token it is issued with, a family that of its root.
Tokens == 1..MaxTokens
TokenOrNil == Tokens \cup {Nil}

ASSUME NilIsNoToken == Nil \notin Tokens

VARIABLES
    issued,     \* how many tokens were issued
    family,     \* familyId
    revoked,    \* rows with revokedAt set
    expired,    \* refresh tokens past expiresAt
    purged,     \* rows the cleanup task deleted
    badAccess,  \* access tokens that have expired or are blacklisted
    password,   \* version of the user's passwordHash
    born,       \* the password the family was started with, at its root
    resetKey,   \* password reset resetKey: unsent, stored in Redis, or spent
    cookie,     \* refresh token cookie of each browser
    local,      \* access token in localStorage
    access,     \* access token in the tab's auth store
    refresh,    \* the tab's refreshPromise
    op,         \* the tab's other authentication request
    sent,       \* requests sent so far
    faults,     \* requests or answers lost so far
    history     \* what happened, for the properties

rows == <<issued, family, revoked, expired, purged, born>>
browser == <<cookie, local, access>>
vars == <<rows, badAccess, password, resetKey, browser, refresh, op, sent, faults, history>>

\* What happened, for the properties: families that two requests used at
\* once, how often each reset link changed the password, and whether a
\* password change stopped before its revocation.
History == [raced : SUBSET Tokens, resets : [Resets -> Nat], torn : BOOLEAN]

\* Who awaits a refresh: an API call or the socket, or the bootstrapper.
Triggers == {"request", "boot"}
RefreshSteps == {"sent", "rotate", "reuse", "answer", "refused", "settled"}
Refresh == [by : Triggers, step : RefreshSteps, token : TokenOrNil]

OpKinds == {"login", "clearStale", "logout", "logoutAll", "change", "reset"}
OpSteps == {"guard", "verify", "update", "revoke", "blacklist", "issue", "answer", "refused"}
Op == [kind : OpKinds, step : OpSteps, token : TokenOrNil, jti : TokenOrNil,
       pw : 0..MaxPassword, key : Resets \cup {Nil}]

ASSUME NilIsNoRequest == Nil \notin Refresh \cup Op

TypeOK ==
    /\ issued \in 0..MaxTokens
    /\ family \in [Tokens -> Tokens]
    /\ revoked \in SUBSET Tokens /\ expired \in SUBSET Tokens /\ purged \in SUBSET Tokens
    /\ born \in [Tokens -> 0..MaxPassword]
    /\ badAccess \in SUBSET Tokens
    /\ password \in 0..MaxPassword
    /\ resetKey \in [Resets -> {"unsent", "stored", "spent"}]
    /\ cookie \in [Browsers -> TokenOrNil]
    /\ local \in [Browsers -> TokenOrNil]
    /\ access \in [Tabs -> TokenOrNil]
    /\ refresh \in [Tabs -> Refresh \cup {Nil}]
    /\ op \in [Tabs -> Op \cup {Nil}]
    /\ sent \in 0..MaxSent
    /\ faults \in 0..MaxFaults
    /\ history \in History

\* The user has registered in one browser, whose tabs were all loaded since.
Init ==
    /\ issued = 1
    /\ family = [k \in Tokens |-> k]
    /\ revoked = {} /\ expired = {} /\ purged = {}
    /\ born = [k \in Tokens |-> 0]
    /\ badAccess = {}
    /\ password = 0
    /\ resetKey = [r \in Resets |-> "unsent"]
    /\ \E b \in Browsers :
          /\ cookie = [c \in Browsers |-> IF c = b THEN 1 ELSE Nil]
          /\ local = cookie
          /\ access = [t \in Tabs |-> IF BrowserOf[t] = b THEN 1 ELSE Nil]
    /\ refresh = [t \in Tabs |-> Nil]
    /\ op = [t \in Tabs |-> Nil]
    /\ sent = 0
    /\ faults = 0
    /\ history = [raced |-> {}, resets |-> [r \in Resets |-> 0], torn |-> FALSE]

-----------------------------------------------------------------------------
(* Rows and history *)

Live(k) == k \in 1..issued /\ k \notin revoked \cup expired \cup purged
Alive(f) == \E k \in 1..issued : family[k] = f /\ Live(k)

\* A refresh of the family has read its row and the tab has no answer yet.
Refreshing(f, t) ==
    /\ refresh[t] # Nil
    /\ refresh[t].step \in {"rotate", "answer"}
    /\ family[refresh[t].token] = f

RefreshedElsewhere(F, t) == {f \in F : \E u \in Tabs \ {t} : Refreshing(f, u)}
InRefresh(F) == {f \in F : \E u \in Tabs : Refreshing(f, u)}

Record(raced, resets, torn) ==
    history' = [raced |-> history.raced \cup raced, resets |-> resets, torn |-> torn]
RecordRaced(F) == Record(F, history.resets, history.torn)

\* The row of the next token, in the family f, started with the password pw.
NewRow(f, pw) ==
    /\ issued < MaxTokens
    /\ issued' = issued + 1
    /\ family' = [family EXCEPT ![issued + 1] = f]
    /\ born' = [born EXCEPT ![issued + 1] = pw]
    /\ UNCHANGED <<expired, purged>>

\* updateMany ... revokedAt: the rows of the families F that are not revoked.
RevokeFamilies(F) ==
    /\ revoked' = revoked \cup {k \in 1..issued \ purged : family[k] \in F}
    /\ UNCHANGED <<issued, family, expired, purged, born>>

FamilyOf(k) == IF k = Nil THEN {} ELSE {family[k]}

-----------------------------------------------------------------------------
(* The browser: api/client.ts, stores/auth.store.ts *)

SetToken(t, k) ==
    /\ access' = [access EXCEPT ![t] = k]
    /\ local' = [local EXCEPT ![BrowserOf[t]] = k]

ClearAuth(t) == SetToken(t, Nil)

SetCookie(t, k) == cookie' = [cookie EXCEPT ![BrowserOf[t]] = k]

RefreshAt(t, step) == refresh[t] # Nil /\ refresh[t].step = step

PutRefresh(t, by, step, token) ==
    refresh' = [refresh EXCEPT ![t] = [by |-> by, step |-> step, token |-> token]]

RefreshGoto(t, step, token) == PutRefresh(t, refresh[t].by, step, token)
Settle(t) == PutRefresh(t, "boot", "settled", Nil)

\* refreshAccessToken: one refresh at a time in a tab, none across tabs.
StartRefresh(t, by) ==
    /\ refresh[t] = Nil
    /\ PutRefresh(t, by, "sent", cookie[BrowserOf[t]])
    /\ sent < MaxSent /\ sent' = sent + 1
    /\ UNCHANGED <<rows, badAccess, password, resetKey, browser, op, faults, history>>

\* apiFetch: a request with a bad access token is answered 401.
FetchUnauthorized(t) == access[t] \in badAccess /\ StartRefresh(t, "request")

\* The socket's connect_error or token:expired.
SocketAuthError(t) == access[t] \in badAccess /\ StartRefresh(t, "request")

\* AuthBootstrapper, in a tab that finds no token in localStorage.
Bootstrap(t) ==
    /\ access[t] = Nil /\ op[t] = Nil /\ local[BrowserOf[t]] = Nil
    /\ StartRefresh(t, "boot")

\* A page load takes the token another tab has put into localStorage.
Reload(t) ==
    /\ refresh[t] = Nil /\ op[t] = Nil
    /\ local[BrowserOf[t]] # access[t]
    /\ access' = [access EXCEPT ![t] = local[BrowserOf[t]]]
    /\ UNCHANGED <<rows, badAccess, password, resetKey, cookie, local, refresh, op, sent, faults, history>>

-----------------------------------------------------------------------------
(* refreshTokens *)

\* Mutant: revokedAt is not looked at.
ReadRow_NoReuse(t) ==
    /\ RefreshAt(t, "sent")
    /\ LET k == refresh[t].token IN
       /\ \/ (k = Nil \/ k \in purged \cup expired) /\ RefreshGoto(t, "refused", Nil)
          \/ k # Nil /\ k \notin purged \cup expired /\ RefreshGoto(t, "rotate", k)
       /\ RecordRaced(RefreshedElsewhere(FamilyOf(k), t))
    /\ UNCHANGED <<rows, badAccess, password, resetKey, browser, op, sent, faults>>

\* The row is read once; what it says decides what is written later.
ReadRow(t) ==
    /\ RefreshAt(t, "sent")
    /\ LET k == refresh[t].token IN
       /\ \/ (k = Nil \/ k \in purged \cup expired) /\ RefreshGoto(t, "refused", Nil)
          \/ k \in revoked \ (purged \cup expired) /\ RefreshGoto(t, "reuse", k)
          \/ k # Nil /\ Live(k) /\ RefreshGoto(t, "rotate", k)
       /\ RecordRaced(RefreshedElsewhere(FamilyOf(k), t))
    /\ UNCHANGED <<rows, badAccess, password, resetKey, browser, op, sent, faults>>

\* TOKEN_REUSE_DETECTED.
RevokeFamily(t) ==
    /\ RefreshAt(t, "reuse")
    /\ LET f == family[refresh[t].token] IN
       /\ RevokeFamilies({f})
       /\ RecordRaced(RefreshedElsewhere({f}, t))
    /\ RefreshGoto(t, "refused", Nil)
    /\ UNCHANGED <<badAccess, password, resetKey, browser, op, sent, faults>>

\* Mutant: the predecessor is not revoked.
Rotate_KeepsOld(t) ==
    /\ RefreshAt(t, "rotate")
    /\ LET k == refresh[t].token IN NewRow(family[k], 0) /\ UNCHANGED revoked
    /\ RefreshGoto(t, "answer", issued + 1)
    /\ UNCHANGED <<badAccess, password, resetKey, browser, op, sent, faults, history>>

\* One transaction: the successor is created, the predecessor revoked whatever
\* its revokedAt is by now.
RotateRow(k) == NewRow(family[k], 0) /\ revoked' = revoked \cup {k}

Rotate(t) ==
    /\ RefreshAt(t, "rotate")
    /\ RotateRow(refresh[t].token)
    /\ RefreshGoto(t, "answer", issued + 1)
    /\ UNCHANGED <<badAccess, password, resetKey, browser, op, sent, faults, history>>

RefreshAnswered(t) ==
    /\ RefreshAt(t, "answer")
    /\ SetCookie(t, refresh[t].token)
    /\ SetToken(t, refresh[t].token)
    /\ Settle(t)
    /\ UNCHANGED <<rows, badAccess, password, resetKey, op, sent, faults, history>>

\* 401: the store is cleared; the cookie stays.
RefreshRefused(t) ==
    /\ RefreshAt(t, "refused")
    /\ ClearAuth(t)
    /\ Settle(t)
    /\ UNCHANGED <<rows, badAccess, password, resetKey, cookie, op, sent, faults, history>>

\* The request or its answer is lost: null, which apiFetch and the socket
\* take for a failed refresh and the bootstrapper ignores.
RefreshLost(t) ==
    /\ faults < MaxFaults /\ faults' = faults + 1
    /\ RefreshAt(t, "sent") \/ RefreshAt(t, "answer")
    /\ IF refresh[t].by = "boot" THEN UNCHANGED <<access, local>> ELSE ClearAuth(t)
    /\ Settle(t)
    /\ UNCHANGED <<rows, badAccess, password, resetKey, cookie, op, history, sent>>

\* setTimeout REFRESH_DEBOUNCE_MS after the promise settled.
DebounceOver(t) ==
    /\ RefreshAt(t, "settled")
    /\ refresh' = [refresh EXCEPT ![t] = Nil]
    /\ UNCHANGED <<rows, badAccess, password, resetKey, browser, op, sent, faults, history>>

-----------------------------------------------------------------------------
(* The other requests of a tab *)

OpAt(t, kind, step) == op[t] # Nil /\ op[t].kind = kind /\ op[t].step = step

PutOp(t, kind, step, token, jti, pw, key) ==
    op' = [op EXCEPT ![t] = [kind |-> kind, step |-> step, token |-> token,
                             jti |-> jti, pw |-> pw, key |-> key]]

\* A request is sent with the cookie and the access token of the moment.
Send(t, kind, key) ==
    /\ op[t] = Nil
    /\ sent < MaxSent /\ sent' = sent + 1
    /\ PutOp(t, kind, "guard", cookie[BrowserOf[t]], access[t], 0, key)
    /\ UNCHANGED <<rows, badAccess, password, resetKey, browser, refresh, faults, history>>

\* The request goes on with the token to answer with, the password it knows.
OpGoto(t, step, token, pw) ==
    PutOp(t, op[t].kind, step, token, op[t].jti, pw, op[t].key)

OpEnd(t) == op' = [op EXCEPT ![t] = Nil]

OpRefuse(t) == PutOp(t, op[t].kind, "refused", Nil, Nil, 0, Nil)

Step(t, step) ==
    /\ OpGoto(t, step, Nil, 0)
    /\ UNCHANGED <<rows, badAccess, password, resetKey, browser, refresh, sent, faults, history>>

\* GuestRoute shows the sign-in pages only to a tab without a token.
SendGuest(t, kind, key) == access[t] = Nil /\ Send(t, kind, key)
SendSignedIn(t, kind) == access[t] # Nil /\ Send(t, kind, Nil)

\* AnonymousGuard: the refresh token is checked; no Bearer header was sent.
Anonymous(t) == op[t].token = Nil \/ ~Live(op[t].token)

\* JwtAuthGuard.
Authenticated(t) == op[t].jti # Nil /\ op[t].jti \notin badAccess

GuestKinds == {"login", "reset"}

GuardRefuses(t) ==
    /\ \/ \E kind \in GuestKinds : OpAt(t, kind, "guard") /\ ~Anonymous(t)
       \/ \E kind \in {"change", "logoutAll"} : OpAt(t, kind, "guard") /\ ~Authenticated(t)
    /\ OpRefuse(t)
    /\ UNCHANGED <<rows, badAccess, password, resetKey, browser, refresh, sent, faults, history>>

LoginRoute(t) == OpAt(t, "login", "guard") /\ Anonymous(t) /\ Step(t, "verify")
ResetRoute(t) == OpAt(t, "reset", "guard") /\ Anonymous(t) /\ Step(t, "verify")
ChangeRoute(t) == OpAt(t, "change", "guard") /\ Authenticated(t) /\ Step(t, "verify")
LogoutAllRoute(t) == OpAt(t, "logoutAll", "guard") /\ Authenticated(t) /\ Step(t, "revoke")

\* login reads the row, compares the hash and remembers no more than the user.
LoginVerify(t) ==
    /\ OpAt(t, "login", "verify")
    /\ OpGoto(t, "issue", Nil, password)
    /\ UNCHANGED <<rows, badAccess, password, resetKey, browser, refresh, sent, faults, history>>

ChangeVerify(t) ==
    /\ OpAt(t, "change", "verify")
    /\ OpGoto(t, "update", Nil, 0)
    /\ UNCHANGED <<rows, badAccess, password, resetKey, browser, refresh, sent, faults, history>>

\* Mutant: GET instead of GETDEL.
TakeResetKey_Get(t) ==
    /\ OpAt(t, "reset", "verify")
    /\ IF resetKey[op[t].key] = "stored" THEN OpGoto(t, "update", Nil, 0) ELSE OpRefuse(t)
    /\ UNCHANGED <<rows, badAccess, password, resetKey, browser, refresh, sent, faults, history>>

\* resetPassword takes the key from Redis with GETDEL.
TakeResetKey(t) ==
    /\ OpAt(t, "reset", "verify")
    /\ IF resetKey[op[t].key] = "stored" THEN OpGoto(t, "update", Nil, 0) ELSE OpRefuse(t)
    /\ resetKey' = [resetKey EXCEPT ![op[t].key] = IF @ = "stored" THEN "spent" ELSE @]
    /\ UNCHANGED <<rows, badAccess, password, browser, refresh, sent, faults, history>>

\* updatePassword, whatever other requests made of the password since.
UpdatePassword(t) ==
    /\ op[t] # Nil /\ op[t].step = "update"
    /\ password < MaxPassword
    /\ password' = password + 1
    /\ PutOp(t, op[t].kind, "revoke", Nil, op[t].jti, password + 1, Nil)
    /\ Record({},
              IF op[t].kind = "reset"
              THEN [history.resets EXCEPT ![op[t].key] = @ + 1] ELSE history.resets,
              history.torn)
    /\ UNCHANGED <<rows, badAccess, resetKey, browser, refresh, sent, faults>>

\* Mutant: revokeAllByUserId is missing.
RevokeAll_Missing(t) ==
    /\ op[t] # Nil /\ op[t].step = "revoke" /\ op[t].kind \in {"change", "reset", "logoutAll"}
    /\ RecordRaced(InRefresh(Tokens))
    /\ OpGoto(t, IF op[t].kind = "reset" THEN "issue" ELSE "blacklist", Nil, op[t].pw)
    /\ UNCHANGED <<rows, badAccess, password, resetKey, browser, refresh, sent, faults>>

\* revokeAllByUserId does not see the successor of a rotation in progress.
RevokeAll(t) ==
    /\ op[t] # Nil /\ op[t].step = "revoke" /\ op[t].kind \in {"change", "reset", "logoutAll"}
    /\ RevokeFamilies(Tokens)
    /\ RecordRaced(InRefresh(Tokens))
    /\ OpGoto(t, IF op[t].kind = "reset" THEN "issue" ELSE "blacklist", Nil, op[t].pw)
    /\ UNCHANGED <<badAccess, password, resetKey, browser, refresh, sent, faults>>

\* Mutant: only the access token is blacklisted.
RevokeOne_None(t) ==
    /\ OpAt(t, "logout", "guard") \/ OpAt(t, "clearStale", "guard")
    /\ LET k == op[t].token IN OpGoto(t, IF k = Nil THEN "answer" ELSE "blacklist", k, 0)
    /\ UNCHANGED <<rows, badAccess, password, resetKey, browser, refresh, sent, faults, history>>

\* logout: the service is called only with a cookie; one row is revoked, and
\* not its successor if the cookie was rotated after the request was sent or
\* by a refresh whose answer was lost.
RevokeOne(t) ==
    /\ OpAt(t, "logout", "guard") \/ OpAt(t, "clearStale", "guard")
    /\ LET k == op[t].token IN
       /\ revoked' = IF k = Nil \/ k \in purged THEN revoked ELSE revoked \cup {k}
       /\ RecordRaced(IF k \in revoked THEN FamilyOf(k) ELSE InRefresh(FamilyOf(k)))
       /\ OpGoto(t, IF k = Nil THEN "answer" ELSE "blacklist", k, 0)
    /\ UNCHANGED <<issued, family, expired, purged, born, badAccess, password, resetKey,
                   browser, refresh, sent, faults>>

Blacklist(t) ==
    /\ op[t] # Nil /\ op[t].step = "blacklist"
    /\ badAccess' = IF op[t].jti = Nil THEN badAccess ELSE badAccess \cup {op[t].jti}
    /\ PutOp(t, op[t].kind, IF op[t].kind = "change" THEN "issue" ELSE "answer",
             op[t].token, Nil, op[t].pw, Nil)
    /\ UNCHANGED <<rows, password, resetKey, browser, refresh, sent, faults, history>>

\* issueTokenPair starts a family of its own.
IssueTokenPair(t) ==
    /\ op[t] # Nil /\ op[t].step = "issue"
    /\ NewRow(issued + 1, op[t].pw)
    /\ UNCHANGED revoked
    /\ OpGoto(t, "answer", issued + 1, 0)
    \* The password was changed since this request checked or set it.
    /\ RecordRaced(IF op[t].pw = password THEN {} ELSE {issued + 1})
    /\ UNCHANGED <<badAccess, password, resetKey, browser, refresh, sent, faults>>

ForgotPassword(t, r) ==
    /\ access[t] = Nil /\ op[t] = Nil
    /\ resetKey[r] = "unsent"
    /\ resetKey' = [resetKey EXCEPT ![r] = "stored"]
    /\ UNCHANGED <<rows, badAccess, password, browser, refresh, op, sent, faults, history>>

-----------------------------------------------------------------------------
(* Answers *)

\* setAuthCookie on the answer, setAuth or setToken in the page.
SignedIn(t, kind) ==
    /\ OpAt(t, kind, "answer")
    /\ SetCookie(t, op[t].token)
    /\ SetToken(t, op[t].token)
    /\ OpEnd(t)
    /\ UNCHANGED <<rows, badAccess, password, resetKey, refresh, sent, faults, history>>

LoginAnswered(t) == SignedIn(t, "login")
ResetAnswered(t) == SignedIn(t, "reset")

\* ProfileModal: the new cookie is kept, the new access token is not.
PasswordChanged(t) ==
    /\ OpAt(t, "change", "answer")
    /\ SetCookie(t, op[t].token)
    /\ OpEnd(t)
    /\ UNCHANGED <<rows, badAccess, password, resetKey, access, local, refresh, sent, faults, history>>

\* Header: the cookie is cleared by the answer, the store in any case.
LoggedOut(t) ==
    /\ OpAt(t, "logout", "answer")
    /\ SetCookie(t, Nil)
    /\ ClearAuth(t)
    /\ OpEnd(t)
    /\ UNCHANGED <<rows, badAccess, password, resetKey, refresh, sent, faults, history>>

\* ProfileModal and FloatingLogoutAllButton clear the store and report
\* success whatever the answer is.
LoggedOutAll(t) ==
    /\ \/ OpAt(t, "logoutAll", "answer") /\ SetCookie(t, Nil)
       \/ OpAt(t, "logoutAll", "refused") /\ UNCHANGED cookie
    /\ ClearAuth(t)
    /\ OpEnd(t)
    /\ UNCHANGED <<rows, badAccess, password, resetKey, refresh, sent, faults, history>>

\* ALREADY_AUTHENTICATED: LoginPage signs the stale session out and tries again.
LoginClearsStale(t) ==
    /\ OpAt(t, "login", "refused")
    /\ PutOp(t, "clearStale", "guard", cookie[BrowserOf[t]], Nil, 0, Nil)
    /\ UNCHANGED <<rows, badAccess, password, resetKey, browser, refresh, sent, faults, history>>

LoginRetries(t) ==
    /\ OpAt(t, "clearStale", "answer")
    /\ SetCookie(t, Nil)
    /\ PutOp(t, "login", "guard", Nil, access[t], 0, Nil)
    /\ UNCHANGED <<rows, badAccess, password, resetKey, access, local, refresh, sent, faults, history>>

OpRefused(t) ==
    /\ \E kind \in {"reset", "change"} : OpAt(t, kind, "refused")
    /\ OpEnd(t)
    /\ UNCHANGED <<rows, badAccess, password, resetKey, browser, refresh, sent, faults, history>>

\* The server fails between updatePassword and revokeAllByUserId.
ServerFails(t) ==
    /\ faults < MaxFaults /\ faults' = faults + 1
    /\ op[t] # Nil /\ op[t].step = "revoke" /\ op[t].kind \in {"change", "reset"}
    /\ OpEnd(t)
    /\ Record({}, history.resets, TRUE)
    /\ UNCHANGED <<rows, badAccess, password, resetKey, browser, refresh, sent>>

-----------------------------------------------------------------------------
(* Time *)

\* 15 minutes; a token no tab holds need not be watched.
AccessExpires(k) ==
    /\ k \notin badAccess /\ \E t \in Tabs : access[t] = k
    /\ badAccess' = badAccess \cup {k}
    /\ UNCHANGED <<rows, password, resetKey, browser, refresh, op, sent, faults, history>>

\* Seven days after the token was issued, so in the order they were issued, and
\* whatever request is using it by then; its access token has expired before.
RefreshExpires(k) ==
    /\ k \in 1..issued \ expired
    /\ \A j \in 1..issued : j < k => j \in expired
    /\ expired' = expired \cup {k}
    /\ badAccess' = badAccess \cup {k}
    /\ UNCHANGED <<issued, family, revoked, purged, born, password, resetKey, browser, refresh,
                   op, sent, faults, history>>

\* Mutant: revoked rows are deleted at once.
Cleanup_Revoked(S) ==
    /\ S # {} /\ S \subseteq (expired \cup revoked) \ purged
    /\ purged' = purged \cup S
    /\ UNCHANGED <<issued, family, revoked, expired, born, badAccess, password, resetKey,
                   browser, refresh, op, sent, faults, history>>

\* TokenCleanupTask: what expired or was revoked 30 days ago.  By then a revoked
\* token has expired as well, and no request is that slow.
Cleanup(S) ==
    /\ S # {} /\ S \subseteq expired \ purged
    /\ \A t \in Tabs : RefreshAt(t, "rotate") => refresh[t].token \notin S
    /\ purged' = purged \cup S
    /\ UNCHANGED <<issued, family, revoked, expired, born, badAccess, password, resetKey,
                   browser, refresh, op, sent, faults, history>>

-----------------------------------------------------------------------------
RefreshNext(t) ==
    \/ FetchUnauthorized(t) \/ SocketAuthError(t) \/ Bootstrap(t) \/ Reload(t)
    \/ ReadRow(t) \/ RevokeFamily(t) \/ Rotate(t)
    \/ RefreshAnswered(t) \/ RefreshRefused(t) \/ RefreshLost(t) \/ DebounceOver(t)

Requests(t) ==
    \/ SendGuest(t, "login", Nil)
    \/ \E r \in Resets : ForgotPassword(t, r) \/ SendGuest(t, "reset", r)
    \/ SendSignedIn(t, "logout") \/ SendSignedIn(t, "logoutAll") \/ SendSignedIn(t, "change")

OpNext(t) ==
    \/ GuardRefuses(t) \/ LoginRoute(t) \/ ResetRoute(t) \/ ChangeRoute(t) \/ LogoutAllRoute(t)
    \/ LoginVerify(t) \/ ChangeVerify(t) \/ TakeResetKey(t)
    \/ UpdatePassword(t) \/ RevokeAll(t) \/ RevokeOne(t) \/ Blacklist(t) \/ IssueTokenPair(t)
    \/ LoginAnswered(t) \/ ResetAnswered(t)
    \/ PasswordChanged(t) \/ LoggedOut(t) \/ LoggedOutAll(t)
    \/ LoginClearsStale(t) \/ LoginRetries(t) \/ OpRefused(t) \/ ServerFails(t)

Next ==
    \/ \E t \in Tabs : RefreshNext(t) \/ Requests(t) \/ OpNext(t)
    \/ \E k \in Tokens : AccessExpires(k) \/ RefreshExpires(k)
    \/ \E S \in SUBSET Tokens : Cleanup(S)

Spec == Init /\ [][Next]_vars

-----------------------------------------------------------------------------
(* Properties *)

\* Rotation keeps one usable token in a family, however often it is refreshed,
\* lost, replayed or retried, as long as two requests never used it at once.
OneLiveToken ==
    \A j, k \in 1..issued :
        j # k /\ family[j] = family[k] /\ Live(j) /\ Live(k) => family[j] \in history.raced

\* A refresh has found the family's token usable and will replace it, even if
\* the token expires before it does.
Renewing(f) == \E t \in Tabs : RefreshAt(t, "rotate") /\ family[refresh[t].token] = f

GoesOn(f) == Alive(f) \/ Renewing(f)

\* A family that was signed out of, replayed, revoked or left to expire stays
\* dead: sessions implement the lifecycle of SessionLifecycle.
SessionState(f) ==
    IF f \notin {family[k] : k \in 1..issued} THEN "unborn"
    ELSE IF f \in history.raced THEN "exempt"
    ELSE IF GoesOn(f) THEN "alive" ELSE "ended"

Lifecycle == INSTANCE SessionLifecycle
    WITH Families <- Tokens, session <- [f \in Tokens |-> SessionState(f)]

ImplementsLifecycle == Lifecycle!LifecycleSpec

\* When a tab learns that it is signed out nothing of that sign-in is usable or
\* about to be renewed.
SignOutEnds ==
    [][\A t \in Tabs : OpAt(t, "logout", "answer") /\ op'[t] = Nil =>
          \A f \in FamilyOf(op[t].token) : GoesOn(f)' => f \in history'.raced]_vars

\* changePassword and resetPassword leave no session that was started with an
\* earlier password: between their update and their revocation, after a
\* failure between the two, and for requests that overlap them, it may.
PasswordEndsSessions ==
    \/ history.torn
    \/ \E t \in Tabs : op[t] # Nil /\ op[t].step = "revoke" /\ op[t].kind \in {"change", "reset"}
    \/ \A f \in 1..issued : GoesOn(f) /\ f \notin history.raced => born[f] = password

\* A reset link changes the password at most once, however many tabs send it.
ResetOnce == \A r \in Resets : history.resets[r] <= 1

\* Only a token past its lifetime is answered TOKEN_INVALID: an earlier replay
\* always ends its family.
ReplayIsSeen ==
    [][\A t \in Tabs :
          RefreshAt(t, "sent") /\ refresh'[t] # Nil /\ refresh'[t].step = "refused"
             => refresh[t].token \in expired \cup {Nil}]_vars

\* A new password is set once by each reset link (GETDEL), and from then on
\* it is the only one whose sessions live.
PasswordHolds == PasswordEndsSessions /\ ResetOnce

=============================================================================
