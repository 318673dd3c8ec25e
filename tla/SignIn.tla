---- MODULE SignIn ----
(***************************************************************************)
(* The browser's side of authentication: lib/api.ts, useAuth and           *)
(* ProtectedRoute in the tabs of one browser, which share localStorage,    *)
(* composed with the login and registration handlers of Accounts.  The     *)
(* server's sessions are those of module Sessions reduced to what a client *)
(* can tell: whether a session is live, its access token has run out, and  *)
(* its refresh token was used.  A token is the number of its session.      *)
(*                                                                         *)
(* ResponseInterceptor wraps every body in {success, data}.  login reads   *)
(* data.data; refreshAuthToken reads data.accessToken and                  *)
(* data.refreshToken, which are undefined, so a refresh that succeeds      *)
(* removes both tokens and returns true.                                   *)
(***************************************************************************)
EXTENDS Accounts

CONSTANTS
    Tabs,
    MaxSessions  \* bound on the sessions that are created

ASSUME SessionsNat == MaxSessions \in Nat /\ None \notin Nat
ASSUME NoneNoTab == None \notin Tabs

VARIABLES
    tab,        \* per tab: React state of AuthProvider, and api.ts's accessToken
    store,      \* localStorage: accessToken and refreshToken
    req,        \* requests of the tabs; the handler of login or register r is task[r]
    made,       \* sessions created so far
    live,       \* sessions neither revoked nor expired
    rotated,    \* sessions whose refresh token was used
    lapsed,     \* sessions whose access token ran out
    loggedOut   \* history: sessions whose tokens a tab has given up by logging out

browser == <<tab, store>>
sessions == <<made, live, rotated, lapsed>>
vars == <<accounts, browser, req, sessions, loggedOut>>

Sids == 1 .. MaxSessions

IdleReq == [kind |-> "idle", tab |-> None, pc |-> "idle", email |-> None, password |-> None,
            token |-> None, ok |-> FALSE]

NewTab == [open |-> FALSE, isAuthenticated |-> FALSE, isLoading |-> FALSE, accessToken |-> None]

NoTokens == [accessToken |-> None, refreshToken |-> None]

SignInInit ==
    /\ Init
    /\ tab = [x \in Tabs |-> NewTab]
    /\ store = NoTokens
    /\ req = [r \in Tasks |-> IdleReq]
    /\ made = 0
    /\ live = {} /\ rotated = {} /\ lapsed = {} /\ loggedOut = {}

Idle(r) == req[r] = IdleReq /\ task[r] = IdleTask

Send(r, x, kind, pc, token) ==
    req' = [req EXCEPT ![r] = [IdleReq EXCEPT !.kind = kind, !.tab = x, !.pc = pc, !.token = token]]

Close(r) == req' = [req EXCEPT ![r] = IdleReq]

GetAccessToken(x) ==
    IF tab[x].accessToken # None THEN tab[x].accessToken ELSE store.accessToken

----------------------------------------------------------------------------
(* Loading a tab: initAuth.                                                *)

\* Mutant of Load: the early return of refreshAuthToken is taken for an answer to come.
LoadWaits(x, r) ==
    /\ tab' = [tab EXCEPT ![x] = [NewTab EXCEPT !.open = TRUE, !.isLoading = TRUE]]
    /\ IF store.refreshToken = None THEN UNCHANGED req
       ELSE Send(r, x, "init", "refresh", store.refreshToken)

\* A mount of AuthProvider, with the module's accessToken null again.
Load(x, r) ==
    /\ tab' = [tab EXCEPT ![x] = [NewTab EXCEPT !.open = TRUE,
                                                !.isLoading = store.refreshToken # None]]
    /\ IF store.refreshToken = None THEN UNCHANGED req
       ELSE Send(r, x, "init", "refresh", store.refreshToken)

\* The tab is opened or reloaded.
Open(x, r) ==
    /\ Idle(r)
    /\ \A q \in Tasks : req[q].tab # x
    /\ Load(x, r)
    /\ UNCHANGED <<accounts, store, sessions, loggedOut>>

----------------------------------------------------------------------------
(* apiFetch and refreshAuthToken.                                          *)

\* ProtectedRoute shows the page, and with it what calls the API.
Protected(x) == tab[x].isAuthenticated /\ ~tab[x].isLoading

CallApi(x, r) ==
    /\ Idle(r)
    /\ Protected(x)
    /\ Send(r, x, "api", "sent", GetAccessToken(x))
    /\ UNCHANGED <<accounts, browser, sessions, loggedOut>>

Logout(x, r) ==
    /\ Idle(r)
    /\ Protected(x)
    /\ tab' = [tab EXCEPT ![x].isLoading = TRUE]
    /\ Send(r, x, "logout", "sent", GetAccessToken(x))
    /\ UNCHANGED <<accounts, store, sessions, loggedOut>>

\* JwtAuthGuard and, for a logout, the revocation.
Serve(r) ==
    LET n == req[r].token
        ok == n \in live \ lapsed
    IN  /\ req[r].pc = "sent"
        /\ req' = [req EXCEPT ![r].pc = "answered", ![r].ok = ok]
        /\ live' = IF ok /\ req[r].kind = "logout" THEN live \ {n} ELSE live
        /\ UNCHANGED <<accounts, browser, made, rotated, lapsed, loggedOut>>

\* What logout does in its finally block.
FinishLogout(x, n) ==
    /\ tab' = [tab EXCEPT ![x].accessToken = None, ![x].isAuthenticated = FALSE, ![x].isLoading = FALSE]
    /\ store' = NoTokens
    /\ loggedOut' = IF n = None THEN loggedOut ELSE loggedOut \cup {n}

\* apiFetch returns; logout goes on whatever it returned.
Return(r) ==
    /\ IF req[r].kind = "logout" THEN FinishLogout(req[r].tab, req[r].token)
       ELSE UNCHANGED <<browser, loggedOut>>
    /\ Close(r)

\* The event auth:unauthorized, after refreshAuthToken has or has not removed the
\* tokens, then the return of apiFetch.
Unauthorized(r, removed) ==
    /\ IF req[r].kind = "logout" THEN FinishLogout(req[r].tab, req[r].token)
       ELSE /\ tab' = [tab EXCEPT ![req[r].tab].isAuthenticated = FALSE,
                                  ![req[r].tab].accessToken = IF removed THEN None ELSE @]
            /\ store' = IF removed THEN NoTokens ELSE store
            /\ UNCHANGED loggedOut
    /\ Close(r)

\* The answer of the first fetch: done, or a refresh with the token of this moment.
FetchReturns(r) ==
    /\ req[r].pc = "answered"
    /\ CASE req[r].ok -> Return(r)
         [] ~req[r].ok /\ store.refreshToken = None -> Unauthorized(r, FALSE)
         [] OTHER -> /\ req' = [req EXCEPT ![r].pc = "refresh", ![r].token = store.refreshToken]
                     /\ UNCHANGED <<browser, loggedOut>>
    /\ UNCHANGED <<accounts, sessions>>

\* fetch throws in apiFetch.
FetchFails(r) ==
    /\ req[r].pc \in {"sent", "retry"}
    /\ Return(r)
    /\ UNCHANGED <<accounts, sessions>>

\* POST /auth/refresh: rotation, or revocation of the session when the token was used.
Rotate(r) ==
    LET n == req[r].token
        ok == n \in live \ rotated
    IN  /\ req[r].pc = "refresh"
        /\ req' = [req EXCEPT ![r].pc = "refreshed", ![r].ok = ok]
        /\ rotated' = IF ok THEN rotated \cup {n} ELSE rotated
        /\ live' = IF ok THEN live ELSE live \ {n}
        /\ UNCHANGED <<accounts, browser, made, lapsed, loggedOut>>

\* The refresh is throttled, lost or answered with an error.
RefreshFails(r) ==
    /\ req[r].pc = "refresh"
    /\ req' = [req EXCEPT ![r].pc = "refreshed", ![r].ok = FALSE]
    /\ UNCHANGED <<accounts, browser, sessions, loggedOut>>

\* Mutant of StoreTokens: the fields are taken from data.data.
StoreNewTokens(r) ==
    IF req[r].ok THEN [accessToken |-> req[r].token, refreshToken |-> req[r].token] ELSE NoTokens

\* localStorage after setAccessToken(data.accessToken) and setRefreshToken: both are
\* undefined in a success and null otherwise.
StoreTokens(r) == NoTokens

\* Mutant of Forget: the missing token is kept as text, 0 here, which names no session.
ForgetAsText(x) == tab' = [tab EXCEPT ![x].accessToken = 0]

Forget(x) == tab' = [tab EXCEPT ![x].accessToken = None]

\* refreshAuthToken returns to initAuth.
InitRefreshed(r) ==
    /\ req[r].pc = "refreshed" /\ req[r].kind = "init"
    /\ store' = StoreTokens(r)
    /\ tab' = [tab EXCEPT ![req[r].tab].accessToken = None,
                          ![req[r].tab].isAuthenticated = req[r].ok,
                          ![req[r].tab].isLoading = FALSE]
    /\ Close(r)
    /\ UNCHANGED <<accounts, sessions, loggedOut>>

\* refreshAuthToken returns to apiFetch: a retry with "Bearer null", or sign-out.
CallRefreshed(r) ==
    /\ req[r].pc = "refreshed" /\ req[r].kind # "init"
    /\ IF req[r].ok
       THEN /\ Forget(req[r].tab)
            /\ store' = StoreTokens(r)
            /\ req' = [req EXCEPT ![r].pc = "retry"]
            /\ UNCHANGED loggedOut
       ELSE Unauthorized(r, TRUE)
    /\ UNCHANGED <<accounts, sessions>>

\* The retry is refused and apiFetch returns the 401.
RetryRefused(r) ==
    /\ req[r].pc = "retry"
    /\ Return(r)
    /\ UNCHANGED <<accounts, sessions>>

----------------------------------------------------------------------------
(* Login and registration.                                                 *)

Form(x, r, kind, e, p) ==
    /\ Idle(r)
    /\ tab[x].open /\ ~tab[x].isLoading /\ ~tab[x].isAuthenticated
    /\ tab' = [tab EXCEPT ![x].isLoading = TRUE]
    /\ req' = [req EXCEPT ![r] = [IdleReq EXCEPT !.kind = kind, !.tab = x, !.pc = "handler",
                                                 !.email = e, !.password = p]]
    /\ UNCHANGED <<store, sessions, loggedOut>>

SubmitLogin(x, r, e, p) == Form(x, r, "login", e, p) /\ Login(r, e, p)

SubmitRegister(x, r, e, p) == Form(x, r, "register", e, p) /\ Register(r, e, p)

\* issueTokens: the session exists before the reply is sent.
CreateSession(r) ==
    /\ made < MaxSessions
    /\ Issue(r)
    /\ made' = made + 1
    /\ live' = live \cup {made + 1}
    /\ req' = [req EXCEPT ![r].token = made + 1]
    /\ UNCHANGED <<browser, rotated, lapsed, loggedOut>>

\* login() with a 200.
LoginGranted(r) ==
    LET n == req[r].token
    IN  /\ task[r].pc = "granted"
        /\ Reply(r)
        /\ store' = [accessToken |-> n, refreshToken |-> n]
        /\ tab' = [tab EXCEPT ![req[r].tab].accessToken = n, ![req[r].tab].isAuthenticated = TRUE,
                              ![req[r].tab].isLoading = FALSE]
        /\ Close(r)
        /\ UNCHANGED <<sessions, loggedOut>>

\* login() or register() throws: an error reply, or none at all.
FormFails(r) ==
    /\ Answered(r)
    /\ Reply(r)
    /\ tab' = [tab EXCEPT ![req[r].tab].isLoading = FALSE]
    /\ Close(r)
    /\ UNCHANGED <<store, sessions, loggedOut>>

\* register() logs in with the same credentials.
ThenLogin(r) ==
    /\ LoginAgain(r, req[r].email, req[r].password)
    /\ req' = [req EXCEPT ![r].kind = "login"]
    /\ UNCHANGED <<browser, sessions, loggedOut>>

----------------------------------------------------------------------------
(* Time.                                                                   *)

\* Fifteen minutes after it was signed.
Lapse(n) ==
    /\ n \in live \ lapsed
    /\ lapsed' = lapsed \cup {n}
    /\ UNCHANGED <<accounts, browser, req, made, live, rotated, loggedOut>>

----------------------------------------------------------------------------

Request(r) ==
    \/ Serve(r) \/ FetchReturns(r) \/ FetchFails(r) \/ Rotate(r) \/ RefreshFails(r)
    \/ InitRefreshed(r) \/ CallRefreshed(r) \/ RetryRefused(r)
    \/ CreateSession(r) \/ LoginGranted(r) \/ FormFails(r) \/ ThenLogin(r)
    \/ Handle(r) /\ UNCHANGED <<browser, req, sessions, loggedOut>>

User(x, r) ==
    \/ Open(x, r) \/ CallApi(x, r) \/ Logout(x, r)
    \/ \E e \in Emails, p \in Passwords : SubmitLogin(x, r, e, p) \/ SubmitRegister(x, r, e, p)

SignInNext ==
    \/ \E r \in Tasks : Request(r)
    \/ \E x \in Tabs, r \in Tasks : User(x, r)
    \/ \E n \in Sids : Lapse(n)
    \/ Tick /\ UNCHANGED <<browser, req, sessions, loggedOut>>

SignInSpec == SignInInit /\ [][SignInNext]_vars

----------------------------------------------------------------------------
(* Properties.                                                             *)

Token == Sids \cup {None}

\* Types of the tabs, the storage, the requests and the sessions.
TypeOK ==
    /\ AccountsTypeOK
    /\ tab \in [Tabs -> [open : BOOLEAN, isAuthenticated : BOOLEAN, isLoading : BOOLEAN,
                         accessToken : Token]]
    /\ store \in [accessToken : Token, refreshToken : Token]
    /\ req \in [Tasks -> [kind : {"idle", "init", "api", "logout", "login", "register"},
                          tab : Tabs \cup {None},
                          pc : {"idle", "sent", "answered", "refresh", "refreshed", "retry", "handler"},
                          email : Emails \cup {None}, password : Passwords \cup {None},
                          token : Token, ok : BOOLEAN]]
    /\ made \in 0 .. MaxSessions
    /\ live \subseteq Sids /\ rotated \subseteq Sids /\ lapsed \subseteq Sids
    /\ loggedOut \subseteq Sids

\* Once a tab has given up a session by logging out, no token of it comes back to the
\* storage the tabs share, whatever refreshes and logins of the other requests and tabs
\* were under way.
LogoutSticks == store.accessToken \notin loggedOut /\ store.refreshToken \notin loggedOut

\* A spinner always has a request that will take it away: whichever way login, register,
\* logout or the first refresh goes, with the refresh and the retry inside it and with
\* other requests of the same tab, isLoading is set exactly while one of them runs.
SpinnerHasRequest ==
    \A x \in Tabs : tab[x].isLoading <=>
        \E r \in Tasks : req[r].tab = x /\ req[r].kind # "api"
====
