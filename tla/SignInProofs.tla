---- MODULE SignInProofs ----
(***************************************************************************)
(* Theorems about SignIn, for any number of tabs, requests and sessions.   *)
(***************************************************************************)
EXTENDS SignIn, AccountsProofs

ReqRecord == [kind : {"idle", "init", "api", "logout", "login", "register"},
              tab : Tabs \cup {None},
              pc : {"idle", "sent", "answered", "refresh", "refreshed", "retry", "handler"},
              email : Emails \cup {None}, password : Passwords \cup {None},
              token : Token, ok : BOOLEAN]

TabRecord == [open : BOOLEAN, isAuthenticated : BOOLEAN, isLoading : BOOLEAN, accessToken : Token]

StoreRecord == [accessToken : Token, refreshToken : Token]

\* Which requests can be where.
ShapeOf(r) ==
    /\ req[r].kind = "idle" => req[r] = IdleReq
    /\ req[r].kind # "idle" => req[r].tab \in Tabs
    /\ req[r].pc = "handler" <=> req[r].kind \in {"login", "register"}
    /\ req[r].pc = "handler" <=> task[r].pc # "idle"
    /\ req[r].pc = "handler" => req[r].email \in Emails /\ req[r].password \in Passwords
    /\ req[r].pc \in {"sent", "answered", "retry"} => req[r].kind \in {"api", "logout"}

Shape == \A r \in Tasks : ShapeOf(r)

\* A request that owns the spinner of its tab.
Spins(r, x) == req[r].tab = x /\ req[r].kind # "api"

OneSpinner == \A r, q \in Tasks, x \in Tabs : Spins(r, x) /\ Spins(q, x) => r = q

Granted == {r \in Tasks : task[r].pc = "granted"}

\* The tokens that anything but the reply to a login holds or has held.
Known ==
    {None, store.accessToken, store.refreshToken}
        \cup {tab[x].accessToken : x \in Tabs}
        \cup {req[r].token : r \in Tasks \ Granted}
        \cup loggedOut

\* The token of a login that was not answered yet is nowhere else.
FreshGrants ==
    /\ Known \subseteq 1 .. made \cup {None}
    /\ \A r \in Granted : req[r].token \in 1 .. made /\ req[r].token \notin Known
    /\ \A r, q \in Granted : req[r].token = req[q].token => r = q

SignInInv ==
    /\ AccountsInv /\ TypeOK /\ Shape
    /\ OneSpinner /\ SpinnerHasRequest
    /\ FreshGrants /\ LogoutSticks

LEMMA TypeOKByParts ==
    TypeOK <=> /\ AccountsTypeOK
               /\ tab \in [Tabs -> TabRecord]
               /\ store \in StoreRecord
               /\ req \in [Tasks -> ReqRecord]
               /\ made \in 0 .. MaxSessions
               /\ live \subseteq Sids /\ rotated \subseteq Sids /\ lapsed \subseteq Sids
               /\ loggedOut \subseteq Sids
  BY DEF TypeOK, TabRecord, StoreRecord, ReqRecord

LEMMA TokenFacts == None \in Token /\ None \notin Sids /\ Sids \subseteq Nat
  BY SessionsNat DEF Token, Sids

LEMMA IdleReqFacts ==
    /\ IdleReq \in ReqRecord
    /\ IdleReq.kind = "idle" /\ IdleReq.pc = "idle" /\ IdleReq.tab = None /\ IdleReq.token = None
  BY TokenFacts DEF IdleReq, ReqRecord

LEMMA InitSignIn == SignInInit => SignInInv
<1> SUFFICES ASSUME SignInInit PROVE SignInInv
  OBVIOUS
<1>1. AccountsInv /\ AccountsTypeOK /\ \A r \in Tasks : task[r].pc = "idle"
  BY InitAccounts, IdleTyped DEF SignInInit, AccountsInv, Init
<1>2. NewTab \in TabRecord /\ NoTokens \in StoreRecord
  BY TokenFacts DEF NewTab, NoTokens, TabRecord, StoreRecord
<1>3. TypeOK
  BY <1>1, <1>2, IdleReqFacts, TypeOKByParts, SessionsNat DEF SignInInit
<1>4. Shape /\ OneSpinner
  BY <1>1, IdleReqFacts, NoneNoTab DEF SignInInit, Shape, ShapeOf, OneSpinner, Spins
<1>5. SpinnerHasRequest
  BY IdleReqFacts, NoneNoTab DEF SignInInit, SpinnerHasRequest, NewTab
<1>6. Known \subseteq {None} /\ Granted = {}
  BY <1>1, IdleReqFacts DEF SignInInit, Known, Granted, NoTokens, NewTab
<1>7. FreshGrants /\ LogoutSticks
  BY <1>6 DEF SignInInit, FreshGrants, LogoutSticks
<1>8. QED
  BY <1>1, <1>3, <1>4, <1>5, <1>7 DEF SignInInv

----------------------------------------------------------------------------
(* How a step may change the requests and the spinners.                    *)

OthersStay(r) == \A q \in Tasks \ {r} : req'[q] = req[q]

\* A request goes on.
LEMMA SpinnerGoesOn ==
    ASSUME SignInInv, NEW r \in Tasks, OthersStay(r),
           req'[r].tab = req[r].tab, req'[r].kind = "api" <=> req[r].kind = "api",
           \A x \in Tabs : tab'[x].isLoading = tab[x].isLoading
    PROVE  OneSpinner' /\ SpinnerHasRequest'
<1>1. \A q \in Tasks, x \in Tabs : Spins(q, x)' <=> Spins(q, x)
  BY DEF OthersStay, Spins
<1>2. OneSpinner'
  BY <1>1 DEF SignInInv, OneSpinner
<1>3. SpinnerHasRequest'
  BY <1>1 DEF SignInInv, SpinnerHasRequest, Spins
<1>4. QED
  BY <1>2, <1>3

\* A request ends, and with it its spinner.
LEMMA SpinnerEnds ==
    ASSUME SignInInv, NEW r \in Tasks, OthersStay(r), req'[r] = IdleReq,
           \A x \in Tabs : IF Spins(r, x) THEN ~tab'[x].isLoading
                           ELSE tab'[x].isLoading = tab[x].isLoading
    PROVE  OneSpinner' /\ SpinnerHasRequest'
<1>1. \A q \in Tasks, x \in Tabs : Spins(q, x)' <=> Spins(q, x) /\ q # r
  BY IdleReqFacts, NoneNoTab DEF OthersStay, Spins
<1>2. OneSpinner'
  BY <1>1 DEF SignInInv, OneSpinner
<1>3. ASSUME NEW x \in Tabs PROVE tab'[x].isLoading <=> \E q \in Tasks : Spins(q, x)'
  BY <1>1 DEF SignInInv, SpinnerHasRequest, OneSpinner, Spins
<1>4. QED
  BY <1>2, <1>3 DEF SpinnerHasRequest, Spins

\* A tab begins a request; unless it is a call of the page, the tab had no spinner.
LEMMA SpinnerBegins ==
    ASSUME SignInInv, NEW r \in Tasks, OthersStay(r), req[r] = IdleReq,
           NEW y \in Tabs, req'[r].tab = y,
           \A x \in Tabs \ {y} : tab'[x].isLoading = tab[x].isLoading,
           IF req'[r].kind = "api" THEN tab'[y].isLoading = tab[y].isLoading
           ELSE tab'[y].isLoading = TRUE /\ \A q \in Tasks : ~Spins(q, y)
    PROVE  OneSpinner' /\ SpinnerHasRequest'
<1>1. \A q \in Tasks, x \in Tabs :
          Spins(q, x)' <=> \/ Spins(q, x)
                           \/ q = r /\ x = y /\ req'[r].kind # "api"
  BY IdleReqFacts, NoneNoTab DEF OthersStay, Spins
<1>2. OneSpinner'
  BY <1>1 DEF SignInInv, OneSpinner
<1>3. ASSUME NEW x \in Tabs PROVE tab'[x].isLoading <=> \E q \in Tasks : Spins(q, x)'
  BY <1>1 DEF SignInInv, SpinnerHasRequest, Spins
<1>4. QED
  BY <1>2, <1>3 DEF SpinnerHasRequest, Spins

----------------------------------------------------------------------------
(* How a step may move tokens.                                             *)

\* No token is new to anything, and no login is granted.
LEMMA TokensKnown ==
    ASSUME SignInInv, UNCHANGED made, Known' \subseteq Known, Granted' \subseteq Granted,
           \A r \in Granted' : req'[r].token = req[r].token
    PROVE  FreshGrants'
  BY DEF SignInInv, FreshGrants

\* The types and fields that the proofs of the actions read.
LEMMA Facts ==
    ASSUME SignInInv
    PROVE  /\ tab \in [Tabs -> TabRecord] /\ store \in StoreRecord /\ req \in [Tasks -> ReqRecord]
           /\ made \in 0 .. MaxSessions /\ loggedOut \subseteq Sids /\ AccountsTypeOK
           /\ \A x \in Tabs : /\ tab[x] \in TabRecord
                              /\ tab[x].isLoading \in BOOLEAN
                              /\ tab[x].isAuthenticated \in BOOLEAN
                              /\ tab[x].accessToken \in Token /\ tab[x].accessToken \in Known
           /\ store.accessToken \in Token /\ store.refreshToken \in Token
           /\ store.accessToken \in Known /\ store.refreshToken \in Known
           /\ None \in Known /\ loggedOut \subseteq Known
           /\ \A r \in Tasks : req[r] \in ReqRecord /\ req[r].token \in Token /\ ShapeOf(r)
           /\ \A r \in Tasks : req[r].pc # "handler" => req[r].token \in Known
<1>1. /\ tab \in [Tabs -> TabRecord] /\ store \in StoreRecord /\ req \in [Tasks -> ReqRecord]
      /\ made \in 0 .. MaxSessions /\ loggedOut \subseteq Sids /\ AccountsTypeOK
  BY TypeOKByParts DEF SignInInv
<1>2. \A x \in Tabs : /\ tab[x] \in TabRecord
                      /\ tab[x].isLoading \in BOOLEAN
                      /\ tab[x].isAuthenticated \in BOOLEAN
                      /\ tab[x].accessToken \in Token /\ tab[x].accessToken \in Known
  BY <1>1 DEF TabRecord, Known
<1>3. /\ store.accessToken \in Token /\ store.refreshToken \in Token
      /\ store.accessToken \in Known /\ store.refreshToken \in Known
      /\ None \in Known /\ loggedOut \subseteq Known
  BY <1>1 DEF StoreRecord, Known
<1>4. \A r \in Tasks : req[r] \in ReqRecord /\ req[r].token \in Token /\ ShapeOf(r)
  BY <1>1 DEF ReqRecord, SignInInv, Shape
<1>5. ASSUME NEW r \in Tasks, req[r].pc # "handler" PROVE req[r].token \in Known
  <2>1. r \notin Granted
    BY <1>4, <1>5 DEF ShapeOf, Granted
  <2>2. QED
    BY <2>1 DEF Known
<1>6. QED
  BY <1>1, <1>2, <1>3, <1>4, <1>5

\* A step in which one request changes, no login is granted and tokens come from where
\* tokens were; localStorage is left alone or emptied.
Moves(r, new) ==
    /\ req' = [req EXCEPT ![r] = new]
    /\ \A q \in Tasks \ {r} : task'[q] = task[q]
    /\ task'[r].pc # "granted"
    /\ tab' \in [Tabs -> TabRecord]
    /\ \A x \in Tabs : tab'[x].accessToken \in Known
    /\ \/ store' = store /\ loggedOut' = loggedOut
       \/ store' = NoTokens /\ loggedOut' \subseteq (Known \cap Sids) \cup loggedOut
    /\ UNCHANGED made

Rest ==
    /\ tab \in [Tabs -> TabRecord] /\ store \in StoreRecord /\ req \in [Tasks -> ReqRecord]
    /\ made \in 0 .. MaxSessions /\ loggedOut \subseteq Sids
    /\ Shape /\ FreshGrants /\ LogoutSticks

LEMMA MoveKeeps ==
    ASSUME SignInInv, NEW r \in Tasks, NEW new \in ReqRecord, Moves(r, new), new.token \in Known,
           ShapeOf(r)'
    PROVE  Rest' /\ OthersStay(r) /\ req'[r] = new
<1>0. USE Facts
<1>1. req' \in [Tasks -> ReqRecord] /\ OthersStay(r) /\ req'[r] = new
  BY DEF Moves, OthersStay
<1>2. Shape'
  BY <1>1 DEF Moves, Shape, ShapeOf, OthersStay
<1>3. NoTokens \in StoreRecord /\ NoTokens.accessToken = None /\ NoTokens.refreshToken = None
  BY TokenFacts DEF NoTokens, StoreRecord
<1>4. store' \in StoreRecord /\ loggedOut' \subseteq Sids
  BY <1>3 DEF Moves
<1>5. loggedOut' \subseteq Known /\ store'.accessToken \in Known /\ store'.refreshToken \in Known
  BY <1>3 DEF Moves
<1>6. Granted' \subseteq Granted /\ r \notin Granted'
  BY DEF Moves, Granted
<1>7. \A q \in Tasks \ Granted' : req'[q].token \in Known
  <2> SUFFICES ASSUME NEW q \in Tasks, q \notin Granted', q # r PROVE req[q].token \in Known
    BY <1>1 DEF OthersStay
  <2>1. q \notin Granted
    BY DEF Moves, Granted
  <2>2. QED
    BY <2>1 DEF Known
<1>8. Known' \subseteq Known
  BY <1>5, <1>7 DEF Known, Moves
<1>9. FreshGrants'
  <2>1. \A q \in Granted' : req'[q].token = req[q].token
    BY <1>1, <1>6 DEF OthersStay, Granted
  <2>2. QED
    BY <1>6, <1>8, <2>1, TokensKnown DEF Moves
<1>10. LogoutSticks'
  BY <1>3, <1>4, TokenFacts DEF Moves, SignInInv, LogoutSticks
<1>11. QED
  BY <1>1, <1>2, <1>4, <1>9, <1>10 DEF Moves, Rest

Spinning == OneSpinner /\ SpinnerHasRequest

----------------------------------------------------------------------------
(* One lemma per action.                                                   *)

\* A request that is neither idle nor at a form's handler goes on, with its tab's spinner
\* as it was.
LEMMA GoesOn ==
    ASSUME SignInInv, NEW r \in Tasks, req[r].pc \notin {"idle", "handler"},
           NEW new \in ReqRecord, Moves(r, new),
           new.kind = req[r].kind, new.tab = req[r].tab, new.token \in Known,
           new.pc \in {"sent", "answered", "refresh", "refreshed", "retry"},
           new.pc \in {"sent", "answered", "retry"} => req[r].kind \in {"api", "logout"},
           UNCHANGED task, \A x \in Tabs : tab'[x].isLoading = tab[x].isLoading
    PROVE  Rest' /\ Spinning'
<1>1. req[r] \in ReqRecord /\ req \in [Tasks -> ReqRecord] /\ ShapeOf(r)
  BY Facts
<1>2. req'[r] = new
  BY <1>1 DEF Moves
<1>3. req[r].kind # "idle"
  BY <1>1, IdleReqFacts DEF ShapeOf
<1>4. ShapeOf(r)'
  BY <1>1, <1>2, <1>3 DEF ShapeOf
<1>5. Rest' /\ OthersStay(r)
  BY <1>4, MoveKeeps
<1>6. Spinning'
  BY <1>2, <1>5, SpinnerGoesOn DEF Spinning
<1>7. QED
  BY <1>5, <1>6

\* A request at a point of apiFetch or refreshAuthToken has no handler of a form.
LEMMA NoHandler ==
    ASSUME SignInInv, NEW r \in Tasks, req[r].pc # "handler"
    PROVE  task[r].pc = "idle" /\ req[r].token \in Known
  BY Facts DEF ShapeOf

\* A request ends, and with it the spinner that it owns.
LEMMA Closes ==
    ASSUME SignInInv, NEW r \in Tasks, Moves(r, IdleReq), task'[r].pc = "idle",
           \A x \in Tabs : IF Spins(r, x) THEN ~tab'[x].isLoading
                           ELSE tab'[x].isLoading = tab[x].isLoading
    PROVE  Rest' /\ Spinning'
<1>1. req'[r] = IdleReq /\ req \in [Tasks -> ReqRecord] /\ None \in Known
  BY Facts DEF Moves
<1>2. ShapeOf(r)'
  BY <1>1, IdleReqFacts DEF ShapeOf
<1>3. Rest' /\ OthersStay(r)
  BY <1>1, <1>2, IdleReqFacts, MoveKeeps
<1>4. Spinning'
  BY <1>1, <1>3, SpinnerEnds DEF Spinning
<1>5. QED
  BY <1>3, <1>4

\* The tab of a request that owns a spinner, and no other, has it.
LEMMA SpinsOnlyIn ==
    ASSUME SignInInv, NEW r \in Tasks, req[r].kind # "idle"
    PROVE  /\ req[r].tab \in Tabs
           /\ \A x \in Tabs : Spins(r, x) <=> x = req[r].tab /\ req[r].kind # "api"
  BY Facts DEF ShapeOf, Spins

LEMMA SendKeeps ==
    ASSUME SignInInv, NEW r \in Tasks, NEW x \in Tabs, NEW kind \in {"init", "api", "logout"},
           NEW pc \in {"sent", "refresh"}, NEW n \in Known \cap Token,
           req[r] = IdleReq, task[r] = IdleTask, UNCHANGED <<task, store, loggedOut, made>>,
           Send(r, x, kind, pc, n), pc = "sent" => kind # "init",
           tab' \in [Tabs -> TabRecord], \A y \in Tabs : tab'[y].accessToken \in Known,
           \A y \in Tabs \ {x} : tab'[y].isLoading = tab[y].isLoading,
           IF kind = "api" THEN tab'[x].isLoading = tab[x].isLoading
           ELSE tab'[x].isLoading = TRUE /\ \A q \in Tasks : ~Spins(q, x)
    PROVE  Rest' /\ Spinning'
<1> DEFINE new == [IdleReq EXCEPT !.kind = kind, !.tab = x, !.pc = pc, !.token = n]
<1>1. /\ new \in ReqRecord /\ new.kind = kind /\ new.tab = x /\ new.pc = pc /\ new.token = n
  BY TokenFacts DEF IdleReq, ReqRecord
<1>2. req' = [req EXCEPT ![r] = new]
  BY DEF Send
<1> HIDE DEF new
<1>3. task'[r].pc = "idle" /\ req \in [Tasks -> ReqRecord]
  BY IdleTyped, Facts
<1>4. req'[r] = new
  BY <1>2, <1>3
<1>5. Moves(r, new)
  BY <1>2, <1>3 DEF Moves
<1>6. ShapeOf(r)'
  BY <1>1, <1>3, <1>4 DEF ShapeOf
<1>7. Rest' /\ OthersStay(r)
  BY <1>1, <1>5, <1>6, MoveKeeps
<1>8. req'[r].tab = x /\ req'[r].kind = kind
  BY <1>1, <1>4
<1>9. Spinning'
  BY <1>7, <1>8, SpinnerBegins DEF Spinning
<1>10. QED
  BY <1>7, <1>9

\* A tab without a spinner has no request that owns it.
LEMMA NoSpinner ==
    ASSUME SignInInv, NEW x \in Tabs, ~tab[x].isLoading
    PROVE  \A q \in Tasks : ~Spins(q, x)
  BY DEF SignInInv, SpinnerHasRequest, Spins

LEMMA OpenKeeps ==
    ASSUME SignInInv, NEW x \in Tabs, NEW r \in Tasks, Open(x, r)
    PROVE  Rest' /\ Spinning'
<1>1. /\ req[r] = IdleReq /\ task[r] = IdleTask /\ \A q \in Tasks : req[q].tab # x
      /\ UNCHANGED <<task, store, loggedOut, made>>
  BY DEF Open, Idle, accounts, sessions
<1>2. \A q \in Tasks : ~Spins(q, x)
  BY <1>1 DEF Spins
<1>3. tab[x].isLoading = FALSE
  BY <1>2, Facts DEF SignInInv, SpinnerHasRequest, Spins
<1> DEFINE new == [NewTab EXCEPT !.open = TRUE, !.isLoading = store.refreshToken # None]
<1>4. new \in TabRecord /\ new.accessToken = None /\ new.isLoading = (store.refreshToken # None)
  BY TokenFacts DEF NewTab, TabRecord
<1>5. tab' = [tab EXCEPT ![x] = new]
  BY DEF Open, Load
<1> HIDE DEF new
<1>6. /\ tab' \in [Tabs -> TabRecord] /\ tab'[x] = new /\ \A y \in Tabs \ {x} : tab'[y] = tab[y]
  BY <1>4, <1>5, Facts
<1>7. /\ \A y \in Tabs : tab'[y].accessToken \in Known
      /\ \A y \in Tabs \ {x} : tab'[y].isLoading = tab[y].isLoading
      /\ tab'[x].isLoading = (store.refreshToken # None)
  BY <1>4, <1>6, Facts
<1>8. CASE store.refreshToken = None
  <2>1. req' = req /\ req \in [Tasks -> ReqRecord]
    BY <1>8, Facts DEF Open, Load
  <2>2. req' = [req EXCEPT ![r] = IdleReq]
    BY <1>1, <2>1
  <2>3. Moves(r, IdleReq) /\ task'[r].pc = "idle"
    BY <1>1, <1>6, <1>7, <2>2, IdleTyped DEF Moves
  <2>4. \A y \in Tabs : ~Spins(r, y) /\ tab'[y].isLoading = tab[y].isLoading
    BY <1>1, <1>3, <1>7, <1>8, IdleReqFacts, NoneNoTab DEF Spins
  <2>5. QED
    BY <2>3, <2>4, Closes
<1>9. CASE store.refreshToken # None
  <2>1. Send(r, x, "init", "refresh", store.refreshToken)
    BY <1>9 DEF Open, Load
  <2>2. tab'[x].isLoading = TRUE /\ store.refreshToken \in Known \cap Token
    BY <1>7, <1>9, Facts
  <2>3. QED
    BY <1>1, <1>2, <1>6, <1>7, <2>1, <2>2, SendKeeps
<1>10. QED
  BY <1>8, <1>9

LEMMA AccessTokenKnown ==
    ASSUME SignInInv, NEW x \in Tabs
    PROVE  GetAccessToken(x) \in Known \cap Token
  BY Facts DEF GetAccessToken

LEMMA CallApiKeeps ==
    ASSUME SignInInv, NEW x \in Tabs, NEW r \in Tasks, CallApi(x, r)
    PROVE  Rest' /\ Spinning'
<1>1. /\ req[r] = IdleReq /\ task[r] = IdleTask /\ UNCHANGED <<task, store, loggedOut, made, tab>>
      /\ Send(r, x, "api", "sent", GetAccessToken(x))
  BY DEF CallApi, Idle, accounts, sessions, browser
<1>2. QED
  BY <1>1, AccessTokenKnown, Facts, SendKeeps

LEMMA LogoutKeeps ==
    ASSUME SignInInv, NEW x \in Tabs, NEW r \in Tasks, Logout(x, r)
    PROVE  Rest' /\ Spinning'
<1>1. /\ req[r] = IdleReq /\ task[r] = IdleTask /\ UNCHANGED <<task, store, loggedOut, made>>
      /\ Send(r, x, "logout", "sent", GetAccessToken(x)) /\ ~tab[x].isLoading
      /\ tab' = [tab EXCEPT ![x].isLoading = TRUE]
  BY DEF Logout, Idle, accounts, sessions, Protected
<1>2. /\ tab' \in [Tabs -> TabRecord] /\ \A y \in Tabs \ {x} : tab'[y] = tab[y]
      /\ tab'[x].isLoading = TRUE /\ tab'[x].accessToken = tab[x].accessToken
  BY <1>1, Facts DEF TabRecord
<1>3. /\ \A y \in Tabs : tab'[y].accessToken \in Known
      /\ \A y \in Tabs \ {x} : tab'[y].isLoading = tab[y].isLoading
  BY <1>2, Facts
<1>4. \A q \in Tasks : ~Spins(q, x)
  BY <1>1, NoSpinner
<1>5. QED
  BY <1>1, <1>2, <1>3, <1>4, AccessTokenKnown, SendKeeps

LEMMA ServeKeeps ==
    ASSUME SignInInv, NEW r \in Tasks, Serve(r)
    PROVE  Rest' /\ Spinning'
<1> DEFINE ok == req[r].token \in live \ lapsed
           new == [req[r] EXCEPT !.pc = "answered", !.ok = ok]
<1>1. /\ req[r].pc = "sent" /\ UNCHANGED <<task, tab, store, loggedOut, made>>
      /\ req' = [req EXCEPT ![r] = new]
  BY Facts DEF Serve, accounts, browser
<1>2. ok \in BOOLEAN /\ req[r] \in ReqRecord
  BY Facts
<1> HIDE DEF ok
<1>3. /\ new \in ReqRecord /\ new.kind = req[r].kind /\ new.tab = req[r].tab /\ new.pc = "answered"
      /\ new.token = req[r].token
  BY <1>2 DEF ReqRecord
<1> HIDE DEF new
<1>4. Moves(r, new) /\ req[r].token \in Known
  BY <1>1, Facts, NoHandler DEF Moves
<1>5. req[r].kind \in {"api", "logout"}
  BY <1>1, Facts DEF ShapeOf
<1>6. QED
  BY <1>1, <1>3, <1>4, <1>5, GoesOn

LEMMA RefreshedKeeps ==
    ASSUME SignInInv, NEW r \in Tasks, req[r].pc = "refresh", NEW ok \in BOOLEAN,
           req' = [req EXCEPT ![r].pc = "refreshed", ![r].ok = ok],
           UNCHANGED <<task, tab, store, loggedOut, made>>
    PROVE  Rest' /\ Spinning'
<1> DEFINE new == [req[r] EXCEPT !.pc = "refreshed", !.ok = ok]
<1>1. req' = [req EXCEPT ![r] = new]
  BY Facts
<1>2. /\ new \in ReqRecord /\ new.kind = req[r].kind /\ new.tab = req[r].tab /\ new.pc = "refreshed"
      /\ new.token = req[r].token
  BY Facts DEF ReqRecord
<1> HIDE DEF new
<1>3. Moves(r, new) /\ req[r].token \in Known
  BY <1>1, Facts, NoHandler DEF Moves
<1>4. QED
  BY <1>2, <1>3, GoesOn

LEMMA RotateKeeps ==
    ASSUME SignInInv, NEW r \in Tasks, Rotate(r) \/ RefreshFails(r)
    PROVE  Rest' /\ Spinning'
<1> DEFINE ok == req[r].token \in live \ rotated
<1>1. /\ req[r].pc = "refresh" /\ UNCHANGED <<task, tab, store, loggedOut, made>>
      /\ \/ req' = [req EXCEPT ![r].pc = "refreshed", ![r].ok = ok]
         \/ req' = [req EXCEPT ![r].pc = "refreshed", ![r].ok = FALSE]
  BY DEF Rotate, RefreshFails, accounts, browser, sessions
<1>2. ok \in BOOLEAN
  OBVIOUS
<1> HIDE DEF ok
<1>3. QED
  BY <1>1, <1>2, RefreshedKeeps

\* The two ends of a logout or of an API call.
LEMMA FinishLogoutMoves ==
    ASSUME SignInInv, NEW r \in Tasks, req[r].kind = "logout",
           req[r].pc \notin {"idle", "handler"}, UNCHANGED <<task, made>>,
           FinishLogout(req[r].tab, req[r].token), Close(r)
    PROVE  Rest' /\ Spinning'
<1> DEFINE x == req[r].tab
<1>1. x \in Tabs /\ \A y \in Tabs : Spins(r, y) <=> y = x
  BY SpinsOnlyIn
<1>2. tab' = [tab EXCEPT ![x].accessToken = None, ![x].isAuthenticated = FALSE, ![x].isLoading = FALSE]
  BY DEF FinishLogout
<1> HIDE DEF x
<1>3. /\ tab' \in [Tabs -> TabRecord] /\ \A y \in Tabs \ {x} : tab'[y] = tab[y]
      /\ tab'[x].isLoading = FALSE /\ tab'[x].accessToken = None
  BY <1>1, <1>2, Facts, TokenFacts DEF TabRecord
<1>4. loggedOut' \subseteq (Known \cap Sids) \cup loggedOut /\ store' = NoTokens
  <2>1. req[r].token \in Known /\ req[r].token \in Sids \cup {None}
    BY Facts, NoHandler DEF Token
  <2>2. QED
    BY <2>1 DEF FinishLogout
<1>5. Moves(r, IdleReq) /\ task'[r].pc = "idle"
  BY <1>3, <1>4, Facts, NoHandler DEF Moves, Close
<1>6. \A y \in Tabs : IF Spins(r, y) THEN ~tab'[y].isLoading ELSE tab'[y].isLoading = tab[y].isLoading
  BY <1>1, <1>3
<1>7. QED
  BY <1>5, <1>6, Closes

LEMMA ReturnKeeps ==
    ASSUME SignInInv, NEW r \in Tasks, req[r].pc \in {"sent", "answered", "retry"},
           UNCHANGED <<task, made>>, Return(r)
    PROVE  Rest' /\ Spinning'
<1>1. req[r].kind \in {"api", "logout"}
  BY Facts DEF ShapeOf
<1>2. CASE req[r].kind = "logout"
  BY <1>2, FinishLogoutMoves DEF Return
<1>3. CASE req[r].kind = "api"
  <2>1. UNCHANGED <<tab, store, loggedOut>> /\ req' = [req EXCEPT ![r] = IdleReq]
    BY <1>3 DEF Return, browser, Close
  <2>2. Moves(r, IdleReq) /\ task'[r].pc = "idle"
    BY <2>1, Facts, NoHandler DEF Moves
  <2>3. \A y \in Tabs : ~Spins(r, y)
    BY <1>3 DEF Spins
  <2>4. QED
    BY <2>1, <2>2, <2>3, Closes
<1>4. QED
  BY <1>1, <1>2, <1>3

LEMMA UnauthorizedKeeps ==
    ASSUME SignInInv, NEW r \in Tasks, req[r].pc \in {"answered", "refreshed"},
           req[r].kind \in {"api", "logout"},
           UNCHANGED <<task, made>>, NEW removed \in BOOLEAN, Unauthorized(r, removed)
    PROVE  Rest' /\ Spinning'
<1>1. CASE req[r].kind = "logout"
  BY <1>1, FinishLogoutMoves DEF Unauthorized
<1>2. CASE req[r].kind = "api"
  <2> DEFINE x == req[r].tab
             n == IF removed THEN None ELSE tab[x].accessToken
  <2>1. x \in Tabs /\ n \in Token /\ n \in Known
    BY <1>2, SpinsOnlyIn, Facts, TokenFacts
  <2>2. /\ tab' = [tab EXCEPT ![x].isAuthenticated = FALSE, ![x].accessToken = n]
        /\ store' = IF removed THEN NoTokens ELSE store
        /\ loggedOut' = loggedOut /\ req' = [req EXCEPT ![r] = IdleReq]
    BY <1>2, <2>1, Facts DEF Unauthorized, Close
  <2> HIDE DEF x, n
  <2>3. /\ tab' \in [Tabs -> TabRecord] /\ \A y \in Tabs \ {x} : tab'[y] = tab[y]
        /\ tab'[x].isLoading = tab[x].isLoading /\ tab'[x].accessToken = n
    BY <2>1, <2>2, Facts DEF TabRecord
  <2>4. \A y \in Tabs : tab'[y].accessToken \in Known /\ tab'[y].isLoading = tab[y].isLoading
    BY <2>1, <2>3, Facts
  <2>5. Moves(r, IdleReq) /\ task'[r].pc = "idle"
    BY <2>2, <2>3, <2>4, NoHandler DEF Moves
  <2>6. \A y \in Tabs : ~Spins(r, y)
    BY <1>2 DEF Spins
  <2>7. QED
    BY <2>4, <2>5, <2>6, Closes
<1>3. QED
  BY <1>1, <1>2

LEMMA FetchReturnsKeeps ==
    ASSUME SignInInv, NEW r \in Tasks, FetchReturns(r)
    PROVE  Rest' /\ Spinning'
<1>1. req[r].pc = "answered" /\ UNCHANGED <<task, made>>
  BY DEF FetchReturns, accounts, sessions
<1>2. req[r].kind \in {"api", "logout"}
  BY <1>1, Facts DEF ShapeOf
<1>3. CASE Return(r)
  BY <1>1, <1>3, ReturnKeeps
<1>4. CASE Unauthorized(r, FALSE)
  BY <1>1, <1>2, <1>4, UnauthorizedKeeps
<1>5. CASE /\ req' = [req EXCEPT ![r].pc = "refresh", ![r].token = store.refreshToken]
           /\ UNCHANGED <<browser, loggedOut>>
  <2> DEFINE new == [req[r] EXCEPT !.pc = "refresh", !.token = store.refreshToken]
  <2>1. req' = [req EXCEPT ![r] = new] /\ UNCHANGED <<tab, store, loggedOut>>
    BY <1>5, Facts DEF browser
  <2>2. /\ new \in ReqRecord /\ new.kind = req[r].kind /\ new.tab = req[r].tab /\ new.pc = "refresh"
        /\ new.token = store.refreshToken
    BY Facts DEF ReqRecord
  <2> HIDE DEF new
  <2>3. Moves(r, new) /\ store.refreshToken \in Known
    BY <1>1, <2>1, Facts, NoHandler DEF Moves
  <2>4. QED
    BY <1>1, <2>1, <2>2, <2>3, GoesOn
<1>6. QED
  BY <1>3, <1>4, <1>5 DEF FetchReturns

LEMMA FetchFailsKeeps ==
    ASSUME SignInInv, NEW r \in Tasks, FetchFails(r) \/ RetryRefused(r)
    PROVE  Rest' /\ Spinning'
  BY ReturnKeeps DEF FetchFails, RetryRefused, accounts, sessions

LEMMA InitRefreshedKeeps ==
    ASSUME SignInInv, NEW r \in Tasks, InitRefreshed(r)
    PROVE  Rest' /\ Spinning'
<1> DEFINE x == req[r].tab
<1>1. /\ req[r].pc = "refreshed" /\ req[r].kind = "init" /\ UNCHANGED <<task, made, loggedOut>>
      /\ store' = NoTokens /\ req' = [req EXCEPT ![r] = IdleReq]
      /\ tab' = [tab EXCEPT ![x].accessToken = None, ![x].isAuthenticated = req[r].ok,
                            ![x].isLoading = FALSE]
  BY DEF InitRefreshed, StoreTokens, Close, accounts, sessions
<1>2. x \in Tabs /\ (\A y \in Tabs : Spins(r, y) <=> y = x) /\ req[r].ok \in BOOLEAN
  BY <1>1, SpinsOnlyIn, Facts DEF ReqRecord
<1> HIDE DEF x
<1>3. /\ tab' \in [Tabs -> TabRecord] /\ \A y \in Tabs \ {x} : tab'[y] = tab[y]
      /\ tab'[x].isLoading = FALSE /\ tab'[x].accessToken = None
  <2>1. PICK w : w = [tab[x] EXCEPT !.accessToken = None, !.isAuthenticated = req[r].ok,
                                    !.isLoading = FALSE]
    OBVIOUS
  <2>2. tab \in [Tabs -> TabRecord] /\ tab[x] \in TabRecord
    BY <1>2, Facts
  <2>3. w \in TabRecord /\ w.isLoading = FALSE /\ w.accessToken = None
    BY <1>2, <2>1, <2>2, TokenFacts DEF TabRecord
  <2>4. tab' = [tab EXCEPT ![x] = w]
    BY <1>1, <1>2, <2>1, <2>2
  <2>5. QED
    BY <1>2, <2>2, <2>3, <2>4
<1>4. Moves(r, IdleReq) /\ task'[r].pc = "idle"
  BY <1>1, <1>3, Facts, NoHandler DEF Moves
<1>5. \A y \in Tabs : IF Spins(r, y) THEN ~tab'[y].isLoading ELSE tab'[y].isLoading = tab[y].isLoading
  BY <1>2, <1>3
<1>6. QED
  BY <1>4, <1>5, Closes

LEMMA CallRefreshedKeeps ==
    ASSUME SignInInv, NEW r \in Tasks, CallRefreshed(r)
    PROVE  Rest' /\ Spinning'
<1>1. req[r].pc = "refreshed" /\ UNCHANGED <<task, made>>
  BY DEF CallRefreshed, accounts, sessions
<1>2. req[r].kind \in {"api", "logout"}
  BY <1>1, Facts, IdleReqFacts DEF CallRefreshed, ShapeOf, ReqRecord
<1>3. CASE req[r].ok
  <2> DEFINE x == req[r].tab
             new == [req[r] EXCEPT !.pc = "retry"]
  <2>1. /\ req' = [req EXCEPT ![r] = new] /\ store' = NoTokens /\ loggedOut' = loggedOut
        /\ tab' = [tab EXCEPT ![x].accessToken = None]
    BY <1>3, Facts DEF CallRefreshed, Forget, StoreTokens
  <2>2. /\ new \in ReqRecord /\ new.kind = req[r].kind /\ new.tab = req[r].tab /\ new.pc = "retry"
        /\ new.token = req[r].token
    BY Facts DEF ReqRecord
  <2>3. x \in Tabs
    BY <1>2, SpinsOnlyIn
  <2> HIDE DEF x, new
  <2>4. /\ tab' \in [Tabs -> TabRecord] /\ \A y \in Tabs \ {x} : tab'[y] = tab[y]
        /\ tab'[x].isLoading = tab[x].isLoading /\ tab'[x].accessToken = None
    BY <2>1, <2>3, Facts, TokenFacts DEF TabRecord
  <2>5. \A y \in Tabs : tab'[y].accessToken \in Known /\ tab'[y].isLoading = tab[y].isLoading
    BY <2>3, <2>4, Facts
  <2>6. Moves(r, new) /\ req[r].token \in Known
    BY <1>1, <2>1, <2>4, <2>5, NoHandler DEF Moves
  <2>7. QED
    BY <1>1, <1>2, <2>2, <2>5, <2>6, GoesOn
<1>4. CASE ~req[r].ok
  BY <1>1, <1>2, <1>4, UnauthorizedKeeps DEF CallRefreshed
<1>5. QED
  BY <1>3, <1>4

----------------------------------------------------------------------------
(* The forms.                                                              *)

LEMMA HandlerMoves ==
    ASSUME SignInInv, NEW r \in Tasks, req[r].pc = "handler",
           NEW new \in ReqRecord, Moves(r, new), task'[r].pc # "idle",
           new.kind \in {"login", "register"}, new.tab = req[r].tab, new.pc = "handler",
           new.email = req[r].email, new.password = req[r].password, new.token \in Known,
           UNCHANGED tab
    PROVE  Rest' /\ Spinning'
<1>1. req[r] \in ReqRecord /\ req \in [Tasks -> ReqRecord] /\ ShapeOf(r)
  BY Facts
<1>2. req'[r] = new /\ req[r].kind \in {"login", "register"}
  BY <1>1 DEF Moves, ShapeOf
<1>3. ShapeOf(r)'
  BY <1>1, <1>2 DEF ShapeOf
<1>4. Rest' /\ OthersStay(r)
  BY <1>3, MoveKeeps
<1>5. Spinning'
  BY <1>2, <1>4, SpinnerGoesOn DEF Spinning
<1>6. QED
  BY <1>4, <1>5

LEMMA FormKeeps ==
    ASSUME SignInInv, NEW x \in Tabs, NEW r \in Tasks, NEW kind \in {"login", "register"},
           NEW e \in Emails, NEW p \in Passwords, Form(x, r, kind, e, p),
           \A q \in Tasks \ {r} : task'[q] = task[q], task'[r].pc \notin {"idle", "granted"}
    PROVE  Rest' /\ Spinning'
<1> DEFINE new == [IdleReq EXCEPT !.kind = kind, !.tab = x, !.pc = "handler",
                                  !.email = e, !.password = p]
<1>1. /\ req[r] = IdleReq /\ ~tab[x].isLoading /\ UNCHANGED <<store, made, loggedOut>>
      /\ tab' = [tab EXCEPT ![x].isLoading = TRUE] /\ req' = [req EXCEPT ![r] = new]
  BY DEF Form, Idle, sessions
<1>2. /\ new \in ReqRecord /\ new.kind = kind /\ new.tab = x /\ new.pc = "handler"
      /\ new.email = e /\ new.password = p /\ new.token = None
  BY TokenFacts DEF IdleReq, ReqRecord
<1> HIDE DEF new
<1>3. /\ tab' \in [Tabs -> TabRecord] /\ \A y \in Tabs \ {x} : tab'[y] = tab[y]
      /\ tab'[x].isLoading = TRUE /\ tab'[x].accessToken = tab[x].accessToken
  BY <1>1, Facts DEF TabRecord
<1>4. Moves(r, new) /\ None \in Known /\ req'[r] = new
  BY <1>1, <1>3, Facts DEF Moves
<1>5. ShapeOf(r)'
  BY <1>2, <1>4 DEF ShapeOf
<1>6. Rest' /\ OthersStay(r)
  BY <1>2, <1>4, <1>5, MoveKeeps
<1>7. \A q \in Tasks : ~Spins(q, x)
  BY <1>1, NoSpinner
<1>8. req'[r].tab = x /\ req'[r].kind = kind
  BY <1>2, <1>4
<1>9. Spinning'
  BY <1>1, <1>3, <1>6, <1>7, <1>8, SpinnerBegins DEF Spinning
<1>10. QED
  BY <1>6, <1>9

LEMMA SubmitKeeps ==
    ASSUME SignInInv, NEW x \in Tabs, NEW r \in Tasks, NEW e \in Emails, NEW p \in Passwords,
           SubmitLogin(x, r, e, p) \/ SubmitRegister(x, r, e, p)
    PROVE  Rest' /\ Spinning'
<1>1. AccountsTypeOK /\ users[e] \in Row \cup {None}
  BY Facts DEF AccountsTypeOK
<1>2. (\A q \in Tasks \ {r} : task'[q] = task[q]) /\ task'[r].pc \notin {"idle", "granted"}
  <2>1. CASE Begin(r, "verify", e, p, users[e])
    BY <1>1, <2>1, BeginTyped
  <2>2. CASE Begin(r, "create", e, p, None)
    BY <1>1, <2>2, BeginTyped
  <2>3. CASE Answer(r, "refused") \/ Answer(r, "registered")
    BY <1>1, <2>3, AnswerTyped
  <2>4. QED
    BY <2>1, <2>2, <2>3 DEF SubmitLogin, SubmitRegister, Login, Register
<1>3. QED
  BY <1>2, FormKeeps DEF SubmitLogin, SubmitRegister

LEMMA HandleKeeps ==
    ASSUME SignInInv, NEW r \in Tasks, Handle(r), UNCHANGED <<browser, req, sessions, loggedOut>>
    PROVE  Rest' /\ Spinning'
<1>1. AccountsTypeOK /\ task[r].pc \in {"create", "verify", "count", "reset", "issue"}
  BY Facts DEF Handle, Create, Verify, Count, Reset, DbFails
<1> DEFINE Went == (\A q \in Tasks \ {r} : task'[q] = task[q]) /\ task'[r].pc \notin {"idle", "granted"}
<1>2. Went
  <2>1. ASSUME NEW pc \in {"registered", "refused", "failed"}, Answer(r, pc) PROVE Went
    BY <1>1, <2>1, AnswerTyped
  <2>2. ASSUME NEW pc \in {"count", "reset", "issue"}, Goto(r, pc) PROVE Went
    BY <1>1, <2>2, GotoTyped
  <2> HIDE DEF Went
  <2>3. CASE Verify(r)
    BY <2>1, <2>2, <2>3 DEF Verify
  <2>4. QED
    BY <2>1, <2>2, <2>3 DEF Handle, Create, Count, Reset, DbFails
<1>3. /\ req[r].pc = "handler" /\ r \notin Granted /\ req[r].token \in Known
      /\ req[r].kind \in {"login", "register"} /\ req[r] \in ReqRecord
  BY <1>1, Facts DEF ShapeOf, Granted, Known
<1>4. Moves(r, req[r])
  BY <1>2, Facts DEF Moves, browser, sessions
<1>5. QED
  BY <1>2, <1>3, <1>4, HandlerMoves DEF browser

LEMMA ThenLoginKeeps ==
    ASSUME SignInInv, NEW r \in Tasks, ThenLogin(r)
    PROVE  Rest' /\ Spinning'
<1> DEFINE new == [req[r] EXCEPT !.kind = "login"]
<1>1. /\ task[r].pc = "registered" /\ UNCHANGED <<tab, store, loggedOut, made>>
      /\ req' = [req EXCEPT ![r] = new]
  BY Facts DEF ThenLogin, LoginAgain, browser, sessions
<1>2. /\ req[r].pc = "handler" /\ req[r].email \in Emails /\ req[r].password \in Passwords
      /\ r \notin Granted /\ req[r].token \in Known /\ req[r] \in ReqRecord
  BY <1>1, Facts DEF ShapeOf, Granted, Known
<1>3. /\ new \in ReqRecord /\ new.kind = "login" /\ new.tab = req[r].tab /\ new.pc = "handler"
      /\ new.email = req[r].email /\ new.password = req[r].password /\ new.token = req[r].token
  BY <1>2 DEF ReqRecord
<1> HIDE DEF new
<1>4. AccountsTypeOK /\ users[req[r].email] \in Row \cup {None}
  BY <1>2, Facts DEF AccountsTypeOK
<1>5. (\A q \in Tasks \ {r} : task'[q] = task[q]) /\ task'[r].pc \notin {"idle", "granted"}
  BY <1>2, <1>4, BeginTyped DEF ThenLogin, LoginAgain
<1>6. Moves(r, new)
  BY <1>1, <1>5, Facts DEF Moves
<1>7. QED
  BY <1>1, <1>2, <1>3, <1>5, <1>6, HandlerMoves

\* A request that has its answer, and what Reply does.
LEMMA ReplyFacts ==
    ASSUME SignInInv, NEW r \in Tasks, Reply(r)
    PROVE  /\ req[r].pc = "handler" /\ req[r].kind \in {"login", "register"}
           /\ req[r].tab \in Tabs /\ \A y \in Tabs : Spins(r, y) <=> y = req[r].tab
           /\ task'[r].pc = "idle" /\ \A q \in Tasks \ {r} : task'[q] = task[q]
<1>1. task \in [Tasks -> Handler] /\ task' = [task EXCEPT ![r] = IdleTask] /\ task[r].pc # "idle"
  BY Facts, TypeOKByHandler DEF Reply, Answered
<1>2. req[r].pc = "handler" /\ req[r].kind \in {"login", "register"}
  BY <1>1, Facts DEF ShapeOf
<1>3. QED
  BY <1>1, <1>2, IdleTyped, SpinsOnlyIn

LEMMA FormFailsKeeps ==
    ASSUME SignInInv, NEW r \in Tasks, FormFails(r)
    PROVE  Rest' /\ Spinning'
<1> DEFINE x == req[r].tab
<1>1. /\ Reply(r) /\ tab' = [tab EXCEPT ![x].isLoading = FALSE]
      /\ req' = [req EXCEPT ![r] = IdleReq] /\ UNCHANGED <<store, made, loggedOut>>
  BY DEF FormFails, Close, sessions
<1>2. /\ x \in Tabs /\ \A y \in Tabs : Spins(r, y) <=> y = x
      /\ task'[r].pc = "idle" /\ \A q \in Tasks \ {r} : task'[q] = task[q]
  BY <1>1, ReplyFacts
<1> HIDE DEF x
<1>3. /\ tab' \in [Tabs -> TabRecord] /\ \A y \in Tabs \ {x} : tab'[y] = tab[y]
      /\ tab'[x].isLoading = FALSE /\ tab'[x].accessToken = tab[x].accessToken
  BY <1>1, <1>2, Facts DEF TabRecord
<1>4. Moves(r, IdleReq)
  BY <1>1, <1>2, <1>3, Facts DEF Moves
<1>5. \A y \in Tabs : IF Spins(r, y) THEN ~tab'[y].isLoading ELSE tab'[y].isLoading = tab[y].isLoading
  BY <1>2, <1>3
<1>6. QED
  BY <1>2, <1>4, <1>5, Closes

\* The reply to a login brings the one token that was not known.
LEMMA LoginGrantedKeeps ==
    ASSUME SignInInv, NEW r \in Tasks, LoginGranted(r)
    PROVE  Rest' /\ Spinning'
<1> DEFINE x == req[r].tab
           n == req[r].token
<1>1. /\ r \in Granted /\ Reply(r) /\ store' = [accessToken |-> n, refreshToken |-> n]
      /\ tab' = [tab EXCEPT ![x].accessToken = n, ![x].isAuthenticated = TRUE, ![x].isLoading = FALSE]
      /\ req' = [req EXCEPT ![r] = IdleReq] /\ UNCHANGED <<made, loggedOut>>
  BY DEF LoginGranted, Granted, Close, sessions
<1>2. /\ x \in Tabs /\ \A y \in Tabs : Spins(r, y) <=> y = x
      /\ task'[r].pc = "idle" /\ \A q \in Tasks \ {r} : task'[q] = task[q]
  BY <1>1, ReplyFacts
<1>3. n \in 1 .. made /\ n \notin Known /\ n \in Token
  BY <1>1, Facts DEF SignInInv, FreshGrants
<1>4. \A q \in Granted \ {r} : req[q].token # n
  BY <1>1 DEF SignInInv, FreshGrants
<1> HIDE DEF x, n
<1>5. /\ tab' \in [Tabs -> TabRecord] /\ \A y \in Tabs \ {x} : tab'[y] = tab[y]
      /\ tab'[x].isLoading = FALSE /\ tab'[x].accessToken = n
  BY <1>1, <1>2, <1>3, Facts DEF TabRecord
<1>6. store' \in StoreRecord /\ store'.accessToken = n /\ store'.refreshToken = n
  BY <1>1, <1>3 DEF StoreRecord
<1>7. req' \in [Tasks -> ReqRecord] /\ req'[r] = IdleReq /\ OthersStay(r)
  BY <1>1, Facts, IdleReqFacts DEF OthersStay
<1>8. Shape'
  BY <1>2, <1>7, Facts, IdleReqFacts DEF Shape, ShapeOf, OthersStay
<1>9. Granted' = Granted \ {r}
  BY <1>1, <1>2 DEF Granted
<1>10. \A q \in Tasks \ Granted' : req'[q].token \in Known
  BY <1>7, <1>9, Facts, IdleReqFacts DEF Known, OthersStay
<1>11. Known' \subseteq Known \cup {n}
  BY <1>1, <1>5, <1>6, <1>10, Facts DEF Known
<1>12. FreshGrants'
  <2>1. Known' \subseteq 1 .. made' \cup {None}
    BY <1>1, <1>3, <1>11 DEF SignInInv, FreshGrants
  <2>2. \A q \in Granted' : req'[q].token = req[q].token /\ q \in Granted /\ q # r
    BY <1>7, <1>9 DEF OthersStay, Granted
  <2>3. \A q \in Granted' : req'[q].token \in 1 .. made' /\ req'[q].token \notin Known'
    BY <1>1, <1>4, <1>11, <2>2 DEF SignInInv, FreshGrants
  <2>4. \A p, q \in Granted' : req'[p].token = req'[q].token => p = q
    BY <2>2 DEF SignInInv, FreshGrants
  <2>5. QED
    BY <2>1, <2>3, <2>4 DEF FreshGrants
<1>13. LogoutSticks'
  BY <1>1, <1>3, <1>6, Facts DEF LogoutSticks
<1>14. Rest'
  BY <1>1, <1>5, <1>6, <1>7, <1>8, <1>12, <1>13, Facts DEF Rest
<1>15. \A y \in Tabs : IF Spins(r, y) THEN ~tab'[y].isLoading ELSE tab'[y].isLoading = tab[y].isLoading
  BY <1>2, <1>5
<1>16. Spinning'
  BY <1>7, <1>15, SpinnerEnds DEF Spinning
<1>17. QED
  BY <1>14, <1>16

\* A session is created under a number that nothing has held.
LEMMA CreateSessionKeeps ==
    ASSUME SignInInv, NEW r \in Tasks, CreateSession(r)
    PROVE  Rest' /\ Spinning'
<1> DEFINE new == [req[r] EXCEPT !.token = made + 1]
<1>1. /\ made < MaxSessions /\ task[r].pc = "issue" /\ Answer(r, "granted") /\ made' = made + 1
      /\ UNCHANGED <<tab, store, loggedOut>>
  BY DEF CreateSession, Issue, browser
<1>2. made \in Nat /\ made + 1 \in Sids
  BY <1>1, Facts, SessionsNat DEF Sids
<1>3. req' = [req EXCEPT ![r] = new]
  BY Facts DEF CreateSession
<1>4. /\ new \in ReqRecord /\ new.kind = req[r].kind /\ new.tab = req[r].tab /\ new.pc = req[r].pc
      /\ new.email = req[r].email /\ new.password = req[r].password /\ new.token = made + 1
  BY <1>2, Facts DEF ReqRecord, Token
<1> HIDE DEF new
<1>5. req' \in [Tasks -> ReqRecord] /\ req'[r] = new /\ OthersStay(r)
  BY <1>3, <1>4, Facts DEF OthersStay
<1>6. task'[r].pc = "granted" /\ \A q \in Tasks \ {r} : task'[q] = task[q]
  BY <1>1, Facts, AnswerTyped
<1>7. /\ ShapeOf(r)' /\ \A q \in Tasks \ {r} : ShapeOf(q)'
  <2>1. req[r].pc = "handler" /\ ShapeOf(r) /\ req[r].kind \in {"login", "register"}
    BY <1>1, Facts DEF ShapeOf
  <2>2. ShapeOf(r)'
    BY <1>4, <1>5, <1>6, <2>1 DEF ShapeOf
  <2>3. \A q \in Tasks \ {r} : ShapeOf(q)'
    BY <1>5, <1>6, Facts DEF ShapeOf, OthersStay
  <2>4. QED
    BY <2>2, <2>3
<1>8. Granted' = Granted \cup {r} /\ r \notin Granted
  BY <1>1, <1>6 DEF Granted
<1>9. Known' \subseteq Known
  BY <1>1, <1>5, <1>8 DEF Known, OthersStay
<1>10. FreshGrants'
  <2>1. Known' \subseteq 1 .. made' \cup {None} /\ made + 1 \notin Known
    BY <1>1, <1>2, <1>9, SessionsNat DEF SignInInv, FreshGrants
  <2>2. ASSUME NEW q \in Granted'
        PROVE  /\ q # r => q \in Granted /\ req'[q].token = req[q].token /\ req[q].token \in 1 .. made
               /\ q = r => req'[q].token = made + 1
    BY <1>4, <1>5, <1>8 DEF OthersStay, SignInInv, FreshGrants, Granted
  <2>3. ASSUME NEW q \in Granted' PROVE req'[q].token \in 1 .. made' /\ req'[q].token \notin Known'
    BY <1>1, <1>2, <1>9, <2>1, <2>2 DEF SignInInv, FreshGrants
  <2>4. ASSUME NEW p \in Granted', NEW q \in Granted', req'[p].token = req'[q].token PROVE p = q
    BY <1>2, <2>2, <2>4 DEF SignInInv, FreshGrants
  <2>5. QED
    BY <2>1, <2>3, <2>4 DEF FreshGrants
<1>11. LogoutSticks'
  BY <1>1 DEF SignInInv, LogoutSticks
<1>12. Rest'
  BY <1>1, <1>2, <1>5, <1>7, <1>10, <1>11, Facts, SessionsNat DEF Rest, Shape, Sids
<1>13. Spinning'
  BY <1>1, <1>4, <1>5, SpinnerGoesOn DEF Spinning
<1>14. QED
  BY <1>12, <1>13

----------------------------------------------------------------------------
(* The specification.                                                      *)

\* Everything the requests do to accounts is what the handlers of Accounts do.
LEMMA AccountsStep ==
    ASSUME SignInInv, [SignInNext]_vars
    PROVE  [Next]_accounts
<1>1. ASSUME NEW r \in Tasks, Request(r) PROVE Next \/ UNCHANGED accounts
  <2>1. CASE ThenLogin(r)
    <3>1. task[r].pc = "registered" /\ LoginAgain(r, req[r].email, req[r].password)
      BY <2>1 DEF ThenLogin, LoginAgain
    <3>2. req[r].email \in Emails /\ req[r].password \in Passwords
      BY <3>1, Facts DEF ShapeOf
    <3>3. QED
      BY <3>1, <3>2 DEF Next
  <2>2. CASE CreateSession(r) \/ LoginGranted(r) \/ FormFails(r)
    BY <2>2 DEF CreateSession, LoginGranted, FormFails, Next
  <2>3. CASE Handle(r)
    BY <2>3 DEF Next
  <2>4. CASE \/ Serve(r) \/ FetchReturns(r) \/ FetchFails(r) \/ Rotate(r) \/ RefreshFails(r)
             \/ InitRefreshed(r) \/ CallRefreshed(r) \/ RetryRefused(r)
    BY <2>4 DEF Serve, FetchReturns, FetchFails, Rotate, RefreshFails, InitRefreshed,
                CallRefreshed, RetryRefused, accounts
  <2>5. QED
    BY <1>1, <2>1, <2>2, <2>3, <2>4 DEF Request
<1>2. ASSUME NEW x \in Tabs, NEW r \in Tasks, User(x, r) PROVE Next \/ UNCHANGED accounts
  BY <1>2 DEF User, Open, CallApi, Logout, SubmitLogin, SubmitRegister, Next, accounts
<1>3. ASSUME NEW n \in Sids, Lapse(n) PROVE UNCHANGED accounts
  BY <1>3 DEF Lapse, accounts
<1>4. CASE Tick
  BY <1>4 DEF Next
<1>5. CASE UNCHANGED vars
  BY <1>5 DEF vars, accounts
<1>6. QED
  BY <1>1, <1>2, <1>3, <1>4, <1>5 DEF SignInNext

LEMMA RequestKeeps ==
    ASSUME SignInInv, NEW r \in Tasks, Request(r)
    PROVE  Rest' /\ Spinning'
  BY ServeKeeps, FetchReturnsKeeps, FetchFailsKeeps, RotateKeeps, InitRefreshedKeeps,
     CallRefreshedKeeps, CreateSessionKeeps, LoginGrantedKeeps, FormFailsKeeps, ThenLoginKeeps,
     HandleKeeps DEF Request

LEMMA UserKeeps ==
    ASSUME SignInInv, NEW x \in Tabs, NEW r \in Tasks, User(x, r)
    PROVE  Rest' /\ Spinning'
  BY OpenKeeps, CallApiKeeps, LogoutKeeps, SubmitKeeps DEF User

\* Time leaves the browser and its requests alone.
LEMMA OtherKeeps ==
    ASSUME SignInInv, UNCHANGED <<task, tab, store, req, made, loggedOut>>
    PROVE  Rest' /\ Spinning'
<1>1. Known' = Known /\ Granted' = Granted
  BY DEF Known, Granted
<1>2. FreshGrants' /\ LogoutSticks' /\ Shape'
  BY <1>1 DEF SignInInv, FreshGrants, LogoutSticks, Shape, ShapeOf
<1>3. Rest'
  BY <1>2, Facts DEF Rest
<1>4. OneSpinner' /\ SpinnerHasRequest'
  BY DEF SignInInv, OneSpinner, Spins, SpinnerHasRequest
<1>5. QED
  BY <1>3, <1>4 DEF Spinning

LEMMA SessionsTyped ==
    ASSUME SignInInv, [SignInNext]_vars
    PROVE  live' \subseteq Sids /\ rotated' \subseteq Sids /\ lapsed' \subseteq Sids
<1>1. /\ live \subseteq Sids /\ rotated \subseteq Sids /\ lapsed \subseteq Sids
      /\ made \in Nat /\ \A n : n \in 1 .. MaxSessions <=> n \in Sids
  BY Facts, SessionsNat DEF SignInInv, TypeOK, Sids
<1>2. ASSUME NEW r \in Tasks, Request(r)
      PROVE  live' \subseteq Sids /\ rotated' \subseteq Sids /\ UNCHANGED lapsed
  <2>1. CASE CreateSession(r)
    BY <1>1, <2>1, SessionsNat DEF CreateSession
  <2>2. CASE Serve(r) \/ Rotate(r)
    BY <1>1, <2>2 DEF Serve, Rotate
  <2>3. CASE ~(CreateSession(r) \/ Serve(r) \/ Rotate(r))
    BY <1>1, <1>2, <2>3 DEF Request, FetchReturns, FetchFails, RefreshFails, InitRefreshed,
        CallRefreshed, RetryRefused, LoginGranted, FormFails, ThenLogin, sessions
  <2>4. QED
    BY <2>1, <2>2, <2>3
<1>3. ASSUME NEW x \in Tabs, NEW r \in Tasks, User(x, r) PROVE UNCHANGED <<live, rotated, lapsed>>
  BY <1>3 DEF User, Open, CallApi, Logout, SubmitLogin, SubmitRegister, Form, sessions
<1>4. ASSUME NEW n \in Sids, Lapse(n) PROVE lapsed' \subseteq Sids /\ UNCHANGED <<live, rotated>>
  BY <1>1, <1>4 DEF Lapse
<1>5. QED
  BY <1>1, <1>2, <1>3, <1>4 DEF SignInNext, vars, sessions

LEMMA StepSignIn == SignInInv /\ [SignInNext]_vars => SignInInv'
<1> SUFFICES ASSUME SignInInv, [SignInNext]_vars PROVE SignInInv'
  OBVIOUS
<1>1. AccountsInv'
  BY AccountsStep, StepLocals, StepLocks DEF SignInInv, AccountsInv
<1>2. Rest' /\ Spinning'
  <2>1. ASSUME NEW n \in Sids, Lapse(n) PROVE Rest' /\ Spinning'
    BY <2>1, OtherKeeps DEF Lapse, accounts, browser
  <2>2. CASE Tick /\ UNCHANGED <<browser, req, sessions, loggedOut>>
    BY <2>2, OtherKeeps DEF Tick, browser, sessions
  <2>3. CASE UNCHANGED vars
    BY <2>3, OtherKeeps DEF vars, accounts, browser, sessions
  <2>4. QED
    BY <2>1, <2>2, <2>3, RequestKeeps, UserKeeps DEF SignInNext
<1>3. TypeOK'
  <2>1. AccountsTypeOK'
    BY <1>1 DEF AccountsInv
  <2>2. /\ tab' \in [Tabs -> TabRecord] /\ store' \in StoreRecord /\ req' \in [Tasks -> ReqRecord]
        /\ made' \in 0 .. MaxSessions /\ loggedOut' \subseteq Sids
    BY <1>2 DEF Rest
  <2>3. QED
    BY <2>1, <2>2, SessionsTyped DEF TypeOK, TabRecord, StoreRecord, ReqRecord
<1>4. QED
  BY <1>1, <1>2, <1>3 DEF SignInInv, Rest, Spinning

LEMMA SignInInvariant == SignInSpec => []SignInInv
  BY InitSignIn, StepSignIn, PTL DEF SignInSpec

\* The browser's requests drive the handlers of register and login only as Accounts allows,
\* so every theorem about Accounts holds with the browser.
THEOREM SignInUsesAccounts == SignInSpec => Spec
<1>1. SignInInit => Init
  BY DEF SignInInit
<1>2. SignInInv /\ [SignInNext]_vars => [Next]_accounts
  BY AccountsStep
<1>3. QED
  BY <1>1, <1>2, SignInInvariant, PTL DEF SignInSpec, Spec

\* The tabs, the storage, the requests and the sessions keep their types.
THEOREM SignInTypeCorrect == SignInSpec => []TypeOK
<1>1. SignInInv => TypeOK
  BY DEF SignInInv
<1>2. QED
  BY <1>1, SignInInvariant, PTL

\* With any number of tabs and requests of theirs, isLoading is set exactly while a login, a
\* registration, a logout or the first refresh of the tab runs.
THEOREM SpinnersEnd == SignInSpec => []SpinnerHasRequest
<1>1. SignInInv => SpinnerHasRequest
  BY DEF SignInInv
<1>2. QED
  BY <1>1, SignInInvariant, PTL

\* No refresh or login under way brings a token of a session that was logged out back to
\* localStorage.
THEOREM LogoutIsFinal == SignInSpec => []LogoutSticks
<1>1. SignInInv => LogoutSticks
  BY DEF SignInInv
<1>2. QED
  BY <1>1, SignInInvariant, PTL
====
