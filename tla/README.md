# Nexus Comms: a TLA+ verification project

This project models the concurrent core of Nexus Comms: the backend (NestJS, Socket.IO,
Redis, PostgreSQL, mediasoup) with anonymous matchmaking, one-to-one call signalling, accounts,
the rotation of refresh tokens, contacts and the rooms of group calls, and the parts of the
frontend (React) that keep state across events: sign-in, the anonymous chat, the dashboard and the
call page. TLC checks the models on small instances; TLAPS proves theorems for instances of any
size.

## 1. The system

The backend is one Node process. Its handlers are async functions that run without
interruption between two `await`s and interleave freely at each of them. Everything hard in
this code comes from that: state read before an `await` and used after it, sequences of Redis
commands or SQL statements that are not one transaction, timers that fire in between, and
clients that disconnect at any moment. The frontend adds a second source: a React component
renders a state change and runs its effects later than the event that caused it, several tabs of
a browser share localStorage, and all pages of a tab share one socket object.

| Part | State | Operations | Interacts with |
|---|---|---|---|
| Signaling gateway (`src/src/gateway/signaling.gateway.ts`) | `sockets` (with `meta.callId`, `meta.roomId`), `userSockets`, `pendingCallTargets`, `missedCallTimers`, Socket.IO rooms | connect, disconnect, `call:*`, `match:*`, `sfu:*`, `contact:request-save`, `signal:*`, `media:toggle` | all services |
| Matchmaking (`matchmaking.service.ts`) | Redis list `matchmaking:queue`, hash `matchmaking:sockets` | `enqueue`, `tryMatch`, `dequeue`, `queueDepth` | called by the gateway; audit |
| Calls service and repository | `call_sessions`, `call_participants` | `initiateCall`, `acceptCall`, `endCall`, `toggleCallType`, `toggleMedia` | called by the gateway and its timers |
| Sessions, auth | `sessions`, `refresh_tokens`, `csrf_tokens` | login, refresh (`rotate`), logout, logoutAll | REST controllers, JWT strategy |
| Users | `users` with `failed_attempts`, `locked_until` | register, failed-attempt counting, lockout | auth service |
| Contacts | `contacts`, `contact_save_requests` | request, accept, reject, rename, remove | gateway, REST controller |
| SFU | mediasoup workers, routers, transports, producers, consumers per room | `sfu:*`, worker replacement | gateway |
| Audit, Redis client, common | append-only log; one connection | insert; commands in order | all |
| Frontend, sign-in (`api.ts`, `useAuth`, `ProtectedRoute`) | tokens in localStorage and in the module, `isAuthenticated`, `isLoading` | login, register, logout, refresh on load and on 401 | REST |
| Frontend, calls (`useWebRTC`, `useSignaling`, `useMediaDevices`, pages anonymous, dashboard, call) | the peer connection, `matchState`, `queuedRef`, `offerSentRef`, the shared socket | join, offer, answer, end, leave, page changes | `/signal` |
| Frontend, contacts (`useContacts`, `ContactSaveBanner`) | contact list, incoming request | request, accept, decline, edit | REST, `/signal` |
| Infrastructure | - | nginx, coturn, Terraform | not modelled |

What makes each part correct, and what is hard to test in it, is listed with line numbers in
`PROJECT.json` under `hazards`.

## 2. Modules

| Module | Models | State and actions against the code |
|---|---|---|
| `Matchmaking` | `MatchmakingService` and the gateway code around it | `queue` and `index` are the Redis list and hash. A task is a running handler; each action is one Redis command (or one wait for PostgreSQL) with the code up to the next `await`. `pipe` is the order of outstanding commands: `RedisService` has a single connection, so replies resume the handlers in the order the commands were issued. |
| `Calls` | the `call:*` handlers, the missed-call timer and `handleDisconnect` over `CallsService` | the gateway's maps under their own names; `status`, `answered`, `present` are the rows; each action is one SQL statement with the code up to the next `await`. `timer` distinguishes an armed timer from a callback that has fired, has read `initiated`, or was lost to a database error. |
| `Dial` | the dashboard and the call page over `Calls` | extends `Calls`: each action of the browser or the gateway is an action of `Calls` with what it does to the pages. A page has a socket of its own, `<<user, n>>`, because `useSignaling` disconnects the shared socket when a page unmounts; `shut` are sockets the browser has closed and the gateway not yet seen closing. |
| `Chat` | the anonymous page with `useSignaling`, `useMediaDevices`, `useWebRTC`, and the gateway's pairing, relay and ends | `page` is React state and refs, `rtc` what the hook holds (`pc` with its signalling state, the offers under way, the call and role its callbacks keep). `Render` is a render with its effects, a step of its own; `inbox` holds events sent and not yet handled, in order. Gateway handlers stop at their awaits. |
| `Accounts` | `AuthService.register`, `login`, `UsersService`, `UserRepository` | `users` is the table; a request holds the copy of the row that `findByEmail` gave it; each action is one statement or the end of argon2. |
| `SignIn` | `api.ts`, `useAuth`, `ProtectedRoute` in the tabs of one browser | extends `Accounts`, whose handlers serve the forms. `store` is localStorage, `tab` the React state and the module's `accessToken`; a request is followed through fetch, refresh and retry. A session is reduced to live, rotated and lapsed; the detail is in `Sessions`. |
| `Sessions` | the token half of `AuthService`, `SessionsService.rotateRefreshToken`, `RefreshTokenRepository.rotate` | `tokens` is the table `refresh_tokens` with its row locks; a transaction takes effect at its COMMIT, a statement sees what was committed when it started (READ COMMITTED), a deadlock aborts one of its members. |
| `Contacts` | `onRequestContactSave`, `ContactsService`, the banner, the dashboard and `useContacts` | `request` and `contacts` are the tables; `page` the two pages; a task is a handler together with the page's call that waits for it, if the page still does. |
| `ContactBook` | what the handshake promises | abstract: a request is unasked, open, agreed or closed, and an agreement becomes two entries in one step or is lost. `Contacts` implements it with `stage` computed from the row and the handlers at their INSERT, and `book` the pairs of the rows. |
| `Rooms` | `SfuService`, the `sfu:*` handlers and the room part of `handleDisconnect` | `rooms` is the service's map; `router` holds every room object ever made, because a handler keeps the object it looked up across its awaits even when the map has lost it. A transport is in its room's map until it is `removed`, and mediasoup's own closing (with a router or a worker) only makes it `closed`. |
| `MC*` | instances for TLC | constants and symmetry sets |
| `*Proofs` | theorems | see section 5 |

Definitions beginning with "Mutant of" are deliberately wrong variants of the definition they
name. No action uses them; each was substituted once to see that the property it is listed with in
`PROJECT.json` is violated by such a bug.

Abstractions. A queue entry is its socket and its time of entry; call type, names, payloads and
log texts are dropped. `Calls` is about registered users, who own the rows by user id; anonymous
pairs are in `Matchmaking`, where the call is only its status, and in `Chat`, where the call is its
room. In `Calls` the `dequeue` of `handleDisconnect` is a single wait. In `Chat` the Redis commands
of an operation are taken together and entries do not expire (`Matchmaking` has both); ICE
candidates are dropped, and `IceFails` may happen whenever the peer is gone or as a fault. In
`Sessions` a family is its session, because
`issueTokenSet` makes exactly one family per session, and the CSRF upsert is a wait: no step of
the system reads `csrf_tokens`, since `CsrfGuard` is applied to no route. `logout` is one step:
its guard and its update both only ever find or make the session revoked. In `Accounts` a password
is compared, not hashed, and weak passwords are a set. In `Contacts` an event is handled by the
page in the step that sends it, since a late event and a late handler are the same to every
variable; the audit entries, which cannot fail a handler, are waits only where something is sent
after them. In `Rooms` clients keep
to the documented order (join, then create a transport in the room joined, then use their own
transports); mediasoup is external and modelled by what `SfuService` relies on: requests to closed
objects are rejected, closing a router closes its transports, a producer can be consumed only on
its own router. History variables (`strays`, `overwritten`, `stranded`, the field `crossed` of
`rtc`, `failed`, `removed`, `agreed`, `loggedOut`) record the known leaks and the users' intents, so that
the invariants can say that there are no others.

## 3. Runs

| Run | Instance | Shows |
|---|---|---|
| `matchmaking` | 3 sockets (one may join twice), 2 handlers, entries expire after 1 tick | holds: types, `StrandedOnlyByPutBack`, `IndexPointsIntoQueue`, `MatchedAtMostAsJoined`, `FreshNeverDropped`, and, under fairness, `PairEventually` |
| `calls` | 2 users who both dial, 2 calls, 2 handlers, 2 requests | holds: types, `RingingHasTimer`, `TargetGuarded`, `CallIdInRoom` |
| `calls_tabs` | caller, callee with 2 tabs, 1 call, 2 handlers, 2 requests | holds: `Reachable` and, under fairness, `RingingEnds` |
| `calls_missed` | 1 call, 1 handler | violated: `AnsweredNotMissed`. The timer reads `initiated`, the callee accepts, the timer stores `missed` |
| `dial` | 2 users, 2 pages each, 1 call, 2 handlers | violated: `CallerHearsAccept`. The dashboard's socket, which is in the call's room, is closed by the change to the call page, whose socket joins no room |
| `chat` | 2 browsers, 2 calls, 2 handlers, 1 fault | holds: types, `SearchingIsServed`, `NobodyLeftAlone`, `Negotiated` |
| `signin` | 1 email, 2 good passwords and a weak one, 2 tabs, 2 requests, lock after 2 failures, 2 sessions | holds: types, `LimitLocks`, `LockClearedOnlyByEarlier`, `FirstRegistrationWins`, `LogoutSticks`, `SpinnerHasRequest` |
| `sessions` | 1 session, 3 concurrent requests, 4 refreshes, 1 database error, expiry | holds: types, `OneLiveToken`, `NeverBurnt`, `NoLateSuccess` and, under fairness, `ReuseRevokes` |
| `contacts` | 2 users, 2 tabs, 1 call, 2 handlers, 2 inputs (page, account or edit), 1 fault | holds: types, `BothConsented`, `AcceptedIsSaved`, `AcceptShowsContact`, `HandshakeSteps` (the steps of `ContactBook`) |
| `contacts_live` | the same without further inputs, 2 faults | holds under fairness: `Handshake` (all of `ContactBook`, its fairness included) |
| `rooms` | 2 peers, 2 rooms, 2 handlers, 2 routers, 2 transports, a worker that dies twice | holds: types, `ParticipantsHaveTransports`, `RoutersAreMapped`, `GoneIsStray`, `ConsumersInRouter`, `OnlyOwnLeaveCloses` |
| `rooms_split` | 2 peers, 1 room, 2 handlers | violated: `SameRouter`. Two first joins both find no room; the second `rooms.set` replaces the first room object while a transport is being created on it |

The violated properties quote what a comment or the repository's README says; `findings` in
`PROJECT.json` gives the lines.

Bounds. Two handlers suffice for every pairwise race; a put-back needs a stale entry and two
fresh ones, hence three sockets or a socket that joins twice. One call cannot show what the end of
a call does to another, so `calls` and `chat` have two; in `calls` both users dial, so that a socket
can be in the call it made and in one it was offered, and each has one tab; `calls_tabs` has a
second one. A deadlock
of two reuse detections needs two used tokens of one family, hence four refreshes; sessions only
meet in `logoutAll`, so one is enough. Two sessions are the fewest with which a reply for one can
meet the tokens of the other in `signin`; a lock needs two failures, so that one can be counted
between another's read and its count. In `contacts` both users can ask after one call, and the
second tab makes the self-match, the double answer and the change of account; a call more only
repeats the handshake under another key. In `rooms` a replaced room and a move to a second room each
need two routers, and a consumer needs two transports. Symmetry over interchangeable ids is used
only in runs without liveness. The runs do not check for deadlock, because all counters are bounded
and the system may always rest with no request in progress.

Fairness. `FairSpec` assumes that a handler that is not waiting for another one runs on (the
event loop, Redis and PostgreSQL answer) and, in `Calls`, that an expired timer's callback runs;
`Contacts` assumes it of every handler's next statement.
No client is ever assumed to do anything. In `Sessions` weak fairness is enough only because the
number of refreshes is bounded (`MaxRefreshes`): a client that retried for ever could win the
freed row lock each time. The endpoint is rate limited and the frontend drops its token after a
failed refresh, so a bound is what the code provides.

## 4. What the properties leave out on purpose

The invariants name their exceptions; each exception is a behaviour of the code worth knowing.

Matchmaking. `StrandedOnlyByPutBack` allows a pair of fresh users side by side in the queue after a
put-back: one handler pops a stale and a fresh entry; before it puts the fresh one back, another
sees fewer than two entries and gives up (`matchmaking.service.ts:92`). A disconnect whose HGET
runs between RPUSH and HSET of the same socket's join leaves a ghost entry
(`matchmaking.service.ts:34`), while README.md:16 promises an instantaneous queue exit; no
invariant of the model excludes it.

Calls. `RingingHasTimer` and `RingingEnds` allow a timer whose `getCallById` failed: the error is
caught and the call keeps ringing (`signaling.gateway.ts:221`). Of callers that disconnect,
`RingingHasTimer` covers those whose socket neither made nor was offered another call:
`handleDisconnect` reads `meta.callId` a second time after `endCall` (`signaling.gateway.ts:132`), a
`call:initiate` that finished in between has changed it, and that new call loses its timer and stays
`initiated`. A double click on the dashboard does this, and so does dialling from a
page that is in a call it accepted and closes. `meta.callId` also survives the end of the call on the
other side, so a later disconnect ends a finished call again (`signaling.gateway.ts:118`).

Chat. `stranded` collects the clients for which one of these has happened: the connection was
lost (`queuedRef` keeps the page from joining again, `anonymous/page.tsx:98`); a statement failed
after the pair was popped; `call:ended`, an offer or an answer arrived before the effect that
registers the listeners; a `call:ended` of an earlier call tore the partner out of the next one (the
page does not compare ids, `useWebRTC.ts:202`); `call:end` cleared, or a second pairing overwrote,
`meta.callId` of the partner's socket (`signaling.gateway.ts:342`); a page that received
`call:ended` twice joined the queue twice and was matched with itself. The invariants
say that nothing else leaves a page searching, alone or without a negotiated connection.
`Negotiated` has one exception more, `crossed`: a page that is matched while it still holds a
connection keeps it for the new call (`initPeerConnection` returns early, `useWebRTC.ts:44`), and the
handlers of offers and answers compare no ids (`useWebRTC.ts:161`, `178`), so a page can take the
description of another call for that of its own. Without the exception the property holds in the run's
instance and is false with four browsers: the partner leaves, its `call:end` and its disconnect both
send `call:ended`, the page joins the queue twice, is matched with a third browser and then, in
that call, with a fourth, and negotiates with the fourth over the connection made for the third. The
proof attempt found this; a directed run of TLC confirmed it.

Sign-in. `ResponseInterceptor` wraps bodies in `{success, data}`, and `refreshAuthToken` reads
`data.accessToken` one level too high: a refresh that succeeds removes both tokens, and the retry
goes out with "Bearer null". `LogoutSticks` holds for this code also because of that; its mutant
is the version that stores the new tokens, in which a refresh under way brings the tokens of a
logged-out session back. A late reply of a refresh also removes the tokens another tab has just
stored.

Sessions. When a rotation commits its new token while the family UPDATE waits for the old one, that
token survives the revocation of its family (`refresh-token.repository.ts:83`). `NoLateSuccess`
says it is worthless, because `refresh` looks the session up afterwards: removing that lookup (the
mutant `SignUnchecked`) breaks it.

Contacts. `AcceptedIsSaved` excepts requests in `failed`: the UPDATE that accepts and the INSERT of
the two contacts are separate statements, so a failure between them leaves an accepted request
that nobody can accept again, where README.md:17 says the connection is generated atomically.
`ContactBook` has `Lose` for it. `hasResponded` of the banner is never reset, so later requests on
the same page are not shown, and Dismiss on the dashboard tells the server nothing: such a request
stays pending, as no code ever sets `expired`.

Rooms. `GoneIsStray` excepts three ways in which a peer stays a participant after it is gone: its
`createWebRtcTransport` resolved after `removeParticipant`; it had joined another room, since
`meta.roomId` holds one room and `sfu:leave`, which the frontend sends, has no handler; its
`handleDisconnect` failed in `dequeue` or `endCall`. `RoutersAreMapped` excepts a room object that a
concurrent `createRoom` replaced, whose router nothing closes, and the rooms of a dead worker,
which stay in the map with a closed router. A replacement worker has no `died` listener
(`sfu.service.ts:90`), so its own death is not handled; `WorkerDies` models this.

## 5. Theorems

`MatchmakingProofs` proves, for every set of sockets, every finite set of handlers and all bounds:

* `TypeCorrect`: `Spec => []TypeOK`. The invariant is `Typed`, which adds to `TypeOK` what the
  handlers' locals look like at each program point: a task that has pushed holds its entry, one
  that has popped holds two, one that is past `initiateCall` has a call that exists. Without
  this, reading `held[2]` or `calls[call]` would not be typed.
* `QueueNeverStrands`: `Spec => []StrandedOnlyByPutBack`. The property is not inductive, since it says nothing
  while a handler is on its way to `tryMatch`. The proof uses `QueueBound`:
  `Len(queue) <= 1 + Cardinality(Matchers) + putBacks`. A push adds an entry and a matcher;
  `PopNone` removes a matcher and knows the queue is short; `PopPair` removes a matcher and two
  entries; a put-back adds one to both sides; all else removes entries or leaves both sides alone.
* `IndexIsBacked`: `Spec => []IndexPointsIntoQueue`. `HashInv` carries it through the moments in
  which it does not hold: an entry of the hash is in the list, or some handler that took it out will
  delete it (`Backed`). An entry that its join has pushed and not yet filed may be popped by
  another handler, and the proof needs that this handler's HDEL comes after the HSET. That is the
  order of the commands on the one Redis connection: a handler stands in `pipe` exactly while it
  has a command outstanding (`PipeOK`), and the joiner stands before the one that popped its entry.
* `MatchesArePaidFor`: `Spec => []MatchedAtMostAsJoined`. `Accounted` counts, for each socket, its
  `match:found` events, its entries in the list and its entries with handlers; every step moves an
  entry from one to another or drops it, and only a join adds one.
* `OnlyStaleDropped`: `Spec => FreshNeverDropped`, an action property: each exit of `tryMatch` lets
  go of a fresh entry only into the list or into a match.

`CallsProofs` proves, for any number of users, tabs, calls and handlers and any set of dials, from one
inductive invariant `CallsInv`:

* `CallsTypeCorrect`, `RingingIsWatched`, `OnlyTargetAccepts`, `CallRoomJoined` and `TabsReachable`:
  `TypeOK`, `RingingHasTimer`, `TargetGuarded`, `CallIdInRoom` and `Reachable` are invariants. What
  cancels a timer is an accept, an end or a disconnect after its `UPDATE`; `Late` says
  that the call has then left `initiated` for good, because no statement writes that status again.
  `handleDisconnect` is the difficult case: it cancels the timer of the call that `meta.callId` names
  after the `await`, not of the call it ended. `OwnCall` (`meta.callId` names a call that the socket
  made, or one it was offered and that was answered), `Parties` (what a disconnect ends is such a call) and
  `Closing` (one disconnect per socket) show that it is then the same call, or the socket had two.
  A socket that was offered its other call counts as having two, which is why both users dial in `calls`.
  `Unrung` and `Created` say that an id is known only to its own `call:initiate` until it rings.

`SessionsProofs` proves, for any number of sessions, requests and database errors, from `SessionsInv`:

* `SessionsTypeCorrect`: `Spec => []TypeOK`.
* `RotationIsLinear` and `RollbackBurnsNothing`: `OneLiveToken` and `NeverBurnt`, row by row
  (`OneLine`, `Unburnt`). The part that carries them is `Locks`: a row's lock belongs to a
  transaction of its family that is past its SELECT, and what the transaction read (`seen`) is still the
  row's `used`. Hence a rotation that goes on to commit uses up the one live token when it adds
  the next, and a rollback leaves the live token alone.
* `RevokedStaysOut`: `Spec => []NoLateSuccess`, with `Stale`: a session that was inactive when the
  request arrived is still inactive at the lookup after `rotate`.

`ChatProofs` proves, for any number of browsers, handlers, calls and faults:

* `ChatTypeCorrect`: `Spec => []TypeOK`. `Typed` adds that each handler knows the sockets and the
  call it will use, that a connection that owes an answer knows the call of the offer, and that
  the calls made and the pairings under way together do not exceed `MaxCalls`.
* `SpinnerIsServed`: `Spec => []SearchingIsServed`. The hazard is a `dequeue` that takes the wrong
  entry. `Departed` says that a socket being dequeued is no open page's and, because a page's next socket
  has a higher number (`Past`), never will be; so a page that waits keeps the entry, the pairing or the
  message it has. A pairing that hands its page on from the queue to the inbox does so in one step.
* `NobodySitsAlone`: `Spec => []NobodyLeftAlone`. The property speaks of settled states only; what carries
  it there is `LonelyInv`. A page has a call from the moment its `match:found` is sent (`Has`).
  `Accompanied` says that a page that has a call has the call's end in its inbox, or is in the room with a
  partner who has the call too, is about to disconnect, or whose `handleDisconnect` is still to
  announce the end. `Told` says that who has a call whose end another client has in its inbox has it
  there too. Both need the order of events: the numbers of calls only
  grow (`Numbered`), a `match:found` comes behind the news of earlier calls (`Ordered`), and sockets in the
  queue or in a pairing are connections that were made (`Sitting`, `SittingPairs`, `Connected`,
  `Unbroken`), so that a new connection is in no room.
* `CallsAreNegotiated`: `Spec => []Negotiated`, from `NegotiationInv`, which adds to `LonelyInv`: no
  third client ever knows of a call (`Duo`), its two clients have the two roles (`Roles`), what a page
  knows is older than what it is invited to (`Newer`), and `offerSentRef` is set only while there
  is a connection (`Clean`). `Hooked` says that the connection of a page in the call is that call's and in
  a signalling state its role can have, and that an initiator without the peer's
  description is about to offer or waits for an answer. `Offered` follows the offer: while the
  initiator waits, the offer is on its way to the partner, the partner owes an answer, or the
  answer is on its way back. `Answered` follows the answer: when the initiator has it or is about to, the
  partner has applied the offer. In a settled state only the negotiated pair is left. Each part allows a
  call whose end is already under way (`Doomed`), since ICE may fail in the middle of it. The proof does not
  follow whether the first offer, `onnegotiationneeded` or the late camera made an offer; any offer
  on the connection has the same fate.

`RoomsProofs` proves, for all sets of peers, rooms, handlers and media ids and any number of workers:

* `RoomsTypeCorrect`: `Spec => []TypeOK`, with `LocalsOK`, what a handler's locals are at each of
  its points, as the strengthening.
* `RoomsKeepAccounts`: `Spec => []ParticipantsHaveTransports`. It is inductive over the types once
  it is written element by element (`Accounted`); a new room object starts with no transports
  because every transport names an object that existed before.
* `NobodyCutOff`: `Spec => OnlyOwnLeaveCloses`. `removeParticipant` closes a router when
  `participants` is empty; by `Accounted` no transport is then left in its map, so none of another
  peer is closed. `Leavers` (one `handleDisconnect` per closing socket) gives the owner's side.
* `RoutersStayMapped`: `Spec => []RoutersAreMapped`. The map must file a room object under its own
  room (`Keys`), or closing one would remove another; and a replacement worker is one that no
  router has had yet (`Vintage`), or its death would be confused with its predecessor's.
* `GoneHoldNoPlace`: `Spec => []GoneIsStray`. `Placed` says the same of peers that are still there: a
  peer has a place in the room that `meta.roomId` names or is already a stray of the other, so the one
  `removeParticipant` of its disconnect takes away every place it should.
* `ConsumersStayInRouter`: `Spec => []ConsumersInRouter`. `canConsume` is evaluated before an `await`
  and used after it; `Routed` says that its answer still holds, which it does because a transport never
  changes its router (`Lasting`).

`AccountsProofs` proves, for all sets of emails, passwords and handlers and any policy:

* `AccountsTypeCorrect`: `Spec => []AccountsTypeOK`, and `LockoutCounts`: `Spec => []LimitLocks`. The
  inductive invariant `AccountsInv` adds `Locals`: a login that goes on to count or to reset has a
  copy of a row of its email whose lock was over, and the row still exists. The lock follows from the
  counter because the `UPDATE` computes both from the row it changes and not from the handler's copy.
* `LocksHold`: `Spec => LockClearedOnlyByEarlier`. A handler that reaches the reset had found its
  copy unlocked at the time of its read, and a lock in force now ends later than that.
* `FirstWins`: `Spec => FirstRegistrationWins`.

`SignInProofs` composes them with any number of tabs, requests and sessions:

* `SignInUsesAccounts`: `SignInSpec => Spec`. Every step of the browser is a step of `Accounts` or
  leaves its variables alone, so the theorems above hold of the composition too.
* `SignInTypeCorrect`: `SignInSpec => []TypeOK`.
* `SpinnersEnd`: `SignInSpec => []SpinnerHasRequest`. `OneSpinner`, at most one request of a tab besides
  its API calls, is the strengthening: `finally` clears the flag, which is right only if no
  other request still needs it.
* `LogoutIsFinal`: `SignInSpec => []LogoutSticks`. It needs `FreshGrants`: the token that an
  unanswered login will store belongs to a session that is nowhere else yet, so no tab can have
  logged out of it. A refresh stores no token at all, because the interceptor's envelope hides its
  fields from `api.ts` (section 4); the mutant that reads them from `data.data` breaks the property.

`ContactsProofs` proves, for any number of users, tabs, calls and handlers, from `ContactsInv`:
`Inserts` (a handler at its `INSERT` holds an accepted request, and no two hold the same one),
`Rows` (a row joins the two users of a request that was agreed to, and the key of the table holds)
and `AcceptedIsSaved` itself, over the types.

* `ContactsTypeCorrect`, `ConsentHolds` and `AcceptedSaved`: `TypeOK`, `BothConsented` and
  `AcceptedIsSaved` are invariants.
* `AcceptedIsListed`: `Spec => AcceptShowsContact`. Only `listContacts` takes a fetch to its answer, and it
  reads a table in which `AcceptedIsSaved` holds.
* `HandshakeRefines`: `Spec => HandshakeSteps`. `UPDATE ... WHERE status = 'pending'` lets one handler
  through, so the `INSERT` or its failure is the one step that settles the request; an id names one
  row by `Rows`, so a removal takes one pair. Steps of the pages and all other statements
  (`Still`) leave the tables and the handlers at an `INSERT` alone and map to stuttering.

The assumptions are those of the modules: in `Matchmaking` and `Chat`, `Tasks` is finite and the bounds
are naturals; in `Chat`, `None` is no connection; in `Rooms`, there is a worker and `None` is no
transport and no room; in the others, the bounds and the policy are naturals and `None` is no element
of the sets it is added to. TLC evaluates
them in every run. Each inductive invariant was model-checked before it was proved.

Every invariant of a passing run is proved. Checked by TLC only: liveness (`PairEventually`,
`RingingEnds`, `ReuseRevokes` and the fairness of `Handshake`), which is out of the prover's reach.
`Quiet` of `Chat` names a page at rest (`AtRest`) by what its pending renders and negotiation steps
would need, rather than by `ENABLED`, which the prover cannot handle either.

## 6. Not modelled, and the plan

Not modelled: loss of the Redis connection; ICE candidates and `media:toggle`, whose columns nothing
reads; `sfu:connect-transport`, which changes only state inside mediasoup; `useSFU` and the room
page; the frontend's `call:upgrade` and `call:downgrade`, for which the gateway has no handler (it
handles `call:switch-type`); call history
and other reads; configuration, logging, rendering, infrastructure. An `endCall` that fails inside
the missed-call timer is an unhandled rejection, which ends the process with all its maps; a
restart of the process is not part of `Calls`. Several instances of the backend behind one Redis
are not modelled: the gateway's maps are local to a process and the code has no adapter for them.

What would come next: a model of the room page with `useSFU` over `Rooms`, and `Matchmaking`'s
expiry and single Redis commands in `Chat`, where an operation on the queue is one step.
