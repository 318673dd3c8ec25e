---- MODULE Contacts ----
(***************************************************************************)
(* The contact handshake: onRequestContactSave of the gateway,             *)
(* ContactsService, and the two pages that show a request and answer it,   *)
(* app/anonymous (ContactSaveBanner) and app/dashboard (useContacts).      *)
(*                                                                         *)
(* A handler stops at its statements.  The audit entries cannot fail a     *)
(* handler and no code reads them, so only the one between a new request   *)
(* and its notification is a stop.  An event the gateway sends is handled  *)
(* at once: a late one is a late handler.  A tab's socket keeps the user   *)
(* it connected as; its API calls use the account of the moment.           *)
(***************************************************************************)
EXTENDS Naturals, FiniteSets

CONSTANTS
    Users,
    Tabs,
    Nicknames,
    MaxCalls,    \* bound on the anonymous calls of registered users
    MaxInputs,   \* bound on pages opened, accounts switched and contacts edited
    MaxFaults,   \* bound on failed statements and failed API calls
    Tasks,       \* handlers that may be in progress at once
    None

ASSUME BoundsNat == MaxCalls \in Nat /\ MaxInputs \in Nat /\ MaxFaults \in Nat

VARIABLES
    made,       \* calls so far: the last call_sessions.id
    request,    \* contact_save_requests: per key, its status or None
    contacts,   \* the rows of contacts
    account,    \* per tab: the account of the tokens its API calls find
    page,       \* per tab: the page that is mounted, its socket's user and React state
    task,       \* handlers, each with the call of the page that waits for it
    inputs,     \* pages opened, accounts switched and contacts edited so far
    faults,     \* failed statements and API calls so far
    agreed,     \* history: requests accepted with the account of their target
    failed,     \* history: requests whose contacts were not inserted
    removed     \* history: <<owner, contact>> of deleted rows

tables == <<request, contacts>>
client == <<account, page, inputs>>
history == <<agreed, failed, removed>>
vars == <<made, tables, client, task, faults, history>>

\* The key of contact_save_requests.
Requests == [call : 1 .. MaxCalls, from : Users, to : Users]

\* A row; its id is that of the request it was saved for and its owner.
Contact == [owner : Users, contact : Users, req : Requests, nickname : Nicknames \cup {None}]

ASSUME NoneApart ==
    /\ None \notin Requests /\ None \notin Contact /\ None \notin Users
    /\ None \notin {"pending", "accepted", "rejected", "anonymous", "dashboard"}

SameRow(c, d) == c.owner = d.owner /\ c.req = d.req

Pair(c) == <<c.owner, c.contact>>

IdleTask == [pc |-> "idle", kind |-> None, tab |-> None, user |-> None, req |-> None,
             row |-> None, rows |-> {}, nickname |-> None]

NoPage == [at |-> None, user |-> None, match |-> None, sent |-> FALSE, show |-> FALSE,
           responded |-> FALSE, incoming |-> None, list |-> {}]

Mounted(at, u) == [NoPage EXCEPT !.at = at, !.user = u]

\* Every tab has the anonymous page open.
Init ==
    /\ made = 0
    /\ request = [r \in Requests |-> None]
    /\ contacts = {}
    /\ account \in [Tabs -> Users]
    /\ page = [t \in Tabs |-> Mounted("anonymous", account[t])]
    /\ task = [k \in Tasks |-> IdleTask]
    /\ inputs = 0 /\ faults = 0
    /\ agreed = {} /\ failed = {} /\ removed = {}

Idle(k) == task[k] = IdleTask

\* The page of tab t calls the server.
Call(k, t, kind, r) ==
    task' = [task EXCEPT ![k] = [IdleTask EXCEPT !.pc = kind, !.kind = kind, !.tab = t,
                                                 !.user = account[t], !.req = r]]

Goto(k, pc) == task' = [task EXCEPT ![k].pc = pc]

----------------------------------------------------------------------------
(* Pages.                                                                  *)

\* A page is mounted: useSignaling connects with the token of the moment, and
\* useContacts of the dashboard fetches the list.
Open(t, at, k) ==
    /\ page[t].at = None /\ inputs < MaxInputs /\ Idle(k)
    /\ inputs' = inputs + 1
    /\ page' = [page EXCEPT ![t] = Mounted(at, account[t])]
    /\ IF at = "dashboard" THEN Call(k, t, "list", None) ELSE UNCHANGED task
    /\ UNCHANGED <<made, tables, account, faults, history>>

\* The page is left: its socket disconnects and nothing waits for the answers.
Leave(t) ==
    /\ page[t].at # None
    /\ page' = [page EXCEPT ![t] = NoPage]
    /\ task' = [k \in Tasks |-> IF task[k].tab = t THEN [task[k] EXCEPT !.tab = None] ELSE task[k]]
    /\ UNCHANGED <<made, tables, account, inputs, faults, history>>

\* Another tab of the same browser signs in as u.
SwitchAccount(t, u) ==
    /\ account[t] # u /\ inputs < MaxInputs
    /\ inputs' = inputs + 1
    /\ account' = [account EXCEPT ![t] = u]
    /\ UNCHANGED <<made, tables, page, task, faults, history>>

\* match:found reaches the pages of two registered users, maybe of the same one.
Match(s, t) ==
    LET Found(x, y) == [page[x] EXCEPT !.match = [call |-> made + 1, from |-> page[x].user,
                                                  to |-> page[y].user],
                                       !.sent = FALSE, !.show = FALSE]
    IN  /\ made < MaxCalls /\ s # t
        /\ \A x \in {s, t} : page[x].at = "anonymous" /\ page[x].match = None
        /\ made' = made + 1
        /\ page' = [page EXCEPT ![s] = Found(s, t), ![t] = Found(t, s)]
        /\ UNCHANGED <<tables, account, inputs, task, faults, history>>

\* onCallEnded: the banner goes with the call.
CallEnded(t) ==
    /\ page[t].match # None
    /\ page' = [page EXCEPT ![t].match = None, ![t].sent = FALSE, ![t].show = FALSE]
    /\ UNCHANGED <<made, tables, account, inputs, task, faults, history>>

\* handleSaveContact.  The gateway takes the user of the socket.
SaveContact(t, k) ==
    /\ page[t].match # None /\ ~page[t].sent /\ Idle(k)
    /\ page' = [page EXCEPT ![t].sent = TRUE]
    /\ task' = [task EXCEPT ![k] = [IdleTask EXCEPT !.pc = "ask", !.kind = "ask",
                                                    !.user = page[t].user, !.req = page[t].match]]
    /\ UNCHANGED <<made, tables, account, inputs, faults, history>>

\* ContactSaveBanner: once the user has responded, no later request is shown.
BannerVisible(t) == page[t].at = "anonymous" /\ page[t].show /\ ~page[t].responded

\* handleContactResponse.
Respond(t, kind, k) ==
    /\ BannerVisible(t) /\ Idle(k)
    /\ page' = [page EXCEPT ![t].show = FALSE, ![t].responded = TRUE]
    /\ IF page[t].incoming = None THEN UNCHANGED task ELSE Call(k, t, kind, page[t].incoming)
    /\ UNCHANGED <<made, tables, account, inputs, faults, history>>

\* handleAcceptRequest; the request stays on the dashboard until the answer.
AcceptRequest(t, k) ==
    /\ page[t].at = "dashboard" /\ page[t].incoming # None /\ Idle(k)
    /\ Call(k, t, "accept", page[t].incoming)
    /\ UNCHANGED <<made, tables, client, faults, history>>

\* The Dismiss button of the dashboard only hides the request.
Dismiss(t) ==
    /\ page[t].at = "dashboard" /\ page[t].incoming # None
    /\ page' = [page EXCEPT ![t].incoming = None]
    /\ UNCHANGED <<made, tables, account, inputs, task, faults, history>>

\* deleteContact and updateNickname of useContacts, for a contact of the list.
EditContact(t, c, kind, n, k) ==
    /\ c \in page[t].list /\ Idle(k) /\ inputs < MaxInputs
    /\ inputs' = inputs + 1
    /\ task' = [task EXCEPT ![k] = [IdleTask EXCEPT !.pc = kind, !.kind = kind, !.tab = t,
                                      !.user = account[t], !.row = c, !.nickname = n]]
    /\ UNCHANGED <<made, tables, account, page, faults, history>>

----------------------------------------------------------------------------
(* ContactsService.                                                        *)

\* requestContactSave: INSERT ... ON CONFLICT DO NOTHING.
InsertRequest(k) ==
    LET r == task[k].req
    IN  /\ task[k].pc = "ask"
        /\ request' = IF request[r] = None THEN [request EXCEPT ![r] = "pending"] ELSE request
        /\ Goto(k, IF request[r] = None THEN "audit" ELSE "select")
        /\ UNCHANGED <<made, contacts, client, faults, history>>

\* Mutant of Shown: the field of the sender is taken for that of the request.
ShownSender(t, r) == [page[t] EXCEPT !.incoming = r.from, !.show = @ \/ page[t].at = "anonymous"]

\* contact:save-request: the newest request replaces the one on the page.
Shown(t, r) == [page[t] EXCEPT !.incoming = r, !.show = @ \/ page[t].at = "anonymous"]

\* The audit entry is written or the existing request read; contact:save-request goes to
\* every tab of the target, whatever the request's status.
Notify(k) ==
    LET r == task[k].req
    IN  /\ task[k].pc \in {"audit", "select"}
        /\ page' = [t \in Tabs |-> IF page[t].user = r.to THEN Shown(t, r) ELSE page[t]]
        /\ task' = [task EXCEPT ![k] = IdleTask]
        /\ UNCHANGED <<made, tables, account, inputs, faults, history>>

\* Mutant of Acceptable: the request need not be pending any more.
AcceptableTwice(k) == request[task[k].req] # None /\ task[k].req.to = task[k].user

\* Mutant of Acceptable: the request is found by its id alone.
AcceptableByAny(k) == request[task[k].req] = "pending"

\* WHERE id = $1 AND to_user_id = $2 AND status = 'pending'
Acceptable(k) == request[task[k].req] = "pending" /\ task[k].req.to = task[k].user

\* acceptContactSave: UPDATE ... RETURNING; no row, no contact.
MarkAccepted(k) ==
    LET r == task[k].req
    IN  /\ task[k].pc = "accept"
        /\ IF Acceptable(k)
           THEN /\ request' = [request EXCEPT ![r] = "accepted"]
                /\ agreed' = IF task[k].user = r.to THEN agreed \cup {r} ELSE agreed
                /\ Goto(k, "insert")
           ELSE UNCHANGED <<request, agreed>> /\ Goto(k, "reply")
        /\ UNCHANGED <<made, contacts, client, faults, failed, removed>>

\* Mutant of NewContacts: the contact is saved for the acceptor only.
NewContactsOneWay(r) ==
    {[owner |-> r.to, contact |-> r.from, req |-> r, nickname |-> None]}

NewContacts(r) ==
    {[owner |-> r.from, contact |-> r.to, req |-> r, nickname |-> None],
     [owner |-> r.to, contact |-> r.from, req |-> r, nickname |-> None]}

\* Mutant of InsertTurn: the INSERT waits for those of other handlers.
InsertTurnAlone(k) == task[k].pc = "insert" /\ \A j \in Tasks \ {k} : task[j].pc # "insert"

InsertTurn(k) == task[k].pc = "insert"

\* INSERT INTO contacts ... ON CONFLICT DO NOTHING.
InsertContacts(k) ==
    /\ InsertTurn(k)
    /\ contacts' = contacts \cup {c \in NewContacts(task[k].req) :
                                    \A d \in contacts : Pair(d) # Pair(c)}
    /\ removed' = removed \ {Pair(c) : c \in NewContacts(task[k].req)}
    /\ Goto(k, "reply")
    /\ UNCHANGED <<made, request, client, faults, agreed, failed>>

\* rejectContactSave.
MarkRejected(k) ==
    /\ task[k].pc = "reject"
    /\ request' = IF Acceptable(k) THEN [request EXCEPT ![task[k].req] = "rejected"] ELSE request
    /\ Goto(k, "reply")
    /\ UNCHANGED <<made, contacts, client, faults, history>>

\* Mutant of RowsOf: the other column of the table.
RowsOfContact(u) == {c \in contacts : c.contact = u}

\* listContacts.
RowsOf(u) == {c \in contacts : c.owner = u}

List(k) ==
    /\ task[k].pc = "list"
    /\ task' = [task EXCEPT ![k].pc = "reply", ![k].rows = RowsOf(task[k].user)]
    /\ UNCHANGED <<made, tables, client, faults, history>>

\* The row of an edit, if the caller owns it.
Mine(k) == {c \in contacts : SameRow(c, task[k].row) /\ c.owner = task[k].user}

\* removeContact: the other direction stays.
RemoveContact(k) ==
    /\ task[k].pc = "remove"
    /\ contacts' = contacts \ Mine(k)
    /\ removed' = removed \cup {Pair(c) : c \in Mine(k)}
    /\ Goto(k, "reply")
    /\ UNCHANGED <<made, request, client, faults, agreed, failed>>

\* updateNickname.
UpdateNickname(k) ==
    /\ task[k].pc = "nickname"
    /\ contacts' = (contacts \ Mine(k)) \cup
                   {[c EXCEPT !.nickname = task[k].nickname] : c \in Mine(k)}
    /\ Goto(k, "reply")
    /\ UNCHANGED <<made, request, client, faults, history>>

\* A statement fails.  Over HTTP the page gets a 500, which apiFetch returns like an answer.
DbFails(k) ==
    /\ task[k].pc \in {"ask", "select", "accept", "insert", "reject", "list", "remove", "nickname"}
    /\ faults < MaxFaults
    /\ faults' = faults + 1
    /\ task' = [task EXCEPT ![k] = IF @.pc \in {"ask", "select"} THEN IdleTask
                                   ELSE [@ EXCEPT !.pc = "error"]]
    /\ failed' = IF task[k].pc = "insert" THEN failed \cup {task[k].req} ELSE failed
    /\ UNCHANGED <<made, tables, client, agreed, removed>>

----------------------------------------------------------------------------
(* The answers.                                                            *)

Answered(k) == task[k].pc \in {"reply", "error"}

\* A fetch that a page started answers: setContacts, unless the answer is an error, and
\* after acceptRequest setIncomingRequest(null), whatever is shown by now.
Listed(k) ==
    LET t == task[k].tab
    IN  [page EXCEPT ![t].list = IF task[k].pc = "reply" THEN task[k].rows ELSE @,
                     ![t].incoming = IF task[k].kind = "accept-list" THEN None ELSE @]

\* The page continues after its await; acceptRequest and updateNickname fetch the list.
Reply(k) ==
    LET t == task[k].tab
        kind == task[k].kind
        Again(next) == [IdleTask EXCEPT !.pc = "list", !.kind = next, !.tab = t,
                                        !.user = account[t], !.req = task[k].req]
        Then == CASE kind = "accept" /\ page[t].at = "dashboard" -> Again("accept-list")
                  [] kind = "nickname" -> Again("list")
                  [] OTHER -> IdleTask
    IN  /\ Answered(k) /\ t # None
        /\ task' = [task EXCEPT ![k] = Then]
        /\ page' = CASE kind \in {"list", "accept-list"} -> Listed(k)
                     [] kind = "remove" ->
                            [page EXCEPT ![t].list = {c \in @ : ~SameRow(c, task[k].row)}]
                     [] kind \in {"accept", "reject"} /\ page[t].at = "anonymous" ->
                            [page EXCEPT ![t].incoming = None]
                     [] OTHER -> page
        /\ UNCHANGED <<made, tables, account, inputs, faults, history>>

\* Nobody waits for the answer.
Drop(k) ==
    /\ Answered(k) /\ task[k].tab = None
    /\ task' = [task EXCEPT ![k] = IdleTask]
    /\ UNCHANGED <<made, tables, client, faults, history>>

\* fetch rejects: the call never arrives, or its answer is lost while the handler goes on.
\* The anonymous page catches that and clears its request; the callers in useContacts
\* throw and leave the dashboard as it is.
NetFails(k) ==
    LET t == task[k].tab
    IN  /\ t # None /\ faults < MaxFaults
        /\ faults' = faults + 1
        /\ \/ task' = [task EXCEPT ![k].tab = None]
           \/ /\ task[k].pc \in {"accept", "reject", "list", "remove", "nickname"}
              /\ task' = [task EXCEPT ![k] = IdleTask]
        /\ page' = IF page[t].at = "anonymous" THEN [page EXCEPT ![t].incoming = None] ELSE page
        /\ UNCHANGED <<made, tables, account, inputs, history>>

----------------------------------------------------------------------------

Statement(k) ==
    \/ InsertRequest(k) \/ Notify(k)
    \/ MarkAccepted(k) \/ InsertContacts(k) \/ MarkRejected(k)
    \/ List(k) \/ RemoveContact(k) \/ UpdateNickname(k)

Next ==
    \/ \E k \in Tasks : Statement(k) \/ DbFails(k) \/ Reply(k) \/ Drop(k) \/ NetFails(k)
    \/ \E t \in Tabs : Leave(t) \/ CallEnded(t) \/ Dismiss(t)
    \/ \E t \in Tabs, u \in Users : SwitchAccount(t, u)
    \/ \E s, t \in Tabs : Match(s, t)
    \/ \E t \in Tabs, k \in Tasks :
         \/ \E at \in {"anonymous", "dashboard"} : Open(t, at, k)
         \/ SaveContact(t, k) \/ AcceptRequest(t, k)
         \/ \E kind \in {"accept", "reject"} : Respond(t, kind, k)
         \/ \E c \in page[t].list :
              \/ EditContact(t, c, "remove", None, k)
              \/ \E n \in Nicknames : EditContact(t, c, "nickname", n, k)

\* The server goes on with every handler until it answers.
Fairness == \A k \in Tasks : WF_vars(Statement(k))

Spec == Init /\ [][Next]_vars /\ Fairness

----------------------------------------------------------------------------
(* Properties.                                                             *)

\* Types of the tables, the pages and the handlers.
TypeOK ==
    /\ made \in 0 .. MaxCalls
    /\ request \in [Requests -> {"pending", "accepted", "rejected", None}]
    /\ contacts \subseteq Contact
    /\ account \in [Tabs -> Users]
    /\ page \in [Tabs -> [at : {None, "anonymous", "dashboard"}, user : Users \cup {None},
                          match : Requests \cup {None}, sent : BOOLEAN, show : BOOLEAN,
                          responded : BOOLEAN, incoming : Requests \cup {None},
                          list : SUBSET Contact]]
    /\ task \in [Tasks -> [pc : {"idle", "ask", "audit", "select", "accept", "insert", "reject",
                                 "list", "remove", "nickname", "reply", "error"},
                           kind : {None, "ask", "accept", "reject", "list", "accept-list",
                                   "remove", "nickname"},
                           tab : Tabs \cup {None}, user : Users \cup {None},
                           req : Requests \cup {None}, row : Contact \cup {None},
                           rows : SUBSET Contact, nickname : Nicknames \cup {None}]]
    /\ inputs \in Nat /\ faults \in Nat
    /\ agreed \subseteq Requests /\ failed \subseteq Requests
    /\ removed \subseteq Users \X Users

\* A handler holds request r accepted and its contacts not yet inserted.
Inserting(r) == \E k \in Tasks : task[k].pc = "insert" /\ task[k].req = r

Pairs == {Pair(c) : c \in contacts}

\* A contact, in whichever direction, goes back to a request that its target accepted
\* with its own account: not to one that a page showed to the user of its socket and
\* answered with the account another tab had signed in.
BothConsented ==
    \A c \in contacts : \E r \in agreed : {r.from, r.to} = {c.owner, c.contact}

\* An accepted request whose handler is past its INSERT has given both users the other as
\* contact, except the rows an owner deleted; nothing but a failure between the two
\* statements leaves it one-sided or empty, however answers of several tabs interleave.
AcceptedIsSaved ==
    \A r \in Requests :
        (request[r] = "accepted" /\ ~Inserting(r) /\ r \notin failed)
            => {<<r.from, r.to>>, <<r.to, r.from>>} \subseteq Pairs \cup removed

\* The list that the dashboard fetches after an accept has the new contact, also when the
\* accept was a second click or another tab was first: unless that accept's INSERT is still
\* to come or failed, or the row was deleted.
AcceptShowsContact ==
    [][\A k \in Tasks :
         LET r == task[k].req
         IN  (/\ task[k].kind = "accept-list" /\ task[k].pc = "list" /\ task'[k].pc = "reply"
              /\ request[r] = "accepted" /\ task[k].user = r.to)
             => \/ \E c \in task'[k].rows : Pair(c) = <<r.to, r.from>>
                \/ Inserting(r) \/ r \in failed \/ <<r.to, r.from>> \in removed]_vars

----------------------------------------------------------------------------
(* Refinement.                                                             *)

\* The stage of the handshake that the row of a request and its handlers stand for.
Stage(r) ==
    CASE request[r] = None -> "unasked"
      [] request[r] = "pending" -> "open"
      [] request[r] = "accepted" /\ Inserting(r) -> "agreed"
      [] OTHER -> "closed"

Book == INSTANCE ContactBook WITH stage <- [r \in Requests |-> Stage(r)], book <- Pairs

\* The tables and the handlers make only the steps of ContactBook's handshake: a contact
\* appears only when an open request was agreed to, in both directions at once, and a
\* request is answered once, whichever tabs, clicks and accounts answer it.
HandshakeSteps == Book!SafeSpec

\* They implement all of it: as the server goes on with its handlers, an agreement is
\* settled in the end, by its contacts or by a failed statement.
Handshake == Book!Spec
====
