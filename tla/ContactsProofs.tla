---- MODULE ContactsProofs ----
(***************************************************************************)
(* Theorems about Contacts, for any number of users, tabs, calls and       *)
(* handlers.                                                               *)
(***************************************************************************)
EXTENDS Contacts, TLAPS

TaskRecord == [pc : {"idle", "ask", "audit", "select", "accept", "insert", "reject",
                     "list", "remove", "nickname", "reply", "error"},
               kind : {None, "ask", "accept", "reject", "list", "accept-list",
                       "remove", "nickname"},
               tab : Tabs \cup {None}, user : Users \cup {None},
               req : Requests \cup {None}, row : Contact \cup {None},
               rows : SUBSET Contact, nickname : Nicknames \cup {None}]

PageRecord == [at : {None, "anonymous", "dashboard"}, user : Users \cup {None},
               match : Requests \cup {None}, sent : BOOLEAN, show : BOOLEAN,
               responded : BOOLEAN, incoming : Requests \cup {None},
               list : SUBSET Contact]

\* A handler of the handshake has a request, and one that edits has a row.
TaskSet ==
    {h \in TaskRecord :
        /\ h.pc \in {"ask", "audit", "select", "accept", "insert", "reject"} => h.req \in Requests
        /\ h.pc # "idle" /\ h.kind \in {"accept", "accept-list"} => h.req \in Requests
        /\ h.pc \in {"remove", "nickname"} => h.row \in Contact}

\* A page that is mounted has connected as a user.
PageSet == {p \in PageRecord : p.at \in {"anonymous", "dashboard"} => p.user \in Users}

Typed ==
    /\ made \in 0 .. MaxCalls
    /\ request \in [Requests -> {"pending", "accepted", "rejected", None}]
    /\ contacts \subseteq Contact
    /\ account \in [Tabs -> Users]
    /\ page \in [Tabs -> PageSet]
    /\ task \in [Tasks -> TaskSet]
    /\ inputs \in Nat /\ faults \in Nat
    /\ agreed \subseteq Requests /\ failed \subseteq Requests
    /\ removed \subseteq Users \X Users

\* The handler at the INSERT holds an accepted request, and no other handler holds it.
AtInsert(k) == task[k].pc = "insert"

Inserts ==
    /\ \A k \in Tasks : AtInsert(k) => request[task[k].req] = "accepted" /\ task[k].req \in agreed
    /\ \A j, k \in Tasks : AtInsert(j) /\ AtInsert(k) /\ task[j].req = task[k].req => j = k

\* A row joins the two users of its request, and the table's key holds.
Rows ==
    /\ \A c \in contacts : /\ c.req \in agreed
                           /\ Pair(c) \in {<<c.req.from, c.req.to>>, <<c.req.to, c.req.from>>}
    /\ \A c, d \in contacts : Pair(c) = Pair(d) => c = d

ContactsInv == Typed /\ Inserts /\ Rows /\ AcceptedIsSaved

LEMMA TypedImpliesTypeOK == Typed => TypeOK
<1> SUFFICES ASSUME Typed PROVE TypeOK
  OBVIOUS
<1>1. page \in [Tabs -> PageRecord] /\ task \in [Tasks -> TaskRecord]
  BY DEF Typed, PageSet, TaskSet
<1>2. QED
  BY <1>1 DEF Typed, TypeOK, PageRecord, TaskRecord

LEMMA IdleTyped == IdleTask \in TaskSet /\ IdleTask.pc = "idle"
<1>1. IdleTask \in TaskRecord
  BY DEF IdleTask, TaskRecord
<1>2. QED
  BY <1>1 DEF IdleTask, TaskSet

LEMMA InitContacts == Init => ContactsInv
<1> SUFFICES ASSUME Init PROVE ContactsInv
  OBVIOUS
<1>1. NoPage \in PageRecord
  BY DEF NoPage, PageRecord
<1>2. \A u \in Users : Mounted("anonymous", u) \in PageSet
  BY <1>1 DEF Mounted, PageSet, PageRecord, NoPage
<1>3. Typed
  BY <1>2, IdleTyped, BoundsNat DEF Init, Typed
<1>4. Inserts /\ Rows
  BY IdleTyped DEF Init, Inserts, AtInsert, Rows
<1>5. AcceptedIsSaved
  BY NoneApart DEF Init, AcceptedIsSaved
<1>6. QED
  BY <1>3, <1>4, <1>5 DEF ContactsInv

----------------------------------------------------------------------------
(* Types.                                                                  *)

LEMMA Facts ==
    ASSUME Typed
    PROVE  /\ \A t \in Tabs : page[t] \in PageSet /\ page[t] \in PageRecord
           /\ \A k \in Tasks : task[k] \in TaskSet /\ task[k] \in TaskRecord
           /\ page \in [Tabs -> PageSet] /\ task \in [Tasks -> TaskSet]
           /\ account \in [Tabs -> Users]
  BY DEF Typed, PageSet, TaskSet

LEMMA GotoTyped ==
    ASSUME Typed, NEW k \in Tasks, NEW pc \in {"audit", "select", "insert", "reply"}, Goto(k, pc),
           task[k].pc # "idle", pc # "reply" => task[k].req \in Requests
    PROVE  /\ task' \in [Tasks -> TaskSet]
           /\ task'[k].pc = pc /\ task'[k].req = task[k].req /\ task'[k].kind = task[k].kind
           /\ \A j \in Tasks \ {k} : task'[j] = task[j]
<1> DEFINE new == [task[k] EXCEPT !.pc = pc]
<1>1. /\ new \in TaskRecord /\ new.pc = pc /\ new.req = task[k].req /\ new.kind = task[k].kind
  BY Facts DEF TaskRecord
<1>2. task' = [task EXCEPT ![k] = new]
  BY Facts DEF Goto
<1> HIDE DEF new
<1>3. new \in TaskSet
  BY <1>1, Facts DEF TaskSet
<1>4. QED
  BY <1>1, <1>2, <1>3, Facts

\* A handler that nobody waits for any more.
LEMMA UntabTyped ==
    ASSUME NEW h \in TaskSet
    PROVE  LET new == [h EXCEPT !.tab = None]
           IN  new \in TaskSet /\ new.pc = h.pc /\ new.req = h.req
<1> DEFINE new == [h EXCEPT !.tab = None]
<1>1. h \in TaskRecord
  BY DEF TaskSet
<1>2. /\ new \in TaskRecord /\ new.pc = h.pc /\ new.req = h.req /\ new.kind = h.kind
      /\ new.row = h.row
  BY <1>1 DEF TaskRecord
<1> HIDE DEF new
<1>3. new \in TaskSet
  BY <1>2 DEF TaskSet
<1>4. QED
  BY <1>2, <1>3 DEF new

\* What the tables and the history see of a step that leaves them alone.
SameInserts ==
    /\ \A k \in Tasks : AtInsert(k)' <=> AtInsert(k)
    /\ \A k \in Tasks : AtInsert(k) => task'[k].req = task[k].req

Still == UNCHANGED <<tables, history>> /\ SameInserts

\* The types of what the pages and their calls change.
ClientTyped ==
    /\ made \in 0 .. MaxCalls /\ account \in [Tabs -> Users] /\ page \in [Tabs -> PageSet]
    /\ task \in [Tasks -> TaskSet] /\ inputs \in Nat /\ faults \in Nat

LEMMA SetTask ==
    ASSUME Typed, NEW k \in Tasks, NEW new \in TaskSet, task' = [task EXCEPT ![k] = new],
           ~AtInsert(k), new.pc # "insert"
    PROVE  task' \in [Tasks -> TaskSet] /\ SameInserts
<1>1. task' \in [Tasks -> TaskSet] /\ task'[k] = new /\ \A j \in Tasks \ {k} : task'[j] = task[j]
  BY Facts
<1>2. QED
  BY <1>1 DEF SameInserts, AtInsert

LEMMA SetPage ==
    ASSUME Typed, NEW t \in Tabs, NEW new \in PageSet, page' = [page EXCEPT ![t] = new]
    PROVE  page' \in [Tabs -> PageSet]
  BY Facts

LEMMA IdleFacts ==
    ASSUME Typed, NEW k \in Tasks, Idle(k)
    PROVE  ~AtInsert(k) /\ task[k].pc = "idle"
  BY IdleTyped DEF Idle, AtInsert

LEMMA CallTyped ==
    ASSUME Typed, NEW k \in Tasks, NEW t \in Tabs, NEW kind \in {"accept", "reject", "list"},
           NEW r \in Requests \cup {None}, kind # "list" => r \in Requests, Idle(k), Call(k, t, kind, r)
    PROVE  task' \in [Tasks -> TaskSet] /\ SameInserts
<1> DEFINE new == [IdleTask EXCEPT !.pc = kind, !.kind = kind, !.tab = t,
                                   !.user = account[t], !.req = r]
<1>1. account[t] \in Users
  BY Facts
<1>2. /\ new \in TaskRecord /\ new.pc = kind /\ new.kind = kind /\ new.req = r
  BY <1>1 DEF IdleTask, TaskRecord
<1>3. task' = [task EXCEPT ![k] = new]
  BY DEF Call
<1> HIDE DEF new
<1>4. new \in TaskSet /\ new.pc # "insert"
  BY <1>2 DEF TaskSet
<1>5. QED
  BY <1>3, <1>4, IdleFacts, SetTask

LEMMA MountedTyped ==
    ASSUME NEW at \in {"anonymous", "dashboard"}, NEW u \in Users
    PROVE  Mounted(at, u) \in PageSet
<1>1. Mounted(at, u) \in PageRecord /\ Mounted(at, u).user = u
  BY DEF Mounted, NoPage, PageRecord
<1>2. QED
  BY <1>1 DEF PageSet

LEMMA NoPageTyped == NoPage \in PageSet
<1>1. NoPage \in PageRecord /\ NoPage.at = None
  BY DEF NoPage, PageRecord
<1>2. QED
  BY <1>1, NoneApart DEF PageSet

LEMMA StillTask ==
    ASSUME UNCHANGED task
    PROVE  SameInserts
  BY DEF SameInserts, AtInsert

LEMMA OpenStill ==
    ASSUME Typed, NEW t \in Tabs, NEW at \in {"anonymous", "dashboard"}, NEW k \in Tasks,
           Open(t, at, k)
    PROVE  ClientTyped' /\ Still
<1>1. /\ UNCHANGED <<made, tables, account, faults, history>> /\ inputs' = inputs + 1 /\ Idle(k)
      /\ page' = [page EXCEPT ![t] = Mounted(at, account[t])]
  BY DEF Open
<1>2. account[t] \in Users
  BY Facts
<1>3. page' \in [Tabs -> PageSet]
  BY <1>1, <1>2, MountedTyped, SetPage
<1>4. task' \in [Tasks -> TaskSet] /\ SameInserts
  <2>1. CASE Call(k, t, "list", None)
    BY <1>1, <2>1, CallTyped
  <2>2. CASE UNCHANGED task
    BY <2>2, Facts, StillTask
  <2>3. QED
    BY <2>1, <2>2 DEF Open
<1>5. QED
  BY <1>1, <1>3, <1>4 DEF Typed, ClientTyped, Still

LEMMA LeaveStill ==
    ASSUME Typed, NEW t \in Tabs, Leave(t)
    PROVE  ClientTyped' /\ Still
<1>1. UNCHANGED <<made, tables, account, inputs, faults, history>> /\ page' = [page EXCEPT ![t] = NoPage]
  BY DEF Leave
<1>2. page' \in [Tabs -> PageSet]
  BY <1>1, NoPageTyped, SetPage
<1>3. ASSUME NEW k \in Tasks
      PROVE  task'[k] \in TaskSet /\ task'[k].pc = task[k].pc /\ task'[k].req = task[k].req
  <2>1. task'[k] = IF task[k].tab = t THEN [task[k] EXCEPT !.tab = None] ELSE task[k]
    BY DEF Leave
  <2>2. QED
    BY <2>1, Facts, UntabTyped
<1>4. task' \in [Tasks -> TaskSet]
  <2>1. task' = [k \in Tasks |-> task'[k]]
    BY DEF Leave
  <2>2. QED
    BY <1>3, <2>1
<1>5. SameInserts
  BY <1>3 DEF SameInserts, AtInsert
<1>6. QED
  BY <1>1, <1>2, <1>4, <1>5 DEF Typed, ClientTyped, Still

LEMMA SwitchAccountStill ==
    ASSUME Typed, NEW t \in Tabs, NEW u \in Users, SwitchAccount(t, u)
    PROVE  ClientTyped' /\ Still
  BY Facts, StillTask DEF SwitchAccount, Typed, ClientTyped, Still

\* A page that stays mounted.
LEMMA PageStays ==
    ASSUME NEW p \in PageSet, NEW new \in PageRecord, new.at = p.at, new.user = p.user
    PROVE  new \in PageSet
  BY DEF PageSet

LEMMA MatchStill ==
    ASSUME Typed, NEW s \in Tabs, NEW t \in Tabs, Match(s, t)
    PROVE  ClientTyped' /\ Still
<1> DEFINE M(x, y) == [call |-> made + 1, from |-> page[x].user, to |-> page[y].user]
           Found(x, y) == [page[x] EXCEPT !.match = M(x, y), !.sent = FALSE, !.show = FALSE]
<1>1. /\ UNCHANGED <<tables, account, inputs, task, faults, history>> /\ made' = made + 1
      /\ made < MaxCalls /\ \A x \in {s, t} : page[x].at = "anonymous"
      /\ page' = [page EXCEPT ![s] = Found(s, t), ![t] = Found(t, s)]
  BY DEF Match
<1>2. \A x \in {s, t} : page[x].user \in Users /\ page[x] \in PageRecord
  BY <1>1, Facts DEF PageSet
<1>3. made' \in 0 .. MaxCalls /\ made + 1 \in 1 .. MaxCalls
  BY <1>1, BoundsNat DEF Typed
<1>4. \A x, y \in {s, t} : M(x, y) \in Requests
  BY <1>2, <1>3 DEF Requests
<1> HIDE DEF M
<1>5. ASSUME NEW x \in {s, t}, NEW y \in {s, t} PROVE Found(x, y) \in PageSet
  <2>1. Found(x, y) \in PageRecord /\ Found(x, y).user = page[x].user
    BY <1>2, <1>4 DEF PageRecord
  <2>2. QED
    BY <1>2, <2>1 DEF PageSet
<1> HIDE DEF Found
<1>6. page' \in [Tabs -> PageSet]
  BY <1>1, <1>5, Facts
<1>7. QED
  BY <1>1, <1>3, <1>6, StillTask DEF Typed, ClientTyped, Still

LEMMA CallEndedStill ==
    ASSUME Typed, NEW t \in Tabs, CallEnded(t)
    PROVE  ClientTyped' /\ Still
<1> DEFINE new == [page[t] EXCEPT !.match = None, !.sent = FALSE, !.show = FALSE]
<1>1. /\ UNCHANGED <<made, tables, account, inputs, task, faults, history>>
      /\ page' = [page EXCEPT ![t] = new]
  BY Facts DEF CallEnded
<1>2. new \in PageRecord /\ new.at = page[t].at /\ new.user = page[t].user
  BY Facts DEF PageRecord
<1> HIDE DEF new
<1>3. page' \in [Tabs -> PageSet]
  BY <1>1, <1>2, Facts, PageStays
<1>4. QED
  BY <1>1, <1>3, StillTask DEF Typed, ClientTyped, Still

LEMMA SaveContactStill ==
    ASSUME Typed, NEW t \in Tabs, NEW k \in Tasks, SaveContact(t, k)
    PROVE  ClientTyped' /\ Still
<1> DEFINE new == [page[t] EXCEPT !.sent = TRUE]
           h == [IdleTask EXCEPT !.pc = "ask", !.kind = "ask", !.user = page[t].user,
                                 !.req = page[t].match]
<1>1. /\ UNCHANGED <<made, tables, account, inputs, faults, history>> /\ Idle(k)
      /\ page' = [page EXCEPT ![t] = new] /\ task' = [task EXCEPT ![k] = h]
      /\ page[t].match # None
  BY Facts DEF SaveContact
<1>2. new \in PageRecord /\ new.at = page[t].at /\ new.user = page[t].user
  BY Facts DEF PageRecord
<1>3. page[t].match \in Requests /\ page[t].user \in Users \cup {None}
  BY <1>1, Facts DEF PageRecord
<1>4. h \in TaskRecord /\ h.pc = "ask" /\ h.kind = "ask" /\ h.req = page[t].match
  BY <1>3 DEF IdleTask, TaskRecord
<1> HIDE DEF new, h
<1>5. page' \in [Tabs -> PageSet]
  BY <1>1, <1>2, Facts, PageStays
<1>6. h \in TaskSet /\ h.pc # "insert"
  BY <1>3, <1>4 DEF TaskSet
<1>7. task' \in [Tasks -> TaskSet] /\ SameInserts
  BY <1>1, <1>6, IdleFacts, SetTask
<1>8. QED
  BY <1>1, <1>5, <1>7 DEF Typed, ClientTyped, Still

LEMMA RespondStill ==
    ASSUME Typed, NEW t \in Tabs, NEW kind \in {"accept", "reject"}, NEW k \in Tasks,
           Respond(t, kind, k)
    PROVE  ClientTyped' /\ Still
<1> DEFINE new == [page[t] EXCEPT !.show = FALSE, !.responded = TRUE]
<1>1. /\ UNCHANGED <<made, tables, account, inputs, faults, history>> /\ Idle(k)
      /\ page' = [page EXCEPT ![t] = new]
  BY Facts DEF Respond
<1>2. new \in PageRecord /\ new.at = page[t].at /\ new.user = page[t].user
  BY Facts DEF PageRecord
<1> HIDE DEF new
<1>3. page' \in [Tabs -> PageSet]
  BY <1>1, <1>2, Facts, PageStays
<1>4. task' \in [Tasks -> TaskSet] /\ SameInserts
  <2>1. CASE page[t].incoming = None
    BY <2>1, Facts, StillTask DEF Respond
  <2>2. CASE page[t].incoming # None
    <3>1. page[t].incoming \in Requests /\ Call(k, t, kind, page[t].incoming)
      BY <2>2, Facts DEF Respond, PageRecord
    <3>2. QED
      BY <1>1, <3>1, CallTyped
  <2>3. QED
    BY <2>1, <2>2
<1>5. QED
  BY <1>1, <1>3, <1>4 DEF Typed, ClientTyped, Still

LEMMA AcceptRequestStill ==
    ASSUME Typed, NEW t \in Tabs, NEW k \in Tasks, AcceptRequest(t, k)
    PROVE  ClientTyped' /\ Still
<1>1. /\ UNCHANGED <<made, tables, client, faults, history>> /\ Idle(k)
      /\ Call(k, t, "accept", page[t].incoming) /\ page[t].incoming # None
  BY DEF AcceptRequest
<1>2. page[t].incoming \in Requests
  BY <1>1, Facts DEF PageRecord
<1>3. task' \in [Tasks -> TaskSet] /\ SameInserts
  BY <1>1, <1>2, CallTyped
<1>4. QED
  BY <1>1, <1>3 DEF Typed, ClientTyped, Still, client

LEMMA DismissStill ==
    ASSUME Typed, NEW t \in Tabs, Dismiss(t)
    PROVE  ClientTyped' /\ Still
<1> DEFINE new == [page[t] EXCEPT !.incoming = None]
<1>1. /\ UNCHANGED <<made, tables, account, inputs, task, faults, history>>
      /\ page' = [page EXCEPT ![t] = new]
  BY Facts DEF Dismiss
<1>2. new \in PageRecord /\ new.at = page[t].at /\ new.user = page[t].user
  BY Facts DEF PageRecord
<1> HIDE DEF new
<1>3. page' \in [Tabs -> PageSet]
  BY <1>1, <1>2, Facts, PageStays
<1>4. QED
  BY <1>1, <1>3, StillTask DEF Typed, ClientTyped, Still

LEMMA EditContactStill ==
    ASSUME Typed, NEW t \in Tabs, NEW c \in page[t].list, NEW kind \in {"remove", "nickname"},
           NEW n \in Nicknames \cup {None}, NEW k \in Tasks, EditContact(t, c, kind, n, k)
    PROVE  ClientTyped' /\ Still
<1> DEFINE h == [IdleTask EXCEPT !.pc = kind, !.kind = kind, !.tab = t, !.user = account[t],
                                 !.row = c, !.nickname = n]
<1>1. /\ UNCHANGED <<made, tables, account, page, faults, history>> /\ Idle(k)
      /\ inputs' = inputs + 1 /\ task' = [task EXCEPT ![k] = h]
  BY DEF EditContact
<1>2. c \in Contact /\ account[t] \in Users
  BY Facts DEF PageRecord
<1>3. h \in TaskRecord /\ h.pc = kind /\ h.kind = kind /\ h.row = c
  BY <1>2 DEF IdleTask, TaskRecord
<1> HIDE DEF h
<1>4. h \in TaskSet /\ h.pc # "insert"
  BY <1>2, <1>3 DEF TaskSet
<1>5. task' \in [Tasks -> TaskSet] /\ SameInserts
  BY <1>1, <1>4, IdleFacts, SetTask
<1>6. QED
  BY <1>1, <1>5 DEF Typed, ClientTyped, Still

LEMMA NotifyStill ==
    ASSUME Typed, NEW k \in Tasks, Notify(k)
    PROVE  ClientTyped' /\ Still
<1> DEFINE r == task[k].req
<1>1. /\ UNCHANGED <<made, tables, account, inputs, faults, history>>
      /\ task[k].pc \in {"audit", "select"} /\ task' = [task EXCEPT ![k] = IdleTask]
      /\ page' = [t \in Tabs |-> IF page[t].user = r.to THEN Shown(t, r) ELSE page[t]]
  BY DEF Notify
<1>2. r \in Requests
  BY <1>1, Facts DEF TaskSet
<1> HIDE DEF r
<1>3. ASSUME NEW t \in Tabs PROVE Shown(t, r) \in PageSet
  <2>1. page[t].show \in BOOLEAN /\ page[t] \in PageRecord
    BY Facts DEF PageRecord
  <2> DEFINE b == page[t].show \/ page[t].at = "anonymous"
  <2>2. b \in BOOLEAN /\ Shown(t, r) = [page[t] EXCEPT !.incoming = r, !.show = b]
    BY DEF Shown
  <2> HIDE DEF b
  <2>3. /\ Shown(t, r) \in PageRecord /\ Shown(t, r).at = page[t].at
        /\ Shown(t, r).user = page[t].user
    BY <1>2, <2>1, <2>2 DEF PageRecord
  <2>4. QED
    BY <2>3, Facts, PageStays
<1>4. page' \in [Tabs -> PageSet]
  BY <1>1, <1>3, Facts
<1>5. task' \in [Tasks -> TaskSet] /\ SameInserts
  BY <1>1, IdleTyped, SetTask DEF AtInsert
<1>6. QED
  BY <1>1, <1>4, <1>5 DEF Typed, ClientTyped, Still

LEMMA ListStill ==
    ASSUME Typed, NEW k \in Tasks, List(k)
    PROVE  ClientTyped' /\ Still /\ task'[k].rows = RowsOf(task[k].user)
<1> DEFINE h == [task[k] EXCEPT !.pc = "reply", !.rows = RowsOf(task[k].user)]
<1>1. /\ UNCHANGED <<made, tables, client, faults, history>> /\ task[k].pc = "list"
      /\ task' = [task EXCEPT ![k] = h]
  BY Facts DEF List
<1>2. RowsOf(task[k].user) \in SUBSET Contact
  BY DEF Typed, RowsOf
<1>3. /\ h \in TaskRecord /\ h.pc = "reply" /\ h.kind = task[k].kind /\ h.req = task[k].req
      /\ h.rows = RowsOf(task[k].user)
  BY <1>2, Facts DEF TaskRecord
<1> HIDE DEF h
<1>4. h \in TaskSet /\ h.pc # "insert"
  BY <1>1, <1>3, Facts DEF TaskSet
<1>5. task' \in [Tasks -> TaskSet] /\ SameInserts /\ task'[k] = h
  BY <1>1, <1>4, SetTask, Facts DEF AtInsert
<1>6. QED
  BY <1>1, <1>3, <1>5 DEF Typed, ClientTyped, Still, client

LEMMA DropStill ==
    ASSUME Typed, NEW k \in Tasks, Drop(k)
    PROVE  ClientTyped' /\ Still
<1>1. /\ UNCHANGED <<made, tables, client, faults, history>> /\ ~AtInsert(k)
      /\ task' = [task EXCEPT ![k] = IdleTask]
  BY DEF Drop, Answered, AtInsert
<1>2. task' \in [Tasks -> TaskSet] /\ SameInserts
  BY <1>1, IdleTyped, SetTask
<1>3. QED
  BY <1>1, <1>2 DEF Typed, ClientTyped, Still, client

LEMMA ReplyStill ==
    ASSUME Typed, NEW k \in Tasks, Reply(k)
    PROVE  ClientTyped' /\ Still
<1> DEFINE t == task[k].tab
           kind == task[k].kind
           Again(next) == [IdleTask EXCEPT !.pc = "list", !.kind = next, !.tab = t,
                                           !.user = account[t], !.req = task[k].req]
<1>1. /\ UNCHANGED <<made, tables, account, inputs, faults, history>>
      /\ task[k].pc \in {"reply", "error"} /\ t # None
  BY DEF Reply, Answered
<1>2. t \in Tabs /\ task[k] \in TaskRecord /\ task[k].req \in Requests \cup {None}
  BY <1>1, Facts DEF TaskRecord
<1>3. kind = "accept" => task[k].req \in Requests
  BY <1>1, Facts DEF TaskSet
<1>4. ASSUME NEW next \in {"list", "accept-list"}, next = "accept-list" => kind = "accept"
      PROVE  Again(next) \in TaskSet /\ Again(next).pc # "insert"
  <2>1. account[t] \in Users
    BY <1>2, Facts
  <2>2. /\ Again(next) \in TaskRecord /\ Again(next).pc = "list" /\ Again(next).kind = next
        /\ Again(next).req = task[k].req
    BY <1>2, <2>1 DEF IdleTask, TaskRecord
  <2>3. QED
    BY <1>3, <1>4, <2>2 DEF TaskSet
<1>5. PICK h \in TaskSet : h.pc # "insert" /\ task' = [task EXCEPT ![k] = h]
  <2>1. CASE task' = [task EXCEPT ![k] = IdleTask]
    BY <2>1, IdleTyped
  <2>2. CASE kind = "accept" /\ task' = [task EXCEPT ![k] = Again("accept-list")]
    BY <1>4, <2>2
  <2>3. CASE task' = [task EXCEPT ![k] = Again("list")]
    BY <1>4, <2>3
  <2> HIDE DEF Again
  <2>4. QED
    BY <2>1, <2>2, <2>3 DEF Reply, Again
<1>7. task' \in [Tasks -> TaskSet] /\ SameInserts
  BY <1>1, <1>5, SetTask DEF AtInsert
<1>8. page' \in [Tabs -> PageSet]
  <2>1. /\ page[t] \in PageRecord /\ page[t].list \in SUBSET Contact
        /\ page[t].incoming \in Requests \cup {None}
    BY <1>2, Facts DEF PageRecord
  <2>2. ASSUME NEW l \in SUBSET Contact, NEW i \in Requests \cup {None},
               page' = [page EXCEPT ![t].list = l, ![t].incoming = i]
        PROVE  page' \in [Tabs -> PageSet]
    <3> DEFINE new == [page[t] EXCEPT !.list = l, !.incoming = i]
    <3>1. page' = [page EXCEPT ![t] = new]
      BY <1>2, <2>2, Facts
    <3> HIDE DEF t, kind
    <3>2. new \in PageRecord /\ new.at = page[t].at /\ new.user = page[t].user
      BY <2>1 DEF PageRecord
    <3> HIDE DEF new
    <3>3. QED
      BY <1>2, <3>1, <3>2, Facts, PageStays
  <2>3. CASE page' = Listed(k)
    <3> DEFINE l == IF task[k].pc = "reply" THEN task[k].rows ELSE page[t].list
               i == IF kind = "accept-list" THEN None ELSE page[t].incoming
    <3>1. l \in SUBSET Contact /\ i \in Requests \cup {None}
      BY <1>2, <2>1 DEF TaskRecord
    <3>2. page' = [page EXCEPT ![t].list = l, ![t].incoming = i]
      BY <2>3, <1>2, Facts DEF Listed
    <3> HIDE DEF l, i
    <3>3. QED
      BY <2>2, <3>1, <3>2
  <2>4. CASE page' = [page EXCEPT ![t].list = {c \in @ : ~SameRow(c, task[k].row)}]
    <3> DEFINE l == {c \in page[t].list : ~SameRow(c, task[k].row)}
               new == [page[t] EXCEPT !.list = l]
    <3>1. l \in SUBSET Contact
      BY <2>1
    <3>2. page' = [page EXCEPT ![t] = new]
      BY <1>2, <2>4, Facts
    <3> HIDE DEF l
    <3>3. new \in PageRecord /\ new.at = page[t].at /\ new.user = page[t].user
      BY <2>1, <3>1 DEF PageRecord
    <3> HIDE DEF new
    <3>4. QED
      BY <1>2, <3>2, <3>3, Facts, PageStays
  <2>5. CASE page' = [page EXCEPT ![t].incoming = None]
    <3> DEFINE new == [page[t] EXCEPT !.incoming = None]
    <3>1. page' = [page EXCEPT ![t] = new]
      BY <1>2, <2>5, Facts
    <3>2. new \in PageRecord /\ new.at = page[t].at /\ new.user = page[t].user
      BY <2>1 DEF PageRecord
    <3> HIDE DEF new
    <3>3. QED
      BY <1>2, <3>1, <3>2, Facts, PageStays
  <2>6. CASE page' = page
    BY <2>6, Facts
  <2>7. QED
    BY <2>3, <2>4, <2>5, <2>6 DEF Reply
<1>9. QED
  BY <1>1, <1>7, <1>8 DEF Typed, ClientTyped, Still

LEMMA NetFailsStill ==
    ASSUME Typed, NEW k \in Tasks, NetFails(k)
    PROVE  ClientTyped' /\ Still
<1> DEFINE t == task[k].tab
<1>1. /\ UNCHANGED <<made, tables, account, inputs, history>> /\ t # None /\ faults' = faults + 1
      /\ page' = IF page[t].at = "anonymous" THEN [page EXCEPT ![t].incoming = None] ELSE page
  BY DEF NetFails
<1>2. t \in Tabs
  BY <1>1, Facts DEF TaskRecord
<1>3. page' \in [Tabs -> PageSet]
  <2>1. CASE page' = page
    BY <2>1, Facts
  <2>2. CASE page' = [page EXCEPT ![t].incoming = None]
    <3> DEFINE new == [page[t] EXCEPT !.incoming = None]
    <3>1. page' = [page EXCEPT ![t] = new]
      BY <1>2, <2>2, Facts
    <3>2. new \in PageRecord /\ new.at = page[t].at /\ new.user = page[t].user
      BY <1>2, Facts DEF PageRecord
    <3> HIDE DEF new
    <3>3. QED
      BY <1>2, <3>1, <3>2, Facts, PageStays
  <2>3. QED
    BY <1>1, <2>1, <2>2
<1>4. task' \in [Tasks -> TaskSet] /\ SameInserts
  <2>1. CASE task' = [task EXCEPT ![k].tab = None]
    <3> DEFINE h == [task[k] EXCEPT !.tab = None]
    <3>1. task' = [task EXCEPT ![k] = h]
      BY <2>1, Facts
    <3>2. h \in TaskSet /\ h.pc = task[k].pc /\ h.req = task[k].req
      BY Facts, UntabTyped
    <3> HIDE DEF h
    <3>3. QED
      BY <3>1, <3>2, Facts DEF SameInserts, AtInsert
  <2>2. CASE ~AtInsert(k) /\ task' = [task EXCEPT ![k] = IdleTask]
    BY <2>2, IdleTyped, SetTask
  <2>3. QED
    BY <2>1, <2>2 DEF NetFails, AtInsert
<1>5. QED
  BY <1>1, <1>3, <1>4 DEF Typed, ClientTyped, Still

----------------------------------------------------------------------------
(* The handshake's steps.                                                  *)

StageMap == [r \in Requests |-> Stage(r)]

BookStep == Book!Next \/ UNCHANGED <<StageMap, Pairs>>

LEMMA StageFacts ==
    ASSUME Typed, NEW r \in Requests
    PROVE  /\ Stage(r) = "unasked" <=> request[r] = None
           /\ Stage(r) = "open" <=> request[r] = "pending"
           /\ Stage(r) = "agreed" <=> request[r] = "accepted" /\ Inserting(r)
           /\ Stage(r) = "closed" <=> request[r] = "rejected" \/ (request[r] = "accepted" /\ ~Inserting(r))
           /\ Stage(r) \in {"unasked", "open", "agreed", "closed"}
<1>1. request[r] \in {"pending", "accepted", "rejected", None}
  BY DEF Typed
<1>2. QED
  BY <1>1, NoneApart DEF Stage

LEMMA StageMove ==
    ASSUME NEW r \in Requests, NEW old, NEW new, Stage(r) = old, Stage(r)' = new,
           \A q \in Requests \ {r} : Stage(q)' = Stage(q)
    PROVE  Book!Move(r, old, new)
  BY DEF Book!Move

LEMMA StillKeeps ==
    ASSUME ContactsInv, ClientTyped', Still
    PROVE  ContactsInv' /\ BookStep
<1>1. UNCHANGED <<request, contacts, agreed, failed, removed>>
  BY DEF Still, tables, history
<1>2. \A r \in Requests : Inserting(r)' <=> Inserting(r)
  BY DEF Still, SameInserts, Inserting, AtInsert
<1>3. Typed'
  BY <1>1 DEF ContactsInv, Typed, ClientTyped
<1>4. Inserts'
  BY <1>1 DEF ContactsInv, Inserts, Still, SameInserts
<1>5. Rows' /\ Pairs' = Pairs
  BY <1>1 DEF ContactsInv, Rows, Pairs
<1>6. AcceptedIsSaved'
  BY <1>1, <1>2, <1>5 DEF ContactsInv, AcceptedIsSaved
<1>7. \A r \in Requests : Stage(r)' = Stage(r)
  BY <1>1, <1>2 DEF Stage
<1>8. StageMap' = StageMap
  BY <1>7 DEF StageMap
<1>9. QED
  BY <1>3, <1>4, <1>5, <1>6, <1>8 DEF ContactsInv, BookStep

\* A step of a handler that is not at its INSERT and does not come to it.
LEMMA GotoStays ==
    ASSUME Typed, NEW k \in Tasks, NEW pc \in {"audit", "select", "reply"}, Goto(k, pc),
           task[k].pc \notin {"idle", "insert"}, pc # "reply" => task[k].req \in Requests
    PROVE  task' \in [Tasks -> TaskSet] /\ SameInserts
<1>1. /\ task' \in [Tasks -> TaskSet] /\ task'[k].pc = pc
      /\ \A j \in Tasks \ {k} : task'[j] = task[j]
  BY GotoTyped
<1>2. QED
  BY <1>1 DEF SameInserts, AtInsert

\* The row of one request changes, and it is neither accepted before nor after.
LEMMA RowMoves ==
    ASSUME ContactsInv, NEW r \in Requests, NEW s \in {"pending", "rejected"},
           request[r] # "accepted", request' = [request EXCEPT ![r] = s],
           ClientTyped', SameInserts, UNCHANGED <<contacts, history>>
    PROVE  /\ ContactsInv' /\ Pairs' = Pairs
           /\ \A q \in Requests \ {r} : Stage(q)' = Stage(q)
           /\ Stage(r)' = IF s = "pending" THEN "open" ELSE "closed"
<1>1. /\ Typed /\ request \in [Requests -> {"pending", "accepted", "rejected", None}]
      /\ UNCHANGED <<contacts, agreed, failed, removed>>
  BY DEF ContactsInv, Typed, history
<1>2. /\ request'[r] = s /\ \A q \in Requests \ {r} : request'[q] = request[q]
      /\ request' \in [Requests -> {"pending", "accepted", "rejected", None}]
  BY <1>1
<1>3. \A q \in Requests : Inserting(q)' <=> Inserting(q)
  BY DEF SameInserts, Inserting, AtInsert
<1>4. Typed'
  BY <1>1, <1>2 DEF Typed, ClientTyped
<1>5. Inserts'
  <2>1. ASSUME NEW k \in Tasks, AtInsert(k)'
        PROVE  /\ AtInsert(k) /\ task'[k].req = task[k].req
               /\ request'[task'[k].req] = "accepted" /\ task'[k].req \in agreed'
    <3>1. AtInsert(k) /\ task'[k].req = task[k].req
      BY <2>1 DEF SameInserts
    <3>2. task[k].req \in Requests /\ request[task[k].req] = "accepted" /\ task[k].req \in agreed
      BY <1>1, <3>1, Facts DEF ContactsInv, Inserts, AtInsert, TaskSet
    <3>3. QED
      BY <1>1, <1>2, <3>1, <3>2
  <2>2. QED
    BY <2>1 DEF ContactsInv, Inserts
<1>6. Rows' /\ Pairs' = Pairs
  BY <1>1 DEF ContactsInv, Rows, Pairs
<1>7. AcceptedIsSaved'
  BY <1>1, <1>2, <1>3, <1>6 DEF ContactsInv, AcceptedIsSaved
<1>8. \A q \in Requests \ {r} : Stage(q)' = Stage(q)
  BY <1>2, <1>3 DEF Stage
<1>9. Stage(r)' = IF s = "pending" THEN "open" ELSE "closed"
  BY <1>2, NoneApart DEF Stage
<1>10. QED
  BY <1>4, <1>5, <1>6, <1>7, <1>8, <1>9 DEF ContactsInv

LEMMA InsertRequestStep ==
    ASSUME ContactsInv, NEW k \in Tasks, InsertRequest(k)
    PROVE  ContactsInv' /\ BookStep
<1>1. Typed /\ task[k].pc = "ask" /\ UNCHANGED <<made, contacts, client, faults, history>>
  BY DEF InsertRequest, ContactsInv
<1>2. PICK r \in Requests : r = task[k].req
  BY <1>1, Facts DEF TaskSet
<1>3. task' \in [Tasks -> TaskSet] /\ SameInserts
  <2>1. Goto(k, "audit") \/ Goto(k, "select")
    BY DEF InsertRequest
  <2>2. QED
    BY <1>1, <1>2, <2>1, GotoStays
<1>4. ClientTyped'
  BY <1>1, <1>3 DEF Typed, ClientTyped, client
<1>5. CASE request[r] = None
  <2>1. request' = [request EXCEPT ![r] = "pending"] /\ request[r] # "accepted"
    BY <1>2, <1>5, NoneApart DEF InsertRequest
  <2>2. /\ ContactsInv' /\ Pairs' = Pairs /\ \A q \in Requests \ {r} : Stage(q)' = Stage(q)
        /\ Stage(r)' = "open"
    BY <1>1, <1>2, <1>3, <1>4, <2>1, RowMoves
  <2>3. Stage(r) = "unasked"
    BY <1>1, <1>2, <1>5, StageFacts
  <2>4. Book!Move(r, "unasked", "open")
    BY <1>2, <2>2, <2>3, StageMove
  <2>5. Book!Next
    BY <1>2, <2>2, <2>4 DEF Book!Next, Book!Ask
  <2>6. QED
    BY <2>2, <2>5 DEF BookStep
<1>6. CASE request[r] # None
  <2>1. Still
    BY <1>1, <1>2, <1>3, <1>6 DEF InsertRequest, Still, tables
  <2>2. QED
    BY <1>4, <2>1, StillKeeps
<1>7. QED
  BY <1>5, <1>6

LEMMA MarkRejectedStep ==
    ASSUME ContactsInv, NEW k \in Tasks, MarkRejected(k)
    PROVE  ContactsInv' /\ BookStep
<1>1. Typed /\ task[k].pc = "reject" /\ UNCHANGED <<made, contacts, client, faults, history>>
  BY DEF MarkRejected, ContactsInv
<1>2. PICK r \in Requests : r = task[k].req
  BY <1>1, Facts DEF TaskSet
<1>3. task' \in [Tasks -> TaskSet] /\ SameInserts
  BY <1>1, GotoStays DEF MarkRejected
<1>4. ClientTyped'
  BY <1>1, <1>3 DEF Typed, ClientTyped, client
<1>5. CASE Acceptable(k)
  <2>1. request' = [request EXCEPT ![r] = "rejected"] /\ request[r] = "pending"
    BY <1>2, <1>5 DEF MarkRejected, Acceptable
  <2>2. /\ ContactsInv' /\ Pairs' = Pairs /\ \A q \in Requests \ {r} : Stage(q)' = Stage(q)
        /\ Stage(r)' = "closed"
    BY <1>1, <1>2, <1>3, <1>4, <2>1, RowMoves
  <2>3. Stage(r) = "open"
    BY <1>1, <1>2, <2>1, StageFacts
  <2>4. Book!Move(r, "open", "closed")
    BY <1>2, <2>2, <2>3, StageMove
  <2>5. Book!Next
    BY <1>2, <2>2, <2>4 DEF Book!Next, Book!Decline
  <2>6. QED
    BY <2>2, <2>5 DEF BookStep
<1>6. CASE ~Acceptable(k)
  <2>1. Still
    BY <1>1, <1>3, <1>6 DEF MarkRejected, Still, tables
  <2>2. QED
    BY <1>4, <2>1, StillKeeps
<1>7. QED
  BY <1>5, <1>6

LEMMA MarkAcceptedStep ==
    ASSUME ContactsInv, NEW k \in Tasks, MarkAccepted(k)
    PROVE  ContactsInv' /\ BookStep
<1>1. /\ Typed /\ task[k].pc = "accept" /\ UNCHANGED <<made, contacts, client, faults, failed, removed>>
      /\ request \in [Requests -> {"pending", "accepted", "rejected", None}]
  BY DEF MarkAccepted, ContactsInv, Typed
<1>2. PICK r \in Requests : r = task[k].req
  BY <1>1, Facts DEF TaskSet
<1>3. CASE Acceptable(k)
  <2>1. /\ request' = [request EXCEPT ![r] = "accepted"] /\ request[r] = "pending"
        /\ agreed' = agreed \cup {r} /\ Goto(k, "insert")
    BY <1>2, <1>3 DEF MarkAccepted, Acceptable
  <2>2. /\ task' \in [Tasks -> TaskSet] /\ task'[k].pc = "insert" /\ task'[k].req = r
        /\ \A j \in Tasks \ {k} : task'[j] = task[j]
    BY <1>1, <1>2, <2>1, GotoTyped
  <2>3. /\ request'[r] = "accepted" /\ \A q \in Requests \ {r} : request'[q] = request[q]
        /\ request' \in [Requests -> {"pending", "accepted", "rejected", None}]
    BY <1>1, <1>2, <2>1
  <2>4. Typed'
    BY <1>1, <1>2, <2>1, <2>2, <2>3 DEF Typed, client
  <2>5. \A j \in Tasks : AtInsert(j) => task[j].req \in Requests /\ task[j].req # r
    BY <1>1, <2>1, Facts DEF ContactsInv, Inserts, AtInsert, TaskSet
  <2>6. Inserts'
    <3>1. ASSUME NEW j \in Tasks, AtInsert(j)', j # k
          PROVE  /\ AtInsert(j) /\ task'[j].req = task[j].req /\ task[j].req # r
                 /\ request'[task'[j].req] = "accepted" /\ task'[j].req \in agreed'
      BY <2>1, <2>2, <2>3, <2>5, <3>1 DEF ContactsInv, Inserts, AtInsert
    <3>2. QED
      BY <1>2, <2>1, <2>2, <2>3, <3>1 DEF ContactsInv, Inserts
  <2>7. Inserting(r)' /\ \A q \in Requests \ {r} : Inserting(q)' <=> Inserting(q)
    <3>1. task[k].pc # "insert"
      BY <1>1
    <3>2. QED
      BY <2>2, <3>1 DEF Inserting
  <2>8. Rows' /\ Pairs' = Pairs
    BY <1>1, <2>1 DEF ContactsInv, Rows, Pairs
  <2>9. AcceptedIsSaved'
    BY <1>1, <1>2, <2>3, <2>7, <2>8 DEF ContactsInv, AcceptedIsSaved
  <2>10. ContactsInv'
    BY <2>4, <2>6, <2>8, <2>9 DEF ContactsInv
  <2>11. Stage(r) = "open"
    BY <1>1, <1>2, <2>1, StageFacts
  <2>12. Stage(r)' = "agreed" /\ \A q \in Requests \ {r} : Stage(q)' = Stage(q)
    BY <2>3, <2>7, NoneApart DEF Stage
  <2>13. Book!Move(r, "open", "agreed")
    BY <1>2, <2>11, <2>12, StageMove
  <2>14. Book!Next
    BY <1>2, <2>8, <2>13 DEF Book!Next, Book!Agree
  <2>15. QED
    BY <2>10, <2>14 DEF BookStep
<1>4. CASE ~Acceptable(k)
  <2>1. Goto(k, "reply") /\ UNCHANGED <<request, agreed>>
    BY <1>4 DEF MarkAccepted
  <2>2. task' \in [Tasks -> TaskSet] /\ SameInserts
    BY <1>1, <2>1, GotoStays
  <2>3. ClientTyped' /\ Still
    BY <1>1, <2>1, <2>2 DEF Typed, ClientTyped, Still, client, tables, history
  <2>4. QED
    BY <2>3, StillKeeps
<1>5. QED
  BY <1>3, <1>4

\* The only handler that holds request r leaves its INSERT.
LEMMA InsertEnds ==
    ASSUME ContactsInv, NEW k \in Tasks, AtInsert(k), NEW r \in Requests, r = task[k].req,
           task'[k].pc # "insert", \A j \in Tasks \ {k} : task'[j] = task[j],
           UNCHANGED <<request, agreed>>
    PROVE  /\ Inserts' /\ ~Inserting(r)' /\ request[r] = "accepted" /\ r \in agreed
           /\ \A q \in Requests \ {r} : Inserting(q)' <=> Inserting(q)
           /\ Book!Move(r, "agreed", "closed")
<1>1. Typed /\ request[r] = "accepted" /\ r \in agreed /\ Inserting(r)
  BY DEF ContactsInv, Inserts, AtInsert, Inserting
<1>2. \A j \in Tasks : AtInsert(j)' => AtInsert(j) /\ j # k /\ task'[j] = task[j]
  BY DEF AtInsert
<1>3. Inserts'
  BY <1>2 DEF ContactsInv, Inserts
<1>4. ~Inserting(r)'
  BY <1>2 DEF ContactsInv, Inserts, Inserting, AtInsert
<1>5. \A q \in Requests \ {r} : Inserting(q)' <=> Inserting(q)
  BY DEF Inserting
<1>6. Stage(r) = "agreed"
  BY <1>1, StageFacts
<1>7. Stage(r)' = "closed" /\ \A q \in Requests \ {r} : Stage(q)' = Stage(q)
  BY <1>1, <1>4, <1>5, NoneApart DEF Stage
<1>8. Book!Move(r, "agreed", "closed")
  BY <1>6, <1>7, StageMove
<1>9. QED
  BY <1>1, <1>3, <1>4, <1>5, <1>8

LEMMA RequestUsers ==
    ASSUME NEW r \in Requests
    PROVE  r.from \in Users /\ r.to \in Users
  BY DEF Requests

\* The INSERT saves both directions or finds them saved.
LEMMA NewContactsFacts ==
    ASSUME NEW r \in Requests
    PROVE  \E a, b \in Contact :
              /\ NewContacts(r) = {a, b} /\ a.req = r /\ b.req = r
              /\ Pair(a) = <<r.from, r.to>> /\ Pair(b) = <<r.to, r.from>>
              /\ Pair(a) = Pair(b) => a = b
<1> DEFINE a == [owner |-> r.from, contact |-> r.to, req |-> r, nickname |-> None]
           b == [owner |-> r.to, contact |-> r.from, req |-> r, nickname |-> None]
<1>1. a \in Contact /\ b \in Contact
  BY RequestUsers DEF Contact
<1>2. Pair(a) = <<r.from, r.to>> /\ Pair(b) = <<r.to, r.from>> /\ a.req = r /\ b.req = r
  BY DEF Pair
<1>3. <<r.from, r.to>> = <<r.to, r.from>> => a = b
  OBVIOUS
<1>4. NewContacts(r) = {a, b}
  BY DEF NewContacts
<1> HIDE DEF a, b
<1>5. QED
  BY <1>1, <1>2, <1>3, <1>4

LEMMA InsertContactsStep ==
    ASSUME ContactsInv, NEW k \in Tasks, InsertContacts(k)
    PROVE  ContactsInv' /\ BookStep
<1>1. /\ Typed /\ AtInsert(k) /\ task[k].pc = "insert" /\ Goto(k, "reply")
      /\ UNCHANGED <<made, request, client, faults, agreed, failed>>
  BY DEF InsertContacts, InsertTurn, ContactsInv, AtInsert
<1>2. PICK r \in Requests : r = task[k].req
  BY <1>1, Facts DEF TaskSet
<1>3. /\ task' \in [Tasks -> TaskSet] /\ task'[k].pc = "reply"
      /\ \A j \in Tasks \ {k} : task'[j] = task[j]
  BY <1>1, GotoTyped
<1>4. /\ Inserts' /\ ~Inserting(r)' /\ request[r] = "accepted" /\ r \in agreed
      /\ \A q \in Requests \ {r} : Inserting(q)' <=> Inserting(q)
      /\ Book!Move(r, "agreed", "closed")
  BY <1>1, <1>2, <1>3, InsertEnds
<1>5. PICK a \in Contact, b \in Contact :
              /\ NewContacts(r) = {a, b} /\ a.req = r /\ b.req = r
              /\ Pair(a) = <<r.from, r.to>> /\ Pair(b) = <<r.to, r.from>>
              /\ Pair(a) = Pair(b) => a = b
  BY NewContactsFacts
<1> DEFINE Free(c) == \A d \in contacts : Pair(d) # Pair(c)
           Both == {<<r.from, r.to>>, <<r.to, r.from>>}
<1>6. /\ contacts' = contacts \cup {c \in {a, b} : Free(c)}
      /\ removed' = removed \ {Pair(c) : c \in {a, b}}
  BY <1>2, <1>5 DEF InsertContacts
<1>7. removed' = removed \ Both
  BY <1>5, <1>6
<1>8. Pairs' = Pairs \cup Both
  <2>1. Pairs' = {Pair(c) : c \in contacts'}
    BY DEF Pairs
  <2>2. ASSUME NEW p \in Pairs' PROVE p \in Pairs \cup Both
    BY <1>5, <1>6, <2>1, <2>2 DEF Pairs
  <2>3. Pairs \subseteq Pairs'
    BY <1>6, <2>1 DEF Pairs
  <2>4. Pair(a) \in Pairs'
    <3>1. CASE Free(a)
      BY <1>6, <2>1, <3>1
    <3>2. CASE ~Free(a)
      BY <2>3, <3>2 DEF Pairs
    <3>3. QED
      BY <3>1, <3>2
  <2>5. Pair(b) \in Pairs'
    <3>1. CASE Free(b)
      BY <1>6, <2>1, <3>1
    <3>2. CASE ~Free(b)
      BY <2>3, <3>2 DEF Pairs
    <3>3. QED
      BY <3>1, <3>2
  <2>6. QED
    BY <1>5, <2>2, <2>3, <2>4, <2>5
<1>9. Typed'
  <2>1. contacts' \subseteq Contact
    BY <1>1, <1>6 DEF Typed
  <2>2. removed' \subseteq Users \X Users
    BY <1>1, <1>7 DEF Typed
  <2>3. QED
    BY <1>1, <1>3, <2>1, <2>2 DEF Typed, client
<1>10. Rows'
  <2>1. ASSUME NEW c \in contacts'
        PROVE  /\ c.req \in agreed'
               /\ Pair(c) \in {<<c.req.from, c.req.to>>, <<c.req.to, c.req.from>>}
    <3>1. CASE c \in contacts
      BY <1>1, <3>1 DEF ContactsInv, Rows
    <3>2. CASE c \in {a, b}
      BY <1>1, <1>4, <1>5, <3>2
    <3>3. QED
      BY <1>6, <2>1, <3>1, <3>2
  <2>2. ASSUME NEW c \in contacts', NEW d \in contacts', Pair(c) = Pair(d)
        PROVE  c = d
    <3>1. CASE c \in contacts /\ d \in contacts
      BY <2>2, <3>1 DEF ContactsInv, Rows
    <3>2. CASE c \notin contacts /\ d \in contacts
      BY <1>6, <2>2, <3>2
    <3>3. CASE c \in contacts /\ d \notin contacts
      BY <1>6, <2>2, <3>3
    <3>4. CASE c \notin contacts /\ d \notin contacts
      BY <1>5, <1>6, <2>2, <3>4
    <3>5. QED
      BY <3>1, <3>2, <3>3, <3>4
  <2>3. QED
    BY <2>1, <2>2 DEF Rows, Pair
<1>11. AcceptedIsSaved'
  <2>1. ASSUME NEW q \in Requests, request'[q] = "accepted", ~Inserting(q)', q \notin failed'
        PROVE  {<<q.from, q.to>>, <<q.to, q.from>>} \subseteq Pairs' \cup removed'
    <3>1. CASE q = r
      BY <1>8, <3>1
    <3>2. CASE q # r
      <4>1. {<<q.from, q.to>>, <<q.to, q.from>>} \subseteq Pairs \cup removed
        BY <1>1, <1>4, <2>1, <3>2 DEF ContactsInv, AcceptedIsSaved
      <4>2. QED
        BY <1>7, <1>8, <4>1
    <3>3. QED
      BY <3>1, <3>2
  <2>2. QED
    BY <2>1 DEF AcceptedIsSaved
<1>12. Book!Next
  BY <1>4, <1>8 DEF Book!Next, Book!Save
<1>13. QED
  BY <1>4, <1>9, <1>10, <1>11, <1>12 DEF ContactsInv, BookStep

\* An id names one row.
LEMMA MineIsOne ==
    ASSUME ContactsInv, NEW k \in Tasks
    PROVE  Mine(k) = {} \/ \E c \in contacts : Mine(k) = {c}
<1>1. ASSUME NEW c \in Mine(k), NEW d \in Mine(k) PROVE c = d
  <2>1. c \in contacts /\ d \in contacts /\ c.owner = d.owner /\ c.req = d.req
    BY <1>1 DEF Mine, SameRow
  <2>2. /\ <<c.owner, c.contact>> \in {<<c.req.from, c.req.to>>, <<c.req.to, c.req.from>>}
        /\ <<d.owner, d.contact>> \in {<<c.req.from, c.req.to>>, <<c.req.to, c.req.from>>}
    BY <2>1 DEF ContactsInv, Rows, Pair
  <2>3. c.contact = d.contact
    BY <2>1, <2>2
  <2>4. QED
    BY <2>1, <2>3 DEF ContactsInv, Rows, Pair
<1>2. Mine(k) \subseteq contacts
  BY DEF Mine
<1>3. QED
  BY <1>1, <1>2

\* A handler edits a row and answers.
LEMMA EditEnds ==
    ASSUME Typed, NEW k \in Tasks, task[k].pc \in {"remove", "nickname"}, Goto(k, "reply"),
           UNCHANGED <<made, client, faults>>
    PROVE  ClientTyped' /\ SameInserts
<1>1. task' \in [Tasks -> TaskSet] /\ SameInserts
  BY GotoStays
<1>2. QED
  BY <1>1 DEF Typed, ClientTyped, client

\* The tables of requests and handlers are as they were.
LEMMA StagesStay ==
    ASSUME UNCHANGED request, SameInserts
    PROVE  /\ StageMap' = StageMap
           /\ \A r \in Requests : Inserting(r)' <=> Inserting(r)
<1>1. \A r \in Requests : Inserting(r)' <=> Inserting(r)
  BY DEF SameInserts, Inserting, AtInsert
<1>2. \A r \in Requests : Stage(r)' = Stage(r)
  BY <1>1 DEF Stage
<1>3. QED
  BY <1>1, <1>2 DEF StageMap

LEMMA RemoveContactStep ==
    ASSUME ContactsInv, NEW k \in Tasks, RemoveContact(k)
    PROVE  ContactsInv' /\ BookStep
<1>1. /\ Typed /\ UNCHANGED <<made, request, client, faults, agreed, failed>>
      /\ contacts' = contacts \ Mine(k) /\ removed' = removed \cup {Pair(c) : c \in Mine(k)}
      /\ task[k].pc = "remove" /\ Goto(k, "reply")
  BY DEF RemoveContact, ContactsInv
<1>2. ClientTyped' /\ SameInserts
  BY <1>1, EditEnds
<1>3. CASE Mine(k) = {}
  <2>1. Still
    BY <1>1, <1>2, <1>3 DEF Still, tables, history
  <2>2. QED
    BY <1>2, <2>1, StillKeeps
<1>4. ASSUME NEW c \in contacts, Mine(k) = {c}
      PROVE  ContactsInv' /\ BookStep
  <2>1. contacts' = contacts \ {c} /\ removed' = removed \cup {Pair(c)}
    BY <1>1, <1>4
  <2>2. StageMap' = StageMap /\ \A r \in Requests : Inserting(r)' <=> Inserting(r)
    BY <1>1, <1>2, StagesStay
  <2>3. Pairs' = Pairs \ {Pair(c)} /\ Pair(c) \in Pairs
    BY <1>4, <2>1 DEF ContactsInv, Rows, Pairs
  <2>4. Pair(c) \in Users \X Users
    BY <1>1, <1>4 DEF Typed, Contact, Pair
  <2>5. Typed'
    BY <1>1, <1>2, <2>1, <2>4 DEF Typed, ClientTyped
  <2>6. Inserts'
    BY <1>1, <1>2 DEF ContactsInv, Inserts, SameInserts
  <2>7. Rows'
    BY <1>1, <2>1 DEF ContactsInv, Rows, Pair
  <2>8. AcceptedIsSaved'
    BY <1>1, <2>1, <2>2, <2>3 DEF ContactsInv, AcceptedIsSaved
  <2>9. Book!Next
    BY <2>2, <2>3 DEF Book!Next, Book!Remove, StageMap
  <2>10. QED
    BY <2>5, <2>6, <2>7, <2>8, <2>9 DEF ContactsInv, BookStep
<1>5. QED
  BY <1>3, <1>4, MineIsOne

LEMMA UpdateNicknameStep ==
    ASSUME ContactsInv, NEW k \in Tasks, UpdateNickname(k)
    PROVE  ContactsInv' /\ BookStep
<1>1. /\ Typed /\ UNCHANGED <<made, request, client, faults, history>>
      /\ contacts' = (contacts \ Mine(k)) \cup
                     {[c EXCEPT !.nickname = task[k].nickname] : c \in Mine(k)}
      /\ task[k].pc = "nickname" /\ Goto(k, "reply")
  BY DEF UpdateNickname, ContactsInv
<1>2. ClientTyped' /\ SameInserts
  BY <1>1, EditEnds
<1>3. CASE Mine(k) = {}
  <2>1. Still
    BY <1>1, <1>2, <1>3 DEF Still, tables
  <2>2. QED
    BY <1>2, <2>1, StillKeeps
<1>4. ASSUME NEW c \in contacts, Mine(k) = {c}
      PROVE  ContactsInv' /\ BookStep
  <2>1. PICK d \in Contact : /\ d = [c EXCEPT !.nickname = task[k].nickname]
                             /\ d.owner = c.owner /\ d.contact = c.contact /\ d.req = c.req
    <3>1. task[k].nickname \in Nicknames \cup {None} /\ c \in Contact
      BY <1>1, <1>4, Facts DEF Typed, TaskRecord
    <3> DEFINE d == [c EXCEPT !.nickname = task[k].nickname]
    <3>2. d \in Contact /\ d.owner = c.owner /\ d.contact = c.contact /\ d.req = c.req
      BY <3>1 DEF Contact
    <3>3. QED
      BY <3>2
  <2>2. contacts' = (contacts \ {c}) \cup {d} /\ Pair(d) = Pair(c)
    BY <1>1, <1>4, <2>1 DEF Pair
  <2>3. StageMap' = StageMap /\ \A r \in Requests : Inserting(r)' <=> Inserting(r)
    BY <1>1, <1>2, StagesStay
  <2>4. Pairs' = Pairs
    BY <1>4, <2>2 DEF Pairs
  <2>5. Typed'
    BY <1>1, <1>2, <2>1, <2>2 DEF Typed, ClientTyped, history
  <2>6. Inserts'
    BY <1>1, <1>2 DEF ContactsInv, Inserts, SameInserts, history
  <2>7. Rows'
    <3>1. ASSUME NEW e \in contacts'
          PROVE  /\ e.req \in agreed'
                 /\ Pair(e) \in {<<e.req.from, e.req.to>>, <<e.req.to, e.req.from>>}
      <4>1. CASE e \in contacts
        BY <1>1, <4>1 DEF ContactsInv, Rows, history
      <4>2. CASE e = d
        BY <1>1, <1>4, <2>1, <2>2, <4>2 DEF ContactsInv, Rows, history
      <4>3. QED
        BY <2>2, <4>1, <4>2
    <3>2. ASSUME NEW e \in contacts', NEW f \in contacts', Pair(e) = Pair(f)
          PROVE  e = f
      BY <1>4, <2>2, <3>2 DEF ContactsInv, Rows
    <3>3. QED
      BY <3>1, <3>2 DEF Rows, Pair
  <2>8. AcceptedIsSaved'
    BY <1>1, <2>3, <2>4 DEF ContactsInv, AcceptedIsSaved, history
  <2>9. QED
    BY <2>3, <2>4, <2>5, <2>6, <2>7, <2>8 DEF ContactsInv, BookStep
<1>5. QED
  BY <1>3, <1>4, MineIsOne

LEMMA DbFailsStep ==
    ASSUME ContactsInv, NEW k \in Tasks, DbFails(k)
    PROVE  ContactsInv' /\ BookStep
<1> DEFINE bad == [task[k] EXCEPT !.pc = "error"]
           new == IF task[k].pc \in {"ask", "select"} THEN IdleTask ELSE bad
<1>1. /\ Typed /\ UNCHANGED <<made, tables, client, agreed, removed>> /\ faults' = faults + 1
      /\ task[k].pc # "idle" /\ task' = [task EXCEPT ![k] = new]
      /\ failed' = IF task[k].pc = "insert" THEN failed \cup {task[k].req} ELSE failed
  BY Facts DEF DbFails, ContactsInv
<1>2. bad \in TaskRecord /\ bad.pc = "error" /\ bad.kind = task[k].kind /\ bad.req = task[k].req
  BY <1>1, Facts DEF TaskRecord
<1> HIDE DEF bad
<1>3. bad \in TaskSet
  BY <1>1, <1>2, Facts DEF TaskSet
<1>4. new \in TaskSet /\ new.pc # "insert"
  BY <1>2, <1>3, IdleTyped
<1> HIDE DEF new
<1>5. /\ task' \in [Tasks -> TaskSet] /\ task'[k] = new
      /\ \A j \in Tasks \ {k} : task'[j] = task[j]
  BY <1>1, <1>4, Facts
<1>6. ClientTyped'
  BY <1>1, <1>5 DEF Typed, ClientTyped, client
<1>7. CASE ~AtInsert(k)
  <2>1. Still
    BY <1>1, <1>4, <1>5, <1>7 DEF Still, SameInserts, AtInsert, history
  <2>2. QED
    BY <1>6, <2>1, StillKeeps
<1>8. CASE AtInsert(k)
  <2>1. PICK r \in Requests : r = task[k].req
    BY <1>1, <1>8, Facts DEF TaskSet, AtInsert
  <2>2. failed' = failed \cup {r} /\ UNCHANGED <<request, contacts, agreed, removed>>
    BY <1>1, <1>8, <2>1 DEF AtInsert, tables
  <2>3. /\ Inserts' /\ ~Inserting(r)'
        /\ \A q \in Requests \ {r} : Inserting(q)' <=> Inserting(q)
        /\ Book!Move(r, "agreed", "closed")
    BY <1>4, <1>5, <1>8, <2>1, <2>2, InsertEnds
  <2>4. Typed'
    BY <1>1, <1>6, <2>2 DEF Typed, ClientTyped
  <2>5. Rows' /\ Pairs' = Pairs
    BY <2>2 DEF ContactsInv, Rows, Pairs
  <2>6. AcceptedIsSaved'
    BY <2>2, <2>3, <2>5 DEF ContactsInv, AcceptedIsSaved
  <2>7. Book!Next
    BY <2>3, <2>5 DEF Book!Next, Book!Lose
  <2>8. QED
    BY <2>3, <2>4, <2>5, <2>6, <2>7 DEF ContactsInv, BookStep
<1>9. QED
  BY <1>7, <1>8

----------------------------------------------------------------------------
(* Theorems.                                                               *)

\* The invariant is inductive, and every step is one of the handshake or none.
LEMMA ContactsStep ==
    ASSUME ContactsInv, [Next]_vars
    PROVE  ContactsInv' /\ BookStep
<1> DEFINE Goal == ContactsInv' /\ BookStep
<1> HIDE DEF Goal
<1> SUFFICES Goal
  BY DEF Goal
<1>1. Typed
  BY DEF ContactsInv
<1>2. ClientTyped' /\ Still => Goal
  BY StillKeeps DEF Goal
<1>3. ASSUME UNCHANGED vars PROVE Goal
  <2>1. ClientTyped' /\ Still
    BY <1>1, <1>3, StillTask, Facts DEF vars, client, tables, Typed, ClientTyped, Still
  <2>2. QED
    BY <1>2, <2>1
<1>4. ASSUME NEW k \in Tasks, Statement(k) PROVE Goal
  BY <1>1, <1>2, <1>4, InsertRequestStep, NotifyStill, MarkAcceptedStep, InsertContactsStep,
     MarkRejectedStep, ListStill, RemoveContactStep, UpdateNicknameStep DEF Statement, Goal
<1>5. ASSUME NEW k \in Tasks, DbFails(k) \/ Reply(k) \/ Drop(k) \/ NetFails(k) PROVE Goal
  BY <1>1, <1>2, <1>5, DbFailsStep, ReplyStill, DropStill, NetFailsStill DEF Goal
<1>6. ASSUME NEW t \in Tabs, Leave(t) \/ CallEnded(t) \/ Dismiss(t) PROVE Goal
  BY <1>1, <1>2, <1>6, LeaveStill, CallEndedStill, DismissStill
<1>7. ASSUME NEW t \in Tabs, NEW u \in Users, SwitchAccount(t, u) PROVE Goal
  BY <1>1, <1>2, <1>7, SwitchAccountStill
<1>8. ASSUME NEW s \in Tabs, NEW t \in Tabs, Match(s, t) PROVE Goal
  BY <1>1, <1>2, <1>8, MatchStill
<1>9. ASSUME NEW t \in Tabs, NEW k \in Tasks, NEW at \in {"anonymous", "dashboard"}, Open(t, at, k)
      PROVE  Goal
  BY <1>1, <1>2, <1>9, OpenStill
<1>10. ASSUME NEW t \in Tabs, NEW k \in Tasks, SaveContact(t, k) \/ AcceptRequest(t, k) PROVE Goal
  BY <1>1, <1>2, <1>10, SaveContactStill, AcceptRequestStill
<1>11. ASSUME NEW t \in Tabs, NEW k \in Tasks, NEW kind \in {"accept", "reject"}, Respond(t, kind, k)
       PROVE  Goal
  BY <1>1, <1>2, <1>11, RespondStill
<1>12. ASSUME NEW t \in Tabs, NEW k \in Tasks, NEW c \in page[t].list,
              \/ EditContact(t, c, "remove", None, k)
              \/ \E n \in Nicknames : EditContact(t, c, "nickname", n, k)
       PROVE  Goal
  BY <1>1, <1>2, <1>12, EditContactStill
<1>13. QED
  BY <1>3, <1>4, <1>5, <1>6, <1>7, <1>8, <1>9, <1>10, <1>11, <1>12 DEF Next

\* ContactsInv holds throughout.
LEMMA ContactsInvariant == Spec => []ContactsInv
<1>1. ContactsInv /\ [Next]_vars => ContactsInv'
  BY ContactsStep
<1>2. QED
  BY <1>1, InitContacts, PTL DEF Spec

\* The tables, the pages and the handlers keep their types, for any number of each.
THEOREM ContactsTypeCorrect == Spec => []TypeOK
<1>1. ContactsInv => TypeOK
  BY TypedImpliesTypeOK DEF ContactsInv
<1>2. QED
  BY <1>1, ContactsInvariant, PTL

\* Every contact goes back to a request that its target accepted with its own account.
THEOREM ConsentHolds == Spec => []BothConsented
<1>1. ContactsInv => BothConsented
  <2> SUFFICES ASSUME ContactsInv, NEW c \in contacts
               PROVE  \E r \in agreed : {r.from, r.to} = {c.owner, c.contact}
    BY DEF BothConsented
  <2>1. /\ c.req \in agreed
        /\ <<c.owner, c.contact>> \in {<<c.req.from, c.req.to>>, <<c.req.to, c.req.from>>}
    BY DEF ContactsInv, Rows, Pair
  <2>2. {c.req.from, c.req.to} = {c.owner, c.contact}
    BY <2>1
  <2>3. QED
    BY <2>1, <2>2
<1>2. QED
  BY <1>1, ContactsInvariant, PTL

\* An accepted request whose INSERT ran has both contacts, but for deleted rows: only a
\* failure between the two statements loses one.
THEOREM AcceptedSaved == Spec => []AcceptedIsSaved
<1>1. ContactsInv => AcceptedIsSaved
  BY DEF ContactsInv
<1>2. QED
  BY <1>1, ContactsInvariant, PTL

\* The statements of ContactsService and the pages make only the steps that ContactBook
\* allows: no contact without an agreement, both directions at once, one answer a request.
THEOREM HandshakeRefines == Spec => HandshakeSteps
<1>1. Init => Book!Init
  <2> SUFFICES ASSUME Init PROVE Book!Init
    OBVIOUS
  <2>1. \A r \in Requests : Stage(r) = "unasked"
    BY NoneApart DEF Init, Stage
  <2>2. Pairs = {}
    BY DEF Init, Pairs
  <2>3. QED
    BY <2>1, <2>2 DEF Book!Init
<1>2. ContactsInv /\ [Next]_vars => [Book!Next]_<<[r \in Requests |-> Stage(r)], Pairs>>
  BY ContactsStep DEF BookStep, StageMap
<1>3. QED
  BY <1>1, <1>2, ContactsInvariant, PTL DEF Spec, HandshakeSteps, Book!SafeSpec

\* A fetch of the list is answered by its SELECT.
LEMMA OnlyListLists ==
    ASSUME Typed, [Next]_vars, NEW k \in Tasks, task[k].pc = "list", task'[k].pc = "reply"
    PROVE  List(k)
<1>1. task'[k] # task[k] /\ ~UNCHANGED task /\ ~UNCHANGED vars
  BY DEF vars
<1>2. ~Idle(k)
  BY IdleFacts
<1>3. ASSUME NEW j \in Tasks, Statement(j) PROVE List(k)
  <2>1. CASE j = k
    BY <1>3, <2>1 DEF Statement, InsertRequest, Notify, MarkAccepted, InsertContacts, InsertTurn,
       MarkRejected, RemoveContact, UpdateNickname
  <2>2. CASE j # k
    BY <1>1, <1>3, <2>2, Facts DEF Statement, InsertRequest, Notify, MarkAccepted, InsertContacts,
       MarkRejected, List, RemoveContact, UpdateNickname, Goto
  <2>3. QED
    BY <2>1, <2>2
<1>4. ASSUME NEW j \in Tasks, DbFails(j) PROVE List(k)
  <2>1. CASE j = k
    <3>1. task'[k] = [task[k] EXCEPT !.pc = "error"]
      BY <1>4, <2>1, Facts DEF DbFails
    <3>2. task'[k].pc = "error"
      BY <3>1, Facts DEF TaskRecord
    <3>3. QED
      BY <3>2
  <2>2. CASE j # k
    BY <1>1, <1>4, <2>2, Facts DEF DbFails
  <2>3. QED
    BY <2>1, <2>2
<1>5. ASSUME NEW j \in Tasks, Reply(j) \/ Drop(j) PROVE List(k)
  <2>1. j # k
    BY <1>5 DEF Reply, Drop, Answered
  <2>2. QED
    BY <1>1, <1>5, <2>1, Facts DEF Reply, Drop
<1>6. ASSUME NEW j \in Tasks, NetFails(j) PROVE List(k)
  <2>1. CASE j = k
    <3>1. task'[k] = IdleTask \/ task'[k] = [task[k] EXCEPT !.tab = None]
      BY <1>6, <2>1, Facts DEF NetFails
    <3>2. [task[k] EXCEPT !.tab = None].pc = task[k].pc
      BY Facts DEF TaskRecord
    <3>3. QED
      BY <3>1, <3>2, IdleTyped
  <2>2. CASE j # k
    BY <1>1, <1>6, <2>2, Facts DEF NetFails
  <2>3. QED
    BY <2>1, <2>2
<1>7. ASSUME NEW t \in Tabs, Leave(t) PROVE List(k)
  <2>1. task'[k] = [task[k] EXCEPT !.tab = None]
    BY <1>1, <1>7 DEF Leave
  <2>2. [task[k] EXCEPT !.tab = None].pc = task[k].pc
    BY Facts DEF TaskRecord
  <2>3. QED
    BY <2>1, <2>2
<1>8. ASSUME NEW t \in Tabs, CallEnded(t) \/ Dismiss(t) PROVE List(k)
  BY <1>1, <1>8 DEF CallEnded, Dismiss
<1>9. ASSUME NEW t \in Tabs, NEW u \in Users, SwitchAccount(t, u) PROVE List(k)
  BY <1>1, <1>9 DEF SwitchAccount
<1>10. ASSUME NEW s \in Tabs, NEW t \in Tabs, Match(s, t) PROVE List(k)
  BY <1>1, <1>10 DEF Match
<1>11. ASSUME NEW t \in Tabs, NEW j \in Tasks, NEW at \in {"anonymous", "dashboard"}, Open(t, at, j)
       PROVE  List(k)
  BY <1>1, <1>2, <1>11, Facts DEF Open, Call
<1>12. ASSUME NEW t \in Tabs, NEW j \in Tasks, SaveContact(t, j) \/ AcceptRequest(t, j) PROVE List(k)
  BY <1>1, <1>2, <1>12, Facts DEF SaveContact, AcceptRequest, Call
<1>13. ASSUME NEW t \in Tabs, NEW j \in Tasks, NEW kind \in {"accept", "reject"}, Respond(t, kind, j)
       PROVE  List(k)
  BY <1>1, <1>2, <1>13, Facts DEF Respond, Call
<1>14. ASSUME NEW t \in Tabs, NEW j \in Tasks, NEW c \in page[t].list,
              \/ EditContact(t, c, "remove", None, j)
              \/ \E n \in Nicknames : EditContact(t, c, "nickname", n, j)
       PROVE  List(k)
  BY <1>1, <1>2, <1>14, Facts DEF EditContact
<1>15. QED
  BY <1>1, <1>3, <1>4, <1>5, <1>6, <1>7, <1>8, <1>9, <1>10, <1>11, <1>12, <1>13, <1>14 DEF Next

\* The list a dashboard fetches after an accept has the new contact, unless the INSERT of
\* another handler is still to come or failed, or the row was deleted.
THEOREM AcceptedIsListed == Spec => AcceptShowsContact
<1> DEFINE Lists(k) ==
         LET r == task[k].req
         IN  (/\ task[k].kind = "accept-list" /\ task[k].pc = "list" /\ task'[k].pc = "reply"
              /\ request[r] = "accepted" /\ task[k].user = r.to)
             => \/ \E c \in task'[k].rows : Pair(c) = <<r.to, r.from>>
                \/ Inserting(r) \/ r \in failed \/ <<r.to, r.from>> \in removed
<1>1. ASSUME ContactsInv, [Next]_vars, NEW k \in Tasks PROVE Lists(k)
  <2> SUFFICES ASSUME task[k].kind = "accept-list", task[k].pc = "list", task'[k].pc = "reply",
                      request[task[k].req] = "accepted", task[k].user = task[k].req.to,
                      ~Inserting(task[k].req), task[k].req \notin failed,
                      <<task[k].req.to, task[k].req.from>> \notin removed
               PROVE  \E c \in task'[k].rows : Pair(c) = <<task[k].req.to, task[k].req.from>>
    OBVIOUS
  <2>1. Typed /\ AcceptedIsSaved
    BY <1>1 DEF ContactsInv
  <2>2. PICK r \in Requests : r = task[k].req
    BY <2>1, Facts DEF TaskSet
  <2>3. task'[k].rows = RowsOf(r.to)
    BY <1>1, <2>1, <2>2, OnlyListLists, ListStill
  <2>4. <<r.to, r.from>> \in Pairs
    BY <2>1, <2>2 DEF AcceptedIsSaved
  <2>5. PICK c \in contacts : Pair(c) = <<r.to, r.from>>
    BY <2>4 DEF Pairs
  <2>6. c.owner = r.to
    BY <2>5 DEF Pair
  <2>7. QED
    BY <2>2, <2>3, <2>5, <2>6 DEF RowsOf
<1> HIDE DEF Lists
<1>2. ContactsInv /\ [Next]_vars => [\A k \in Tasks : Lists(k)]_vars
  BY <1>1
<1> USE DEF Lists
<1>3. QED
  BY <1>2, ContactsInvariant, PTL DEF Spec, AcceptShowsContact
====
