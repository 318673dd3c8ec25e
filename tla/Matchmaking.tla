---- MODULE Matchmaking ----
(***************************************************************************)
(* The anonymous matchmaking queue: MatchmakingService (enqueue, tryMatch, *)
(* dequeue) and the gateway handlers that call it (match:join-queue,       *)
(* match:leave-queue, handleDisconnect and tryPairUsers).                  *)
(*                                                                         *)
(* The handlers run in one Node process and interleave wherever they       *)
(* await.  A running handler is a task.  Redis is reached over one ioredis *)
(* connection: commands are executed in the order they are issued, and     *)
(* their replies resume the waiting handlers in that same order.  `pipe'   *)
(* holds the tasks with a Redis command outstanding; only its head may     *)
(* resume.  A Redis action below is therefore: resume on the reply of the  *)
(* previous command, run up to the next await, and issue (and thereby      *)
(* execute) the next command.  PostgreSQL is reached through a pool, so a  *)
(* handler that awaits the database resumes at any time.                   *)
(***************************************************************************)
EXTENDS Integers, FiniteSets, SequencesExt

CONSTANTS
    Sockets,     \* socket ids; a client that reconnects gets a new one
    Tasks,       \* handler invocations that may be in progress at once
    QUEUE_TTL,   \* ticks after which an entry is stale
    MaxTime,     \* bound on the clock
    MaxJoins,    \* per socket: bound on its match:join-queue requests
    None         \* JavaScript's null and undefined

ASSUME TasksFinite == IsFiniteSet(Tasks)
ASSUME BoundsNat == QUEUE_TTL \in Nat /\ MaxTime \in Nat /\ MaxJoins \in [Sockets -> Nat]

VARIABLES
    conn,      \* per socket: "new", "open", "closed" (handleDisconnect runs), "gone"
    callOf,    \* per socket: meta.callId, an index into calls
    queue,     \* Redis list matchmaking:queue
    index,     \* Redis hash matchmaking:sockets
    pipe,      \* tasks with a Redis command outstanding, in issue order
    task,      \* what each task is doing
    calls,     \* call_sessions rows made by tryPairUsers, in creation order
    now,       \* Date.now(), in ticks
    joins,     \* per socket: match:join-queue requests received
    found,     \* per socket: match:found events sent
    putBacks   \* times tryMatch gave up after returning one entry to the queue

vars == <<conn, callOf, queue, index, pipe, task, calls, now, joins, found, putBacks>>
redis == <<queue, index>>
history == <<joins, found, putBacks>>

(***************************************************************************)
(* A queue entry is the JSON text that enqueue writes.  Two texts are      *)
(* equal exactly when socket and enqueuedAt are (the preferred type is     *)
(* left out: no step depends on it).                                       *)
(***************************************************************************)
Entry == [socket : Sockets, enqueuedAt : Nat]

\* A registered socket is in the gateway's `sockets' map until handleDisconnect ends.
Registered(s) == conn[s] \in {"open", "closed"}

IdleTask == [pc |-> "idle", kind |-> "none", sock |-> None, held |-> <<>>, call |-> 0]

Busy(t) == task[t].pc # "idle"

Init ==
    /\ conn = [s \in Sockets |-> "new"]
    /\ callOf = [s \in Sockets |-> None]
    /\ queue = <<>>
    /\ index = [s \in Sockets |-> None]
    /\ pipe = <<>>
    /\ task = [t \in Tasks |-> IdleTask]
    /\ calls = <<>>
    /\ now = 0
    /\ joins = [s \in Sockets |-> 0]
    /\ found = [s \in Sockets |-> 0]
    /\ putBacks = 0

----------------------------------------------------------------------------
(* Steps of a handler.                                                     *)

\* A new handler issues its first Redis command.
Begin(t, kind, s, pc, held) ==
    /\ ~Busy(t)
    /\ task' = [task EXCEPT ![t] = [pc |-> pc, kind |-> kind, sock |-> s,
                                    held |-> held, call |-> 0]]
    /\ pipe' = Append(pipe, t)

\* t's Redis reply is the next to be delivered, and t stands at pc.
Replied(t, pc) == pipe # <<>> /\ Head(pipe) = t /\ task[t].pc = pc

\* t resumes on a Redis reply and issues another Redis command.
NextCommand(t, pc, held) ==
    /\ task' = [task EXCEPT ![t].pc = pc, ![t].held = held]
    /\ pipe' = Append(Tail(pipe), t)

\* t resumes on a Redis reply and goes on to await the database.
LeavePipe(t, pc) ==
    /\ task' = [task EXCEPT ![t].pc = pc]
    /\ pipe' = Tail(pipe)

\* t resumes on a Redis reply and its handler returns.
Return(t) ==
    /\ task' = [task EXCEPT ![t] = IdleTask]
    /\ pipe' = Tail(pipe)

----------------------------------------------------------------------------
(* The sockets and the clock.                                              *)

Connect(s) ==
    /\ conn[s] = "new"
    /\ conn' = [conn EXCEPT ![s] = "open"]
    /\ UNCHANGED <<callOf, redis, pipe, task, calls, now, history>>

Tick ==
    /\ now < MaxTime
    /\ now' = now + 1
    /\ UNCHANGED <<conn, callOf, redis, pipe, task, calls, history>>

----------------------------------------------------------------------------
(* match:join-queue.                                                       *)

\* getMeta, then enqueue up to its RPUSH.
JoinQueue(t, s) ==
    LET e == [socket |-> s, enqueuedAt |-> now]
    IN  /\ conn[s] = "open"
        /\ joins[s] < MaxJoins[s]
        /\ Begin(t, "join", s, "pushed", <<e>>)
        /\ queue' = Append(queue, e)
        /\ joins' = [joins EXCEPT ![s] = @ + 1]
        /\ UNCHANGED <<conn, callOf, index, calls, now, found, putBacks>>

\* The HSET of enqueue.
IndexEntry(t) ==
    /\ Replied(t, "pushed")
    /\ index' = [index EXCEPT ![task[t].sock] = task[t].held[1]]
    /\ NextCommand(t, "indexed", <<>>)
    /\ UNCHANGED <<conn, callOf, queue, calls, now, history>>

\* Mutant of AuditQueued: an error of the audit insert ends the handler.
AuditQueuedThrows(t) ==
    /\ Replied(t, "indexed")
    /\ Return(t)
    /\ UNCHANGED <<conn, callOf, redis, calls, now, history>>

\* The audit insert of enqueue (its errors are swallowed).
AuditQueued(t) ==
    /\ Replied(t, "indexed")
    /\ LeavePipe(t, "audited")
    /\ UNCHANGED <<conn, callOf, redis, calls, now, history>>

\* The LLENs behind the position and searchingUsers of match:queued.
ReadDepth(t) ==
    /\ task[t].pc = "audited"
    /\ task' = [task EXCEPT ![t].pc = "counted"]
    /\ pipe' = Append(pipe, t)
    /\ UNCHANGED <<conn, callOf, redis, calls, now, history>>

\* Mutant of PopNone: the script wants more than two entries.
PopNoneAtTwo(t) ==
    /\ Replied(t, "counted")
    /\ Len(queue) <= 2
    /\ Return(t)
    /\ UNCHANGED <<conn, callOf, redis, calls, now, history>>

\* The Lua script of tryMatch: two entries or none.
PopNone(t) ==
    /\ Replied(t, "counted")
    /\ Len(queue) < 2
    /\ Return(t)
    /\ UNCHANGED <<conn, callOf, redis, calls, now, history>>

\* Mutant of PopPair: two entries are read and one is popped.
PopPairOnce(t) ==
    /\ Replied(t, "counted")
    /\ Len(queue) >= 2
    /\ queue' = Tail(queue)
    /\ NextCommand(t, "popped", <<queue[1], queue[2]>>)
    /\ UNCHANGED <<conn, callOf, index, calls, now, history>>

PopPair(t) ==
    /\ Replied(t, "counted")
    /\ Len(queue) >= 2
    /\ queue' = Tail(Tail(queue))
    /\ NextCommand(t, "popped", <<queue[1], queue[2]>>)
    /\ UNCHANGED <<conn, callOf, index, calls, now, history>>

Fresh(e) == now - e.enqueuedAt < QUEUE_TTL

HDel(socks) == [s \in Sockets |-> IF s \in socks THEN None ELSE index[s]]

\* Mutant of DiscardBoth: both entries are discarded when either is stale.
DiscardEither(t) ==
    /\ Replied(t, "popped")
    /\ ~Fresh(task[t].held[1]) \/ ~Fresh(task[t].held[2])
    /\ index' = HDel({task[t].held[1].socket, task[t].held[2].socket})
    /\ Return(t)
    /\ UNCHANGED <<conn, callOf, queue, calls, now, history>>

DiscardBoth(t) ==
    /\ Replied(t, "popped")
    /\ ~Fresh(task[t].held[1]) /\ ~Fresh(task[t].held[2])
    /\ index' = HDel({task[t].held[1].socket, task[t].held[2].socket})
    /\ Return(t)
    /\ UNCHANGED <<conn, callOf, queue, calls, now, history>>

\* Exactly one of the two is stale: the other goes back to the head of the
\* queue, and the stale one's index entry is deleted by the next command.
PutBack(t) ==
    \E stale \in {1, 2} :
        /\ Replied(t, "popped")
        /\ ~Fresh(task[t].held[stale]) /\ Fresh(task[t].held[3 - stale])
        /\ queue' = <<task[t].held[3 - stale]>> \o queue
        /\ NextCommand(t, "putBack", <<task[t].held[stale]>>)
        /\ putBacks' = putBacks + 1
        /\ UNCHANGED <<conn, callOf, index, calls, now, joins, found>>

ForgetStale(t) ==
    /\ Replied(t, "putBack")
    /\ index' = HDel({task[t].held[1].socket})
    /\ Return(t)
    /\ UNCHANGED <<conn, callOf, queue, calls, now, history>>

\* Mutant of ClearIndex: the HDEL names the first socket only.
ClearIndexFirst(t) ==
    /\ Replied(t, "popped")
    /\ Fresh(task[t].held[1]) /\ Fresh(task[t].held[2])
    /\ index' = HDel({task[t].held[1].socket})
    /\ LeavePipe(t, "matched")
    /\ UNCHANGED <<conn, callOf, queue, calls, now, history>>

\* Both fresh: the pair leaves tryMatch for tryPairUsers.
ClearIndex(t) ==
    /\ Replied(t, "popped")
    /\ Fresh(task[t].held[1]) /\ Fresh(task[t].held[2])
    /\ index' = HDel({task[t].held[1].socket, task[t].held[2].socket})
    /\ LeavePipe(t, "matched")
    /\ UNCHANGED <<conn, callOf, queue, calls, now, history>>

\* callsService.initiateCall.
InitiateCall(t) ==
    /\ task[t].pc = "matched"
    /\ calls' = Append(calls, "initiated")
    /\ task' = [task EXCEPT ![t].pc = "initiated", ![t].call = Len(calls) + 1]
    /\ UNCHANGED <<conn, callOf, redis, pipe, now, history>>

\* Mutant of AcceptCall: a status the table's CHECK does not know.
AcceptCallMisnamed(t) ==
    /\ task[t].pc = "initiated"
    /\ calls' = [calls EXCEPT ![task[t].call] = "accepted"]
    /\ task' = [task EXCEPT ![t].pc = "accepted"]
    /\ UNCHANGED <<conn, callOf, redis, pipe, now, history>>

\* callsService.acceptCall on behalf of the second entry.
AcceptCall(t) ==
    /\ task[t].pc = "initiated"
    /\ calls' = [calls EXCEPT ![task[t].call] = "active"]
    /\ task' = [task EXCEPT ![t].pc = "accepted"]
    /\ UNCHANGED <<conn, callOf, redis, pipe, now, history>>

\* A database error in either: tryPairUsers rethrows and the handler ends.
PairFails(t) ==
    /\ task[t].pc \in {"matched", "initiated"}
    /\ task' = [task EXCEPT ![t] = IdleTask]
    /\ UNCHANGED <<conn, callOf, redis, pipe, calls, now, history>>

\* Both sockets join the room, the callId of those still in the map is set,
\* and match:found is sent to both.
Announce(t) ==
    LET pair == {task[t].held[1].socket, task[t].held[2].socket}
    IN  /\ task[t].pc = "accepted"
        /\ callOf' = [s \in Sockets |-> IF s \in pair /\ Registered(s)
                                        THEN task[t].call ELSE callOf[s]]
        /\ found' = [s \in Sockets |-> found[s] +
                        Cardinality({i \in {1, 2} : task[t].held[i].socket = s})]
        /\ task' = [task EXCEPT ![t] = IdleTask]
        /\ UNCHANGED <<conn, redis, pipe, calls, now, joins, putBacks>>

----------------------------------------------------------------------------
(* dequeue, for match:leave-queue and handleDisconnect.                    *)

\* The HGET of dequeue; held is <<>> when the socket has no index entry.
Lookup(t, kind, s) ==
    /\ Begin(t, kind, s, "looked", IF index[s] = None THEN <<>> ELSE <<index[s]>>)
    /\ UNCHANGED <<callOf, redis, calls, now, history>>

LeaveQueue(t, s) ==
    /\ conn[s] = "open"
    /\ Lookup(t, "leave", s)
    /\ UNCHANGED conn

Disconnect(t, s) ==
    /\ conn[s] = "open"
    /\ Lookup(t, "disconnect", s)
    /\ conn' = [conn EXCEPT ![s] = "closed"]

\* LREM key 1 raw: the first equal entry, if there is one.
RemoveEntry(t) ==
    /\ Replied(t, "looked")
    /\ task[t].held # <<>>
    /\ queue' = RemoveFirst(queue, task[t].held[1])
    /\ NextCommand(t, "removed", task[t].held)
    /\ UNCHANGED <<conn, callOf, index, calls, now, history>>

\* The HDEL of dequeue; its audit insert is then awaited.
Unindex(t) ==
    /\ Replied(t, "removed")
    /\ index' = HDel({task[t].sock})
    /\ LeavePipe(t, "dequeued")
    /\ UNCHANGED <<conn, callOf, queue, calls, now, history>>

\* dequeue has returned: early, on a missing index entry, or after its audit.
Dequeued(t, kind) ==
    /\ task[t].kind = kind
    /\ \/ task[t].pc = "dequeued" /\ UNCHANGED pipe
       \/ Replied(t, "looked") /\ task[t].held = <<>> /\ pipe' = Tail(pipe)

EndLeave(t) ==
    /\ Dequeued(t, "leave")
    /\ task' = [task EXCEPT ![t] = IdleTask]
    /\ UNCHANGED <<conn, callOf, redis, calls, now, history>>

\* handleDisconnect with no call to end deletes the socket at once.
Forget(t) ==
    /\ Dequeued(t, "disconnect")
    /\ callOf[task[t].sock] = None
    /\ conn' = [conn EXCEPT ![task[t].sock] = "gone"]
    /\ task' = [task EXCEPT ![t] = IdleTask]
    /\ UNCHANGED <<callOf, redis, calls, now, history>>

\* Otherwise it awaits endCall on the callId it finds, ...
HangUp(t) ==
    /\ Dequeued(t, "disconnect")
    /\ callOf[task[t].sock] # None
    /\ task' = [task EXCEPT ![t].pc = "hangup", ![t].call = callOf[task[t].sock]]
    /\ UNCHANGED <<conn, callOf, redis, calls, now, history>>

\* ... and deletes the socket when the update is done.
EndCall(t) ==
    /\ task[t].pc = "hangup"
    /\ calls' = [calls EXCEPT ![task[t].call] = "ended"]
    /\ conn' = [conn EXCEPT ![task[t].sock] = "gone"]
    /\ task' = [task EXCEPT ![t] = IdleTask]
    /\ UNCHANGED <<callOf, redis, pipe, now, history>>

----------------------------------------------------------------------------

\* What a running handler does next.
Step(t) ==
    \/ IndexEntry(t) \/ AuditQueued(t) \/ ReadDepth(t) \/ PopNone(t) \/ PopPair(t)
    \/ DiscardBoth(t) \/ PutBack(t) \/ ForgetStale(t) \/ ClearIndex(t)
    \/ InitiateCall(t) \/ AcceptCall(t) \/ Announce(t) \/ PairFails(t)
    \/ RemoveEntry(t) \/ Unindex(t) \/ EndLeave(t)
    \/ Forget(t) \/ HangUp(t) \/ EndCall(t)

\* An event of a client starts a handler.
Request(t, s) == JoinQueue(t, s) \/ LeaveQueue(t, s) \/ Disconnect(t, s)

Next ==
    \/ Tick
    \/ \E s \in Sockets : Connect(s)
    \/ \E t \in Tasks : Step(t)
    \/ \E t \in Tasks, s \in Sockets : Request(t, s)

Spec == Init /\ [][Next]_vars

\* Redis and PostgreSQL answer and Node's event loop runs every handler on.
Fairness == \A t \in Tasks : WF_vars(Step(t))

FairSpec == Spec /\ Fairness

----------------------------------------------------------------------------
(* Properties.                                                             *)

TaskPC == {"idle", "pushed", "indexed", "audited", "counted", "popped", "putBack",
           "matched", "initiated", "accepted", "looked", "removed", "dequeued", "hangup"}

Handler == [pc : TaskPC, kind : {"none", "join", "leave", "disconnect"},
            sock : Sockets \cup {None}, held : Seq(Entry), call : Nat]

\* Types of the gateway's maps, of Redis' list and hash and of the handlers' locals.
TypeOK ==
    /\ conn \in [Sockets -> {"new", "open", "closed", "gone"}]
    /\ callOf \in [Sockets -> Nat \cup {None}]
    /\ queue \in Seq(Entry)
    /\ index \in [Sockets -> Entry \cup {None}]
    /\ pipe \in Seq(Tasks)
    /\ task \in [Tasks -> Handler]
    /\ calls \in Seq({"initiated", "active", "ended"})
    /\ now \in Nat
    /\ joins \in [Sockets -> Nat] /\ found \in [Sockets -> Nat]
    /\ putBacks \in Nat

At(pcs) == {t \in Tasks : task[t].pc \in pcs}

\* Join handlers that have pushed their entry and have not yet called tryMatch.
Matchers == At({"pushed", "indexed", "audited", "counted"})

\* Every entry that is left waiting beside another one, with no tryMatch still
\* to come, was left there by the put-back of a stale partner (tryMatch returns
\* null after it, matchmaking.service.ts 87-100): without expiry, the concurrent
\* pushes and pops never strand two users who could be matched.
StrandedOnlyByPutBack == Matchers = {} => Len(queue) <= 1 + putBacks

\* When no handler is between taking an entry and its HDEL, the hash that
\* dequeue trusts points only at entries that are still in the list.
IndexPointsIntoQueue ==
    At({"popped", "putBack", "removed"}) = {} =>
        \A s \in Sockets : index[s] # None => index[s] \in Range(queue)

\* Entries of socket s in a sequence of entries.
CountOf(s, q) == Cardinality({i \in DOMAIN q : q[i].socket = s})

\* A socket gets at most one match:found per join-queue request, however the
\* concurrent tryMatch calls, put-backs and removals interleave: the pop of the
\* Lua script never hands an entry to two handlers, nor does a put-back copy one.
MatchedAtMostAsJoined == \A s \in Sockets : found[s] + CountOf(s, queue) <= joins[s]

\* tryMatch lets go of a fresh entry only into the queue or into a match; what it
\* drops is stale.
FreshNeverDropped ==
    [][\A t \in Tasks : task[t].pc = "popped" /\ task'[t].pc # "popped" =>
          \A e \in Range(task[t].held) :
              Fresh(e) => e \in Range(queue') \cup Range(task'[t].held)]_vars

\* As long as nothing expired, two users in the queue do not wait for a third:
\* the queue is brought below two entries.
PairEventually ==
    (putBacks = 0 /\ Len(queue) >= 2) ~> (putBacks > 0 \/ Len(queue) < 2)
====
