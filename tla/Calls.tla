---- MODULE Calls ----
(***************************************************************************)
(* One-to-one calls between registered users: the call:* handlers of the   *)
(* signaling gateway, its missed-call timers and handleDisconnect, over    *)
(* CallsService and CallsRepository.                                       *)
(*                                                                         *)
(* A running handler is a task; it stops at each await of the database and *)
(* resumes at any later time (the pool runs queries of different handlers  *)
(* in any order).  An action is the statement the handler was waiting for, *)
(* executed by PostgreSQL, together with the code up to the next await.    *)
(* Statements that no other handler can tell apart are taken together:     *)
(* the status update and the findById before it, the participant's row and *)
(* the audit insert after it (whose errors are swallowed).                 *)
(***************************************************************************)
EXTENDS Naturals, FiniteSets, TLC

CONSTANTS
    Users,     \* registered users
    Sockets,   \* socket ids: one per browser tab
    UserOf,    \* the user whose token each socket presents
    Dials,     \* the <<socket, user>> pairs for which a client sends call:initiate
    CallIds,   \* call_sessions ids that may be generated
    Tasks,     \* handler invocations that may be in progress at once
    MaxRequests, \* bound on the requests about an existing call
    None       \* JavaScript's undefined

ASSUME UserOfType == UserOf \in [Sockets -> Users]
ASSUME DialsType == Dials \subseteq Sockets \X Users
ASSUME BoundNat == MaxRequests \in Nat
ASSUME NoneApart == None \notin CallIds /\ None \notin Users /\ None \notin Sockets

VARIABLES
    conn,                \* per socket: "new", "open", "closed" (handleDisconnect runs), "gone"
    userSockets,         \* per user: the sockets call:incoming goes to
    callId,              \* per socket: meta.callId
    room,                \* per call: sockets joined to the room named after it
    pendingCallTargets,  \* per call: the user allowed to accept
    timer,               \* per call: its missed-call timer
    status,              \* per call: status column, "none" before the row exists
    answered,            \* per call: answered_at is set
    caller,              \* per call: socket whose call:initiate rang it
    target,              \* per call: user it is for
    rung,                \* per call: sockets that were sent call:incoming
    present,             \* per call: users with a participant row whose left_at is null
    task,                \* what each task is doing
    requests             \* requests about an existing call received so far

gateway == <<userSockets, callId, room, pendingCallTargets, timer>>
row == <<status, answered, present>>
call == <<caller, target, rung>>
vars == <<conn, gateway, row, call, task, requests>>

IdleTask == [pc |-> "idle", kind |-> "none", sock |-> None, call |-> None]

Init ==
    /\ conn = [s \in Sockets |-> "new"]
    /\ userSockets = [u \in Users |-> {}]
    /\ callId = [s \in Sockets |-> None]
    /\ room = [c \in CallIds |-> {}]
    /\ pendingCallTargets = [c \in CallIds |-> None]
    /\ timer = [c \in CallIds |-> "none"]
    /\ status = [c \in CallIds |-> "none"]
    /\ answered = [c \in CallIds |-> FALSE]
    /\ caller = [c \in CallIds |-> None]
    /\ target = [c \in CallIds |-> None]
    /\ rung = [c \in CallIds |-> {}]
    /\ present = [c \in CallIds |-> {}]
    /\ task = [t \in Tasks |-> IdleTask]
    /\ requests = 0

\* A handler starts and runs to its first await.
Begin(t, kind, s, c, pc) ==
    /\ task[t].pc = "idle"
    /\ task' = [task EXCEPT ![t] = [pc |-> pc, kind |-> kind, sock |-> s, call |-> c]]

\* A client asks something about the existing call c.
Ask(t, kind, s, c, pc) ==
    /\ conn[s] = "open"
    /\ requests < MaxRequests
    /\ requests' = requests + 1
    /\ Begin(t, kind, s, c, pc)
    /\ UNCHANGED <<conn, gateway, row, call>>

Goto(t, pc) == task' = [task EXCEPT ![t].pc = pc]

Done(t) == task' = [task EXCEPT ![t] = IdleTask]

\* clearTimeout and delete, if the map has a timer for the call.
ClearTimer(c) ==
    timer' = [x \in CallIds |-> IF x = c /\ timer[x] = "armed" THEN "none" ELSE timer[x]]

----------------------------------------------------------------------------

Connect(s) ==
    /\ conn[s] = "new"
    /\ conn' = [conn EXCEPT ![s] = "open"]
    /\ userSockets' = [userSockets EXCEPT ![UserOf[s]] = @ \cup {s}]
    /\ UNCHANGED <<callId, room, pendingCallTargets, timer, row, call, task, requests>>

----------------------------------------------------------------------------
(* call:initiate                                                           *)

\* createSession: the row, with a generated id.
Initiate(t, s, u) ==
    \E c \in CallIds :
        /\ conn[s] = "open"
        /\ <<s, u>> \in Dials
        /\ status[c] = "none"
        /\ Begin(t, "initiate", s, c, "created")
        /\ status' = [status EXCEPT ![c] = "initiated"]
        /\ target' = [target EXCEPT ![c] = u]
        /\ UNCHANGED <<conn, gateway, answered, present, caller, rung, requests>>

\* Mutant of Ring: the timer is set only when the target is offline.
RingOnlineUntimed(t) ==
    LET c == task[t].call
        s == task[t].sock
    IN  /\ task[t].pc = "created"
        /\ present' = [present EXCEPT ![c] = @ \cup {UserOf[s]}]
        /\ caller' = [caller EXCEPT ![c] = s]
        /\ callId' = [callId EXCEPT ![s] = c]
        /\ room' = [room EXCEPT ![c] = @ \cup {s}]
        /\ pendingCallTargets' = [pendingCallTargets EXCEPT ![c] = target[c]]
        /\ rung' = [rung EXCEPT ![c] = userSockets[target[c]]]
        /\ timer' = [timer EXCEPT ![c] = IF userSockets[target[c]] = {} THEN "armed" ELSE @]
        /\ Done(t)
        /\ UNCHANGED <<conn, userSockets, status, answered, target, requests>>

\* The host's row and the rest of the handler: the caller's meta and room, the
\* authorised target, call:incoming to every tab of the target, and the timer.
Ring(t) ==
    LET c == task[t].call
        s == task[t].sock
    IN  /\ task[t].pc = "created"
        /\ present' = [present EXCEPT ![c] = @ \cup {UserOf[s]}]
        /\ caller' = [caller EXCEPT ![c] = s]
        /\ callId' = [callId EXCEPT ![s] = c]
        /\ room' = [room EXCEPT ![c] = @ \cup {s}]
        /\ pendingCallTargets' = [pendingCallTargets EXCEPT ![c] = target[c]]
        /\ rung' = [rung EXCEPT ![c] = userSockets[target[c]]]
        /\ timer' = [timer EXCEPT ![c] = "armed"]
        /\ Done(t)
        /\ UNCHANGED <<conn, userSockets, status, answered, target, requests>>

----------------------------------------------------------------------------
(* The missed-call timer.                                                  *)

Fire(c) ==
    /\ timer[c] = "armed"
    /\ timer' = [timer EXCEPT ![c] = "fired"]
    /\ pendingCallTargets' = [pendingCallTargets EXCEPT ![c] = None]
    /\ UNCHANGED <<conn, userSockets, callId, room, row, call, task, requests>>

\* Mutant of TimerRead: the callback gives up on a call that was not answered.
TimerReadActive(c) ==
    /\ timer[c] = "fired"
    /\ timer' = [timer EXCEPT ![c] = IF status[c] = "active" THEN "missing" ELSE "none"]
    /\ UNCHANGED <<conn, userSockets, callId, room, pendingCallTargets, row, call, task, requests>>

\* getCallById, and the test of the status it returned.
TimerRead(c) ==
    /\ timer[c] = "fired"
    /\ timer' = [timer EXCEPT ![c] = IF status[c] = "initiated" THEN "missing" ELSE "none"]
    /\ UNCHANGED <<conn, userSockets, callId, room, pendingCallTargets, row, call, task, requests>>

\* getCallById fails: the error is caught, and the callback ends.
TimerLost(c) ==
    /\ timer[c] = "fired"
    /\ timer' = [timer EXCEPT ![c] = "lost"]
    /\ UNCHANGED <<conn, userSockets, callId, room, pendingCallTargets, row, call, task, requests>>

\* endCall with reason missed, on behalf of the caller.
TimerMiss(c) ==
    /\ timer[c] = "missing"
    /\ timer' = [timer EXCEPT ![c] = "none"]
    /\ status' = [status EXCEPT ![c] = "missed"]
    /\ present' = [present EXCEPT ![c] = @ \ {UserOf[caller[c]]}]
    /\ UNCHANGED <<conn, userSockets, callId, room, pendingCallTargets, answered, call, task, requests>>

----------------------------------------------------------------------------
(* call:accept                                                             *)

Accept(t, s, c) ==
    /\ s \in rung[c]
    /\ pendingCallTargets[c] \in {None, UserOf[s]}
    /\ Ask(t, "accept", s, c, "accepting")

AcceptUpdate(t) ==
    /\ task[t].pc = "accepting"
    /\ status' = [status EXCEPT ![task[t].call] = "active"]
    /\ answered' = [answered EXCEPT ![task[t].call] = TRUE]
    /\ Goto(t, "accepted")
    /\ UNCHANGED <<conn, gateway, present, call, requests>>

\* The guest's row, then the rest of onCallAccept.
FinishAccept(t) ==
    LET c == task[t].call
        s == task[t].sock
    IN  /\ task[t].pc = "accepted"
        /\ present' = [present EXCEPT ![c] = @ \cup {UserOf[s]}]
        /\ callId' = [callId EXCEPT ![s] = c]
        /\ room' = [room EXCEPT ![c] = @ \cup {s}]
        /\ ClearTimer(c)
        /\ pendingCallTargets' = [pendingCallTargets EXCEPT ![c] = None]
        /\ Done(t)
        /\ UNCHANGED <<conn, userSockets, status, answered, call, requests>>

----------------------------------------------------------------------------
(* call:reject, call:end and handleDisconnect share endCall.               *)

Reject(t, s, c) ==
    /\ s \in rung[c]
    /\ Ask(t, "reject", s, c, "ending")

\* A client knows the id of a call it was sent or, once it rings, has made.
End(t, s, c) ==
    /\ s \in rung[c] \/ s \in room[c]
    /\ Ask(t, "end", s, c, "ending")

\* Socket.IO takes the socket out of its rooms; handleDisconnect then awaits dequeue.
Disconnect(t, s) ==
    /\ conn[s] = "open"
    /\ conn' = [conn EXCEPT ![s] = "closed"]
    /\ room' = [c \in CallIds |-> room[c] \ {s}]
    /\ Begin(t, "disconnect", s, None, "dequeuing")
    /\ UNCHANGED <<userSockets, callId, pendingCallTargets, timer, row, call, requests>>

\* meta.callId names the call to end, ...
DisconnectEnds(t) ==
    /\ task[t].pc = "dequeuing"
    /\ callId[task[t].sock] # None
    /\ task' = [task EXCEPT ![t].pc = "ending", ![t].call = callId[task[t].sock]]
    /\ UNCHANGED <<conn, gateway, row, call, requests>>

\* Mutant of Unregister: the user's entry goes with the first tab that closes.
UnregisterUser(s) ==
    /\ conn' = [conn EXCEPT ![s] = "gone"]
    /\ userSockets' = [userSockets EXCEPT ![UserOf[s]] = {}]

Unregister(s) ==
    /\ conn' = [conn EXCEPT ![s] = "gone"]
    /\ userSockets' = [userSockets EXCEPT ![UserOf[s]] = @ \ {s}]

\* ... or there is none and the socket's entries are deleted at once.
DisconnectIdle(t) ==
    /\ task[t].pc = "dequeuing"
    /\ callId[task[t].sock] = None
    /\ Unregister(task[t].sock)
    /\ Done(t)
    /\ UNCHANGED <<callId, room, pendingCallTargets, timer, row, call, requests>>

\* Mutant of Reason: the reason that is emitted is stored as the status.
ReasonEmitted(kind) ==
    CASE kind = "reject" -> "rejected" [] kind = "disconnect" -> "peer_disconnected"
      [] OTHER -> "ended"

Reason(kind) == IF kind = "reject" THEN "rejected" ELSE "ended"

EndUpdate(t) ==
    /\ task[t].pc = "ending"
    /\ status' = [status EXCEPT ![task[t].call] = Reason(task[t].kind)]
    /\ Goto(t, "ended")
    /\ UNCHANGED <<conn, gateway, answered, present, call, requests>>

\* markParticipantLeft, the last statement of endCall that writes a call.
MarkLeft(t) == present' = [present EXCEPT ![task[t].call] = @ \ {UserOf[task[t].sock]}]

FinishReject(t) ==
    /\ task[t].pc = "ended" /\ task[t].kind = "reject"
    /\ MarkLeft(t)
    /\ ClearTimer(task[t].call)
    /\ pendingCallTargets' = [pendingCallTargets EXCEPT ![task[t].call] = None]
    /\ Done(t)
    /\ UNCHANGED <<conn, userSockets, callId, room, status, answered, call, requests>>

\* Mutants of FinishEnd: the timer stays armed; meta.callId is not reset.
FinishEndTimed(t) ==
    /\ task[t].pc = "ended" /\ task[t].kind = "end"
    /\ MarkLeft(t)
    /\ pendingCallTargets' = [pendingCallTargets EXCEPT ![task[t].call] = None]
    /\ room' = [room EXCEPT ![task[t].call] = @ \ {task[t].sock}]
    /\ callId' = [callId EXCEPT ![task[t].sock] = None]
    /\ Done(t)
    /\ UNCHANGED <<conn, userSockets, timer, status, answered, call, requests>>

FinishEndInCall(t) ==
    /\ task[t].pc = "ended" /\ task[t].kind = "end"
    /\ MarkLeft(t)
    /\ ClearTimer(task[t].call)
    /\ pendingCallTargets' = [pendingCallTargets EXCEPT ![task[t].call] = None]
    /\ room' = [room EXCEPT ![task[t].call] = @ \ {task[t].sock}]
    /\ Done(t)
    /\ UNCHANGED <<conn, userSockets, callId, status, answered, call, requests>>

\* call:end also leaves the room and forgets meta.callId, whichever call that is.
FinishEnd(t) ==
    /\ task[t].pc = "ended" /\ task[t].kind = "end"
    /\ MarkLeft(t)
    /\ ClearTimer(task[t].call)
    /\ pendingCallTargets' = [pendingCallTargets EXCEPT ![task[t].call] = None]
    /\ room' = [room EXCEPT ![task[t].call] = @ \ {task[t].sock}]
    /\ callId' = [callId EXCEPT ![task[t].sock] = None]
    /\ Done(t)
    /\ UNCHANGED <<conn, userSockets, status, answered, call, requests>>

\* handleDisconnect reads meta.callId again to find the timer to cancel.
FinishDisconnect(t) ==
    /\ task[t].pc = "ended" /\ task[t].kind = "disconnect"
    /\ MarkLeft(t)
    /\ ClearTimer(callId[task[t].sock])
    /\ Unregister(task[t].sock)
    /\ Done(t)
    /\ UNCHANGED <<callId, room, pendingCallTargets, status, answered, call, requests>>

----------------------------------------------------------------------------
(* call:switch-type                                                        *)

SwitchType(t, s, c) ==
    /\ s \in room[c]
    /\ Ask(t, "switch", s, c, "switching")

\* toggleCallType stores status active and nothing else.
SwitchUpdate(t) ==
    /\ task[t].pc = "switching"
    /\ status' = [status EXCEPT ![task[t].call] = "active"]
    /\ Done(t)
    /\ UNCHANGED <<conn, gateway, answered, present, call, requests>>

\* A statement fails: the handler's promise rejects and the rest is skipped.
DbFails(t) ==
    /\ task[t].pc \in {"created", "accepting", "accepted", "ending", "ended", "switching"}
    /\ Done(t)
    /\ UNCHANGED <<conn, gateway, row, call, requests>>

----------------------------------------------------------------------------

Step(t) ==
    \/ Ring(t) \/ AcceptUpdate(t) \/ FinishAccept(t)
    \/ DisconnectEnds(t) \/ DisconnectIdle(t)
    \/ EndUpdate(t) \/ FinishReject(t) \/ FinishEnd(t) \/ FinishDisconnect(t)
    \/ SwitchUpdate(t) \/ DbFails(t)

Timer(c) == Fire(c) \/ TimerRead(c) \/ TimerLost(c) \/ TimerMiss(c)

Request(t, s, c) ==
    Accept(t, s, c) \/ Reject(t, s, c) \/ End(t, s, c) \/ SwitchType(t, s, c)

Next ==
    \/ \E s \in Sockets : Connect(s)
    \/ \E t \in Tasks, s \in Sockets, u \in Users : Initiate(t, s, u)
    \/ \E t \in Tasks, s \in Sockets : Disconnect(t, s)
    \/ \E t \in Tasks, s \in Sockets, c \in CallIds : Request(t, s, c)
    \/ \E t \in Tasks : Step(t)
    \/ \E c \in CallIds : Timer(c)

Spec == Init /\ [][Next]_vars

\* The database answers every statement and Node runs every expired timer.
Fairness ==
    /\ \A t \in Tasks : WF_vars(Step(t))
    /\ \A c \in CallIds : WF_vars(Timer(c))

FairSpec == Spec /\ Fairness

----------------------------------------------------------------------------
(* Properties.                                                             *)

Statuses == {"none", "initiated", "active", "ended", "rejected", "missed"}

Handler == [pc : {"idle", "created", "accepting", "accepted", "dequeuing", "ending",
                  "ended", "switching"},
            kind : {"none", "initiate", "accept", "reject", "end", "disconnect", "switch"},
            sock : Sockets \cup {None}, call : CallIds \cup {None}]

\* Types of the gateway's maps, the call rows and the handlers' locals.
TypeOK ==
    /\ conn \in [Sockets -> {"new", "open", "closed", "gone"}]
    /\ userSockets \in [Users -> SUBSET Sockets]
    /\ callId \in [Sockets -> CallIds \cup {None}]
    /\ room \in [CallIds -> SUBSET Sockets]
    /\ pendingCallTargets \in [CallIds -> Users \cup {None}]
    /\ timer \in [CallIds -> {"none", "armed", "fired", "missing", "lost"}]
    /\ status \in [CallIds -> Statuses]
    /\ answered \in [CallIds -> BOOLEAN]
    /\ caller \in [CallIds -> Sockets \cup {None}]
    /\ target \in [CallIds -> Users \cup {None}]
    /\ rung \in [CallIds -> SUBSET Sockets]
    /\ present \in [CallIds -> SUBSET Users]
    /\ task \in [Tasks -> Handler]
    /\ requests \in Nat

\* The call rings: it was announced and its row says so.
Ringing(c) == status[c] = "initiated" /\ caller[c] # None

\* A call that rings is being watched: its missed-call timer is armed or its
\* callback is on the way to marking it missed, or that callback met a database
\* error.  No accept, reject, end, switch or disconnect, of this call or another,
\* completed or failed half way and however they interleave, leaves it ringing
\* with nothing to end it.  The exception is a socket that made or was offered another
\* call and disconnected: handleDisconnect awaits the end of one and cancels the timer
\* of the call that meta.callId names by then.
RingingHasTimer ==
    \A c \in CallIds :
        /\ Ringing(c)
        /\ \/ conn[caller[c]] = "open"
           \/ \A d \in CallIds \ {c} : caller[c] # caller[d] /\ caller[c] \notin rung[d]
        => timer[c] # "none"

\* While the timer is armed the call can only be accepted by its target
\* (signaling.gateway.ts 250-254): the entry that call:accept is checked against
\* is there, whatever ends, rejects or disconnects of other sockets have run.
TargetGuarded ==
    \A c \in CallIds : timer[c] = "armed" => pendingCallTargets[c] = target[c]

\* meta.callId names a room the connected socket is in, so the call:ended that
\* handleDisconnect or a peer sends to that room reaches it.
CallIdInRoom ==
    \A s \in Sockets :
        conn[s] = "open" /\ callId[s] # None => s \in room[callId[s]]

\* Every tab that can be rung is a tab of the user that is connected or whose
\* handleDisconnect has not finished, and every connected tab can be rung.
Reachable ==
    \A u \in Users :
        /\ {s \in Sockets : conn[s] = "open" /\ UserOf[s] = u} \subseteq userSockets[u]
        /\ userSockets[u] \subseteq
               {s \in Sockets : conn[s] \in {"open", "closed"} /\ UserOf[s] = u}

\* A ringing call does not ring for ever: it is answered, ended, rejected or
\* missed, unless its caller disconnects or its timer met a database error.
RingingEnds ==
    \A c \in CallIds :
        Ringing(c) ~> (\/ ~Ringing(c)
                       \/ conn[caller[c]] # "open"
                       \/ timer[c] = "lost")

\* signaling.gateway.ts:267, "Cancel missed-call timer since the call was answered":
\* an answered call is not recorded as missed.
AnsweredNotMissed ==
    \A c \in CallIds : status[c] = "missed" => ~answered[c]
====
