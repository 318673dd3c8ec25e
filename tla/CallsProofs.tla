---- MODULE CallsProofs ----
(***************************************************************************)
(* Theorems about Calls, for any number of users, sockets, calls and       *)
(* handlers and any dialling.                                              *)
(***************************************************************************)
EXTENDS Calls, TLAPS

\* Which locals a handler has where.
Locals ==
    \A t \in Tasks :
        /\ task[t].pc \in {"idle", "dequeuing"} <=> task[t].call = None
        /\ task[t].pc = "idle" <=> task[t].sock = None
        /\ task[t].pc = "dequeuing" => task[t].kind = "disconnect"
        /\ task[t].pc = "idle" => task[t].kind = "none"

\* A socket in any use has connected.
Known ==
    /\ \A t \in Tasks : task[t].sock # None => conn[task[t].sock] # "new"
    /\ \A s \in Sockets : callId[s] # None => conn[s] # "new"
    /\ \A c \in CallIds : caller[c] # None => conn[caller[c]] # "new"

\* One handleDisconnect runs for a closed socket.
Closing ==
    \A t \in Tasks : task[t].kind = "disconnect" =>
        /\ conn[task[t].sock] = "closed"
        /\ \A u \in Tasks : task[u].kind = "disconnect" /\ task[u].sock = task[t].sock => u = t

\* Nothing but its own call:initiate knows a call before it rings, ...
Unrung ==
    \A c \in CallIds : caller[c] = None =>
        /\ rung[c] = {} /\ room[c] = {} /\ timer[c] = "none"
        /\ \A s \in Sockets : callId[s] # c
        /\ \A t \in Tasks : task[t].call = c => task[t].pc = "created"

\* ... and that handler is the only one; an id without a row is in no handler.
Created ==
    /\ \A t \in Tasks : task[t].pc = "created" =>
          /\ caller[task[t].call] = None
          /\ \A u \in Tasks : task[u].call = task[t].call => u = t
    /\ \A c \in CallIds : IF status[c] = "none"
                          THEN caller[c] = None /\ \A t \in Tasks : task[t].call # c
                          ELSE target[c] \in Users

\* Handlers past their update find the call answered or ended, for good.
Late ==
    \A t \in Tasks : task[t].pc \in {"accepted", "ended"} => status[task[t].call] # "initiated"

\* A socket accepts what it was offered and, on its way out, ends a call it was part of.
Parties ==
    \A t \in Tasks :
        /\ task[t].pc \in {"accepting", "accepted"} => task[t].sock \in rung[task[t].call]
        /\ task[t].kind = "disconnect" /\ task[t].call # None =>
              caller[task[t].call] = task[t].sock \/ task[t].sock \in rung[task[t].call]

\* meta.callId names a call the socket made, or one it was offered and that was answered.
OwnCall ==
    \A s \in Sockets : callId[s] # None =>
        \/ caller[callId[s]] = s
        \/ s \in rung[callId[s]] /\ status[callId[s]] # "initiated"

CallsInv ==
    /\ TypeOK /\ Locals /\ Known /\ Closing
    /\ Unrung /\ Created /\ Late /\ Parties /\ OwnCall
    /\ RingingHasTimer /\ TargetGuarded /\ CallIdInRoom /\ Reachable

LEMMA IdleTyped ==
    /\ IdleTask \in Handler
    /\ IdleTask.pc = "idle" /\ IdleTask.kind = "none" /\ IdleTask.sock = None /\ IdleTask.call = None
  BY DEF IdleTask, Handler

LEMMA InitCalls == Init => CallsInv
<1> SUFFICES ASSUME Init PROVE CallsInv
  OBVIOUS
<1>1. TypeOK
  BY IdleTyped DEF Init, TypeOK, Statuses
<1>2. Locals /\ Known /\ Closing
  BY IdleTyped DEF Init, Locals, Known, Closing
<1>3. Unrung /\ Created /\ Late /\ Parties /\ OwnCall
  BY IdleTyped, NoneApart DEF Init, Unrung, Created, Late, Parties, OwnCall
<1>4. RingingHasTimer /\ TargetGuarded /\ CallIdInRoom /\ Reachable
  BY DEF Init, RingingHasTimer, Ringing, TargetGuarded, CallIdInRoom, Reachable
<1>5. QED
  BY <1>1, <1>2, <1>3, <1>4 DEF CallsInv

----------------------------------------------------------------------------
(* Handlers.                                                               *)

LEMMA GotoFacts ==
    ASSUME TypeOK, NEW t \in Tasks,
           NEW pc \in {"accepted", "ended"}, Goto(t, pc)
    PROVE  /\ task' \in [Tasks -> Handler]
           /\ task'[t].pc = pc /\ task'[t].kind = task[t].kind
           /\ task'[t].sock = task[t].sock /\ task'[t].call = task[t].call
           /\ \A u \in Tasks \ {t} : task'[u] = task[u]
<1> DEFINE new == [task[t] EXCEPT !.pc = pc]
<1>1. task \in [Tasks -> Handler] /\ task[t] \in Handler
  BY DEF TypeOK
<1>2. /\ new \in Handler /\ new.pc = pc /\ new.kind = task[t].kind
      /\ new.sock = task[t].sock /\ new.call = task[t].call
  BY <1>1 DEF Handler
<1>3. task' = [task EXCEPT ![t] = new]
  BY <1>1 DEF Goto
<1> HIDE DEF new
<1>4. QED
  BY <1>1, <1>2, <1>3

\* handleDisconnect takes the call to end from meta.
LEMMA MoveFacts ==
    ASSUME TypeOK, NEW t \in Tasks, NEW c \in CallIds,
           task' = [task EXCEPT ![t].pc = "ending", ![t].call = c]
    PROVE  /\ task' \in [Tasks -> Handler]
           /\ task'[t].pc = "ending" /\ task'[t].kind = task[t].kind
           /\ task'[t].sock = task[t].sock /\ task'[t].call = c
           /\ \A u \in Tasks \ {t} : task'[u] = task[u]
<1> DEFINE new == [task[t] EXCEPT !.pc = "ending", !.call = c]
<1>1. task \in [Tasks -> Handler] /\ task[t] \in Handler
  BY DEF TypeOK
<1>2. /\ new \in Handler /\ new.pc = "ending" /\ new.kind = task[t].kind
      /\ new.sock = task[t].sock /\ new.call = c
  BY <1>1 DEF Handler
<1>3. task' = [task EXCEPT ![t] = new]
  BY <1>1
<1> HIDE DEF new
<1>4. QED
  BY <1>1, <1>2, <1>3

LEMMA DoneFacts ==
    ASSUME TypeOK, NEW t \in Tasks, Done(t)
    PROVE  /\ task' \in [Tasks -> Handler]
           /\ task'[t].pc = "idle" /\ task'[t].kind = "none"
           /\ task'[t].sock = None /\ task'[t].call = None
           /\ \A u \in Tasks \ {t} : task'[u] = task[u]
  BY IdleTyped DEF TypeOK, Done

LEMMA BeginFacts ==
    ASSUME TypeOK, NEW t \in Tasks, NEW kind \in {"initiate", "accept", "reject", "end", "disconnect", "switch"},
           NEW s \in Sockets, NEW c \in CallIds \cup {None},
           NEW pc \in {"created", "accepting", "dequeuing", "ending", "switching"},
           Begin(t, kind, s, c, pc)
    PROVE  /\ task' \in [Tasks -> Handler] /\ task[t].pc = "idle"
           /\ task'[t].pc = pc /\ task'[t].kind = kind /\ task'[t].sock = s /\ task'[t].call = c
           /\ \A u \in Tasks \ {t} : task'[u] = task[u]
<1> DEFINE new == [pc |-> pc, kind |-> kind, sock |-> s, call |-> c]
<1>1. new \in Handler /\ new.pc = pc /\ new.kind = kind /\ new.sock = s /\ new.call = c
  BY DEF Handler
<1>2. task' = [task EXCEPT ![t] = new] /\ task[t].pc = "idle"
  BY DEF Begin
<1> HIDE DEF new
<1>3. QED
  BY <1>1, <1>2 DEF TypeOK

\* A handler with a socket and a call.
LEMMA HandlerFacts ==
    ASSUME TypeOK, Locals, NEW t \in Tasks, task[t].pc \notin {"idle", "dequeuing"}
    PROVE  task[t].sock \in Sockets /\ task[t].call \in CallIds
<1>1. task[t] \in Handler
  BY DEF TypeOK
<1>2. QED
  BY <1>1 DEF Handler, Locals

----------------------------------------------------------------------------
(* The steps.                                                              *)

\* The types, point by point.
LEMMA Points ==
    ASSUME TypeOK
    PROVE  /\ \A s \in Sockets : callId[s] \in CallIds \cup {None}
           /\ \A c \in CallIds : /\ caller[c] \in Sockets \cup {None}
                                 /\ rung[c] \subseteq Sockets /\ room[c] \subseteq Sockets
           /\ \A u \in Tasks : /\ task[u].sock \in Sockets \cup {None}
                               /\ task[u].call \in CallIds \cup {None}
           /\ \A u \in Users : userSockets[u] \subseteq Sockets
<1>1. \A u \in Tasks : task[u] \in Handler
  BY DEF TypeOK
<1>2. QED
  BY <1>1 DEF TypeOK, Handler

LEMMA ConnectStep ==
    ASSUME CallsInv, NEW s \in Sockets, Connect(s)
    PROVE  CallsInv'
<1>1. /\ TypeOK /\ Locals /\ Known /\ Closing /\ Unrung /\ Created /\ Late /\ Parties
      /\ OwnCall /\ RingingHasTimer /\ TargetGuarded /\ CallIdInRoom /\ Reachable
  BY DEF CallsInv
<1>2. /\ conn[s] = "new" /\ conn' = [conn EXCEPT ![s] = "open"]
      /\ userSockets' = [userSockets EXCEPT ![UserOf[s]] = @ \cup {s}] /\ UserOf[s] \in Users
      /\ UNCHANGED <<callId, room, pendingCallTargets, timer, status, answered, present,
                     caller, target, rung, task, requests>>
  BY UserOfType DEF Connect, row, call
<1>3. /\ conn'[s] = "open" /\ \A x \in Sockets \ {s} : conn'[x] = conn[x]
      /\ userSockets'[UserOf[s]] = userSockets[UserOf[s]] \cup {s}
      /\ \A u \in Users \ {UserOf[s]} : userSockets'[u] = userSockets[u]
  BY <1>1, <1>2 DEF TypeOK
<1>4. TypeOK'
  BY <1>1, <1>2, <1>3, UserOfType DEF TypeOK
<1>5. Locals'
  BY <1>1, <1>2 DEF Locals
<1>6. Known'
  BY <1>1, <1>2 DEF Known
<1>7. Closing'
  BY <1>1, <1>2 DEF Closing
<1>8. Unrung'
  BY <1>1, <1>2 DEF Unrung
<1>9. Created'
  BY <1>1, <1>2 DEF Created
<1>10. Late'
  BY <1>1, <1>2 DEF Late
<1>11. Parties'
  BY <1>1, <1>2 DEF Parties
<1>12. OwnCall'
  BY <1>1, <1>2 DEF OwnCall
<1>13. RingingHasTimer'
  BY <1>1, <1>2 DEF RingingHasTimer, Ringing, Known
<1>14. TargetGuarded'
  BY <1>1, <1>2 DEF TargetGuarded
<1>15. CallIdInRoom'
  BY <1>1, <1>2 DEF CallIdInRoom, Known
<1>16. Reachable'
  BY <1>1, <1>3 DEF Reachable
<1>17. QED
  BY <1>4, <1>5, <1>6, <1>7, <1>8, <1>9, <1>10, <1>11, <1>12, <1>13, <1>14, <1>15, <1>16
     DEF CallsInv

LEMMA InitiateStep ==
    ASSUME CallsInv, NEW t \in Tasks, NEW s \in Sockets, NEW u \in Users, Initiate(t, s, u)
    PROVE  CallsInv'
<1>1. /\ TypeOK /\ Locals /\ Known /\ Closing /\ Unrung /\ Created /\ Late /\ Parties
      /\ OwnCall /\ RingingHasTimer /\ TargetGuarded /\ CallIdInRoom /\ Reachable
  BY DEF CallsInv
<1>2. PICK c \in CallIds :
         /\ conn[s] = "open" /\ status[c] = "none" /\ Begin(t, "initiate", s, c, "created")
         /\ status' = [status EXCEPT ![c] = "initiated"] /\ target' = [target EXCEPT ![c] = u]
         /\ UNCHANGED <<conn, userSockets, callId, room, pendingCallTargets, timer, answered,
                        present, caller, rung, requests>>
  BY DEF Initiate, gateway
<1>3. /\ task' \in [Tasks -> Handler] /\ task[t].pc = "idle"
      /\ task'[t].pc = "created" /\ task'[t].kind = "initiate" /\ task'[t].sock = s
      /\ task'[t].call = c /\ \A v \in Tasks \ {t} : task'[v] = task[v]
  BY <1>1, <1>2, BeginFacts
<1>4. /\ status'[c] = "initiated" /\ \A d \in CallIds \ {c} : status'[d] = status[d]
      /\ target'[c] = u /\ \A d \in CallIds \ {c} : target'[d] = target[d]
      /\ caller[c] = None /\ timer[c] = "none" /\ \A v \in Tasks : task[v].call # c
  BY <1>1, <1>2 DEF TypeOK, Created, Unrung
<1>5. TypeOK'
  BY <1>1, <1>2, <1>3 DEF TypeOK, Statuses
<1>6. Locals'
  BY <1>1, <1>3, NoneApart DEF Locals
<1>7. Known'
  BY <1>1, <1>2, <1>3 DEF Known
<1>8. Closing'
  BY <1>1, <1>2, <1>3 DEF Closing
<1>9. Unrung'
  BY <1>1, <1>2, <1>3 DEF Unrung
<1>10. Created'
  BY <1>1, <1>2, <1>3, <1>4 DEF Created
<1>11. Late'
  BY <1>1, <1>2, <1>3, <1>4 DEF Late
<1>12. Parties'
  BY <1>1, <1>2, <1>3 DEF Parties
<1>13. OwnCall'
  BY <1>1, <1>2, <1>4 DEF OwnCall, Unrung
<1>14. RingingHasTimer'
  BY <1>1, <1>2, <1>4 DEF RingingHasTimer, Ringing
<1>15. TargetGuarded'
  BY <1>1, <1>2, <1>4 DEF TargetGuarded
<1>16. CallIdInRoom'
  BY <1>1, <1>2 DEF CallIdInRoom
<1>17. Reachable'
  BY <1>1, <1>2 DEF Reachable
<1>18. QED
  BY <1>5, <1>6, <1>7, <1>8, <1>9, <1>10, <1>11, <1>12, <1>13, <1>14, <1>15, <1>16, <1>17
     DEF CallsInv

LEMMA RingStep ==
    ASSUME CallsInv, NEW t \in Tasks, Ring(t)
    PROVE  CallsInv'
<1>1. /\ TypeOK /\ Locals /\ Known /\ Closing /\ Unrung /\ Created /\ Late /\ Parties
      /\ OwnCall /\ RingingHasTimer /\ TargetGuarded /\ CallIdInRoom /\ Reachable
  BY DEF CallsInv
<1>2. PICK s \in Sockets, c \in CallIds : s = task[t].sock /\ c = task[t].call
  BY <1>1, HandlerFacts DEF Ring
<1>3. /\ task[t].pc = "created"
      /\ present' = [present EXCEPT ![c] = @ \cup {UserOf[s]}] /\ caller' = [caller EXCEPT ![c] = s]
      /\ callId' = [callId EXCEPT ![s] = c] /\ room' = [room EXCEPT ![c] = @ \cup {s}]
      /\ pendingCallTargets' = [pendingCallTargets EXCEPT ![c] = target[c]]
      /\ rung' = [rung EXCEPT ![c] = userSockets[target[c]]]
      /\ timer' = [timer EXCEPT ![c] = "armed"]
      /\ UNCHANGED <<conn, userSockets, status, answered, target, requests>>
  BY <1>2 DEF Ring
<1>4. /\ task' \in [Tasks -> Handler]
      /\ task'[t].pc = "idle" /\ task'[t].kind = "none" /\ task'[t].sock = None
      /\ task'[t].call = None /\ \A v \in Tasks \ {t} : task'[v] = task[v]
  BY <1>1, DoneFacts DEF Ring
<1>5. /\ caller[c] = None /\ rung[c] = {} /\ status[c] # "none" /\ target[c] \in Users /\ UserOf[s] \in Users
      /\ \A v \in Tasks \ {t} : task[v].call # c
  BY <1>1, <1>2, <1>3, UserOfType DEF Created, Unrung
<1>6. /\ caller'[c] = s /\ callId'[s] = c /\ room'[c] = room[c] \cup {s} /\ timer'[c] = "armed"
      /\ pendingCallTargets'[c] = target[c]
      /\ \A x \in Sockets \ {s} : callId'[x] = callId[x]
      /\ \A d \in CallIds \ {c} : /\ caller'[d] = caller[d] /\ room'[d] = room[d] /\ rung'[d] = rung[d]
                                  /\ timer'[d] = timer[d]
                                  /\ pendingCallTargets'[d] = pendingCallTargets[d]
  BY <1>1, <1>2, <1>3 DEF TypeOK
<1>7. TypeOK'
  BY <1>1, <1>3, <1>4, <1>5 DEF TypeOK
<1>8. Locals'
  BY <1>1, <1>4 DEF Locals
<1>9. Known'
  BY <1>1, <1>2, <1>3, <1>4, NoneApart DEF Known
<1>10. Closing'
  BY <1>1, <1>3, <1>4 DEF Closing
<1>11. Unrung'
  BY <1>1, <1>4, <1>6, NoneApart DEF Unrung
<1>12. Created'
  BY <1>1, <1>2, <1>3, <1>4, NoneApart DEF Created, Locals
<1>13. Late'
  BY <1>1, <1>3, <1>4 DEF Late
<1>14. Parties'
  BY <1>1, <1>3, <1>4, <1>5 DEF Parties
<1>15. OwnCall'
  BY <1>1, <1>3, <1>5, <1>6, NoneApart DEF OwnCall
<1>16. RingingHasTimer'
  BY <1>1, <1>3, <1>5, <1>6 DEF RingingHasTimer, Ringing
<1>17. TargetGuarded'
  BY <1>1, <1>3, <1>6 DEF TargetGuarded
<1>18. CallIdInRoom'
  BY <1>1, <1>3, <1>6 DEF CallIdInRoom
<1>19. Reachable'
  BY <1>1, <1>3 DEF Reachable
<1>20. QED
  BY <1>7, <1>8, <1>9, <1>10, <1>11, <1>12, <1>13, <1>14, <1>15, <1>16, <1>17, <1>18,
     <1>19 DEF CallsInv

LEMMA AskStep ==
    ASSUME CallsInv, NEW t \in Tasks, NEW s \in Sockets, NEW c \in CallIds,
           NEW kind \in {"accept", "reject", "end", "switch"},
           NEW pc \in {"accepting", "ending", "switching"}, Ask(t, kind, s, c, pc),
           s \in rung[c] \/ s \in room[c], pc = "accepting" => s \in rung[c]
    PROVE  CallsInv'
<1>1. /\ TypeOK /\ Locals /\ Known /\ Closing /\ Unrung /\ Created /\ Late /\ Parties
      /\ OwnCall /\ RingingHasTimer /\ TargetGuarded /\ CallIdInRoom /\ Reachable
  BY DEF CallsInv
<1>2. /\ conn[s] = "open" /\ requests' = requests + 1 /\ Begin(t, kind, s, c, pc)
      /\ UNCHANGED <<conn, userSockets, callId, room, pendingCallTargets, timer, status, answered,
                     present, caller, target, rung>>
  BY DEF Ask, gateway, row, call
<1>3. /\ task' \in [Tasks -> Handler] /\ task[t].pc = "idle"
      /\ task'[t].pc = pc /\ task'[t].kind = kind /\ task'[t].sock = s /\ task'[t].call = c
      /\ \A v \in Tasks \ {t} : task'[v] = task[v]
  BY <1>1, <1>2, BeginFacts
<1>4. caller[c] # None /\ status[c] # "none"
  BY <1>1 DEF Unrung, Created
<1>5. TypeOK'
  BY <1>1, <1>2, <1>3 DEF TypeOK
<1>6. Locals'
  BY <1>1, <1>3, NoneApart DEF Locals
<1>7. Known'
  BY <1>1, <1>2, <1>3 DEF Known
<1>8. Closing'
  BY <1>1, <1>2, <1>3 DEF Closing
<1>9. Unrung'
  BY <1>1, <1>2, <1>3 DEF Unrung
<1>10. Created'
  BY <1>1, <1>2, <1>3, <1>4 DEF Created
<1>11. Late'
  BY <1>1, <1>2, <1>3 DEF Late
<1>12. Parties'
  BY <1>1, <1>2, <1>3 DEF Parties
<1>13. OwnCall'
  BY <1>1, <1>2 DEF OwnCall
<1>14. RingingHasTimer'
  BY <1>1, <1>2 DEF RingingHasTimer, Ringing
<1>15. TargetGuarded'
  BY <1>1, <1>2 DEF TargetGuarded
<1>16. CallIdInRoom'
  BY <1>1, <1>2 DEF CallIdInRoom
<1>17. Reachable'
  BY <1>1, <1>2 DEF Reachable
<1>18. QED
  BY <1>5, <1>6, <1>7, <1>8, <1>9, <1>10, <1>11, <1>12, <1>13, <1>14, <1>15, <1>16, <1>17
     DEF CallsInv

LEMMA FireStep ==
    ASSUME CallsInv, NEW c \in CallIds, Fire(c)
    PROVE  CallsInv'
<1>1. /\ TypeOK /\ Locals /\ Known /\ Closing /\ Unrung /\ Created /\ Late /\ Parties
      /\ OwnCall /\ RingingHasTimer /\ TargetGuarded /\ CallIdInRoom /\ Reachable
  BY DEF CallsInv
<1>2. /\ timer[c] = "armed" /\ timer' = [timer EXCEPT ![c] = "fired"]
      /\ pendingCallTargets' = [pendingCallTargets EXCEPT ![c] = None]
      /\ UNCHANGED <<conn, userSockets, callId, room, status, answered, present, caller, target, rung,
                     task, requests>>
  BY DEF Fire, row, call
<1>3. /\ timer'[c] = "fired"
      /\ \A d \in CallIds \ {c} : /\ timer'[d] = timer[d]
                                  /\ pendingCallTargets'[d] = pendingCallTargets[d]
  BY <1>1, <1>2 DEF TypeOK
<1>4. TypeOK'
  BY <1>1, <1>2, <1>3, UserOfType DEF TypeOK
<1>5. Locals'
  BY <1>1, <1>2 DEF Locals
<1>6. Known'
  BY <1>1, <1>2 DEF Known
<1>7. Closing'
  BY <1>1, <1>2 DEF Closing
<1>8. Unrung'
  BY <1>1, <1>2 DEF Unrung
<1>9. Created'
  BY <1>1, <1>2 DEF Created
<1>10. Late'
  BY <1>1, <1>2 DEF Late
<1>11. Parties'
  BY <1>1, <1>2 DEF Parties
<1>12. OwnCall'
  BY <1>1, <1>2 DEF OwnCall
<1>13. RingingHasTimer'
  BY <1>1, <1>2 DEF RingingHasTimer, Ringing
<1>14. TargetGuarded'
  BY <1>1, <1>2, <1>3 DEF TargetGuarded
<1>15. CallIdInRoom'
  BY <1>1, <1>2 DEF CallIdInRoom
<1>16. Reachable'
  BY <1>1, <1>2 DEF Reachable
<1>17. QED
  BY <1>4, <1>5, <1>6, <1>7, <1>8, <1>9, <1>10, <1>11, <1>12, <1>13, <1>14, <1>15, <1>16
     DEF CallsInv

LEMMA TimerReadStep ==
    ASSUME CallsInv, NEW c \in CallIds, TimerRead(c) \/ TimerLost(c)
    PROVE  CallsInv'
<1>1. /\ TypeOK /\ Locals /\ Known /\ Closing /\ Unrung /\ Created /\ Late /\ Parties
      /\ OwnCall /\ RingingHasTimer /\ TargetGuarded /\ CallIdInRoom /\ Reachable
  BY DEF CallsInv
<1>2. PICK new \in {"missing", "none", "lost"} :
         /\ timer[c] = "fired" /\ timer' = [timer EXCEPT ![c] = new]
         /\ new = "none" => status[c] # "initiated"
         /\ UNCHANGED <<conn, userSockets, callId, room, pendingCallTargets, status, answered, present,
                        caller, target, rung, task, requests>>
  BY DEF TimerRead, TimerLost, row, call
<1>3. /\ timer'[c] = new /\ \A d \in CallIds \ {c} : timer'[d] = timer[d]
  BY <1>1, <1>2 DEF TypeOK
<1>4. TypeOK'
  BY <1>1, <1>2, <1>3, UserOfType DEF TypeOK
<1>5. Locals'
  BY <1>1, <1>2 DEF Locals
<1>6. Known'
  BY <1>1, <1>2 DEF Known
<1>7. Closing'
  BY <1>1, <1>2 DEF Closing
<1>8. Unrung'
  BY <1>1, <1>2 DEF Unrung
<1>9. Created'
  BY <1>1, <1>2 DEF Created
<1>10. Late'
  BY <1>1, <1>2 DEF Late
<1>11. Parties'
  BY <1>1, <1>2 DEF Parties
<1>12. OwnCall'
  BY <1>1, <1>2 DEF OwnCall
<1>13. RingingHasTimer'
  BY <1>1, <1>2 DEF RingingHasTimer, Ringing
<1>14. TargetGuarded'
  BY <1>1, <1>2 DEF TargetGuarded
<1>15. CallIdInRoom'
  BY <1>1, <1>2 DEF CallIdInRoom
<1>16. Reachable'
  BY <1>1, <1>2 DEF Reachable
<1>17. QED
  BY <1>4, <1>5, <1>6, <1>7, <1>8, <1>9, <1>10, <1>11, <1>12, <1>13, <1>14, <1>15, <1>16
     DEF CallsInv

LEMMA TimerMissStep ==
    ASSUME CallsInv, NEW c \in CallIds, TimerMiss(c)
    PROVE  CallsInv'
<1>1. /\ TypeOK /\ Locals /\ Known /\ Closing /\ Unrung /\ Created /\ Late /\ Parties
      /\ OwnCall /\ RingingHasTimer /\ TargetGuarded /\ CallIdInRoom /\ Reachable
  BY DEF CallsInv
<1>2. /\ timer[c] = "missing" /\ timer' = [timer EXCEPT ![c] = "none"]
      /\ status' = [status EXCEPT ![c] = "missed"]
      /\ present' = [present EXCEPT ![c] = @ \ {UserOf[caller[c]]}]
      /\ UNCHANGED <<conn, userSockets, callId, room, pendingCallTargets, answered, caller, target,
                     rung, task, requests>>
  BY DEF TimerMiss, call
<1>3. /\ timer'[c] = "none" /\ status'[c] = "missed" /\ caller[c] # None /\ status[c] # "none"
      /\ \A d \in CallIds \ {c} : timer'[d] = timer[d] /\ status'[d] = status[d]
  BY <1>1, <1>2 DEF TypeOK, Unrung, Created
<1>4. TypeOK'
  BY <1>1, <1>2 DEF TypeOK, Statuses
<1>5. Locals'
  BY <1>1, <1>2 DEF Locals
<1>6. Known'
  BY <1>1, <1>2 DEF Known
<1>7. Closing'
  BY <1>1, <1>2 DEF Closing
<1>8. Unrung'
  BY <1>1, <1>2 DEF Unrung
<1>9. Created'
  BY <1>1, <1>2, <1>3 DEF Created
<1>10. Late'
  BY <1>1, <1>2 DEF Late
<1>11. Parties'
  BY <1>1, <1>2 DEF Parties
<1>12. OwnCall'
  BY <1>1, <1>2 DEF OwnCall
<1>13. RingingHasTimer'
  BY <1>1, <1>2, <1>3 DEF RingingHasTimer, Ringing
<1>14. TargetGuarded'
  BY <1>1, <1>2 DEF TargetGuarded
<1>15. CallIdInRoom'
  BY <1>1, <1>2 DEF CallIdInRoom
<1>16. Reachable'
  BY <1>1, <1>2 DEF Reachable
<1>17. QED
  BY <1>4, <1>5, <1>6, <1>7, <1>8, <1>9, <1>10, <1>11, <1>12, <1>13, <1>14, <1>15, <1>16
     DEF CallsInv

LEMMA AcceptUpdateStep ==
    ASSUME CallsInv, NEW t \in Tasks, AcceptUpdate(t)
    PROVE  CallsInv'
<1>1. /\ TypeOK /\ Locals /\ Known /\ Closing /\ Unrung /\ Created /\ Late /\ Parties
      /\ OwnCall /\ RingingHasTimer /\ TargetGuarded /\ CallIdInRoom /\ Reachable
  BY DEF CallsInv
<1>2. PICK s \in Sockets, c \in CallIds : s = task[t].sock /\ c = task[t].call
  BY <1>1, HandlerFacts DEF AcceptUpdate
<1>3. /\ task[t].pc = "accepting" /\ status' = [status EXCEPT ![c] = "active"]
      /\ answered' = [answered EXCEPT ![c] = TRUE]
      /\ UNCHANGED <<conn, userSockets, callId, room, pendingCallTargets, timer, present,
                     caller, target, rung, requests>>
  BY <1>2 DEF AcceptUpdate, gateway, call
<1>4. /\ task' \in [Tasks -> Handler]
      /\ task'[t].pc = "accepted" /\ task'[t].kind = task[t].kind /\ task'[t].sock = s
      /\ task'[t].call = c /\ \A v \in Tasks \ {t} : task'[v] = task[v]
  BY <1>1, <1>2, GotoFacts DEF AcceptUpdate
<1>5. /\ status'[c] \in Statuses \ {"none", "initiated"} /\ caller[c] # None /\ status[c] # "none"
      /\ \A d \in CallIds \ {c} : status'[d] = status[d]
  BY <1>1, <1>2, <1>3 DEF TypeOK, Unrung, Created, Statuses
<1>6. TypeOK'
  BY <1>1, <1>3, <1>4, <1>5 DEF TypeOK
<1>7. Locals'
  BY <1>1, <1>2, <1>3, <1>4 DEF Locals
<1>8. Known'
  BY <1>1, <1>2, <1>3, <1>4 DEF Known
<1>9. Closing'
  BY <1>1, <1>2, <1>3, <1>4 DEF Closing
<1>10. Unrung'
  BY <1>1, <1>2, <1>3, <1>4 DEF Unrung
<1>11. Created'
  BY <1>1, <1>2, <1>3, <1>4 DEF Created
<1>12. Late'
  BY <1>1, <1>3, <1>4, <1>5 DEF Late
<1>13. Parties'
  BY <1>1, <1>2, <1>3, <1>4 DEF Parties
<1>14. OwnCall'
  BY <1>1, <1>3 DEF OwnCall
<1>15. RingingHasTimer'
  BY <1>1, <1>3 DEF RingingHasTimer, Ringing
<1>16. TargetGuarded'
  BY <1>1, <1>3 DEF TargetGuarded
<1>17. CallIdInRoom'
  BY <1>1, <1>3 DEF CallIdInRoom
<1>18. Reachable'
  BY <1>1, <1>3 DEF Reachable
<1>19. QED
  BY <1>6, <1>7, <1>8, <1>9, <1>10, <1>11, <1>12, <1>13, <1>14, <1>15, <1>16, <1>17, <1>18
     DEF CallsInv

LEMMA EndUpdateStep ==
    ASSUME CallsInv, NEW t \in Tasks, EndUpdate(t)
    PROVE  CallsInv'
<1>1. /\ TypeOK /\ Locals /\ Known /\ Closing /\ Unrung /\ Created /\ Late /\ Parties
      /\ OwnCall /\ RingingHasTimer /\ TargetGuarded /\ CallIdInRoom /\ Reachable
  BY DEF CallsInv
<1>2. PICK s \in Sockets, c \in CallIds : s = task[t].sock /\ c = task[t].call
  BY <1>1, HandlerFacts DEF EndUpdate
<1>3. /\ task[t].pc = "ending" /\ UNCHANGED answered
      /\ \/ status' = [status EXCEPT ![c] = "rejected"] \/ status' = [status EXCEPT ![c] = "ended"]
      /\ UNCHANGED <<conn, userSockets, callId, room, pendingCallTargets, timer, present,
                     caller, target, rung, requests>>
  BY <1>2 DEF EndUpdate, gateway, call, Reason
<1>4. /\ task' \in [Tasks -> Handler]
      /\ task'[t].pc = "ended" /\ task'[t].kind = task[t].kind /\ task'[t].sock = s
      /\ task'[t].call = c /\ \A v \in Tasks \ {t} : task'[v] = task[v]
  BY <1>1, <1>2, GotoFacts DEF EndUpdate
<1>5. /\ status'[c] \in Statuses \ {"none", "initiated"} /\ caller[c] # None /\ status[c] # "none"
      /\ \A d \in CallIds \ {c} : status'[d] = status[d]
  BY <1>1, <1>2, <1>3 DEF TypeOK, Unrung, Created, Statuses
<1>6. TypeOK'
  BY <1>1, <1>3, <1>4, <1>5 DEF TypeOK
<1>7. Locals'
  BY <1>1, <1>2, <1>3, <1>4 DEF Locals
<1>8. Known'
  BY <1>1, <1>2, <1>3, <1>4 DEF Known
<1>9. Closing'
  BY <1>1, <1>2, <1>3, <1>4 DEF Closing
<1>10. Unrung'
  BY <1>1, <1>2, <1>3, <1>4 DEF Unrung
<1>11. Created'
  BY <1>1, <1>3, <1>4, <1>5 DEF Created
<1>12. Late'
  BY <1>1, <1>4, <1>5, Points DEF Late, Locals
<1>13. Parties'
  BY <1>1, <1>2, <1>3, <1>4 DEF Parties
<1>14. OwnCall'
  BY <1>1, <1>3, <1>5, Points DEF OwnCall
<1>15. RingingHasTimer'
  BY <1>1, <1>3, <1>5 DEF RingingHasTimer, Ringing
<1>16. TargetGuarded'
  BY <1>1, <1>3 DEF TargetGuarded
<1>17. CallIdInRoom'
  BY <1>1, <1>3 DEF CallIdInRoom
<1>18. Reachable'
  BY <1>1, <1>3 DEF Reachable
<1>19. QED
  BY <1>6, <1>7, <1>8, <1>9, <1>10, <1>11, <1>12, <1>13, <1>14, <1>15, <1>16, <1>17, <1>18
     DEF CallsInv

LEMMA SwitchUpdateStep ==
    ASSUME CallsInv, NEW t \in Tasks, SwitchUpdate(t)
    PROVE  CallsInv'
<1>1. /\ TypeOK /\ Locals /\ Known /\ Closing /\ Unrung /\ Created /\ Late /\ Parties
      /\ OwnCall /\ RingingHasTimer /\ TargetGuarded /\ CallIdInRoom /\ Reachable
  BY DEF CallsInv
<1>2. PICK s \in Sockets, c \in CallIds : s = task[t].sock /\ c = task[t].call
  BY <1>1, HandlerFacts DEF SwitchUpdate
<1>3. /\ task[t].pc = "switching" /\ UNCHANGED answered
      /\ status' = [status EXCEPT ![c] = "active"]
      /\ UNCHANGED <<conn, userSockets, callId, room, pendingCallTargets, timer, present,
                     caller, target, rung, requests>>
  BY <1>2 DEF SwitchUpdate, gateway, call
<1>4. /\ task' \in [Tasks -> Handler]
      /\ task'[t].pc = "idle" /\ task'[t].kind = "none" /\ task'[t].sock = None
      /\ task'[t].call = None /\ \A v \in Tasks \ {t} : task'[v] = task[v]
  BY <1>1, <1>2, DoneFacts DEF SwitchUpdate
<1>5. /\ status'[c] \in Statuses \ {"none", "initiated"} /\ caller[c] # None /\ status[c] # "none"
      /\ \A d \in CallIds \ {c} : status'[d] = status[d]
  BY <1>1, <1>2, <1>3 DEF TypeOK, Unrung, Created, Statuses
<1>6. TypeOK'
  BY <1>1, <1>3, <1>4, <1>5 DEF TypeOK
<1>7. Locals'
  BY <1>1, <1>4 DEF Locals
<1>8. Known'
  BY <1>1, <1>3, <1>4 DEF Known
<1>9. Closing'
  BY <1>1, <1>3, <1>4 DEF Closing
<1>10. Unrung'
  BY <1>1, <1>3, <1>4, NoneApart DEF Unrung
<1>11. Created'
  BY <1>1, <1>2, <1>3, <1>4, NoneApart DEF Created, Locals
<1>12. Late'
  BY <1>1, <1>3, <1>4 DEF Late
<1>13. Parties'
  BY <1>1, <1>3, <1>4 DEF Parties
<1>14. OwnCall'
  BY <1>1, <1>3 DEF OwnCall
<1>15. RingingHasTimer'
  BY <1>1, <1>3 DEF RingingHasTimer, Ringing
<1>16. TargetGuarded'
  BY <1>1, <1>3 DEF TargetGuarded
<1>17. CallIdInRoom'
  BY <1>1, <1>3 DEF CallIdInRoom
<1>18. Reachable'
  BY <1>1, <1>3 DEF Reachable
<1>19. QED
  BY <1>6, <1>7, <1>8, <1>9, <1>10, <1>11, <1>12, <1>13, <1>14, <1>15, <1>16, <1>17, <1>18
     DEF CallsInv

LEMMA FinishAcceptStep ==
    ASSUME CallsInv, NEW t \in Tasks, FinishAccept(t)
    PROVE  CallsInv'
<1>1. /\ TypeOK /\ Locals /\ Known /\ Closing /\ Unrung /\ Created /\ Late /\ Parties
      /\ OwnCall /\ RingingHasTimer /\ TargetGuarded /\ CallIdInRoom /\ Reachable
  BY DEF CallsInv
<1>2. PICK s \in Sockets, c \in CallIds : s = task[t].sock /\ c = task[t].call
  BY <1>1, HandlerFacts DEF FinishAccept
<1>3. /\ task[t].pc = "accepted" /\ present' = [present EXCEPT ![c] = @ \cup {UserOf[s]}]
      /\ callId' = [callId EXCEPT ![s] = c] /\ room' = [room EXCEPT ![c] = @ \cup {s}]
      /\ ClearTimer(c) /\ pendingCallTargets' = [pendingCallTargets EXCEPT ![c] = None]
      /\ UNCHANGED <<conn, userSockets, status, answered, caller, target, rung, requests>>
  BY <1>2 DEF FinishAccept, call
<1>4. /\ task' \in [Tasks -> Handler]
      /\ task'[t].pc = "idle" /\ task'[t].kind = "none" /\ task'[t].sock = None
      /\ task'[t].call = None /\ \A v \in Tasks \ {t} : task'[v] = task[v]
  BY <1>1, DoneFacts DEF FinishAccept
<1>5. /\ status[c] \notin {"none", "initiated"} /\ caller[c] # None /\ s \in rung[c]
      /\ conn[s] # "new" /\ UserOf[s] \in Users
  BY <1>1, <1>2, <1>3, NoneApart, UserOfType DEF Late, Unrung, Created, Parties, Known
<1>6. /\ timer' \in [CallIds -> {"none", "armed", "fired", "missing", "lost"}]
      /\ timer'[c] # "armed" /\ \A d \in CallIds \ {c} : timer'[d] = timer[d]
  BY <1>1, <1>3 DEF ClearTimer, TypeOK
<1>7. /\ callId'[s] = c /\ room'[c] = room[c] \cup {s}
      /\ \A x \in Sockets \ {s} : callId'[x] = callId[x]
      /\ \A d \in CallIds \ {c} : /\ room'[d] = room[d]
                                  /\ pendingCallTargets'[d] = pendingCallTargets[d]
  BY <1>1, <1>3 DEF TypeOK
<1>8. /\ callId' \in [Sockets -> CallIds \cup {None}] /\ room' \in [CallIds -> SUBSET Sockets]
      /\ pendingCallTargets' \in [CallIds -> Users \cup {None}] /\ present' \in [CallIds -> SUBSET Users]
  BY <1>1, <1>3, <1>5 DEF TypeOK
<1>9. TypeOK'
  BY <1>1, <1>3, <1>4, <1>6, <1>8 DEF TypeOK
<1>10. Locals'
  BY <1>1, <1>4 DEF Locals
<1>11. Known'
  BY <1>1, <1>3, <1>4, <1>5 DEF Known
<1>12. Closing'
  BY <1>1, <1>3, <1>4 DEF Closing
<1>13. Unrung'
  BY <1>1, <1>2, <1>3, <1>4, <1>6, NoneApart DEF Unrung
<1>14. Created'
  BY <1>1, <1>3, <1>4, NoneApart DEF Created, Locals
<1>15. Late'
  BY <1>1, <1>3, <1>4 DEF Late
<1>16. Parties'
  BY <1>1, <1>3, <1>4 DEF Parties
<1>17. OwnCall'
  BY <1>1, <1>3, <1>5 DEF OwnCall
<1>18. RingingHasTimer'
  BY <1>1, <1>3, <1>5, <1>6 DEF RingingHasTimer, Ringing
<1>19. TargetGuarded'
  BY <1>1, <1>3, <1>6 DEF TargetGuarded
<1>20. CallIdInRoom'
  BY <1>1, <1>3, <1>7 DEF CallIdInRoom
<1>21. Reachable'
  BY <1>1, <1>3 DEF Reachable
<1>22. QED
  BY <1>9, <1>10, <1>11, <1>12, <1>13, <1>14, <1>15, <1>16, <1>17, <1>18, <1>19, <1>20,
     <1>21 DEF CallsInv

LEMMA FinishRejectStep ==
    ASSUME CallsInv, NEW t \in Tasks, FinishReject(t)
    PROVE  CallsInv'
<1>1. /\ TypeOK /\ Locals /\ Known /\ Closing /\ Unrung /\ Created /\ Late /\ Parties
      /\ OwnCall /\ RingingHasTimer /\ TargetGuarded /\ CallIdInRoom /\ Reachable
  BY DEF CallsInv
<1>2. PICK s \in Sockets, c \in CallIds : s = task[t].sock /\ c = task[t].call
  BY <1>1, HandlerFacts DEF FinishReject
<1>3. /\ task[t].pc = "ended" /\ present' = [present EXCEPT ![c] = @ \ {UserOf[s]}]
      /\ ClearTimer(c) /\ pendingCallTargets' = [pendingCallTargets EXCEPT ![c] = None]
      /\ UNCHANGED <<conn, userSockets, callId, room, status, answered, caller, target, rung, requests>>
  BY <1>2 DEF FinishReject, MarkLeft, call
<1>4. /\ task' \in [Tasks -> Handler]
      /\ task'[t].pc = "idle" /\ task'[t].kind = "none" /\ task'[t].sock = None
      /\ task'[t].call = None /\ \A v \in Tasks \ {t} : task'[v] = task[v]
  BY <1>1, DoneFacts DEF FinishReject
<1>5. status[c] # "initiated" /\ caller[c] # None
  BY <1>1, <1>2, <1>3 DEF Late, Unrung
<1>6. /\ timer' \in [CallIds -> {"none", "armed", "fired", "missing", "lost"}]
      /\ timer'[c] # "armed" /\ \A d \in CallIds \ {c} : timer'[d] = timer[d]
  BY <1>1, <1>3 DEF ClearTimer, TypeOK
<1>7. \A d \in CallIds \ {c} : pendingCallTargets'[d] = pendingCallTargets[d]
  BY <1>1, <1>3 DEF TypeOK
<1>8. TypeOK'
  BY <1>1, <1>3, <1>4, <1>6 DEF TypeOK
<1>9. Locals'
  BY <1>1, <1>4 DEF Locals
<1>10. Known'
  BY <1>1, <1>3, <1>4 DEF Known
<1>11. Closing'
  BY <1>1, <1>3, <1>4 DEF Closing
<1>12. Unrung'
  BY <1>1, <1>2, <1>3, <1>4, <1>6, NoneApart DEF Unrung
<1>13. Created'
  BY <1>1, <1>3, <1>4, NoneApart DEF Created, Locals
<1>14. Late'
  BY <1>1, <1>3, <1>4 DEF Late
<1>15. Parties'
  BY <1>1, <1>3, <1>4 DEF Parties
<1>16. OwnCall'
  BY <1>1, <1>3 DEF OwnCall
<1>17. RingingHasTimer'
  BY <1>1, <1>3, <1>5, <1>6 DEF RingingHasTimer, Ringing
<1>18. TargetGuarded'
  BY <1>1, <1>3, <1>6 DEF TargetGuarded
<1>19. CallIdInRoom'
  BY <1>1, <1>3 DEF CallIdInRoom
<1>20. Reachable'
  BY <1>1, <1>3 DEF Reachable
<1>21. QED
  BY <1>8, <1>9, <1>10, <1>11, <1>12, <1>13, <1>14, <1>15, <1>16, <1>17, <1>18, <1>19,
     <1>20 DEF CallsInv

LEMMA FinishEndStep ==
    ASSUME CallsInv, NEW t \in Tasks, FinishEnd(t)
    PROVE  CallsInv'
<1>1. /\ TypeOK /\ Locals /\ Known /\ Closing /\ Unrung /\ Created /\ Late /\ Parties
      /\ OwnCall /\ RingingHasTimer /\ TargetGuarded /\ CallIdInRoom /\ Reachable
  BY DEF CallsInv
<1>2. PICK s \in Sockets, c \in CallIds : s = task[t].sock /\ c = task[t].call
  BY <1>1, HandlerFacts DEF FinishEnd
<1>3. /\ task[t].pc = "ended" /\ present' = [present EXCEPT ![c] = @ \ {UserOf[s]}]
      /\ ClearTimer(c) /\ pendingCallTargets' = [pendingCallTargets EXCEPT ![c] = None]
      /\ room' = [room EXCEPT ![c] = @ \ {s}] /\ callId' = [callId EXCEPT ![s] = None]
      /\ UNCHANGED <<conn, userSockets, status, answered, caller, target, rung, requests>>
  BY <1>2 DEF FinishEnd, MarkLeft, call
<1>4. /\ task' \in [Tasks -> Handler]
      /\ task'[t].pc = "idle" /\ task'[t].kind = "none" /\ task'[t].sock = None
      /\ task'[t].call = None /\ \A v \in Tasks \ {t} : task'[v] = task[v]
  BY <1>1, DoneFacts DEF FinishEnd
<1>5. status[c] # "initiated" /\ caller[c] # None
  BY <1>1, <1>2, <1>3 DEF Late, Unrung
<1>6. /\ timer' \in [CallIds -> {"none", "armed", "fired", "missing", "lost"}]
      /\ timer'[c] # "armed" /\ \A d \in CallIds \ {c} : timer'[d] = timer[d]
  BY <1>1, <1>3 DEF ClearTimer, TypeOK
<1>7. /\ callId'[s] = None /\ room'[c] = room[c] \ {s}
      /\ \A x \in Sockets \ {s} : callId'[x] = callId[x]
      /\ \A d \in CallIds \ {c} : /\ room'[d] = room[d]
                                  /\ pendingCallTargets'[d] = pendingCallTargets[d]
  BY <1>1, <1>3 DEF TypeOK
<1>8. TypeOK'
  BY <1>1, <1>3, <1>4, <1>6, UserOfType DEF TypeOK
<1>9. Locals'
  BY <1>1, <1>4 DEF Locals
<1>10. Known'
  BY <1>1, <1>3, <1>4 DEF Known
<1>11. Closing'
  BY <1>1, <1>3, <1>4 DEF Closing
<1>12. Unrung'
  BY <1>1, <1>2, <1>3, <1>4, <1>6, NoneApart DEF Unrung
<1>13. Created'
  BY <1>1, <1>3, <1>4, NoneApart DEF Created, Locals
<1>14. Late'
  BY <1>1, <1>3, <1>4 DEF Late
<1>15. Parties'
  BY <1>1, <1>3, <1>4 DEF Parties
<1>16. OwnCall'
  BY <1>1, <1>3 DEF OwnCall
<1>17. RingingHasTimer'
  BY <1>1, <1>3, <1>5, <1>6 DEF RingingHasTimer, Ringing
<1>18. TargetGuarded'
  BY <1>1, <1>3, <1>6 DEF TargetGuarded
<1>19. CallIdInRoom'
  BY <1>1, <1>3, <1>7 DEF CallIdInRoom
<1>20. Reachable'
  BY <1>1, <1>3 DEF Reachable
<1>21. QED
  BY <1>8, <1>9, <1>10, <1>11, <1>12, <1>13, <1>14, <1>15, <1>16, <1>17, <1>18, <1>19,
     <1>20 DEF CallsInv

LEMMA DisconnectStep ==
    ASSUME CallsInv, NEW t \in Tasks, NEW s \in Sockets, Disconnect(t, s)
    PROVE  CallsInv'
<1>1. /\ TypeOK /\ Locals /\ Known /\ Closing /\ Unrung /\ Created /\ Late /\ Parties
      /\ OwnCall /\ RingingHasTimer /\ TargetGuarded /\ CallIdInRoom /\ Reachable
  BY DEF CallsInv
<1>2. /\ conn[s] = "open" /\ conn' = [conn EXCEPT ![s] = "closed"]
      /\ room' = [c \in CallIds |-> room[c] \ {s}] /\ Begin(t, "disconnect", s, None, "dequeuing")
      /\ UNCHANGED <<userSockets, callId, pendingCallTargets, timer, status, answered, present, caller,
                     target, rung, requests>>
  BY DEF Disconnect, row, call
<1>3. /\ task' \in [Tasks -> Handler] /\ task[t].pc = "idle"
      /\ task'[t].pc = "dequeuing" /\ task'[t].kind = "disconnect" /\ task'[t].sock = s
      /\ task'[t].call = None /\ \A v \in Tasks \ {t} : task'[v] = task[v]
  BY <1>1, <1>2, BeginFacts
<1>4. /\ conn'[s] = "closed" /\ \A x \in Sockets \ {s} : conn'[x] = conn[x]
      /\ \A c \in CallIds : room'[c] = room[c] \ {s}
  BY <1>1, <1>2 DEF TypeOK
<1>5. TypeOK'
  BY <1>1, <1>2, <1>3 DEF TypeOK
<1>6. Locals'
  BY <1>1, <1>3, NoneApart DEF Locals
<1>7. Known'
  BY <1>1, <1>2, <1>3 DEF Known
<1>8. Closing'
  BY <1>1, <1>2, <1>3, <1>4 DEF Closing
<1>9. Unrung'
  BY <1>1, <1>2, <1>3, NoneApart DEF Unrung
<1>10. Created'
  BY <1>1, <1>2, <1>3 DEF Created, Locals
<1>11. Late'
  BY <1>1, <1>2, <1>3 DEF Late
<1>12. Parties'
  BY <1>1, <1>2, <1>3 DEF Parties
<1>13. OwnCall'
  BY <1>1, <1>2 DEF OwnCall
<1>14. RingingHasTimer'
  BY <1>1, <1>2 DEF RingingHasTimer, Ringing
<1>15. TargetGuarded'
  BY <1>1, <1>2 DEF TargetGuarded
<1>16. CallIdInRoom'
  BY <1>1, <1>2, <1>4, Points DEF CallIdInRoom
<1>17. Reachable'
  BY <1>1, <1>2 DEF Reachable
<1>18. QED
  BY <1>5, <1>6, <1>7, <1>8, <1>9, <1>10, <1>11, <1>12, <1>13, <1>14, <1>15, <1>16, <1>17
     DEF CallsInv

LEMMA DisconnectEndsStep ==
    ASSUME CallsInv, NEW t \in Tasks, DisconnectEnds(t)
    PROVE  CallsInv'
<1>1. /\ TypeOK /\ Locals /\ Known /\ Closing /\ Unrung /\ Created /\ Late /\ Parties
      /\ OwnCall /\ RingingHasTimer /\ TargetGuarded /\ CallIdInRoom /\ Reachable
  BY DEF CallsInv
<1>2. PICK s \in Sockets : s = task[t].sock
  BY <1>1, Points DEF DisconnectEnds, Locals
<1>3. PICK c \in CallIds : c = callId[s]
  BY <1>1, <1>2, Points DEF DisconnectEnds
<1>4. /\ task[t].pc = "dequeuing" /\ task' = [task EXCEPT ![t].pc = "ending", ![t].call = c]
      /\ UNCHANGED <<conn, userSockets, callId, room, pendingCallTargets, timer, status, answered, present,
                     caller, target, rung, requests>>
  BY <1>2, <1>3 DEF DisconnectEnds, gateway, row, call
<1>5. /\ task' \in [Tasks -> Handler]
      /\ task'[t].pc = "ending" /\ task'[t].kind = task[t].kind /\ task'[t].sock = s
      /\ task'[t].call = c /\ \A v \in Tasks \ {t} : task'[v] = task[v]
  BY <1>1, <1>2, <1>4, MoveFacts
<1>6. /\ caller[c] # None /\ status[c] # "none" /\ task[t].kind = "disconnect"
      /\ caller[c] = s \/ s \in rung[c]
  BY <1>1, <1>3, <1>4, NoneApart DEF Unrung, Created, OwnCall, Locals
<1>7. TypeOK'
  BY <1>1, <1>4, <1>5 DEF TypeOK
<1>8. Locals'
  BY <1>1, <1>5, NoneApart DEF Locals
<1>9. Known'
  BY <1>1, <1>4, <1>5 DEF Known
<1>10. Closing'
  BY <1>1, <1>4, <1>5 DEF Closing
<1>11. Unrung'
  BY <1>1, <1>3, <1>4, <1>5 DEF Unrung
<1>12. Created'
  BY <1>1, <1>4, <1>5, <1>6 DEF Created
<1>13. Late'
  BY <1>1, <1>4, <1>5 DEF Late
<1>14. Parties'
  BY <1>1, <1>4, <1>5, <1>6 DEF Parties
<1>15. OwnCall'
  BY <1>1, <1>4 DEF OwnCall
<1>16. RingingHasTimer'
  BY <1>1, <1>4 DEF RingingHasTimer, Ringing
<1>17. TargetGuarded'
  BY <1>1, <1>4 DEF TargetGuarded
<1>18. CallIdInRoom'
  BY <1>1, <1>4 DEF CallIdInRoom
<1>19. Reachable'
  BY <1>1, <1>4 DEF Reachable
<1>20. QED
  BY <1>7, <1>8, <1>9, <1>10, <1>11, <1>12, <1>13, <1>14, <1>15, <1>16, <1>17, <1>18,
     <1>19 DEF CallsInv

LEMMA DisconnectIdleStep ==
    ASSUME CallsInv, NEW t \in Tasks, DisconnectIdle(t)
    PROVE  CallsInv'
<1>1. /\ TypeOK /\ Locals /\ Known /\ Closing /\ Unrung /\ Created /\ Late /\ Parties
      /\ OwnCall /\ RingingHasTimer /\ TargetGuarded /\ CallIdInRoom /\ Reachable
  BY DEF CallsInv
<1>2. PICK s \in Sockets : s = task[t].sock
  BY <1>1, Points DEF DisconnectIdle, Locals
<1>3. /\ task[t].pc = "dequeuing"
      /\ conn' = [conn EXCEPT ![s] = "gone"]
      /\ userSockets' = [userSockets EXCEPT ![UserOf[s]] = @ \ {s}] /\ UserOf[s] \in Users
      /\ UNCHANGED <<callId, room, pendingCallTargets, timer, status, answered, present, caller,
                     target, rung, requests>>
  BY <1>2, UserOfType DEF DisconnectIdle, Unregister, row, call
<1>4. /\ task' \in [Tasks -> Handler]
      /\ task'[t].pc = "idle" /\ task'[t].kind = "none" /\ task'[t].sock = None
      /\ task'[t].call = None /\ \A v \in Tasks \ {t} : task'[v] = task[v]
  BY <1>1, DoneFacts DEF DisconnectIdle
<1>5. conn[s] = "closed" /\ task[t].kind = "disconnect"
  BY <1>1, <1>2, <1>3 DEF Closing, Locals
<1>6. /\ conn'[s] = "gone" /\ \A x \in Sockets \ {s} : conn'[x] = conn[x]
      /\ userSockets'[UserOf[s]] = userSockets[UserOf[s]] \ {s}
      /\ \A u \in Users \ {UserOf[s]} : userSockets'[u] = userSockets[u]
  BY <1>1, <1>3 DEF TypeOK
<1>7. TypeOK'
  BY <1>1, <1>3, <1>4 DEF TypeOK
<1>8. Locals'
  BY <1>1, <1>4 DEF Locals
<1>9. Known'
  BY <1>1, <1>3, <1>4 DEF Known
<1>10. Closing'
  BY <1>1, <1>2, <1>3, <1>4, <1>5 DEF Closing
<1>11. Unrung'
  BY <1>1, <1>3, <1>4, NoneApart DEF Unrung
<1>12. Created'
  BY <1>1, <1>3, <1>4 DEF Created, Locals
<1>13. Late'
  BY <1>1, <1>3, <1>4 DEF Late
<1>14. Parties'
  BY <1>1, <1>3, <1>4 DEF Parties
<1>15. OwnCall'
  BY <1>1, <1>3 DEF OwnCall
<1>16. RingingHasTimer'
  BY <1>1, <1>3 DEF RingingHasTimer, Ringing
<1>17. TargetGuarded'
  BY <1>1, <1>3 DEF TargetGuarded
<1>18. CallIdInRoom'
  BY <1>1, <1>3 DEF CallIdInRoom
<1>19. Reachable'
  BY <1>1, <1>6, NoneApart DEF Reachable
<1>20. QED
  BY <1>7, <1>8, <1>9, <1>10, <1>11, <1>12, <1>13, <1>14, <1>15, <1>16, <1>17, <1>18,
     <1>19 DEF CallsInv

LEMMA FinishDisconnectStep ==
    ASSUME CallsInv, NEW t \in Tasks, FinishDisconnect(t)
    PROVE  CallsInv'
<1>1. /\ TypeOK /\ Locals /\ Known /\ Closing /\ Unrung /\ Created /\ Late /\ Parties
      /\ OwnCall /\ RingingHasTimer /\ TargetGuarded /\ CallIdInRoom /\ Reachable
  BY DEF CallsInv
<1>2. PICK s \in Sockets, c \in CallIds : s = task[t].sock /\ c = task[t].call
  BY <1>1, HandlerFacts DEF FinishDisconnect
<1>3. /\ task[t].pc = "ended" /\ task[t].kind = "disconnect"
      /\ present' = [present EXCEPT ![c] = @ \ {UserOf[s]}] /\ ClearTimer(callId[s])
      /\ conn' = [conn EXCEPT ![s] = "gone"]
      /\ userSockets' = [userSockets EXCEPT ![UserOf[s]] = @ \ {s}] /\ UserOf[s] \in Users
      /\ UNCHANGED <<callId, room, pendingCallTargets, status, answered, caller, target, rung, requests>>
  BY <1>2, UserOfType DEF FinishDisconnect, Unregister, MarkLeft, call
<1>4. /\ task' \in [Tasks -> Handler]
      /\ task'[t].pc = "idle" /\ task'[t].kind = "none" /\ task'[t].sock = None
      /\ task'[t].call = None /\ \A v \in Tasks \ {t} : task'[v] = task[v]
  BY <1>1, DoneFacts DEF FinishDisconnect
<1>5. /\ conn[s] = "closed" /\ status[c] # "initiated" /\ caller[c] # None
      /\ caller[c] = s \/ s \in rung[c]
  BY <1>1, <1>2, <1>3, NoneApart DEF Closing, Late, Unrung, Parties
<1>6. /\ timer' \in [CallIds -> {"none", "armed", "fired", "missing", "lost"}]
      /\ \A d \in CallIds : timer'[d] = timer[d] \/ (d = callId[s] /\ timer'[d] = "none")
  BY <1>1, <1>3 DEF ClearTimer, TypeOK
<1>7. /\ conn'[s] = "gone" /\ \A x \in Sockets \ {s} : conn'[x] = conn[x]
      /\ userSockets'[UserOf[s]] = userSockets[UserOf[s]] \ {s}
      /\ \A u \in Users \ {UserOf[s]} : userSockets'[u] = userSockets[u]
  BY <1>1, <1>3 DEF TypeOK
<1>8. TypeOK'
  BY <1>1, <1>3, <1>4, <1>6, UserOfType DEF TypeOK
<1>9. Locals'
  BY <1>1, <1>4 DEF Locals
<1>10. Known'
  BY <1>1, <1>3, <1>4 DEF Known
<1>11. Closing'
  BY <1>1, <1>2, <1>3, <1>4 DEF Closing
<1>12. Unrung'
  BY <1>1, <1>3, <1>4, <1>6, NoneApart DEF Unrung
<1>13. Created'
  BY <1>1, <1>3, <1>4, NoneApart DEF Created, Locals
<1>14. Late'
  BY <1>1, <1>3, <1>4 DEF Late
<1>15. Parties'
  BY <1>1, <1>3, <1>4 DEF Parties
<1>16. OwnCall'
  BY <1>1, <1>3 DEF OwnCall
<1>17. RingingHasTimer'
  BY <1>1, <1>3, <1>5, <1>6, NoneApart DEF RingingHasTimer, Ringing, OwnCall
<1>18. TargetGuarded'
  BY <1>1, <1>3, <1>6 DEF TargetGuarded
<1>19. CallIdInRoom'
  BY <1>1, <1>3 DEF CallIdInRoom
<1>20. Reachable'
  BY <1>1, <1>7 DEF Reachable
<1>21. QED
  BY <1>8, <1>9, <1>10, <1>11, <1>12, <1>13, <1>14, <1>15, <1>16, <1>17, <1>18, <1>19,
     <1>20 DEF CallsInv

LEMMA DbFailsStep ==
    ASSUME CallsInv, NEW t \in Tasks, DbFails(t)
    PROVE  CallsInv'
<1>1. /\ TypeOK /\ Locals /\ Known /\ Closing /\ Unrung /\ Created /\ Late /\ Parties
      /\ OwnCall /\ RingingHasTimer /\ TargetGuarded /\ CallIdInRoom /\ Reachable
  BY DEF CallsInv
<1>2. /\ task[t].pc # "idle"
      /\ UNCHANGED <<conn, userSockets, callId, room, pendingCallTargets, timer, status, answered, present,
                     caller, target, rung, requests>>
  BY DEF DbFails, gateway, row, call
<1>3. /\ task' \in [Tasks -> Handler]
      /\ task'[t].pc = "idle" /\ task'[t].kind = "none" /\ task'[t].sock = None
      /\ task'[t].call = None /\ \A v \in Tasks \ {t} : task'[v] = task[v]
  BY <1>1, DoneFacts DEF DbFails
<1>4. TypeOK'
  BY <1>1, <1>2, <1>3, UserOfType DEF TypeOK
<1>5. Locals'
  BY <1>1, <1>3 DEF Locals
<1>6. Known'
  BY <1>1, <1>2, <1>3 DEF Known
<1>7. Closing'
  BY <1>1, <1>2, <1>3 DEF Closing
<1>8. Unrung'
  BY <1>1, <1>2, <1>3, NoneApart DEF Unrung
<1>9. Created'
  BY <1>1, <1>2, <1>3, NoneApart DEF Created, Locals
<1>10. Late'
  BY <1>1, <1>2, <1>3 DEF Late
<1>11. Parties'
  BY <1>1, <1>2, <1>3 DEF Parties
<1>12. OwnCall'
  BY <1>1, <1>2 DEF OwnCall
<1>13. RingingHasTimer'
  BY <1>1, <1>2 DEF RingingHasTimer, Ringing
<1>14. TargetGuarded'
  BY <1>1, <1>2 DEF TargetGuarded
<1>15. CallIdInRoom'
  BY <1>1, <1>2 DEF CallIdInRoom
<1>16. Reachable'
  BY <1>1, <1>2 DEF Reachable
<1>17. QED
  BY <1>4, <1>5, <1>6, <1>7, <1>8, <1>9, <1>10, <1>11, <1>12, <1>13, <1>14, <1>15, <1>16
     DEF CallsInv


LEMMA StepCalls ==
    ASSUME CallsInv, [Next]_vars
    PROVE  CallsInv'
<1>1. CASE UNCHANGED vars
  <2>1. UNCHANGED <<conn, userSockets, callId, room, pendingCallTargets, timer, status, answered, present,
                    caller, target, rung, task, requests>>
    BY <1>1 DEF vars, gateway, row, call
  <2>2. TypeOK' /\ Locals' /\ Known' /\ Closing' /\ Unrung' /\ Created'
    BY <2>1 DEF CallsInv, TypeOK, Locals, Known, Closing, Unrung, Created
  <2>3. Late' /\ Parties' /\ OwnCall' /\ RingingHasTimer'
    BY <2>1 DEF CallsInv, Late, Parties, OwnCall, RingingHasTimer, Ringing
  <2>4. TargetGuarded' /\ CallIdInRoom' /\ Reachable'
    BY <2>1 DEF CallsInv, TargetGuarded, CallIdInRoom, Reachable
  <2>5. QED
    BY <2>2, <2>3, <2>4 DEF CallsInv
<1>2. ASSUME NEW s \in Sockets, Connect(s) PROVE CallsInv'
  BY <1>2, ConnectStep
<1>3. ASSUME NEW t \in Tasks, NEW s \in Sockets, NEW u \in Users, Initiate(t, s, u) PROVE CallsInv'
  BY <1>3, InitiateStep
<1>4. ASSUME NEW t \in Tasks, NEW s \in Sockets, Disconnect(t, s) PROVE CallsInv'
  BY <1>4, DisconnectStep
<1>5. ASSUME NEW t \in Tasks, NEW s \in Sockets, NEW c \in CallIds, Request(t, s, c) PROVE CallsInv'
  BY <1>5, AskStep DEF Request, Accept, Reject, End, SwitchType
<1>6. ASSUME NEW t \in Tasks, Step(t) PROVE CallsInv'
  BY <1>6, RingStep, AcceptUpdateStep, FinishAcceptStep, DisconnectEndsStep,
     DisconnectIdleStep, EndUpdateStep, FinishRejectStep, FinishEndStep,
     FinishDisconnectStep, SwitchUpdateStep, DbFailsStep DEF Step
<1>7. ASSUME NEW c \in CallIds, Timer(c) PROVE CallsInv'
  BY <1>7, FireStep, TimerReadStep, TimerMissStep DEF Timer
<1>8. QED
  BY <1>1, <1>2, <1>3, <1>4, <1>5, <1>6, <1>7 DEF Next

----------------------------------------------------------------------------
(* Theorems.                                                               *)

\* CallsInv holds throughout.
LEMMA CallsInvariant == Spec => []CallsInv
<1>1. CallsInv /\ [Next]_vars => CallsInv'
  BY StepCalls
<1>2. QED
  BY <1>1, InitCalls, PTL DEF Spec

\* The gateway's maps, the call rows and the handlers' locals keep their types.
THEOREM CallsTypeCorrect == Spec => []TypeOK
<1>1. CallsInv => TypeOK
  BY DEF CallsInv
<1>2. QED
  BY <1>1, CallsInvariant, PTL

\* No interleaving of handlers, timers and failures leaves a call ringing unwatched, but
\* for callers that made or were offered another call and disconnected.
THEOREM RingingIsWatched == Spec => []RingingHasTimer
<1>1. CallsInv => RingingHasTimer
  BY DEF CallsInv
<1>2. QED
  BY <1>1, CallsInvariant, PTL

\* While its timer is armed, onCallAccept lets only the target of a call in.
THEOREM OnlyTargetAccepts == Spec => []TargetGuarded
<1>1. CallsInv => TargetGuarded
  BY DEF CallsInv
<1>2. QED
  BY <1>1, CallsInvariant, PTL

\* A connected socket is in the room of the call in its meta, so call:ended reaches it.
THEOREM CallRoomJoined == Spec => []CallIdInRoom
<1>1. CallsInv => CallIdInRoom
  BY DEF CallsInv
<1>2. QED
  BY <1>1, CallsInvariant, PTL

\* userSockets lists every connected tab of a user, and no tab of another or that is gone.
THEOREM TabsReachable == Spec => []Reachable
<1>1. CallsInv => Reachable
  BY DEF CallsInv
<1>2. QED
  BY <1>1, CallsInvariant, PTL
====
