---- MODULE Dial ----
(***************************************************************************)
(* One-to-one calls as users make them: app/dashboard, where a call is     *)
(* started or answered, and app/call, to which the browser then goes, over *)
(* the gateway of module Calls.                                            *)
(*                                                                         *)
(* All pages of a browser share one socket object, and useSignaling        *)
(* disconnects it when a page unmounts: every page has a connection of its *)
(* own, with another socket id.  The gateway learns of the closed one some *)
(* time later.  A user has one browser; socket n of user u is <<u, n>>.    *)
(***************************************************************************)
EXTENDS Calls

CONSTANT MaxPages   \* bound on the pages a browser mounts; Sockets is Users \X (1 .. MaxPages)

VARIABLES
    page,    \* per user: the page that is mounted and its state
    mounted, \* per user: pages mounted so far; the last one's socket is connected
    shut,    \* sockets that their browser has disconnected
    acks,    \* <<socket, call>>: answers to call:initiate on their way
    told     \* per call: users whose call page heard call:accepted; None before it is sent

pages == <<page, mounted, shut, acks, told>>

Sock(u) == <<u, mounted[u]>>

Dashboard == [at |-> "dashboard", call |-> None, incoming |-> None]

CallPage(c) == [at |-> "call", call |-> c, incoming |-> None]

Home == [at |-> "home", call |-> None, incoming |-> None]

DialInit ==
    /\ Init
    /\ page = [u \in Users |-> Dashboard]
    /\ mounted = [u \in Users |-> 1]
    /\ shut = {} /\ acks = {}
    /\ told = [c \in CallIds |-> None]

\* The page of u is replaced by another one that connects.
GoTo(u, p) ==
    /\ mounted[u] < MaxPages
    /\ page' = [page EXCEPT ![u] = p]
    /\ mounted' = [mounted EXCEPT ![u] = @ + 1]
    /\ shut' = shut \cup {Sock(u)}

\* The pages of users us go to "/", which has no connection.
GoHome(us) ==
    /\ page' = [u \in Users |-> IF u \in us THEN Home ELSE page[u]]
    /\ shut' = shut \cup {Sock(u) : u \in us}
    /\ UNCHANGED <<mounted, acks, told>>

----------------------------------------------------------------------------
(* The browser.                                                            *)

ConnectPage(u) ==
    /\ Sock(u) \notin shut
    /\ Connect(Sock(u))
    /\ UNCHANGED pages

\* handleStartCall; nothing keeps the user from clicking again before the answer.
StartCall(t, u, v) ==
    /\ page[u].at = "dashboard"
    /\ Initiate(t, Sock(u), v)
    /\ UNCHANGED pages

\* The answer to call:initiate: router.push to the call page.
EnterCall(u, c) ==
    /\ page[u].at = "dashboard"
    /\ <<Sock(u), c>> \in acks
    /\ GoTo(u, CallPage(c))
    /\ acks' = acks \ {<<Sock(u), c>>}
    /\ UNCHANGED <<vars, told>>

\* handleAcceptCall: call:accept leaves on the connection that router.push then closes.
AcceptCall(t, u) ==
    LET c == page[u].incoming
    IN  /\ c # None
        /\ Accept(t, Sock(u), c)
        /\ GoTo(u, CallPage(c))
        /\ UNCHANGED <<acks, told>>

\* The Decline button hides the call and sends nothing.
DeclineCall(u) ==
    /\ page[u].incoming # None
    /\ page' = [page EXCEPT ![u].incoming = None]
    /\ UNCHANGED <<vars, mounted, shut, acks, told>>

\* handleLeave of the call page: endCall, then "/".
LeaveCall(t, u) ==
    /\ page[u].at = "call"
    /\ Ask(t, "end", Sock(u), page[u].call, "ending")
    /\ GoHome({u})

OpenDashboard(u) ==
    /\ page[u].at = "home"
    /\ GoTo(u, Dashboard)
    /\ UNCHANGED <<vars, acks, told>>

----------------------------------------------------------------------------
(* The gateway, and what its events do to the pages.                       *)

SeesClose(t, s) ==
    /\ s \in shut
    /\ Disconnect(t, s)
    /\ UNCHANGED pages

\* call:initiate is answered, and the dashboards of the target show the call.
RingPages(t) ==
    LET c == task[t].call
    IN  /\ Ring(t)
        /\ acks' = acks \cup {<<task[t].sock, c>>}
        /\ page' = [u \in Users |-> IF Sock(u) \in rung'[c] /\ page[u].at = "dashboard"
                                    THEN [page[u] EXCEPT !.incoming = c] ELSE page[u]]
        /\ UNCHANGED <<mounted, shut, told>>

\* Users whose call page is in the room of c.
Listening(c, members) == {u \in Users : page[u].at = "call" /\ Sock(u) \in members[c]}

\* call:accepted goes to the room.
AcceptedPages(t) ==
    LET c == task[t].call
    IN  /\ FinishAccept(t)
        /\ told' = [told EXCEPT ![c] = Listening(c, room')]
        /\ UNCHANGED <<page, mounted, shut, acks>>

\* call:ended goes to the room, and onCallEnded of its pages to "/".
EndedPages(t) ==
    /\ FinishEnd(t) \/ FinishDisconnect(t)
    /\ GoHome(Listening(task[t].call, room))

Silent(t) ==
    /\ \/ AcceptUpdate(t) \/ DisconnectEnds(t) \/ DisconnectIdle(t)
       \/ EndUpdate(t) \/ DbFails(t)
    /\ UNCHANGED pages

Expire(c) == Timer(c) /\ UNCHANGED pages

----------------------------------------------------------------------------

DialNext ==
    \/ \E u \in Users : ConnectPage(u) \/ DeclineCall(u) \/ OpenDashboard(u)
    \/ \E u \in Users, c \in CallIds : EnterCall(u, c)
    \/ \E t \in Tasks, u \in Users : AcceptCall(t, u) \/ LeaveCall(t, u)
    \/ \E t \in Tasks, u, v \in Users : StartCall(t, u, v)
    \/ \E t \in Tasks, s \in Sockets : SeesClose(t, s)
    \/ \E t \in Tasks : RingPages(t) \/ AcceptedPages(t) \/ EndedPages(t) \/ Silent(t)
    \/ \E c \in CallIds : Expire(c)

DialSpec == DialInit /\ [][DialNext]_<<vars, pages>>

----------------------------------------------------------------------------

\* README.md:140 has call:accepted "Notify caller that callee accepted": a caller that is on
\* the page of the call when it is sent hears it.  Without it useWebRTC of that page never
\* makes an offer.
CallerHearsAccept ==
    \A c \in CallIds :
        LET u == UserOf[caller[c]]
        IN  told[c] # None /\ page[u] = CallPage(c) => u \in told[c]
====
