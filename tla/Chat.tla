---- MODULE Chat ----
(***************************************************************************)
(* Anonymous video chat end to end: the page app/anonymous, its hooks      *)
(* useSignaling, useMediaDevices and useWebRTC, and the gateway that pairs *)
(* the pages, relays their session descriptions and ends their calls.      *)
(*                                                                         *)
(* React renders a state change and runs the effects that depend on it in  *)
(* a later task (Render), so messages can arrive in between.  A packet a   *)
(* page emits reaches the gateway at once; what the gateway sends waits in *)
(* the page's inbox.  A page starts with its socket connected; a lost      *)
(* connection and the next one are one step, Reconnect, and what the page  *)
(* would emit in between waits for it, as socket.io-client buffers it.     *)
(* The gateway's handlers stop at their awaits.  The queue is the one of   *)
(* module Matchmaking with its commands taken together and no expiry.      *)
(***************************************************************************)
EXTENDS Naturals, Sequences, FiniteSets, SequencesExt

CONSTANTS
    Clients,      \* browsers, each with one anonymous page
    MaxCalls,     \* bound on the calls that are made
    MaxFaults,    \* bound on lost connections, peer or server, and failed statements
    Tasks,        \* gateway handlers that may be in progress at once
    None

ASSUME TasksFinite == IsFiniteSet(Tasks)
ASSUME BoundsNat == MaxCalls \in Nat /\ MaxFaults \in Nat
ASSUME NoneApart == None \notin Nat

VARIABLES
    page,      \* per client: React state and refs of the page
    rtc,       \* per client: what useWebRTC holds; crossed is history: in the page's
               \* call the connection has met another call
    cam,       \* per client: the stream of useMediaDevices
    conns,     \* per client: connections made so far; the last is its socket
    inbox,     \* per client: events sent to its connection and not yet handled
    up,        \* sockets the gateway takes for connected
    meta,      \* per socket: meta.callId
    queue,     \* matchmaking:queue
    indexed,   \* sockets with an entry in matchmaking:sockets
    made,      \* calls made so far: the last session.id
    room,      \* per call: sockets joined to it
    task,      \* gateway handlers
    faults,    \* lost connections, peer or server, and failed statements so far
    stranded   \* history: clients something went wrong for that no code repairs

client == <<page, rtc, cam>>
server == <<up, meta, queue, indexed, made, room, task>>
vars == <<page, rtc, cam, conns, inbox, server, faults, stranded>>

Calls == 1 .. MaxCalls

\* A connection of useWebRTC: peer is the call of the remote description it has, via the
\* call its listeners were made for when an offer came.
Peer == [callId : Calls, isInitiator : BOOLEAN,
         sig : {"stable", "have-local-offer", "have-remote-offer"},
         offers : Seq(BOOLEAN), needed : BOOLEAN, tracks : BOOLEAN,
         peer : Calls \cup {None}, via : Calls \cup {None}]

ASSUME NoneIsNoPeer == None \notin Peer

Sockets == Clients \X (1 .. MaxFaults + 1)

\* The page's own socket; socket.id changes with every connection.
Sock(c) == <<c, conns[c]>>

IdleTask == [kind |-> "idle", sock |-> None, peer |-> None, call |-> None]

NewPage == [open |-> TRUE, matchState |-> "queue", callId |-> None,
            isInitiator |-> FALSE, queued |-> FALSE]

NewHook == [listening |-> None, isInitiator |-> FALSE, pc |-> None, offerSent |-> FALSE,
            deps |-> <<FALSE, None, FALSE>>, crossed |-> FALSE]

Init ==
    /\ page = [c \in Clients |-> NewPage]
    /\ rtc = [c \in Clients |-> NewHook]
    /\ cam = [c \in Clients |-> "asking"]
    /\ conns = [c \in Clients |-> 1]
    /\ inbox = [c \in Clients |-> <<>>]
    /\ up = {<<c, 1>> : c \in Clients}
    /\ meta = [s \in Sockets |-> None]
    /\ queue = <<>>
    /\ indexed = {}
    /\ made = 0
    /\ room = [k \in Calls |-> {}]
    /\ task = [t \in Tasks |-> IdleTask]
    /\ faults = 0
    /\ stranded = {}

----------------------------------------------------------------------------
(* Transport.                                                              *)

\* The inboxes after m was emitted to the sockets of R: a page that has lost or
\* replaced its connection gets nothing.
Emit(R, m) ==
    [c \in Clients |-> IF page[c].open /\ Sock(c) \in R THEN Append(inbox[c], m) ELSE inbox[c]]

Begin(t, h) == task[t] = IdleTask /\ task' = [task EXCEPT ![t] = h]

Done(t) == task' = [task EXCEPT ![t] = IdleTask]

\* The connection is lost and made again under a new socket.id; the page has
\* rendered isConnected = false in between.
Reconnect(c) ==
    /\ page[c].open
    /\ faults < MaxFaults
    /\ faults' = faults + 1
    /\ conns' = [conns EXCEPT ![c] = @ + 1]
    /\ up' = up \cup {<<c, conns[c] + 1>>}
    /\ inbox' = [inbox EXCEPT ![c] = <<>>]
    /\ rtc' = [rtc EXCEPT ![c].listening = None,
                          ![c].deps = <<FALSE, page[c].callId, page[c].isInitiator>>]
    /\ stranded' = stranded \cup {c}
    /\ UNCHANGED <<page, cam, meta, queue, indexed, made, room, task>>

----------------------------------------------------------------------------
(* The camera.                                                             *)

\* getUserMedia resolves, perhaps when the page is gone; never, if it is refused.
Granted(c) ==
    /\ cam[c] = "asking"
    /\ cam' = [cam EXCEPT ![c] = "on"]
    /\ UNCHANGED <<page, rtc, conns, inbox, server, faults, stranded>>

StopMedia(c) == cam' = [cam EXCEPT ![c] = IF @ = "on" THEN "off" ELSE @]

----------------------------------------------------------------------------
(* useWebRTC.                                                              *)

\* A new RTCPeerConnection, whose callbacks keep the call and the role of the
\* render that made it.
NewPeer(c) ==
    [callId |-> page[c].callId, isInitiator |-> page[c].isInitiator, sig |-> "stable",
     offers |-> <<>>, needed |-> cam[c] = "on", tracks |-> cam[c] = "on",
     peer |-> None, via |-> None]

\* addTrack for the tracks of a stream that came later.
AttachTracks(pc, on) ==
    IF on /\ ~pc.tracks THEN [pc EXCEPT !.tracks = TRUE, !.needed = TRUE] ELSE pc

\* Mutant of InitPeerConnection: the effect does not look at callId.
InitPeerConnectionAlways(c, live) ==
    IF rtc[c].pc # None THEN AttachTracks(rtc[c].pc, cam[c] = "on") ELSE NewPeer(c)

InitPeerConnection(c, live) ==
    IF rtc[c].pc # None THEN AttachTracks(rtc[c].pc, cam[c] = "on")
    ELSE IF live THEN NewPeer(c) ELSE None

\* createOffer: whether it describes the local tracks is settled here.
CreateOffer(pc) == [pc EXCEPT !.offers = Append(@, pc.tracks)]

Enqueue(s) ==
    /\ queue' = Append(queue, s)
    /\ indexed' = indexed \cup {s}

\* What the effect of the first offer depends on.
Deps(c) == <<TRUE, page[c].callId, page[c].isInitiator>>

\* The effect runs when one of them is new.
FirstOffer(c, pc) ==
    /\ page[c].callId # None /\ page[c].isInitiator
    /\ Deps(c) # rtc[c].deps
    /\ pc.sig = "stable" /\ ~rtc[c].offerSent

\* The effects of the hook after a render: the connection, the first offer and the
\* listeners, which keep the call and the role of this render.
HookEffects(c) ==
    LET live == page[c].callId # None
        pc == InitPeerConnection(c, live)
    IN  [listening |-> IF live THEN page[c].callId ELSE None,
         isInitiator |-> page[c].isInitiator,
         pc |-> IF FirstOffer(c, pc) THEN CreateOffer(pc) ELSE pc,
         offerSent |-> rtc[c].offerSent,
         deps |-> Deps(c), crossed |-> rtc[c].crossed]

\* The page's effect emits match:join-queue once; queuedRef remembers it.
Joins(c) == page[c].matchState = "queue" /\ ~page[c].queued

Render(c) ==
    /\ page[c].open
    /\ HookEffects(c) # rtc[c] \/ Joins(c)
    /\ rtc' = [rtc EXCEPT ![c] = HookEffects(c)]
    /\ page' = [page EXCEPT ![c].queued = @ \/ Joins(c)]
    /\ IF Joins(c) THEN Enqueue(Sock(c)) ELSE UNCHANGED <<queue, indexed>>
    /\ UNCHANGED <<cam, conns, inbox, up, meta, made, room, task, faults, stranded>>

\* The event comes once the connection is stable and has no operation queued.
NegotiationNeeded(c) ==
    LET pc == rtc[c].pc
    IN  /\ pc # None
        /\ pc.needed /\ pc.sig = "stable" /\ pc.offers = <<>>
        /\ rtc' = [rtc EXCEPT ![c].pc = [IF pc.isInitiator THEN CreateOffer(pc) ELSE pc
                                           EXCEPT !.needed = FALSE],
                              ![c].offerSent = @ \/ pc.isInitiator]
        /\ UNCHANGED <<page, cam, conns, inbox, server, faults, stranded>>

\* socket.to(callId): everybody else in the room.
Relay(c, type, k) == Emit(room[k] \ {Sock(c)}, [type |-> type, callId |-> k, isInitiator |-> FALSE])

\* setLocalDescription has resolved.
SendOffer(c) ==
    LET pc == rtc[c].pc
    IN  /\ pc # None
        /\ pc.offers # <<>> /\ pc.sig # "have-remote-offer"
        /\ rtc' = [rtc EXCEPT
              ![c].pc = [pc EXCEPT !.sig = "have-local-offer", !.offers = Tail(@),
                                   !.needed = @ /\ ~Head(pc.offers)],
              ![c].offerSent = TRUE]
        /\ inbox' = Relay(c, "offer", pc.callId)
        /\ UNCHANGED <<page, cam, conns, server, faults, stranded>>

SendAnswer(c) ==
    LET pc == rtc[c].pc
    IN  /\ pc # None
        /\ pc.sig = "have-remote-offer"
        /\ rtc' = [rtc EXCEPT ![c].pc = [pc EXCEPT !.sig = "stable"]]
        /\ inbox' = Relay(c, "answer", pc.via)
        /\ UNCHANGED <<page, cam, conns, server, faults, stranded>>

\* Mutant of CleanupPeerConnection: offerSentRef is not reset.
CleanupKeepsOfferSent(h) == [h EXCEPT !.pc = None]

CleanupPeerConnection(h) == [h EXCEPT !.pc = None, !.offerSent = FALSE]

----------------------------------------------------------------------------
(* Events the page receives, in the order they were sent.                  *)

Arrives(c, type) == inbox[c] # <<>> /\ Head(inbox[c]).type = type

Consume(c) == inbox' = [inbox EXCEPT ![c] = Tail(@)]

Members(k) == {s[1] : s \in room[k]}

Strands(c, missed) == IF missed THEN stranded \cup {c} ELSE stranded

\* A connection that is still there will be kept for the new call.
OnMatchFound(c) ==
    LET m == Head(inbox[c])
    IN  /\ Arrives(c, "found")
        /\ Consume(c)
        /\ page' = [page EXCEPT ![c].callId = m.callId, ![c].isInitiator = m.isInitiator,
                                ![c].matchState = "matched"]
        /\ rtc' = [rtc EXCEPT ![c].crossed = rtc[c].pc # None]
        /\ UNCHANGED <<cam, conns, server, faults, stranded>>

\* The page's onCallEnded, without the emit of match:join-queue.
BackToQueue(c) ==
    page' = [page EXCEPT ![c].callId = None, ![c].isInitiator = FALSE,
                         ![c].matchState = "queue", ![c].queued = TRUE]

\* handleCallEnded, whichever call the event names.
OnCallEnded(c) ==
    /\ Arrives(c, "ended")
    /\ Consume(c)
    /\ rtc[c].listening # None
    /\ rtc' = [rtc EXCEPT ![c] = CleanupPeerConnection(@)]
    /\ BackToQueue(c)
    /\ Enqueue(Sock(c))
    /\ stranded' = IF page[c].callId \in {None, Head(inbox[c]).callId} THEN stranded
                   ELSE stranded \cup (Members(page[c].callId) \ {c})
    /\ UNCHANGED <<cam, conns, up, meta, made, room, task, faults>>

\* The listener is registered by an effect that has not run, or was removed.
EndedUnheard(c) ==
    /\ Arrives(c, "ended")
    /\ Consume(c)
    /\ rtc[c].listening = None
    /\ stranded' = Strands(c, Head(inbox[c]).callId = page[c].callId)
    /\ UNCHANGED <<client, conns, server, faults>>

\* handleOffer up to setRemoteDescription.
AcceptsOffer(h) == h.listening # None /\ h.pc # None /\ ~h.isInitiator /\ h.pc.sig = "stable"

\* The handlers of offers and answers do not compare ids.
Crosses(c) == rtc[c].crossed \/ Head(inbox[c]).callId # rtc[c].pc.callId

OnOffer(c) ==
    /\ Arrives(c, "offer")
    /\ Consume(c)
    /\ AcceptsOffer(rtc[c])
    /\ rtc' = [rtc EXCEPT ![c].pc.sig = "have-remote-offer",
                          ![c].pc.peer = Head(inbox[c]).callId,
                          ![c].pc.via = rtc[c].listening,
                          ![c].crossed = Crosses(c)]
    /\ UNCHANGED <<page, cam, conns, server, faults, stranded>>

AcceptsAnswer(h) ==
    h.listening # None /\ h.pc # None /\ h.isInitiator /\ h.pc.sig = "have-local-offer"

OnAnswer(c) ==
    /\ Arrives(c, "answer")
    /\ Consume(c)
    /\ AcceptsAnswer(rtc[c])
    /\ rtc' = [rtc EXCEPT ![c].pc.sig = "stable", ![c].pc.peer = Head(inbox[c]).callId,
                          ![c].crossed = Crosses(c)]
    /\ UNCHANGED <<page, cam, conns, server, faults, stranded>>

\* An offer or an answer is ignored, or nobody listens.
SdpIgnored(c) ==
    /\ \/ Arrives(c, "offer") /\ ~AcceptsOffer(rtc[c])
       \/ Arrives(c, "answer") /\ ~AcceptsAnswer(rtc[c])
    /\ Consume(c)
    /\ stranded' = Strands(c, rtc[c].listening = None \/ rtc[c].pc = None)
    /\ UNCHANGED <<client, conns, server, faults>>

----------------------------------------------------------------------------
(* Ends.                                                                   *)

EndCall(t, c, k) == Begin(t, [kind |-> "end", sock |-> Sock(c), peer |-> None, call |-> k])

\* The other page has closed its end of the peer connection.
PeerGone(c) == ~\E d \in Clients \ {c} : rtc[d].pc # None /\ rtc[d].pc.callId = rtc[c].pc.callId

\* The connection to the peer is lost, because the peer is gone or as a fault:
\* endCall() of the hook.
IceFails(t, c) ==
    /\ rtc[c].pc # None
    /\ rtc[c].pc.peer # None
    /\ PeerGone(c) \/ faults < MaxFaults
    /\ faults' = IF PeerGone(c) THEN faults ELSE faults + 1
    /\ EndCall(t, c, rtc[c].pc.callId)
    /\ rtc' = [rtc EXCEPT ![c] = CleanupPeerConnection(@)]
    /\ UNCHANGED <<page, cam, conns, inbox, up, meta, queue, indexed, made, room, stranded>>

\* The page is unmounted: useSignaling disconnects the socket.
Unmount(c) ==
    /\ page[c].open
    /\ page' = [page EXCEPT ![c].open = FALSE]
    /\ rtc' = [rtc EXCEPT ![c] = NewHook]
    /\ inbox' = [inbox EXCEPT ![c] = <<>>]

\* handleLeave, or the link in the header.
Leave(t, c) ==
    /\ Unmount(c)
    /\ StopMedia(c)
    /\ IF page[c].callId # None THEN EndCall(t, c, page[c].callId) ELSE UNCHANGED task
    /\ UNCHANGED <<conns, up, meta, queue, indexed, made, room, faults, stranded>>

CloseTab(c) ==
    /\ Unmount(c)
    /\ cam' = [cam EXCEPT ![c] = "off"]
    /\ UNCHANGED <<conns, server, faults, stranded>>

----------------------------------------------------------------------------
(* The gateway.                                                            *)

Ended(k) == [type |-> "ended", callId |-> k, isInitiator |-> FALSE]

\* The server learns that the connection is gone, at once or by its ping.
HandleDisconnect(t, s) ==
    /\ s \in up
    /\ ~(page[s[1]].open /\ Sock(s[1]) = s)
    /\ up' = up \ {s}
    /\ room' = [k \in Calls |-> room[k] \ {s}]
    /\ Begin(t, [kind |-> "dequeue", sock |-> s, peer |-> None, call |-> None])
    /\ UNCHANGED <<client, conns, inbox, meta, queue, indexed, made, faults, stranded>>

\* LREM of the entry in the index, which is the last one pushed.
Without(q, s) ==
    LET last == CHOOSE i \in DOMAIN q : q[i] = s /\ \A j \in DOMAIN q : q[j] = s => j <= i
    IN  IF \E i \in DOMAIN q : q[i] = s THEN RemoveAt(q, last) ELSE q

\* Mutant of HasCall: only registered users' calls end with their socket.
HasCallAsUser(s) == FALSE

\* Whether handleDisconnect goes on to end a call.
HasCall(s) == meta[s] # None

Dequeue(t) ==
    LET s == task[t].sock
    IN  /\ task[t].kind = "dequeue"
        /\ queue' = IF s \in indexed THEN Without(queue, s) ELSE queue
        /\ indexed' = indexed \ {s}
        /\ IF HasCall(s)
           THEN task' = [task EXCEPT ![t].kind = "hangup"]
           ELSE Done(t)
        /\ UNCHANGED <<client, conns, inbox, up, meta, made, room, faults, stranded>>

\* After endCall: the room of meta.callId is told, if a call:end of this socket has
\* not cleared it meanwhile.
HangUp(t) ==
    LET k == meta[task[t].sock]
    IN  /\ task[t].kind = "hangup"
        /\ inbox' = IF k = None THEN inbox ELSE Emit(room[k], Ended(k))
        /\ Done(t)
        /\ UNCHANGED <<client, conns, up, meta, queue, indexed, made, room, faults, stranded>>

\* The partners of the call that s no longer knows when its meta.callId is overwritten.
Forgotten(s) == IF meta[s] = None THEN {} ELSE Members(meta[s]) \ {s[1]}

\* onCallEnd after endCall: only the sender leaves the room.
FinishEnd(t) ==
    LET s == task[t].sock
        k == task[t].call
    IN  /\ task[t].kind = "end"
        /\ inbox' = Emit(room[k], Ended(k))
        /\ room' = [room EXCEPT ![k] = @ \ {s}]
        /\ meta' = [meta EXCEPT ![s] = None]
        /\ stranded' = IF meta[s] = k THEN stranded ELSE stranded \cup Forgotten(s)
        /\ Done(t)
        /\ UNCHANGED <<client, conns, up, queue, indexed, made, faults>>

\* tryMatch pops two entries and takes both out of the index.
TryMatch(t) ==
    /\ Len(queue) >= 2
    /\ made + Cardinality({x \in Tasks : task[x].kind = "pair"}) < MaxCalls
    /\ Begin(t, [kind |-> "pair", sock |-> queue[1], peer |-> queue[2], call |-> None])
    /\ queue' = Tail(Tail(queue))
    /\ indexed' = indexed \ {queue[1], queue[2]}
    /\ UNCHANGED <<client, conns, inbox, up, meta, made, room, faults, stranded>>

\* this.sockets still has the socket.
Registered(s) ==
    s \in up \/ \E t \in Tasks : task[t].kind \in {"dequeue", "hangup"} /\ task[t].sock = s

\* Mutant of Found: only the initiator is told.
FoundByInitiator(c, s, k, init) ==
    IF init /\ page[c].open /\ Sock(c) = s
    THEN <<[type |-> "found", callId |-> k, isInitiator |-> init]>> ELSE <<>>

\* What client c gets of the match:found for socket s.
Found(c, s, k, init) ==
    IF page[c].open /\ Sock(c) = s
    THEN <<[type |-> "found", callId |-> k, isInitiator |-> init]>> ELSE <<>>

\* The rest of tryPairUsers: rooms, meta.callId and match:found to both.
Announce(t) ==
    LET a == task[t].sock
        b == task[t].peer
        k == made + 1
    IN  /\ task[t].kind = "pair"
        /\ made' = k
        /\ room' = [room EXCEPT ![k] = {a, b} \cap up]
        /\ meta' = [s \in Sockets |-> IF s \in {a, b} /\ Registered(s) THEN k ELSE meta[s]]
        /\ inbox' = [c \in Clients |-> inbox[c] \o Found(c, a, k, TRUE) \o Found(c, b, k, FALSE)]
        /\ stranded' = stranded \cup Forgotten(a) \cup Forgotten(b) \cup
                IF a = b \/ ~Registered(a) \/ ~Registered(b) THEN {a[1], b[1]} ELSE {}
        /\ Done(t)
        /\ UNCHANGED <<client, conns, up, queue, indexed, faults>>

\* The sockets that wait for what the handler is about to send.
Concerned(t) ==
    CASE task[t].kind = "pair" -> {task[t].sock, task[t].peer}
      [] task[t].kind = "end" -> room[task[t].call]
      [] task[t].kind = "hangup" /\ meta[task[t].sock] # None -> room[meta[task[t].sock]]
      [] OTHER -> {}

\* A statement of the handler fails and the rest of it is skipped.
HandlerFails(t) ==
    /\ task[t].kind \in {"end", "hangup", "pair"}
    /\ faults < MaxFaults
    /\ faults' = faults + 1
    /\ stranded' = stranded \cup {s[1] : s \in Concerned(t)}
    /\ Done(t)
    /\ UNCHANGED <<client, conns, inbox, up, meta, queue, indexed, made, room>>

----------------------------------------------------------------------------

Busy(c) == Render(c) \/ NegotiationNeeded(c) \/ SendOffer(c) \/ SendAnswer(c)

Page(c) ==
    \/ Reconnect(c) \/ Granted(c) \/ Busy(c)
    \/ OnMatchFound(c) \/ OnCallEnded(c) \/ EndedUnheard(c)
    \/ OnOffer(c) \/ OnAnswer(c) \/ SdpIgnored(c) \/ CloseTab(c)

Handler(t) ==
    \/ Dequeue(t) \/ HangUp(t) \/ FinishEnd(t) \/ TryMatch(t) \/ Announce(t) \/ HandlerFails(t)

Next ==
    \/ \E c \in Clients : Page(c)
    \/ \E t \in Tasks, c \in Clients : IceFails(t, c) \/ Leave(t, c)
    \/ \E t \in Tasks, s \in Sockets : HandleDisconnect(t, s)
    \/ \E t \in Tasks : Handler(t)

Spec == Init /\ [][Next]_vars

----------------------------------------------------------------------------
(* Properties.                                                             *)

\* Types of the pages, the hooks, the connections and the gateway's maps.
TypeOK ==
    /\ page \in [Clients -> [open : BOOLEAN, matchState : {"queue", "matched"},
                             callId : Calls \cup {None}, isInitiator : BOOLEAN, queued : BOOLEAN]]
    /\ \A c \in Clients :
        /\ rtc[c].listening \in Calls \cup {None}
        /\ {rtc[c].isInitiator, rtc[c].offerSent, rtc[c].crossed} \subseteq BOOLEAN
        /\ rtc[c].pc = None \/ rtc[c].pc \in Peer
        /\ rtc[c].deps \in BOOLEAN \X (Calls \cup {None}) \X BOOLEAN
    /\ cam \in [Clients -> {"asking", "on", "off"}]
    /\ conns \in [Clients -> 1 .. MaxFaults + 1]
    /\ \A c \in Clients : \A i \in DOMAIN inbox[c] :
        inbox[c][i] \in [type : {"found", "ended", "offer", "answer"}, callId : Calls,
                         isInitiator : BOOLEAN]
    /\ up \in SUBSET Sockets /\ indexed \in SUBSET Sockets
    /\ meta \in [Sockets -> Calls \cup {None}]
    /\ queue \in Seq(Sockets)
    /\ room \in [Calls -> SUBSET Sockets]
    /\ made \in 0 .. MaxCalls
    /\ task \in [Tasks -> [kind : {"idle", "end", "dequeue", "hangup", "pair"},
                           sock : Sockets \cup {None}, peer : Sockets \cup {None},
                           call : Calls \cup {None}]]
    /\ faults \in 0 .. MaxFaults
    /\ stranded \in SUBSET Clients

\* The page has rendered and its hook has nothing to send: no step of Busy is possible.
AtRest(c) ==
    /\ page[c].open => HookEffects(c) = rtc[c] /\ ~Joins(c)
    /\ rtc[c].pc # None =>
          /\ rtc[c].pc.offers = <<>> /\ rtc[c].pc.sig # "have-remote-offer"
          /\ ~(rtc[c].pc.needed /\ rtc[c].pc.sig = "stable")

\* Nothing is under way at the gateway, in the network or in the browsers.
Quiet ==
    /\ \A t \in Tasks : task[t] = IdleTask
    /\ Len(queue) < 2
    /\ \A s \in up : page[s[1]].open /\ Sock(s[1]) = s
    /\ \A c \in Clients : inbox[c] = <<>> /\ AtRest(c)

InCall(c, k) == page[c].open /\ page[c].callId = k

\* A page that shows the spinner and has joined is in the queue, is being paired, or
\* its match:found is on the way, unless its connection was lost (queuedRef keeps it
\* from joining again) or its pairing failed: the entries that duplicate call:ended
\* events leave in the queue never cost a page its place.
SearchingIsServed ==
    \A c \in Clients \ stranded : page[c].open /\ page[c].matchState = "queue" /\ page[c].queued =>
        \/ \E i \in DOMAIN queue : queue[i] = Sock(c)
        \/ \E t \in Tasks : task[t].kind = "pair" /\ Sock(c) \in {task[t].sock, task[t].peer}
        \/ \E i \in DOMAIN inbox[c] : inbox[c][i].type = "found"

\* When everything has settled nobody sits in a call alone, except after one of the
\* events the history names: the pairing raced a finished disconnect, a statement
\* failed, call:ended came before the listener's effect, the partner was torn out by
\* the call:ended of an earlier call, or meta.callId of the partner's socket was
\* cleared or overwritten by an earlier call:end or a second pairing.
NobodyLeftAlone ==
    Quiet => \A c \in Clients \ stranded : page[c].open /\ page[c].callId # None =>
        \E d \in Clients \ {c} : InCall(d, page[c].callId)

\* When everything has settled two pages in the same call have negotiated it: each has
\* a stable connection of that call with the other's description, and one of them is
\* the initiator, however the first offer, onnegotiationneeded and a late camera
\* interleave, unless an offer or answer found no listener or no connection, or one of
\* them has in this call used the connection or the description of another call.
Negotiated ==
    Quiet => \A c, d \in Clients \ stranded, k \in Calls :
        c # d /\ InCall(c, k) /\ InCall(d, k) /\ ~rtc[c].crossed /\ ~rtc[d].crossed =>
            /\ rtc[c].pc # None
            /\ rtc[c].pc.callId = k /\ rtc[c].pc.peer = k /\ rtc[c].pc.sig = "stable"
            /\ page[c].isInitiator # page[d].isInitiator

====
