---- MODULE ChatProofs ----
(***************************************************************************)
(* Proofs about Chat, for any clients, handlers, calls and faults.         *)
(***************************************************************************)
EXTENDS Chat, FiniteSetTheorems, SequenceTheorems, WellFoundedInduction, TLAPS

\* The records of the model.
PageState == [open : BOOLEAN, matchState : {"queue", "matched"}, callId : Calls \cup {None},
              isInitiator : BOOLEAN, queued : BOOLEAN]

Hook == [listening : Calls \cup {None}, isInitiator : BOOLEAN, pc : Peer \cup {None},
         offerSent : BOOLEAN, deps : BOOLEAN \X (Calls \cup {None}) \X BOOLEAN,
         crossed : BOOLEAN]

Message == [type : {"found", "ended", "offer", "answer"}, callId : Calls, isInitiator : BOOLEAN]

Job == [kind : {"idle", "end", "dequeue", "hangup", "pair"}, sock : Sockets \cup {None},
        peer : Sockets \cup {None}, call : Calls \cup {None}]

\* A hook that owes an answer knows in which call: SendAnswer relays to that room.
Heard(h) == h.pc # None /\ h.pc.sig = "have-remote-offer" => h.pc.via \in Calls

\* A handler knows the sockets and the call it needs.
Briefed(h) ==
    /\ h.kind # "idle" => h.sock \in Sockets
    /\ h.kind = "pair" => h.peer \in Sockets
    /\ h.kind = "end" => h.call \in Calls

\* Pairings on their way to a call of their own.
Pairing == {x \in Tasks : task[x].kind = "pair"}

PagesOK ==
    /\ page \in [Clients -> PageState]
    /\ rtc \in [Clients -> Hook] /\ \A c \in Clients : Heard(rtc[c])
    /\ cam \in [Clients -> {"asking", "on", "off"}]

NetOK ==
    /\ conns \in [Clients -> Nat] /\ faults \in 0 .. MaxFaults
    /\ \A c \in Clients : conns[c] >= 1 /\ conns[c] <= faults + 1
    /\ inbox \in [Clients -> Seq(Message)]

GatewayOK ==
    /\ up \in SUBSET Sockets /\ indexed \in SUBSET Sockets
    /\ meta \in [Sockets -> Calls \cup {None}]
    /\ queue \in Seq(Sockets)
    /\ room \in [Calls -> SUBSET Sockets]

JobsOK ==
    /\ task \in [Tasks -> Job] /\ \A t \in Tasks : Briefed(task[t])
    /\ made \in Nat /\ made + Cardinality(Pairing) <= MaxCalls

Typed == PagesOK /\ NetOK /\ GatewayOK /\ JobsOK /\ stranded \in SUBSET Clients


----------------------------------------------------------------------------
(* Types.                                                                  *)

\* A call is a number, and None is none.
LEMMA CallNumbers == Calls \subseteq Nat /\ None \notin Calls
  BY BoundsNat, NoneApart DEF Calls

\* A page's socket is one of the sockets.
LEMMA OwnSocket ==
    ASSUME NetOK, NEW c \in Clients
    PROVE  Sock(c) \in Sockets /\ Sock(c)[1] = c /\ Sock(c)[2] = conns[c]
<1>1. conns[c] \in 1 .. MaxFaults + 1
  BY BoundsNat DEF NetOK
<1>2. QED
  BY <1>1 DEF Sock, Sockets

\* The invariant gives the types the model states.
LEMMA TypedOK ==
    ASSUME Typed
    PROVE  TypeOK
<1>1. /\ page \in [Clients -> PageState] /\ rtc \in [Clients -> Hook]
      /\ cam \in [Clients -> {"asking", "on", "off"}]
  BY DEF Typed, PagesOK
<1>2. \A c \in Clients :
        /\ rtc[c].listening \in Calls \cup {None}
        /\ {rtc[c].isInitiator, rtc[c].offerSent, rtc[c].crossed} \subseteq BOOLEAN
        /\ rtc[c].pc = None \/ rtc[c].pc \in Peer
        /\ rtc[c].deps \in BOOLEAN \X (Calls \cup {None}) \X BOOLEAN
  BY <1>1 DEF Hook
<1>3. conns \in [Clients -> 1 .. MaxFaults + 1] /\ faults \in 0 .. MaxFaults
  BY BoundsNat DEF Typed, NetOK
<1>4. \A c \in Clients : \A i \in DOMAIN inbox[c] : inbox[c][i] \in Message
  BY DEF Typed, NetOK
<1>5. made \in 0 .. MaxCalls
  <2>1. Cardinality(Pairing) \in Nat
    BY TasksFinite, FS_Subset, FS_CardinalityType DEF Pairing
  <2>2. QED
    BY <2>1, BoundsNat DEF Typed, JobsOK
<1>6. task \in [Tasks -> Job] /\ GatewayOK /\ stranded \in SUBSET Clients
  BY DEF Typed, JobsOK
<1>7. QED
  BY <1>1, <1>2, <1>3, <1>4, <1>5, <1>6 DEF TypeOK, PageState, Message, Job, GatewayOK

\* What is emitted to some sockets, and what is relayed, lands in inboxes.
LEMMA EmitTyped ==
    ASSUME NetOK, NEW R, NEW m \in Message
    PROVE  Emit(R, m) \in [Clients -> Seq(Message)]
  BY DEF NetOK, Emit

LEMMA RelayTyped ==
    ASSUME NetOK, NEW c \in Clients, NEW k \in Calls, NEW type \in {"offer", "answer"}
    PROVE  Relay(c, type, k) \in [Clients -> Seq(Message)]
<1>1. [type |-> type, callId |-> k, isInitiator |-> FALSE] \in Message
  BY DEF Message
<1>2. QED
  BY <1>1, EmitTyped DEF Relay

\* The event a page handles is a message, and the rest stay in order.
LEMMA ConsumeTyped ==
    ASSUME NetOK, NEW c \in Clients, NEW type, Arrives(c, type), Consume(c)
    PROVE  /\ Head(inbox[c]) \in Message /\ Head(inbox[c]).type = type
           /\ inbox' \in [Clients -> Seq(Message)]
<1>1. inbox[c] \in Seq(Message) /\ inbox[c] # <<>>
  BY DEF NetOK, Arrives
<1>2. Head(inbox[c]) \in Message /\ Tail(inbox[c]) \in Seq(Message)
  BY <1>1
<1>3. QED
  BY <1>2 DEF Arrives, Consume, NetOK

\* There are finitely many pairings under way.
LEMMA PairingFinite == IsFiniteSet(Pairing) /\ Cardinality(Pairing) \in Nat
  BY TasksFinite, FS_Subset, FS_CardinalityType DEF Pairing

\* A handler other than a pairing starts.
LEMMA BeginTyped ==
    ASSUME JobsOK, NEW t \in Tasks, NEW h \in Job, Begin(t, h), Briefed(h),
           h.kind # "pair", made' = made
    PROVE  JobsOK'
<1>1. task[t] = IdleTask /\ task' = [task EXCEPT ![t] = h] /\ task \in [Tasks -> Job]
  BY DEF Begin, JobsOK
<1>2. Pairing' = Pairing
  BY <1>1 DEF Pairing, IdleTask
<1>3. QED
  BY <1>1, <1>2 DEF JobsOK

\* A handler other than a pairing goes on or ends.
LEMMA JobTyped ==
    ASSUME JobsOK, NEW t \in Tasks, NEW h \in Job, task' = [task EXCEPT ![t] = h], Briefed(h),
           h.kind # "pair", task[t].kind # "pair", made' = made
    PROVE  JobsOK'
<1>1. task \in [Tasks -> Job]
  BY DEF JobsOK
<1>2. Pairing' = Pairing
  BY <1>1 DEF Pairing
<1>3. QED
  BY <1>1, <1>2 DEF JobsOK

LEMMA IdleJob == IdleTask \in Job /\ Briefed(IdleTask) /\ IdleTask.kind = "idle"
  BY DEF IdleTask, Job, Briefed

\* A pairing ends, and makes at most one call.
LEMMA PairingEnds ==
    ASSUME JobsOK, NEW t \in Tasks, task[t].kind = "pair", Done(t), made' \in {made, made + 1}
    PROVE  JobsOK'
<1>1. task \in [Tasks -> Job] /\ task' = [task EXCEPT ![t] = IdleTask]
  BY DEF JobsOK, Done
<1>2. Pairing' = Pairing \ {t} /\ t \in Pairing
  BY <1>1, IdleJob DEF Pairing
<1>3. Cardinality(Pairing') = Cardinality(Pairing) - 1
  BY <1>2, PairingFinite, FS_RemoveElement
<1>4. made' + Cardinality(Pairing') <= MaxCalls /\ made' \in Nat
  BY <1>3, PairingFinite, BoundsNat DEF JobsOK
<1>5. QED
  BY <1>1, <1>4, IdleJob DEF JobsOK

\* The hook's connection after a render.
LEMMA PeerTyped ==
    ASSUME PagesOK, NEW c \in Clients
    PROVE  LET pc == InitPeerConnection(c, page[c].callId # None)
           IN  /\ pc \in Peer \cup {None}
               /\ page[c].callId # None => pc \in Peer
               /\ pc # None /\ pc.sig = "have-remote-offer" => pc.via \in Calls
<1> DEFINE pc == InitPeerConnection(c, page[c].callId # None)
<1>1. /\ rtc[c].pc \in Peer \cup {None} /\ Heard(rtc[c])
      /\ page[c].callId \in Calls \cup {None} /\ page[c].isInitiator \in BOOLEAN
  BY DEF PagesOK, Hook, PageState
<1>2. CASE rtc[c].pc # None
  <2>1. PICK q \in Peer : q = rtc[c].pc
    BY <1>1, <1>2
  <2>2. AttachTracks(q, cam[c] = "on") \in Peer
    BY DEF AttachTracks, Peer
  <2>3. AttachTracks(q, cam[c] = "on").sig = q.sig /\ AttachTracks(q, cam[c] = "on").via = q.via
    BY DEF AttachTracks, Peer
  <2>4. pc = AttachTracks(q, cam[c] = "on")
    BY <1>2, <2>1 DEF InitPeerConnection
  <2>5. q.sig = "have-remote-offer" => q.via \in Calls
    BY <1>1, <1>2, <2>1 DEF Heard
  <2>6. QED
    BY <2>2, <2>3, <2>4, <2>5
<1>3. CASE rtc[c].pc = None /\ page[c].callId # None
  <2>1. pc = NewPeer(c)
    BY <1>3 DEF InitPeerConnection
  <2>2. NewPeer(c) \in Peer /\ NewPeer(c).sig = "stable"
    BY <1>1, <1>3 DEF NewPeer, Peer
  <2>3. QED
    BY <2>1, <2>2
<1>4. CASE rtc[c].pc = None /\ page[c].callId = None
  BY <1>4 DEF InitPeerConnection
<1>5. QED
  BY <1>2, <1>3, <1>4

\* createOffer leaves a connection.
LEMMA OfferTyped ==
    ASSUME NEW q \in Peer
    PROVE  CreateOffer(q) \in Peer /\ CreateOffer(q).sig = q.sig /\ CreateOffer(q).via = q.via
  BY DEF CreateOffer, Peer

\* The hook after a render.
LEMMA HookTyped ==
    ASSUME PagesOK, NEW c \in Clients
    PROVE  HookEffects(c) \in Hook /\ Heard(HookEffects(c))
<1>1. PICK pc : pc = InitPeerConnection(c, page[c].callId # None)
  OBVIOUS
<1>2. /\ pc \in Peer \cup {None}
      /\ page[c].callId # None => pc \in Peer
      /\ pc # None /\ pc.sig = "have-remote-offer" => pc.via \in Calls
  BY <1>1, PeerTyped
<1>3. PICK q : q = IF FirstOffer(c, pc) THEN CreateOffer(pc) ELSE pc
  OBVIOUS
<1>4. FirstOffer(c, pc) => page[c].callId # None /\ pc.sig = "stable"
  BY DEF FirstOffer
<1>5. q \in Peer \cup {None} /\ (q # None /\ q.sig = "have-remote-offer" => q.via \in Calls)
  <2>1. CASE FirstOffer(c, pc)
    BY <1>2, <1>3, <1>4, <2>1, OfferTyped
  <2>2. CASE ~FirstOffer(c, pc)
    BY <1>2, <1>3, <2>2
  <2>3. QED
    BY <2>1, <2>2
<1>6. /\ page[c].callId \in Calls \cup {None} /\ page[c].isInitiator \in BOOLEAN
      /\ rtc[c].offerSent \in BOOLEAN /\ rtc[c].crossed \in BOOLEAN
  BY DEF PagesOK, PageState, Hook
<1>7. Deps(c) \in BOOLEAN \X (Calls \cup {None}) \X BOOLEAN
  BY <1>6 DEF Deps
<1>8. HookEffects(c) = [listening |-> IF page[c].callId # None THEN page[c].callId ELSE None,
                        isInitiator |-> page[c].isInitiator, pc |-> q,
                        offerSent |-> rtc[c].offerSent, deps |-> Deps(c),
                        crossed |-> rtc[c].crossed]
  BY <1>1, <1>3 DEF HookEffects
<1>9. QED
  BY <1>5, <1>6, <1>7, <1>8 DEF Hook, Heard

\* A change of one hook.
LEMMA HookChanges ==
    ASSUME PagesOK, NEW c \in Clients, NEW h \in Hook, Heard(h), rtc' = [rtc EXCEPT ![c] = h],
           page' \in [Clients -> PageState], cam' \in [Clients -> {"asking", "on", "off"}]
    PROVE  PagesOK'
  BY DEF PagesOK

\* A change of the connection of one hook.
LEMMA PeerChanges ==
    ASSUME PagesOK, NEW c \in Clients, NEW q \in Peer, NEW o \in BOOLEAN,
           q.sig = "have-remote-offer" => q.via \in Calls,
           \/ rtc' = [rtc EXCEPT ![c].pc = q]
           \/ rtc' = [rtc EXCEPT ![c].pc = q, ![c].offerSent = o],
           UNCHANGED <<page, cam>>
    PROVE  PagesOK'
<1>1. rtc[c] \in Hook
  BY DEF PagesOK
<1>2. CASE rtc' = [rtc EXCEPT ![c].pc = q]
  <2>1. PICK h : h = [rtc[c] EXCEPT !.pc = q]
    OBVIOUS
  <2>2. h \in Hook /\ Heard(h)
    BY <1>1, <2>1 DEF Hook, Heard
  <2>3. rtc' = [rtc EXCEPT ![c] = h]
    BY <1>2, <2>1
  <2>4. QED
    BY <2>2, <2>3, HookChanges DEF PagesOK
<1>3. CASE rtc' = [rtc EXCEPT ![c].pc = q, ![c].offerSent = o]
  <2>1. PICK h : h = [rtc[c] EXCEPT !.pc = q, !.offerSent = o]
    OBVIOUS
  <2>2. h \in Hook /\ Heard(h)
    BY <1>1, <2>1 DEF Hook, Heard
  <2>3. rtc' = [rtc EXCEPT ![c] = h]
    BY <1>3, <2>1 DEF PagesOK
  <2>4. QED
    BY <2>2, <2>3, HookChanges DEF PagesOK
<1>4. QED
  BY <1>2, <1>3

\* A lost connection.
LEMMA ReconnectTyped ==
    ASSUME Typed, NEW c \in Clients, Reconnect(c)
    PROVE  Typed'
<1>1. PagesOK'
  <2>1. PICK h : h = [rtc[c] EXCEPT !.listening = None,
                                    !.deps = <<FALSE, page[c].callId, page[c].isInitiator>>]
    OBVIOUS
  <2>2. rtc[c] \in Hook /\ Heard(rtc[c]) /\ page[c] \in PageState
    BY DEF Typed, PagesOK
  <2>3. h \in Hook /\ h.pc = rtc[c].pc
    BY <2>1, <2>2 DEF Hook, PageState
  <2>4. Heard(h)
    BY <2>2, <2>3 DEF Heard
  <2>5. rtc' = [rtc EXCEPT ![c] = h]
    BY <2>1 DEF Reconnect, Typed, PagesOK
  <2>6. QED
    BY <2>3, <2>4, <2>5, HookChanges DEF Reconnect, Typed, PagesOK
<1>2. NetOK'
  <2>1. conns' \in [Clients -> Nat] /\ faults' \in 0 .. MaxFaults
    BY BoundsNat DEF Reconnect, Typed, NetOK
  <2>2. \A d \in Clients : conns'[d] >= 1 /\ conns'[d] <= faults' + 1
    BY DEF Reconnect, Typed, NetOK
  <2>3. inbox' \in [Clients -> Seq(Message)]
    BY DEF Reconnect, Typed, NetOK
  <2>4. QED
    BY <2>1, <2>2, <2>3 DEF NetOK
<1>3. <<c, conns[c] + 1>> \in Sockets
  <2>1. conns[c] + 1 \in 1 .. MaxFaults + 1
    BY BoundsNat DEF Reconnect, Typed, NetOK
  <2>2. QED
    BY <2>1 DEF Sockets
<1>4. GatewayOK'
  BY <1>3 DEF Reconnect, Typed, GatewayOK
<1>5. JobsOK' /\ stranded' \in SUBSET Clients
  BY DEF Reconnect, Typed, JobsOK, Pairing
<1>6. QED
  BY <1>1, <1>2, <1>4, <1>5 DEF Typed

\* The camera.
LEMMA GrantedTyped ==
    ASSUME Typed, NEW c \in Clients, Granted(c)
    PROVE  Typed'
<1>1. PagesOK'
  BY DEF Granted, Typed, PagesOK
<1>2. NetOK' /\ GatewayOK' /\ JobsOK' /\ stranded' \in SUBSET Clients
  BY DEF Granted, server, Typed, NetOK, GatewayOK, JobsOK, Pairing
<1>3. QED
  BY <1>1, <1>2 DEF Typed

\* A push to the queue.
LEMMA EnqueueTyped ==
    ASSUME Typed, NEW x \in Sockets, Enqueue(x)
    PROVE  queue' \in Seq(Sockets) /\ indexed' \in SUBSET Sockets
  BY DEF Enqueue, Typed, GatewayOK

\* The effects of a render.
LEMMA RenderTyped ==
    ASSUME Typed, NEW c \in Clients, Render(c)
    PROVE  Typed'
<1>1. page' \in [Clients -> PageState]
  <2>1. PICK g : g = [page[c] EXCEPT !.queued = @ \/ Joins(c)]
    OBVIOUS
  <2>2. g \in PageState
    BY <2>1 DEF Typed, PagesOK, PageState
  <2>3. page' = [page EXCEPT ![c] = g]
    BY <2>1 DEF Render
  <2>4. QED
    BY <2>2, <2>3 DEF Typed, PagesOK
<1>2. PagesOK'
  BY <1>1, HookTyped, HookChanges DEF Render, Typed, PagesOK
<1>3. queue' \in Seq(Sockets) /\ indexed' \in SUBSET Sockets
  <2>1. CASE Joins(c)
    BY <2>1, OwnSocket, EnqueueTyped DEF Render, Typed
  <2>2. CASE ~Joins(c)
    BY <2>2 DEF Render, Typed, GatewayOK
  <2>3. QED
    BY <2>1, <2>2
<1>4. GatewayOK'
  BY <1>3 DEF Render, Typed, GatewayOK
<1>5. NetOK' /\ JobsOK' /\ stranded' \in SUBSET Clients
  BY DEF Render, Typed, NetOK, JobsOK, Pairing
<1>6. QED
  BY <1>2, <1>4, <1>5 DEF Typed

\* onnegotiationneeded.
LEMMA NegotiationNeededTyped ==
    ASSUME Typed, NEW c \in Clients, NegotiationNeeded(c)
    PROVE  Typed'
<1>1. PICK pc \in Peer : pc = rtc[c].pc /\ pc # None /\ pc.sig = "stable"
  BY DEF NegotiationNeeded, Typed, PagesOK, Hook
<1>2. PICK r \in Peer : r = (IF pc.isInitiator THEN CreateOffer(pc) ELSE pc) /\ r.sig = "stable"
  BY <1>1, OfferTyped
<1>3. PICK q : q = [r EXCEPT !.needed = FALSE] /\ q \in Peer /\ q.sig = "stable"
  <2>1. [r EXCEPT !.needed = FALSE] \in Peer
    BY DEF Peer
  <2>2. [r EXCEPT !.needed = FALSE].sig = "stable"
    BY <1>2 DEF Peer
  <2>3. QED
    BY <2>1, <2>2
<1>4. PICK o \in BOOLEAN : o = (rtc[c].offerSent \/ pc.isInitiator)
  OBVIOUS
<1>5. rtc' = [rtc EXCEPT ![c].pc = q, ![c].offerSent = o]
  BY <1>1, <1>2, <1>3, <1>4 DEF NegotiationNeeded
<1>6. PagesOK'
  BY <1>3, <1>5, PeerChanges DEF NegotiationNeeded, Typed
<1>7. NetOK' /\ GatewayOK' /\ JobsOK' /\ stranded' \in SUBSET Clients
  BY DEF NegotiationNeeded, server, Typed, NetOK, GatewayOK, JobsOK, Pairing
<1>8. QED
  BY <1>6, <1>7 DEF Typed

\* An offer goes out.
LEMMA SendOfferTyped ==
    ASSUME Typed, NEW c \in Clients, SendOffer(c)
    PROVE  Typed'
<1>1. PICK pc \in Peer : pc = rtc[c].pc /\ pc # None /\ pc.offers # <<>>
  BY DEF SendOffer, Typed, PagesOK, Hook
<1>2. pc.offers \in Seq(BOOLEAN) /\ Tail(pc.offers) \in Seq(BOOLEAN) /\ pc.callId \in Calls
  <2>1. pc.offers \in Seq(BOOLEAN) /\ pc.callId \in Calls
    BY DEF Peer
  <2>2. QED
    BY <1>1, <2>1, HeadTailProperties
<1>3. PICK q : q = [pc EXCEPT !.sig = "have-local-offer", !.offers = Tail(@),
                              !.needed = @ /\ ~Head(pc.offers)]
  OBVIOUS
<1>4. q \in Peer /\ q.sig = "have-local-offer"
  BY <1>2, <1>3 DEF Peer
<1>5. rtc' = [rtc EXCEPT ![c].pc = q, ![c].offerSent = TRUE]
  BY <1>1, <1>3 DEF SendOffer
<1>6. PagesOK'
  BY <1>4, <1>5, PeerChanges DEF SendOffer, Typed
<1>7. inbox' \in [Clients -> Seq(Message)]
  BY <1>1, <1>2, RelayTyped DEF SendOffer, Typed
<1>8. NetOK'
  BY <1>7 DEF SendOffer, Typed, NetOK
<1>9. GatewayOK' /\ JobsOK' /\ stranded' \in SUBSET Clients
  BY DEF SendOffer, server, Typed, GatewayOK, JobsOK, Pairing
<1>10. QED
  BY <1>6, <1>8, <1>9 DEF Typed

\* An answer goes out, to the room of the call the offer came in.
LEMMA SendAnswerTyped ==
    ASSUME Typed, NEW c \in Clients, SendAnswer(c)
    PROVE  Typed'
<1>1. PICK pc \in Peer : pc = rtc[c].pc /\ pc # None /\ pc.sig = "have-remote-offer"
  BY DEF SendAnswer, Typed, PagesOK, Hook
<1>2. pc.via \in Calls
  BY <1>1 DEF Typed, PagesOK, Heard
<1>3. PICK q : q = [pc EXCEPT !.sig = "stable"]
  OBVIOUS
<1>4. q \in Peer /\ q.sig = "stable"
  BY <1>3 DEF Peer
<1>5. rtc' = [rtc EXCEPT ![c].pc = q]
  BY <1>1, <1>3 DEF SendAnswer
<1>6. rtc[c].offerSent \in BOOLEAN
  BY DEF Typed, PagesOK, Hook
<1>7. PagesOK'
  BY <1>4, <1>5, <1>6, PeerChanges DEF SendAnswer, Typed
<1>8. inbox' \in [Clients -> Seq(Message)]
  BY <1>1, <1>2, RelayTyped DEF SendAnswer, Typed
<1>9. NetOK'
  BY <1>8 DEF SendAnswer, Typed, NetOK
<1>10. GatewayOK' /\ JobsOK' /\ stranded' \in SUBSET Clients
  BY DEF SendAnswer, server, Typed, GatewayOK, JobsOK, Pairing
<1>11. QED
  BY <1>7, <1>9, <1>10 DEF Typed

\* match:found.
LEMMA OnMatchFoundTyped ==
    ASSUME Typed, NEW c \in Clients, OnMatchFound(c)
    PROVE  Typed'
<1>1. /\ Head(inbox[c]) \in Message /\ inbox' \in [Clients -> Seq(Message)]
  BY ConsumeTyped DEF OnMatchFound, Typed
<1>2. PICK g : g = [page[c] EXCEPT !.callId = Head(inbox[c]).callId,
                                   !.isInitiator = Head(inbox[c]).isInitiator,
                                   !.matchState = "matched"]
  OBVIOUS
<1>3. g \in PageState
  <2>1. Head(inbox[c]).callId \in Calls /\ Head(inbox[c]).isInitiator \in BOOLEAN
    BY <1>1 DEF Message
  <2>2. page[c] \in PageState
    BY DEF Typed, PagesOK
  <2>3. QED
    BY <1>2, <2>1, <2>2 DEF PageState
<1>4. page' = [page EXCEPT ![c] = g]
  BY <1>2 DEF OnMatchFound, Typed, PagesOK
<1>5. PagesOK'
  <2>1. PICK h : h = [rtc[c] EXCEPT !.crossed = rtc[c].pc # None]
    OBVIOUS
  <2>2. rtc[c] \in Hook /\ Heard(rtc[c])
    BY DEF Typed, PagesOK
  <2>3. h \in Hook /\ h.pc = rtc[c].pc
    BY <2>1, <2>2 DEF Hook
  <2>4. Heard(h) /\ rtc' = [rtc EXCEPT ![c] = h]
    BY <2>1, <2>2, <2>3 DEF Heard, OnMatchFound
  <2>5. page' \in [Clients -> PageState]
    BY <1>3, <1>4 DEF Typed, PagesOK
  <2>6. QED
    BY <2>3, <2>4, <2>5, HookChanges DEF OnMatchFound, Typed, PagesOK
<1>6. NetOK'
  BY <1>1 DEF OnMatchFound, Typed, NetOK
<1>7. GatewayOK' /\ JobsOK' /\ stranded' \in SUBSET Clients
  BY DEF OnMatchFound, server, Typed, GatewayOK, JobsOK, Pairing
<1>8. QED
  BY <1>5, <1>6, <1>7 DEF Typed

\* The end of a connection.
LEMMA CleanupTyped ==
    ASSUME PagesOK, NEW c \in Clients
    PROVE  CleanupPeerConnection(rtc[c]) \in Hook /\ Heard(CleanupPeerConnection(rtc[c]))
<1>1. rtc[c] \in Hook
  BY DEF PagesOK
<1>2. QED
  BY <1>1 DEF CleanupPeerConnection, Hook, Heard

\* The members of a room are clients.
LEMMA MembersTyped ==
    ASSUME GatewayOK, NEW k \in Calls
    PROVE  Members(k) \in SUBSET Clients
  BY DEF GatewayOK, Members, Sockets

\* call:ended.
LEMMA OnCallEndedTyped ==
    ASSUME Typed, NEW c \in Clients, OnCallEnded(c)
    PROVE  Typed'
<1>1. inbox' \in [Clients -> Seq(Message)]
  BY ConsumeTyped DEF OnCallEnded, Typed
<1>2. page' \in [Clients -> PageState]
  <2>1. PICK g : g = [page[c] EXCEPT !.callId = None, !.isInitiator = FALSE,
                                     !.matchState = "queue", !.queued = TRUE]
    OBVIOUS
  <2>2. g \in PageState
    BY <2>1 DEF Typed, PagesOK, PageState
  <2>3. page' = [page EXCEPT ![c] = g]
    BY <2>1 DEF OnCallEnded, BackToQueue, Typed, PagesOK
  <2>4. QED
    BY <2>2, <2>3 DEF Typed, PagesOK
<1>3. PagesOK'
  BY <1>2, CleanupTyped, HookChanges DEF OnCallEnded, Typed, PagesOK
<1>4. queue' \in Seq(Sockets) /\ indexed' \in SUBSET Sockets
  BY OwnSocket, EnqueueTyped DEF OnCallEnded, Typed
<1>5. stranded' \in SUBSET Clients
  <2>1. page[c].callId \in Calls \cup {None}
    BY DEF Typed, PagesOK, PageState
  <2>2. page[c].callId # None => Members(page[c].callId) \in SUBSET Clients
    BY <2>1, MembersTyped DEF Typed
  <2>3. QED
    BY <2>2 DEF OnCallEnded, Typed
<1>6. NetOK' /\ GatewayOK' /\ JobsOK'
  BY <1>1, <1>4 DEF OnCallEnded, Typed, NetOK, GatewayOK, JobsOK, Pairing
<1>7. QED
  BY <1>3, <1>5, <1>6 DEF Typed

\* An event nobody heeds.
LEMMA UnheardTyped ==
    ASSUME Typed, NEW c \in Clients, EndedUnheard(c) \/ SdpIgnored(c)
    PROVE  Typed'
<1>1. inbox' \in [Clients -> Seq(Message)]
  BY ConsumeTyped DEF EndedUnheard, SdpIgnored, Typed
<1>2. stranded' \in SUBSET Clients
  BY DEF EndedUnheard, SdpIgnored, Strands, Typed
<1>3. PagesOK' /\ NetOK' /\ GatewayOK' /\ JobsOK'
  BY <1>1 DEF EndedUnheard, SdpIgnored, client, server, Typed, PagesOK, NetOK, GatewayOK,
     JobsOK,
     Pairing
<1>4. QED
  BY <1>2, <1>3 DEF Typed

\* An offer is taken: the hook knows the call it listens for.
LEMMA OnOfferTyped ==
    ASSUME Typed, NEW c \in Clients, OnOffer(c)
    PROVE  Typed'
<1>1. Head(inbox[c]) \in Message /\ inbox' \in [Clients -> Seq(Message)]
  BY ConsumeTyped DEF OnOffer, Typed
<1>2. PICK pc \in Peer : pc = rtc[c].pc
  BY DEF OnOffer, AcceptsOffer, Typed, PagesOK, Hook
<1>3. rtc[c].listening \in Calls /\ rtc[c].offerSent \in BOOLEAN
  BY DEF OnOffer, AcceptsOffer, Typed, PagesOK, Hook
<1>4. PICK q : q = [pc EXCEPT !.sig = "have-remote-offer", !.peer = Head(inbox[c]).callId,
                              !.via = rtc[c].listening]
  OBVIOUS
<1>5. q \in Peer /\ q.via \in Calls
  BY <1>1, <1>3, <1>4 DEF Peer, Message
<1>6. PICK h : h = [rtc[c] EXCEPT !.pc = q, !.crossed = Crosses(c)]
  OBVIOUS
<1>7. PagesOK'
  <2>1. rtc \in [Clients -> Hook] /\ rtc[c] \in Hook /\ Crosses(c) \in BOOLEAN
    BY DEF Typed, PagesOK, Crosses, Hook
  <2>2. h \in Hook /\ Heard(h)
    BY <1>5, <1>6, <2>1 DEF Hook, Heard
  <2>3. rtc' = [rtc EXCEPT ![c] = h]
    BY <1>2, <1>4, <1>6, <2>1 DEF OnOffer, Hook
  <2>4. QED
    BY <2>2, <2>3, HookChanges DEF OnOffer, Typed, PagesOK
<1>8. NetOK' /\ GatewayOK' /\ JobsOK' /\ stranded' \in SUBSET Clients
  BY <1>1 DEF OnOffer, server, Typed, NetOK, GatewayOK, JobsOK, Pairing
<1>9. QED
  BY <1>7, <1>8 DEF Typed

\* An answer is taken.
LEMMA OnAnswerTyped ==
    ASSUME Typed, NEW c \in Clients, OnAnswer(c)
    PROVE  Typed'
<1>1. Head(inbox[c]) \in Message /\ inbox' \in [Clients -> Seq(Message)]
  BY ConsumeTyped DEF OnAnswer, Typed
<1>2. PICK pc \in Peer : pc = rtc[c].pc
  BY DEF OnAnswer, AcceptsAnswer, Typed, PagesOK, Hook
<1>3. rtc[c].offerSent \in BOOLEAN
  BY DEF Typed, PagesOK, Hook
<1>4. PICK q : q = [pc EXCEPT !.sig = "stable", !.peer = Head(inbox[c]).callId]
  OBVIOUS
<1>5. q \in Peer /\ q.sig = "stable"
  BY <1>1, <1>4 DEF Peer, Message
<1>6. PICK h : h = [rtc[c] EXCEPT !.pc = q, !.crossed = Crosses(c)]
  OBVIOUS
<1>7. PagesOK'
  <2>1. rtc \in [Clients -> Hook] /\ rtc[c] \in Hook /\ Crosses(c) \in BOOLEAN
    BY DEF Typed, PagesOK, Crosses, Hook
  <2>2. h \in Hook /\ Heard(h)
    BY <1>5, <1>6, <2>1 DEF Hook, Heard
  <2>3. rtc' = [rtc EXCEPT ![c] = h]
    BY <1>2, <1>4, <1>6, <2>1 DEF OnAnswer, Hook
  <2>4. QED
    BY <2>2, <2>3, HookChanges DEF OnAnswer, Typed, PagesOK
<1>8. NetOK' /\ GatewayOK' /\ JobsOK' /\ stranded' \in SUBSET Clients
  BY <1>1 DEF OnAnswer, server, Typed, NetOK, GatewayOK, JobsOK, Pairing
<1>9. QED
  BY <1>7, <1>8 DEF Typed

\* A page is unmounted.
LEMMA UnmountTyped ==
    ASSUME PagesOK, NetOK, NEW c \in Clients, Unmount(c),
           cam' \in [Clients -> {"asking", "on", "off"}]
    PROVE  PagesOK' /\ inbox' \in [Clients -> Seq(Message)]
<1>1. NewHook \in Hook /\ Heard(NewHook)
  BY DEF NewHook, Hook, Heard
<1>2. page' \in [Clients -> PageState]
  <2>1. PICK g : g = [page[c] EXCEPT !.open = FALSE]
    OBVIOUS
  <2>2. g \in PageState
    BY <2>1 DEF PagesOK, PageState
  <2>3. page' = [page EXCEPT ![c] = g]
    BY <2>1 DEF Unmount
  <2>4. QED
    BY <2>2, <2>3 DEF PagesOK
<1>3. PagesOK'
  BY <1>1, <1>2, HookChanges DEF Unmount
<1>4. QED
  BY <1>3 DEF Unmount, NetOK

LEMMA CloseTabTyped ==
    ASSUME Typed, NEW c \in Clients, CloseTab(c)
    PROVE  Typed'
<1>1. cam' \in [Clients -> {"asking", "on", "off"}]
  BY DEF CloseTab, Typed, PagesOK
<1>2. PagesOK' /\ inbox' \in [Clients -> Seq(Message)]
  BY <1>1, UnmountTyped DEF CloseTab, Typed
<1>3. NetOK' /\ GatewayOK' /\ JobsOK' /\ stranded' \in SUBSET Clients
  BY <1>2 DEF CloseTab, server, Typed, NetOK, GatewayOK, JobsOK, Pairing
<1>4. QED
  BY <1>2, <1>3 DEF Typed

\* call:end of a page starts a handler.
LEMMA EndCallTyped ==
    ASSUME Typed, NEW t \in Tasks, NEW c \in Clients, NEW k \in Calls, EndCall(t, c, k), made' = made
    PROVE  JobsOK'
<1>1. PICK h : h = [kind |-> "end", sock |-> Sock(c), peer |-> None, call |-> k]
  OBVIOUS
<1>2. Sock(c) \in Sockets
  BY OwnSocket DEF Typed
<1>3. h \in Job /\ Briefed(h) /\ h.kind # "pair"
  BY <1>1, <1>2 DEF Job, Briefed
<1>4. QED
  BY <1>1, <1>3, BeginTyped DEF EndCall, Typed

LEMMA LeaveTyped ==
    ASSUME Typed, NEW t \in Tasks, NEW c \in Clients, Leave(t, c)
    PROVE  Typed'
<1>1. cam' \in [Clients -> {"asking", "on", "off"}]
  BY DEF Leave, StopMedia, Typed, PagesOK
<1>2. PagesOK' /\ inbox' \in [Clients -> Seq(Message)]
  BY <1>1, UnmountTyped DEF Leave, Typed
<1>3. NetOK' /\ GatewayOK' /\ stranded' \in SUBSET Clients
  BY <1>2 DEF Leave, Typed, NetOK, GatewayOK
<1>4. JobsOK'
  <2>1. CASE page[c].callId = None
    BY <2>1 DEF Leave, Typed, JobsOK, Pairing
  <2>2. CASE page[c].callId # None
    <3>1. page[c].callId \in Calls
      BY <2>2 DEF Typed, PagesOK, PageState
    <3>2. QED
      BY <2>2, <3>1, EndCallTyped DEF Leave
  <2>3. QED
    BY <2>1, <2>2
<1>5. QED
  BY <1>2, <1>3, <1>4 DEF Typed

\* The connection to the peer is lost.
LEMMA IceFailsTyped ==
    ASSUME Typed, NEW t \in Tasks, NEW c \in Clients, IceFails(t, c)
    PROVE  Typed'
<1>1. PagesOK'
  BY CleanupTyped, HookChanges DEF IceFails, Typed, PagesOK
<1>2. rtc[c].pc.callId \in Calls
  <2>1. rtc[c].pc \in Peer
    BY DEF IceFails, Typed, PagesOK, Hook
  <2>2. QED
    BY <2>1 DEF Peer
<1>3. JobsOK'
  BY <1>2, EndCallTyped DEF IceFails
<1>4. faults' \in 0 .. MaxFaults /\ faults' >= faults /\ faults \in Nat
  BY BoundsNat DEF IceFails, Typed, NetOK
<1>5. NetOK'
  BY <1>4 DEF IceFails, Typed, NetOK
<1>6. GatewayOK' /\ stranded' \in SUBSET Clients
  BY DEF IceFails, Typed, GatewayOK
<1>7. QED
  BY <1>1, <1>3, <1>5, <1>6 DEF Typed

----------------------------------------------------------------------------
(* Types of the gateway.                                                   *)

\* A disconnect starts a handler.
LEMMA HandleDisconnectTyped ==
    ASSUME Typed, NEW t \in Tasks, NEW x \in Sockets, HandleDisconnect(t, x)
    PROVE  Typed'
<1>1. PICK h : h = [kind |-> "dequeue", sock |-> x, peer |-> None, call |-> None]
  OBVIOUS
<1>2. h \in Job /\ Briefed(h) /\ h.kind # "pair"
  BY <1>1 DEF Job, Briefed
<1>3. JobsOK'
  BY <1>1, <1>2, BeginTyped DEF HandleDisconnect, Typed
<1>4. GatewayOK'
  BY DEF HandleDisconnect, Typed, GatewayOK
<1>5. PagesOK' /\ NetOK' /\ stranded' \in SUBSET Clients
  BY DEF HandleDisconnect, client, Typed, PagesOK, NetOK
<1>6. QED
  BY <1>3, <1>4, <1>5 DEF Typed

\* The LREM of a socket's last entry leaves the entries of the others and adds none.
LEMMA WithoutKeeps ==
    ASSUME NEW q \in Seq(Sockets), NEW x
    PROVE  /\ Without(q, x) \in Seq(Sockets)
           /\ \A i \in DOMAIN q : q[i] # x => \E j \in DOMAIN Without(q, x) : Without(q, x)[j] = q[i]
           /\ \A j \in DOMAIN Without(q, x) : \E i \in DOMAIN q : q[i] = Without(q, x)[j]
<1>1. CASE ~\E i \in DOMAIN q : q[i] = x
  BY <1>1 DEF Without
<1>2. CASE \E i \in DOMAIN q : q[i] = x
  <2>1. DOMAIN q = 1 .. Len(q) /\ Len(q) \in Nat
    OBVIOUS
  <2>2. PICK J : J = {n \in 0 .. Len(q) : \E i \in DOMAIN q : q[i] = x /\ n = Len(q) - i}
    OBVIOUS
  <2>3. J \subseteq Nat /\ J # {}
    <3>1. PICK i \in 1 .. Len(q) : q[i] = x
      BY <1>2, <2>1
    <3>2. Len(q) - i \in J
      BY <2>1, <2>2, <3>1
    <3>3. 0 .. Len(q) \subseteq Nat
      OBVIOUS
    <3>4. J \subseteq Nat
      BY <2>2, <3>3
    <3>5. QED
      BY <3>2, <3>4
  <2>4. OpToRel(<, Nat) = {ss \in Nat \X Nat : ss[1] < ss[2]}
    BY DEF OpToRel
  <2>5. IsWellFoundedOn({ss \in Nat \X Nat : ss[1] < ss[2]}, Nat)
    BY <2>4, NatLessThanWellFounded
  <2>6. PICK n \in J : \A m \in J : <<m, n>> \notin {ss \in Nat \X Nat : ss[1] < ss[2]}
    BY <2>3, <2>5, WFMin
  <2>7. \A m \in J : n <= m
    <3> TAKE m \in J
    <3>1. n \in Nat /\ m \in Nat
      BY <2>3
    <3>2. <<m, n>> \in Nat \X Nat => ~(<<m, n>>[1] < <<m, n>>[2])
      BY <2>6
    <3> QED
      BY <3>1, <3>2
  <2>8. PICK k \in DOMAIN q : q[k] = x /\ n = Len(q) - k
    BY <2>2, <2>6
  <2>9. \A j \in DOMAIN q : q[j] = x => j <= k
    <3> SUFFICES ASSUME NEW j \in DOMAIN q, q[j] = x PROVE j <= k
      OBVIOUS
    <3>1. Len(q) - j \in J
      BY <2>1, <2>2
    <3>2. Len(q) - k <= Len(q) - j
      BY <2>7, <2>8, <3>1
    <3> QED
      BY <2>1, <3>2
  <2>10. PICK l \in DOMAIN q : /\ l = (CHOOSE i \in DOMAIN q :
                                         q[i] = x /\ \A j \in DOMAIN q : q[j] = x => j <= i)
                               /\ q[l] = x
    BY <2>8, <2>9
  <2>11. Without(q, x) = SubSeq(q, 1, l - 1) \o SubSeq(q, l + 1, Len(q))
    BY <1>2, <2>10 DEF Without, RemoveAt
  <2>12. PICK a, b \in Seq(Sockets) :
            /\ a = SubSeq(q, 1, l - 1) /\ b = SubSeq(q, l + 1, Len(q))
            /\ Len(a) = l - 1 /\ Len(b) = Len(q) - l
            /\ \A i \in 1 .. (l - 1) : a[i] = q[i]
            /\ \A i \in 1 .. (Len(q) - l) : b[i] = q[l + i]
    <3>1. l \in 1 .. Len(q)
      BY <2>1
    <3>2. /\ SubSeq(q, 1, l - 1) \in Seq(Sockets) /\ Len(SubSeq(q, 1, l - 1)) = l - 1
          /\ \A i \in 1 .. (l - 1) : SubSeq(q, 1, l - 1)[i] = q[i]
      BY <3>1
    <3>3. /\ SubSeq(q, l + 1, Len(q)) \in Seq(Sockets)
          /\ Len(SubSeq(q, l + 1, Len(q))) = Len(q) - l
          /\ \A i \in 1 .. (Len(q) - l) : SubSeq(q, l + 1, Len(q))[i] = q[l + i]
      BY <3>1
    <3>4. QED
      BY <3>2, <3>3
  <2>13. /\ a \o b \in Seq(Sockets) /\ DOMAIN (a \o b) = 1 .. (Len(a) + Len(b))
         /\ \A i \in 1 .. (Len(a) + Len(b)) :
               (a \o b)[i] = IF i <= Len(a) THEN a[i] ELSE b[i - Len(a)]
    BY ConcatProperties
  <2>14. ASSUME NEW i \in DOMAIN q, q[i] # x PROVE \E j \in DOMAIN (a \o b) : (a \o b)[j] = q[i]
    <3>1. i \in 1 .. Len(q) /\ i # l /\ l \in 1 .. Len(q)
      BY <2>1, <2>10, <2>14
    <3>2. CASE i < l
      <4>1. i \in 1 .. (l - 1) /\ i \in 1 .. (Len(a) + Len(b)) /\ i <= Len(a)
        <5>1. Len(a) = l - 1 /\ Len(b) = Len(q) - l
          BY <2>12
        <5>2. i \in Nat /\ l \in Nat /\ i >= 1 /\ l <= Len(q) /\ Len(q) \in Nat
          BY <2>1, <3>1
        <5>3. QED
          BY <3>2, <5>1, <5>2
      <4>2. QED
        BY <2>12, <2>13, <4>1
    <3>3. CASE i > l
      <4>1. /\ i - 1 \in 1 .. (Len(a) + Len(b)) /\ ~(i - 1 <= Len(a))
            /\ (i - 1) - Len(a) \in 1 .. (Len(q) - l) /\ l + ((i - 1) - Len(a)) = i
        <5>1. Len(a) = l - 1 /\ Len(b) = Len(q) - l
          BY <2>12
        <5>2. i \in Nat /\ l \in Nat /\ i <= Len(q) /\ l >= 1 /\ l <= Len(q)
          BY <2>1, <3>1
        <5>3. Len(a) + Len(b) = Len(q) - 1 /\ (i - 1) - Len(a) = i - l
          BY <2>1, <5>1, <5>2
        <5>4. i - 1 \in 1 .. (Len(q) - 1) /\ i - l \in 1 .. (Len(q) - l) /\ l + (i - l) = i
          BY <2>1, <3>3, <5>2
        <5>5. ~(i - 1 <= Len(a))
          BY <3>3, <5>1, <5>2
        <5>6. QED
          BY <5>3, <5>4, <5>5
      <4>2. (a \o b)[i - 1] = q[i]
        BY <2>12, <2>13, <4>1
      <4>3. QED
        BY <2>13, <4>1, <4>2
    <3>4. QED
      BY <3>1, <3>2, <3>3
  <2>15. ASSUME NEW j \in DOMAIN (a \o b) PROVE \E i \in DOMAIN q : q[i] = (a \o b)[j]
    <3>1. j \in 1 .. (Len(a) + Len(b)) /\ Len(a) \in Nat /\ Len(b) \in Nat /\ l \in 1 .. Len(q)
      <4>1. Len(a) \in Nat /\ Len(b) \in Nat
        OBVIOUS
      <4>2. j \in 1 .. (Len(a) + Len(b))
        BY <2>13
      <4>3. QED
        BY <2>1, <4>1, <4>2
    <3>2. CASE j <= Len(a)
      <4>1. j \in 1 .. (l - 1) /\ j \in 1 .. Len(q)
        <5>1. Len(a) = l - 1
          BY <2>12
        <5>2. QED
          BY <2>1, <3>1, <3>2, <5>1
      <4>2. QED
        BY <2>1, <2>12, <2>13, <3>1, <3>2, <4>1
    <3>3. CASE ~(j <= Len(a))
      <4>1. j - Len(a) \in 1 .. Len(b)
        BY <3>1, <3>3
      <4>2. PICK n1 : n1 = j - Len(a) /\ n1 \in 1 .. (Len(q) - l)
        BY <2>12, <4>1
      <4>3. l + n1 \in 1 .. Len(q)
        BY <2>1, <3>1, <4>2
      <4>4. (a \o b)[j] = b[n1] /\ b[n1] = q[l + n1]
        BY <2>12, <2>13, <3>1, <3>3, <4>2
      <4>5. QED
        BY <2>1, <4>3, <4>4
    <3>4. QED
      BY <3>2, <3>3
  <2>16. Without(q, x) = a \o b
    BY <2>11, <2>12
  <2>17. QED
    BY <2>13, <2>14, <2>15, <2>16
<1>3. QED
  BY <1>1, <1>2

\* The socket leaves the queue.
LEMMA DequeueTyped ==
    ASSUME Typed, NEW t \in Tasks, Dequeue(t)
    PROVE  Typed'
<1>1. PICK x \in Sockets : x = task[t].sock
  BY DEF Dequeue, Typed, JobsOK, Briefed
<1>2. /\ queue' = (IF x \in indexed THEN Without(queue, x) ELSE queue)
      /\ indexed' = indexed \ {x} /\ task[t].kind = "dequeue" /\ task \in [Tasks -> Job]
  BY <1>1 DEF Dequeue, Typed, JobsOK
<1>3. queue' \in Seq(Sockets)
  BY <1>2, WithoutKeeps DEF Typed, GatewayOK
<1>4. JobsOK'
  <2>1. CASE HasCall(x)
    <3>1. PICK h : h = [task[t] EXCEPT !.kind = "hangup"]
      OBVIOUS
    <3>2. h \in Job /\ h.kind = "hangup" /\ h.sock = x
      BY <1>1, <1>2, <3>1 DEF Job
    <3>3. task' = [task EXCEPT ![t] = h] /\ made' = made
      BY <1>1, <2>1, <3>1 DEF Dequeue
    <3>4. Briefed(h)
      BY <3>2 DEF Briefed
    <3>5. QED
      BY <1>2, <3>2, <3>3, <3>4, JobTyped DEF Typed
  <2>2. CASE ~HasCall(x)
    <3>1. task' = [task EXCEPT ![t] = IdleTask] /\ made' = made
      BY <1>1, <2>2 DEF Dequeue, Done
    <3>2. QED
      BY <1>2, <3>1, IdleJob, JobTyped DEF Typed
  <2>3. QED
    BY <2>1, <2>2
<1>5. GatewayOK'
  BY <1>2, <1>3 DEF Dequeue, Typed, GatewayOK
<1>6. PagesOK' /\ NetOK' /\ stranded' \in SUBSET Clients
  BY DEF Dequeue, client, Typed, PagesOK, NetOK
<1>7. QED
  BY <1>4, <1>5, <1>6 DEF Typed

\* call:ended is a message.
LEMMA EndedTyped ==
    ASSUME NEW k \in Calls
    PROVE  Ended(k) \in Message
  BY DEF Ended, Message

\* handleDisconnect tells the room.
LEMMA HangUpTyped ==
    ASSUME Typed, NEW t \in Tasks, HangUp(t)
    PROVE  Typed'
<1>1. task[t].sock \in Sockets
  BY DEF HangUp, Typed, JobsOK, Briefed
<1>2. PICK k \in Calls \cup {None} : k = meta[task[t].sock]
  BY <1>1 DEF Typed, GatewayOK
<1>3. inbox' \in [Clients -> Seq(Message)]
  <2>1. CASE k = None
    BY <1>2, <2>1 DEF HangUp, Typed, NetOK
  <2>2. CASE k \in Calls
    BY <1>2, <2>2, EndedTyped, EmitTyped, CallNumbers DEF HangUp, Typed
  <2>3. QED
    BY <2>1, <2>2
<1>4. JobsOK'
  <2>1. task' = [task EXCEPT ![t] = IdleTask] /\ made' = made /\ task[t].kind # "pair"
    BY DEF HangUp, Done
  <2>2. QED
    BY <2>1, IdleJob, JobTyped DEF Typed
<1>5. PagesOK' /\ NetOK' /\ GatewayOK' /\ stranded' \in SUBSET Clients
  BY <1>3 DEF HangUp, client, Typed, PagesOK, NetOK, GatewayOK
<1>6. QED
  BY <1>4, <1>5 DEF Typed

\* The partners of a forgotten call are clients.
LEMMA ForgottenTyped ==
    ASSUME Typed, NEW x \in Sockets
    PROVE  Forgotten(x) \in SUBSET Clients
<1>1. meta[x] \in Calls \cup {None}
  BY DEF Typed, GatewayOK
<1>2. QED
  BY <1>1, MembersTyped DEF Forgotten, Typed

\* The rest of onCallEnd.
LEMMA FinishEndTyped ==
    ASSUME Typed, NEW t \in Tasks, FinishEnd(t)
    PROVE  Typed'
<1>1. PICK x \in Sockets, k \in Calls : x = task[t].sock /\ k = task[t].call
  BY DEF FinishEnd, Typed, JobsOK, Briefed
<1>2. /\ inbox' = Emit(room[k], Ended(k)) /\ room' = [room EXCEPT ![k] = @ \ {x}]
      /\ meta' = [meta EXCEPT ![x] = None]
      /\ stranded' = (IF meta[x] = k THEN stranded ELSE stranded \cup Forgotten(x))
  BY <1>1 DEF FinishEnd
<1>3. inbox' \in [Clients -> Seq(Message)]
  BY <1>2, EndedTyped, EmitTyped DEF Typed
<1>4. room' \in [Calls -> SUBSET Sockets] /\ meta' \in [Sockets -> Calls \cup {None}]
  BY <1>2 DEF Typed, GatewayOK
<1>5. stranded' \in SUBSET Clients
  BY <1>2, ForgottenTyped DEF Typed
<1>6. JobsOK'
  <2>1. task' = [task EXCEPT ![t] = IdleTask] /\ made' = made /\ task[t].kind # "pair"
    BY DEF FinishEnd, Done
  <2>2. QED
    BY <2>1, IdleJob, JobTyped DEF Typed
<1>7. PagesOK' /\ NetOK' /\ GatewayOK'
  BY <1>3, <1>4 DEF FinishEnd, client, Typed, PagesOK, NetOK, GatewayOK
<1>8. QED
  BY <1>5, <1>6, <1>7 DEF Typed

\* The first two of a queue, and what is left of it.
LEMMA FirstTwo ==
    ASSUME NEW q \in Seq(Sockets), Len(q) >= 2
    PROVE  /\ q[1] \in Sockets /\ q[2] \in Sockets /\ Tail(Tail(q)) \in Seq(Sockets)
           /\ \A i \in DOMAIN q : \/ q[i] \in {q[1], q[2]}
                                  \/ \E j \in DOMAIN Tail(Tail(q)) : Tail(Tail(q))[j] = q[i]
           /\ \A j \in DOMAIN Tail(Tail(q)) : \E i \in DOMAIN q : q[i] = Tail(Tail(q))[j]
<1>1. /\ Tail(q) \in Seq(Sockets) /\ Len(Tail(q)) = Len(q) - 1 /\ Len(q) \in Nat
      /\ DOMAIN q = 1 .. Len(q) /\ \A i \in 1 .. (Len(q) - 1) : Tail(q)[i] = q[i + 1]
  OBVIOUS
<1>2. Tail(q) # <<>>
  <2>1. Len(Tail(q)) # 0 /\ Len(<<>>) = 0
    BY <1>1
  <2>2. QED
    BY <2>1, Zenon
<1>3. /\ Tail(Tail(q)) \in Seq(Sockets) /\ DOMAIN Tail(Tail(q)) = 1 .. (Len(q) - 2)
      /\ \A i \in 1 .. (Len(q) - 2) : Tail(Tail(q))[i] = q[i + 2]
  <2>1. PICK r \in Seq(Sockets) : r = Tail(q)
    BY <1>1
  <2>2. /\ Tail(r) \in Seq(Sockets) /\ DOMAIN Tail(r) = 1 .. (Len(r) - 1)
        /\ \A i \in 1 .. (Len(r) - 1) : Tail(r)[i] = r[i + 1]
    BY <1>2, <2>1
  <2>3. QED
    BY <1>1, <2>1, <2>2
<1>4. ASSUME NEW i \in DOMAIN q
      PROVE  q[i] \in {q[1], q[2]} \/ \E j \in DOMAIN Tail(Tail(q)) : Tail(Tail(q))[j] = q[i]
  <2>1. CASE i = 1 \/ i = 2
    BY <2>1
  <2>2. CASE i > 2
    <3>1. i - 2 \in 1 .. (Len(q) - 2) /\ (i - 2) + 2 = i
      BY <1>1, <2>2
    <3>2. QED
      BY <1>3, <3>1
  <2>3. QED
    BY <1>1, <2>1, <2>2
<1>5. q[1] \in Sockets /\ q[2] \in Sockets
  BY <1>1
<1>6. ASSUME NEW j \in DOMAIN Tail(Tail(q)) PROVE \E i \in DOMAIN q : q[i] = Tail(Tail(q))[j]
  <2>1. j \in 1 .. (Len(q) - 2) /\ j + 2 \in 1 .. Len(q)
    BY <1>1, <1>3
  <2>2. QED
    BY <1>1, <1>3, <2>1
<1>7. QED
  BY <1>3, <1>4, <1>5, <1>6

\* tryMatch starts a pairing.
LEMMA TryMatchTyped ==
    ASSUME Typed, NEW t \in Tasks, TryMatch(t)
    PROVE  Typed'
<1>1. queue[1] \in Sockets /\ queue[2] \in Sockets /\ Tail(Tail(queue)) \in Seq(Sockets)
  BY FirstTwo DEF TryMatch, Typed, GatewayOK
<1>2. PICK h : h = [kind |-> "pair", sock |-> queue[1], peer |-> queue[2], call |-> None]
  OBVIOUS
<1>3. h \in Job /\ Briefed(h) /\ h.kind = "pair"
  BY <1>1, <1>2 DEF Job, Briefed
<1>4. /\ task \in [Tasks -> Job] /\ task[t] = IdleTask /\ task' = [task EXCEPT ![t] = h]
      /\ made' = made /\ made + Cardinality(Pairing) < MaxCalls
  BY <1>2 DEF TryMatch, Begin, Typed, JobsOK, Pairing
<1>5. Pairing' = Pairing \cup {t} /\ t \notin Pairing
  BY <1>3, <1>4, IdleJob DEF Pairing
<1>6. Cardinality(Pairing') = Cardinality(Pairing) + 1
  BY <1>5, PairingFinite, FS_AddElement
<1>7. made + Cardinality(Pairing') <= MaxCalls
  BY <1>4, <1>6, PairingFinite, BoundsNat DEF Typed, JobsOK
<1>8. JobsOK'
  BY <1>3, <1>4, <1>7 DEF Typed, JobsOK
<1>9. GatewayOK'
  BY <1>1 DEF TryMatch, Typed, GatewayOK
<1>10. PagesOK' /\ NetOK' /\ stranded' \in SUBSET Clients
  BY DEF TryMatch, client, Typed, PagesOK, NetOK
<1>11. QED
  BY <1>8, <1>9, <1>10 DEF Typed

\* match:found is one message, to the page whose socket is the one addressed.
LEMMA FoundShape ==
    ASSUME NEW c \in Clients, NEW s, NEW k \in Calls, NEW i \in BOOLEAN
    PROVE  /\ Found(c, s, k, i) \in Seq(Message)
           /\ page[c].open /\ Sock(c) = s =>
                 Len(Found(c, s, k, i)) = 1 /\ Found(c, s, k, i)[1].type = "found"
<1>1. PICK m : m = [type |-> "found", callId |-> k, isInitiator |-> i]
  OBVIOUS
<1>2. m \in Message /\ m.type = "found"
  BY <1>1 DEF Message
<1>3. /\ <<m>> \in Seq(Message) /\ <<>> \in Seq(Message)
      /\ Len(<<m>>) = 1 /\ <<m>>[1] = m
  BY <1>2
<1>4. CASE page[c].open /\ Sock(c) = s
  <2>1. Found(c, s, k, i) = <<m>>
    BY <1>1, <1>4, Zenon DEF Found
  <2>2. QED
    BY <1>2, <1>3, <2>1
<1>5. CASE ~(page[c].open /\ Sock(c) = s)
  <2>1. Found(c, s, k, i) = <<>>
    BY <1>5, Zenon DEF Found
  <2>2. QED
    BY <1>3, <1>5, <2>1
<1>6. QED
  BY <1>4, <1>5

\* A pairing under way leaves a number for its call.
LEMMA CallNumbered ==
    ASSUME Typed, NEW t \in Tasks, task[t].kind = "pair"
    PROVE  made + 1 \in Calls
<1>1. t \in Pairing
  BY DEF Pairing
<1>2. Cardinality(Pairing) # 0
  BY <1>1, PairingFinite, FS_EmptySet
<1>3. QED
  BY <1>2, PairingFinite, BoundsNat DEF Typed, JobsOK, Calls

\* A pairing makes the next call.
LEMMA AnnounceTyped ==
    ASSUME Typed, NEW t \in Tasks, Announce(t)
    PROVE  Typed'
<1>1. task[t].kind = "pair" /\ task[t].sock \in Sockets /\ task[t].peer \in Sockets
  BY DEF Announce, Typed, JobsOK, Briefed
<1>2. PICK a, b, k : /\ a \in Sockets /\ b \in Sockets
                     /\ a = task[t].sock /\ b = task[t].peer /\ k = made + 1
  BY <1>1
<1>3. k \in Calls
  BY <1>1, <1>2, CallNumbered
<1>4. /\ made' = k /\ room' = [room EXCEPT ![k] = {a, b} \cap up]
      /\ meta' = [x \in Sockets |-> IF x \in {a, b} /\ Registered(x) THEN k ELSE meta[x]]
      /\ inbox' = [c \in Clients |-> inbox[c] \o Found(c, a, k, TRUE) \o Found(c, b, k, FALSE)]
      /\ stranded' = stranded \cup Forgotten(a) \cup Forgotten(b) \cup
            IF a = b \/ ~Registered(a) \/ ~Registered(b) THEN {a[1], b[1]} ELSE {}
      /\ Done(t)
  BY <1>2 DEF Announce
<1>5. inbox' \in [Clients -> Seq(Message)]
  <2>2. \A c \in Clients : Found(c, a, k, TRUE) \in Seq(Message)
    BY <1>3, FoundShape
  <2>3. \A c \in Clients : Found(c, b, k, FALSE) \in Seq(Message)
    BY <1>3, FoundShape
  <2>4. \A c \in Clients : inbox[c] \in Seq(Message)
    BY DEF Typed, NetOK
  <2>5. \A c \in Clients : inbox[c] \o Found(c, a, k, TRUE) \in Seq(Message)
    BY <2>2, <2>4, ConcatProperties
  <2>6. \A c \in Clients :
           (inbox[c] \o Found(c, a, k, TRUE)) \o Found(c, b, k, FALSE) \in Seq(Message)
    BY <2>3, <2>5, ConcatProperties
  <2>7. QED
    BY <1>4, <2>6
<1>6. stranded' \in SUBSET Clients
  <2>1. a[1] \in Clients /\ b[1] \in Clients
    BY <1>2 DEF Sockets
  <2>2. Forgotten(a) \in SUBSET Clients /\ Forgotten(b) \in SUBSET Clients
    BY <1>2, ForgottenTyped
  <2>3. QED
    BY <1>4, <2>1, <2>2 DEF Typed
<1>7. GatewayOK'
  BY <1>3, <1>4 DEF Announce, Typed, GatewayOK
<1>8. JobsOK'
  BY <1>1, <1>2, <1>4, PairingEnds DEF Typed
<1>9. PagesOK' /\ NetOK'
  BY <1>5 DEF Announce, client, Typed, PagesOK, NetOK
<1>10. QED
  BY <1>6, <1>7, <1>8, <1>9 DEF Typed

\* The sockets a handler concerns.
LEMMA ConcernedTyped ==
    ASSUME Typed, NEW t \in Tasks
    PROVE  Concerned(t) \in SUBSET Sockets
<1>1. task[t] \in Job /\ Briefed(task[t]) /\ GatewayOK
  BY DEF Typed, JobsOK
<1>2. CASE task[t].kind = "pair"
  BY <1>1, <1>2 DEF Concerned, Briefed
<1>3. CASE task[t].kind = "end"
  BY <1>1, <1>3 DEF Concerned, Briefed, GatewayOK
<1>4. CASE task[t].kind = "hangup" /\ meta[task[t].sock] # None
  <2>1. meta[task[t].sock] \in Calls
    BY <1>1, <1>4 DEF Briefed, GatewayOK
  <2>2. QED
    BY <1>1, <1>4, <2>1 DEF Concerned, GatewayOK
<1>5. CASE /\ task[t].kind # "pair" /\ task[t].kind # "end"
           /\ ~(task[t].kind = "hangup" /\ meta[task[t].sock] # None)
  BY <1>5 DEF Concerned
<1>6. QED
  BY <1>2, <1>3, <1>4, <1>5

\* A statement fails.
LEMMA HandlerFailsTyped ==
    ASSUME Typed, NEW t \in Tasks, HandlerFails(t)
    PROVE  Typed'
<1>1. stranded' \in SUBSET Clients
  <2>1. \A x \in Concerned(t) : x[1] \in Clients
    BY ConcernedTyped DEF Sockets
  <2>2. QED
    BY <2>1 DEF HandlerFails, Typed
<1>2. JobsOK'
  <2>1. CASE task[t].kind = "pair"
    BY <2>1, PairingEnds DEF HandlerFails, Typed
  <2>2. CASE task[t].kind # "pair"
    BY <2>2, IdleJob, JobTyped DEF HandlerFails, Done, Typed
  <2>3. QED
    BY <2>1, <2>2
<1>3. faults' \in 0 .. MaxFaults /\ faults' = faults + 1 /\ faults \in Nat
  BY BoundsNat DEF HandlerFails, Typed, NetOK
<1>4. NetOK'
  BY <1>3 DEF HandlerFails, Typed, NetOK
<1>5. PagesOK' /\ GatewayOK'
  BY DEF HandlerFails, client, Typed, PagesOK, GatewayOK
<1>6. QED
  BY <1>1, <1>2, <1>4, <1>5 DEF Typed

\* Every step keeps the types.
LEMMA NextTyped ==
    ASSUME Typed, [Next]_vars
    PROVE  Typed'
<1>1. ASSUME NEW c \in Clients, Page(c) PROVE Typed'
  BY <1>1, ReconnectTyped, GrantedTyped, RenderTyped, NegotiationNeededTyped, SendOfferTyped,
     SendAnswerTyped, OnMatchFoundTyped, OnCallEndedTyped, UnheardTyped, OnOfferTyped,
     OnAnswerTyped, CloseTabTyped DEF Page, Busy
<1>2. ASSUME NEW t \in Tasks, NEW c \in Clients, IceFails(t, c) \/ Leave(t, c) PROVE Typed'
  BY <1>2, IceFailsTyped, LeaveTyped
<1>3. ASSUME NEW t \in Tasks, NEW x \in Sockets, HandleDisconnect(t, x) PROVE Typed'
  BY <1>3, HandleDisconnectTyped
<1>4. ASSUME NEW t \in Tasks, Handler(t) PROVE Typed'
  BY <1>4, DequeueTyped, HangUpTyped, FinishEndTyped, TryMatchTyped, AnnounceTyped,
     HandlerFailsTyped DEF Handler
<1>5. CASE UNCHANGED vars
  BY <1>5 DEF vars, server, Typed, PagesOK, NetOK, GatewayOK, JobsOK, Pairing
<1>6. QED
  BY <1>1, <1>2, <1>3, <1>4, <1>5 DEF Next

LEMMA InitTyped == Init => Typed
<1> SUFFICES ASSUME Init PROVE Typed
  OBVIOUS
<1>1. PagesOK
  <2>1. NewPage \in PageState
    BY DEF NewPage, PageState
  <2>2. NewHook \in Hook /\ Heard(NewHook)
    BY DEF NewHook, Hook, Heard
  <2>3. QED
    BY <2>1, <2>2 DEF Init, PagesOK
<1>2. NetOK
  BY BoundsNat DEF Init, NetOK
<1>3. GatewayOK
  <2>1. 1 \in 1 .. MaxFaults + 1
    BY BoundsNat
  <2>2. up \in SUBSET Sockets
    BY <2>1 DEF Init, Sockets
  <2>3. QED
    BY <2>2 DEF Init, GatewayOK
<1>4. JobsOK
  <2>1. Pairing = {}
    BY IdleJob DEF Init, Pairing
  <2>2. Cardinality(Pairing) = 0
    BY <2>1, FS_EmptySet
  <2>3. QED
    BY <2>2, IdleJob, BoundsNat DEF Init, JobsOK
<1>5. QED
  BY <1>1, <1>2, <1>3, <1>4 DEF Typed, Init

(* Pages, hooks, inboxes and the gateway's maps keep their types: no call is made    *)
(* beyond the last, no handler lacks a socket or call it uses, and an answer always  *)
(* has a room to go to.                                                              *)
THEOREM ChatTypeCorrect == Spec => []TypeOK
<1>1. Spec => []Typed
  BY InitTyped, NextTyped, PTL DEF Spec
<1>2. Typed => TypeOK
  BY TypedOK
<1>3. QED
  BY <1>1, <1>2, PTL

----------------------------------------------------------------------------
(* A page that searches keeps its place.                                   *)

\* The gateway knows no socket that is still to come.
Past == \A s \in up : s[2] <= conns[s[1]]

\* A socket that is being dequeued is no page's any more, and never will be.
Departed ==
    \A t \in Tasks : task[t].kind = "dequeue" =>
        LET s == task[t].sock
        IN  s[2] <= conns[s[1]] /\ ~(page[s[1]].open /\ conns[s[1]] = s[2])

\* The three places in which a page that searches is looked after.
InQueue(s) == \E i \in DOMAIN queue : queue[i] = s

BeingPaired(s) == \E t \in Tasks : task[t].kind = "pair" /\ s \in {task[t].sock, task[t].peer}

FoundComing(c) == \E i \in DOMAIN inbox[c] : inbox[c][i].type = "found"

Served(c) == InQueue(Sock(c)) \/ BeingPaired(Sock(c)) \/ FoundComing(c)

Waits(c) == page[c].open /\ page[c].matchState = "queue" /\ page[c].queued

AllServed == \A c \in Clients \ stranded : Waits(c) => Served(c)

ServedInv == Typed /\ Past /\ Departed /\ AllServed

\* All steps but two make no socket, close pages only and start no dequeue.
LEMMA Keeps ==
    ASSUME ServedInv, Typed', conns' = conns, up' \subseteq up, stranded \subseteq stranded',
           \A c \in Clients : page'[c].open => page[c].open,
           \A t \in Tasks : task'[t].kind = "dequeue" => task'[t] = task[t],
           \A c \in Clients \ stranded' :
              Waits(c)' => Served(c)' \/ (Waits(c) /\ (Served(c) => Served(c)'))
    PROVE  ServedInv'
<1>1. Typed /\ Past /\ Departed /\ AllServed
  BY DEF ServedInv
<1>2. Past'
  BY <1>1 DEF Past
<1>3. ASSUME NEW t \in Tasks, task'[t].kind = "dequeue"
      PROVE  LET x == task'[t].sock
             IN  x[2] <= conns'[x[1]] /\ ~(page'[x[1]].open /\ conns'[x[1]] = x[2])
  <2>1. task'[t] = task[t] /\ task[t].kind = "dequeue"
    BY <1>3
  <2>2. PICK x \in Sockets : x = task[t].sock
    BY <1>1, <2>1 DEF Typed, JobsOK, Briefed
  <2>3. x[1] \in Clients /\ x[2] <= conns[x[1]] /\ ~(page[x[1]].open /\ conns[x[1]] = x[2])
    BY <1>1, <2>1, <2>2 DEF Departed, Sockets
  <2>4. QED
    BY <2>1, <2>2, <2>3
<1>4. Departed'
  BY <1>3 DEF Departed
<1>5. ASSUME NEW c \in Clients \ stranded', Waits(c)' PROVE Served(c)'
  BY <1>1, <1>5 DEF AllServed
<1>6. AllServed'
  BY <1>5 DEF AllServed
<1>7. QED
  BY <1>2, <1>4, <1>6 DEF ServedInv

\* Pairings stay when another handler starts, goes on or ends.
LEMMA PairingsStay ==
    ASSUME JobsOK, NEW t \in Tasks, NEW h, task' = [task EXCEPT ![t] = h], task[t].kind # "pair"
    PROVE  /\ \A x : BeingPaired(x) => BeingPaired(x)'
           /\ h.kind # "dequeue" =>
                 \A u \in Tasks : task'[u].kind = "dequeue" => task'[u] = task[u]
<1>1. task \in [Tasks -> Job]
  BY DEF JobsOK
<1>2. \A u \in Tasks : task'[u] = IF u = t THEN h ELSE task[u]
  BY <1>1
<1>3. ASSUME NEW x, BeingPaired(x) PROVE BeingPaired(x)'
  <2>1. PICK u \in Tasks : task[u].kind = "pair" /\ x \in {task[u].sock, task[u].peer}
    BY <1>3 DEF BeingPaired
  <2>2. u # t /\ task'[u] = task[u]
    BY <1>2, <2>1
  <2>3. QED
    BY <2>1, <2>2 DEF BeingPaired
<1>4. QED
  BY <1>2, <1>3

\* What is emitted comes behind what is in an inbox.
LEMMA EmitKeeps ==
    ASSUME NetOK, NEW R, NEW m \in Message, inbox' = Emit(R, m), NEW c \in Clients, FoundComing(c)
    PROVE  FoundComing(c)'
<1>1. PICK i \in DOMAIN inbox[c] : inbox[c][i].type = "found"
  BY DEF FoundComing
<1>2. inbox[c] \in Seq(Message)
  BY DEF NetOK
<1>3. inbox'[c] = inbox[c] \/ inbox'[c] = Append(inbox[c], m)
  BY DEF Emit
<1>4. i \in DOMAIN inbox'[c] /\ inbox'[c][i] = inbox[c][i]
  <2>1. CASE inbox'[c] = inbox[c]
    BY <2>1
  <2>2. CASE inbox'[c] = Append(inbox[c], m)
    BY <1>2, <2>2
  <2>3. QED
    BY <1>3, <2>1, <2>2
<1>5. QED
  BY <1>1, <1>4 DEF FoundComing

\* An event other than match:found is handled.
LEMMA ConsumeKeeps ==
    ASSUME NetOK, NEW c \in Clients, NEW type, Arrives(c, type), Consume(c), type # "found",
           NEW d \in Clients, FoundComing(d)
    PROVE  FoundComing(d)'
<1>1. PICK i \in DOMAIN inbox[d] : inbox[d][i].type = "found"
  BY DEF FoundComing
<1>2. CASE d # c
  BY <1>1, <1>2 DEF NetOK, Consume, FoundComing
<1>3. CASE d = c
  <2>1. PICK q \in Seq(Message) : q = inbox[c] /\ q # <<>>
    BY DEF NetOK, Arrives
  <2>2. /\ DOMAIN q = 1 .. Len(q) /\ DOMAIN Tail(q) = 1 .. (Len(q) - 1) /\ Len(q) \in Nat
        /\ \A j \in 1 .. (Len(q) - 1) : Tail(q)[j] = q[j + 1]
        /\ Head(q) = q[1]
    BY <2>1
  <2>3. q[1].type # "found"
    BY <2>1, <2>2 DEF Arrives
  <2>4. i \in 1 .. Len(q) /\ i # 1
    BY <1>1, <1>3, <2>1, <2>2, <2>3
  <2>5. i - 1 \in 1 .. (Len(q) - 1) /\ (i - 1) + 1 = i
    BY <2>2, <2>4
  <2>6. Tail(q)[i - 1] = q[i]
    BY <2>2, <2>5
  <2>7. inbox'[c] = Tail(q)
    BY <2>1 DEF NetOK, Consume
  <2>8. QED
    BY <1>1, <1>3, <2>1, <2>2, <2>5, <2>6, <2>7 DEF FoundComing
<1>4. QED
  BY <1>2, <1>3

\* A push keeps the entries and adds one.
LEMMA EnqueueKeeps ==
    ASSUME Typed, NEW x \in Sockets, Enqueue(x)
    PROVE  InQueue(x)' /\ \A y : InQueue(y) => InQueue(y)'
<1>1. queue \in Seq(Sockets) /\ queue' = Append(queue, x)
  BY DEF Typed, GatewayOK, Enqueue
<1>2. /\ DOMAIN queue = 1 .. Len(queue) /\ DOMAIN queue' = 1 .. (Len(queue) + 1)
      /\ Len(queue) \in Nat /\ queue'[Len(queue) + 1] = x
      /\ \A i \in 1 .. Len(queue) : queue'[i] = queue[i]
  BY <1>1
<1>3. Len(queue) + 1 \in DOMAIN queue' /\ \A i \in 1 .. Len(queue) : i \in DOMAIN queue'
  BY <1>2
<1>4. QED
  BY <1>2, <1>3 DEF InQueue

\* Steps that leave page, list and handlers alone and no found event out.
LEMMA QuietServed ==
    ASSUME ServedInv, Typed', UNCHANGED <<page, conns, up, queue, task>>,
           stranded \subseteq stranded',
           \A c \in Clients : FoundComing(c) => FoundComing(c)'
    PROVE  ServedInv'
<1>1. \A c \in Clients : Waits(c)' => Waits(c) /\ (Served(c) => Served(c)')
  BY DEF Waits, Served, InQueue, BeingPaired, Sock
<1>2. QED
  BY <1>1, Keeps

LEMMA GrantedServed ==
    ASSUME ServedInv, Typed', NEW c \in Clients, Granted(c) \/ NegotiationNeeded(c)
    PROVE  ServedInv'
<1>1. UNCHANGED <<page, conns, up, queue, task, inbox, stranded>>
  BY DEF Granted, NegotiationNeeded, server
<1>2. \A d \in Clients : FoundComing(d) => FoundComing(d)'
  BY <1>1 DEF FoundComing
<1>3. QED
  BY <1>1, <1>2, QuietServed

LEMMA SendServed ==
    ASSUME ServedInv, Typed', NEW c \in Clients, SendOffer(c) \/ SendAnswer(c)
    PROVE  ServedInv'
<1>1. UNCHANGED <<page, conns, up, queue, task, stranded>>
  BY DEF SendOffer, SendAnswer, server
<1>2. PICK k \in Calls, type \in {"offer", "answer"} : inbox' = Relay(c, type, k)
  <2>1. CASE SendOffer(c)
    <3>1. rtc[c].pc \in Peer
      BY <2>1 DEF SendOffer, ServedInv, Typed, PagesOK, Hook
    <3>2. rtc[c].pc.callId \in Calls
      BY <3>1 DEF Peer
    <3>3. inbox' = Relay(c, "offer", rtc[c].pc.callId)
      BY <2>1 DEF SendOffer
    <3>4. QED
      BY <3>2, <3>3
  <2>2. CASE SendAnswer(c)
    <3>1. rtc[c].pc.via \in Calls
      BY <2>2 DEF SendAnswer, ServedInv, Typed, PagesOK, Heard
    <3>2. inbox' = Relay(c, "answer", rtc[c].pc.via)
      BY <2>2 DEF SendAnswer
    <3>3. QED
      BY <3>1, <3>2
  <2>3. QED
    BY <2>1, <2>2
<1>3. PICK m, R : m \in Message /\ inbox' = Emit(R, m)
  <2>1. [type |-> type, callId |-> k, isInitiator |-> FALSE] \in Message
    BY <1>2 DEF Message
  <2>2. QED
    BY <1>2, <2>1 DEF Relay
<1>4. \A d \in Clients : FoundComing(d) => FoundComing(d)'
  BY <1>3, EmitKeeps DEF ServedInv, Typed
<1>5. QED
  BY <1>1, <1>4, QuietServed

LEMMA HandledServed ==
    ASSUME ServedInv, Typed', NEW c \in Clients,
           EndedUnheard(c) \/ OnOffer(c) \/ OnAnswer(c) \/ SdpIgnored(c)
    PROVE  ServedInv'
<1>1. UNCHANGED <<page, conns, up, queue, task>> /\ stranded \subseteq stranded'
  BY DEF EndedUnheard, OnOffer, OnAnswer, SdpIgnored, client, server, Strands
<1>2. PICK type \in {"ended", "offer", "answer"} : Arrives(c, type) /\ Consume(c)
  BY DEF EndedUnheard, OnOffer, OnAnswer, SdpIgnored
<1>3. type # "found"
  OBVIOUS
<1>4. \A d \in Clients : FoundComing(d) => FoundComing(d)'
  BY <1>2, <1>3, ConsumeKeeps DEF ServedInv, Typed
<1>5. QED
  BY <1>1, <1>4, QuietServed

\* The render that joins pushes the page's entry.
LEMMA RenderServed ==
    ASSUME ServedInv, Typed', NEW c \in Clients, Render(c)
    PROVE  ServedInv'
<1>1. /\ UNCHANGED <<conns, up, task, inbox, stranded>> /\ Typed
      /\ page \in [Clients -> PageState] /\ page' = [page EXCEPT ![c].queued = @ \/ Joins(c)]
  BY DEF Render, ServedInv, Typed, PagesOK
<1>2. \A d \in Clients : /\ page'[d].open = page[d].open /\ page'[d].matchState = page[d].matchState
                         /\ d # c => page'[d] = page[d]
  BY <1>1 DEF PageState
<1>3. CASE Joins(c)
  <2>1. InQueue(Sock(c))' /\ \A y : InQueue(y) => InQueue(y)'
    BY <1>1, <1>3, OwnSocket, EnqueueKeeps DEF Render, Sock, Typed
  <2>2. \A d \in Clients : Served(d) => Served(d)'
    BY <1>1, <2>1 DEF Served, BeingPaired, FoundComing, Sock
  <2>3. Served(c)'
    BY <2>1 DEF Served
  <2>4. \A d \in Clients : Waits(d)' => Served(d)' \/ (Waits(d) /\ (Served(d) => Served(d)'))
    BY <1>2, <2>2, <2>3 DEF Waits
  <2>5. QED
    BY <1>1, <1>2, <2>4, Keeps
<1>4. CASE ~Joins(c)
  <2>1. queue' = queue
    BY <1>4 DEF Render
  <2>2. \A d \in Clients : Served(d) => Served(d)'
    BY <1>1, <2>1 DEF Served, InQueue, BeingPaired, FoundComing, Sock
  <2>3. page'[c].queued = page[c].queued
    BY <1>1, <1>4 DEF PageState
  <2>4. \A d \in Clients : Waits(d)' => Waits(d)
    BY <1>2, <2>3 DEF Waits
  <2>5. QED
    BY <1>1, <1>2, <2>2, <2>4, Keeps
<1>5. QED
  BY <1>3, <1>4

\* A page that takes its match no longer searches.
LEMMA OnMatchFoundServed ==
    ASSUME ServedInv, Typed', NEW c \in Clients, OnMatchFound(c)
    PROVE  ServedInv'
<1>1. /\ UNCHANGED <<conns, up, task, queue, stranded>> /\ page \in [Clients -> PageState]
      /\ inbox' = [inbox EXCEPT ![c] = Tail(@)]
      /\ page' = [page EXCEPT ![c].callId = Head(inbox[c]).callId,
                              ![c].isInitiator = Head(inbox[c]).isInitiator,
                              ![c].matchState = "matched"]
  BY DEF OnMatchFound, Consume, server, ServedInv, Typed, PagesOK
<1>2. /\ page'[c].matchState = "matched" /\ page'[c].open = page[c].open
      /\ \A d \in Clients \ {c} : page'[d] = page[d]
  BY <1>1 DEF PageState
<1>3. \A d \in Clients \ {c} : Served(d) => Served(d)'
  BY <1>1 DEF Served, InQueue, BeingPaired, FoundComing, Sock
<1>4. \A d \in Clients : Waits(d)' => d # c /\ Waits(d)
  BY <1>2 DEF Waits
<1>5. QED
  BY <1>1, <1>2, <1>3, <1>4, Keeps

\* A page whose call ended is pushed again.
LEMMA OnCallEndedServed ==
    ASSUME ServedInv, Typed', NEW c \in Clients, OnCallEnded(c)
    PROVE  ServedInv'
<1>1. /\ UNCHANGED <<conns, up, task>> /\ stranded \subseteq stranded' /\ Typed
      /\ page \in [Clients -> PageState] /\ Enqueue(Sock(c)) /\ Arrives(c, "ended") /\ Consume(c)
      /\ BackToQueue(c)
  BY DEF OnCallEnded, ServedInv, Typed, PagesOK
<1>2. page'[c].open = page[c].open /\ \A d \in Clients \ {c} : page'[d] = page[d]
  BY <1>1 DEF PageState, BackToQueue
<1>3. InQueue(Sock(c))' /\ \A y : InQueue(y) => InQueue(y)'
  BY <1>1, OwnSocket, EnqueueKeeps DEF Sock, Typed
<1>4. \A d \in Clients : FoundComing(d) => FoundComing(d)'
  BY <1>1, ConsumeKeeps DEF Typed
<1>5. Served(c)' /\ \A d \in Clients : Served(d) => Served(d)'
  BY <1>1, <1>3, <1>4 DEF Served, BeingPaired, Sock
<1>6. \A d \in Clients : Waits(d)' => Served(d)' \/ (Waits(d) /\ (Served(d) => Served(d)'))
  BY <1>2, <1>5 DEF Waits
<1>7. QED
  BY <1>1, <1>2, <1>6, Keeps

\* A page that closes no longer searches.
LEMMA UnmountServed ==
    ASSUME ServedInv, Typed', NEW c \in Clients, Unmount(c), UNCHANGED <<conns, up, queue, stranded>>,
           \A x : BeingPaired(x) => BeingPaired(x)',
           \A u \in Tasks : task'[u].kind = "dequeue" => task'[u] = task[u]
    PROVE  ServedInv'
<1>1. /\ page \in [Clients -> PageState] /\ page' = [page EXCEPT ![c].open = FALSE]
      /\ inbox' = [inbox EXCEPT ![c] = <<>>]
  BY DEF Unmount, ServedInv, Typed, PagesOK
<1>2. ~page'[c].open /\ \A d \in Clients \ {c} : page'[d] = page[d]
  BY <1>1 DEF PageState
<1>3. \A d \in Clients \ {c} : Served(d) => Served(d)'
  BY <1>1 DEF Served, InQueue, FoundComing, Sock
<1>4. \A d \in Clients : Waits(d)' => d # c /\ Waits(d)
  BY <1>2 DEF Waits
<1>5. QED
  BY <1>2, <1>3, <1>4, Keeps

LEMMA CloseTabServed ==
    ASSUME ServedInv, Typed', NEW c \in Clients, CloseTab(c)
    PROVE  ServedInv'
<1>1. Unmount(c) /\ UNCHANGED <<conns, up, queue, stranded, task>>
  BY DEF CloseTab, server
<1>2. \A x : BeingPaired(x) => BeingPaired(x)'
  BY <1>1 DEF BeingPaired
<1>3. QED
  BY <1>1, <1>2, UnmountServed

\* A call:end starts a handler that is no pairing and no dequeue.
LEMMA EndCallKeeps ==
    ASSUME JobsOK, NEW t \in Tasks, NEW c, NEW k, EndCall(t, c, k)
    PROVE  /\ \A x : BeingPaired(x) => BeingPaired(x)'
           /\ \A u \in Tasks : task'[u].kind = "dequeue" => task'[u] = task[u]
<1>1. PICK h : h = [kind |-> "end", sock |-> Sock(c), peer |-> None, call |-> k]
  OBVIOUS
<1>2. task' = [task EXCEPT ![t] = h] /\ task[t] = IdleTask
  BY <1>1 DEF EndCall, Begin
<1>3. h.kind # "dequeue" /\ task[t].kind # "pair"
  BY <1>1, <1>2, IdleJob
<1>4. QED
  BY <1>2, <1>3, PairingsStay

LEMMA LeaveServed ==
    ASSUME ServedInv, Typed', NEW t \in Tasks, NEW c \in Clients, Leave(t, c)
    PROVE  ServedInv'
<1>1. Unmount(c) /\ UNCHANGED <<conns, up, queue, stranded>>
  BY DEF Leave
<1>2. /\ \A x : BeingPaired(x) => BeingPaired(x)'
      /\ \A u \in Tasks : task'[u].kind = "dequeue" => task'[u] = task[u]
  <2>1. CASE page[c].callId = None
    BY <2>1 DEF Leave, BeingPaired
  <2>2. CASE page[c].callId # None
    BY <2>2, EndCallKeeps DEF Leave, ServedInv, Typed
  <2>3. QED
    BY <2>1, <2>2
<1>3. QED
  BY <1>1, <1>2, UnmountServed

\* Steps of handlers that leave the pages and the list alone.
LEMMA HandlerServed ==
    ASSUME ServedInv, Typed', UNCHANGED <<page, conns, queue>>, up' \subseteq up,
           stranded \subseteq stranded',
           \A x : BeingPaired(x) => BeingPaired(x)',
           \A u \in Tasks : task'[u].kind = "dequeue" => task'[u] = task[u],
           \A c \in Clients : FoundComing(c) => FoundComing(c)'
    PROVE  ServedInv'
<1>1. \A c \in Clients : Waits(c)' => Waits(c) /\ (Served(c) => Served(c)')
  BY DEF Waits, Served, InQueue, Sock
<1>2. QED
  BY <1>1, Keeps

LEMMA IceFailsServed ==
    ASSUME ServedInv, Typed', NEW t \in Tasks, NEW c \in Clients, IceFails(t, c)
    PROVE  ServedInv'
<1>1. UNCHANGED <<page, conns, queue, up, stranded, inbox>>
  BY DEF IceFails
<1>2. /\ \A x : BeingPaired(x) => BeingPaired(x)'
      /\ \A u \in Tasks : task'[u].kind = "dequeue" => task'[u] = task[u]
  BY EndCallKeeps DEF IceFails, ServedInv, Typed
<1>3. \A d \in Clients : FoundComing(d) => FoundComing(d)'
  BY <1>1 DEF FoundComing
<1>4. QED
  BY <1>1, <1>2, <1>3, HandlerServed

\* The handlers that tell a room.
LEMMA TellServed ==
    ASSUME ServedInv, Typed', NEW t \in Tasks, HangUp(t) \/ FinishEnd(t)
    PROVE  ServedInv'
<1>1. /\ UNCHANGED <<page, conns, queue, up>> /\ stranded \subseteq stranded' /\ Typed
      /\ task' = [task EXCEPT ![t] = IdleTask] /\ task[t].kind \in {"hangup", "end"}
  BY DEF HangUp, FinishEnd, Done, client, ServedInv
<1>2. /\ \A x : BeingPaired(x) => BeingPaired(x)'
      /\ \A u \in Tasks : task'[u].kind = "dequeue" => task'[u] = task[u]
  BY <1>1, IdleJob, PairingsStay DEF Typed
<1>3. inbox' = inbox \/ \E m \in Message : \E R : inbox' = Emit(R, m)
  <2>1. task[t].sock \in Sockets /\ GatewayOK
    BY <1>1 DEF Typed, JobsOK, Briefed
  <2>2. CASE HangUp(t)
    <3>1. meta[task[t].sock] \in Calls \cup {None}
      BY <2>1 DEF GatewayOK
    <3>2. CASE meta[task[t].sock] = None
      BY <2>2, <3>2 DEF HangUp
    <3>3. CASE meta[task[t].sock] # None
      <4>1. Ended(meta[task[t].sock]) \in Message
        BY <3>1, <3>3, EndedTyped
      <4>2. inbox' = Emit(room[meta[task[t].sock]], Ended(meta[task[t].sock]))
        BY <2>2, <3>3 DEF HangUp
      <4>3. QED
        BY <4>1, <4>2
    <3>4. QED
      BY <3>2, <3>3
  <2>3. CASE FinishEnd(t)
    <3>1. task[t].call \in Calls
      BY <1>1, <2>3 DEF FinishEnd, Typed, JobsOK, Briefed
    <3>2. Ended(task[t].call) \in Message
      BY <3>1, EndedTyped
    <3>3. inbox' = Emit(room[task[t].call], Ended(task[t].call))
      BY <2>3 DEF FinishEnd
    <3>4. QED
      BY <3>2, <3>3
  <2>4. QED
    BY <2>2, <2>3
<1>4. \A d \in Clients : FoundComing(d) => FoundComing(d)'
  BY <1>1, <1>3, EmitKeeps DEF FoundComing, Typed
<1>5. QED
  BY <1>1, <1>2, <1>4, HandlerServed

\* The LREM and HDEL of a departed socket cost no page its place.
LEMMA DequeueServed ==
    ASSUME ServedInv, Typed', NEW t \in Tasks, Dequeue(t)
    PROVE  ServedInv'
<1>1. /\ UNCHANGED <<page, conns, up, stranded, inbox>> /\ Typed /\ Departed
      /\ task[t].kind = "dequeue"
  BY DEF Dequeue, client, ServedInv
<1>2. PICK x \in Sockets : x = task[t].sock
  BY <1>1 DEF Typed, JobsOK, Briefed
<1>3. queue' = (IF x \in indexed THEN Without(queue, x) ELSE queue) /\ queue \in Seq(Sockets)
  BY <1>1, <1>2 DEF Dequeue, Typed, GatewayOK
<1>4. \A y : InQueue(y) /\ y # x => InQueue(y)'
  <2>1. CASE x \in indexed
    BY <1>3, <2>1, WithoutKeeps DEF InQueue
  <2>2. CASE x \notin indexed
    BY <1>3, <2>2 DEF InQueue
  <2>3. QED
    BY <2>1, <2>2
<1>5. \A c \in Clients : page[c].open => Sock(c) # x
  BY <1>1, <1>2, OwnSocket DEF Departed, Typed
<1>6. /\ \A y : BeingPaired(y) => BeingPaired(y)'
      /\ \A u \in Tasks : task'[u].kind = "dequeue" => task'[u] = task[u]
  <2>1. PICK h : task' = [task EXCEPT ![t] = h] /\ h.kind # "dequeue"
    <3>1. CASE HasCall(x)
      <4>1. task' = [task EXCEPT ![t] = [task[t] EXCEPT !.kind = "hangup"]]
        BY <1>2, <3>1 DEF Dequeue
      <4>2. [task[t] EXCEPT !.kind = "hangup"].kind = "hangup"
        BY <1>1 DEF Typed, JobsOK, Job
      <4>3. QED
        BY <4>1, <4>2
    <3>2. CASE ~HasCall(x)
      BY <1>2, <3>2, IdleJob DEF Dequeue, Done
    <3>3. QED
      BY <3>1, <3>2
  <2>2. QED
    BY <1>1, <2>1, PairingsStay DEF Typed
<1>7. \A c \in Clients : Waits(c)' => Waits(c) /\ (Served(c) => Served(c)')
  BY <1>1, <1>4, <1>5, <1>6 DEF Waits, Served, FoundComing, Sock
<1>8. QED
  BY <1>1, <1>6, <1>7, Keeps

\* The two that tryMatch pops are being paired.
LEMMA TryMatchServed ==
    ASSUME ServedInv, Typed', NEW t \in Tasks, TryMatch(t)
    PROVE  ServedInv'
<1>1. /\ UNCHANGED <<page, conns, up, stranded, inbox>> /\ Typed
      /\ queue \in Seq(Sockets) /\ Len(queue) >= 2 /\ queue' = Tail(Tail(queue))
  BY DEF TryMatch, client, ServedInv, Typed, GatewayOK
<1>2. PICK h : h = [kind |-> "pair", sock |-> queue[1], peer |-> queue[2], call |-> None]
  OBVIOUS
<1>3. task' = [task EXCEPT ![t] = h] /\ task[t] = IdleTask /\ task \in [Tasks -> Job]
  BY <1>1, <1>2 DEF TryMatch, Begin, Typed, JobsOK
<1>4. h.kind = "pair" /\ h.sock = queue[1] /\ h.peer = queue[2] /\ task'[t] = h
  BY <1>2, <1>3
<1>5. /\ \A y : BeingPaired(y) => BeingPaired(y)'
      /\ \A u \in Tasks : task'[u].kind = "dequeue" => task'[u] = task[u]
  BY <1>1, <1>3, <1>4, IdleJob, PairingsStay DEF Typed
<1>6. ASSUME NEW y, InQueue(y) PROVE InQueue(y)' \/ BeingPaired(y)'
  <2>1. PICK i \in DOMAIN queue : queue[i] = y
    BY <1>6 DEF InQueue
  <2>2. y \in {queue[1], queue[2]} \/ \E j \in DOMAIN Tail(Tail(queue)) : Tail(Tail(queue))[j] = y
    BY <1>1, <2>1, FirstTwo
  <2>3. CASE y \in {queue[1], queue[2]}
    BY <1>4, <2>3 DEF BeingPaired
  <2>4. CASE \E j \in DOMAIN Tail(Tail(queue)) : Tail(Tail(queue))[j] = y
    BY <1>1, <2>4 DEF InQueue
  <2>5. QED
    BY <2>2, <2>3, <2>4
<1>7. \A c \in Clients : Waits(c)' => Waits(c) /\ (Served(c) => Served(c)')
  BY <1>1, <1>5, <1>6 DEF Waits, Served, FoundComing, Sock
<1>8. QED
  BY <1>1, <1>5, <1>7, Keeps

\* A pairing sends match:found to the pages it has; the others keep their handlers.
LEMMA AnnounceServed ==
    ASSUME ServedInv, Typed', NEW t \in Tasks, Announce(t)
    PROVE  ServedInv'
<1>1. /\ UNCHANGED <<page, conns, up, queue>> /\ stranded \subseteq stranded' /\ Typed
      /\ task \in [Tasks -> Job] /\ task' = [task EXCEPT ![t] = IdleTask]
  BY DEF Announce, Done, client, ServedInv, Typed, JobsOK
<1>2. PICK a, b, k : /\ a = task[t].sock /\ b = task[t].peer /\ k = made + 1
                     /\ inbox' = [c \in Clients |-> inbox[c] \o Found(c, a, k, TRUE)
                                                             \o Found(c, b, k, FALSE)]
                     /\ k \in Calls
  <2>1. task[t].kind = "pair"
    BY DEF Announce
  <2>2. made + 1 \in Calls
    BY <1>1, <2>1, CallNumbered
  <2>3. QED
    BY <2>2 DEF Announce
<1>3. \A u \in Tasks \ {t} : task'[u] = task[u]
  BY <1>1
<1>4. \A u \in Tasks : task'[u].kind = "dequeue" => task'[u] = task[u]
  BY <1>1, <1>3, IdleJob
<1>5. ASSUME NEW c \in Clients
      PROVE  /\ FoundComing(c) => FoundComing(c)'
             /\ page[c].open /\ Sock(c) \in {a, b} => FoundComing(c)'
  <2>1. PICK q, f, g : q = inbox[c] /\ f = Found(c, a, k, TRUE) /\ g = Found(c, b, k, FALSE)
    OBVIOUS
  <2>2. inbox'[c] = (q \o f) \o g /\ q \in Seq(Message)
    BY <1>1, <1>2, <2>1 DEF Typed, NetOK
  <2>3. /\ f \in Seq(Message)
        /\ page[c].open /\ Sock(c) = a => Len(f) = 1 /\ f[1].type = "found"
    BY <1>2, <2>1, FoundShape
  <2>4. /\ g \in Seq(Message)
        /\ page[c].open /\ Sock(c) = b => Len(g) = 1 /\ g[1].type = "found"
    BY <1>2, <2>1, FoundShape
  <2>6. /\ DOMAIN inbox'[c] = 1 .. (Len(q) + Len(f) + Len(g))
        /\ Len(q) \in Nat /\ Len(f) \in Nat /\ Len(g) \in Nat
        /\ \A i \in 1 .. Len(q) : inbox'[c][i] = q[i]
        /\ \A i \in 1 .. Len(f) : inbox'[c][Len(q) + i] = f[i]
        /\ \A i \in 1 .. Len(g) : inbox'[c][Len(q) + Len(f) + i] = g[i]
    BY <2>2, <2>3, <2>4
  <2>7. FoundComing(c) => FoundComing(c)'
    <3>1. DOMAIN q = 1 .. Len(q) /\ \A i \in 1 .. Len(q) : i \in DOMAIN inbox'[c]
      BY <2>2, <2>6
    <3>2. QED
      BY <2>1, <2>6, <3>1 DEF FoundComing
  <2>8. ASSUME page[c].open, Sock(c) = a PROVE FoundComing(c)'
    <3>1. Len(f) = 1 /\ f[1].type = "found"
      BY <2>3, <2>8
    <3>2. Len(q) + 1 \in DOMAIN inbox'[c] /\ inbox'[c][Len(q) + 1] = f[1]
      BY <2>6, <3>1
    <3>3. QED
      BY <3>1, <3>2 DEF FoundComing
  <2>9. ASSUME page[c].open, Sock(c) = b PROVE FoundComing(c)'
    <3>1. Len(g) = 1 /\ g[1].type = "found"
      BY <2>4, <2>9
    <3>2. /\ Len(q) + Len(f) + 1 \in DOMAIN inbox'[c]
          /\ inbox'[c][Len(q) + Len(f) + 1] = g[1]
      BY <2>6, <3>1
    <3>3. QED
      BY <3>1, <3>2 DEF FoundComing
  <2>10. QED
    BY <2>7, <2>8, <2>9
<1>6. ASSUME NEW c \in Clients, Waits(c)' PROVE Waits(c) /\ (Served(c) => Served(c)')
  <2>1. Waits(c) /\ Sock(c)' = Sock(c) /\ page[c].open
    BY <1>1, <1>6 DEF Waits, Sock
  <2>2. CASE InQueue(Sock(c)) \/ FoundComing(c)
    BY <1>1, <1>5, <2>1, <2>2 DEF Served, InQueue
  <2>3. CASE BeingPaired(Sock(c))
    <3>1. PICK u \in Tasks : task[u].kind = "pair" /\ Sock(c) \in {task[u].sock, task[u].peer}
      BY <2>3 DEF BeingPaired
    <3>2. CASE u = t
      BY <1>2, <1>5, <2>1, <3>1, <3>2 DEF Served
    <3>3. CASE u # t
      <4>1. BeingPaired(Sock(c))'
        BY <1>3, <2>1, <3>1, <3>3 DEF BeingPaired
      <4>2. QED
        BY <2>1, <4>1 DEF Served
    <3>4. QED
      BY <3>2, <3>3
  <2>4. QED
    BY <2>1, <2>2, <2>3 DEF Served
<1>7. QED
  BY <1>1, <1>4, <1>6, Keeps

\* A pairing that fails strands the two it had.
LEMMA HandlerFailsServed ==
    ASSUME ServedInv, Typed', NEW t \in Tasks, HandlerFails(t)
    PROVE  ServedInv'
<1>1. /\ UNCHANGED <<page, conns, up, queue, inbox>> /\ Typed /\ task \in [Tasks -> Job]
      /\ stranded' = stranded \cup {x[1] : x \in Concerned(t)}
      /\ task' = [task EXCEPT ![t] = IdleTask]
  BY DEF HandlerFails, Done, client, ServedInv, Typed, JobsOK
<1>2. (\A u \in Tasks \ {t} : task'[u] = task[u]) /\ task'[t].kind = "idle"
  BY <1>1, IdleJob
<1>3. ASSUME NEW c \in Clients \ stranded', Waits(c)' PROVE Waits(c) /\ (Served(c) => Served(c)')
  <2>1. Waits(c) /\ Sock(c)' = Sock(c) /\ Sock(c)[1] = c
    BY <1>1, <1>3, OwnSocket DEF Waits, Sock, Typed
  <2>2. CASE InQueue(Sock(c)) \/ FoundComing(c)
    BY <1>1, <2>1, <2>2 DEF Served, InQueue, FoundComing
  <2>3. CASE BeingPaired(Sock(c))
    <3>1. PICK u \in Tasks : task[u].kind = "pair" /\ Sock(c) \in {task[u].sock, task[u].peer}
      BY <2>3 DEF BeingPaired
    <3>2. u # t
      <4>1. SUFFICES ASSUME u = t PROVE FALSE
        OBVIOUS
      <4>2. Sock(c) \in Concerned(t)
        BY <3>1, <4>1 DEF Concerned
      <4>3. c \in stranded'
        BY <1>1, <2>1, <4>2
      <4>4. QED
        BY <1>3, <4>3
    <3>3. BeingPaired(Sock(c))'
      BY <1>2, <2>1, <3>1, <3>2 DEF BeingPaired
    <3>4. QED
      BY <2>1, <3>3 DEF Served
  <2>4. QED
    BY <2>1, <2>2, <2>3 DEF Served
<1>4. QED
  BY <1>1, <1>2, <1>3, Keeps

\* A lost connection strands its page; its old socket departs.
LEMMA ReconnectServed ==
    ASSUME ServedInv, Typed', NEW c \in Clients, Reconnect(c)
    PROVE  ServedInv'
<1>1. /\ UNCHANGED <<page, queue, task>> /\ stranded' = stranded \cup {c}
      /\ conns \in [Clients -> Nat] /\ conns' = [conns EXCEPT ![c] = @ + 1]
      /\ up' = up \cup {<<c, conns[c] + 1>>} /\ inbox' = [inbox EXCEPT ![c] = <<>>]
      /\ Typed /\ Past /\ Departed /\ AllServed
  BY DEF Reconnect, ServedInv, Typed, NetOK
<1>2. /\ conns'[c] = conns[c] + 1 /\ \A d \in Clients \ {c} : conns'[d] = conns[d]
      /\ \A d \in Clients : conns[d] \in Nat
  BY <1>1
<1>3. Past'
  <2>1. \A x \in up : x[1] \in Clients /\ x[2] \in Nat
    BY <1>1, BoundsNat DEF Typed, GatewayOK, Sockets
  <2>2. \A x \in up : x[2] <= conns'[x[1]]
    BY <1>1, <1>2, <2>1 DEF Past
  <2>3. QED
    BY <1>1, <1>2, <2>2 DEF Past
<1>4. ASSUME NEW t \in Tasks, task[t].kind = "dequeue"
      PROVE  LET x == task[t].sock
             IN  x[2] <= conns'[x[1]] /\ ~(page[x[1]].open /\ conns'[x[1]] = x[2])
  <2>1. PICK x \in Sockets : x = task[t].sock
    BY <1>1, <1>4 DEF Typed, JobsOK, Briefed
  <2>2. x[1] \in Clients /\ x[2] \in Nat
    BY BoundsNat DEF Sockets
  <2>3. x[2] <= conns[x[1]] /\ ~(page[x[1]].open /\ conns[x[1]] = x[2])
    BY <1>1, <1>4, <2>1 DEF Departed
  <2>4. x[2] <= conns'[x[1]] /\ ~(page[x[1]].open /\ conns'[x[1]] = x[2])
    <3>1. CASE x[1] = c
      BY <1>2, <2>2, <2>3, <3>1
    <3>2. CASE x[1] # c
      BY <1>2, <2>2, <2>3, <3>2
    <3>3. QED
      BY <3>1, <3>2
  <2>5. QED
    BY <2>1, <2>4
<1>5. Departed'
  BY <1>1, <1>4 DEF Departed
<1>6. AllServed'
  <2>1. ASSUME NEW d \in Clients \ stranded', Waits(d)' PROVE Served(d)'
    <3>1. d # c /\ d \notin stranded /\ Waits(d)
      BY <1>1, <2>1 DEF Waits
    <3>2. Served(d)
      BY <1>1, <3>1 DEF AllServed
    <3>3. Sock(d)' = Sock(d) /\ inbox'[d] = inbox[d]
      BY <1>1, <1>2, <3>1 DEF Sock, Typed, NetOK
    <3>4. QED
      BY <1>1, <3>2, <3>3 DEF Served, InQueue, BeingPaired, FoundComing
  <2>2. QED
    BY <2>1 DEF AllServed
<1>7. QED
  BY <1>3, <1>5, <1>6 DEF ServedInv

\* The socket a disconnect is for is no page's.
LEMMA HandleDisconnectServed ==
    ASSUME ServedInv, Typed', NEW t \in Tasks, NEW x \in Sockets, HandleDisconnect(t, x)
    PROVE  ServedInv'
<1>1. /\ UNCHANGED <<page, conns, queue, inbox, stranded>> /\ up' = up \ {x} /\ x \in up
      /\ ~(page[x[1]].open /\ Sock(x[1]) = x) /\ task[t] = IdleTask
      /\ Typed /\ Past /\ Departed /\ AllServed
  BY DEF HandleDisconnect, Begin, client, ServedInv
<1>2. PICK h : h = [kind |-> "dequeue", sock |-> x, peer |-> None, call |-> None]
  OBVIOUS
<1>3. task' = [task EXCEPT ![t] = h] /\ task \in [Tasks -> Job]
  BY <1>1, <1>2 DEF HandleDisconnect, Begin, Typed, JobsOK
<1>4. task'[t] = h /\ h.sock = x /\ \A u \in Tasks \ {t} : task'[u] = task[u]
  BY <1>2, <1>3
<1>5. \A y : BeingPaired(y) => BeingPaired(y)'
  BY <1>1, <1>3, IdleJob, PairingsStay DEF Typed
<1>6. Past'
  BY <1>1 DEF Past
<1>7. x[2] <= conns[x[1]] /\ ~(page[x[1]].open /\ conns[x[1]] = x[2])
  <2>1. x = <<x[1], x[2]>>
    BY DEF Sockets
  <2>2. QED
    BY <1>1, <2>1 DEF Past, Sock
<1>8. ASSUME NEW u \in Tasks, task'[u].kind = "dequeue"
      PROVE  LET y == task'[u].sock
             IN  y[2] <= conns[y[1]] /\ ~(page[y[1]].open /\ conns[y[1]] = y[2])
  <2>1. CASE u = t
    BY <1>4, <1>7, <2>1
  <2>2. CASE u # t
    BY <1>1, <1>4, <1>8, <2>2 DEF Departed
  <2>3. QED
    BY <2>1, <2>2
<1>9. Departed'
  BY <1>1, <1>8 DEF Departed
<1>10. AllServed'
  BY <1>1, <1>5 DEF AllServed, Waits, Served, InQueue, FoundComing, Sock
<1>11. QED
  BY <1>6, <1>9, <1>10 DEF ServedInv

\* Every step keeps it.
LEMMA NextServed ==
    ASSUME ServedInv, [Next]_vars
    PROVE  ServedInv'
<1>0. Typed'
  BY NextTyped DEF ServedInv
<1>1. ASSUME NEW c \in Clients, Page(c) PROVE ServedInv'
  BY <1>0, <1>1, ReconnectServed, GrantedServed, RenderServed, SendServed, OnMatchFoundServed,
     OnCallEndedServed, HandledServed, CloseTabServed DEF Page, Busy
<1>2. ASSUME NEW t \in Tasks, NEW c \in Clients, IceFails(t, c) \/ Leave(t, c) PROVE ServedInv'
  BY <1>0, <1>2, IceFailsServed, LeaveServed
<1>3. ASSUME NEW t \in Tasks, NEW x \in Sockets, HandleDisconnect(t, x) PROVE ServedInv'
  BY <1>0, <1>3, HandleDisconnectServed
<1>4. ASSUME NEW t \in Tasks, Handler(t) PROVE ServedInv'
  BY <1>0, <1>4, DequeueServed, TellServed, TryMatchServed, AnnounceServed,
     HandlerFailsServed DEF Handler
<1>5. CASE UNCHANGED vars
  <2>1. UNCHANGED <<page, conns, up, queue, task, inbox, stranded>>
    BY <1>5 DEF vars, server
  <2>2. \A c \in Clients : FoundComing(c) => FoundComing(c)'
    BY <2>1 DEF FoundComing
  <2>3. QED
    BY <1>0, <2>1, <2>2, QuietServed
<1>6. QED
  BY <1>1, <1>2, <1>3, <1>4, <1>5 DEF Next

LEMMA InitServed ==
    ASSUME Init
    PROVE  ServedInv
<1>1. Past
  BY DEF Init, Past
<1>2. Departed
  BY IdleJob DEF Init, Departed
<1>3. AllServed
  BY DEF Init, AllServed, Waits, NewPage
<1>4. QED
  BY <1>1, <1>2, <1>3, InitTyped DEF ServedInv

(* A page that shows the spinner and has joined is in the queue, is being paired, or  *)
(* its match:found is on the way, unless its connection was lost or its pairing       *)
(* failed: neither the disconnect of an old socket nor the entries that duplicate     *)
(* call:ended events leave in the queue cost it its place.                            *)
THEOREM SpinnerIsServed == Spec => []SearchingIsServed
<1>1. Init => ServedInv
  BY InitServed
<1>2. ServedInv /\ [Next]_vars => ServedInv'
  BY NextServed
<1>3. ServedInv => SearchingIsServed
  BY DEF ServedInv, AllServed, SearchingIsServed, Waits, Served, InQueue, BeingPaired,
     FoundComing
<1>4. QED
  BY <1>1, <1>2, <1>3, PTL DEF Spec
----------------------------------------------------------------------------
(* Nobody sits in a call alone.                                            *)

\* A message of a kind about call k is in q.
Holds(q, type, k) == \E i \in DOMAIN q : q[i].type = type /\ q[i].callId = k

\* match:found comes after everything the gateway sent about earlier calls.
InOrder(q) ==
    \A i, j \in DOMAIN q : i < j /\ q[j].type = "found" =>
        q[i].callId <= q[j].callId /\ (q[i].type # "found" => q[i].callId < q[j].callId)

\* What a message at the end of an inbox changes.
LEMMA AppendHolds ==
    ASSUME NEW q \in Seq(Message), NEW m \in Message, NEW type, NEW k
    PROVE  Holds(Append(q, m), type, k) <=> Holds(q, type, k) \/ (m.type = type /\ m.callId = k)
<1>1. /\ DOMAIN q = 1 .. Len(q) /\ Len(q) \in Nat /\ DOMAIN Append(q, m) = 1 .. (Len(q) + 1)
      /\ \A i \in 1 .. Len(q) : Append(q, m)[i] = q[i]
      /\ Append(q, m)[Len(q) + 1] = m
  OBVIOUS
<1>2. \A i \in 1 .. (Len(q) + 1) : i \in 1 .. Len(q) \/ i = Len(q) + 1
  BY <1>1
<1>3. 1 .. Len(q) \subseteq 1 .. (Len(q) + 1) /\ Len(q) + 1 \in 1 .. (Len(q) + 1)
  BY <1>1
<1>4. PICK r, n : r = Append(q, m) /\ n = Len(q) + 1
  OBVIOUS
<1>5. /\ \A i \in DOMAIN q : i \in DOMAIN r /\ r[i] = q[i]
      /\ n \in DOMAIN r /\ r[n] = m /\ \A i \in DOMAIN r : i \in DOMAIN q \/ i = n
  BY <1>1, <1>2, <1>3, <1>4
<1>6. QED
  BY <1>4, <1>5 DEF Holds

\* What is left of an inbox when its head is handled.
LEMMA TailHolds ==
    ASSUME NEW q \in Seq(Message), q # <<>>, NEW type, NEW k
    PROVE  /\ Holds(Tail(q), type, k) => Holds(q, type, k)
           /\ Holds(q, type, k) =>
                 Holds(Tail(q), type, k) \/ (Head(q).type = type /\ Head(q).callId = k)
<1>1. /\ DOMAIN q = 1 .. Len(q) /\ Len(q) \in Nat /\ DOMAIN Tail(q) = 1 .. (Len(q) - 1)
      /\ \A i \in 1 .. (Len(q) - 1) : Tail(q)[i] = q[i + 1]
      /\ Head(q) = q[1]
  OBVIOUS
<1>2. PICK r : r = Tail(q)
  OBVIOUS
<1>3. \A i \in DOMAIN r : i + 1 \in DOMAIN q /\ r[i] = q[i + 1]
  BY <1>1, <1>2
<1>4. ASSUME NEW i \in DOMAIN q, i # 1 PROVE \E j \in DOMAIN r : r[j] = q[i]
  <2>1. i - 1 \in 1 .. (Len(q) - 1) /\ (i - 1) + 1 = i
    BY <1>1, <1>4
  <2>2. QED
    BY <1>1, <1>2, <2>1
<1>5. Holds(r, type, k) => Holds(q, type, k)
  BY <1>3 DEF Holds
<1>6. Holds(q, type, k) => Holds(r, type, k) \/ (Head(q).type = type /\ Head(q).callId = k)
  <2> SUFFICES ASSUME NEW i \in DOMAIN q, q[i].type = type, q[i].callId = k
               PROVE  Holds(r, type, k) \/ (Head(q).type = type /\ Head(q).callId = k)
    BY DEF Holds
  <2>1. CASE i = 1
    BY <1>1, <2>1
  <2>2. CASE i # 1
    BY <1>4, <2>2 DEF Holds
  <2>3. QED
    BY <2>1, <2>2
<1>7. QED
  BY <1>2, <1>5, <1>6

LEMMA ConcatHolds ==
    ASSUME NEW q \in Seq(Message), NEW r \in Seq(Message), NEW type, NEW k
    PROVE  Holds(q \o r, type, k) <=> Holds(q, type, k) \/ Holds(r, type, k)
<1>1. PICK p : p = q \o r
  OBVIOUS
<1>2. /\ DOMAIN q = 1 .. Len(q) /\ DOMAIN r = 1 .. Len(r) /\ Len(q) \in Nat /\ Len(r) \in Nat
      /\ DOMAIN p = 1 .. (Len(q) + Len(r))
      /\ \A i \in 1 .. (Len(q) + Len(r)) : p[i] = IF i <= Len(q) THEN q[i] ELSE r[i - Len(q)]
  BY <1>1, ConcatProperties
<1>3. \A i \in DOMAIN q : i \in DOMAIN p /\ p[i] = q[i]
  BY <1>2
<1>4. ASSUME NEW i \in DOMAIN r PROVE \E j \in DOMAIN p : p[j] = r[i]
  <2>1. Len(q) + i \in 1 .. (Len(q) + Len(r)) /\ ~(Len(q) + i <= Len(q)) /\ (Len(q) + i) - Len(q) = i
    BY <1>2
  <2>2. QED
    BY <1>2, <2>1
<1>5. ASSUME NEW i \in DOMAIN p
      PROVE  (\E j \in DOMAIN q : q[j] = p[i]) \/ (\E j \in DOMAIN r : r[j] = p[i])
  <2>1. CASE i <= Len(q)
    <3>1. i \in 1 .. Len(q)
      BY <1>2, <2>1
    <3>2. QED
      BY <1>2, <2>1, <3>1
  <2>2. CASE ~(i <= Len(q))
    <3>1. i - Len(q) \in 1 .. Len(r)
      BY <1>2, <2>2
    <3>2. QED
      BY <1>2, <2>2, <3>1
  <2>3. QED
    BY <2>1, <2>2
<1>6. Holds(p, type, k) => Holds(q, type, k) \/ Holds(r, type, k)
  BY <1>5 DEF Holds
<1>7. Holds(q, type, k) => Holds(p, type, k)
  BY <1>3 DEF Holds
<1>8. Holds(r, type, k) => Holds(p, type, k)
  BY <1>4 DEF Holds
<1>9. QED
  BY <1>1, <1>6, <1>7, <1>8

\* The order is kept: when the head is handled; when something else than match:found
\* comes; when match:found comes with a number nothing before it exceeds.
LEMMA TailInOrder ==
    ASSUME NEW q \in Seq(Message), q # <<>>, InOrder(q)
    PROVE  /\ InOrder(Tail(q))
           /\ \A i \in DOMAIN Tail(q) : Tail(q)[i].type = "found" =>
                 /\ Head(q).callId <= Tail(q)[i].callId
                 /\ Head(q).type # "found" => Head(q).callId < Tail(q)[i].callId
<1>1. /\ DOMAIN q = 1 .. Len(q) /\ Len(q) \in Nat /\ DOMAIN Tail(q) = 1 .. (Len(q) - 1)
      /\ \A i \in 1 .. (Len(q) - 1) : Tail(q)[i] = q[i + 1]
      /\ Head(q) = q[1]
  OBVIOUS
<1>2. PICK r : r = Tail(q)
  OBVIOUS
<1>3. \A i \in DOMAIN r : i + 1 \in DOMAIN q /\ r[i] = q[i + 1] /\ 1 \in DOMAIN q /\ 1 < i + 1
  BY <1>1, <1>2
<1>4. \A i, j \in DOMAIN r : i < j => i + 1 < j + 1
  BY <1>1, <1>2
<1>5. InOrder(r)
  BY <1>3, <1>4 DEF InOrder
<1>6. \A i \in DOMAIN r : r[i].type = "found" =>
          q[1].callId <= r[i].callId /\ (q[1].type # "found" => q[1].callId < r[i].callId)
  BY <1>3 DEF InOrder
<1>7. QED
  BY <1>1, <1>2, <1>5, <1>6

LEMMA AppendInOrder ==
    ASSUME NEW q \in Seq(Message), InOrder(q), NEW m \in Message,
           m.type = "found" => \A i \in DOMAIN q : q[i].callId <= m.callId
                                   /\ (q[i].type # "found" => q[i].callId < m.callId)
    PROVE  InOrder(Append(q, m))
<1>1. /\ DOMAIN q = 1 .. Len(q) /\ Len(q) \in Nat /\ DOMAIN Append(q, m) = 1 .. (Len(q) + 1)
      /\ \A i \in 1 .. Len(q) : Append(q, m)[i] = q[i]
      /\ Append(q, m)[Len(q) + 1] = m
  OBVIOUS
<1>2. PICK r : r = Append(q, m)
  OBVIOUS
<1>3. ASSUME NEW i \in DOMAIN r, NEW j \in DOMAIN r, i < j, r[j].type = "found"
      PROVE  r[i].callId <= r[j].callId /\ (r[i].type # "found" => r[i].callId < r[j].callId)
  <2>1. i \in DOMAIN q /\ r[i] = q[i]
    <3>1. i \in 1 .. Len(q)
      BY <1>1, <1>2, <1>3
    <3>2. QED
      BY <1>1, <1>2, <3>1
  <2>2. CASE j = Len(q) + 1
    BY <1>1, <1>2, <1>3, <2>1, <2>2
  <2>3. CASE j # Len(q) + 1
    <3>1. j \in DOMAIN q /\ r[j] = q[j]
      BY <1>1, <1>2, <2>3
    <3>2. QED
      BY <1>3, <2>1, <3>1 DEF InOrder
  <2>4. QED
    BY <2>2, <2>3
<1>4. QED
  BY <1>2, <1>3 DEF InOrder

\* The message is on its way to the page.
Pending(c, type, k) == Holds(inbox[c], type, k)

\* The page is in the call or about to be.
Has(c, k) == page[c].open /\ (page[c].callId = k \/ Pending(c, "found", k))

\* An emit adds its message to the inboxes it reaches.
LEMMA EmitPending ==
    ASSUME NetOK, NEW R, NEW m \in Message, inbox' = Emit(R, m), NEW c \in Clients
    PROVE  /\ \A type, k : Pending(c, type, k)' <=>
                 \/ Pending(c, type, k)
                 \/ page[c].open /\ Sock(c) \in R /\ m.type = type /\ m.callId = k
           /\ InOrder(inbox[c]) /\ m.type # "found" => InOrder(inbox'[c])
<1>1. inbox[c] \in Seq(Message)
  BY DEF NetOK
<1>2. CASE page[c].open /\ Sock(c) \in R
  <2>1. inbox'[c] = Append(inbox[c], m)
    BY <1>2, Zenon DEF Emit
  <2>2. ASSUME NEW type, NEW k
        PROVE  Pending(c, type, k)' <=> Pending(c, type, k) \/ (m.type = type /\ m.callId = k)
    <3>1. PICK q \in Seq(Message) : q = inbox[c]
      BY <1>1
    <3>2. Holds(Append(q, m), type, k) <=> Holds(q, type, k) \/ (m.type = type /\ m.callId = k)
      BY AppendHolds
    <3>3. QED
      BY <2>1, <3>1, <3>2 DEF Pending
  <2>3. InOrder(inbox[c]) /\ m.type # "found" => InOrder(inbox'[c])
    BY <1>1, <2>1, AppendInOrder, Zenon
  <2>4. QED
    BY <1>2, <2>2, <2>3, Zenon
<1>3. CASE ~(page[c].open /\ Sock(c) \in R)
  <2>1. inbox'[c] = inbox[c]
    BY <1>3, Zenon DEF Emit
  <2>2. QED
    BY <1>3, <2>1, Zenon DEF Pending
<1>4. QED
  BY <1>2, <1>3

\* A relayed description.
LEMMA RelayPending ==
    ASSUME NetOK, NEW c \in Clients, NEW type \in {"offer", "answer"}, NEW k \in Calls,
           inbox' = Relay(c, type, k), NEW d \in Clients
    PROVE  /\ \A y, j : Pending(d, y, j)' <=>
                 \/ Pending(d, y, j)
                 \/ page[d].open /\ Sock(d) \in room[k] \ {Sock(c)} /\ y = type /\ j = k
           /\ InOrder(inbox[d]) => InOrder(inbox'[d])
<1>1. PICK m : m = [type |-> type, callId |-> k, isInitiator |-> FALSE]
  OBVIOUS
<1>2. m \in Message /\ m.type = type /\ m.callId = k /\ m.type # "found"
  BY <1>1 DEF Message
<1>3. inbox' = Emit(room[k] \ {Sock(c)}, m)
  BY <1>1 DEF Relay
<1>4. /\ \A y, j : Pending(d, y, j)' <=>
            \/ Pending(d, y, j)
            \/ page[d].open /\ Sock(d) \in room[k] \ {Sock(c)} /\ m.type = y /\ m.callId = j
      /\ InOrder(inbox[d]) /\ m.type # "found" => InOrder(inbox'[d])
  BY <1>2, <1>3, EmitPending
<1>5. QED
  BY <1>2, <1>4

\* A page handles the head of its inbox.
LEMMA ConsumePending ==
    ASSUME NetOK, NEW c \in Clients, NEW type, Arrives(c, type), Consume(c)
    PROVE  /\ Head(inbox[c]) \in Message /\ Head(inbox[c]).type = type
           /\ \A d \in Clients : d # c => inbox'[d] = inbox[d]
           /\ \A d \in Clients : \A y, j : Pending(d, y, j)' => Pending(d, y, j)
           /\ \A d \in Clients : \A y, j : Pending(d, y, j) =>
                 Pending(d, y, j)' \/ (d = c /\ y = type /\ j = Head(inbox[c]).callId)
           /\ Pending(c, type, Head(inbox[c]).callId)
           /\ InOrder(inbox[c]) => InOrder(inbox'[c])
           /\ InOrder(inbox[c]) => \A k : Pending(c, "found", k)' =>
                 Head(inbox[c]).callId <= k /\ (type # "found" => Head(inbox[c]).callId < k)
<1>1. inbox[c] \in Seq(Message) /\ inbox[c] # <<>> /\ Head(inbox[c]).type = type
  BY DEF NetOK, Arrives
<1>2. inbox'[c] = Tail(inbox[c]) /\ \A d \in Clients : d # c => inbox'[d] = inbox[d]
  BY DEF Consume, NetOK
<1>3. Head(inbox[c]) \in Message /\ Head(inbox[c]) = inbox[c][1] /\ 1 \in DOMAIN inbox[c]
  BY <1>1
<1>4. ASSUME NEW y, NEW j
      PROVE  /\ Pending(c, y, j)' => Pending(c, y, j)
             /\ Pending(c, y, j) =>
                   Pending(c, y, j)' \/ (y = type /\ j = Head(inbox[c]).callId)
  <2>1. PICK q \in Seq(Message) : q = inbox[c] /\ q # <<>>
    BY <1>1
  <2>2. /\ Holds(Tail(q), y, j) => Holds(q, y, j)
        /\ Holds(q, y, j) => Holds(Tail(q), y, j) \/ (Head(q).type = y /\ Head(q).callId = j)
    BY <2>1, TailHolds
  <2>3. QED
    BY <1>1, <1>2, <2>1, <2>2 DEF Pending
<1>5. Pending(c, type, Head(inbox[c]).callId)
  BY <1>1, <1>3 DEF Pending, Holds
<1>6. InOrder(inbox[c]) => InOrder(inbox'[c])
  BY <1>1, <1>2, TailInOrder
<1>7. ASSUME InOrder(inbox[c]), NEW k, Pending(c, "found", k)'
      PROVE  Head(inbox[c]).callId <= k /\ (type # "found" => Head(inbox[c]).callId < k)
  <2>1. PICK i \in DOMAIN Tail(inbox[c]) :
            Tail(inbox[c])[i].type = "found" /\ Tail(inbox[c])[i].callId = k
    BY <1>2, <1>7, Zenon DEF Pending, Holds
  <2>2. QED
    BY <1>1, <1>7, <2>1, TailInOrder
<1>8. QED
  BY <1>1, <1>2, <1>3, <1>4, <1>5, <1>6, <1>7, Zenon DEF Pending

\* An inbox that is emptied.
LEMMA EmptyPending ==
    ASSUME NetOK, NEW c \in Clients, inbox' = [inbox EXCEPT ![c] = <<>>]
    PROVE  /\ \A d \in Clients : d # c => inbox'[d] = inbox[d]
           /\ \A y, j : ~Pending(c, y, j)'
           /\ InOrder(inbox'[c])
<1>1. inbox'[c] = <<>> /\ \A d \in Clients : d # c => inbox'[d] = inbox[d]
  BY DEF NetOK
<1>2. DOMAIN inbox'[c] = {}
  BY <1>1
<1>3. QED
  BY <1>1, <1>2 DEF Pending, Holds, InOrder

\* The match:found of a pairing.
LEMMA FoundHolds ==
    ASSUME NEW c \in Clients, NEW s, NEW k \in Calls, NEW i \in BOOLEAN, NEW y, NEW j
    PROVE  Holds(Found(c, s, k, i), y, j) <=> page[c].open /\ Sock(c) = s /\ y = "found" /\ j = k
<1>1. PICK m : m = [type |-> "found", callId |-> k, isInitiator |-> i]
  OBVIOUS
<1>2. m.type = "found" /\ m.callId = k
  BY <1>1
<1>3. CASE page[c].open /\ Sock(c) = s
  <2>1. Found(c, s, k, i) = <<m>>
    BY <1>1, <1>3, Zenon DEF Found
  <2>2. PICK q : q = Found(c, s, k, i)
    OBVIOUS
  <2>3. DOMAIN q = {1} /\ q[1] = m
    BY <2>1, <2>2
  <2>4. QED
    BY <1>2, <1>3, <2>2, <2>3 DEF Holds
<1>4. CASE ~(page[c].open /\ Sock(c) = s)
  <2>1. Found(c, s, k, i) = <<>>
    BY <1>4, Zenon DEF Found
  <2>2. DOMAIN <<>> = {}
    OBVIOUS
  <2>3. QED
    BY <1>4, <2>1, <2>2 DEF Holds
<1>5. QED
  BY <1>3, <1>4

\* Its number is higher than every number before it.
LEMMA FoundInOrder ==
    ASSUME NetOK, NEW a, NEW b, NEW k \in Calls,
           NEW c \in Clients,
           inbox'[c] = inbox[c] \o Found(c, a, k, TRUE) \o Found(c, b, k, FALSE), InOrder(inbox[c]),
           \A i \in DOMAIN inbox[c] : inbox[c][i].callId < k
    PROVE  InOrder(inbox'[c])
<1>1. PICK m, n \in Message : /\ m = [type |-> "found", callId |-> k, isInitiator |-> TRUE]
                              /\ n = [type |-> "found", callId |-> k, isInitiator |-> FALSE]
  <2>1. /\ [type |-> "found", callId |-> k, isInitiator |-> TRUE] \in Message
        /\ [type |-> "found", callId |-> k, isInitiator |-> FALSE] \in Message
    BY DEF Message
  <2>2. QED
    BY <2>1
<1>2. m.type = "found" /\ m.callId = k /\ n.type = "found" /\ n.callId = k
  BY <1>1
<1>3. Found(c, a, k, TRUE) \in {<<m>>, <<>>}
  BY <1>1, Zenon DEF Found
<1>4. Found(c, b, k, FALSE) \in {<<n>>, <<>>}
  BY <1>1, Zenon DEF Found
<1>5. PICK q : q = inbox[c]
  OBVIOUS
<1>6. q \in Seq(Message) /\ InOrder(q) /\ (\A i \in DOMAIN q : q[i].callId < k) /\ k \in Nat
  BY <1>5, CallNumbers DEF NetOK
<1>7. PICK r : r = q \o Found(c, a, k, TRUE)
  OBVIOUS
<1>8. r \in Seq(Message) /\ InOrder(r)
      /\ \A i \in DOMAIN r : r[i].callId <= k /\ (r[i].type # "found" => r[i].callId < k)
  <2>1. \A i \in DOMAIN q : q[i].callId \in Nat
    <3>1. \A i \in DOMAIN q : q[i] \in Message
      BY <1>6
    <3>2. QED
      BY <3>1, CallNumbers DEF Message
  <2>2. CASE Found(c, a, k, TRUE) = <<>>
    <3>1. r = q
      <4>1. q \o <<>> = q
        BY <1>6
      <4>2. QED
        BY <1>7, <2>2, <4>1
    <3>2. QED
      BY <1>6, <2>1, <3>1
  <2>3. CASE Found(c, a, k, TRUE) = <<m>>
    <3>1. r = Append(q, m)
      <4>1. q \o <<m>> = Append(q, m)
        BY <1>6
      <4>2. QED
        BY <1>7, <2>3, <4>1
    <3>2. r \in Seq(Message) /\ InOrder(r)
      <4>1. \A i \in DOMAIN q : q[i].callId <= m.callId /\ (q[i].type # "found" => q[i].callId < m.callId)
        BY <1>2, <1>6, <2>1
      <4>2. r \in Seq(Message)
        BY <1>6, <3>1
      <4>3. InOrder(r)
        BY <1>6, <3>1, <4>1, AppendInOrder
      <4>4. QED
        BY <4>2, <4>3
    <3>3. \A i \in DOMAIN r : r[i] = m \/ (i \in DOMAIN q /\ r[i] = q[i])
      BY <1>6, <3>1
    <3>4. k <= k
      BY <1>6
    <3>5. \A i \in DOMAIN q : q[i].callId <= k
      BY <1>6, <2>1
    <3>6. QED
      BY <1>2, <1>6, <3>2, <3>3, <3>4, <3>5
  <2>4. QED
    BY <1>3, <2>2, <2>3
<1>9. inbox'[c] = r \o Found(c, b, k, FALSE)
  BY <1>5, <1>7
<1>10. CASE Found(c, b, k, FALSE) = <<>>
  <2>1. r \o <<>> = r
    BY <1>8
  <2>2. QED
    BY <1>8, <1>9, <1>10, <2>1
<1>11. CASE Found(c, b, k, FALSE) = <<n>>
  <2>1. r \o <<n>> = Append(r, n)
    BY <1>8
  <2>2. InOrder(Append(r, n))
    BY <1>1, <1>2, <1>8, AppendInOrder
  <2>3. QED
    BY <1>9, <1>11, <2>1, <2>2
<1>12. QED
  BY <1>4, <1>10, <1>11

\* What a pairing does.
Announces(t, a, b, k) ==
    /\ task[t].kind = "pair" /\ a = task[t].sock /\ b = task[t].peer /\ k = made + 1
    /\ made' = k /\ room' = [room EXCEPT ![k] = {a, b} \cap up]
    /\ meta' = [s \in Sockets |-> IF s \in {a, b} /\ Registered(s) THEN k ELSE meta[s]]
    /\ stranded' = stranded \cup Forgotten(a) \cup Forgotten(b) \cup
          IF a = b \/ ~Registered(a) \/ ~Registered(b) THEN {a[1], b[1]} ELSE {}
    /\ task' = [task EXCEPT ![t] = IdleTask]
    /\ \A c \in Clients : \A y, j : Pending(c, y, j)' <=>
          Pending(c, y, j) \/ (page[c].open /\ Sock(c) \in {a, b} /\ y = "found" /\ j = k)
    /\ \A c \in Clients :
          InOrder(inbox[c]) /\ (\A i \in DOMAIN inbox[c] : inbox[c][i].callId < k) =>
              InOrder(inbox'[c])

LEMMA AnnounceEffect ==
    ASSUME Typed, NEW t \in Tasks, Announce(t)
    PROVE  \E a, b \in Sockets, k \in Calls : Announces(t, a, b, k)
<1>1. PICK a, b \in Sockets : task[t].kind = "pair" /\ a = task[t].sock /\ b = task[t].peer
  BY DEF Announce, Typed, JobsOK, Briefed
<1>2. PICK k \in Calls : k = made + 1
  BY <1>1, CallNumbered
<1>3. /\ made' = k /\ room' = [room EXCEPT ![k] = {a, b} \cap up]
      /\ meta' = [s \in Sockets |-> IF s \in {a, b} /\ Registered(s) THEN k ELSE meta[s]]
      /\ stranded' = stranded \cup Forgotten(a) \cup Forgotten(b) \cup
            IF a = b \/ ~Registered(a) \/ ~Registered(b) THEN {a[1], b[1]} ELSE {}
      /\ task' = [task EXCEPT ![t] = IdleTask]
  BY <1>1, <1>2, Zenon DEF Announce, Done
<1>4. ASSUME NEW c \in Clients
      PROVE  inbox'[c] = inbox[c] \o Found(c, a, k, TRUE) \o Found(c, b, k, FALSE)
  BY <1>1, <1>2, Zenon DEF Announce
<1>5. ASSUME NEW c \in Clients
      PROVE  \A y, j : Pending(c, y, j)' <=>
                Pending(c, y, j) \/ (page[c].open /\ Sock(c) \in {a, b} /\ y = "found" /\ j = k)
  <2>1. PICK f, g \in Seq(Message) : f = Found(c, a, k, TRUE) /\ g = Found(c, b, k, FALSE)
    BY FoundShape
  <2>2. inbox[c] \in Seq(Message) /\ inbox[c] \o f \in Seq(Message)
    BY <2>1, ConcatProperties DEF Typed, NetOK
  <2>3. inbox'[c] = (inbox[c] \o f) \o g
    BY <1>4, <2>1
  <2>4. ASSUME NEW y, NEW j
        PROVE  Holds(inbox'[c], y, j) <=> Holds(inbox[c], y, j) \/ Holds(f, y, j) \/ Holds(g, y, j)
    <3>1. PICK q, p \in Seq(Message) : q = inbox[c] /\ p = q \o f
      BY <2>2
    <3>2. Holds(p, y, j) <=> Holds(q, y, j) \/ Holds(f, y, j)
      BY <3>1, ConcatHolds
    <3>3. Holds(p \o g, y, j) <=> Holds(p, y, j) \/ Holds(g, y, j)
      BY ConcatHolds
    <3>4. QED
      BY <2>3, <3>1, <3>2, <3>3
  <2>5. \A y, j : Holds(f, y, j) <=> page[c].open /\ Sock(c) = a /\ y = "found" /\ j = k
    BY <2>1, FoundHolds
  <2>6. \A y, j : Holds(g, y, j) <=> page[c].open /\ Sock(c) = b /\ y = "found" /\ j = k
    BY <2>1, FoundHolds
  <2>7. ASSUME NEW y, NEW j
        PROVE  Holds(inbox'[c], y, j) <=>
                  \/ Holds(inbox[c], y, j)
                  \/ page[c].open /\ Sock(c) \in {a, b} /\ y = "found" /\ j = k
    <3>1. Holds(inbox'[c], y, j) <=> Holds(inbox[c], y, j) \/ Holds(f, y, j) \/ Holds(g, y, j)
      BY <2>4
    <3>2. Holds(f, y, j) <=> page[c].open /\ Sock(c) = a /\ y = "found" /\ j = k
      BY <2>5
    <3>3. Holds(g, y, j) <=> page[c].open /\ Sock(c) = b /\ y = "found" /\ j = k
      BY <2>6
    <3>4. QED
      BY <3>1, <3>2, <3>3
  <2>8. QED
    BY <2>7 DEF Pending
<1>6. ASSUME NEW c \in Clients, InOrder(inbox[c]), \A i \in DOMAIN inbox[c] : inbox[c][i].callId < k
      PROVE  InOrder(inbox'[c])
  <2>1. inbox'[c] = inbox[c] \o Found(c, a, k, TRUE) \o Found(c, b, k, FALSE) /\ NetOK
    BY <1>4 DEF Typed
  <2>2. QED
    BY <1>6, <2>1, FoundInOrder, Zenon
<1>7. Announces(t, a, b, k)
  BY <1>1, <1>2, <1>3, <1>5, <1>6, Zenon DEF Announces
<1>8. QED
  BY <1>7

----------------------------------------------------------------------------
(* What the steps of a page do to its hook.                                *)

\* Everything but the offers that are being made and the tracks.
SameEnds(p, q) ==
    /\ p.callId = q.callId /\ p.isInitiator = q.isInitiator /\ p.sig = q.sig
    /\ p.peer = q.peer /\ p.via = q.via

\* The hooks of the other pages, and of the hook itself all but its connection.
OthersSame(c) == \A d \in Clients : d # c => rtc'[d] = rtc[d]

RestSame(c) ==
    /\ rtc'[c].listening = rtc[c].listening /\ rtc'[c].isInitiator = rtc[c].isInitiator
    /\ rtc'[c].deps = rtc[c].deps /\ rtc'[c].crossed = rtc[c].crossed

LEMMA FirstOfferMade ==
    ASSUME NEW q \in Peer
    PROVE  SameEnds(CreateOffer(q), q) /\ CreateOffer(q).offers # <<>>
<1>1. CreateOffer(q).offers = Append(q.offers, q.tracks) /\ SameEnds(CreateOffer(q), q)
  BY DEF CreateOffer, Peer, SameEnds
<1>2. q.offers \in Seq(BOOLEAN) /\ q.tracks \in BOOLEAN
  BY DEF Peer
<1>3. Append(q.offers, q.tracks) # <<>>
  <2>1. PICK o, m : o = q.offers /\ m = q.tracks
    OBVIOUS
  <2>2. o \in Seq(BOOLEAN) /\ m \in BOOLEAN
    BY <1>2, <2>1
  <2>3. Append(o, m) # <<>>
    BY <2>2, AppendProperties
  <2>4. QED
    BY <2>1, <2>3
<1>4. QED
  BY <1>1, <1>3

\* The connection a render keeps or makes, before the first offer.
LEMMA KeptOrMade ==
    ASSUME Typed, NEW c \in Clients, NEW pc, pc = InitPeerConnection(c, page[c].callId # None)
    PROVE  /\ rtc[c].pc # None => pc \in Peer /\ SameEnds(pc, rtc[c].pc) /\ pc.offers = rtc[c].pc.offers
           /\ rtc[c].pc = None /\ page[c].callId = None => pc = None
           /\ rtc[c].pc = None /\ page[c].callId # None =>
                 /\ pc \in Peer /\ pc.callId = page[c].callId
                 /\ pc.isInitiator = page[c].isInitiator /\ pc.sig = "stable"
                 /\ pc.offers = <<>> /\ pc.peer = None /\ pc.via = None
<1>1. /\ rtc[c].pc \in Peer \cup {None} /\ page[c].callId \in Calls \cup {None}
      /\ page[c].isInitiator \in BOOLEAN
  BY DEF Typed, PagesOK, Hook, PageState
<1>2. CASE rtc[c].pc # None
  <2>1. PICK q \in Peer : q = rtc[c].pc
    BY <1>1, <1>2
  <2>2. PICK a : a = AttachTracks(q, cam[c] = "on")
    OBVIOUS
  <2>3. a \in Peer /\ SameEnds(a, q) /\ a.offers = q.offers
    BY <2>2 DEF AttachTracks, Peer, SameEnds
  <2>4. pc = a
    BY <1>2, <2>1, <2>2 DEF InitPeerConnection
  <2>5. QED
    BY <1>2, <2>1, <2>3, <2>4
<1>3. CASE rtc[c].pc = None /\ page[c].callId # None
  <2>1. pc = NewPeer(c)
    BY <1>3 DEF InitPeerConnection
  <2>2. NewPeer(c) \in Peer
    BY <1>1, <1>3 DEF NewPeer, Peer
  <2>3. /\ NewPeer(c).callId = page[c].callId /\ NewPeer(c).isInitiator = page[c].isInitiator
        /\ NewPeer(c).sig = "stable" /\ NewPeer(c).offers = <<>>
        /\ NewPeer(c).peer = None /\ NewPeer(c).via = None
    BY DEF NewPeer
  <2>4. QED
    BY <1>3, <2>1, <2>2, <2>3
<1>4. CASE rtc[c].pc = None /\ page[c].callId = None
  BY <1>4 DEF InitPeerConnection
<1>5. QED
  BY <1>2, <1>3, <1>4

LEMMA HookEffect ==
    ASSUME Typed, NEW c \in Clients, NEW h, h = HookEffects(c)
    PROVE  /\ h.listening = page[c].callId /\ h.isInitiator = page[c].isInitiator
           /\ h.deps = <<TRUE, page[c].callId, page[c].isInitiator>>
           /\ h.crossed = rtc[c].crossed /\ h.offerSent = rtc[c].offerSent
           /\ rtc[c].pc # None =>
                 /\ h.pc # None /\ SameEnds(h.pc, rtc[c].pc)
                 /\ \/ h.pc.offers = rtc[c].pc.offers
                    \/ page[c].isInitiator /\ page[c].callId # None /\ h.pc.offers # <<>>
           /\ rtc[c].pc = None /\ page[c].callId = None => h.pc = None
           /\ rtc[c].pc = None /\ page[c].callId # None =>
                 /\ h.pc # None /\ h.pc.callId = page[c].callId
                 /\ h.pc.isInitiator = page[c].isInitiator /\ h.pc.sig = "stable"
                 /\ h.pc.peer = None /\ h.pc.via = None
                 /\ ~page[c].isInitiator => h.pc.offers = <<>>
                 /\ page[c].isInitiator /\ ~rtc[c].offerSent /\ rtc[c].deps[2] # page[c].callId =>
                       h.pc.offers # <<>>
<1>1. PICK pc : pc = InitPeerConnection(c, page[c].callId # None)
  OBVIOUS
<1>2. PICK q : q = IF FirstOffer(c, pc) THEN CreateOffer(pc) ELSE pc
  OBVIOUS
<1>3. h = [listening |-> IF page[c].callId # None THEN page[c].callId ELSE None,
           isInitiator |-> page[c].isInitiator, pc |-> q, offerSent |-> rtc[c].offerSent,
           deps |-> Deps(c), crossed |-> rtc[c].crossed]
  BY <1>1, <1>2 DEF HookEffects
<1>4. /\ h.listening = page[c].callId /\ h.isInitiator = page[c].isInitiator
      /\ h.deps = <<TRUE, page[c].callId, page[c].isInitiator>>
      /\ h.crossed = rtc[c].crossed /\ h.offerSent = rtc[c].offerSent /\ h.pc = q
  <2>1. h.listening = page[c].callId
    BY <1>3
  <2>2. h.deps = Deps(c) /\ h.isInitiator = page[c].isInitiator
    BY <1>3
  <2>3. h.crossed = rtc[c].crossed /\ h.offerSent = rtc[c].offerSent /\ h.pc = q
    BY <1>3
  <2>4. QED
    BY <2>1, <2>2, <2>3 DEF Deps
<1>5. FirstOffer(c, pc) => page[c].callId # None /\ page[c].isInitiator
  BY DEF FirstOffer
<1>6. None \notin Peer
  BY NoneIsNoPeer
<1>7. CASE rtc[c].pc # None
  <2>1. pc \in Peer /\ SameEnds(pc, rtc[c].pc) /\ pc.offers = rtc[c].pc.offers
    BY <1>1, <1>7, KeptOrMade
  <2>2. CASE FirstOffer(c, pc)
    <3>1. q = CreateOffer(pc) /\ q \in Peer
      BY <1>2, <2>1, <2>2, OfferTyped
    <3>2. SameEnds(q, rtc[c].pc) /\ q.offers # <<>>
      BY <2>1, <3>1, FirstOfferMade DEF SameEnds
    <3>3. QED
      BY <1>4, <1>5, <1>6, <1>7, <2>2, <3>1, <3>2
  <2>3. CASE ~FirstOffer(c, pc)
    BY <1>2, <1>4, <1>6, <1>7, <2>1, <2>3
  <2>4. QED
    BY <2>2, <2>3
<1>8. CASE rtc[c].pc = None /\ page[c].callId = None
  <2>1. pc = None /\ ~FirstOffer(c, pc)
    BY <1>1, <1>5, <1>8, KeptOrMade
  <2>2. QED
    BY <1>2, <1>4, <1>8, <2>1
<1>9. CASE rtc[c].pc = None /\ page[c].callId # None
  <2>1. /\ pc \in Peer /\ pc.callId = page[c].callId
        /\ pc.isInitiator = page[c].isInitiator /\ pc.sig = "stable"
        /\ pc.offers = <<>> /\ pc.peer = None /\ pc.via = None
    BY <1>1, <1>9, KeptOrMade
  <2>2. page[c].isInitiator /\ ~rtc[c].offerSent /\ rtc[c].deps[2] # page[c].callId =>
            FirstOffer(c, pc)
    <3>1. PICK x, y : x = Deps(c) /\ y = rtc[c].deps
      OBVIOUS
    <3>2. x[2] = page[c].callId
      BY <3>1 DEF Deps
    <3>3. rtc[c].deps[2] # page[c].callId => Deps(c) # rtc[c].deps
      BY <3>1, <3>2
    <3>4. QED
      BY <1>9, <2>1, <3>3 DEF FirstOffer
  <2>3. CASE FirstOffer(c, pc)
    <3>1. q = CreateOffer(pc) /\ q \in Peer
      BY <1>2, <2>1, <2>3, OfferTyped
    <3>2. SameEnds(q, pc) /\ q.offers # <<>>
      BY <2>1, <3>1, FirstOfferMade
    <3>3. q.callId = pc.callId /\ q.isInitiator = pc.isInitiator /\ q.sig = pc.sig
          /\ q.peer = pc.peer /\ q.via = pc.via
      BY <3>2 DEF SameEnds
    <3>4. QED
      BY <1>4, <1>5, <1>6, <1>9, <2>1, <2>3, <3>1, <3>2, <3>3
  <2>4. CASE ~FirstOffer(c, pc)
    <3>1. q = pc
      BY <1>2, <2>4
    <3>2. QED
      BY <1>4, <1>6, <1>9, <2>1, <2>2, <2>4, <3>1
  <2>5. QED
    BY <2>3, <2>4
<1>10. QED
  BY <1>4, <1>7, <1>8, <1>9

\* A connection that exists is kept: its call and its role stay those it was made for.
LEMMA HookKept ==
    ASSUME Typed, NEW c \in Clients, NEW h, h = HookEffects(c), rtc[c].pc # None
    PROVE  /\ h.pc # None
           /\ SameEnds(h.pc, rtc[c].pc)
           /\ \/ h.pc.offers = rtc[c].pc.offers
              \/ page[c].isInitiator /\ h.pc.offers # <<>>
  BY HookEffect, Zenon

\* A connection that is made takes the page's call and role, and offers if it starts the call.
LEMMA HookMade ==
    ASSUME Typed, NEW c \in Clients, NEW h, h = HookEffects(c), rtc[c].pc = None,
           page[c].callId # None
    PROVE  /\ h.pc # None
           /\ h.pc.callId = page[c].callId
           /\ h.pc.isInitiator = page[c].isInitiator
           /\ h.pc.sig = "stable"
           /\ h.pc.peer = None
           /\ h.pc.via = None
           /\ ~page[c].isInitiator => h.pc.offers = <<>>
           /\ page[c].isInitiator /\ ~rtc[c].offerSent /\ rtc[c].deps[2] # page[c].callId =>
                 h.pc.offers # <<>>
<1>1. /\ h.pc # None /\ h.pc.callId = page[c].callId
      /\ h.pc.isInitiator = page[c].isInitiator /\ h.pc.sig = "stable"
      /\ h.pc.peer = None /\ h.pc.via = None
      /\ ~page[c].isInitiator => h.pc.offers = <<>>
      /\ page[c].isInitiator /\ ~rtc[c].offerSent /\ rtc[c].deps[2] # page[c].callId =>
            h.pc.offers # <<>>
  BY HookEffect, ZenonT(30)
<1>2. QED
  BY <1>1, Zenon

\* A change of the connection of one hook touches nothing else.
LEMMA PeerChange ==
    ASSUME Typed, NEW c \in Clients, NEW q, NEW o \in BOOLEAN,
           \/ rtc' = [rtc EXCEPT ![c].pc = q]
           \/ rtc' = [rtc EXCEPT ![c].pc = q, ![c].offerSent = o]
    PROVE  OthersSame(c) /\ RestSame(c) /\ rtc'[c].pc = q
<1>1. rtc \in [Clients -> Hook] /\ rtc[c] \in Hook
  BY DEF Typed, PagesOK
<1>2. PICK h : /\ h = [rtc[c] EXCEPT !.pc = q] \/ h = [rtc[c] EXCEPT !.pc = q, !.offerSent = o]
               /\ rtc' = [rtc EXCEPT ![c] = h]
  BY <1>1
<1>3. /\ h.pc = q /\ h.listening = rtc[c].listening /\ h.isInitiator = rtc[c].isInitiator
      /\ h.deps = rtc[c].deps /\ h.crossed = rtc[c].crossed
  BY <1>1, <1>2 DEF Hook
<1>4. QED
  BY <1>1, <1>2, <1>3 DEF OthersSame, RestSame

LEMMA RenderEffect ==
    ASSUME Typed, NEW c \in Clients, Render(c)
    PROVE  /\ OthersSame(c) /\ rtc'[c] = HookEffects(c)
           /\ \A d \in Clients : /\ page'[d].open = page[d].open /\ page'[d].callId = page[d].callId
                                 /\ page'[d].isInitiator = page[d].isInitiator
<1>1. rtc' = [rtc EXCEPT ![c] = HookEffects(c)] /\ rtc \in [Clients -> Hook]
  BY DEF Render, Typed, PagesOK
<1>2. PICK g : g = [page[c] EXCEPT !.queued = @ \/ Joins(c)]
  OBVIOUS
<1>3. page' = [page EXCEPT ![c] = g] /\ page \in [Clients -> PageState]
  BY <1>2 DEF Render, Typed, PagesOK
<1>4. g.open = page[c].open /\ g.callId = page[c].callId /\ g.isInitiator = page[c].isInitiator
  BY <1>2, <1>3 DEF PageState
<1>5. QED
  BY <1>1, <1>3, <1>4 DEF OthersSame

LEMMA NegotiationNeededEffect ==
    ASSUME Typed, NEW c \in Clients, NegotiationNeeded(c)
    PROVE  /\ OthersSame(c) /\ RestSame(c)
           /\ rtc[c].pc # None /\ rtc[c].pc.sig = "stable" /\ rtc[c].pc \in Peer
           /\ rtc'[c].pc # None /\ SameEnds(rtc'[c].pc, rtc[c].pc)
           /\ rtc[c].pc.isInitiator => rtc'[c].pc.offers # <<>>
           /\ ~rtc[c].pc.isInitiator => rtc'[c].pc.offers = rtc[c].pc.offers
<1>1. PICK pc \in Peer : pc = rtc[c].pc /\ pc # None /\ pc.sig = "stable"
  BY DEF NegotiationNeeded, Typed, PagesOK, Hook
<1>2. PICK r \in Peer : r = (IF pc.isInitiator THEN CreateOffer(pc) ELSE pc)
  BY <1>1, OfferTyped
<1>3. PICK q : q = [r EXCEPT !.needed = FALSE]
  OBVIOUS
<1>4. q \in Peer /\ SameEnds(q, r) /\ q.offers = r.offers
  BY <1>3 DEF Peer, SameEnds
<1>5. PICK o \in BOOLEAN : o = (rtc[c].offerSent \/ pc.isInitiator)
  OBVIOUS
<1>6. rtc' = [rtc EXCEPT ![c].pc = q, ![c].offerSent = o]
  BY <1>1, <1>2, <1>3, <1>5 DEF NegotiationNeeded
<1>7. OthersSame(c) /\ RestSame(c) /\ rtc'[c].pc = q
  BY <1>6, PeerChange
<1>8. /\ pc.isInitiator => SameEnds(r, pc) /\ r.offers # <<>>
      /\ ~pc.isInitiator => r = pc
  BY <1>2, FirstOfferMade
<1>9. SameEnds(q, pc)
  BY <1>4, <1>8 DEF SameEnds
<1>10. QED
  BY <1>1, <1>4, <1>7, <1>8, <1>9, NoneIsNoPeer

LEMMA SendOfferEffect ==
    ASSUME Typed, NEW c \in Clients, SendOffer(c)
    PROVE  /\ OthersSame(c) /\ RestSame(c)
           /\ rtc[c].pc # None /\ rtc[c].pc.sig # "have-remote-offer" /\ rtc[c].pc.offers # <<>>
           /\ rtc'[c].pc # None /\ rtc'[c].pc.sig = "have-local-offer"
           /\ rtc'[c].pc.callId = rtc[c].pc.callId /\ rtc'[c].pc.isInitiator = rtc[c].pc.isInitiator
           /\ rtc'[c].pc.peer = rtc[c].pc.peer /\ rtc'[c].pc.via = rtc[c].pc.via
           /\ rtc[c].pc.callId \in Calls /\ inbox' = Relay(c, "offer", rtc[c].pc.callId)
<1>1. PICK pc \in Peer : /\ pc = rtc[c].pc /\ pc # None /\ pc.offers # <<>>
                         /\ pc.sig # "have-remote-offer"
  BY DEF SendOffer, Typed, PagesOK, Hook
<1>2. pc.offers \in Seq(BOOLEAN) /\ Tail(pc.offers) \in Seq(BOOLEAN) /\ pc.callId \in Calls
  <2>1. pc.offers \in Seq(BOOLEAN) /\ pc.callId \in Calls
    BY DEF Peer
  <2>2. QED
    BY <1>1, <2>1, HeadTailProperties
<1>3. PICK q : q = [pc EXCEPT !.sig = "have-local-offer", !.offers = Tail(@),
                              !.needed = @ /\ ~Head(pc.offers)]
  OBVIOUS
<1>4. /\ q \in Peer /\ q.sig = "have-local-offer" /\ q.callId = pc.callId
      /\ q.isInitiator = pc.isInitiator /\ q.peer = pc.peer /\ q.via = pc.via
  BY <1>2, <1>3 DEF Peer
<1>5. rtc' = [rtc EXCEPT ![c].pc = q, ![c].offerSent = TRUE]
  BY <1>1, <1>3 DEF SendOffer
<1>6. OthersSame(c) /\ RestSame(c) /\ rtc'[c].pc = q
  BY <1>5, PeerChange
<1>7. QED
  BY <1>1, <1>2, <1>4, <1>6, NoneIsNoPeer DEF SendOffer

LEMMA SendAnswerEffect ==
    ASSUME Typed, NEW c \in Clients, SendAnswer(c)
    PROVE  /\ OthersSame(c) /\ RestSame(c)
           /\ rtc[c].pc # None /\ rtc[c].pc.sig = "have-remote-offer"
           /\ rtc'[c].pc # None /\ rtc'[c].pc.sig = "stable"
           /\ rtc'[c].pc.callId = rtc[c].pc.callId /\ rtc'[c].pc.isInitiator = rtc[c].pc.isInitiator
           /\ rtc'[c].pc.peer = rtc[c].pc.peer /\ rtc'[c].pc.via = rtc[c].pc.via
           /\ rtc'[c].pc.offers = rtc[c].pc.offers
           /\ rtc[c].pc.via \in Calls /\ inbox' = Relay(c, "answer", rtc[c].pc.via)
<1>1. PICK pc \in Peer : pc = rtc[c].pc /\ pc # None /\ pc.sig = "have-remote-offer"
  BY DEF SendAnswer, Typed, PagesOK, Hook
<1>2. pc.via \in Calls
  BY <1>1 DEF Typed, PagesOK, Heard
<1>3. PICK q : q = [pc EXCEPT !.sig = "stable"]
  OBVIOUS
<1>4. /\ q \in Peer /\ q.sig = "stable" /\ q.callId = pc.callId
      /\ q.isInitiator = pc.isInitiator /\ q.peer = pc.peer /\ q.via = pc.via
      /\ q.offers = pc.offers
  BY <1>3 DEF Peer
<1>5. rtc' = [rtc EXCEPT ![c].pc = q]
  BY <1>1, <1>3 DEF SendAnswer
<1>6. rtc[c].offerSent \in BOOLEAN
  BY DEF Typed, PagesOK, Hook
<1>7. OthersSame(c) /\ RestSame(c) /\ rtc'[c].pc = q
  BY <1>5, <1>6, PeerChange
<1>8. QED
  BY <1>1, <1>2, <1>4, <1>7, NoneIsNoPeer DEF SendAnswer

LEMMA OnMatchFoundEffect ==
    ASSUME Typed, NEW c \in Clients, OnMatchFound(c)
    PROVE  /\ OthersSame(c) /\ rtc'[c].pc = rtc[c].pc /\ rtc'[c].listening = rtc[c].listening
           /\ rtc'[c].isInitiator = rtc[c].isInitiator /\ rtc'[c].deps = rtc[c].deps
           /\ rtc'[c].crossed <=> rtc[c].pc # None
           /\ rtc'[c].offerSent = rtc[c].offerSent
           /\ \A d \in Clients : d # c => page'[d] = page[d]
           /\ page'[c].open = page[c].open /\ page'[c].callId = Head(inbox[c]).callId
           /\ page'[c].isInitiator = Head(inbox[c]).isInitiator
<1>1. PICK h : h = [rtc[c] EXCEPT !.crossed = rtc[c].pc # None]
  OBVIOUS
<1>2. rtc' = [rtc EXCEPT ![c] = h] /\ rtc \in [Clients -> Hook]
  BY <1>1 DEF OnMatchFound, Typed, PagesOK
<1>3. /\ h.pc = rtc[c].pc /\ h.listening = rtc[c].listening /\ h.isInitiator = rtc[c].isInitiator
      /\ h.deps = rtc[c].deps /\ h.crossed = (rtc[c].pc # None) /\ h.offerSent = rtc[c].offerSent
  BY <1>1, <1>2 DEF Hook
<1>4. PICK g : g = [page[c] EXCEPT !.callId = Head(inbox[c]).callId,
                                   !.isInitiator = Head(inbox[c]).isInitiator,
                                   !.matchState = "matched"]
  OBVIOUS
<1>5. page' = [page EXCEPT ![c] = g] /\ page \in [Clients -> PageState]
  BY <1>4 DEF OnMatchFound, Typed, PagesOK
<1>6. /\ g.open = page[c].open /\ g.callId = Head(inbox[c]).callId
      /\ g.isInitiator = Head(inbox[c]).isInitiator
  BY <1>4, <1>5 DEF PageState
<1>7. QED
  BY <1>2, <1>3, <1>5, <1>6 DEF OthersSame

LEMMA CleanupEffect ==
    ASSUME Typed, NEW c \in Clients, rtc' = [rtc EXCEPT ![c] = CleanupPeerConnection(@)]
    PROVE  OthersSame(c) /\ RestSame(c) /\ rtc'[c].pc = None /\ ~rtc'[c].offerSent
<1>1. PICK h : h = CleanupPeerConnection(rtc[c])
  OBVIOUS
<1>2. rtc' = [rtc EXCEPT ![c] = h] /\ rtc \in [Clients -> Hook]
  BY <1>1 DEF Typed, PagesOK
<1>3. /\ h.pc = None /\ h.listening = rtc[c].listening /\ h.isInitiator = rtc[c].isInitiator
      /\ h.deps = rtc[c].deps /\ h.crossed = rtc[c].crossed /\ h.offerSent = FALSE
  BY <1>1, <1>2 DEF Hook, CleanupPeerConnection
<1>4. QED
  BY <1>2, <1>3 DEF OthersSame, RestSame

LEMMA BackToQueueEffect ==
    ASSUME Typed, NEW c \in Clients, BackToQueue(c)
    PROVE  /\ \A d \in Clients : d # c => page'[d] = page[d]
           /\ page'[c].open = page[c].open /\ page'[c].callId = None
<1>1. PICK g : g = [page[c] EXCEPT !.callId = None, !.isInitiator = FALSE,
                                   !.matchState = "queue", !.queued = TRUE]
  OBVIOUS
<1>2. page' = [page EXCEPT ![c] = g] /\ page \in [Clients -> PageState]
  BY <1>1 DEF BackToQueue, Typed, PagesOK
<1>3. g.open = page[c].open /\ g.callId = None
  BY <1>1, <1>2 DEF PageState
<1>4. QED
  BY <1>2, <1>3

LEMMA OnOfferEffect ==
    ASSUME Typed, NEW c \in Clients, OnOffer(c)
    PROVE  /\ OthersSame(c) /\ rtc[c].pc # None /\ rtc[c].pc.sig = "stable"
           /\ ~rtc[c].isInitiator /\ rtc[c].listening # None
           /\ rtc'[c].listening = rtc[c].listening /\ rtc'[c].isInitiator = rtc[c].isInitiator
           /\ rtc'[c].deps = rtc[c].deps /\ rtc'[c].offerSent = rtc[c].offerSent
           /\ rtc'[c].crossed <=> rtc[c].crossed \/ Head(inbox[c]).callId # rtc[c].pc.callId
           /\ rtc'[c].pc # None /\ rtc'[c].pc.sig = "have-remote-offer"
           /\ rtc'[c].pc.callId = rtc[c].pc.callId /\ rtc'[c].pc.isInitiator = rtc[c].pc.isInitiator
           /\ rtc'[c].pc.peer = Head(inbox[c]).callId /\ rtc'[c].pc.via = rtc[c].listening
           /\ rtc'[c].pc.offers = rtc[c].pc.offers
<1>1. PICK pc \in Peer : pc = rtc[c].pc
  BY DEF OnOffer, AcceptsOffer, Typed, PagesOK, Hook
<1>2. PICK m : m = Head(inbox[c]).callId
  OBVIOUS
<1>3. PICK q : q = [pc EXCEPT !.sig = "have-remote-offer", !.peer = m, !.via = rtc[c].listening]
  OBVIOUS
<1>4. /\ q.sig = "have-remote-offer" /\ q.callId = pc.callId /\ q.isInitiator = pc.isInitiator
      /\ q.peer = m /\ q.via = rtc[c].listening /\ q.offers = pc.offers
  BY <1>3 DEF Peer
<1>5. PICK h : h = [rtc[c] EXCEPT !.pc = q, !.crossed = Crosses(c)]
  OBVIOUS
<1>6. rtc \in [Clients -> Hook] /\ rtc[c] \in Hook
  BY DEF Typed, PagesOK
<1>7. rtc' = [rtc EXCEPT ![c] = h]
  <2>1. PICK v, n : v = rtc[c].listening /\ n = Crosses(c)
    OBVIOUS
  <2>2. rtc' = [rtc EXCEPT ![c].pc.sig = "have-remote-offer", ![c].pc.peer = m,
                          ![c].pc.via = v, ![c].crossed = n]
    BY <1>2, <2>1, Zenon DEF OnOffer
  <2>3. q = [rtc[c].pc EXCEPT !.sig = "have-remote-offer", !.peer = m, !.via = v]
    BY <1>1, <1>3, <2>1
  <2>4. h = [rtc[c] EXCEPT !.pc = q, !.crossed = n]
    BY <1>5, <2>1
  <2>5. QED
    BY <1>1, <1>6, <2>2, <2>3, <2>4 DEF Hook
<1>8. /\ h.pc = q /\ h.listening = rtc[c].listening /\ h.isInitiator = rtc[c].isInitiator
      /\ h.deps = rtc[c].deps /\ h.crossed = Crosses(c) /\ h.offerSent = rtc[c].offerSent
  BY <1>5, <1>6 DEF Hook
<1>9. rtc'[c] = h /\ OthersSame(c)
  BY <1>6, <1>7 DEF OthersSame
<1>10. rtc'[c].pc # None
  <2>1. rtc'[c] \in Hook /\ PagesOK'
    BY OnOfferTyped DEF Typed, PagesOK
  <2>2. q \in Peer
    <3>1. m \in Calls /\ rtc[c].listening \in Calls
      BY <1>2, <1>6, ConsumeTyped DEF OnOffer, AcceptsOffer, Hook, Message, Typed
    <3>2. QED
      BY <1>3, <3>1 DEF Peer
  <2>3. QED
    BY <1>8, <1>9, <2>2, NoneIsNoPeer
<1>11. Crosses(c) <=> rtc[c].crossed \/ m # rtc[c].pc.callId
  BY <1>2 DEF Crosses
<1>12. QED
  BY <1>1, <1>2, <1>4, <1>8, <1>9, <1>10, <1>11 DEF OnOffer, AcceptsOffer

LEMMA OnAnswerEffect ==
    ASSUME Typed, NEW c \in Clients, OnAnswer(c)
    PROVE  /\ OthersSame(c) /\ rtc[c].pc # None /\ rtc[c].pc.sig = "have-local-offer"
           /\ rtc[c].isInitiator /\ rtc[c].listening # None
           /\ rtc'[c].listening = rtc[c].listening /\ rtc'[c].isInitiator = rtc[c].isInitiator
           /\ rtc'[c].deps = rtc[c].deps /\ rtc'[c].offerSent = rtc[c].offerSent
           /\ rtc'[c].crossed <=> rtc[c].crossed \/ Head(inbox[c]).callId # rtc[c].pc.callId
           /\ rtc'[c].pc # None /\ rtc'[c].pc.sig = "stable"
           /\ rtc'[c].pc.callId = rtc[c].pc.callId /\ rtc'[c].pc.isInitiator = rtc[c].pc.isInitiator
           /\ rtc'[c].pc.peer = Head(inbox[c]).callId /\ rtc'[c].pc.via = rtc[c].pc.via
           /\ rtc'[c].pc.offers = rtc[c].pc.offers
<1>1. PICK pc \in Peer : pc = rtc[c].pc
  BY DEF OnAnswer, AcceptsAnswer, Typed, PagesOK, Hook
<1>2. PICK m : m = Head(inbox[c]).callId
  OBVIOUS
<1>3. PICK q : q = [pc EXCEPT !.sig = "stable", !.peer = m]
  OBVIOUS
<1>4. /\ q.sig = "stable" /\ q.callId = pc.callId /\ q.isInitiator = pc.isInitiator
      /\ q.peer = m /\ q.via = pc.via /\ q.offers = pc.offers
  BY <1>3 DEF Peer
<1>5. PICK h : h = [rtc[c] EXCEPT !.pc = q, !.crossed = Crosses(c)]
  OBVIOUS
<1>6. rtc \in [Clients -> Hook] /\ rtc[c] \in Hook
  BY DEF Typed, PagesOK
<1>7. rtc' = [rtc EXCEPT ![c] = h]
  BY <1>1, <1>2, <1>3, <1>5, <1>6 DEF OnAnswer, Hook
<1>8. /\ h.pc = q /\ h.listening = rtc[c].listening /\ h.isInitiator = rtc[c].isInitiator
      /\ h.deps = rtc[c].deps /\ h.crossed = Crosses(c) /\ h.offerSent = rtc[c].offerSent
  BY <1>5, <1>6 DEF Hook
<1>9. rtc'[c] = h /\ OthersSame(c)
  BY <1>6, <1>7 DEF OthersSame
<1>10. rtc'[c].pc # None
  <2>1. m \in Calls
    BY <1>2, ConsumeTyped DEF OnAnswer, Message, Typed
  <2>2. q \in Peer
    BY <1>3, <2>1 DEF Peer
  <2>3. QED
    BY <1>8, <1>9, <2>2, NoneIsNoPeer
<1>11. Crosses(c) <=> rtc[c].crossed \/ m # rtc[c].pc.callId
  BY <1>2 DEF Crosses
<1>12. QED
  BY <1>1, <1>2, <1>4, <1>8, <1>9, <1>10, <1>11 DEF OnAnswer, AcceptsAnswer

LEMMA ReconnectEffect ==
    ASSUME Typed, NEW c \in Clients, Reconnect(c)
    PROVE  /\ OthersSame(c) /\ rtc'[c].pc = rtc[c].pc /\ rtc'[c].listening = None
           /\ rtc'[c].deps[2] = page[c].callId /\ rtc'[c].offerSent = rtc[c].offerSent
           /\ rtc'[c].isInitiator = rtc[c].isInitiator
<1>1. PICK h : h = [rtc[c] EXCEPT !.listening = None,
                                  !.deps = <<FALSE, page[c].callId, page[c].isInitiator>>]
  OBVIOUS
<1>2. rtc \in [Clients -> Hook]
  BY DEF Typed, PagesOK
<1>3. rtc' = [rtc EXCEPT ![c] = h]
  BY <1>1, <1>2 DEF Reconnect
<1>4. /\ h.pc = rtc[c].pc /\ h.listening = None /\ h.isInitiator = rtc[c].isInitiator
      /\ h.deps = <<FALSE, page[c].callId, page[c].isInitiator>> /\ h.offerSent = rtc[c].offerSent
  BY <1>1, <1>2 DEF Hook
<1>5. QED
  BY <1>2, <1>3, <1>4 DEF OthersSame

LEMMA UnmountEffect ==
    ASSUME Typed, NEW c \in Clients, Unmount(c)
    PROVE  /\ OthersSame(c) /\ rtc'[c] = NewHook
           /\ \A d \in Clients : d # c => page'[d] = page[d]
           /\ page[c].open /\ ~page'[c].open /\ page'[c].callId = page[c].callId
<1>1. PICK g : g = [page[c] EXCEPT !.open = FALSE]
  OBVIOUS
<1>2. page' = [page EXCEPT ![c] = g] /\ page \in [Clients -> PageState] /\ rtc \in [Clients -> Hook]
  BY <1>1 DEF Unmount, Typed, PagesOK
<1>3. g.open = FALSE /\ g.callId = page[c].callId
  BY <1>1, <1>2 DEF PageState
<1>4. QED
  BY <1>2, <1>3 DEF Unmount, OthersSame

----------------------------------------------------------------------------
(* The invariant.                                                          *)

\* The sockets in the queue and in pairings are connections their client has made.
Sitting ==
    \A i \in DOMAIN queue : queue[i][2] <= conns[queue[i][1]]

SittingPairs ==
    \A t \in Tasks : task[t].kind = "pair" =>
        /\ task[t].sock[2] <= conns[task[t].sock[1]]
        /\ task[t].peer[2] <= conns[task[t].peer[1]]

\* The gateway has the socket of an open page.
Connected == \A c \in Clients : page[c].open => Sock(c) \in up

\* A client that is not stranded has its first connection.
Unbroken == \A c \in Clients \ stranded : conns[c] = 1

\* Every call anything names was made.
UpTo(x, n) == x # None => x <= n

HookUpTo(h, n) ==
    /\ UpTo(h.listening, n) /\ UpTo(h.deps[2], n)
    /\ h.pc # None => h.pc.callId <= n /\ UpTo(h.pc.via, n)

PagesNumbered == \A c \in Clients : UpTo(page[c].callId, made) /\ HookUpTo(rtc[c], made)

MailNumbered == \A c \in Clients : \A type, k : Pending(c, type, k) => k <= made

GatewayNumbered ==
    /\ \A s \in Sockets : UpTo(meta[s], made)
    /\ \A t \in Tasks : task[t].kind = "end" => task[t].call <= made

\* A match:found on its way is of the call in meta.callId or an earlier one, and not
\* earlier than the page's; it comes behind the news of the calls before it.
Ordered ==
    \A c \in Clients :
        /\ InOrder(inbox[c])
        /\ \A k \in Calls : Pending(c, "found", k) =>
              UpTo(page[c].callId, k) /\ (meta[Sock(c)] # None => k <= meta[Sock(c)])

\* The socket of an open page.
Live(s) == page[s[1]].open /\ Sock(s[1]) = s

\* handleDisconnect of the socket is under way.
Leaving(s) == \E t \in Tasks : task[t].kind \in {"dequeue", "hangup"} /\ task[t].sock = s

\* The other socket of the call: its page is in it, or its end will be announced.
Partner(c, s, k) ==
    /\ s[1] # c /\ meta[s] = k
    /\ \/ Live(s) /\ Has(s[1], k)
       \/ s \in up /\ ~Live(s)
       \/ Leaving(s)

\* Who is in an ended call is told with the others.
Told ==
    \A c \in Clients \ stranded : \A d \in Clients : \A k \in Calls :
        Has(c, k) /\ Pending(d, "ended", k) => Pending(c, "ended", k)

\* Who is in a call hears of its end or has a partner.
Accompanied ==
    \A c \in Clients \ stranded : \A k \in Calls : Has(c, k) =>
        \/ Pending(c, "ended", k)
        \/ Sock(c) \in room[k] /\ \E s \in Sockets : Partner(c, s, k)

Numbered == PagesNumbered /\ MailNumbered /\ GatewayNumbered

LonelyInv ==
    /\ ServedInv /\ Sitting /\ SittingPairs /\ Connected /\ Unbroken
    /\ Numbered /\ Ordered /\ Told /\ Accompanied

\* Only a lost connection makes a new one.
LEMMA ConnsSteps ==
    ASSUME [Next]_vars
    PROVE  conns' = conns \/ \E c \in Clients : Reconnect(c)
<1>1. ASSUME NEW c \in Clients, Page(c) PROVE conns' = conns \/ Reconnect(c)
  BY <1>1 DEF Page, Busy, Granted, Render, NegotiationNeeded, SendOffer,
     SendAnswer, OnMatchFound, OnCallEnded, EndedUnheard, OnOffer, OnAnswer, SdpIgnored, CloseTab
<1>2. ASSUME NEW t \in Tasks, Handler(t) PROVE conns' = conns
  BY <1>2 DEF Handler, Dequeue, HangUp, FinishEnd, TryMatch, Announce, HandlerFails
<1>3. QED
  BY <1>1, <1>2 DEF Next, vars, IceFails, Leave, HandleDisconnect

\* The connections of a client only grow in number.
LEMMA ConnsGrow ==
    ASSUME Typed, [Next]_vars
    PROVE  \A c \in Clients : conns'[c] = conns[c] \/ (conns'[c] = conns[c] + 1 /\ c \in stranded')
<1>1. conns' = conns \/ \E c \in Clients : Reconnect(c)
  BY ConnsSteps
<1>2. ASSUME NEW c \in Clients, Reconnect(c)
      PROVE  conns' = [conns EXCEPT ![c] = @ + 1] /\ c \in stranded'
  BY <1>2 DEF Reconnect
<1>3. QED
  BY <1>1, <1>2 DEF Typed, NetOK

\* Nobody is ever repaired.
LEMMA StrandedGrows ==
    ASSUME [Next]_vars
    PROVE  stranded \subseteq stranded'
<1>1. ASSUME NEW c \in Clients, Page(c) PROVE stranded \subseteq stranded'
  BY <1>1 DEF Page, Busy, Reconnect, Granted, Render, NegotiationNeeded, SendOffer,
     SendAnswer, OnMatchFound, OnCallEnded, EndedUnheard, OnOffer, OnAnswer, SdpIgnored, CloseTab,
     Strands
<1>2. ASSUME NEW t \in Tasks, Handler(t) PROVE stranded \subseteq stranded'
  BY <1>2 DEF Handler, Dequeue, HangUp, FinishEnd, TryMatch, Announce, HandlerFails
<1>3. QED
  BY <1>1, <1>2 DEF Next, vars, IceFails, Leave, HandleDisconnect

LEMMA UnbrokenKept ==
    ASSUME Typed, Unbroken, [Next]_vars
    PROVE  Unbroken'
<1>1. ASSUME NEW c \in Clients \ stranded' PROVE conns'[c] = 1
  BY ConnsGrow, StrandedGrows DEF Unbroken
<1>2. QED
  BY <1>1 DEF Unbroken

\* The queue takes sockets of pages, and pairings take theirs from the queue.
LEMMA QueueFrom ==
    ASSUME Typed, [Next]_vars
    PROVE  \A i \in DOMAIN queue' :
              (\E j \in DOMAIN queue : queue[j] = queue'[i]) \/ \E c \in Clients : queue'[i] = Sock(c)
<1>0. queue \in Seq(Sockets)
  BY DEF Typed, GatewayOK
<1>1. ASSUME NEW c \in Clients, Enqueue(Sock(c))
      PROVE  \A i \in DOMAIN queue' : (\E j \in DOMAIN queue : queue[j] = queue'[i]) \/ queue'[i] = Sock(c)
  <2>1. PICK x : x = Sock(c)
    OBVIOUS
  <2>2. queue' = Append(queue, x) /\ x \in Sockets
    BY <1>1, <2>1, OwnSocket DEF Enqueue, Typed
  <2>3. QED
    BY <1>0, <2>1, <2>2
<1>2. CASE queue' = queue
  BY <1>2
<1>3. ASSUME NEW c \in Clients, Render(c) \/ OnCallEnded(c)
      PROVE  queue' = queue \/ Enqueue(Sock(c))
  BY <1>3 DEF Render, OnCallEnded
<1>4. ASSUME NEW t \in Tasks, TryMatch(t)
      PROVE  \A i \in DOMAIN queue' : \E j \in DOMAIN queue : queue[j] = queue'[i]
  <2>1. queue' = Tail(Tail(queue)) /\ Len(queue) >= 2
    BY <1>4 DEF TryMatch
  <2>2. QED
    BY <1>0, <2>1, FirstTwo
<1>5. ASSUME NEW t \in Tasks, Dequeue(t)
      PROVE  \A i \in DOMAIN queue' : \E j \in DOMAIN queue : queue[j] = queue'[i]
  BY <1>0, <1>5, WithoutKeeps DEF Dequeue
<1>6. \/ queue' = queue
      \/ \E c \in Clients : Render(c) \/ OnCallEnded(c)
      \/ \E t \in Tasks : TryMatch(t) \/ Dequeue(t)
  <2>1. ASSUME NEW c \in Clients, Page(c) PROVE queue' = queue \/ Render(c) \/ OnCallEnded(c)
    BY <2>1 DEF Page, Busy, Reconnect, Granted, NegotiationNeeded, SendOffer, server,
       SendAnswer, OnMatchFound, EndedUnheard, OnOffer, OnAnswer, SdpIgnored, CloseTab
  <2>2. ASSUME NEW t \in Tasks, Handler(t) PROVE queue' = queue \/ TryMatch(t) \/ Dequeue(t)
    BY <2>2 DEF Handler, HangUp, FinishEnd, Announce, HandlerFails
  <2>3. QED
    BY <2>1, <2>2 DEF Next, vars, server, IceFails, Leave, HandleDisconnect
<1>7. QED
  BY <1>1, <1>2, <1>3, <1>4, <1>5, <1>6

LEMMA SittingKept ==
    ASSUME Typed, Typed', Sitting, [Next]_vars
    PROVE  Sitting'
<1>1. ASSUME NEW i \in DOMAIN queue' PROVE queue'[i][2] <= conns'[queue'[i][1]]
  <2>1. queue'[i] \in Sockets
    BY DEF Typed, GatewayOK
  <2>2. PICK x : x = queue'[i]
    OBVIOUS
  <2>3. x[1] \in Clients /\ x[2] \in Nat
    BY <2>1, <2>2 DEF Sockets
  <2>4. x[2] <= conns[x[1]]
    <3>1. CASE \E j \in DOMAIN queue : queue[j] = x
      BY <3>1 DEF Sitting
    <3>2. CASE \E c \in Clients : x = Sock(c)
      BY <3>2, OwnSocket DEF Typed, NetOK
    <3>3. QED
      BY <2>2, <3>1, <3>2, QueueFrom
  <2>5. conns'[x[1]] \in {conns[x[1]], conns[x[1]] + 1} /\ conns[x[1]] \in Nat
    BY <2>3, ConnsGrow DEF Typed, NetOK
  <2>6. x[2] <= conns'[x[1]]
    BY <2>3, <2>4, <2>5
  <2>7. QED
    BY <2>2, <2>6
<1>2. QED
  BY <1>1 DEF Sitting

\* Which steps start a handler.
LEMMA HandlerBegins ==
    ASSUME Typed, [Next]_vars, NEW t \in Tasks, task'[t] # task[t]
    PROVE  /\ task'[t].kind = "pair" => TryMatch(t)
           /\ task'[t].kind = "end" =>
                 \E c \in Clients : /\ IceFails(t, c) \/ Leave(t, c)
                                    /\ task'[t].call \in {page[c].callId, rtc[c].pc.callId}
                                    /\ IceFails(t, c) => task'[t].call = rtc[c].pc.callId
                                    /\ Leave(t, c) => task'[t].call = page[c].callId /\ page[c].callId # None
<1>0. task \in [Tasks -> Job] /\ task # task'
  BY DEF Typed, JobsOK
<1>1. ASSUME NEW c \in Clients, Page(c) PROVE FALSE
  BY <1>0, <1>1 DEF Page, Busy, Reconnect, Granted, Render, NegotiationNeeded, SendOffer, server,
     SendAnswer, OnMatchFound, OnCallEnded, EndedUnheard, OnOffer, OnAnswer, SdpIgnored, CloseTab
<1>2. ASSUME NEW u \in Tasks, NEW c \in Clients, IceFails(u, c)
      PROVE  u = t /\ task'[t].kind = "end" /\ task'[t].call = rtc[c].pc.callId
  <2>1. PICK h : h = [kind |-> "end", sock |-> Sock(c), peer |-> None, call |-> rtc[c].pc.callId]
    OBVIOUS
  <2>2. task' = [task EXCEPT ![u] = h] /\ h.kind = "end" /\ h.call = rtc[c].pc.callId
    BY <1>2, <2>1 DEF IceFails, EndCall, Begin
  <2>3. QED
    BY <1>0, <2>2
<1>3. ASSUME NEW u \in Tasks, NEW c \in Clients, Leave(u, c)
      PROVE  /\ u = t /\ task'[t].kind = "end" /\ task'[t].call = page[c].callId
             /\ page[c].callId # None
  <2>1. PICK h : h = [kind |-> "end", sock |-> Sock(c), peer |-> None, call |-> page[c].callId]
    OBVIOUS
  <2>2. /\ page[c].callId # None /\ task' = [task EXCEPT ![u] = h]
        /\ h.kind = "end" /\ h.call = page[c].callId
    BY <1>0, <1>3, <2>1 DEF Leave, EndCall, Begin
  <2>3. QED
    BY <1>0, <2>2
<1>4. ASSUME NEW u \in Tasks, NEW x \in Sockets, HandleDisconnect(u, x)
      PROVE  u = t /\ task'[t].kind = "dequeue"
  <2>1. PICK h : h = [kind |-> "dequeue", sock |-> x, peer |-> None, call |-> None]
    OBVIOUS
  <2>2. task' = [task EXCEPT ![u] = h] /\ h.kind = "dequeue"
    BY <1>4, <2>1 DEF HandleDisconnect, Begin
  <2>3. QED
    BY <1>0, <2>2
<1>5. ASSUME NEW u \in Tasks, TryMatch(u) PROVE u = t /\ task'[t].kind = "pair"
  <2>1. PICK h : h = [kind |-> "pair", sock |-> queue[1], peer |-> queue[2], call |-> None]
    OBVIOUS
  <2>2. task' = [task EXCEPT ![u] = h] /\ h.kind = "pair"
    BY <1>5, <2>1 DEF TryMatch, Begin
  <2>3. QED
    BY <1>0, <2>2
<1>6. ASSUME NEW u \in Tasks, Dequeue(u) PROVE u = t /\ task'[t].kind \in {"hangup", "idle"}
  <2>1. PICK h : h = [task[u] EXCEPT !.kind = "hangup"]
    OBVIOUS
  <2>2. h.kind = "hangup"
    BY <1>0, <2>1 DEF Job
  <2>3. task' = [task EXCEPT ![u] = h] \/ task' = [task EXCEPT ![u] = IdleTask]
    BY <1>6, <2>1 DEF Dequeue, Done
  <2>4. QED
    BY <1>0, <2>2, <2>3, IdleJob
<1>7. ASSUME NEW u \in Tasks, Done(u) PROVE u = t /\ task'[t].kind = "idle"
  BY <1>0, <1>7, IdleJob DEF Done
<1>8. ASSUME NEW u \in Tasks, Handler(u)
      PROVE  task'[t].kind \in {"hangup", "idle"} \/ (u = t /\ TryMatch(u))
  BY <1>5, <1>6, <1>7, <1>8 DEF Handler, HangUp, FinishEnd, Announce, HandlerFails
<1>9. CASE \E u \in Tasks, c \in Clients : IceFails(u, c) \/ Leave(u, c)
  BY <1>2, <1>3, <1>9
<1>10. CASE \E u \in Tasks, x \in Sockets : HandleDisconnect(u, x)
  BY <1>4, <1>10
<1>11. CASE \E u \in Tasks : Handler(u)
  <2>1. task'[t].kind \in {"hangup", "idle"} \/ TryMatch(t)
    BY <1>8, <1>11
  <2>2. TryMatch(t) => task'[t].kind = "pair"
    BY <1>5
  <2>3. task'[t].kind # "end"
    BY <2>1, <2>2
  <2>4. task'[t].kind = "pair" => TryMatch(t)
    BY <2>1
  <2>5. QED
    BY <2>3, <2>4
<1>12. CASE UNCHANGED vars
  BY <1>0, <1>12 DEF vars, server
<1>13. QED
  BY <1>1, <1>9, <1>10, <1>11, <1>12 DEF Next

LEMMA SittingPairsKept ==
    ASSUME Typed, Sitting, SittingPairs, [Next]_vars
    PROVE  SittingPairs'
<1>1. ASSUME NEW t \in Tasks, task'[t].kind = "pair", task'[t] # task[t] PROVE TryMatch(t)
  BY <1>1, HandlerBegins
<1>2. ASSUME NEW t \in Tasks, task'[t].kind = "pair"
      PROVE  /\ task'[t].sock \in Sockets /\ task'[t].peer \in Sockets
             /\ task'[t].sock[2] <= conns[task'[t].sock[1]]
             /\ task'[t].peer[2] <= conns[task'[t].peer[1]]
  <2>1. CASE task'[t] = task[t]
    BY <1>2, <2>1 DEF SittingPairs, Typed, JobsOK, Briefed
  <2>2. CASE task'[t] # task[t]
    <3>1. TryMatch(t)
      BY <1>1, <1>2, <2>2
    <3>2. task'[t] = [kind |-> "pair", sock |-> queue[1], peer |-> queue[2], call |-> None]
      BY <3>1 DEF TryMatch, Begin, Typed, JobsOK
    <3>3. task'[t].sock = queue[1] /\ task'[t].peer = queue[2]
      BY <3>2
    <3>4. 1 \in DOMAIN queue /\ 2 \in DOMAIN queue /\ queue[1] \in Sockets /\ queue[2] \in Sockets
      BY <3>1 DEF TryMatch, Typed, GatewayOK
    <3>5. QED
      BY <3>3, <3>4 DEF Sitting
  <2>3. QED
    BY <2>1, <2>2
<1>3. ASSUME NEW x \in Sockets, x[2] <= conns[x[1]] PROVE x[2] <= conns'[x[1]]
  <2>1. x[1] \in Clients /\ x[2] \in Nat
    BY DEF Sockets
  <2>2. conns'[x[1]] \in {conns[x[1]], conns[x[1]] + 1} /\ conns[x[1]] \in Nat
    BY <2>1, ConnsGrow DEF Typed, NetOK
  <2>3. QED
    BY <1>3, <2>1, <2>2
<1>4. QED
  BY <1>2, <1>3 DEF SittingPairs

\* Pages are closed and never opened, and enter the call of the match:found they handle.
LEMMA PageChanges ==
    ASSUME Typed, [Next]_vars, NEW c \in Clients
    PROVE  /\ page'[c].open => page[c].open
           /\ \/ page'[c].callId = page[c].callId
              \/ OnCallEnded(c) /\ page'[c].callId = None
              \/ OnMatchFound(c) /\ page'[c].callId = Head(inbox[c]).callId
<1>1. ASSUME NEW d \in Clients, Render(d)
      PROVE  page'[c].open = page[c].open /\ page'[c].callId = page[c].callId
  BY <1>1, RenderEffect
<1>2. ASSUME NEW d \in Clients, OnMatchFound(d)
      PROVE  \/ page'[c] = page[c]
             \/ c = d /\ page'[c].open = page[c].open /\ page'[c].callId = Head(inbox[c]).callId
  BY <1>2, OnMatchFoundEffect
<1>3. ASSUME NEW d \in Clients, OnCallEnded(d)
      PROVE  \/ page'[c] = page[c]
             \/ d = c /\ page'[c].open = page[c].open /\ page'[c].callId = None
  BY <1>3, BackToQueueEffect DEF OnCallEnded
<1>4. ASSUME NEW d \in Clients, Unmount(d)
      PROVE  page'[c] = page[c] \/ (~page'[c].open /\ page'[c].callId = page[c].callId)
  BY <1>4, UnmountEffect
<1>5. \/ page' = page
      \/ \E d \in Clients : Render(d) \/ OnMatchFound(d) \/ OnCallEnded(d) \/ Unmount(d)
  <2>1. ASSUME NEW d \in Clients, Page(d)
        PROVE  page' = page \/ Render(d) \/ OnMatchFound(d) \/ OnCallEnded(d) \/ Unmount(d)
    BY <2>1 DEF Page, Busy, Reconnect, Granted, NegotiationNeeded, SendOffer, client,
       SendAnswer, EndedUnheard, OnOffer, OnAnswer, SdpIgnored, CloseTab
  <2>2. ASSUME NEW t \in Tasks, Handler(t) PROVE page' = page
    BY <2>2 DEF Handler, Dequeue, HangUp, FinishEnd, TryMatch, Announce, HandlerFails, client
  <2>3. QED
    BY <2>1, <2>2 DEF Next, vars, client, IceFails, Leave, HandleDisconnect
<1>6. QED
  BY <1>1, <1>2, <1>3, <1>4, <1>5

LEMMA ConnectedKept ==
    ASSUME Typed, Connected, [Next]_vars
    PROVE  Connected'
<1>1. \/ UNCHANGED <<conns, up>>
      \/ \E c \in Clients : Reconnect(c)
      \/ \E t \in Tasks, x \in Sockets : HandleDisconnect(t, x)
  <2>1. ASSUME NEW d \in Clients, Page(d) PROVE UNCHANGED <<conns, up>> \/ Reconnect(d)
    BY <2>1 DEF Page, Busy, Granted, Render, NegotiationNeeded, SendOffer, server,
       SendAnswer, OnMatchFound, OnCallEnded, EndedUnheard, OnOffer, OnAnswer, SdpIgnored, CloseTab
  <2>2. ASSUME NEW t \in Tasks, Handler(t) PROVE UNCHANGED <<conns, up>>
    BY <2>2 DEF Handler, Dequeue, HangUp, FinishEnd, TryMatch, Announce, HandlerFails
  <2>3. QED
    BY <2>1, <2>2 DEF Next, vars, server, IceFails, Leave
<1>2. ASSUME NEW d \in Clients, page'[d].open PROVE page[d].open /\ Sock(d) \in up
  BY <1>2, PageChanges DEF Connected
<1>3. CASE UNCHANGED <<conns, up>>
  BY <1>2, <1>3 DEF Connected, Sock
<1>4. ASSUME NEW c \in Clients, Reconnect(c) PROVE Connected'
  <2>1. /\ conns' = [conns EXCEPT ![c] = @ + 1] /\ up' = up \cup {<<c, conns[c] + 1>>}
        /\ conns \in [Clients -> Nat]
    BY <1>4 DEF Reconnect, Typed, NetOK
  <2>2. QED
    BY <1>2, <2>1 DEF Connected, Sock
<1>5. ASSUME NEW t \in Tasks, NEW x \in Sockets, HandleDisconnect(t, x) PROVE Connected'
  <2>1. /\ up' = up \ {x} /\ ~(page[x[1]].open /\ Sock(x[1]) = x) /\ UNCHANGED conns
    BY <1>5 DEF HandleDisconnect
  <2>2. ASSUME NEW d \in Clients, page'[d].open PROVE Sock(d) # x
    BY <1>2, <2>1, <2>2, OwnSocket DEF Typed
  <2>3. QED
    BY <1>2, <2>1, <2>2 DEF Connected, Sock
<1>6. QED
  BY <1>1, <1>3, <1>4, <1>5

\* Only a pairing makes a call, and makes one.
LEMMA MadeSteps ==
    ASSUME [Next]_vars
    PROVE  made' = made \/ \E t \in Tasks : Announce(t)
<1>1. ASSUME NEW d \in Clients, Page(d) PROVE made' = made
  BY <1>1 DEF Page, Busy, Reconnect, Granted, Render, NegotiationNeeded, SendOffer, server,
     SendAnswer, OnMatchFound, OnCallEnded, EndedUnheard, OnOffer, OnAnswer, SdpIgnored, CloseTab
<1>2. ASSUME NEW t \in Tasks, Handler(t) PROVE made' = made \/ Announce(t)
  BY <1>2 DEF Handler, Dequeue, HangUp, FinishEnd, TryMatch, HandlerFails
<1>3. QED
  BY <1>1, <1>2 DEF Next, vars, server, IceFails, Leave, HandleDisconnect

LEMMA MadeGrows ==
    ASSUME Typed, [Next]_vars
    PROVE  made \in Nat /\ made' \in {made, made + 1} /\ made' \in Nat /\ made <= made'
<1>1. made' = made \/ \E t \in Tasks : Announce(t)
  BY MadeSteps
<1>2. made \in Nat
  BY DEF Typed, JobsOK
<1>3. made' \in {made, made + 1}
  BY <1>1 DEF Announce
<1>4. QED
  BY <1>2, <1>3

\* The steps that change a page's hook.
HookTouched(c) ==
    \/ Render(c) \/ NegotiationNeeded(c) \/ SendOffer(c) \/ SendAnswer(c)
    \/ OnMatchFound(c) \/ OnCallEnded(c) \/ OnOffer(c) \/ OnAnswer(c)
    \/ \E t \in Tasks : IceFails(t, c)
    \/ Reconnect(c) \/ Unmount(c)

LEMMA HookSteps ==
    ASSUME Typed, [Next]_vars, NEW c \in Clients
    PROVE  rtc'[c] = rtc[c] \/ HookTouched(c)
<1>1. ASSUME NEW d \in Clients, Page(d), d # c PROVE rtc'[c] = rtc[c]
  <2>1. OthersSame(d) \/ rtc' = rtc
    BY <1>1, RenderEffect, NegotiationNeededEffect, SendOfferEffect, SendAnswerEffect,
       OnMatchFoundEffect, CleanupEffect, OnOfferEffect, OnAnswerEffect, ReconnectEffect,
       UnmountEffect
       DEF Page, Busy, Granted, EndedUnheard, SdpIgnored, CloseTab, OnCallEnded, client
  <2>2. QED
    BY <1>1, <2>1 DEF OthersSame
<1>2. ASSUME Page(c) PROVE rtc'[c] = rtc[c] \/ HookTouched(c)
  BY <1>2 DEF Page, Busy, Granted, EndedUnheard, SdpIgnored, CloseTab, client, HookTouched
<1>3. ASSUME NEW t \in Tasks, NEW d \in Clients, IceFails(t, d) \/ Leave(t, d)
      PROVE  rtc'[c] = rtc[c] \/ HookTouched(c)
  <2>1. OthersSame(d)
    BY <1>3, CleanupEffect, UnmountEffect DEF IceFails, Leave
  <2>2. d = c => HookTouched(c)
    BY <1>3 DEF IceFails, Leave, HookTouched
  <2>3. QED
    BY <2>1, <2>2 DEF OthersSame
<1>4. ASSUME NEW t \in Tasks, Handler(t) PROVE rtc' = rtc
  BY <1>4 DEF Handler, Dequeue, HangUp, FinishEnd, TryMatch, Announce, HandlerFails, client
<1>5. QED
  BY <1>1, <1>2, <1>3, <1>4 DEF Next, vars, client, HandleDisconnect

\* The steps that change an inbox.
LEMMA MailSteps ==
    ASSUME [Next]_vars
    PROVE  \/ inbox' = inbox
           \/ \E c \in Clients : SendOffer(c) \/ SendAnswer(c)
           \/ \E c \in Clients, type \in {"found", "ended", "offer", "answer"} :
                 Arrives(c, type) /\ Consume(c)
           \/ \E c \in Clients : inbox' = [inbox EXCEPT ![c] = <<>>]
           \/ \E t \in Tasks : HangUp(t) \/ FinishEnd(t) \/ Announce(t)
<1>1. ASSUME NEW c \in Clients, Page(c)
      PROVE  \/ inbox' = inbox \/ SendOffer(c) \/ SendAnswer(c)
             \/ inbox' = [inbox EXCEPT ![c] = <<>>]
             \/ \E type \in {"found", "ended", "offer", "answer"} : Arrives(c, type) /\ Consume(c)
  BY <1>1 DEF Page, Busy, Reconnect, Granted, Render, NegotiationNeeded, OnMatchFound, OnCallEnded,
     EndedUnheard, OnOffer, OnAnswer, SdpIgnored, CloseTab, Unmount
<1>2. ASSUME NEW t \in Tasks, Handler(t)
      PROVE  inbox' = inbox \/ HangUp(t) \/ FinishEnd(t) \/ Announce(t)
  BY <1>2 DEF Handler, Dequeue, TryMatch, HandlerFails
<1>3. ASSUME NEW t \in Tasks, NEW c \in Clients, IceFails(t, c) \/ Leave(t, c)
      PROVE  inbox' = inbox \/ inbox' = [inbox EXCEPT ![c] = <<>>]
  BY <1>3 DEF IceFails, Leave, Unmount
<1>4. QED
  BY <1>1, <1>2, <1>3 DEF Next, vars, HandleDisconnect

LEMMA UpToGrows ==
    ASSUME NEW x \in Calls \cup {None}, NEW n \in Nat, NEW m \in Nat, UpTo(x, n), n <= m
    PROVE  UpTo(x, m)
  BY CallNumbers DEF UpTo

\* The calls a hook names come from the hook and from the page.
LEMMA HookBounded ==
    ASSUME Typed, [Next]_vars, NEW c \in Clients, NEW n,
           UpTo(page[c].callId, n), HookUpTo(rtc[c], n)
    PROVE  HookUpTo(rtc'[c], n)
<1>0. /\ UpTo(page[c].callId, n) /\ HookUpTo(rtc[c], n)
      /\ rtc[c].pc # None => rtc[c].pc.callId <= n /\ UpTo(rtc[c].pc.via, n)
      /\ UpTo(rtc[c].listening, n) /\ UpTo(rtc[c].deps[2], n)
  BY DEF HookUpTo
<1>1. ASSUME Render(c) PROVE HookUpTo(rtc'[c], n)
  <2>1. PICK h : h = HookEffects(c) /\ h = rtc'[c]
    BY <1>1, RenderEffect
  <2>2. h.listening = page[c].callId /\ h.deps[2] = page[c].callId
    <3>1. h.listening = page[c].callId /\ h.deps = <<TRUE, page[c].callId, page[c].isInitiator>>
      BY <2>1, HookEffect
    <3>2. QED
      BY <3>1
  <2>3. CASE rtc[c].pc # None
    <3>1. SameEnds(h.pc, rtc[c].pc)
      BY <2>1, <2>3, HookEffect
    <3>2. QED
      BY <1>0, <2>1, <2>2, <2>3, <3>1 DEF HookUpTo, SameEnds
  <2>4. CASE rtc[c].pc = None /\ page[c].callId = None
    <3>1. h.pc = None
      BY <2>1, <2>4, HookEffect
    <3>2. QED
      BY <1>0, <2>1, <2>2, <3>1 DEF HookUpTo
  <2>5. CASE rtc[c].pc = None /\ page[c].callId # None
    <3>1. h.pc.callId = page[c].callId /\ h.pc.via = None
      BY <2>1, <2>5, HookEffect
    <3>2. QED
      BY <1>0, <2>1, <2>2, <2>5, <3>1 DEF HookUpTo, UpTo
  <2>6. QED
    BY <2>3, <2>4, <2>5
<1>2. ASSUME NegotiationNeeded(c) PROVE HookUpTo(rtc'[c], n)
  <2>1. RestSame(c) /\ SameEnds(rtc'[c].pc, rtc[c].pc) /\ rtc[c].pc # None
    BY <1>2, NegotiationNeededEffect
  <2>2. QED
    BY <1>0, <2>1 DEF HookUpTo, RestSame, SameEnds
<1>3. ASSUME SendOffer(c) PROVE HookUpTo(rtc'[c], n)
  <2>1. /\ RestSame(c) /\ rtc'[c].pc.callId = rtc[c].pc.callId
        /\ rtc'[c].pc.via = rtc[c].pc.via /\ rtc[c].pc # None
    BY <1>3, SendOfferEffect
  <2>2. QED
    BY <1>0, <2>1 DEF HookUpTo, RestSame
<1>4. ASSUME SendAnswer(c) PROVE HookUpTo(rtc'[c], n)
  <2>1. /\ RestSame(c) /\ rtc'[c].pc.callId = rtc[c].pc.callId
        /\ rtc'[c].pc.via = rtc[c].pc.via /\ rtc[c].pc # None
    BY <1>4, SendAnswerEffect
  <2>2. QED
    BY <1>0, <2>1 DEF HookUpTo, RestSame
<1>5. ASSUME OnMatchFound(c) PROVE HookUpTo(rtc'[c], n)
  BY <1>0, <1>5, OnMatchFoundEffect DEF HookUpTo
<1>6. ASSUME rtc' = [rtc EXCEPT ![c] = CleanupPeerConnection(@)] PROVE HookUpTo(rtc'[c], n)
  BY <1>0, <1>6, CleanupEffect DEF HookUpTo, RestSame
<1>7. ASSUME OnOffer(c) PROVE HookUpTo(rtc'[c], n)
  <2>1. /\ rtc'[c].listening = rtc[c].listening /\ rtc'[c].deps = rtc[c].deps
        /\ rtc'[c].pc.callId = rtc[c].pc.callId /\ rtc'[c].pc.via = rtc[c].listening
        /\ rtc[c].pc # None
    BY <1>7, OnOfferEffect
  <2>2. QED
    BY <1>0, <2>1 DEF HookUpTo
<1>8. ASSUME OnAnswer(c) PROVE HookUpTo(rtc'[c], n)
  <2>1. /\ rtc'[c].listening = rtc[c].listening /\ rtc'[c].deps = rtc[c].deps
        /\ rtc'[c].pc.callId = rtc[c].pc.callId /\ rtc'[c].pc.via = rtc[c].pc.via
        /\ rtc[c].pc # None
    BY <1>8, OnAnswerEffect
  <2>2. QED
    BY <1>0, <2>1 DEF HookUpTo
<1>9. ASSUME Reconnect(c) PROVE HookUpTo(rtc'[c], n)
  BY <1>0, <1>9, ReconnectEffect DEF HookUpTo, UpTo
<1>10. ASSUME Unmount(c) PROVE HookUpTo(rtc'[c], n)
  BY <1>0, <1>10, UnmountEffect DEF HookUpTo, UpTo, NewHook
<1>11. rtc'[c] = rtc[c] \/ HookTouched(c)
  BY HookSteps
<1>12. ASSUME OnCallEnded(c) \/ \E t \in Tasks : IceFails(t, c) PROVE HookUpTo(rtc'[c], n)
  BY <1>6, <1>12 DEF OnCallEnded, IceFails
<1>13. QED
  BY <1>0, <1>1, <1>2, <1>3, <1>4, <1>5, <1>7, <1>8, <1>9, <1>10, <1>11, <1>12
     DEF HookTouched

\* The hooks name calls that were made.
LEMMA HookNumbered ==
    ASSUME Typed, PagesNumbered, [Next]_vars, NEW c \in Clients
    PROVE  HookUpTo(rtc'[c], made)
<1>1. UpTo(page[c].callId, made) /\ HookUpTo(rtc[c], made)
  BY DEF PagesNumbered
<1>2. QED
  BY <1>1, HookBounded

\* The mail is about calls that were made.
LEMMA MailKept ==
    ASSUME Typed, Typed', Numbered, [Next]_vars
    PROVE  MailNumbered'
<1>0. /\ NetOK /\ made \in Nat /\ made' \in Nat /\ made <= made'
  BY MadeGrows DEF Typed
<1>1. ASSUME NEW c \in Clients, NEW type, NEW k, Pending(c, type, k) PROVE k <= made /\ k \in Nat
  <2>1. k <= made
    BY <1>1 DEF Numbered, MailNumbered
  <2>2. PICK i \in DOMAIN inbox[c] : inbox[c][i].callId = k
    BY <1>1 DEF Pending, Holds
  <2>3. inbox[c][i] \in Message
    BY <1>0, <2>2 DEF NetOK
  <2>4. QED
    BY <2>1, <2>2, <2>3, CallNumbers DEF Message
<1>2. ASSUME NEW m \in Message, NEW R, inbox' = Emit(R, m), m.callId <= made PROVE MailNumbered'
  <2>1. ASSUME NEW c \in Clients, NEW type, NEW k, Pending(c, type, k)' PROVE k <= made'
    <3>1. Pending(c, type, k) \/ k = m.callId
      BY <1>0, <1>2, <2>1, EmitPending
    <3>2. m.callId \in Nat
      BY CallNumbers DEF Message
    <3>3. k \in Nat /\ k <= made
      BY <1>1, <1>2, <3>1, <3>2
    <3>4. QED
      BY <1>0, <3>3
  <2>2. QED
    BY <2>1 DEF MailNumbered
<1>3. ASSUME NEW c \in Clients, NEW type \in {"offer", "answer"}, NEW k \in Calls,
             inbox' = Relay(c, type, k), k <= made
      PROVE  MailNumbered'
  <2>1. PICK m : m = [type |-> type, callId |-> k, isInitiator |-> FALSE]
    OBVIOUS
  <2>2. m \in Message /\ m.callId = k
    BY <2>1 DEF Message
  <2>3. QED
    BY <1>2, <1>3, <2>1, <2>2 DEF Relay
<1>4. ASSUME \A c \in Clients : \A type, k : Pending(c, type, k)' => Pending(c, type, k)
      PROVE  MailNumbered'
  <2>1. ASSUME NEW c \in Clients, NEW type, NEW k, Pending(c, type, k)' PROVE k <= made'
    <3>1. k \in Nat /\ k <= made
      BY <1>1, <1>4, <2>1
    <3>2. QED
      BY <1>0, <3>1
  <2>2. QED
    BY <2>1 DEF MailNumbered
<1>5. ASSUME NEW c \in Clients, SendOffer(c) PROVE MailNumbered'
  <2>1. rtc[c].pc # None /\ rtc[c].pc.callId \in Calls /\ inbox' = Relay(c, "offer", rtc[c].pc.callId)
    BY <1>5, SendOfferEffect
  <2>2. rtc[c].pc.callId <= made
    BY <2>1 DEF Numbered, PagesNumbered, HookUpTo
  <2>3. QED
    BY <1>3, <2>1, <2>2
<1>6. ASSUME NEW c \in Clients, SendAnswer(c) PROVE MailNumbered'
  <2>1. rtc[c].pc # None /\ rtc[c].pc.via \in Calls /\ inbox' = Relay(c, "answer", rtc[c].pc.via)
    BY <1>6, SendAnswerEffect
  <2>2. rtc[c].pc.via <= made
    BY <2>1, CallNumbers DEF Numbered, PagesNumbered, HookUpTo, UpTo
  <2>3. QED
    BY <1>3, <2>1, <2>2
<1>7. ASSUME NEW c \in Clients, NEW type, Arrives(c, type), Consume(c) PROVE MailNumbered'
  <2>1. \A d \in Clients : \A y, j : Pending(d, y, j)' => Pending(d, y, j)
    BY <1>0, <1>7, ConsumePending
  <2>2. QED
    BY <1>4, <2>1
<1>8. ASSUME NEW c \in Clients, inbox' = [inbox EXCEPT ![c] = <<>>] PROVE MailNumbered'
  <2>1. ASSUME NEW d \in Clients, NEW y, NEW j, Pending(d, y, j)' PROVE Pending(d, y, j)
    <3>1. inbox'[d] = inbox[d]
      BY <1>0, <1>8, <2>1, EmptyPending
    <3>2. QED
      BY <2>1, <3>1 DEF Pending
  <2>2. QED
    BY <1>4, <2>1
<1>9. ASSUME NEW t \in Tasks, HangUp(t) PROVE MailNumbered'
  <2>1. task[t].sock \in Sockets
    BY <1>9 DEF HangUp, Typed, JobsOK, Briefed
  <2>2. PICK k \in Calls \cup {None} : k = meta[task[t].sock]
    BY <2>1 DEF Typed, GatewayOK
  <2>3. CASE k = None
    <3>1. inbox' = inbox
      BY <1>9, <2>2, <2>3 DEF HangUp
    <3>2. QED
      BY <1>4, <3>1 DEF Pending
  <2>4. CASE k # None
    <3>1. inbox' = Emit(room[k], Ended(k))
      BY <1>9, <2>2, <2>4 DEF HangUp
    <3>2. k <= made
      BY <2>1, <2>2, <2>4 DEF Numbered, GatewayNumbered, UpTo
    <3>3. Ended(k) \in Message /\ Ended(k).callId = k
      BY <2>4, EndedTyped DEF Ended
    <3>4. QED
      BY <1>2, <3>1, <3>2, <3>3
  <2>5. QED
    BY <2>3, <2>4
<1>10. ASSUME NEW t \in Tasks, FinishEnd(t) PROVE MailNumbered'
  <2>1. PICK k \in Calls : k = task[t].call
    BY <1>10 DEF FinishEnd, Typed, JobsOK, Briefed
  <2>2. inbox' = Emit(room[k], Ended(k)) /\ k <= made
    BY <1>10, <2>1 DEF FinishEnd, Numbered, GatewayNumbered
  <2>3. Ended(k) \in Message /\ Ended(k).callId = k
    BY EndedTyped DEF Ended
  <2>4. QED
    BY <1>2, <2>2, <2>3
<1>11. ASSUME NEW t \in Tasks, Announce(t) PROVE MailNumbered'
  <2>0. PICK a, b \in Sockets, k \in Calls : Announces(t, a, b, k)
    BY <1>11, AnnounceEffect
  <2>1. /\ made' = k
        /\ \A c \in Clients : \A y, j : Pending(c, y, j)' <=>
              Pending(c, y, j) \/ (page[c].open /\ Sock(c) \in {a, b} /\ y = "found" /\ j = k)
    BY <2>0 DEF Announces
  <2>2. ASSUME NEW c \in Clients, NEW type, NEW j, Pending(c, type, j)' PROVE j <= made'
    <3>1. Pending(c, type, j) \/ j = k
      BY <2>1, <2>2
    <3>2. CASE j = k
      BY <1>0, <2>1, <3>2
    <3>3. CASE Pending(c, type, j)
      <4>1. j \in Nat /\ j <= made
        BY <1>1, <3>3
      <4>2. QED
        BY <1>0, <4>1
    <3>4. QED
      BY <3>1, <3>2, <3>3
  <2>3. QED
    BY <2>2 DEF MailNumbered
<1>12. CASE inbox' = inbox
  BY <1>4, <1>12 DEF Pending
<1>13. QED
  BY <1>5, <1>6, <1>7, <1>8, <1>9, <1>10, <1>11, <1>12, MailSteps

\* The steps that change meta.callId.
LEMMA MetaSteps ==
    ASSUME [Next]_vars
    PROVE  meta' = meta \/ \E t \in Tasks : FinishEnd(t) \/ Announce(t)
<1>1. ASSUME NEW c \in Clients, Page(c) PROVE meta' = meta
  BY <1>1 DEF Page, Busy, Reconnect, Granted, Render, NegotiationNeeded, SendOffer, server,
     SendAnswer, OnMatchFound, OnCallEnded, EndedUnheard, OnOffer, OnAnswer, SdpIgnored, CloseTab
<1>2. ASSUME NEW t \in Tasks, Handler(t) PROVE meta' = meta \/ FinishEnd(t) \/ Announce(t)
  BY <1>2 DEF Handler, Dequeue, HangUp, TryMatch, HandlerFails
<1>3. QED
  BY <1>1, <1>2 DEF Next, vars, server, IceFails, Leave, HandleDisconnect

LEMMA MetaValues ==
    ASSUME Typed, [Next]_vars, NEW s \in Sockets
    PROVE  meta'[s] \in {meta[s], None, made'}
<1>1. ASSUME NEW t \in Tasks, FinishEnd(t) PROVE meta'[s] \in {meta[s], None}
  BY <1>1 DEF FinishEnd, Typed, GatewayOK
<1>2. ASSUME NEW t \in Tasks, Announce(t) PROVE meta'[s] \in {meta[s], made'}
  <2>1. PICK a, b \in Sockets, k \in Calls : Announces(t, a, b, k)
    BY <1>2, AnnounceEffect
  <2>2. QED
    BY <2>1 DEF Announces
<1>3. QED
  BY <1>1, <1>2, MetaSteps

LEMMA NumberedKept ==
    ASSUME Typed, Typed', Numbered, [Next]_vars
    PROVE  Numbered'
<1>0. made \in Nat /\ made' \in Nat /\ made <= made'
  BY MadeGrows
<1>1. ASSUME NEW c \in Clients PROVE UpTo(page'[c].callId, made') /\ HookUpTo(rtc'[c], made')
  <2>1. page'[c].callId \in Calls \cup {None} /\ rtc'[c] \in Hook
    BY DEF Typed, PagesOK, PageState
  <2>2. UpTo(page'[c].callId, made)
    <3>1. CASE page'[c].callId \in {page[c].callId, None}
      BY <3>1 DEF Numbered, PagesNumbered, UpTo
    <3>2. CASE OnMatchFound(c) /\ page'[c].callId = Head(inbox[c]).callId
      <4>1. Pending(c, "found", Head(inbox[c]).callId)
        BY <3>2, ConsumePending DEF OnMatchFound, Typed
      <4>2. QED
        BY <3>2, <4>1 DEF Numbered, MailNumbered, UpTo
    <3>3. QED
      BY <3>1, <3>2, PageChanges
  <2>3. UpTo(page'[c].callId, made')
    BY <1>0, <2>1, <2>2, UpToGrows
  <2>4. HookUpTo(rtc'[c], made)
    BY HookNumbered DEF Numbered
  <2>5. HookUpTo(rtc'[c], made')
    <3>1. PICK h \in Hook : h = rtc'[c]
      BY <2>1
    <3>2. /\ h.listening \in Calls \cup {None} /\ h.deps[2] \in Calls \cup {None}
          /\ h.pc \in Peer \cup {None}
      BY DEF Hook
    <3>3. h.pc # None => h.pc.callId \in Calls /\ h.pc.via \in Calls \cup {None}
      BY <3>2 DEF Peer
    <3>4. /\ UpTo(h.listening, made) /\ UpTo(h.deps[2], made)
          /\ h.pc # None => h.pc.callId <= made /\ UpTo(h.pc.via, made)
      BY <2>4, <3>1 DEF HookUpTo
    <3>5. UpTo(h.listening, made') /\ UpTo(h.deps[2], made')
      BY <1>0, <3>2, <3>4, UpToGrows
    <3>6. h.pc # None => h.pc.callId <= made' /\ UpTo(h.pc.via, made')
      <4> SUFFICES ASSUME h.pc # None PROVE h.pc.callId <= made' /\ UpTo(h.pc.via, made')
        OBVIOUS
      <4>1. UpTo(h.pc.via, made')
        BY <1>0, <3>3, <3>4, UpToGrows
      <4>2. h.pc.callId \in Nat /\ h.pc.callId <= made
        BY <3>3, <3>4, CallNumbers
      <4>3. QED
        BY <1>0, <4>1, <4>2
    <3>7. QED
      BY <3>1, <3>5, <3>6 DEF HookUpTo
  <2>6. QED
    BY <2>3, <2>5
<1>2. PagesNumbered'
  BY <1>1 DEF PagesNumbered
<1>3. ASSUME NEW s \in Sockets PROVE UpTo(meta'[s], made')
  <2>1. meta[s] \in Calls \cup {None} /\ UpTo(meta[s], made)
    BY DEF Typed, GatewayOK, Numbered, GatewayNumbered
  <2>2. UpTo(meta[s], made')
    BY <1>0, <2>1, UpToGrows
  <2>6. meta'[s] \in {meta[s], None, made'}
    BY MetaValues
  <2>7. made' <= made'
    BY <1>0
  <2>8. QED
    BY <2>2, <2>6, <2>7 DEF UpTo
<1>4. ASSUME NEW t \in Tasks, task'[t].kind = "end" PROVE task'[t].call <= made'
  <2>1. CASE task'[t] = task[t]
    <3>1. task[t].call \in Nat /\ task[t].call <= made
      BY <1>4, <2>1, CallNumbers DEF Numbered, GatewayNumbered, Typed, JobsOK, Briefed
    <3>2. QED
      BY <1>0, <2>1, <3>1
  <2>2. CASE task'[t] # task[t]
    <3>1. PICK c \in Clients :
              \/ IceFails(t, c) /\ task'[t].call = rtc[c].pc.callId
              \/ Leave(t, c) /\ task'[t].call = page[c].callId /\ page[c].callId # None
      BY <1>4, <2>2, HandlerBegins
    <3>2. task'[t].call <= made
      BY <3>1 DEF IceFails, Numbered, PagesNumbered, HookUpTo, UpTo
    <3>3. task'[t].call \in Nat
      BY <1>4, CallNumbers DEF Typed, JobsOK, Briefed
    <3>4. QED
      BY <1>0, <3>2, <3>3
  <2>3. QED
    BY <2>1, <2>2
<1>5. GatewayNumbered'
  BY <1>3, <1>4 DEF GatewayNumbered
<1>6. QED
  BY <1>2, <1>5, MailKept DEF Numbered

\* The numbers in an inbox.
LEMMA MailBelow ==
    ASSUME Typed, MailNumbered, NEW c \in Clients, NEW i \in DOMAIN inbox[c]
    PROVE  inbox[c][i].callId < made + 1 /\ inbox[c][i].callId \in Nat
<1>1. inbox[c][i] \in Message
  BY DEF Typed, NetOK
<1>2. inbox[c][i].callId \in Nat
  BY <1>1, CallNumbers DEF Message
<1>3. Pending(c, inbox[c][i].type, inbox[c][i].callId)
  BY DEF Pending, Holds
<1>4. inbox[c][i].callId <= made /\ made \in Nat
  BY <1>3 DEF MailNumbered, Typed, JobsOK
<1>5. QED
  BY <1>2, <1>4

\* The order of an inbox.
LEMMA InOrderKept ==
    ASSUME Typed, Numbered, Ordered, [Next]_vars, NEW c \in Clients
    PROVE  InOrder(inbox'[c])
<1>0. NetOK /\ InOrder(inbox[c])
  BY DEF Typed, Ordered
<1>1. ASSUME NEW d \in Clients, SendOffer(d) PROVE InOrder(inbox'[c])
  BY <1>0, <1>1, SendOfferEffect, RelayPending
<1>2. ASSUME NEW d \in Clients, SendAnswer(d) PROVE InOrder(inbox'[c])
  BY <1>0, <1>2, SendAnswerEffect, RelayPending
<1>3. ASSUME NEW d \in Clients, NEW type, Arrives(d, type), Consume(d) PROVE InOrder(inbox'[c])
  <2>1. d # c => inbox'[c] = inbox[c]
    BY <1>0, <1>3, ConsumePending
  <2>2. d = c => InOrder(inbox'[c])
    BY <1>0, <1>3, ConsumePending
  <2>3. QED
    BY <1>0, <2>1, <2>2
<1>4. ASSUME NEW d \in Clients, inbox' = [inbox EXCEPT ![d] = <<>>] PROVE InOrder(inbox'[c])
  <2>1. d # c => inbox'[c] = inbox[c]
    BY <1>0, <1>4, EmptyPending
  <2>2. d = c => InOrder(inbox'[c])
    BY <1>0, <1>4, EmptyPending
  <2>3. QED
    BY <1>0, <2>1, <2>2
<1>5. ASSUME NEW k \in Calls, inbox' = Emit(room[k], Ended(k)) PROVE InOrder(inbox'[c])
  <2>1. Ended(k) \in Message /\ Ended(k).type # "found"
    BY EndedTyped DEF Ended
  <2>2. QED
    BY <1>0, <1>5, <2>1, EmitPending
<1>6. ASSUME NEW t \in Tasks, HangUp(t) PROVE InOrder(inbox'[c])
  <2>1. task[t].sock \in Sockets
    BY <1>6 DEF HangUp, Typed, JobsOK, Briefed
  <2>2. PICK k \in Calls \cup {None} : k = meta[task[t].sock]
    BY <2>1 DEF Typed, GatewayOK
  <2>3. inbox' = inbox \/ (k \in Calls /\ inbox' = Emit(room[k], Ended(k)))
    BY <1>6, <2>2 DEF HangUp
  <2>4. QED
    BY <1>0, <1>5, <2>3
<1>7. ASSUME NEW t \in Tasks, FinishEnd(t) PROVE InOrder(inbox'[c])
  <2>1. PICK k \in Calls : k = task[t].call
    BY <1>7 DEF FinishEnd, Typed, JobsOK, Briefed
  <2>2. inbox' = Emit(room[k], Ended(k))
    BY <1>7, <2>1 DEF FinishEnd
  <2>3. QED
    BY <1>5, <2>2
<1>8. ASSUME NEW t \in Tasks, Announce(t) PROVE InOrder(inbox'[c])
  <2>1. PICK a, b \in Sockets, k \in Calls : Announces(t, a, b, k)
    BY <1>8, AnnounceEffect
  <2>2. \A i \in DOMAIN inbox[c] : inbox[c][i].callId < k
    BY <2>1, MailBelow DEF Announces, Numbered
  <2>3. QED
    BY <1>0, <2>1, <2>2 DEF Announces
<1>9. QED
  BY <1>0, <1>1, <1>2, <1>3, <1>4, <1>6, <1>7, <1>8, MailSteps

\* What a step adds to the mail: a match:found comes from a pairing and a call:ended
\* from the end of a call, to the sockets of its room.
LEMMA NewMail ==
    ASSUME Typed, [Next]_vars, NEW c \in Clients, NEW k
    PROVE  /\ Pending(c, "found", k)' /\ ~Pending(c, "found", k) =>
                  \E t \in Tasks, a, b \in Sockets :
                     Announces(t, a, b, k) /\ page[c].open /\ Sock(c) \in {a, b}
           /\ Pending(c, "ended", k)' /\ ~Pending(c, "ended", k) =>
                 /\ k \in Calls /\ page[c].open /\ Sock(c) \in room[k]
                 /\ \A d \in Clients : page[d].open /\ Sock(d) \in room[k] => Pending(d, "ended", k)'
<1>0. NetOK
  BY DEF Typed
<1> DEFINE Goal == /\ Pending(c, "found", k)' /\ ~Pending(c, "found", k) =>
                       \E t \in Tasks, a, b \in Sockets :
                          Announces(t, a, b, k) /\ page[c].open /\ Sock(c) \in {a, b}
                   /\ Pending(c, "ended", k)' /\ ~Pending(c, "ended", k) =>
                       /\ k \in Calls /\ page[c].open /\ Sock(c) \in room[k]
                       /\ \A d \in Clients : page[d].open /\ Sock(d) \in room[k] => Pending(d, "ended", k)'
<1>1. ASSUME Pending(c, "found", k)' => Pending(c, "found", k),
             Pending(c, "ended", k)' => Pending(c, "ended", k)
      PROVE  Goal
  BY <1>1
<1>2. ASSUME NEW d \in Clients, SendOffer(d) PROVE Goal
  <2>1. \A y, j : Pending(c, y, j)' => Pending(c, y, j) \/ y = "offer"
    BY <1>0, <1>2, SendOfferEffect, RelayPending
  <2>2. QED
    BY <1>1, <2>1
<1>3. ASSUME NEW d \in Clients, SendAnswer(d) PROVE Goal
  <2>1. \A y, j : Pending(c, y, j)' => Pending(c, y, j) \/ y = "answer"
    BY <1>0, <1>3, SendAnswerEffect, RelayPending
  <2>2. QED
    BY <1>1, <2>1
<1>4. ASSUME NEW d \in Clients, NEW type, Arrives(d, type), Consume(d) PROVE Goal
  <2>1. \A y, j : Pending(c, y, j)' => Pending(c, y, j)
    BY <1>0, <1>4, ConsumePending
  <2>2. QED
    BY <1>1, <2>1
<1>5. ASSUME NEW d \in Clients, inbox' = [inbox EXCEPT ![d] = <<>>] PROVE Goal
  <2>1. ASSUME NEW y, NEW j, Pending(c, y, j)' PROVE Pending(c, y, j)
    <3>1. inbox'[c] = inbox[c]
      BY <1>0, <1>5, <2>1, EmptyPending
    <3>2. QED
      BY <2>1, <3>1 DEF Pending
  <2>2. QED
    BY <1>1, <2>1
<1>6. ASSUME NEW j \in Calls, inbox' = Emit(room[j], Ended(j)) PROVE Goal
  <2>1. Ended(j) \in Message /\ Ended(j).type = "ended" /\ Ended(j).callId = j
    BY EndedTyped DEF Ended
  <2>2. \A d \in Clients : \A y, i : Pending(d, y, i)' <=>
            Pending(d, y, i) \/ (page[d].open /\ Sock(d) \in room[j] /\ y = "ended" /\ i = j)
    <3> TAKE d \in Clients
    <3>1. \A y, i : Pending(d, y, i)' <=>
            \/ Pending(d, y, i)
            \/ page[d].open /\ Sock(d) \in room[j] /\ Ended(j).type = y /\ Ended(j).callId = i
      BY <1>0, <1>6, <2>1, EmitPending
    <3>2. QED
      BY <2>1, <3>1
  <2>3. Pending(c, "found", k)' => Pending(c, "found", k)
    BY <2>2
  <2>4. ASSUME Pending(c, "ended", k)', ~Pending(c, "ended", k)
        PROVE  /\ k = j /\ page[c].open /\ Sock(c) \in room[k]
               /\ \A d \in Clients : page[d].open /\ Sock(d) \in room[k] => Pending(d, "ended", k)'
    BY <2>2, <2>4
  <2>5. QED
    BY <2>3, <2>4
<1>7. ASSUME NEW t \in Tasks, HangUp(t) PROVE Goal
  <2>1. task[t].sock \in Sockets
    BY <1>7 DEF HangUp, Typed, JobsOK, Briefed
  <2>2. PICK j \in Calls \cup {None} : j = meta[task[t].sock]
    BY <2>1 DEF Typed, GatewayOK
  <2>3. inbox' = inbox \/ (j \in Calls /\ inbox' = Emit(room[j], Ended(j)))
    BY <1>7, <2>2 DEF HangUp
  <2>4. CASE inbox' = inbox
    BY <1>1, <2>4 DEF Pending
  <2>5. QED
    BY <1>6, <2>3, <2>4
<1>8. ASSUME NEW t \in Tasks, FinishEnd(t) PROVE Goal
  <2>1. PICK j \in Calls : j = task[t].call
    BY <1>8 DEF FinishEnd, Typed, JobsOK, Briefed
  <2>2. inbox' = Emit(room[j], Ended(j))
    BY <1>8, <2>1 DEF FinishEnd
  <2>3. QED
    BY <1>6, <2>2
<1>9. ASSUME NEW t \in Tasks, Announce(t) PROVE Goal
  <2>1. PICK a, b \in Sockets, j \in Calls : Announces(t, a, b, j)
    BY <1>9, AnnounceEffect
  <2>2. \A y, i : Pending(c, y, i)' <=>
            Pending(c, y, i) \/ (page[c].open /\ Sock(c) \in {a, b} /\ y = "found" /\ i = j)
    BY <2>1 DEF Announces
  <2>3. Pending(c, "ended", k)' => Pending(c, "ended", k)
    BY <2>2
  <2>4. ASSUME Pending(c, "found", k)', ~Pending(c, "found", k)
        PROVE  Announces(t, a, b, k) /\ page[c].open /\ Sock(c) \in {a, b}
    BY <2>1, <2>2, <2>4
  <2>5. QED
    BY <2>3, <2>4
<1>10. CASE inbox' = inbox
  BY <1>1, <1>10 DEF Pending
<1>11. Goal
  BY <1>2, <1>3, <1>4, <1>5, <1>7, <1>8, <1>9, <1>10, MailSteps
<1>12. QED
  BY <1>11

\* The steps that take mail.
Consumes(c) ==
    \/ OnMatchFound(c) \/ OnCallEnded(c) \/ EndedUnheard(c)
    \/ OnOffer(c) \/ OnAnswer(c) \/ SdpIgnored(c)

LEMMA LostMail ==
    ASSUME Typed, [Next]_vars, NEW c \in Clients, NEW y, NEW j,
           Pending(c, y, j), ~Pending(c, y, j)'
    PROVE  \/ Reconnect(c) \/ Unmount(c)
           \/ Consumes(c) /\ Arrives(c, y) /\ Consume(c) /\ Head(inbox[c]).callId = j
<1>0. NetOK
  BY DEF Typed
<1>1. ASSUME NEW d \in Clients, SendOffer(d) PROVE FALSE
  <2>1. Pending(c, y, j) => Pending(c, y, j)'
    BY <1>0, <1>1, SendOfferEffect, RelayPending
  <2>2. QED
    BY <2>1
<1>2. ASSUME NEW d \in Clients, SendAnswer(d) PROVE FALSE
  <2>1. Pending(c, y, j) => Pending(c, y, j)'
    BY <1>0, <1>2, SendAnswerEffect, RelayPending
  <2>2. QED
    BY <2>1
<1>3. ASSUME NEW d \in Clients, Consumes(d)
      PROVE  d = c /\ Arrives(c, y) /\ Consume(c) /\ Head(inbox[c]).callId = j
  <2>1. PICK type : Arrives(d, type) /\ Consume(d)
    BY <1>3 DEF Consumes, OnMatchFound, OnCallEnded, EndedUnheard, OnOffer, OnAnswer, SdpIgnored
  <2>2. d = c /\ y = type /\ j = Head(inbox[d]).callId
    BY <1>0, <2>1, ConsumePending
  <2>3. QED
    BY <2>1, <2>2
<1>4. ASSUME NEW d \in Clients, Reconnect(d) \/ Unmount(d) PROVE d = c
  <2>1. inbox' = [inbox EXCEPT ![d] = <<>>]
    BY <1>4 DEF Reconnect, Unmount
  <2>2. d # c => inbox'[c] = inbox[c]
    BY <1>0, <2>1, EmptyPending
  <2>3. QED
    BY <2>2 DEF Pending
<1>5. ASSUME NEW k \in Calls, inbox' = Emit(room[k], Ended(k)) PROVE FALSE
  <2>1. Pending(c, y, j) => Pending(c, y, j)'
    BY <1>0, <1>5, EndedTyped, EmitPending
  <2>2. QED
    BY <2>1
<1>6. inbox' # inbox
  BY DEF Pending
<1>7. ASSUME NEW t \in Tasks, HangUp(t) PROVE FALSE
  <2>1. task[t].sock \in Sockets
    BY <1>7 DEF HangUp, Typed, JobsOK, Briefed
  <2>2. PICK k \in Calls \cup {None} : k = meta[task[t].sock]
    BY <2>1 DEF Typed, GatewayOK
  <2>3. inbox' = inbox \/ (k \in Calls /\ inbox' = Emit(room[k], Ended(k)))
    BY <1>7, <2>2 DEF HangUp
  <2>4. QED
    BY <1>5, <1>6, <2>3
<1>8. ASSUME NEW t \in Tasks, FinishEnd(t) PROVE FALSE
  <2>1. PICK k \in Calls : k = task[t].call
    BY <1>8 DEF FinishEnd, Typed, JobsOK, Briefed
  <2>2. inbox' = Emit(room[k], Ended(k))
    BY <1>8, <2>1 DEF FinishEnd
  <2>3. QED
    BY <1>5, <2>2
<1>9. ASSUME NEW t \in Tasks, Announce(t) PROVE FALSE
  <2>1. PICK a, b \in Sockets, k \in Calls : Announces(t, a, b, k)
    BY <1>9, AnnounceEffect
  <2>2. Pending(c, y, j) => Pending(c, y, j)'
    BY <2>1 DEF Announces
  <2>3. QED
    BY <2>2
<1>10. ASSUME NEW d \in Clients, Page(d) PROVE d = c /\ (Reconnect(c) \/ Unmount(c) \/ Consumes(c))
  <2>1. Reconnect(d) \/ Unmount(d) \/ Consumes(d)
    BY <1>1, <1>2, <1>6, <1>10 DEF Page, Busy, Granted, Render, NegotiationNeeded, CloseTab, Consumes
  <2>2. QED
    BY <1>3, <1>4, <2>1
<1>11. ASSUME NEW t \in Tasks, NEW d \in Clients, IceFails(t, d) \/ Leave(t, d) PROVE Unmount(c)
  <2>1. Unmount(d)
    BY <1>6, <1>11 DEF IceFails, Leave
  <2>2. QED
    BY <1>4, <2>1
<1>12. ASSUME NEW t \in Tasks, Handler(t) PROVE FALSE
  BY <1>6, <1>7, <1>8, <1>9, <1>12 DEF Handler, Dequeue, TryMatch, HandlerFails
<1>13. \/ Reconnect(c) \/ Unmount(c) \/ Consumes(c)
  BY <1>6, <1>10, <1>11, <1>12 DEF Next, vars, HandleDisconnect
<1>14. QED
  BY <1>3, <1>13

LEMMA AnnouncingIsAnnounce ==
    ASSUME Typed, [Next]_vars, NEW t \in Tasks, NEW a, NEW b, NEW k, Announces(t, a, b, k)
    PROVE  Announce(t)
<1>1. task[t].kind = "pair" /\ task'[t] = IdleTask /\ made' = made + 1 /\ made \in Nat
  BY DEF Announces, Typed, JobsOK
<1>2. made' # made
  BY <1>1
<1>3. PICK u \in Tasks : Announce(u)
  BY <1>2, MadeSteps
<1>4. u = t
  BY <1>1, <1>3, IdleJob DEF Announce, Done, Typed, JobsOK
<1>5. QED
  BY <1>3, <1>4

LEMMA ConnsSame ==
    ASSUME Typed, [Next]_vars, NEW c \in Clients, ~Reconnect(c)
    PROVE  conns'[c] = conns[c]
<1>1. conns' = conns \/ \E d \in Clients : Reconnect(d)
  BY ConnsSteps
<1>2. QED
  BY <1>1 DEF Reconnect, Typed, NetOK

LEMMA OrderedKept ==
    ASSUME Typed, Typed', Numbered, Connected, Ordered, [Next]_vars
    PROVE  Ordered'
<1>0. NetOK /\ made \in Nat /\ made' \in Nat /\ made <= made'
  BY MadeGrows DEF Typed
<1>1. ASSUME NEW c \in Clients, NEW k \in Calls, Pending(c, "found", k)'
      PROVE  UpTo(page'[c].callId, k) /\ (meta'[Sock(c)'] # None => k <= meta'[Sock(c)'])
  <2>0. k \in Nat /\ page[c].callId \in Calls \cup {None} /\ Sock(c) \in Sockets
    BY CallNumbers, OwnSocket DEF Typed, PagesOK, PageState
  <2>1. CASE ~Pending(c, "found", k)
    <3>1. PICK t \in Tasks, a, b \in Sockets :
              Announces(t, a, b, k) /\ page[c].open /\ Sock(c) \in {a, b}
      BY <1>1, <2>1, NewMail
    <3>2. Announce(t) /\ k = made + 1
      <4>1. Announce(t)
        BY <3>1, AnnouncingIsAnnounce
      <4>2. k = made + 1
        BY <3>1 DEF Announces
      <4>3. QED
        BY <4>1, <4>2
    <3>3. page' = page /\ conns' = conns
      BY <3>2 DEF Announce, client
    <3>4. UpTo(page[c].callId, k)
      <4>1. UpTo(page[c].callId, made)
        BY DEF Numbered, PagesNumbered
      <4>2. made <= k
        BY <1>0, <3>2
      <4>3. QED
        BY <1>0, <2>0, <4>1, <4>2, UpToGrows
    <3>5. Sock(c)' = Sock(c) /\ Registered(Sock(c))
      BY <3>1, <3>3 DEF Sock, Connected, Registered
    <3>6. meta'[Sock(c)] = k
      BY <2>0, <3>1, <3>5 DEF Announces
    <3>7. QED
      BY <2>0, <3>3, <3>4, <3>5, <3>6
  <2>2. CASE Pending(c, "found", k)
    <3>1. k <= made /\ UpTo(page[c].callId, k) /\ (meta[Sock(c)] # None => k <= meta[Sock(c)])
      BY <2>2 DEF Numbered, MailNumbered, Ordered
    <3>2. UpTo(page'[c].callId, k)
      <4>1. CASE page'[c].callId = page[c].callId
        BY <3>1, <4>1
      <4>2. CASE page'[c].callId = None
        BY <4>2 DEF UpTo
      <4>3. CASE OnMatchFound(c) /\ page'[c].callId = Head(inbox[c]).callId
        <5>1. Head(inbox[c]).callId <= k
          BY <1>0, <1>1, <4>3, ConsumePending DEF OnMatchFound, Ordered
        <5>2. QED
          BY <4>3, <5>1 DEF UpTo
      <4>4. QED
        BY <4>1, <4>2, <4>3, PageChanges
    <3>3. ~Reconnect(c)
      BY <1>0, <1>1, EmptyPending DEF Reconnect
    <3>4. Sock(c)' = Sock(c)
      BY <3>3, ConnsSame DEF Sock
    <3>5. meta'[Sock(c)] \in {meta[Sock(c)], None, made'}
      BY <2>0, MetaValues
    <3>6. k <= made'
      BY <1>0, <2>0, <3>1
    <3>7. QED
      BY <3>1, <3>2, <3>4, <3>5, <3>6
  <2>3. QED
    BY <2>1, <2>2
<1>2. QED
  BY <1>1, InOrderKept DEF Ordered

\* A page has a call it had before, or one just announced to it.
LEMMA HasBefore ==
    ASSUME Typed, [Next]_vars, NEW c \in Clients, NEW k \in Calls, Has(c, k)'
    PROVE  /\ page[c].open
           /\ \/ Has(c, k)
              \/ \E t \in Tasks, a, b \in Sockets : Announces(t, a, b, k) /\ Sock(c) \in {a, b}
<1>0. page[c].open /\ page'[c].open /\ NetOK
  BY PageChanges DEF Has, Typed
<1>1. CASE page'[c].callId = k
  <2>1. CASE page'[c].callId = page[c].callId
    BY <1>0, <1>1, <2>1 DEF Has
  <2>2. CASE OnMatchFound(c) /\ page'[c].callId = Head(inbox[c]).callId
    <3>1. Pending(c, "found", k)
      BY <1>0, <1>1, <2>2, ConsumePending DEF OnMatchFound
    <3>2. QED
      BY <1>0, <3>1 DEF Has
  <2>3. QED
    BY <1>1, <2>1, <2>2, PageChanges, CallNumbers
<1>2. CASE Pending(c, "found", k)'
  <2>1. CASE Pending(c, "found", k)
    BY <1>0, <2>1 DEF Has
  <2>2. CASE ~Pending(c, "found", k)
    BY <1>0, <1>2, <2>2, NewMail
  <2>3. QED
    BY <2>1, <2>2
<1>3. QED
  BY <1>1, <1>2 DEF Has

\* The calls pages have were made.
LEMMA HasNumbered ==
    ASSUME Numbered, NEW c \in Clients, NEW k \in Calls, Has(c, k)
    PROVE  k <= made
<1>1. CASE page[c].callId = k
  BY <1>1, CallNumbers DEF Numbered, PagesNumbered, UpTo
<1>2. CASE Pending(c, "found", k)
  BY <1>2 DEF Numbered, MailNumbered
<1>3. QED
  BY <1>1, <1>2 DEF Has

\* The event of the end of a call stays with a page that is in it.
LEMMA EndedStays ==
    ASSUME Typed, Ordered, [Next]_vars, NEW c \in Clients \ stranded', NEW k \in Calls,
           Has(c, k)', Pending(c, "ended", k)
    PROVE  Pending(c, "ended", k)'
<1> SUFFICES ASSUME ~Pending(c, "ended", k)' PROVE FALSE
  OBVIOUS
<1>0. page'[c].open /\ NetOK /\ InOrder(inbox[c]) /\ k \in Nat
  BY CallNumbers DEF Has, Typed, Ordered
<1>1. ~Reconnect(c)
  BY DEF Reconnect
<1>2. ~Unmount(c)
  BY <1>0, UnmountEffect
<1>3. Consumes(c) /\ Arrives(c, "ended") /\ Consume(c) /\ Head(inbox[c]).callId = k
  BY <1>1, <1>2, LostMail
<1>4. ~Pending(c, "found", k)'
  BY <1>0, <1>3, ConsumePending
<1>5. page'[c].callId = k
  BY <1>4 DEF Has
<1>6. OnCallEnded(c) \/ EndedUnheard(c)
  BY <1>3 DEF Consumes, OnMatchFound, OnOffer, OnAnswer, SdpIgnored, Arrives
<1>7. ~OnCallEnded(c)
  BY <1>5, BackToQueueEffect, CallNumbers DEF OnCallEnded
<1>8. EndedUnheard(c) /\ page' = page
  BY <1>6, <1>7 DEF EndedUnheard, client
<1>9. c \in stranded'
  BY <1>3, <1>5, <1>8 DEF EndedUnheard, Strands
<1>10. QED
  BY <1>9

LEMMA ToldKept ==
    ASSUME Typed, Numbered, Ordered, Told, Accompanied, [Next]_vars
    PROVE  Told'
<1>1. ASSUME NEW c \in Clients \ stranded', NEW d \in Clients, NEW k \in Calls,
             Has(c, k)', Pending(d, "ended", k)'
      PROVE  Pending(c, "ended", k)'
  <2>0. c \in Clients \ stranded /\ page[c].open
    BY <1>1, StrandedGrows, HasBefore
  <2>1. CASE Has(c, k)
    <3>1. CASE Pending(c, "ended", k)
      BY <1>1, <3>1, EndedStays
    <3>2. CASE ~Pending(c, "ended", k)
      <4>1. ~Pending(d, "ended", k)
        BY <2>0, <2>1, <3>2 DEF Told
      <4>2. \A e \in Clients : page[e].open /\ Sock(e) \in room[k] => Pending(e, "ended", k)'
        BY <1>1, <4>1, NewMail
      <4>3. Sock(c) \in room[k]
        BY <2>0, <2>1, <3>2 DEF Accompanied
      <4>4. QED
        BY <2>0, <4>2, <4>3
    <3>3. QED
      BY <3>1, <3>2
  <2>2. CASE ~Has(c, k)
    <3>1. PICK t \in Tasks, a, b \in Sockets : Announces(t, a, b, k)
      BY <1>1, <2>2, HasBefore
    <3>2. k = made + 1 /\ made \in Nat
      BY <3>1 DEF Announces, Typed, JobsOK
    <3>3. Pending(d, "ended", k)
      BY <1>1, <3>1 DEF Announces
    <3>4. k <= made
      BY <3>3 DEF Numbered, MailNumbered
    <3>5. QED
      BY <3>2, <3>4
  <2>3. QED
    BY <2>1, <2>2
<1>2. QED
  BY <1>1 DEF Told

\* A page that stays open loses a call only to a call:ended.
LEMMA HasStays ==
    ASSUME Typed, Ordered, [Next]_vars, NEW c \in Clients, NEW k \in Calls,
           Has(c, k), page'[c].open, Sock(c)' = Sock(c), meta[Sock(c)] = k, ~Has(c, k)'
    PROVE  OnCallEnded(c) /\ page[c].callId = k
<1>0. NetOK /\ k \in Nat /\ k # None
  BY CallNumbers DEF Typed
<1>1. ~Unmount(c)
  BY UnmountEffect
<1>2. ~Reconnect(c)
  <2>1. Reconnect(c) => conns'[c] = conns[c] + 1 /\ conns[c] \in Nat
    BY DEF Reconnect, Typed, NetOK
  <2>2. conns'[c] = conns[c]
    <3>1. Sock(c)'[2] = conns'[c] /\ Sock(c)[2] = conns[c]
      BY DEF Sock
    <3>2. QED
      BY <3>1
  <2>3. QED
    BY <2>1, <2>2
<1>3. CASE Pending(c, "found", k)
  <2>1. ~Pending(c, "found", k)' /\ page'[c].callId # k
    BY DEF Has
  <2>2. Consumes(c) /\ Arrives(c, "found") /\ Consume(c) /\ Head(inbox[c]).callId = k
    BY <1>1, <1>2, <1>3, <2>1, LostMail
  <2>3. OnMatchFound(c)
    BY <2>2 DEF Consumes, OnCallEnded, EndedUnheard, OnOffer, OnAnswer, SdpIgnored, Arrives
  <2>4. QED
    BY <2>1, <2>2, <2>3, OnMatchFoundEffect
<1>4. CASE page[c].callId = k
  <2>1. page'[c].callId # k
    BY DEF Has
  <2>2. CASE OnMatchFound(c) /\ page'[c].callId = Head(inbox[c]).callId
    <3>1. PICK j \in Calls : j = Head(inbox[c]).callId /\ Pending(c, "found", j)
      BY <1>0, <2>2, ConsumePending DEF OnMatchFound, Message
    <3>2. k <= j /\ j <= k
      BY <1>0, <1>4, <3>1 DEF Ordered, UpTo
    <3>3. j \in Nat
      BY <3>1, CallNumbers
    <3>4. QED
      BY <1>0, <2>1, <2>2, <3>1, <3>2, <3>3
  <2>3. QED
    BY <1>4, <2>1, <2>2, PageChanges
<1>5. QED
  BY <1>3, <1>4 DEF Has

\* The gateway drops a socket only in handleDisconnect.
LEMMA UpSteps ==
    ASSUME [Next]_vars, NEW s \in up, s \notin up'
    PROVE  \E t \in Tasks : HandleDisconnect(t, s)
<1>1. ASSUME NEW c \in Clients, Page(c) PROVE FALSE
  BY <1>1 DEF Page, Busy, Reconnect, Granted, Render, NegotiationNeeded, SendOffer, server,
     SendAnswer, OnMatchFound, OnCallEnded, EndedUnheard, OnOffer, OnAnswer, SdpIgnored, CloseTab
<1>2. ASSUME NEW t \in Tasks, Handler(t) PROVE FALSE
  BY <1>2 DEF Handler, Dequeue, HangUp, FinishEnd, TryMatch, Announce, HandlerFails
<1>3. ASSUME NEW t \in Tasks, NEW x \in Sockets, HandleDisconnect(t, x) PROVE x = s
  BY <1>3 DEF HandleDisconnect
<1>4. QED
  BY <1>1, <1>2, <1>3 DEF Next, vars, server, IceFails, Leave

\* The steps that change a room.
LEMMA RoomSteps ==
    ASSUME [Next]_vars
    PROVE  \/ room' = room
           \/ \E t \in Tasks, s \in Sockets : HandleDisconnect(t, s)
           \/ \E t \in Tasks : FinishEnd(t) \/ Announce(t)
<1>1. ASSUME NEW c \in Clients, Page(c) PROVE room' = room
  BY <1>1 DEF Page, Busy, Reconnect, Granted, Render, NegotiationNeeded, SendOffer, server,
     SendAnswer, OnMatchFound, OnCallEnded, EndedUnheard, OnOffer, OnAnswer, SdpIgnored, CloseTab
<1>2. ASSUME NEW t \in Tasks, Handler(t) PROVE room' = room \/ FinishEnd(t) \/ Announce(t)
  BY <1>2 DEF Handler, Dequeue, HangUp, TryMatch, HandlerFails
<1>3. QED
  BY <1>1, <1>2 DEF Next, vars, server, IceFails, Leave

\* A handler that is busy changes in its own steps only.
LEMMA JobSteps ==
    ASSUME Typed, [Next]_vars, NEW t \in Tasks, task[t].kind # "idle", task'[t] # task[t]
    PROVE  \/ Dequeue(t) \/ HangUp(t) \/ FinishEnd(t) \/ Announce(t) \/ HandlerFails(t)
<1>0. task \in [Tasks -> Job] /\ task' # task /\ task[t] # IdleTask
  BY IdleJob DEF Typed, JobsOK
<1>1. ASSUME NEW u \in Tasks, NEW h, Begin(u, h) PROVE FALSE
  BY <1>0, <1>1 DEF Begin
<1>2. ASSUME NEW c \in Clients, Page(c) PROVE FALSE
  BY <1>0, <1>2 DEF Page, Busy, Reconnect, Granted, Render, NegotiationNeeded, SendOffer, server,
     SendAnswer, OnMatchFound, OnCallEnded, EndedUnheard, OnOffer, OnAnswer, SdpIgnored, CloseTab
<1>3. ASSUME NEW u \in Tasks, NEW c \in Clients, IceFails(u, c) \/ Leave(u, c) PROVE FALSE
  BY <1>0, <1>1, <1>3 DEF IceFails, Leave, EndCall
<1>4. ASSUME NEW u \in Tasks, NEW s \in Sockets, HandleDisconnect(u, s) PROVE FALSE
  BY <1>1, <1>4 DEF HandleDisconnect
<1>5. ASSUME NEW u \in Tasks, Handler(u) PROVE u = t /\ ~TryMatch(u)
  <2>1. ~TryMatch(u)
    BY <1>1 DEF TryMatch
  <2>2. ASSUME Done(u) \/ Dequeue(u) PROVE u = t
    <3>1. \A v \in Tasks : v # u => task'[v] = task[v]
      BY <1>0, <2>2 DEF Done, Dequeue
    <3>2. QED
      BY <3>1
  <2>3. QED
    BY <1>5, <2>1, <2>2 DEF Handler, HangUp, FinishEnd, Announce, HandlerFails
<1>6. ~(UNCHANGED vars)
  BY <1>0 DEF vars, server
<1>7. PICK u \in Tasks : Handler(u)
  BY <1>2, <1>3, <1>4, <1>6 DEF Next
<1>8. QED
  BY <1>5, <1>7 DEF Handler

\* Who is in a room is told when its call is ended by handleDisconnect or call:end.
LEMMA RoomIsTold ==
    ASSUME Typed, NEW c \in Clients, page[c].open, NEW k \in Calls, Sock(c) \in room[k],
           NEW t \in Tasks,
           \/ HangUp(t) /\ meta[task[t].sock] = k
           \/ FinishEnd(t) /\ task[t].call = k
    PROVE  Pending(c, "ended", k)'
<1>1. inbox' = Emit(room[k], Ended(k))
  BY CallNumbers DEF HangUp, FinishEnd
<1>2. Ended(k) \in Message /\ Ended(k).type = "ended" /\ Ended(k).callId = k
  BY EndedTyped DEF Ended
<1>3. QED
  BY <1>1, <1>2, EmitPending DEF Typed

\* The clients in a room.
LEMMA InRoom ==
    ASSUME Typed, NEW c \in Clients, NEW k \in Calls, Sock(c) \in room[k]
    PROVE  c \in Members(k)
<1>1. Sock(c)[1] = c
  BY OwnSocket DEF Typed
<1>2. QED
  BY <1>1 DEF Members

\* A partner stays one until the call is announced to have ended.
LEMMA PartnerStays ==
    ASSUME LonelyInv, [Next]_vars, NEW c \in Clients \ stranded', NEW k \in Calls,
           Has(c, k), Has(c, k)', ~Pending(c, "ended", k)', Sock(c) \in room[k],
           NEW s \in Sockets, Partner(c, s, k)
    PROVE  Sock(c)' \in room'[k] /\ Partner(c, s, k)'
<1>0. /\ Typed /\ Past /\ Numbered /\ Connected /\ Ordered /\ Told /\ Accompanied
      /\ c \in Clients \ stranded /\ page[c].open /\ k # None /\ k \in Nat
  BY StrandedGrows, CallNumbers DEF LonelyInv, ServedInv, Has
<1>1. Sock(c)' = Sock(c) /\ c \in Members(k)
  <2>1. ~Reconnect(c)
    BY DEF Reconnect
  <2>2. QED
    BY <1>0, <2>1, ConnsSame, InRoom DEF Sock
<1>2. PICK d \in Clients : d = s[1] /\ d # c
  BY DEF Partner, Sockets
<1>3. meta[s] = k /\ s[1] # c
  BY DEF Partner
<1>4. ASSUME NEW t \in Tasks, HangUp(t) PROVE task[t].sock # s
  BY <1>0, <1>3, <1>4, RoomIsTold
<1>5. ASSUME NEW t \in Tasks, FinishEnd(t) PROVE task[t].call # k /\ task[t].sock # s
  <2>1. task[t].call # k
    BY <1>0, <1>5, RoomIsTold
  <2>2. ASSUME task[t].sock = s PROVE FALSE
    <3>1. stranded' = stranded \cup Forgotten(s)
      BY <1>3, <1>5, <2>1, <2>2 DEF FinishEnd
    <3>2. c \in Forgotten(s)
      BY <1>0, <1>1, <1>3 DEF Forgotten
    <3>3. QED
      BY <3>1, <3>2
  <2>3. QED
    BY <2>1, <2>2
<1>6. ASSUME NEW t \in Tasks, NEW a \in Sockets, NEW b \in Sockets, NEW j \in Calls, Announces(t, a, b, j)
      PROVE  j # k /\ ~(s \in {a, b})
  <2>1. k <= made /\ j = made + 1 /\ made \in Nat
    BY <1>0, <1>6, HasNumbered DEF Announces, Typed, JobsOK
  <2>2. Forgotten(a) \subseteq stranded' /\ Forgotten(b) \subseteq stranded'
    BY <1>6 DEF Announces
  <2>3. c \in Forgotten(s)
    BY <1>0, <1>1, <1>3 DEF Forgotten
  <2>4. j # k
    BY <1>0, <2>1
  <2>5. QED
    BY <2>2, <2>3, <2>4
<1>7. Sock(c) \in room'[k]
  <2>1. ASSUME NEW t \in Tasks, NEW x \in Sockets, HandleDisconnect(t, x) PROVE Sock(c) \in room'[k]
    <3>1. room' = [j \in Calls |-> room[j] \ {x}] /\ ~(page[x[1]].open /\ Sock(x[1]) = x)
      BY <2>1 DEF HandleDisconnect
    <3>2. Sock(c) # x
      BY <1>0, <3>1, OwnSocket DEF Typed
    <3>3. QED
      BY <3>1, <3>2
  <2>2. ASSUME NEW t \in Tasks, FinishEnd(t) PROVE Sock(c) \in room'[k]
    BY <1>0, <1>5, <2>2 DEF FinishEnd, Typed, GatewayOK
  <2>3. ASSUME NEW t \in Tasks, Announce(t) PROVE Sock(c) \in room'[k]
    <3>1. PICK a, b \in Sockets, j \in Calls : Announces(t, a, b, j)
      BY <1>0, <2>3, AnnounceEffect
    <3>2. j # k
      BY <1>6, <3>1
    <3>3. room' = [room EXCEPT ![j] = {a, b} \cap up]
      BY <3>1 DEF Announces
    <3>4. room \in [Calls -> SUBSET Sockets]
      BY <1>0 DEF Typed, GatewayOK
    <3>5. QED
      BY <1>0, <3>2, <3>3, <3>4
  <2>4. QED
    BY <2>1, <2>2, <2>3, RoomSteps
<1>8. meta'[s] = k
  <2>1. ASSUME NEW t \in Tasks, FinishEnd(t) PROVE meta'[s] = meta[s]
    BY <1>0, <1>5, <2>1 DEF FinishEnd, Typed, GatewayOK
  <2>2. ASSUME NEW t \in Tasks, Announce(t) PROVE meta'[s] = meta[s]
    <3>1. PICK a, b \in Sockets, j \in Calls : Announces(t, a, b, j)
      BY <1>0, <2>2, AnnounceEffect
    <3>2. ~(s \in {a, b})
      BY <1>6, <3>1
    <3>3. meta' = [x \in Sockets |-> IF x \in {a, b} /\ Registered(x) THEN j ELSE meta[x]]
      BY <3>1 DEF Announces
    <3>4. QED
      BY <3>2, <3>3
  <2>3. QED
    BY <1>3, <2>1, <2>2, MetaSteps
<1>9. CASE Live(s) /\ Has(d, k)
  <2>1. Sock(d) = s /\ page[d].open /\ s \in up
    BY <1>0, <1>2, <1>9 DEF Live, Connected
  <2>2. CASE Live(s)'
    <3>1. Sock(d)' = s /\ page'[d].open
      BY <1>2, <2>2 DEF Live
    <3>2. ASSUME ~Has(d, k)' PROVE FALSE
      <4>1. OnCallEnded(d) /\ page[d].callId = k
        BY <1>0, <1>2, <1>3, <1>9, <2>1, <3>1, <3>2, HasStays
      <4>2. Pending(d, "ended", Head(inbox[d]).callId)
        BY <1>0, <4>1, ConsumePending DEF OnCallEnded, Typed
      <4>3. CASE Head(inbox[d]).callId = k
        <5>1. Pending(c, "ended", k)
          BY <1>0, <4>2, <4>3 DEF Told
        <5>2. QED
          BY <1>0, <5>1, EndedStays
      <4>4. CASE Head(inbox[d]).callId # k
        <5>1. stranded' = stranded \cup (Members(k) \ {d})
          BY <1>0, <4>1, <4>4 DEF OnCallEnded
        <5>2. QED
          BY <1>1, <1>2, <5>1
      <4>5. QED
        BY <4>3, <4>4
    <3>3. QED
      BY <1>2, <1>3, <1>7, <1>1, <1>8, <2>2, <3>2 DEF Partner
  <2>3. CASE ~Live(s)'
    <3>1. s \in up'
      <4>1. ~\E t \in Tasks : HandleDisconnect(t, s)
        BY <1>2, <2>1 DEF HandleDisconnect
      <4>2. QED
        BY <2>1, <4>1, UpSteps
    <3>2. QED
      BY <1>1, <1>3, <1>7, <1>8, <2>3, <3>1 DEF Partner
  <2>4. QED
    BY <2>2, <2>3
<1>10. CASE s \in up /\ ~Live(s)
  <2>1. ~Live(s)'
    <3>1. SUFFICES ASSUME Live(s)' PROVE FALSE
      OBVIOUS
    <3>2. page'[d].open /\ Sock(d)' = s
      BY <1>2, <3>1 DEF Live
    <3>3. page[d].open
      BY <1>0, <3>2, PageChanges
    <3>4. Sock(d)' # Sock(d)
      BY <1>2, <1>10, <3>2, <3>3 DEF Live
    <3>5. Reconnect(d)
      BY <1>0, <3>4, ConnsSame DEF Sock
    <3>6. s[2] = conns[d] + 1 /\ conns[d] \in Nat
      <4>1. conns' = [conns EXCEPT ![d] = @ + 1] /\ conns \in [Clients -> Nat]
        BY <1>0, <3>5 DEF Reconnect, Typed, NetOK
      <4>2. s = <<d, conns'[d]>>
        BY <3>2 DEF Sock
      <4>3. QED
        BY <4>1, <4>2
    <3>7. s[2] <= conns[d]
      BY <1>0, <1>2, <1>10 DEF Past
    <3>8. QED
      BY <3>6, <3>7
  <2>2. CASE s \in up'
    BY <1>1, <1>3, <1>7, <1>8, <2>1, <2>2 DEF Partner
  <2>3. CASE s \notin up'
    <3>1. PICK t \in Tasks : HandleDisconnect(t, s)
      BY <1>10, <2>3, UpSteps
    <3>2. PICK h : h = [kind |-> "dequeue", sock |-> s, peer |-> None, call |-> None]
      OBVIOUS
    <3>3. task'[t] = h /\ h.kind = "dequeue" /\ h.sock = s
      BY <1>0, <3>1, <3>2 DEF HandleDisconnect, Begin, Typed, JobsOK
    <3>4. Leaving(s)'
      BY <3>3 DEF Leaving
    <3>5. QED
      BY <1>1, <1>3, <1>7, <1>8, <3>4 DEF Partner
  <2>4. QED
    BY <2>2, <2>3
<1>11. CASE Leaving(s)
  <2>1. PICK t \in Tasks : task[t].kind \in {"dequeue", "hangup"} /\ task[t].sock = s
    BY <1>11 DEF Leaving
  <2>2. ASSUME task'[t] = task[t] PROVE Leaving(s)'
    BY <2>1, <2>2 DEF Leaving
  <2>3. ASSUME task'[t] # task[t] PROVE Leaving(s)'
    <3>1. Dequeue(t) \/ HangUp(t) \/ HandlerFails(t)
      BY <1>0, <2>1, <2>3, JobSteps DEF FinishEnd, Announce
    <3>2. ~HangUp(t)
      BY <1>4, <2>1
    <3>3. CASE Dequeue(t)
      <4>1. HasCall(s)
        BY <1>0, <1>3 DEF HasCall
      <4>2. task' = [task EXCEPT ![t].kind = "hangup"]
        BY <2>1, <3>3, <4>1 DEF Dequeue
      <4>3. PICK h : h = [task[t] EXCEPT !.kind = "hangup"]
        OBVIOUS
      <4>4. task'[t] = h /\ h.kind = "hangup" /\ h.sock = s
        BY <1>0, <2>1, <4>2, <4>3 DEF Typed, JobsOK, Job
      <4>5. QED
        BY <4>4 DEF Leaving
    <3>4. CASE HandlerFails(t)
      <4>1. task[t].kind = "hangup"
        BY <2>1, <3>4 DEF HandlerFails
      <4>2. Concerned(t) = room[k]
        BY <1>0, <1>3, <2>1, <4>1 DEF Concerned
      <4>3. {x[1] : x \in room[k]} \subseteq stranded'
        BY <3>4, <4>2 DEF HandlerFails
      <4>4. QED
        BY <1>1, <4>3 DEF Members
    <3>5. QED
      BY <3>1, <3>2, <3>3, <3>4
  <2>4. Leaving(s)'
    BY <2>2, <2>3
  <2>5. QED
    BY <1>1, <1>3, <1>7, <1>8, <2>4 DEF Partner
<1>12. QED
  BY <1>2, <1>9, <1>10, <1>11 DEF Partner

\* Two sockets just paired are each other's partners.
LEMMA PartnerMade ==
    ASSUME LonelyInv, [Next]_vars, NEW c \in Clients \ stranded', NEW k \in Calls,
           page[c].open, NEW t \in Tasks, NEW a \in Sockets, NEW b \in Sockets,
           Announces(t, a, b, k), Sock(c) \in {a, b}
    PROVE  Sock(c)' \in room'[k] /\ \E s \in Sockets : Partner(c, s, k)'
<1>0. /\ Typed /\ NetOK /\ Connected /\ Unbroken /\ SittingPairs /\ k # None
      /\ c \in Clients \ stranded
  BY StrandedGrows, CallNumbers DEF LonelyInv, ServedInv, Typed
<1>1. UNCHANGED <<page, conns, up>>
  BY <1>0, AnnouncingIsAnnounce DEF Announce, client
<1>2. Sock(c)' = Sock(c) /\ Sock(c)[1] = c /\ conns[c] = 1
  BY <1>0, <1>1, OwnSocket DEF Sock, Unbroken
<1>3. {a[1], b[1]} \subseteq stranded' \/ (a # b /\ Registered(a) /\ Registered(b))
  BY DEF Announces
<1>4. a # b /\ Registered(a) /\ Registered(b)
  BY <1>2, <1>3
<1>5. PICK s \in {a, b} : s # Sock(c)
  BY <1>4
<1>6. s \in Sockets /\ Registered(s)
  BY <1>4, <1>5
<1>7. s[1] # c
  <2>1. SUFFICES ASSUME s[1] = c PROVE FALSE
    OBVIOUS
  <2>2. s[2] <= conns[s[1]]
    BY <1>0, <1>5 DEF SittingPairs, Announces
  <2>3. s[2] = 1 /\ s = <<s[1], s[2]>>
    BY <1>2, <1>6, <2>1, <2>2, BoundsNat DEF Sockets
  <2>4. QED
    BY <1>2, <1>5, <2>1, <2>3 DEF Sock
<1>8. Sock(c) \in room'[k]
  <2>1. room' = [room EXCEPT ![k] = {a, b} \cap up]
    BY DEF Announces
  <2>2. room \in [Calls -> SUBSET Sockets] /\ Sock(c) \in up
    BY <1>0 DEF Typed, GatewayOK, Connected
  <2>3. QED
    BY <2>1, <2>2
<1>9. meta'[s] = k
  <2>1. meta' = [x \in Sockets |-> IF x \in {a, b} /\ Registered(x) THEN k ELSE meta[x]]
    BY DEF Announces
  <2>2. QED
    BY <1>5, <1>6, <2>1
<1>10. Live(s)' <=> Live(s)
  BY <1>1 DEF Live, Sock
<1>11. CASE Live(s)
  <2>1. PICK d \in Clients : d = s[1]
    BY <1>6 DEF Sockets
  <2>2. page[d].open /\ Sock(d) = s
    BY <1>11, <2>1 DEF Live
  <2>3. Pending(d, "found", k)'
    BY <1>5, <2>2 DEF Announces
  <2>4. Has(d, k)'
    BY <1>1, <2>2, <2>3 DEF Has
  <2>5. Partner(c, s, k)'
    BY <1>7, <1>9, <1>10, <1>11, <2>1, <2>4 DEF Partner
  <2>6. QED
    BY <1>2, <1>6, <1>8, <2>5
<1>12. CASE ~Live(s) /\ s \in up
  <2>1. Partner(c, s, k)'
    BY <1>1, <1>7, <1>9, <1>10, <1>12 DEF Partner
  <2>2. QED
    BY <1>2, <1>6, <1>8, <2>1
<1>13. CASE s \notin up
  <2>1. PICK u \in Tasks : task[u].kind \in {"dequeue", "hangup"} /\ task[u].sock = s
    BY <1>6, <1>13 DEF Registered
  <2>2. u # t /\ task' = [task EXCEPT ![t] = IdleTask]
    BY <2>1 DEF Announces
  <2>3. task'[u] = task[u]
    BY <1>0, <2>2 DEF Typed, JobsOK
  <2>4. Leaving(s)'
    BY <2>1, <2>3 DEF Leaving
  <2>5. Partner(c, s, k)'
    BY <1>7, <1>9, <2>4 DEF Partner
  <2>6. QED
    BY <1>2, <1>6, <1>8, <2>5
<1>14. QED
  BY <1>11, <1>12, <1>13

LEMMA AccompaniedKept ==
    ASSUME LonelyInv, [Next]_vars
    PROVE  Accompanied'
<1>0. Typed /\ Ordered /\ Accompanied
  BY DEF LonelyInv, ServedInv
<1>1. ASSUME NEW c \in Clients \ stranded', NEW k \in Calls, Has(c, k)', ~Pending(c, "ended", k)'
      PROVE  Sock(c)' \in room'[k] /\ \E s \in Sockets : Partner(c, s, k)'
  <2>1. c \in Clients \ stranded /\ page[c].open
    BY <1>0, <1>1, StrandedGrows, HasBefore
  <2>2. CASE Has(c, k)
    <3>1. ~Pending(c, "ended", k)
      BY <1>0, <1>1, EndedStays
    <3>2. PICK s \in Sockets : Sock(c) \in room[k] /\ Partner(c, s, k)
      BY <1>0, <2>1, <2>2, <3>1 DEF Accompanied
    <3>3. QED
      BY <1>1, <2>2, <3>2, PartnerStays
  <2>3. CASE ~Has(c, k)
    <3>1. PICK t \in Tasks, a, b \in Sockets : Announces(t, a, b, k) /\ Sock(c) \in {a, b}
      BY <1>0, <1>1, <2>3, HasBefore
    <3>2. QED
      BY <2>1, <3>1, PartnerMade
  <2>4. QED
    BY <2>2, <2>3
<1>2. QED
  BY <1>1 DEF Accompanied

LEMMA NextLonely ==
    ASSUME LonelyInv, [Next]_vars
    PROVE  LonelyInv'
<1>1. /\ ServedInv /\ Typed /\ Sitting /\ SittingPairs /\ Connected /\ Unbroken
      /\ Numbered /\ Ordered /\ Told /\ Accompanied
  BY DEF LonelyInv, ServedInv
<1>2. ServedInv'
  BY <1>1, NextServed
<1>3. Typed'
  BY <1>2 DEF ServedInv
<1>4. Sitting' /\ SittingPairs' /\ Connected' /\ Unbroken'
  BY <1>1, <1>3, SittingKept, SittingPairsKept, ConnectedKept, UnbrokenKept
<1>5. Numbered' /\ Ordered' /\ Told'
  BY <1>1, <1>3, NumberedKept, OrderedKept, ToldKept
<1>6. Accompanied'
  BY AccompaniedKept
<1>7. QED
  BY <1>2, <1>4, <1>5, <1>6 DEF LonelyInv

LEMMA InitLonely ==
    ASSUME Init
    PROVE  LonelyInv
<1>0. \A c \in Clients : /\ page[c] = NewPage /\ rtc[c] = NewHook /\ inbox[c] = <<>>
                         /\ conns[c] = 1
  BY DEF Init
<1>1. Sitting /\ SittingPairs
  BY IdleJob DEF Init, Sitting, SittingPairs
<1>2. Connected
  BY <1>0 DEF Init, Connected, Sock
<1>3. Unbroken
  BY <1>0 DEF Unbroken
<1>4. \A c \in Clients : \A y, k : ~Pending(c, y, k)
  BY <1>0 DEF Pending, Holds
<1>5. \A c \in Clients : InOrder(inbox[c])
  BY <1>0 DEF InOrder
<1>6. NewPage.callId = None /\ NewHook.listening = None /\ NewHook.deps[2] = None /\ NewHook.pc = None
  BY DEF NewPage, NewHook
<1>7. PagesNumbered
  BY <1>0, <1>6 DEF PagesNumbered, HookUpTo, UpTo
<1>8. GatewayNumbered
  BY IdleJob DEF Init, GatewayNumbered, UpTo
<1>9. Numbered /\ Ordered
  BY <1>4, <1>5, <1>7, <1>8 DEF Numbered, MailNumbered, Ordered
<1>10. \A c \in Clients, k \in Calls : ~Has(c, k)
  BY <1>0, <1>4, <1>6, CallNumbers DEF Has
<1>11. Told /\ Accompanied
  BY <1>10 DEF Told, Accompanied
<1>12. QED
  BY <1>1, <1>2, <1>3, <1>9, <1>11, InitServed DEF LonelyInv

(* When everything has settled nobody sits in a call alone, except after one of the   *)
(* events the history names.  While the gateway works, the partner of a page in a     *)
(* call is in it too or its end is about to be announced (Accompanied), and an        *)
(* announced end reaches everybody who is in the call (Told), because the gateway's   *)
(* news reach a page in the order of the calls (Ordered).                             *)
THEOREM NobodySitsAlone == Spec => []NobodyLeftAlone
<1>1. Init => LonelyInv
  BY InitLonely
<1>2. LonelyInv /\ [Next]_vars => LonelyInv'
  BY NextLonely
<1>3. LonelyInv => NobodyLeftAlone
  <2> SUFFICES ASSUME LonelyInv, Quiet, NEW c \in Clients \ stranded,
                      page[c].open, page[c].callId # None
               PROVE  \E d \in Clients \ {c} : InCall(d, page[c].callId)
    BY DEF NobodyLeftAlone
  <2>2. PICK k \in Calls : page[c].callId = k
    BY DEF LonelyInv, ServedInv, Typed, PagesOK, PageState
  <2>3. \A d \in Clients : \A y, j : ~Pending(d, y, j)
    BY DEF Quiet, Pending, Holds
  <2>4. Has(c, k)
    BY <2>2 DEF Has
  <2>5. PICK s \in Sockets : Partner(c, s, k)
    BY <2>3, <2>4 DEF LonelyInv, Accompanied
  <2>6. ~Leaving(s)
    BY IdleJob DEF Quiet, Leaving
  <2>7. s \in up => Live(s)
    BY DEF Quiet, Live
  <2>8. s[1] # c /\ Has(s[1], k)
    BY <2>5, <2>6, <2>7 DEF Partner
  <2>9. s[1] \in Clients
    BY DEF Sockets
  <2>10. InCall(s[1], k)
    BY <2>3, <2>8, <2>9 DEF Has, InCall
  <2>11. QED
    BY <2>2, <2>8, <2>9, <2>10
<1>4. QED
  BY <1>1, <1>2, <1>3, PTL DEF Spec

----------------------------------------------------------------------------
(* Calls are negotiated.                                                   *)

\* match:found comes after news of earlier calls only.
InStrictOrder(q) ==
    \A i, j \in DOMAIN q : i < j /\ q[j].type = "found" => q[i].callId < q[j].callId

\* An event on its way names call k and makes the page its initiator or not.
Invites(q, k, r) ==
    \E i \in DOMAIN q : q[i].type = "found" /\ q[i].callId = k /\ q[i].isInitiator = r

LEMMA TailStrict ==
    ASSUME NEW q \in Seq(Message), q # <<>>
    PROVE  /\ InStrictOrder(q) => InStrictOrder(Tail(q))
           /\ InStrictOrder(q) => \A k : Holds(Tail(q), "found", k) => Head(q).callId < k
           /\ \A k, r : Invites(Tail(q), k, r) => Invites(q, k, r)
<1>1. /\ DOMAIN q = 1 .. Len(q) /\ Len(q) \in Nat /\ DOMAIN Tail(q) = 1 .. (Len(q) - 1)
      /\ \A i \in 1 .. (Len(q) - 1) : Tail(q)[i] = q[i + 1]
      /\ Head(q) = q[1]
  OBVIOUS
<1>2. PICK r : r = Tail(q)
  OBVIOUS
<1>3. \A i \in DOMAIN r : i + 1 \in DOMAIN q /\ r[i] = q[i + 1] /\ 1 \in DOMAIN q /\ 1 < i + 1
  BY <1>1, <1>2
<1>4. \A i, j \in DOMAIN r : i < j => i + 1 < j + 1
  BY <1>1, <1>2
<1>5. InStrictOrder(q) => InStrictOrder(r)
  BY <1>3, <1>4 DEF InStrictOrder
<1>6. InStrictOrder(q) => \A k : Holds(r, "found", k) => q[1].callId < k
  BY <1>3 DEF InStrictOrder, Holds
<1>7. \A k, y : Invites(r, k, y) => Invites(q, k, y)
  BY <1>3 DEF Invites
<1>8. QED
  BY <1>1, <1>2, <1>5, <1>6, <1>7

LEMMA AppendStrict ==
    ASSUME NEW q \in Seq(Message), NEW m \in Message
    PROVE  /\ /\ InStrictOrder(q)
              /\ m.type = "found" => \A i \in DOMAIN q : q[i].callId < m.callId
              => InStrictOrder(Append(q, m))
           /\ \A k, r : Invites(Append(q, m), k, r) =>
                 Invites(q, k, r) \/ (m.type = "found" /\ m.callId = k /\ m.isInitiator = r)
<1>1. /\ DOMAIN q = 1 .. Len(q) /\ Len(q) \in Nat /\ DOMAIN Append(q, m) = 1 .. (Len(q) + 1)
      /\ \A i \in 1 .. Len(q) : Append(q, m)[i] = q[i]
      /\ Append(q, m)[Len(q) + 1] = m
  OBVIOUS
<1>2. PICK p, n : p = Append(q, m) /\ n = Len(q) + 1
  OBVIOUS
<1>3. /\ \A i \in DOMAIN p : (i \in DOMAIN q /\ p[i] = q[i]) \/ (i = n /\ p[i] = m)
      /\ \A i, j \in DOMAIN p : i < j => i \in DOMAIN q /\ p[i] = q[i]
  BY <1>1, <1>2
<1>4. ASSUME InStrictOrder(q), m.type = "found" => \A i \in DOMAIN q : q[i].callId < m.callId
      PROVE  InStrictOrder(p)
  <2>1. ASSUME NEW i \in DOMAIN p, NEW j \in DOMAIN p, i < j, p[j].type = "found"
        PROVE  p[i].callId < p[j].callId
    BY <1>3, <1>4, <2>1 DEF InStrictOrder
  <2>2. QED
    BY <2>1 DEF InStrictOrder
<1>5. \A k, r : Invites(p, k, r) =>
          Invites(q, k, r) \/ (m.type = "found" /\ m.callId = k /\ m.isInitiator = r)
  BY <1>3 DEF Invites
<1>6. QED
  BY <1>2, <1>4, <1>5

\* The match:found of a pairing of two sockets.
Invitation(t, c, m) ==
    /\ m.type = "found" /\ m.callId = made + 1
    /\ page[c].open /\ Sock(c) \in {task[t].sock, task[t].peer}
    /\ m.isInitiator <=> Sock(c) = task[t].sock

LEMMA AnnounceMail ==
    ASSUME Typed, NEW t \in Tasks, Announce(t), task[t].sock # task[t].peer, NEW c \in Clients
    PROVE  \/ inbox'[c] = inbox[c]
           \/ \E m \in Message : Invitation(t, c, m) /\ inbox'[c] = Append(inbox[c], m)
<1>1. PICK a, b : a = task[t].sock /\ b = task[t].peer
  OBVIOUS
<1>2. PICK k \in Calls : k = made + 1
  BY CallNumbered DEF Announce
<1>3. PICK q \in Seq(Message) : q = inbox[c]
  BY DEF Typed, NetOK
<1>4. inbox'[c] = q \o Found(c, a, k, TRUE) \o Found(c, b, k, FALSE)
  BY <1>1, <1>2, <1>3, Zenon DEF Announce
<1>5. q \o <<>> = q /\ \A m \in Message : q \o <<m>> = Append(q, m) /\ Append(q, m) \o <<>> = Append(q, m)
  BY <1>3
<1>6. ASSUME NEW m, NEW i \in BOOLEAN, m = [type |-> "found", callId |-> k, isInitiator |-> i]
      PROVE  m \in Message /\ m.type = "found" /\ m.callId = made + 1 /\ m.isInitiator = i
  BY <1>2, <1>6 DEF Message
<1>7. CASE page[c].open /\ Sock(c) = a
  <2>1. PICK m : m = [type |-> "found", callId |-> k, isInitiator |-> TRUE]
    OBVIOUS
  <2>2. Found(c, a, k, TRUE) = <<m>> /\ Found(c, b, k, FALSE) = <<>>
    BY <1>1, <1>7, <2>1, Zenon DEF Found
  <2>3. m \in Message /\ m.type = "found" /\ m.callId = made + 1 /\ m.isInitiator = TRUE
    BY <1>6, <2>1
  <2>4. inbox'[c] = Append(q, m)
    BY <1>4, <1>5, <2>2, <2>3
  <2>5. Invitation(t, c, m)
    BY <1>1, <1>7, <2>3 DEF Invitation
  <2>6. QED
    BY <1>3, <2>3, <2>4, <2>5
<1>8. CASE page[c].open /\ Sock(c) = b
  <2>1. PICK m : m = [type |-> "found", callId |-> k, isInitiator |-> FALSE]
    OBVIOUS
  <2>2. Found(c, b, k, FALSE) = <<m>> /\ Found(c, a, k, TRUE) = <<>>
    BY <1>1, <1>8, <2>1, Zenon DEF Found
  <2>3. m \in Message /\ m.type = "found" /\ m.callId = made + 1 /\ m.isInitiator = FALSE
    BY <1>6, <2>1
  <2>4. inbox'[c] = Append(q, m)
    BY <1>4, <1>5, <2>2, <2>3
  <2>5. Invitation(t, c, m)
    BY <1>1, <1>8, <2>3 DEF Invitation
  <2>6. QED
    BY <1>3, <2>3, <2>4, <2>5
<1>9. CASE ~(page[c].open /\ Sock(c) \in {a, b})
  <2>1. Found(c, b, k, FALSE) = <<>> /\ Found(c, a, k, TRUE) = <<>>
    BY <1>9, Zenon DEF Found
  <2>2. QED
    BY <1>3, <1>4, <1>5, <2>1
<1>10. QED
  BY <1>7, <1>8, <1>9

\* How the inbox of a page changes.
LEMMA EmitInbox ==
    ASSUME NetOK, NEW R, NEW m, inbox' = Emit(R, m), NEW c \in Clients
    PROVE  inbox'[c] \in {inbox[c], Append(inbox[c], m)}
  BY DEF Emit, NetOK

LEMMA InboxSteps ==
    ASSUME Typed, [Next]_vars, NEW c \in Clients
    PROVE  \/ inbox'[c] = inbox[c] \/ inbox'[c] = <<>>
           \/ \E m \in Message : m.type # "found" /\ inbox'[c] = Append(inbox[c], m)
           \/ inbox[c] # <<>> /\ inbox'[c] = Tail(inbox[c])
           \/ \E t \in Tasks : Announce(t)
<1>0. NetOK
  BY DEF Typed
<1>1. ASSUME NEW d \in Clients, NEW type \in {"offer", "answer"}, NEW k \in Calls, inbox' = Relay(d, type, k)
      PROVE  \/ inbox'[c] = inbox[c]
             \/ \E m \in Message : m.type # "found" /\ inbox'[c] = Append(inbox[c], m)
  <2>1. PICK m : m = [type |-> type, callId |-> k, isInitiator |-> FALSE]
    OBVIOUS
  <2>2. m \in Message /\ m.type # "found"
    BY <2>1 DEF Message
  <2>3. inbox' = Emit(room[k] \ {Sock(d)}, m)
    BY <1>1, <2>1 DEF Relay
  <2>4. QED
    BY <1>0, <2>2, <2>3, EmitInbox
<1>2. ASSUME NEW d \in Clients, SendOffer(d) \/ SendAnswer(d)
      PROVE  \/ inbox'[c] = inbox[c]
             \/ \E m \in Message : m.type # "found" /\ inbox'[c] = Append(inbox[c], m)
  BY <1>1, <1>2, SendOfferEffect, SendAnswerEffect
<1>3. ASSUME NEW d \in Clients, NEW type, Arrives(d, type), Consume(d)
      PROVE  inbox'[c] = inbox[c] \/ (inbox[c] # <<>> /\ inbox'[c] = Tail(inbox[c]))
  BY <1>0, <1>3 DEF Arrives, Consume, NetOK
<1>4. ASSUME NEW d \in Clients, inbox' = [inbox EXCEPT ![d] = <<>>]
      PROVE  inbox'[c] = inbox[c] \/ inbox'[c] = <<>>
  BY <1>0, <1>4 DEF NetOK
<1>5. ASSUME NEW k \in Calls, inbox' = Emit(room[k], Ended(k))
      PROVE  \/ inbox'[c] = inbox[c]
             \/ \E m \in Message : m.type # "found" /\ inbox'[c] = Append(inbox[c], m)
  <2>1. Ended(k) \in Message /\ Ended(k).type # "found"
    BY EndedTyped DEF Ended
  <2>2. QED
    BY <1>0, <1>5, <2>1, EmitInbox
<1>6. ASSUME NEW t \in Tasks, HangUp(t)
      PROVE  \/ inbox'[c] = inbox[c]
             \/ \E m \in Message : m.type # "found" /\ inbox'[c] = Append(inbox[c], m)
  <2>1. task[t].sock \in Sockets
    BY <1>6 DEF HangUp, Typed, JobsOK, Briefed
  <2>2. PICK k \in Calls \cup {None} : k = meta[task[t].sock]
    BY <2>1 DEF Typed, GatewayOK
  <2>3. inbox' = inbox \/ (k \in Calls /\ inbox' = Emit(room[k], Ended(k)))
    BY <1>6, <2>2 DEF HangUp
  <2>4. QED
    BY <1>5, <2>3
<1>7. ASSUME NEW t \in Tasks, FinishEnd(t)
      PROVE  \/ inbox'[c] = inbox[c]
             \/ \E m \in Message : m.type # "found" /\ inbox'[c] = Append(inbox[c], m)
  <2>1. PICK k \in Calls : k = task[t].call
    BY <1>7 DEF FinishEnd, Typed, JobsOK, Briefed
  <2>2. inbox' = Emit(room[k], Ended(k))
    BY <1>7, <2>1 DEF FinishEnd
  <2>3. QED
    BY <1>5, <2>2
<1>8. QED
  BY <1>2, <1>3, <1>4, <1>6, <1>7, MailSteps

\* The calls a page that nothing befell knows of are older than one it is invited to.
Newer ==
    \A c \in Clients \ stranded :
        /\ InStrictOrder(inbox[c])
        /\ \A k \in Calls : Pending(c, "found", k) =>
              UpTo(page[c].callId, k - 1) /\ HookUpTo(rtc[c], k - 1)

\* A pairing spares only the clients of two registered sockets.
LEMMA PairOfTwo ==
    ASSUME Typed, NEW t \in Tasks, Announce(t), NEW c \in Clients \ stranded',
           Sock(c) \in {task[t].sock, task[t].peer}
    PROVE  task[t].sock # task[t].peer
<1>1. PICK a, b \in Sockets, k \in Calls : Announces(t, a, b, k)
  BY AnnounceEffect
<1>2. a = task[t].sock /\ b = task[t].peer
  BY <1>1 DEF Announces
<1>3. a = b => {a[1], b[1]} \subseteq stranded'
  BY <1>1 DEF Announces
<1>4. Sock(c)[1] = c
  BY OwnSocket DEF Typed
<1>5. QED
  BY <1>2, <1>3, <1>4

LEMMA AnnouncedInbox ==
    ASSUME Typed, NEW t \in Tasks, Announce(t), NEW c \in Clients \ stranded'
    PROVE  \/ inbox'[c] = inbox[c]
           \/ \E m \in Message : Invitation(t, c, m) /\ inbox'[c] = Append(inbox[c], m)
<1>1. CASE Sock(c) \in {task[t].sock, task[t].peer}
  BY <1>1, PairOfTwo, AnnounceMail
<1>2. CASE ~(Sock(c) \in {task[t].sock, task[t].peer})
  <2>1. PICK q \in Seq(Message) : q = inbox[c]
    BY DEF Typed, NetOK
  <2>2. inbox'[c] = q \o <<>> \o <<>>
    BY <1>2, <2>1, Zenon DEF Announce, Found
  <2>3. QED
    BY <2>1, <2>2
<1>3. QED
  BY <1>1, <1>2

LEMMA StrictKept ==
    ASSUME Typed, Numbered, Newer, [Next]_vars, NEW c \in Clients \ stranded'
    PROVE  InStrictOrder(inbox'[c])
<1>1. PICK q \in Seq(Message) : q = inbox[c]
  BY DEF Typed, NetOK
<1>2. InStrictOrder(q)
  BY <1>1, StrandedGrows DEF Newer
<1>3. InStrictOrder(<<>>)
  BY DEF InStrictOrder
<1>4. ASSUME NEW m \in Message, m.type # "found", inbox'[c] = Append(q, m) PROVE InStrictOrder(inbox'[c])
  BY <1>2, <1>4, AppendStrict
<1>5. ASSUME q # <<>>, inbox'[c] = Tail(q) PROVE InStrictOrder(inbox'[c])
  BY <1>2, <1>5, TailStrict
<1>6. ASSUME NEW t \in Tasks, Announce(t) PROVE InStrictOrder(inbox'[c])
  <2>1. CASE inbox'[c] = inbox[c]
    BY <1>1, <1>2, <2>1
  <2>2. ASSUME NEW m \in Message, Invitation(t, c, m), inbox'[c] = Append(q, m)
        PROVE  InStrictOrder(inbox'[c])
    <3>1. \A i \in DOMAIN q : q[i].callId < m.callId
      BY <1>1, <2>2, MailBelow DEF Invitation, Numbered
    <3>2. QED
      BY <1>2, <2>2, <3>1, AppendStrict
  <2>3. QED
    BY <1>1, <1>6, <2>1, <2>2, AnnouncedInbox
<1>7. QED
  BY <1>1, <1>2, <1>3, <1>4, <1>5, <1>6, InboxSteps

LEMMA NewerKept ==
    ASSUME Typed, Typed', Numbered, Newer, [Next]_vars
    PROVE  Newer'
<1>1. ASSUME NEW c \in Clients \ stranded', NEW k \in Calls, Pending(c, "found", k)'
      PROVE  UpTo(page'[c].callId, k - 1) /\ HookUpTo(rtc'[c], k - 1)
  <2>0. c \in Clients \ stranded /\ k \in Nat /\ NetOK /\ made \in Nat
    BY StrandedGrows, CallNumbers DEF Typed, JobsOK
  <2>1. CASE Pending(c, "found", k)
    <3>1. UpTo(page[c].callId, k - 1) /\ HookUpTo(rtc[c], k - 1) /\ InStrictOrder(inbox[c])
      BY <2>0, <2>1 DEF Newer
    <3>2. HookUpTo(rtc'[c], k - 1)
      BY <3>1, HookBounded
    <3>3. ASSUME OnMatchFound(c) PROVE UpTo(Head(inbox[c]).callId, k - 1)
      <4>1. inbox[c] # <<>> /\ inbox[c] \in Seq(Message) /\ inbox'[c] = Tail(inbox[c])
        BY <2>0, <3>3 DEF OnMatchFound, Arrives, Consume, NetOK
      <4>2. Holds(Tail(inbox[c]), "found", k)
        BY <1>1, <4>1 DEF Pending
      <4>3. Head(inbox[c]).callId < k
        BY <3>1, <4>1, <4>2, TailStrict
      <4>4. Head(inbox[c]).callId \in Nat
        BY <2>0, <3>3, ConsumePending, CallNumbers DEF OnMatchFound, Message
      <4>5. QED
        BY <2>0, <4>3, <4>4 DEF UpTo
    <3>4. UpTo(None, k - 1)
      BY DEF UpTo
    <3>5. QED
      BY <3>1, <3>2, <3>3, <3>4, PageChanges
  <2>2. CASE ~Pending(c, "found", k)
    <3>1. PICK t \in Tasks, a, b \in Sockets : Announces(t, a, b, k)
      BY <1>1, <2>2, NewMail
    <3>2. k - 1 = made
      BY <2>0, <3>1 DEF Announces
    <3>3. page' = page /\ rtc' = rtc
      BY <3>1, AnnouncingIsAnnounce DEF Announce, client
    <3>4. UpTo(page[c].callId, made) /\ HookUpTo(rtc[c], made)
      BY DEF Numbered, PagesNumbered
    <3>5. QED
      BY <3>2, <3>3, <3>4
  <2>3. QED
    BY <2>1, <2>2
<1>2. QED
  BY <1>1, StrictKept DEF Newer

\* What Newer says of a page that is in the call.
LEMMA NotInvitedAgain ==
    ASSUME Typed, Newer, NEW c \in Clients \ stranded, NEW k \in Calls, Pending(c, "found", k)
    PROVE  /\ page[c].callId # k /\ rtc[c].listening # k /\ rtc[c].deps[2] # k
           /\ rtc[c].pc # None => rtc[c].pc.callId # k /\ rtc[c].pc.via # k
<1>1. UpTo(page[c].callId, k - 1) /\ HookUpTo(rtc[c], k - 1)
  BY DEF Newer
<1>2. k \in Nat /\ k # None /\ ~(k <= k - 1)
  BY CallNumbers
<1>3. QED
  BY <1>1, <1>2 DEF HookUpTo, UpTo

----------------------------------------------------------------------------
(* The two roles.                                                          *)

\* The page is in the call or about to be, as its initiator or not.
HasAs(c, k, r) ==
    /\ page[c].open
    /\ (page[c].callId = k /\ page[c].isInitiator = r) \/ Invites(inbox[c], k, r)

\* Two pages have the two roles.
Roles ==
    \A c, d \in Clients \ stranded : \A k \in Calls : \A r, q \in BOOLEAN :
        c # d /\ HasAs(c, k, r) /\ HasAs(d, k, q) => r # q

LEMMA RolePending ==
    ASSUME NEW c, NEW k, NEW r, HasAs(c, k, r)
    PROVE  Has(c, k)
  BY DEF HasAs, Has, Invites, Pending, Holds

LEMMA HasRole ==
    ASSUME Typed, NEW c \in Clients, NEW k, Has(c, k)
    PROVE  \E r \in BOOLEAN : HasAs(c, k, r)
<1>1. CASE page[c].callId = k
  <2>1. page[c].isInitiator \in BOOLEAN
    BY DEF Typed, PagesOK, PageState
  <2>2. QED
    BY <1>1, <2>1 DEF Has, HasAs
<1>2. CASE Pending(c, "found", k)
  <2>1. PICK i \in DOMAIN inbox[c] : inbox[c][i].type = "found" /\ inbox[c][i].callId = k
    BY <1>2 DEF Pending, Holds
  <2>2. inbox[c][i] \in Message
    BY <2>1 DEF Typed, NetOK
  <2>3. PICK r \in BOOLEAN : r = inbox[c][i].isInitiator
    BY <2>2 DEF Message
  <2>4. Invites(inbox[c], k, r)
    BY <2>1, <2>3 DEF Invites
  <2>5. QED
    BY <2>4 DEF Has, HasAs
<1>3. QED
  BY <1>1, <1>2 DEF Has

\* The role of a page changes with its call.
LEMMA RoleChanges ==
    ASSUME Typed, [Next]_vars, NEW c \in Clients, page'[c].callId # None
    PROVE  \/ page'[c].callId = page[c].callId /\ page'[c].isInitiator = page[c].isInitiator
           \/ OnMatchFound(c)
<1>1. ASSUME NEW d \in Clients, Page(d)
      PROVE  \/ page'[c] = page[c] \/ Render(d) \/ OnMatchFound(c) \/ Unmount(d)
             \/ (OnCallEnded(c) /\ d = c)
  <2>1. d # c /\ (OnMatchFound(d) \/ OnCallEnded(d)) => page'[c] = page[c]
    BY OnMatchFoundEffect, BackToQueueEffect DEF OnCallEnded
  <2>2. QED
    BY <1>1, <2>1 DEF Page, Busy, Reconnect, Granted, NegotiationNeeded, SendOffer,
       SendAnswer, EndedUnheard, OnOffer, OnAnswer, SdpIgnored, CloseTab, client
<1>2. ASSUME NEW t \in Tasks, Handler(t) PROVE page' = page
  BY <1>2 DEF Handler, Dequeue, HangUp, FinishEnd, TryMatch, Announce, HandlerFails, client
<1>3. ASSUME NEW d \in Clients, Unmount(d)
      PROVE  page'[c].callId = page[c].callId /\ page'[c].isInitiator = page[c].isInitiator
  <2>1. page \in [Clients -> PageState] /\ page' = [page EXCEPT ![d].open = FALSE]
    BY <1>3 DEF Typed, PagesOK, Unmount
  <2>2. page'[c] = page[c] \/ page'[c] = [page[c] EXCEPT !.open = FALSE]
    BY <2>1
  <2>3. QED
    BY <2>1, <2>2 DEF PageState
<1>4. ASSUME NEW d \in Clients, Render(d)
      PROVE  page'[c].callId = page[c].callId /\ page'[c].isInitiator = page[c].isInitiator
  BY <1>4, RenderEffect
<1>5. ~OnCallEnded(c)
  BY BackToQueueEffect DEF OnCallEnded
<1>6. ASSUME NEW t \in Tasks, NEW d \in Clients, IceFails(t, d) \/ Leave(t, d)
      PROVE  page' = page \/ Unmount(d)
  BY <1>6 DEF IceFails, Leave
<1>7. QED
  BY <1>1, <1>2, <1>3, <1>4, <1>5, <1>6 DEF Next, vars, client, HandleDisconnect

LEMMA RoleBefore ==
    ASSUME Typed, [Next]_vars, NEW c \in Clients \ stranded', NEW k \in Calls, NEW r \in BOOLEAN,
           HasAs(c, k, r)'
    PROVE  \/ HasAs(c, k, r)
           \/ \E t \in Tasks : /\ Announce(t) /\ k = made + 1
                               /\ Sock(c) \in {task[t].sock, task[t].peer}
                               /\ r <=> Sock(c) = task[t].sock
<1>0. page[c].open /\ NetOK /\ k # None
  BY PageChanges, CallNumbers DEF HasAs, Typed
<1>1. PICK q \in Seq(Message) : q = inbox[c]
  BY <1>0 DEF NetOK
<1>2. ASSUME page'[c].callId = k, page'[c].isInitiator = r PROVE HasAs(c, k, r)
  <2>1. CASE page'[c].callId = page[c].callId /\ page'[c].isInitiator = page[c].isInitiator
    BY <1>0, <1>2, <2>1 DEF HasAs
  <2>2. CASE OnMatchFound(c)
    <3>1. Head(q).callId = k /\ Head(q).isInitiator = r
      BY <1>1, <1>2, <2>2, OnMatchFoundEffect
    <3>2. q # <<>> /\ Head(q).type = "found"
      BY <1>1, <2>2 DEF OnMatchFound, Arrives
    <3>3. 1 \in DOMAIN q /\ Head(q) = q[1]
      BY <3>2
    <3>4. Invites(q, k, r)
      BY <3>1, <3>2, <3>3 DEF Invites
    <3>5. QED
      BY <1>0, <1>1, <3>4 DEF HasAs
  <2>3. QED
    BY <1>0, <1>2, <2>1, <2>2, RoleChanges
<1>3. ASSUME Invites(inbox'[c], k, r), ~Invites(q, k, r)
      PROVE  \E t \in Tasks : /\ Announce(t) /\ k = made + 1
                              /\ Sock(c) \in {task[t].sock, task[t].peer}
                              /\ r <=> Sock(c) = task[t].sock
  <2>1. inbox'[c] # q
    BY <1>3
  <2>2. inbox'[c] # <<>>
    BY <1>3 DEF Invites
  <2>3. ASSUME NEW m \in Message, m.type # "found", inbox'[c] = Append(q, m) PROVE FALSE
    BY <1>3, <2>3, AppendStrict
  <2>4. ~(q # <<>> /\ inbox'[c] = Tail(q))
    BY <1>3, TailStrict
  <2>5. PICK t \in Tasks : Announce(t)
    BY <1>1, <2>1, <2>2, <2>3, <2>4, InboxSteps
  <2>6. PICK m \in Message : Invitation(t, c, m) /\ inbox'[c] = Append(q, m)
    BY <1>1, <2>1, <2>5, AnnouncedInbox
  <2>7. m.callId = k /\ m.isInitiator = r
    BY <1>3, <2>6, AppendStrict
  <2>8. QED
    BY <2>5, <2>6, <2>7 DEF Invitation
<1>4. QED
  BY <1>0, <1>1, <1>2, <1>3 DEF HasAs

\* Only one pairing is announced at a time.
LEMMA OneAnnounce ==
    ASSUME Typed, NEW t \in Tasks, Announce(t), NEW u \in Tasks, Announce(u)
    PROVE  t = u
<1>1. task \in [Tasks -> Job] /\ task[t].kind = "pair" /\ IdleTask.kind = "idle"
  BY IdleJob DEF Typed, JobsOK, Announce
<1>2. task' = [task EXCEPT ![t] = IdleTask] /\ task' = [task EXCEPT ![u] = IdleTask]
  BY DEF Announce, Done
<1>3. t # u => task'[t] = task[t]
  BY <1>1, <1>2
<1>4. task'[t] = IdleTask
  BY <1>1, <1>2
<1>5. QED
  BY <1>1, <1>3, <1>4

LEMMA RolesKept ==
    ASSUME Typed, Numbered, Roles, [Next]_vars
    PROVE  Roles'
<1>0. made \in Nat
  BY DEF Typed, JobsOK
<1>1. ASSUME NEW c \in Clients, NEW k \in Calls, NEW r, HasAs(c, k, r) PROVE k # made + 1
  <2>1. k <= made /\ k \in Nat
    BY <1>1, RolePending, HasNumbered, CallNumbers
  <2>2. QED
    BY <1>0, <2>1
<1>2. ASSUME NEW c \in Clients \ stranded', NEW d \in Clients \ stranded', NEW k \in Calls,
             NEW r \in BOOLEAN, NEW q \in BOOLEAN, c # d, HasAs(c, k, r)', HasAs(d, k, q)'
      PROVE  r # q
  <2>1. c \in Clients \ stranded /\ d \in Clients \ stranded
    BY StrandedGrows
  <2>2. CASE HasAs(c, k, r) /\ HasAs(d, k, q)
    BY <1>2, <2>1, <2>2 DEF Roles
  <2>3. CASE ~(HasAs(c, k, r) /\ HasAs(d, k, q))
    <3>1. k = made + 1
      BY <1>2, <2>3, RoleBefore
    <3>2. ~HasAs(c, k, r) /\ ~HasAs(d, k, q)
      BY <1>1, <3>1
    <3>3. PICK t \in Tasks : /\ Announce(t) /\ Sock(c) \in {task[t].sock, task[t].peer}
                             /\ r <=> Sock(c) = task[t].sock
      BY <1>2, <3>2, RoleBefore
    <3>4. PICK u \in Tasks : /\ Announce(u) /\ Sock(d) \in {task[u].sock, task[u].peer}
                             /\ q <=> Sock(d) = task[u].sock
      BY <1>2, <3>2, RoleBefore
    <3>5. u = t
      BY <3>3, <3>4, OneAnnounce
    <3>6. Sock(c) # Sock(d)
      BY <1>2 DEF Sock
    <3>7. ~(r <=> q)
      BY <3>3, <3>4, <3>5, <3>6
    <3>8. QED
      BY <3>7
  <2>4. QED
    BY <2>2, <2>3
<1>3. QED
  BY <1>2 DEF Roles

----------------------------------------------------------------------------
(* Two pages at most know of a call.                                       *)

HookKnows(h, k) == h.listening = k \/ (h.pc # None /\ (h.pc.callId = k \/ h.pc.via = k))

Knows(c, k) == Has(c, k) \/ HookKnows(rtc[c], k)

Duo ==
    \A c, d, x \in Clients : \A k \in Calls :
        Knows(c, k) /\ Knows(d, k) /\ Knows(x, k) => c = d \/ x \in {c, d}

LEMMA HookKnewBefore ==
    ASSUME Typed, [Next]_vars, NEW c \in Clients, NEW k \in Calls, HookKnows(rtc'[c], k)
    PROVE  Knows(c, k)
<1>0. k # None
  BY CallNumbers
<1>1. ASSUME Render(c) PROVE Knows(c, k)
  <2>1. PICK h : h = HookEffects(c) /\ h = rtc'[c]
    BY <1>1, RenderEffect
  <2>2. page[c].open
    BY <1>1 DEF Render
  <2>3. h.listening = page[c].callId
    BY <2>1, HookEffect
  <2>4. CASE rtc[c].pc # None
    <3>1. SameEnds(h.pc, rtc[c].pc)
      BY <2>1, <2>4, HookEffect
    <3>2. QED
      BY <2>1, <2>2, <2>3, <2>4, <3>1 DEF HookKnows, Knows, Has, SameEnds
  <2>5. CASE rtc[c].pc = None /\ page[c].callId = None
    <3>1. h.pc = None
      BY <2>1, <2>5, HookEffect
    <3>2. QED
      BY <2>1, <2>2, <2>3, <3>1 DEF HookKnows, Knows, Has
  <2>6. CASE rtc[c].pc = None /\ page[c].callId # None
    <3>1. h.pc.callId = page[c].callId /\ h.pc.via = None
      BY <2>1, <2>6, HookEffect
    <3>2. QED
      BY <1>0, <2>1, <2>2, <2>3, <3>1 DEF HookKnows, Knows, Has
  <2>7. QED
    BY <2>4, <2>5, <2>6
<1>2. ASSUME NegotiationNeeded(c) PROVE HookKnows(rtc[c], k)
  <2>1. RestSame(c) /\ SameEnds(rtc'[c].pc, rtc[c].pc) /\ rtc[c].pc # None
    BY <1>2, NegotiationNeededEffect
  <2>2. QED
    BY <2>1 DEF HookKnows, RestSame, SameEnds
<1>3. ASSUME SendOffer(c) \/ SendAnswer(c) PROVE HookKnows(rtc[c], k)
  <2>1. /\ RestSame(c) /\ rtc'[c].pc.callId = rtc[c].pc.callId
        /\ rtc'[c].pc.via = rtc[c].pc.via /\ rtc[c].pc # None
    BY <1>3, SendOfferEffect, SendAnswerEffect
  <2>2. QED
    BY <2>1 DEF HookKnows, RestSame
<1>4. ASSUME OnMatchFound(c) PROVE HookKnows(rtc[c], k)
  BY <1>4, OnMatchFoundEffect DEF HookKnows
<1>5. ASSUME rtc' = [rtc EXCEPT ![c] = CleanupPeerConnection(@)] PROVE HookKnows(rtc[c], k)
  BY <1>5, CleanupEffect DEF HookKnows, RestSame
<1>6. ASSUME OnOffer(c) PROVE HookKnows(rtc[c], k)
  <2>1. /\ rtc'[c].listening = rtc[c].listening /\ rtc[c].pc # None
        /\ rtc'[c].pc.callId = rtc[c].pc.callId /\ rtc'[c].pc.via = rtc[c].listening
    BY <1>6, OnOfferEffect
  <2>2. QED
    BY <2>1 DEF HookKnows
<1>7. ASSUME OnAnswer(c) PROVE HookKnows(rtc[c], k)
  <2>1. /\ rtc'[c].listening = rtc[c].listening /\ rtc[c].pc # None
        /\ rtc'[c].pc.callId = rtc[c].pc.callId /\ rtc'[c].pc.via = rtc[c].pc.via
    BY <1>7, OnAnswerEffect
  <2>2. QED
    BY <2>1 DEF HookKnows
<1>8. ASSUME Reconnect(c) PROVE HookKnows(rtc[c], k)
  BY <1>0, <1>8, ReconnectEffect DEF HookKnows
<1>9. ~Unmount(c)
  BY <1>0, UnmountEffect DEF HookKnows, NewHook
<1>10. ASSUME OnCallEnded(c) \/ \E t \in Tasks : IceFails(t, c) PROVE HookKnows(rtc[c], k)
  BY <1>5, <1>10 DEF OnCallEnded, IceFails
<1>11. QED
  BY <1>1, <1>2, <1>3, <1>4, <1>6, <1>7, <1>8, <1>9, <1>10, HookSteps DEF HookTouched, Knows

\* What is known was made.
LEMMA KnownNumbered ==
    ASSUME Numbered, NEW c \in Clients, NEW k \in Calls, Knows(c, k)
    PROVE  k <= made
<1>1. HookUpTo(rtc[c], made)
  BY DEF Numbered, PagesNumbered
<1>2. CASE HookKnows(rtc[c], k)
  BY <1>1, <1>2, CallNumbers DEF HookUpTo, HookKnows, UpTo
<1>3. QED
  BY <1>2, HasNumbered DEF Knows

LEMMA DuoKept ==
    ASSUME Typed, Numbered, Duo, [Next]_vars
    PROVE  Duo'
<1>0. made \in Nat
  BY DEF Typed, JobsOK
<1>1. ASSUME NEW c \in Clients, NEW k \in Calls, Knows(c, k)', ~Knows(c, k)
      PROVE  \E t \in Tasks : /\ Announce(t) /\ k = made + 1
                              /\ Sock(c) \in {task[t].sock, task[t].peer}
  <2>1. Has(c, k)' /\ ~Has(c, k)
    BY <1>1, HookKnewBefore DEF Knows
  <2>2. PICK t \in Tasks, a, b \in Sockets : Announces(t, a, b, k) /\ Sock(c) \in {a, b}
    BY <2>1, HasBefore
  <2>3. Announce(t)
    BY <2>2, AnnouncingIsAnnounce
  <2>4. k = made + 1 /\ a = task[t].sock /\ b = task[t].peer
    BY <2>2 DEF Announces
  <2>5. QED
    BY <2>2, <2>3, <2>4
<1>2. ASSUME NEW c \in Clients, NEW k \in Calls, Knows(c, k) PROVE k # made + 1
  <2>1. k <= made /\ k \in Nat
    BY <1>2, KnownNumbered, CallNumbers
  <2>2. QED
    BY <1>0, <2>1
<1>3. ASSUME NEW c \in Clients, NEW d \in Clients, NEW x \in Clients, NEW k \in Calls,
             Knows(c, k)', Knows(d, k)', Knows(x, k)'
      PROVE  c = d \/ x \in {c, d}
  <2>1. CASE Knows(c, k) /\ Knows(d, k) /\ Knows(x, k)
    BY <2>1 DEF Duo
  <2>2. CASE ~(Knows(c, k) /\ Knows(d, k) /\ Knows(x, k))
    <3>1. k = made + 1
      BY <1>1, <1>3, <2>2
    <3>2. ~Knows(c, k) /\ ~Knows(d, k) /\ ~Knows(x, k)
      BY <1>2, <3>1
    <3>3. PICK t \in Tasks : Announce(t) /\ Sock(c) \in {task[t].sock, task[t].peer}
      BY <1>1, <1>3, <3>2
    <3>4. Sock(d) \in {task[t].sock, task[t].peer}
      BY <1>1, <1>3, <3>2, <3>3, OneAnnounce
    <3>5. Sock(x) \in {task[t].sock, task[t].peer}
      BY <1>1, <1>3, <3>2, <3>3, OneAnnounce
    <3>6. /\ Sock(c)[1] = c /\ Sock(d)[1] = d /\ Sock(x)[1] = x
      BY OwnSocket DEF Typed
    <3>7. QED
      BY <3>3, <3>4, <3>5, <3>6
  <2>3. QED
    BY <2>1, <2>2
<1>4. QED
  BY <1>3 DEF Duo

----------------------------------------------------------------------------
(* The hook of a page in a call.                                           *)

\* An offer that was sent belongs to a connection.
Clean == \A c \in Clients : rtc[c].pc = None => ~rtc[c].offerSent

\* The end of the call is on its way to the page.
Doomed(c, k) == Pending(c, "ended", k) \/ \E t \in Tasks : task[t].kind = "end" /\ task[t].call = k

\* The page is in the call with a connection and descriptions of this call only.
In(c, k) == page[c].open /\ page[c].callId = k /\ ~rtc[c].crossed

\* The connection is the one of the call and of the role, in a state the role allows.
Fits(h, k, r) ==
    h.pc # None =>
        /\ h.pc.callId = k /\ h.listening = k /\ h.pc.peer \in {None, k}
        /\ h.pc.isInitiator = r /\ h.isInitiator = r
        /\ r => h.pc.sig # "have-remote-offer"
        /\ ~r => /\ h.pc.sig # "have-local-offer" /\ h.pc.offers = <<>>
                 /\ h.pc.sig = "have-remote-offer" => h.pc.peer = k /\ h.pc.via = k

\* The effect of the first offer has run and no negotiation of the connection will.
Idles(h, k, r) ==
    IF h.pc = None THEN h.deps[2] = k
    ELSE r /\ h.pc.peer = None /\ h.pc.offers = <<>> /\ h.pc.sig # "have-local-offer"

Hooked ==
    \A c \in Clients \ stranded : \A k \in Calls : In(c, k) =>
        /\ Fits(rtc[c], k, page[c].isInitiator)
        /\ Idles(rtc[c], k, page[c].isInitiator) => Doomed(c, k)

LEMMA CleanKept ==
    ASSUME Typed, Clean, [Next]_vars
    PROVE  Clean'
<1>1. ASSUME NEW c \in Clients, rtc'[c].pc = None PROVE ~rtc'[c].offerSent
  <2>1. ASSUME Render(c) PROVE ~rtc'[c].offerSent
    <3>1. PICK h : h = HookEffects(c) /\ h = rtc'[c]
      BY <2>1, RenderEffect
    <3>2. rtc[c].pc = None /\ h.offerSent = rtc[c].offerSent
      BY <1>1, <3>1, HookEffect
    <3>3. QED
      BY <3>1, <3>2 DEF Clean
  <2>2. ~NegotiationNeeded(c) /\ ~SendOffer(c) /\ ~SendAnswer(c) /\ ~OnOffer(c) /\ ~OnAnswer(c)
    BY <1>1, NegotiationNeededEffect, SendOfferEffect, SendAnswerEffect, OnOfferEffect, OnAnswerEffect
  <2>3. ASSUME OnMatchFound(c) PROVE ~rtc'[c].offerSent
    BY <1>1, <2>3, OnMatchFoundEffect DEF Clean
  <2>4. ASSUME OnCallEnded(c) \/ \E t \in Tasks : IceFails(t, c) PROVE ~rtc'[c].offerSent
    BY <2>4, CleanupEffect DEF OnCallEnded, IceFails
  <2>5. ASSUME Reconnect(c) PROVE ~rtc'[c].offerSent
    BY <1>1, <2>5, ReconnectEffect DEF Clean
  <2>6. ASSUME Unmount(c) PROVE ~rtc'[c].offerSent
    BY <2>6, UnmountEffect DEF NewHook
  <2>7. ASSUME rtc'[c] = rtc[c] PROVE ~rtc'[c].offerSent
    BY <1>1, <2>7 DEF Clean
  <2>8. QED
    BY <2>1, <2>2, <2>3, <2>4, <2>5, <2>6, <2>7, HookSteps DEF HookTouched
<1>2. QED
  BY <1>1 DEF Clean

\* An end that is on its way arrives.
LEMMA DoomedStays ==
    ASSUME Typed, Ordered, Accompanied, [Next]_vars, NEW c \in Clients \ stranded', NEW k \in Calls,
           Has(c, k), Has(c, k)', Doomed(c, k)
    PROVE  Doomed(c, k)'
<1>0. c \in Clients \ stranded /\ page[c].open
  BY StrandedGrows DEF Has
<1>1. CASE Pending(c, "ended", k)
  BY <1>1, EndedStays DEF Doomed
<1>2. CASE ~Pending(c, "ended", k)
  <2>1. PICK t \in Tasks : task[t].kind = "end" /\ task[t].call = k
    BY <1>2 DEF Doomed
  <2>2. Sock(c) \in room[k]
    BY <1>0, <1>2 DEF Accompanied
  <2>3. CASE task'[t] = task[t]
    BY <2>1, <2>3 DEF Doomed
  <2>4. CASE task'[t] # task[t]
    <3>1. FinishEnd(t) \/ HandlerFails(t)
      BY <2>1, <2>4, JobSteps DEF Dequeue, HangUp, Announce
    <3>2. CASE FinishEnd(t)
      BY <1>0, <2>1, <2>2, <3>2, RoomIsTold DEF Doomed
    <3>3. CASE HandlerFails(t)
      <4>1. Concerned(t) = room[k]
        BY <2>1 DEF Concerned
      <4>2. {x[1] : x \in room[k]} \subseteq stranded'
        BY <3>3, <4>1 DEF HandlerFails
      <4>3. c \in Members(k)
        BY <2>2, InRoom
      <4>4. QED
        BY <4>2, <4>3 DEF Members
    <3>4. QED
      BY <3>1, <3>2, <3>3
  <2>5. QED
    BY <2>3, <2>4
<1>3. QED
  BY <1>1, <1>2

\* How a hook in a call goes on in its own steps.
LEMMA FitsStays ==
    ASSUME Typed, [Next]_vars, NEW c \in Clients, ~Reconnect(c), NEW k \in Calls,
           NEW r \in BOOLEAN,
           page[c].open, page[c].callId = k, page[c].isInitiator = r,
           page'[c].open, page'[c].callId = k, ~rtc'[c].crossed, ~OnMatchFound(c),
           ~rtc[c].crossed => Fits(rtc[c], k, r), rtc[c].pc = None => ~rtc[c].offerSent
    PROVE  /\ ~rtc[c].crossed /\ Fits(rtc'[c], k, r)
           /\ \/ Idles(rtc'[c], k, r) => Idles(rtc[c], k, r)
              \/ \E t \in Tasks : IceFails(t, c)
<1>0. k # None /\ rtc[c] \in Hook /\ rtc[c].crossed \in BOOLEAN
  BY CallNumbers DEF Typed, PagesOK, Hook
<1>1. ASSUME Render(c)
      PROVE  /\ ~rtc[c].crossed /\ Fits(rtc'[c], k, r)
             /\ Idles(rtc'[c], k, r) => Idles(rtc[c], k, r)
  <2>1. PICK h : h = HookEffects(c) /\ h = rtc'[c]
    BY <1>1, RenderEffect
  <2>2. /\ h.listening = k /\ h.isInitiator = r /\ h.crossed = rtc[c].crossed
        /\ h.deps = <<TRUE, page[c].callId, page[c].isInitiator>>
    BY <2>1, HookEffect
  <2>3. ~rtc[c].crossed /\ Fits(rtc[c], k, r) /\ h.deps[2] = k
    BY <2>1, <2>2
  <2>4. CASE rtc[c].pc # None
    <3>1. /\ h.pc # None /\ SameEnds(h.pc, rtc[c].pc)
          /\ h.pc.offers = rtc[c].pc.offers \/ (r /\ h.pc.offers # <<>>)
      BY <2>1, <2>4, HookKept
    <3>2. /\ h.pc.callId = rtc[c].pc.callId /\ h.pc.isInitiator = rtc[c].pc.isInitiator
          /\ h.pc.sig = rtc[c].pc.sig /\ h.pc.peer = rtc[c].pc.peer /\ h.pc.via = rtc[c].pc.via
      BY <3>1 DEF SameEnds
    <3>3. Fits(h, k, r)
      BY <2>2, <2>3, <2>4, <3>1, <3>2 DEF Fits
    <3>4. Idles(h, k, r) => Idles(rtc[c], k, r)
      BY <2>4, <3>1, <3>2 DEF Idles
    <3>5. QED
      BY <2>1, <2>3, <3>3, <3>4
  <2>5. CASE rtc[c].pc = None
    <3>0. page[c].callId # None /\ ~rtc[c].offerSent
      BY <1>0, <2>5
    <3>1. /\ h.pc # None /\ h.pc.callId = k /\ h.pc.isInitiator = r /\ h.pc.sig = "stable"
          /\ h.pc.peer = None /\ h.pc.via = None
          /\ ~r => h.pc.offers = <<>>
          /\ r /\ rtc[c].deps[2] # k => h.pc.offers # <<>>
      <4>1. h.pc # None /\ h.pc.callId = page[c].callId
        BY <2>1, <2>5, <3>0, HookMade
      <4>2. h.pc.isInitiator = page[c].isInitiator
        BY <2>1, <2>5, <3>0, HookMade, Zenon
      <4>3. h.pc.sig = "stable" /\ h.pc.peer = None /\ h.pc.via = None
        BY <2>1, <2>5, <3>0, HookMade
      <4>4. ~page[c].isInitiator => h.pc.offers = <<>>
        BY <2>1, <2>5, <3>0, HookMade
      <4>5. page[c].isInitiator /\ rtc[c].deps[2] # page[c].callId => h.pc.offers # <<>>
        BY <2>1, <2>5, <3>0, HookMade
      <4>6. QED
        BY <4>1, <4>2, <4>3, <4>4, <4>5
    <3>2. Fits(h, k, r)
      BY <2>2, <3>1 DEF Fits
    <3>3. Idles(h, k, r) => Idles(rtc[c], k, r)
      BY <2>5, <3>1 DEF Idles
    <3>4. QED
      BY <2>1, <2>3, <3>2, <3>3
  <2>6. QED
    BY <2>4, <2>5
<1>2. ASSUME NegotiationNeeded(c)
      PROVE  /\ ~rtc[c].crossed /\ Fits(rtc'[c], k, r)
             /\ Idles(rtc'[c], k, r) => Idles(rtc[c], k, r)
  <2>1. /\ RestSame(c) /\ rtc[c].pc # None
        /\ rtc'[c].pc # None /\ SameEnds(rtc'[c].pc, rtc[c].pc)
        /\ rtc[c].pc.isInitiator => rtc'[c].pc.offers # <<>>
        /\ ~rtc[c].pc.isInitiator => rtc'[c].pc.offers = rtc[c].pc.offers
    BY <1>2, NegotiationNeededEffect
  <2>2. ~rtc[c].crossed /\ Fits(rtc[c], k, r)
    BY <2>1 DEF RestSame
  <2>3. rtc[c].pc.isInitiator = r
    BY <2>1, <2>2 DEF Fits
  <2>4. Fits(rtc'[c], k, r)
    BY <2>1, <2>2, <2>3 DEF Fits, RestSame, SameEnds
  <2>5. Idles(rtc'[c], k, r) => Idles(rtc[c], k, r)
    BY <2>1, <2>3 DEF Idles
  <2>6. QED
    BY <2>2, <2>4, <2>5
<1>3. ASSUME SendOffer(c)
      PROVE  /\ ~rtc[c].crossed /\ Fits(rtc'[c], k, r)
             /\ Idles(rtc'[c], k, r) => Idles(rtc[c], k, r)
  <2>1. /\ RestSame(c) /\ rtc[c].pc # None /\ rtc[c].pc.offers # <<>>
        /\ rtc'[c].pc # None /\ rtc'[c].pc.sig = "have-local-offer"
        /\ rtc'[c].pc.callId = rtc[c].pc.callId /\ rtc'[c].pc.isInitiator = rtc[c].pc.isInitiator
        /\ rtc'[c].pc.peer = rtc[c].pc.peer
    BY <1>3, SendOfferEffect
  <2>2. ~rtc[c].crossed /\ Fits(rtc[c], k, r)
    BY <2>1 DEF RestSame
  <2>3. r
    BY <2>1, <2>2 DEF Fits
  <2>4. Fits(rtc'[c], k, r)
    BY <2>1, <2>2, <2>3 DEF Fits, RestSame
  <2>5. ~Idles(rtc'[c], k, r)
    BY <2>1 DEF Idles
  <2>6. QED
    BY <2>2, <2>4, <2>5
<1>4. ASSUME SendAnswer(c)
      PROVE  /\ ~rtc[c].crossed /\ Fits(rtc'[c], k, r)
             /\ Idles(rtc'[c], k, r) => Idles(rtc[c], k, r)
  <2>1. /\ RestSame(c) /\ rtc[c].pc # None /\ rtc[c].pc.sig = "have-remote-offer"
        /\ rtc'[c].pc # None /\ rtc'[c].pc.sig = "stable"
        /\ rtc'[c].pc.callId = rtc[c].pc.callId /\ rtc'[c].pc.isInitiator = rtc[c].pc.isInitiator
        /\ rtc'[c].pc.peer = rtc[c].pc.peer /\ rtc'[c].pc.offers = rtc[c].pc.offers
    BY <1>4, SendAnswerEffect
  <2>2. ~rtc[c].crossed /\ Fits(rtc[c], k, r)
    BY <2>1 DEF RestSame
  <2>3. ~r
    BY <2>1, <2>2 DEF Fits
  <2>4. Fits(rtc'[c], k, r)
    BY <2>1, <2>2, <2>3 DEF Fits, RestSame
  <2>5. ~Idles(rtc'[c], k, r)
    BY <2>1, <2>3 DEF Idles
  <2>6. QED
    BY <2>2, <2>4, <2>5
<1>5. ASSUME OnOffer(c)
      PROVE  /\ ~rtc[c].crossed /\ Fits(rtc'[c], k, r)
             /\ Idles(rtc'[c], k, r) => Idles(rtc[c], k, r)
  <2>1. /\ rtc[c].pc # None /\ ~rtc[c].isInitiator /\ rtc'[c].listening = rtc[c].listening
        /\ rtc'[c].isInitiator = rtc[c].isInitiator
        /\ ~rtc[c].crossed /\ Head(inbox[c]).callId = rtc[c].pc.callId
        /\ rtc'[c].pc # None /\ rtc'[c].pc.sig = "have-remote-offer"
        /\ rtc'[c].pc.callId = rtc[c].pc.callId /\ rtc'[c].pc.isInitiator = rtc[c].pc.isInitiator
        /\ rtc'[c].pc.peer = Head(inbox[c]).callId /\ rtc'[c].pc.via = rtc[c].listening
        /\ rtc'[c].pc.offers = rtc[c].pc.offers
    BY <1>5, OnOfferEffect
  <2>2. Fits(rtc[c], k, r)
    BY <2>1
  <2>3. ~r
    BY <2>1, <2>2 DEF Fits
  <2>4. Fits(rtc'[c], k, r)
    BY <2>1, <2>2, <2>3 DEF Fits
  <2>5. ~Idles(rtc'[c], k, r)
    BY <2>1, <2>3 DEF Idles
  <2>6. QED
    BY <2>1, <2>4, <2>5
<1>6. ASSUME OnAnswer(c)
      PROVE  /\ ~rtc[c].crossed /\ Fits(rtc'[c], k, r)
             /\ Idles(rtc'[c], k, r) => Idles(rtc[c], k, r)
  <2>1. /\ rtc[c].pc # None /\ rtc[c].isInitiator /\ rtc'[c].listening = rtc[c].listening
        /\ rtc'[c].isInitiator = rtc[c].isInitiator
        /\ ~rtc[c].crossed /\ Head(inbox[c]).callId = rtc[c].pc.callId
        /\ rtc'[c].pc # None /\ rtc'[c].pc.sig = "stable"
        /\ rtc'[c].pc.callId = rtc[c].pc.callId /\ rtc'[c].pc.isInitiator = rtc[c].pc.isInitiator
        /\ rtc'[c].pc.peer = Head(inbox[c]).callId
    BY <1>6, OnAnswerEffect
  <2>2. Fits(rtc[c], k, r)
    BY <2>1
  <2>3. r /\ rtc[c].pc.callId = k
    BY <2>1, <2>2 DEF Fits
  <2>4. Fits(rtc'[c], k, r)
    BY <2>1, <2>2, <2>3 DEF Fits
  <2>5. ~Idles(rtc'[c], k, r)
    BY <1>0, <2>1, <2>3 DEF Idles
  <2>6. QED
    BY <2>1, <2>4, <2>5
<1>7. ASSUME NEW t \in Tasks, IceFails(t, c) PROVE ~rtc[c].crossed /\ Fits(rtc'[c], k, r)
  <2>1. RestSame(c) /\ rtc'[c].pc = None
    BY <1>7, CleanupEffect DEF IceFails
  <2>2. QED
    BY <2>1 DEF Fits, RestSame
<1>8. ~OnCallEnded(c) /\ ~Unmount(c)
  BY <1>0, BackToQueueEffect, UnmountEffect DEF OnCallEnded
<1>9. CASE rtc'[c] = rtc[c]
  BY <1>9
<1>10. QED
  BY <1>1, <1>2, <1>3, <1>4, <1>5, <1>6, <1>7, <1>8, <1>9, HookSteps DEF HookTouched

\* The peer connection of the page is lost: the end of its call is on its way.
LEMMA LostIsDoomed ==
    ASSUME Typed, NEW t \in Tasks, NEW d \in Clients, IceFails(t, d), NEW c, NEW k,
           rtc[d].pc.callId = k
    PROVE  Doomed(c, k)'
<1>1. PICK h : h = [kind |-> "end", sock |-> Sock(d), peer |-> None, call |-> rtc[d].pc.callId]
  OBVIOUS
<1>2. task'[t] = h /\ h.kind = "end" /\ h.call = k
  BY <1>1 DEF IceFails, EndCall, Begin, Typed, JobsOK
<1>3. QED
  BY <1>2 DEF Doomed

LEMMA HookedKept ==
    ASSUME Typed, Ordered, Accompanied, Newer, Clean, Hooked, [Next]_vars
    PROVE  Hooked'
<1>1. ASSUME NEW c \in Clients \ stranded', NEW k \in Calls, In(c, k)', OnMatchFound(c)
      PROVE  /\ Fits(rtc'[c], k, page'[c].isInitiator)
             /\ ~Idles(rtc'[c], k, page'[c].isInitiator)
  <2>1. /\ rtc'[c].pc = rtc[c].pc /\ rtc'[c].deps = rtc[c].deps
        /\ rtc'[c].crossed <=> rtc[c].pc # None
        /\ page'[c].callId = Head(inbox[c]).callId
    BY <1>1, OnMatchFoundEffect
  <2>2. rtc'[c].pc = None
    BY <1>1, <2>1 DEF In
  <2>3. Pending(c, "found", k)
    BY <1>1, <2>1, ConsumePending DEF In, OnMatchFound, Typed
  <2>4. rtc'[c].deps[2] # k
    BY <2>1, <2>3, StrandedGrows, NotInvitedAgain
  <2>5. QED
    BY <2>2, <2>4 DEF Fits, Idles
<1>2. ASSUME NEW c \in Clients \ stranded', NEW k \in Calls, In(c, k)', ~OnMatchFound(c)
      PROVE  /\ Fits(rtc'[c], k, page'[c].isInitiator)
             /\ Idles(rtc'[c], k, page'[c].isInitiator) => Doomed(c, k)'
  <2>0. c \in Clients \ stranded /\ k # None /\ page'[c].open /\ page'[c].callId = k /\ ~rtc'[c].crossed
    BY <1>2, StrandedGrows, CallNumbers DEF In
  <2>1. page[c].open /\ page[c].callId = k /\ page'[c].isInitiator = page[c].isInitiator
    BY <1>2, <2>0, PageChanges, RoleChanges
  <2>2. PICK r \in BOOLEAN : r = page[c].isInitiator
    BY DEF Typed, PagesOK, PageState
  <2>3. ~Reconnect(c)
    BY DEF Reconnect
  <2>4. ~rtc[c].crossed => Fits(rtc[c], k, r) /\ (Idles(rtc[c], k, r) => Doomed(c, k))
    BY <2>0, <2>1, <2>2 DEF Hooked, In
  <2>5. rtc[c].pc = None => ~rtc[c].offerSent
    BY DEF Clean
  <2>6. /\ ~rtc[c].crossed /\ Fits(rtc'[c], k, r)
        /\ \/ Idles(rtc'[c], k, r) => Idles(rtc[c], k, r)
           \/ \E t \in Tasks : IceFails(t, c)
    BY <1>2, <2>0, <2>1, <2>2, <2>3, <2>4, <2>5, FitsStays
  <2>7. ASSUME NEW t \in Tasks, IceFails(t, c) PROVE Doomed(c, k)'
    <3>1. rtc[c].pc.callId = k
      BY <2>4, <2>6, <2>7 DEF Fits, IceFails
    <3>2. QED
      BY <2>7, <3>1, LostIsDoomed
  <2>8. Has(c, k) /\ Has(c, k)'
    BY <2>0, <2>1 DEF Has
  <2>9. Doomed(c, k) => Doomed(c, k)'
    BY <2>8, DoomedStays
  <2>10. QED
    BY <2>1, <2>2, <2>4, <2>6, <2>7, <2>9
<1>3. QED
  BY <1>1, <1>2 DEF Hooked

\* A page that is in the call now was in it before, in the same role.
LEMMA InBefore ==
    ASSUME Typed, Clean, Hooked, [Next]_vars, NEW c \in Clients \ stranded', NEW k \in Calls,
           In(c, k)', ~OnMatchFound(c)
    PROVE  In(c, k) /\ page'[c].isInitiator = page[c].isInitiator
<1>0. c \in Clients \ stranded /\ k # None /\ page'[c].open /\ page'[c].callId = k /\ ~rtc'[c].crossed
  BY StrandedGrows, CallNumbers DEF In
<1>1. page[c].open /\ page[c].callId = k /\ page'[c].isInitiator = page[c].isInitiator
  BY <1>0, PageChanges, RoleChanges
<1>2. PICK r \in BOOLEAN : r = page[c].isInitiator
  BY DEF Typed, PagesOK, PageState
<1>3. ~Reconnect(c)
  BY DEF Reconnect
<1>4. ~rtc[c].crossed => Fits(rtc[c], k, r)
  BY <1>0, <1>1, <1>2 DEF Hooked, In
<1>5. rtc[c].pc = None => ~rtc[c].offerSent
  BY DEF Clean
<1>6. ~rtc[c].crossed
  BY <1>0, <1>1, <1>2, <1>3, <1>4, <1>5, FitsStays
<1>7. QED
  BY <1>1, <1>6 DEF In

----------------------------------------------------------------------------
(* Offers and answers.                                                     *)

\* The page is in the call or about to be, and has not met another one in it.
Fine(c, k) == Has(c, k) /\ (page[c].callId = k => ~rtc[c].crossed)

\* The initiator waits for an answer.
Offering(c, k) ==
    In(c, k) /\ page[c].isInitiator /\ rtc[c].pc # None /\ rtc[c].pc.sig = "have-local-offer"

\* The other page makes its answer.
Answering(d, k) == page[d].callId = k /\ rtc[d].pc # None /\ rtc[d].pc.sig = "have-remote-offer"

\* The page has the other's description.
Settled(d, k) == page[d].callId = k /\ rtc[d].pc # None /\ rtc[d].pc.peer = k

\* The initiator has an answer, or it is on its way.
Hears(c, k) ==
    \/ Pending(c, "answer", k)
    \/ page[c].callId = k /\ page[c].isInitiator /\ rtc[c].pc # None /\ rtc[c].pc.peer # None

Offered ==
    \A c, d \in Clients \ stranded : \A k \in Calls :
        c # d /\ Offering(c, k) /\ Fine(d, k) =>
            Doomed(c, k) \/ Pending(d, "offer", k) \/ Pending(c, "answer", k) \/ Answering(d, k)

Answered ==
    \A c, d \in Clients \ stranded : \A k \in Calls :
        c # d /\ Fine(c, k) /\ Fine(d, k) /\ Hears(c, k) => Doomed(c, k) \/ Settled(d, k)

\* A page that was in the call leaves it for good.
LEMMA StillIn ==
    ASSUME Typed, Numbered, Newer, [Next]_vars, NEW c \in Clients \ stranded', NEW k \in Calls,
           page[c].callId = k, Has(c, k)'
    PROVE  page'[c].callId = k /\ ~OnMatchFound(c)
<1>0. c \in Clients \ stranded /\ NetOK
  BY StrandedGrows DEF Typed
<1>1. ~Pending(c, "found", k)
  BY <1>0, NotInvitedAgain
<1>2. ~Pending(c, "found", k)'
  <2>1. SUFFICES ASSUME Pending(c, "found", k)' PROVE FALSE
    OBVIOUS
  <2>2. PICK t \in Tasks, a, b \in Sockets : Announces(t, a, b, k)
    BY <1>1, <2>1, NewMail
  <2>3. k = made + 1 /\ made \in Nat
    BY <2>2 DEF Announces, Typed, JobsOK
  <2>4. k <= made
    BY CallNumbers DEF Numbered, PagesNumbered, UpTo
  <2>5. QED
    BY <2>3, <2>4
<1>3. page'[c].callId = k
  BY <1>2 DEF Has
<1>4. ASSUME OnMatchFound(c) PROVE FALSE
  <2>1. Head(inbox[c]).callId = k
    BY <1>3, <1>4, OnMatchFoundEffect
  <2>2. Pending(c, "found", k)
    BY <1>0, <1>4, <2>1, ConsumePending DEF OnMatchFound
  <2>3. QED
    BY <1>1, <2>2
<1>5. QED
  BY <1>3, <1>4

\* A page that has not met another call now had not before.
LEMMA FineBefore ==
    ASSUME Typed, Numbered, Newer, Clean, Hooked, [Next]_vars,
           NEW c \in Clients \ stranded', NEW k \in Calls, Has(c, k), Fine(c, k)'
    PROVE  Fine(c, k)
<1>1. CASE page[c].callId = k
  <2>1. page'[c].callId = k /\ ~OnMatchFound(c)
    BY <1>1, StillIn DEF Fine
  <2>2. In(c, k)'
    BY <2>1 DEF Fine, In, Has
  <2>3. In(c, k)
    BY <2>1, <2>2, InBefore
  <2>4. QED
    BY <2>3 DEF Fine, In
<1>2. CASE page[c].callId # k
  BY <1>2 DEF Fine
<1>3. QED
  BY <1>1, <1>2

\* A page whose match:found is on its way has heard nothing of the call.
LEMMA NothingHeardBefore ==
    ASSUME Typed, Newer, NEW c \in Clients \ stranded, NEW k \in Calls, NEW type,
           Arrives(c, type), Head(inbox[c]).callId = k, type # "found", Has(c, k)
    PROVE  page[c].callId = k
<1>1. SUFFICES ASSUME Pending(c, "found", k) PROVE FALSE
  BY DEF Has
<1>2. PICK q \in Seq(Message) : q = inbox[c]
  BY DEF Typed, NetOK
<1>3. q # <<>> /\ Head(q).type = type /\ Head(q).callId = k /\ InStrictOrder(q)
  BY <1>2 DEF Arrives, Newer
<1>4. Holds(Tail(q), "found", k)
  BY <1>1, <1>2, <1>3, TailHolds DEF Pending
<1>5. k < k /\ k \in Nat
  BY <1>3, <1>4, TailStrict, CallNumbers
<1>6. QED
  BY <1>5

\* The two pages of a call as the step begins.
LEMMA BothBefore ==
    ASSUME LonelyInv, Newer, Clean, Hooked, [Next]_vars, NEW c \in Clients \ stranded',
           NEW d \in Clients \ stranded', c # d, NEW k \in Calls,
           Has(c, k), Has(c, k)', Fine(d, k)', ~Doomed(c, k)'
    PROVE  /\ c \in Clients \ stranded /\ d \in Clients \ stranded
           /\ Fine(d, k) /\ ~Doomed(c, k)
           /\ page[c].open /\ page[d].open /\ Sock(c) # Sock(d)
           /\ Sock(c) \in room[k] /\ Sock(d) \in room[k]
<1>0. /\ Typed /\ Numbered /\ Ordered /\ Told /\ Accompanied
      /\ c \in Clients \ stranded /\ d \in Clients \ stranded
  BY StrandedGrows DEF LonelyInv, ServedInv
<1>1. ~Doomed(c, k)
  BY <1>0, DoomedStays
<1>2. Has(d, k)
  <2>1. SUFFICES ASSUME ~Has(d, k) PROVE FALSE
    OBVIOUS
  <2>2. PICK t \in Tasks, a, b \in Sockets : Announces(t, a, b, k)
    BY <1>0, <2>1, HasBefore DEF Fine
  <2>3. k = made + 1 /\ made \in Nat
    BY <1>0, <2>2 DEF Announces, Typed, JobsOK
  <2>4. k <= made
    BY <1>0, HasNumbered
  <2>5. QED
    BY <2>3, <2>4
<1>3. Fine(d, k)
  BY <1>0, <1>2, FineBefore
<1>4. ~Pending(c, "ended", k) /\ ~Pending(d, "ended", k)
  BY <1>0, <1>1 DEF Doomed, Told
<1>5. Sock(c) \in room[k] /\ Sock(d) \in room[k]
  BY <1>0, <1>2, <1>4 DEF Accompanied
<1>6. Sock(c) # Sock(d)
  BY DEF Sock
<1>7. QED
  BY <1>0, <1>1, <1>2, <1>3, <1>5, <1>6 DEF Has

\* What a page in the call relays reaches the other one.
LEMMA RelayReaches ==
    ASSUME Typed, NEW c \in Clients, NEW d \in Clients, NEW type \in {"offer", "answer"},
           NEW k \in Calls, inbox' = Relay(c, type, k),
           page[d].open, Sock(c) # Sock(d), Sock(d) \in room[k]
    PROVE  Pending(d, type, k)'
<1>1. NetOK
  BY DEF Typed
<1>2. QED
  BY <1>1, RelayPending

LEMMA OfferedKept ==
    ASSUME LonelyInv, Newer, Roles, Clean, Hooked, Offered, [Next]_vars
    PROVE  Offered'
<1> SUFFICES ASSUME NEW c \in Clients \ stranded', NEW d \in Clients \ stranded', c # d,
                    NEW k \in Calls, Offering(c, k)', Fine(d, k)', ~Doomed(c, k)'
             PROVE  Pending(d, "offer", k)' \/ Pending(c, "answer", k)' \/ Answering(d, k)'
  BY DEF Offered
<1>0. Typed /\ NetOK /\ Numbered /\ k # None
  BY CallNumbers DEF LonelyInv, ServedInv, Typed
<1>1. /\ page'[c].open /\ page'[c].callId = k /\ page'[c].isInitiator
      /\ rtc'[c].pc # None /\ rtc'[c].pc.sig = "have-local-offer" /\ In(c, k)' /\ Has(c, k)'
  BY DEF Offering, In, Has
<1>2. ~OnMatchFound(c)
  BY <1>0, <1>1, OnMatchFoundEffect DEF In
<1>3. In(c, k) /\ page[c].isInitiator /\ page[c].callId = k /\ Has(c, k)
  <2>1. In(c, k) /\ page'[c].isInitiator = page[c].isInitiator
    BY <1>0, <1>1, <1>2, InBefore
  <2>2. QED
    BY <1>1, <2>1 DEF In, Has
<1>4. /\ c \in Clients \ stranded /\ d \in Clients \ stranded
      /\ Fine(d, k) /\ ~Doomed(c, k)
      /\ page[c].open /\ page[d].open /\ Sock(c) # Sock(d)
      /\ Sock(c) \in room[k] /\ Sock(d) \in room[k]
  BY <1>1, <1>3, BothBefore
<1>5. Fits(rtc[c], k, TRUE)
  <2>1. Fits(rtc[c], k, page[c].isInitiator) /\ page[c].isInitiator \in BOOLEAN
    BY <1>0, <1>3, <1>4 DEF Hooked, Typed, PagesOK, PageState
  <2>2. page[c].isInitiator = TRUE
    BY <1>3, <2>1
  <2>3. QED
    BY <2>1, <2>2
<1>6. ASSUME page[d].callId = k PROVE In(d, k) /\ Fits(rtc[d], k, FALSE)
  <2>1. In(d, k)
    BY <1>4, <1>6 DEF Fine, In
  <2>2. page[d].isInitiator \in BOOLEAN /\ page[c].isInitiator \in BOOLEAN
    BY <1>0 DEF Typed, PagesOK, PageState
  <2>3. HasAs(c, k, page[c].isInitiator) /\ HasAs(d, k, page[d].isInitiator)
    BY <1>3, <1>4, <1>6 DEF HasAs
  <2>4. page[c].isInitiator # page[d].isInitiator
    BY <1>4, <2>2, <2>3 DEF Roles
  <2>5. page[d].isInitiator = FALSE
    BY <1>3, <2>2, <2>4
  <2>6. Fits(rtc[d], k, page[d].isInitiator)
    BY <1>4, <2>1 DEF Hooked
  <2>7. QED
    BY <2>1, <2>5, <2>6
<1>7. ~Reconnect(c) /\ ~Unmount(c) /\ ~Reconnect(d) /\ ~Unmount(d)
  BY <1>0, <1>1, UnmountEffect DEF Reconnect, Fine, Has
<1>8. ASSUME Pending(d, "offer", k), ~Pending(d, "offer", k)' PROVE Answering(d, k)'
  <2>1. Consumes(d) /\ Arrives(d, "offer") /\ Consume(d) /\ Head(inbox[d]).callId = k
    BY <1>0, <1>7, <1>8, LostMail
  <2>2. page[d].callId = k
    BY <1>0, <1>4, <2>1, NothingHeardBefore DEF Fine
  <2>3. Fits(rtc[d], k, FALSE)
    BY <1>6, <2>2
  <2>4. OnOffer(d) \/ (SdpIgnored(d) /\ ~AcceptsOffer(rtc[d]))
    BY <2>1 DEF Consumes, OnMatchFound, OnCallEnded, EndedUnheard, OnAnswer, SdpIgnored, Arrives
  <2>5. CASE OnOffer(d)
    <3>1. rtc'[d].pc # None /\ rtc'[d].pc.sig = "have-remote-offer"
      BY <1>0, <2>5, OnOfferEffect
    <3>2. page' = page
      BY <2>5 DEF OnOffer
    <3>3. QED
      BY <2>2, <3>1, <3>2 DEF Answering
  <2>6. CASE SdpIgnored(d) /\ ~AcceptsOffer(rtc[d])
    <3>1. page' = page /\ rtc' = rtc
      BY <2>6 DEF SdpIgnored, client
    <3>2. ~(rtc[d].listening = None \/ rtc[d].pc = None)
      BY <2>6 DEF SdpIgnored, Strands
    <3>3. rtc[d].pc.sig # "stable"
      BY <2>3, <2>6, <3>2 DEF AcceptsOffer, Fits
    <3>4. rtc[d].pc \in Peer
      BY <1>0, <3>2 DEF Typed, PagesOK, Hook
    <3>5. rtc[d].pc.sig = "have-remote-offer"
      BY <2>3, <3>2, <3>3, <3>4 DEF Fits, Peer
    <3>6. QED
      BY <2>2, <3>1, <3>2, <3>5 DEF Answering
  <2>7. QED
    BY <2>4, <2>5, <2>6
<1>9. ASSUME Pending(c, "answer", k) PROVE Pending(c, "answer", k)'
  <2> SUFFICES ASSUME ~Pending(c, "answer", k)' PROVE FALSE
    OBVIOUS
  <2>1. Consumes(c) /\ Arrives(c, "answer") /\ Consume(c)
    BY <1>0, <1>7, <1>9, LostMail
  <2>2. OnAnswer(c) \/ (SdpIgnored(c) /\ ~AcceptsAnswer(rtc[c]))
    BY <2>1 DEF Consumes, OnMatchFound, OnCallEnded, EndedUnheard, OnOffer, SdpIgnored, Arrives
  <2>3. ~OnAnswer(c)
    BY <1>0, <1>1, OnAnswerEffect
  <2>4. rtc' = rtc /\ ~AcceptsAnswer(rtc[c])
    BY <2>2, <2>3 DEF SdpIgnored, client
  <2>5. QED
    BY <1>0, <1>1, <1>5, <2>4 DEF AcceptsAnswer, Fits
<1>10. ASSUME Answering(d, k), ~Answering(d, k)' PROVE Pending(c, "answer", k)'
  <2>1. page[d].callId = k /\ rtc[d].pc # None /\ rtc[d].pc.sig = "have-remote-offer"
    BY <1>10 DEF Answering
  <2>2. page'[d].callId = k /\ ~OnMatchFound(d)
    BY <1>0, <2>1, StillIn DEF LonelyInv, Fine
  <2>3. rtc[d].pc.callId = k /\ rtc[d].pc.via = k
    BY <1>6, <2>1 DEF Fits
  <2>4. ~(rtc'[d].pc # None /\ rtc'[d].pc.sig = "have-remote-offer")
    BY <1>10, <2>2 DEF Answering
  <2>5. ~Render(d)
    <3>1. SUFFICES ASSUME Render(d) PROVE FALSE
      OBVIOUS
    <3>2. PICK h : h = HookEffects(d) /\ h = rtc'[d]
      BY <1>0, <3>1, RenderEffect
    <3>3. h.pc # None /\ SameEnds(h.pc, rtc[d].pc)
      BY <1>0, <2>1, <3>2, HookKept
    <3>4. QED
      BY <2>1, <2>4, <3>2, <3>3 DEF SameEnds
  <2>6. ~NegotiationNeeded(d) /\ ~SendOffer(d) /\ ~OnOffer(d) /\ ~OnAnswer(d)
    BY <1>0, <2>1, NegotiationNeededEffect, SendOfferEffect, OnOfferEffect, OnAnswerEffect
  <2>7. ~OnCallEnded(d)
    BY <1>0, <2>2, BackToQueueEffect DEF OnCallEnded
  <2>8. ~\E t \in Tasks : IceFails(t, d)
    BY <1>0, <2>3, LostIsDoomed
  <2>9. rtc'[d] # rtc[d]
    BY <2>1, <2>4
  <2>10. SendAnswer(d)
    BY <1>0, <1>7, <2>2, <2>5, <2>6, <2>7, <2>8, <2>9, HookSteps DEF HookTouched
  <2>11. inbox' = Relay(d, "answer", k)
    BY <1>0, <2>3, <2>10, SendAnswerEffect
  <2>12. QED
    BY <1>0, <1>4, <2>11, RelayReaches
<1>11. CASE Offering(c, k)
  <2>1. Pending(d, "offer", k) \/ Pending(c, "answer", k) \/ Answering(d, k)
    BY <1>4, <1>11 DEF Offered
  <2>2. QED
    BY <1>8, <1>9, <1>10, <2>1
<1>12. CASE ~Offering(c, k)
  <2>1. ~(rtc[c].pc # None /\ rtc[c].pc.sig = "have-local-offer")
    BY <1>3, <1>12 DEF Offering
  <2>2. ~Render(c)
    <3>1. SUFFICES ASSUME Render(c) PROVE FALSE
      OBVIOUS
    <3>2. PICK h : h = HookEffects(c) /\ h = rtc'[c]
      BY <1>0, <3>1, RenderEffect
    <3>3. CASE rtc[c].pc # None
      <4>1. SameEnds(h.pc, rtc[c].pc)
        BY <1>0, <3>2, <3>3, HookKept
      <4>2. QED
        BY <1>1, <2>1, <3>2, <3>3, <4>1 DEF SameEnds
    <3>4. CASE rtc[c].pc = None
      <4>1. page[c].callId # None
        BY <1>0, <1>3
      <4>2. h.pc.sig = "stable"
        BY <1>0, <3>2, <3>4, <4>1, HookMade
      <4>3. QED
        BY <1>1, <3>2, <4>2
    <3>5. QED
      BY <3>3, <3>4
  <2>3. ~NegotiationNeeded(c)
    BY <1>0, <1>1, <2>1, NegotiationNeededEffect DEF SameEnds
  <2>4. ~SendAnswer(c) /\ ~OnOffer(c) /\ ~OnAnswer(c)
    BY <1>0, <1>1, SendAnswerEffect, OnOfferEffect, OnAnswerEffect
  <2>5. ~OnCallEnded(c) /\ ~\E t \in Tasks : IceFails(t, c)
    BY <1>0, <1>1, CleanupEffect DEF OnCallEnded, IceFails
  <2>6. rtc'[c] # rtc[c]
    BY <1>1, <2>1
  <2>7. SendOffer(c)
    BY <1>0, <1>2, <1>7, <2>2, <2>3, <2>4, <2>5, <2>6, HookSteps DEF HookTouched
  <2>8. rtc[c].pc # None /\ inbox' = Relay(c, "offer", rtc[c].pc.callId)
    BY <1>0, <2>7, SendOfferEffect
  <2>9. rtc[c].pc.callId = k
    BY <1>5, <2>8 DEF Fits
  <2>10. QED
    BY <1>0, <1>4, <2>8, <2>9, RelayReaches
<1>13. QED
  BY <1>11, <1>12

\* An answer comes from a page that makes one.
LEMMA NewAnswer ==
    ASSUME Typed, [Next]_vars, NEW c \in Clients, NEW k \in Calls,
           Pending(c, "answer", k)', ~Pending(c, "answer", k)
    PROVE  \E x \in Clients : SendAnswer(x) /\ rtc[x].pc.via = k /\ Sock(c) # Sock(x)
<1>0. NetOK
  BY DEF Typed
<1>1. inbox' # inbox
  BY DEF Pending
<1>2. ASSUME NEW d \in Clients, SendOffer(d) PROVE FALSE
  <2>1. Pending(c, "answer", k)' => Pending(c, "answer", k)
    BY <1>0, <1>2, SendOfferEffect, RelayPending
  <2>2. QED
    BY <2>1
<1>3. ASSUME NEW d \in Clients, NEW type, Arrives(d, type), Consume(d) PROVE FALSE
  <2>1. Pending(c, "answer", k)' => Pending(c, "answer", k)
    BY <1>0, <1>3, ConsumePending
  <2>2. QED
    BY <2>1
<1>4. ASSUME NEW d \in Clients, inbox' = [inbox EXCEPT ![d] = <<>>] PROVE FALSE
  <2>1. d # c => inbox'[c] = inbox[c]
    BY <1>0, <1>4, EmptyPending
  <2>2. d = c => ~Pending(c, "answer", k)'
    BY <1>0, <1>4, EmptyPending
  <2>3. QED
    BY <2>1, <2>2 DEF Pending
<1>5. ASSUME NEW j \in Calls, inbox' = Emit(room[j], Ended(j)) PROVE FALSE
  <2>1. Ended(j) \in Message /\ Ended(j).type # "answer"
    BY EndedTyped DEF Ended
  <2>2. Pending(c, "answer", k)' => Pending(c, "answer", k)
    BY <1>0, <1>5, <2>1, EmitPending
  <2>3. QED
    BY <2>2
<1>6. ASSUME NEW t \in Tasks, HangUp(t) PROVE FALSE
  <2>1. task[t].sock \in Sockets
    BY <1>6 DEF HangUp, Typed, JobsOK, Briefed
  <2>2. PICK j \in Calls \cup {None} : j = meta[task[t].sock]
    BY <2>1 DEF Typed, GatewayOK
  <2>3. inbox' = inbox \/ (j \in Calls /\ inbox' = Emit(room[j], Ended(j)))
    BY <1>6, <2>2 DEF HangUp
  <2>4. QED
    BY <1>1, <1>5, <2>3
<1>7. ASSUME NEW t \in Tasks, FinishEnd(t) PROVE FALSE
  <2>1. PICK j \in Calls : j = task[t].call
    BY <1>7 DEF FinishEnd, Typed, JobsOK, Briefed
  <2>2. inbox' = Emit(room[j], Ended(j))
    BY <1>7, <2>1 DEF FinishEnd
  <2>3. QED
    BY <1>5, <2>2
<1>8. ASSUME NEW t \in Tasks, Announce(t) PROVE FALSE
  <2>1. PICK a, b \in Sockets, j \in Calls : Announces(t, a, b, j)
    BY <1>8, AnnounceEffect
  <2>2. Pending(c, "answer", k)' => Pending(c, "answer", k)
    BY <2>1 DEF Announces
  <2>3. QED
    BY <2>2
<1>9. PICK x \in Clients : SendAnswer(x)
  BY <1>1, <1>2, <1>3, <1>4, <1>6, <1>7, <1>8, MailSteps
<1>10. rtc[x].pc.via \in Calls /\ inbox' = Relay(x, "answer", rtc[x].pc.via)
  BY <1>9, SendAnswerEffect
<1>11. rtc[x].pc.via = k /\ Sock(c) \in room[k] \ {Sock(x)}
  BY <1>0, <1>10, RelayPending
<1>12. QED
  BY <1>9, <1>11

\* A page that has the other's description keeps it.
LEMMA SettledStays ==
    ASSUME Typed, Numbered, Newer, Clean, Hooked, [Next]_vars, NEW d \in Clients \ stranded',
           NEW k \in Calls, Settled(d, k), Fine(d, k)', ~\E t \in Tasks : IceFails(t, d)
    PROVE  Settled(d, k)'
<1>0. d \in Clients \ stranded /\ k # None
  BY StrandedGrows, CallNumbers
<1>1. page[d].callId = k /\ rtc[d].pc # None /\ rtc[d].pc.peer = k
  BY DEF Settled
<1>2. page'[d].callId = k /\ ~OnMatchFound(d)
  BY <1>1, StillIn DEF Fine
<1>3. page'[d].open /\ In(d, k)' /\ ~rtc'[d].crossed
  BY <1>2 DEF Fine, In, Has
<1>4. In(d, k) /\ rtc[d].pc.callId = k
  <2>1. In(d, k)
    BY <1>2, <1>3, InBefore
  <2>2. Fits(rtc[d], k, page[d].isInitiator)
    BY <1>0, <2>1 DEF Hooked
  <2>3. QED
    BY <1>1, <2>1, <2>2 DEF Fits
<1>5. SUFFICES rtc'[d].pc # None /\ rtc'[d].pc.peer = k
  BY <1>2 DEF Settled
<1>6. ASSUME Render(d) PROVE rtc'[d].pc # None /\ rtc'[d].pc.peer = k
  <2>1. PICK h : h = HookEffects(d) /\ h = rtc'[d]
    BY <1>6, RenderEffect
  <2>2. h.pc # None /\ SameEnds(h.pc, rtc[d].pc)
    BY <1>1, <2>1, HookKept
  <2>3. QED
    BY <1>1, <2>1, <2>2 DEF SameEnds
<1>7. ASSUME NegotiationNeeded(d) PROVE rtc'[d].pc # None /\ rtc'[d].pc.peer = k
  BY <1>1, <1>7, NegotiationNeededEffect DEF SameEnds
<1>8. ASSUME SendOffer(d) \/ SendAnswer(d) PROVE rtc'[d].pc # None /\ rtc'[d].pc.peer = k
  BY <1>1, <1>8, SendOfferEffect, SendAnswerEffect
<1>9. ASSUME OnOffer(d) PROVE rtc'[d].pc # None /\ rtc'[d].pc.peer = k
  BY <1>3, <1>4, <1>9, OnOfferEffect
<1>10. ASSUME OnAnswer(d) PROVE rtc'[d].pc # None /\ rtc'[d].pc.peer = k
  BY <1>3, <1>4, <1>10, OnAnswerEffect
<1>11. ~OnCallEnded(d) /\ ~Unmount(d) /\ ~Reconnect(d)
  BY <1>0, <1>2, <1>3, BackToQueueEffect, UnmountEffect DEF OnCallEnded, Reconnect
<1>12. QED
  BY <1>1, <1>2, <1>6, <1>7, <1>8, <1>9, <1>10, <1>11, HookSteps DEF HookTouched

\* The initiator takes the description of its own call only from an answer.
LEMMA PeerFromAnswer ==
    ASSUME Typed, Clean, Hooked, [Next]_vars, NEW c \in Clients \ stranded', NEW k \in Calls,
           In(c, k)', page'[c].isInitiator, rtc'[c].pc # None, rtc'[c].pc.peer # None
    PROVE  Hears(c, k)
<1>0. /\ c \in Clients \ stranded /\ k # None /\ NetOK
      /\ page'[c].callId = k /\ ~rtc'[c].crossed /\ page'[c].open
  BY StrandedGrows, CallNumbers DEF Typed, In
<1>1. ~OnMatchFound(c)
  BY <1>0, OnMatchFoundEffect
<1>2. In(c, k) /\ page[c].callId = k /\ page[c].isInitiator
  <2>1. In(c, k) /\ page'[c].isInitiator = page[c].isInitiator
    BY <1>1, InBefore
  <2>2. QED
    BY <2>1 DEF In
<1>3. Fits(rtc[c], k, TRUE)
  <2>1. Fits(rtc[c], k, page[c].isInitiator) /\ page[c].isInitiator \in BOOLEAN
    BY <1>0, <1>2 DEF Hooked, Typed, PagesOK, PageState
  <2>2. page[c].isInitiator = TRUE
    BY <1>2, <2>1
  <2>3. QED
    BY <2>1, <2>2
<1>4. SUFFICES ASSUME ~(rtc[c].pc # None /\ rtc[c].pc.peer # None) PROVE Pending(c, "answer", k)
  BY <1>2 DEF Hears
<1>5. ~Render(c)
  <2>1. SUFFICES ASSUME Render(c) PROVE FALSE
    OBVIOUS
  <2>2. PICK h : h = HookEffects(c) /\ h = rtc'[c]
    BY <2>1, RenderEffect
  <2>3. CASE rtc[c].pc # None
    <3>1. SameEnds(h.pc, rtc[c].pc)
      BY <2>2, <2>3, HookKept
    <3>2. QED
      BY <1>4, <2>2, <2>3, <3>1 DEF SameEnds
  <2>4. CASE rtc[c].pc = None
    <3>1. page[c].callId # None
      BY <1>0, <1>2
    <3>2. h.pc.peer = None
      BY <2>2, <2>4, <3>1, HookMade
    <3>3. QED
      BY <2>2, <3>2
  <2>5. QED
    BY <2>3, <2>4
<1>6. ~NegotiationNeeded(c)
  BY <1>4, NegotiationNeededEffect DEF SameEnds
<1>7. ~SendOffer(c) /\ ~SendAnswer(c)
  BY <1>4, SendOfferEffect, SendAnswerEffect
<1>8. ~OnOffer(c)
  BY <1>3, OnOfferEffect DEF Fits
<1>9. ~OnCallEnded(c) /\ ~\E t \in Tasks : IceFails(t, c)
  BY CleanupEffect DEF OnCallEnded, IceFails
<1>10. ~Unmount(c) /\ ~Reconnect(c)
  BY <1>0, UnmountEffect DEF Reconnect
<1>11. rtc'[c] # rtc[c]
  BY <1>4
<1>12. OnAnswer(c)
  BY <1>1, <1>5, <1>6, <1>7, <1>8, <1>9, <1>10, <1>11, HookSteps DEF HookTouched
<1>13. rtc[c].pc # None /\ Head(inbox[c]).callId = rtc[c].pc.callId
  BY <1>0, <1>12, OnAnswerEffect
<1>14. Head(inbox[c]).callId = k
  BY <1>3, <1>13 DEF Fits
<1>15. QED
  BY <1>0, <1>12, <1>14, ConsumePending DEF OnAnswer

LEMMA AnsweredKept ==
    ASSUME LonelyInv, Newer, Duo, Clean, Hooked, Answered, [Next]_vars
    PROVE  Answered'
<1> SUFFICES ASSUME NEW c \in Clients \ stranded', NEW d \in Clients \ stranded', c # d,
                    NEW k \in Calls, Fine(c, k)', Fine(d, k)', Hears(c, k)', ~Doomed(c, k)'
             PROVE  Settled(d, k)'
  BY DEF Answered
<1>0. Typed /\ Numbered /\ k # None /\ c \in Clients \ stranded /\ d \in Clients \ stranded
  BY CallNumbers, StrandedGrows DEF LonelyInv, ServedInv, Typed
<1>1. Has(c, k)
  <2>1. SUFFICES ASSUME ~Has(c, k) PROVE FALSE
    OBVIOUS
  <2>2. PICK t \in Tasks, a, b \in Sockets : Announces(t, a, b, k)
    BY <1>0, <2>1, HasBefore DEF Fine
  <2>3. k = made + 1 /\ made \in Nat
    BY <1>0, <2>2 DEF Announces, Typed, JobsOK
  <2>4. page' = page
    BY <1>0, <2>2, AnnouncingIsAnnounce DEF Announce, client
  <2>5. Pending(c, "answer", k)' => Pending(c, "answer", k)
    BY <2>2 DEF Announces
  <2>6. Pending(c, "answer", k) \/ page[c].callId = k
    BY <2>4, <2>5 DEF Hears
  <2>7. k <= made
    BY <1>0, <2>6 DEF Numbered, MailNumbered, PagesNumbered, UpTo
  <2>8. QED
    BY <2>3, <2>7
<1>2. Has(c, k)' /\ Fine(c, k)
  BY <1>0, <1>1, FineBefore DEF Fine
<1>3. /\ Fine(d, k) /\ ~Doomed(c, k) /\ Sock(c) # Sock(d)
  BY <1>1, <1>2, BothBefore
<1>4. CASE Hears(c, k)
  <2>1. Settled(d, k)
    BY <1>0, <1>2, <1>3, <1>4 DEF Answered
  <2>2. In(d, k)
    BY <1>3, <2>1 DEF In, Fine, Settled, Has
  <2>3. rtc[d].pc.callId = k
    BY <1>0, <2>1, <2>2 DEF Hooked, Fits, Settled
  <2>4. ~\E t \in Tasks : IceFails(t, d)
    BY <1>0, <2>3, LostIsDoomed
  <2>5. QED
    BY <1>0, <2>1, <2>4, SettledStays
<1>5. CASE ~Hears(c, k)
  <2>1. Pending(c, "answer", k)' /\ ~Pending(c, "answer", k)
    <3>1. ~Pending(c, "answer", k)
      BY <1>5 DEF Hears
    <3>2. SUFFICES ASSUME ~Pending(c, "answer", k)' PROVE FALSE
      BY <3>1
    <3>3. /\ page'[c].callId = k /\ page'[c].isInitiator
          /\ rtc'[c].pc # None /\ rtc'[c].pc.peer # None
      BY <3>2 DEF Hears
    <3>4. In(c, k)'
      BY <3>3 DEF In, Fine, Has
    <3>5. QED
      BY <1>0, <1>5, <3>3, <3>4, PeerFromAnswer
  <2>2. PICK x \in Clients : SendAnswer(x) /\ rtc[x].pc.via = k /\ Sock(c) # Sock(x)
    BY <1>0, <2>1, NewAnswer
  <2>3. /\ rtc[x].pc # None /\ rtc[x].pc.sig = "have-remote-offer"
        /\ rtc'[x].pc # None /\ rtc'[x].pc.peer = rtc[x].pc.peer
    BY <1>0, <2>2, SendAnswerEffect
  <2>4. x = d
    <3>1. Knows(c, k) /\ Knows(d, k) /\ Knows(x, k)
      BY <1>1, <1>3, <2>2, <2>3 DEF Knows, HookKnows, Fine
    <3>2. c = d \/ x \in {c, d}
      BY <3>1 DEF Duo
    <3>3. QED
      BY <2>2, <3>2
  <2>5. page[d].callId = k
    <3>1. ~Pending(d, "found", k)
      BY <1>0, <2>2, <2>3, <2>4, NotInvitedAgain
    <3>2. QED
      BY <1>3, <3>1 DEF Fine, Has
  <2>6. In(d, k)
    BY <1>3, <2>5 DEF In, Fine, Has
  <2>7. PICK r \in BOOLEAN : r = page[d].isInitiator
    BY <1>0 DEF Typed, PagesOK, PageState
  <2>8. Fits(rtc[d], k, r)
    BY <1>0, <2>6, <2>7 DEF Hooked
  <2>9. rtc[d].pc.peer = k
    BY <2>3, <2>4, <2>8 DEF Fits
  <2>10. page' = page
    BY <2>2 DEF SendAnswer
  <2>11. QED
    BY <2>3, <2>4, <2>5, <2>9, <2>10 DEF Settled
<1>6. QED
  BY <1>4, <1>5

NegotiationInv ==
    LonelyInv /\ Newer /\ Roles /\ Duo /\ Clean /\ Hooked /\ Offered /\ Answered

LEMMA InitNegotiation ==
    ASSUME Init
    PROVE  NegotiationInv
<1>0. \A c \in Clients : page[c] = NewPage /\ rtc[c] = NewHook /\ inbox[c] = <<>>
  BY DEF Init
<1>1. NewPage.callId = None /\ NewHook.listening = None /\ NewHook.pc = None /\ ~NewHook.offerSent
  BY DEF NewPage, NewHook
<1>2. \A c \in Clients : \A y, k : ~Pending(c, y, k) /\ InStrictOrder(inbox[c])
  BY <1>0 DEF Pending, Holds, InStrictOrder
<1>3. \A c \in Clients, k \in Calls : page[c].callId # k /\ ~Has(c, k)
  BY <1>0, <1>1, <1>2, CallNumbers DEF Has
<1>4. \A c \in Clients, k \in Calls : ~Knows(c, k)
  BY <1>0, <1>1, <1>3, CallNumbers DEF Knows, HookKnows
<1>5. Newer /\ Duo /\ Clean
  BY <1>0, <1>1, <1>2, <1>4 DEF Newer, Duo, Clean
<1>6. Roles
  BY <1>3, RolePending DEF Roles
<1>7. Hooked
  BY <1>3 DEF Hooked, In
<1>8. Offered /\ Answered
  BY <1>3 DEF Offered, Offering, In, Answered, Fine
<1>9. QED
  BY <1>5, <1>6, <1>7, <1>8, InitLonely DEF NegotiationInv

LEMMA NextNegotiation ==
    ASSUME NegotiationInv, [Next]_vars
    PROVE  NegotiationInv'
<1>1. /\ LonelyInv /\ Newer /\ Roles /\ Duo /\ Clean /\ Hooked /\ Offered /\ Answered
      /\ Typed /\ Numbered /\ Ordered /\ Accompanied
  BY DEF NegotiationInv, LonelyInv, ServedInv
<1>2. LonelyInv'
  BY <1>1, NextLonely
<1>3. Typed'
  BY <1>2 DEF LonelyInv, ServedInv
<1>4. Newer' /\ Roles' /\ Duo' /\ Clean'
  BY <1>1, <1>3, NewerKept, RolesKept, DuoKept, CleanKept
<1>5. Hooked'
  BY <1>1, HookedKept
<1>6. Offered' /\ Answered'
  BY <1>1, OfferedKept, AnsweredKept
<1>7. QED
  BY <1>2, <1>4, <1>5, <1>6 DEF NegotiationInv

\* When nothing is under way the hook of a page in a call has its connection, and
\* nothing more to do with it.
LEMMA HookAtRest ==
    ASSUME NegotiationInv, Quiet, NEW c \in Clients \ stranded, NEW k \in Calls,
           InCall(c, k), ~rtc[c].crossed
    PROVE  /\ In(c, k) /\ Fine(c, k) /\ ~Doomed(c, k)
           /\ rtc[c].pc # None /\ rtc[c].pc.callId = k /\ rtc[c].pc.sig # "have-remote-offer"
           /\ Fits(rtc[c], k, page[c].isInitiator)
           /\ page[c].isInitiator => rtc[c].pc.peer = k \/ rtc[c].pc.sig = "have-local-offer"
           /\ rtc[c].pc.sig \in {"stable", "have-local-offer", "have-remote-offer"}
<1>0. Typed /\ k # None /\ page[c].open /\ page[c].callId = k /\ AtRest(c) /\ Hooked
  BY CallNumbers DEF NegotiationInv, LonelyInv, ServedInv, InCall, Quiet
<1>1. In(c, k) /\ Fine(c, k)
  BY <1>0 DEF In, Fine, Has
<1>2. ~Doomed(c, k)
  <2>1. ~Pending(c, "ended", k)
    BY DEF Quiet, Pending, Holds
  <2>2. \A t \in Tasks : task[t].kind # "end"
    BY IdleJob DEF Quiet
  <2>3. QED
    BY <2>1, <2>2 DEF Doomed
<1>3. rtc[c].pc # None
  <2>1. PICK h : h = HookEffects(c) /\ h = rtc[c]
    BY <1>0 DEF AtRest
  <2>2. rtc[c].pc = None => h.pc # None
    BY <1>0, <2>1, HookMade
  <2>3. QED
    BY <2>1, <2>2
<1>4. rtc[c].pc.offers = <<>> /\ rtc[c].pc.sig # "have-remote-offer"
  BY <1>0, <1>3 DEF AtRest
<1>5. PICK r \in BOOLEAN : r = page[c].isInitiator
  BY <1>0 DEF Typed, PagesOK, PageState
<1>6. Fits(rtc[c], k, r) /\ ~Idles(rtc[c], k, r)
  BY <1>0, <1>1, <1>2, <1>5 DEF Hooked
<1>7. rtc[c].pc.callId = k /\ rtc[c].pc.peer \in {None, k}
  BY <1>3, <1>6 DEF Fits
<1>8. r => rtc[c].pc.peer # None \/ rtc[c].pc.sig = "have-local-offer"
  BY <1>3, <1>4, <1>6 DEF Idles
<1>9. rtc[c].pc.sig \in {"stable", "have-local-offer", "have-remote-offer"}
  <2>1. rtc[c].pc \in Peer
    BY <1>0, <1>3 DEF Typed, PagesOK, Hook
  <2>2. QED
    BY <2>1 DEF Peer
<1>10. QED
  BY <1>1, <1>2, <1>3, <1>4, <1>5, <1>6, <1>7, <1>8, <1>9

(* When everything has settled two pages in the same call have negotiated it, as      *)
(* initiator and responder, unless an offer or an answer found no listener or no      *)
(* connection, or one of the pages met another call in this one.  An offer that was   *)
(* sent is on its way, being answered or answered (Offered), an answer comes from the *)
(* other page of the call, which has the offer (Answered), and a connection without   *)
(* an offer is one whose call is about to end (Hooked).                               *)
THEOREM CallsAreNegotiated == Spec => []Negotiated
<1>1. Init => NegotiationInv
  BY InitNegotiation
<1>2. NegotiationInv /\ [Next]_vars => NegotiationInv'
  BY NextNegotiation
<1>3. NegotiationInv => Negotiated
  <2>1. ASSUME NegotiationInv, Quiet, NEW c \in Clients \ stranded, NEW d \in Clients \ stranded,
               c # d, NEW k \in Calls, InCall(c, k), InCall(d, k), ~rtc[c].crossed, ~rtc[d].crossed,
               page[c].isInitiator
        PROVE  rtc[c].pc.sig = "stable" /\ rtc[c].pc.peer = k /\ rtc[d].pc.peer = k
    <3>1. /\ In(c, k) /\ Fine(c, k) /\ ~Doomed(c, k) /\ rtc[c].pc # None
          /\ rtc[c].pc.sig # "have-remote-offer"
          /\ rtc[c].pc.peer = k \/ rtc[c].pc.sig = "have-local-offer"
          /\ rtc[c].pc.sig \in {"stable", "have-local-offer", "have-remote-offer"}
      BY <2>1, HookAtRest
    <3>2. Fine(d, k) /\ rtc[d].pc.sig # "have-remote-offer"
      BY <2>1, HookAtRest
    <3>3. \A e \in Clients : \A y, j : ~Pending(e, y, j)
      BY <2>1 DEF Quiet, Pending, Holds
    <3>4. ~Offering(c, k)
      BY <2>1, <3>1, <3>2, <3>3 DEF NegotiationInv, Offered, Answering
    <3>5. rtc[c].pc.sig = "stable" /\ rtc[c].pc.peer = k
      BY <2>1, <3>1, <3>4 DEF Offering
    <3>6. Hears(c, k)
      <4>1. page[c].callId = k /\ k # None
        BY <2>1, CallNumbers DEF InCall
      <4>2. QED
        BY <2>1, <3>1, <3>5, <4>1 DEF Hears
    <3>7. Settled(d, k)
      BY <2>1, <3>1, <3>2, <3>6 DEF NegotiationInv, Answered
    <3>8. QED
      BY <3>5, <3>7 DEF Settled
  <2>2. ASSUME NegotiationInv, Quiet, NEW c \in Clients \ stranded, NEW d \in Clients \ stranded,
               c # d, NEW k \in Calls, InCall(c, k), InCall(d, k), ~rtc[c].crossed, ~rtc[d].crossed
        PROVE  /\ rtc[c].pc # None
               /\ rtc[c].pc.callId = k /\ rtc[c].pc.peer = k /\ rtc[c].pc.sig = "stable"
               /\ page[c].isInitiator # page[d].isInitiator
    <3>1. page[c].isInitiator \in BOOLEAN /\ page[d].isInitiator \in BOOLEAN
      BY <2>2 DEF NegotiationInv, LonelyInv, ServedInv, Typed, PagesOK, PageState
    <3>2. page[c].isInitiator # page[d].isInitiator
      <4>1. HasAs(c, k, page[c].isInitiator) /\ HasAs(d, k, page[d].isInitiator)
        BY <2>2 DEF HasAs, InCall
      <4>2. QED
        BY <2>2, <3>1, <4>1 DEF NegotiationInv, Roles
    <3>3. /\ rtc[c].pc # None /\ rtc[c].pc.callId = k /\ rtc[c].pc.sig # "have-remote-offer"
          /\ Fits(rtc[c], k, page[c].isInitiator)
          /\ rtc[c].pc.sig \in {"stable", "have-local-offer", "have-remote-offer"}
      BY <2>2, HookAtRest
    <3>4. CASE page[c].isInitiator
      BY <2>1, <2>2, <3>2, <3>3, <3>4
    <3>5. CASE ~page[c].isInitiator
      <4>1. page[d].isInitiator
        BY <3>1, <3>2, <3>5
      <4>2. rtc[c].pc.peer = k
        BY <2>1, <2>2, <4>1
      <4>3. PICK r \in BOOLEAN : r = page[c].isInitiator
        BY <3>1
      <4>4. Fits(rtc[c], k, r) /\ ~r
        BY <3>3, <3>5, <4>3
      <4>5. rtc[c].pc.sig # "have-local-offer"
        BY <3>3, <4>4 DEF Fits
      <4>6. QED
        BY <3>2, <3>3, <4>2, <4>5
    <3>6. QED
      BY <3>4, <3>5
  <2>3. QED
    BY <2>2 DEF Negotiated
<1>4. QED
  BY <1>1, <1>2, <1>3, PTL DEF Spec
====
