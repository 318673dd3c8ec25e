---- MODULE Rooms ----
(***************************************************************************)
(* Group calls: SfuService and the sfu:* handlers and handleDisconnect of  *)
(* the gateway that call it, over mediasoup's workers, routers, transports,*)
(* producers and consumers.                                                *)
(*                                                                         *)
(* A handler keeps the room object it looked up across its awaits, even    *)
(* when the `rooms' map has lost or replaced it meanwhile.  Room objects   *)
(* are therefore numbered in creation order (each has one router), and     *)
(* `rooms' maps a room id to the number of its current object.             *)
(***************************************************************************)
EXTENDS Integers, FiniteSets, Sequences

CONSTANTS
    Sockets, RoomIds,
    Tasks,         \* handler invocations that may be in progress at once
    Transports, Producers, Consumers,   \* ids that mediasoup hands out
    NumWorkers,    \* Math.max(1, Math.min(cpus, 4))
    MaxRouters,    \* bound on the routers ever created
    MaxDeaths,     \* bound on the workers that die
    None           \* JavaScript's undefined

ASSUME WorkersPositive == NumWorkers \in Nat \ {0}
ASSUME RoomBounds == MaxRouters \in Nat /\ MaxDeaths \in Nat
ASSUME NoneIsNoRoom == None \notin RoomIds

\* A transport is "removed" when its room's map has lost it, too.
Transport == [owner : Sockets, entry : Nat, state : {"open", "closed", "removed"}]

ASSUME NoneIsNoRecord == None \notin Transport

VARIABLES
    conn,         \* per socket: "open", "closing" (handleDisconnect runs), "gone"
    roomOf,       \* per socket: meta.roomId
    rooms,        \* the map rooms: number of the room object, or 0
    router,       \* the room objects, in creation order
    transport,    \* per id: owner, room object, state; None before it exists
    producer,     \* per id: its transport
    consumer,     \* per id: its transport, its producer, paused
    workers,      \* the array workers: alive, and how often the slot was refilled
    replacing,    \* slots whose replaceWorker awaits createWorker
    workerIndex,  \* modulo NumWorkers, as it is only used
    task,         \* what each task is doing
    deaths,       \* workers that died so far
    strays,       \* <<socket, room>>: it left or moved on and was not taken out of the room
    overwritten   \* room objects that rooms.set replaced by another one

vars == <<conn, roomOf, rooms, router, transport, producer, consumer, workers, replacing,
          workerIndex, task, deaths, strays, overwritten>>
media == <<transport, producer, consumer>>
pool == <<workers, replacing, workerIndex, deaths>>
history == <<strays, overwritten>>

Slots == 0 .. NumWorkers - 1

IdleTask == [pc |-> "idle", sock |-> None, room |-> None, worker |-> <<0, 0>>,
             entry |-> 0, via |-> None, of |-> None]

\* onModuleInit has run spawnWorkers with mediasoup installed.
Init ==
    /\ conn = [s \in Sockets |-> "open"]
    /\ roomOf = [s \in Sockets |-> None]
    /\ rooms = [r \in RoomIds |-> 0]
    /\ router = <<>>
    /\ transport = [x \in Transports |-> None]
    /\ producer = [p \in Producers |-> None]
    /\ consumer = [c \in Consumers |-> None]
    /\ workers = [i \in Slots |-> [alive |-> TRUE, refills |-> 0]]
    /\ replacing = {}
    /\ workerIndex = 0
    /\ task = [t \in Tasks |-> IdleTask]
    /\ deaths = 0
    /\ strays = {}
    /\ overwritten = {}

----------------------------------------------------------------------------
(* mediasoup.                                                              *)

\* A worker is named by its slot and the refill that put it there.
Alive(w) == workers[w[1]].alive /\ workers[w[1]].refills = w[2]

\* Transports in the map of room object e: removeParticipant deletes them.
Listed(e) == {x \in Transports : transport[x] # None /\ transport[x].entry = e
                                 /\ transport[x].state # "removed"}

Open(x) == transport[x] # None /\ transport[x].state = "open"

\* Closing a router closes its transports; they stay in the maps.
CloseTransports(entries) ==
    [x \in Transports |-> IF Open(x) /\ transport[x].entry \in entries
                          THEN [transport[x] EXCEPT !.state = "closed"] ELSE transport[x]]

\* A worker process dies with its routers; the listener that spawnWorkers
\* installed starts replaceWorker, and a replacement has no listener.
WorkerDies(i) ==
    LET lost == {e \in DOMAIN router : router[e].worker = <<i, workers[i].refills>>}
    IN  /\ workers[i].alive /\ deaths < MaxDeaths
        /\ workers' = [workers EXCEPT ![i].alive = FALSE]
        /\ replacing' = IF workers[i].refills = 0 THEN replacing \cup {i} ELSE replacing
        /\ router' = [e \in DOMAIN router |-> IF e \in lost THEN [router[e] EXCEPT !.open = FALSE]
                                              ELSE router[e]]
        /\ transport' = CloseTransports(lost)
        /\ deaths' = deaths + 1
        /\ UNCHANGED <<conn, roomOf, rooms, producer, consumer, workerIndex, task, history>>

\* createWorker resolves: the slot gets the new worker.
ReplaceWorker(i) ==
    /\ i \in replacing
    /\ workers' = [workers EXCEPT ![i] = [alive |-> TRUE, refills |-> @.refills + 1]]
    /\ replacing' = replacing \ {i}
    /\ UNCHANGED <<conn, roomOf, rooms, router, media, workerIndex, task, deaths, history>>

----------------------------------------------------------------------------
(* Handlers.                                                               *)

Begin(t, pc, s, locals) ==
    /\ task[t].pc = "idle"
    /\ task' = [task EXCEPT ![t] = [locals EXCEPT !.pc = pc, !.sock = s]]

End(t) == task' = [task EXCEPT ![t] = IdleTask]

\* meta.roomId = data.roomId.  Nothing is done about the room it named before:
\* the server has no sfu:leave.
SetRoom(s, r) ==
    /\ roomOf' = [roomOf EXCEPT ![s] = r]
    /\ strays' = IF conn[s] = "gone" THEN strays
                 ELSE {z \in strays : z # <<s, r>>} \cup
                      {<<s, q>> : q \in {router[e].room : e \in {d \in DOMAIN router :
                                             s \in router[d].participants}} \ {r}}

\* sfu:join of a room in the map; the audit insert changes nothing here.
JoinExisting(s, r) ==
    /\ conn[s] = "open"
    /\ rooms[r] # 0
    /\ SetRoom(s, r)
    /\ UNCHANGED <<conn, rooms, router, media, pool, task, overwritten>>

\* Mutant of JoinNew: the round robin over the workers does not wrap around.
JoinNewUnwrapped(t, s, r) ==
    /\ conn[s] = "open"
    /\ rooms[r] = 0
    /\ Begin(t, "creating", s,
             [IdleTask EXCEPT !.room = r, !.worker = <<workerIndex, workers[workerIndex].refills>>])
    /\ workerIndex' = workerIndex + 1
    /\ UNCHANGED <<conn, roomOf, rooms, router, media, workers, replacing, deaths, history>>

\* sfu:join of a new room: createRoom up to createRouter.
JoinNew(t, s, r) ==
    /\ conn[s] = "open"
    /\ rooms[r] = 0
    /\ Len(router) + Cardinality({u \in Tasks : task[u].pc = "creating"}) < MaxRouters
    /\ Begin(t, "creating", s,
             [IdleTask EXCEPT !.room = r, !.worker = <<workerIndex, workers[workerIndex].refills>>])
    /\ workerIndex' = (workerIndex + 1) % NumWorkers
    /\ UNCHANGED <<conn, roomOf, rooms, router, media, workers, replacing, deaths, history>>

\* The router exists: rooms.set, whatever the map holds by now.
RoomCreated(t) ==
    LET r == task[t].room
    IN  /\ task[t].pc = "creating"
        /\ Alive(task[t].worker)
        /\ router' = Append(router, [room |-> r, worker |-> task[t].worker,
                                     open |-> TRUE, participants |-> {}])
        /\ rooms' = [rooms EXCEPT ![r] = Len(router) + 1]
        /\ overwritten' = IF rooms[r] = 0 THEN overwritten ELSE overwritten \cup {rooms[r]}
        /\ task' = [task EXCEPT ![t].pc = "created"]
        /\ UNCHANGED <<conn, roomOf, media, pool, strays>>

\* After the audit insert; meta is the socket's even if it was deleted from the map.
EnterRoom(t) ==
    /\ task[t].pc = "created"
    /\ SetRoom(task[t].sock, task[t].room)
    /\ End(t)
    /\ UNCHANGED <<conn, rooms, router, media, pool, overwritten>>

\* sfu:create-transport by a client that has joined.
CreateTransport(t, s) ==
    /\ conn[s] = "open"
    /\ roomOf[s] # None /\ rooms[roomOf[s]] # 0
    /\ Begin(t, "transport", s, [IdleTask EXCEPT !.entry = rooms[roomOf[s]]])
    /\ UNCHANGED <<conn, roomOf, rooms, router, media, pool, history>>

\* Mutant of TransportCreated: the peer is not counted as a participant.
TransportCreatedUncounted(t, x) ==
    LET s == task[t].sock
        e == task[t].entry
    IN  /\ task[t].pc = "transport" /\ router[e].open
        /\ transport[x] = None
        /\ transport' = [transport EXCEPT ![x] = [owner |-> s, entry |-> e, state |-> "open"]]
        /\ End(t)
        /\ UNCHANGED <<conn, roomOf, rooms, router, producer, consumer, pool, history>>

\* transports.set and participants.add, on the room object found before the await.
TransportCreated(t, x) ==
    LET s == task[t].sock
        e == task[t].entry
    IN  /\ task[t].pc = "transport" /\ router[e].open
        /\ transport[x] = None
        /\ transport' = [transport EXCEPT ![x] = [owner |-> s, entry |-> e, state |-> "open"]]
        /\ router' = [router EXCEPT ![e].participants = @ \cup {s}]
        /\ strays' = IF conn[s] = "gone" \/ roomOf[s] # router[e].room
                     THEN strays \cup {<<s, router[e].room>>} ELSE strays
        /\ End(t)
        /\ UNCHANGED <<conn, roomOf, rooms, producer, consumer, pool, overwritten>>

\* The client's own transport, as connectTransport, produce and consume find it:
\* by its id in the room that the map holds now.
Finds(s, x) ==
    /\ conn[s] = "open"
    /\ roomOf[s] # None /\ rooms[roomOf[s]] # 0
    /\ x \in Listed(rooms[roomOf[s]]) /\ transport[x].owner = s

\* sfu:produce.
Produce(t, s, x) ==
    /\ Finds(s, x)
    /\ Begin(t, "produce", s, [IdleTask EXCEPT !.via = x])
    /\ UNCHANGED <<conn, roomOf, rooms, router, media, pool, history>>

Produced(t, p) ==
    /\ task[t].pc = "produce" /\ Open(task[t].via)
    /\ producer[p] = None
    /\ producer' = [producer EXCEPT ![p] = task[t].via]
    /\ End(t)
    /\ UNCHANGED <<conn, roomOf, rooms, router, transport, consumer, pool, history>>

\* router.canConsume: the producer is open and belongs to this router.
CanConsume(e, p) ==
    producer[p] # None /\ Open(producer[p]) /\ transport[producer[p]].entry = e

\* Mutant of Consume: the router is not asked whether it has the producer.
ConsumeUnasked(t, s, x, p) ==
    /\ Finds(s, x)
    /\ producer[p] # None
    /\ Begin(t, "consume", s, [IdleTask EXCEPT !.via = x, !.of = p])
    /\ UNCHANGED <<conn, roomOf, rooms, router, media, pool, history>>

\* sfu:consume.
Consume(t, s, x, p) ==
    /\ Finds(s, x)
    /\ CanConsume(rooms[roomOf[s]], p)
    /\ Begin(t, "consume", s, [IdleTask EXCEPT !.via = x, !.of = p])
    /\ UNCHANGED <<conn, roomOf, rooms, router, media, pool, history>>

Consumed(t, c) ==
    /\ task[t].pc = "consume"
    /\ Open(task[t].via) /\ Open(producer[task[t].of])
    /\ consumer[c] = None
    /\ consumer' = [consumer EXCEPT ![c] = [transport |-> task[t].via,
                                            producer |-> task[t].of, paused |-> TRUE]]
    /\ End(t)
    /\ UNCHANGED <<conn, roomOf, rooms, router, transport, producer, pool, history>>

\* sfu:resume-consumer; the resume of a closed consumer is rejected.
ResumeConsumer(s, c) ==
    /\ consumer[c] # None /\ consumer[c].paused
    /\ Finds(s, consumer[c].transport)
    /\ Open(consumer[c].transport) /\ Open(producer[consumer[c].producer])
    /\ consumer' = [consumer EXCEPT ![c].paused = FALSE]
    /\ UNCHANGED <<conn, roomOf, rooms, router, transport, producer, pool, task, history>>

\* mediasoup rejects a request whose worker, router, transport or producer is
\* closed, and the handler throws.
Rejected(t) ==
    /\ CASE task[t].pc = "creating"  -> ~Alive(task[t].worker)
         [] task[t].pc = "transport" -> ~router[task[t].entry].open
         [] task[t].pc = "produce"   -> ~Open(task[t].via)
         [] task[t].pc = "consume"   -> ~Open(task[t].via) \/ ~Open(producer[task[t].of])
         [] OTHER -> FALSE
    /\ End(t)
    /\ UNCHANGED <<conn, roomOf, rooms, router, media, pool, history>>

----------------------------------------------------------------------------
(* handleDisconnect.                                                       *)

\* Up to the awaits of dequeue and endCall.
Disconnect(t, s) ==
    /\ conn[s] = "open"
    /\ conn' = [conn EXCEPT ![s] = "closing"]
    /\ Begin(t, "leaving", s, IdleTask)
    /\ UNCHANGED <<roomOf, rooms, router, media, pool, history>>

\* dequeue or endCall fails: the handler ends before it reaches the room.
LeaveFails(t) ==
    /\ task[t].pc = "leaving"
    /\ conn' = [conn EXCEPT ![task[t].sock] = "gone"]
    /\ strays' = strays \cup {<<task[t].sock, r>> : r \in RoomIds \cap {roomOf[task[t].sock]}}
    /\ End(t)
    /\ UNCHANGED <<roomOf, rooms, router, media, pool, overwritten>>

\* Mutant of LeaveNoRoom: the room is not looked at.
LeaveUnchecked(t) ==
    /\ task[t].pc = "leaving"
    /\ conn' = [conn EXCEPT ![task[t].sock] = "gone"]
    /\ End(t)
    /\ UNCHANGED <<roomOf, rooms, router, media, pool, history>>

\* No meta.roomId, or no such room any more: removeParticipant returns.
LeaveNoRoom(t) ==
    LET r == roomOf[task[t].sock]
    IN  /\ task[t].pc = "leaving"
        /\ r = None \/ (r # None /\ rooms[r] = 0)
        /\ conn' = [conn EXCEPT ![task[t].sock] = "gone"]
        /\ End(t)
        /\ UNCHANGED <<roomOf, rooms, router, media, pool, history>>

\* What removeParticipant does to room object e for the peer s, when `closes'
\* says that the room is closed and `left' who is left in it.
Leave(t, s, r, e, left, closes) ==
    /\ task[t].pc = "leaving" /\ task[t].sock = s
    /\ roomOf[s] = r /\ rooms[r] = e /\ e # 0
    /\ router' = [router EXCEPT ![e].participants = left, ![e].open = @ /\ ~closes]
    /\ rooms' = [rooms EXCEPT ![r] = IF closes THEN 0 ELSE e]
    /\ transport' = [x \in Transports |->
          IF x \in Listed(e) /\ transport[x].owner = s
          THEN [transport[x] EXCEPT !.state = "removed"]
          ELSE IF closes THEN CloseTransports({e})[x] ELSE transport[x]]
    /\ conn' = [conn EXCEPT ![s] = "gone"]
    /\ End(t)
    /\ UNCHANGED <<roomOf, producer, consumer, pool, history>>

\* Mutant of RemoveParticipant: the room is closed when one participant is left.
RemoveParticipantLast(t, s, r, e) ==
    LET left == router[e].participants \ {s}
    IN  Leave(t, s, r, e, left, Cardinality(left) <= 1)

\* Mutant of RemoveParticipant: the router is closed and stays in the map.
RemoveParticipantMapped(t, s, r, e) ==
    LET left == router[e].participants \ {s}
    IN  /\ task[t].pc = "leaving" /\ task[t].sock = s
        /\ roomOf[s] = r /\ rooms[r] = e /\ e # 0
        /\ router' = [router EXCEPT ![e].participants = left, ![e].open = @ /\ left # {}]
        /\ transport' = [x \in Transports |->
              IF x \in Listed(e) /\ transport[x].owner = s
              THEN [transport[x] EXCEPT !.state = "removed"] ELSE transport[x]]
        /\ conn' = [conn EXCEPT ![s] = "gone"]
        /\ End(t)
        /\ UNCHANGED <<roomOf, rooms, producer, consumer, pool, history>>

\* The peer leaves the room object the map holds now; an empty room is closed.
RemoveParticipant(t, s, r, e) ==
    LET left == router[e].participants \ {s}
    IN  Leave(t, s, r, e, left, left = {})

----------------------------------------------------------------------------

Step(t) ==
    \/ RoomCreated(t) \/ EnterRoom(t) \/ Rejected(t)
    \/ \E x \in Transports : TransportCreated(t, x)
    \/ \E p \in Producers : Produced(t, p)
    \/ \E c \in Consumers : Consumed(t, c)
    \/ LeaveFails(t) \/ LeaveNoRoom(t)
    \/ \E s \in Sockets, r \in RoomIds, e \in DOMAIN router : RemoveParticipant(t, s, r, e)

Request(t, s) ==
    \/ \E r \in RoomIds : JoinNew(t, s, r)
    \/ CreateTransport(t, s)
    \/ \E x \in Transports : Produce(t, s, x)
    \/ \E x \in Transports, p \in Producers : Consume(t, s, x, p)
    \/ Disconnect(t, s)

Next ==
    \/ \E i \in Slots : WorkerDies(i) \/ ReplaceWorker(i)
    \/ \E s \in Sockets, r \in RoomIds : JoinExisting(s, r)
    \/ \E s \in Sockets, c \in Consumers : ResumeConsumer(s, c)
    \/ \E t \in Tasks : Step(t)
    \/ \E t \in Tasks, s \in Sockets : Request(t, s)

Spec == Init /\ [][Next]_vars

----------------------------------------------------------------------------
(* Properties.                                                             *)

Worker == Slots \X Nat

RoomObject == [room : RoomIds, worker : Worker, open : BOOLEAN, participants : SUBSET Sockets]

Consumer == [transport : Transports, producer : Producers, paused : BOOLEAN]

Handler == [pc : {"idle", "creating", "created", "transport", "produce", "consume", "leaving"},
            sock : Sockets \cup {None}, room : RoomIds \cup {None}, worker : Worker,
            entry : Nat, via : Transports \cup {None}, of : Producers \cup {None}]

\* Types of the service's maps, of mediasoup's objects and of the handlers' locals;
\* maps, transports and handlers name room objects that exist.
TypeOK ==
    /\ conn \in [Sockets -> {"open", "closing", "gone"}]
    /\ roomOf \in [Sockets -> RoomIds \cup {None}]
    /\ rooms \in [RoomIds -> 0 .. Len(router)]
    /\ router \in Seq(RoomObject)
    /\ transport \in [Transports -> {None} \cup Transport]
    /\ \A x \in Transports : transport[x] # None => transport[x].entry \in DOMAIN router
    /\ producer \in [Producers -> {None} \cup Transports]
    /\ consumer \in [Consumers -> {None} \cup Consumer]
    /\ workers \in [Slots -> [alive : BOOLEAN, refills : Nat]]
    /\ replacing \subseteq Slots /\ workerIndex \in Slots
    /\ task \in [Tasks -> Handler]
    /\ \A t \in Tasks : task[t].entry \in 0 .. Len(router)
    /\ deaths \in Nat /\ strays \subseteq Sockets \X RoomIds /\ overwritten \subseteq DOMAIN router

\* participants, which decides when a room is closed, and transports, which holds
\* what is closed with a peer, are kept in step across interleaved joins,
\* disconnects and deaths, in replaced and closed room objects too.
ParticipantsHaveTransports ==
    \A e \in DOMAIN router : router[e].participants = {transport[x].owner : x \in Listed(e)}

\* Nobody's media is cut off by another participant: a transport is closed only
\* by its owner's disconnect or by the death of a worker.
OnlyOwnLeaveCloses ==
    [][\A x \in Transports : Open(x) /\ transport'[x].state # "open" =>
          \/ conn[transport[x].owner] = "closing" /\ conn'[transport[x].owner] = "gone"
          \/ workers' # workers]_vars

\* A router is open exactly when it is in the map, except that the map keeps the
\* rooms of a dead worker, and that a concurrent createRoom replaces a room
\* without closing it.
RoutersAreMapped ==
    \A e \in DOMAIN router :
        /\ router[e].open => rooms[router[e].room] = e \/ e \in overwritten
        /\ rooms[router[e].room] = e => router[e].open \/ ~Alive(router[e].worker)

\* A peer that is gone holds no place in a room (and so cannot keep it from being
\* closed), unless a transport was created for it after it left, it had moved on
\* to another room, or its disconnect failed half way.
GoneIsStray ==
    \A s \in Sockets, r \in RoomIds :
        conn[s] = "gone" /\ rooms[r] # 0 /\ s \in router[rooms[r]].participants => <<s, r>> \in strays

\* A consumer and its producer are in one router, however the room was replaced
\* between the two: media is never forwarded between routers.
ConsumersInRouter ==
    \A c \in Consumers : consumer[c] # None =>
        transport[consumer[c].transport].entry = transport[producer[consumer[c].producer]].entry

\* README.md:10: "participants send 1 stream and receive $N-1$ downstream feeds".
\* Two peers who have joined the same room and have open transports there are on
\* one router, so that each can consume what the other produces.
SameRouter ==
    \A x, y \in {z \in Transports : Open(z) /\ conn[transport[z].owner] = "open"} :
        /\ transport[x].owner # transport[y].owner
        /\ \A z \in {x, y} : roomOf[transport[z].owner] = router[transport[z].entry].room
        /\ router[transport[x].entry].room = router[transport[y].entry].room
        => transport[x].entry = transport[y].entry
====
