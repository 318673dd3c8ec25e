---- MODULE RoomsProofs ----
(***************************************************************************)
(* Theorems about Rooms, for any sets of sockets, rooms, handlers and      *)
(* mediasoup ids and any number of workers.                                *)
(***************************************************************************)
EXTENDS Rooms, SequenceTheorems, TLAPS

\* What the locals of a handler are at the points where it uses them.
LocalsOK ==
    \A t \in Tasks :
        /\ task[t].pc # "idle" => task[t].sock \in Sockets
        /\ task[t].pc \in {"creating", "created"} => task[t].room \in RoomIds
        /\ task[t].pc = "transport" => task[t].entry \in DOMAIN router
        /\ task[t].pc \in {"produce", "consume"} => task[t].via \in Transports
        /\ task[t].pc = "consume" => task[t].of \in Producers

Typed == TypeOK /\ LocalsOK

\* Updating an existing element leaves a sequence of the same length.
LEMMA SeqUpdate ==
    ASSUME NEW S, NEW q \in Seq(S), NEW f, DOMAIN f = DOMAIN q,
           \A i \in DOMAIN q : f[i] \in S, f = [i \in DOMAIN q |-> f[i]]
    PROVE  f \in Seq(S) /\ Len(f) = Len(q)
<1>1. DOMAIN q = 1 .. Len(q) /\ Len(q) \in Nat
  OBVIOUS
<1>2. f \in [1 .. Len(q) -> S]
  BY <1>1
<1>3. f \in Seq(S)
  BY <1>1, <1>2, SeqDef
<1>4. QED
  BY <1>1, <1>3, LenProperties

\* The round robin stays among the slots.
LEMMA SlotFacts == 0 \in Slots /\ \A i \in Slots : (i + 1) % NumWorkers \in Slots
  BY WorkersPositive DEF Slots

\* The record of an idle handler.
LEMMA IdleTyped == IdleTask \in Handler /\ IdleTask.pc = "idle" /\ IdleTask.entry = 0
<1>1. <<0, 0>> \in Worker
  BY SlotFacts DEF Worker
<1>2. QED
  BY <1>1 DEF IdleTask, Handler

\* A handler that ends, and one that begins with well-typed locals.
LEMMA EndTyped ==
    ASSUME Typed, NEW t \in Tasks, End(t)
    PROVE  /\ task' \in [Tasks -> Handler]
           /\ task'[t] = IdleTask
           /\ \A u \in Tasks \ {t} : task'[u] = task[u]
  BY IdleTyped DEF Typed, TypeOK, End

LEMMA InitTyped == Init => Typed
<1> SUFFICES ASSUME Init PROVE Typed
  OBVIOUS
<1>1. DOMAIN router = {} /\ router \in Seq(RoomObject) /\ Len(router) = 0
  BY DEF Init
<1>2. workers \in [Slots -> [alive : BOOLEAN, refills : Nat]]
  BY DEF Init
<1>3. task \in [Tasks -> Handler] /\ \A t \in Tasks : task[t].entry = 0 /\ task[t].pc = "idle"
  BY IdleTyped DEF Init
<1>4. TypeOK
  BY <1>1, <1>2, <1>3, SlotFacts DEF Init, TypeOK
<1>5. LocalsOK
  BY <1>3 DEF LocalsOK
<1>6. QED
  BY <1>4, <1>5 DEF Typed

\* Every step keeps the types.
LEMMA StepTyped == Typed /\ [Next]_vars => Typed'
<1> SUFFICES ASSUME Typed, [Next]_vars PROVE Typed'
  OBVIOUS
<1> USE DEF Typed
<1>a. DOMAIN router = 1 .. Len(router) /\ Len(router) \in Nat
  BY DEF TypeOK
<1>o. \A e \in DOMAIN router : router[e] \in RoomObject
  BY <1>a, ElementOfSeq DEF TypeOK
<1>n. \A u \in Tasks : task[u].entry \in 0 .. Len(router)
  BY DEF TypeOK
<1>k. ASSUME \A u \in Tasks : task'[u] = task[u] \/ (task'[u].pc = "idle" /\ task'[u].entry = 0),
             DOMAIN router' = DOMAIN router, Len(router') = Len(router)
      PROVE  LocalsOK' /\ \A u \in Tasks : task'[u].entry \in 0 .. Len(router')
  <2>1. LocalsOK'
    BY <1>k DEF LocalsOK
  <2>2. QED
    BY <1>a, <1>k, <1>n, <2>1
<1>1. ASSUME NEW i \in Slots, WorkerDies(i) PROVE Typed'
  <2>1. router' \in Seq(RoomObject) /\ Len(router') = Len(router) /\ DOMAIN router' = DOMAIN router
    <3>1. \A e \in DOMAIN router : router'[e] \in RoomObject
      <4>1. \A e \in DOMAIN router : router'[e] \in {router[e], [router[e] EXCEPT !.open = FALSE]}
        BY <1>1 DEF WorkerDies
      <4>2. \A e \in DOMAIN router : [router[e] EXCEPT !.open = FALSE] \in RoomObject
        BY <1>o DEF RoomObject
      <4>3. QED
        BY <4>1, <4>2, <1>o
    <3>2. router' = [e \in DOMAIN router |-> router'[e]] /\ DOMAIN router' = DOMAIN router
      BY <1>1 DEF WorkerDies
    <3>3. router \in Seq(RoomObject)
      BY DEF TypeOK
    <3>4. QED
      BY <3>1, <3>2, <3>3, SeqUpdate
  <2>2. /\ transport' \in [Transports -> {None} \cup Transport]
        /\ \A x \in Transports : transport'[x] # None =>
              transport[x] # None /\ transport'[x].entry = transport[x].entry
    <3>1. transport \in [Transports -> {None} \cup Transport]
      BY DEF TypeOK
    <3>2. \A x \in Transports : transport[x] # None =>
             /\ [transport[x] EXCEPT !.state = "closed"] \in Transport
             /\ [transport[x] EXCEPT !.state = "closed"].entry = transport[x].entry
      BY <3>1 DEF Transport
    <3>3. /\ transport' = [x \in Transports |-> transport'[x]]
          /\ \A x \in Transports :
                \/ transport'[x] = transport[x]
                \/ transport[x] # None /\ transport'[x] = [transport[x] EXCEPT !.state = "closed"]
      BY <1>1 DEF WorkerDies, CloseTransports, Open
    <3>4. ASSUME NEW x \in Transports
          PROVE  /\ transport'[x] \in {None} \cup Transport
                 /\ transport'[x] # None =>
                       transport[x] # None /\ transport'[x].entry = transport[x].entry
      BY <3>1, <3>2, <3>3
    <3>5. QED
      BY <3>3, <3>4
  <2>3. workers' \in [Slots -> [alive : BOOLEAN, refills : Nat]]
    BY <1>1 DEF WorkerDies, TypeOK
  <2>4. LocalsOK' /\ \A u \in Tasks : task'[u].entry \in 0 .. Len(router')
    BY <1>1, <1>k, <2>1 DEF WorkerDies
  <2>5. replacing' \subseteq Slots /\ deaths' \in Nat
    BY <1>1 DEF WorkerDies, TypeOK
  <2>6. \A x \in Transports : transport'[x] # None => transport'[x].entry \in DOMAIN router'
    BY <2>1, <2>2 DEF TypeOK
  <2>7. UNCHANGED <<conn, roomOf, rooms, producer, consumer, workerIndex, task, strays, overwritten>>
    BY <1>1 DEF WorkerDies, history
  <2>8. TypeOK'
    BY <2>1, <2>2, <2>3, <2>4, <2>5, <2>6, <2>7 DEF TypeOK
  <2>9. QED
    BY <2>4, <2>8
<1>2. ASSUME NEW i \in Slots, ReplaceWorker(i) PROVE Typed'
  <2>1. workers' \in [Slots -> [alive : BOOLEAN, refills : Nat]]
    BY <1>2 DEF ReplaceWorker, TypeOK
  <2>2. QED
    BY <1>2, <2>1 DEF ReplaceWorker, TypeOK, LocalsOK, history, media
<1>s. ASSUME NEW s \in Sockets, NEW r \in RoomIds, SetRoom(s, r)
      PROVE  roomOf' \in [Sockets -> RoomIds \cup {None}] /\ strays' \subseteq Sockets \X RoomIds
  <2>1. \A e \in DOMAIN router : router[e].room \in RoomIds
    BY <1>o DEF RoomObject
  <2>2. roomOf' \in [Sockets -> RoomIds \cup {None}]
    BY <1>s DEF SetRoom, TypeOK
  <2>3. strays' \subseteq Sockets \X RoomIds
    BY <1>s, <2>1 DEF SetRoom, TypeOK
  <2>4. QED
    BY <2>2, <2>3
<1>3. ASSUME NEW s \in Sockets, NEW r \in RoomIds, JoinExisting(s, r) PROVE Typed'
  BY <1>3, <1>s DEF JoinExisting, TypeOK, LocalsOK, media, pool
<1>4. ASSUME NEW s \in Sockets, NEW c \in Consumers, ResumeConsumer(s, c) PROVE Typed'
  <2>1. consumer' \in [Consumers -> {None} \cup Consumer]
    BY <1>4 DEF ResumeConsumer, TypeOK, Consumer
  <2>2. QED
    BY <1>4, <2>1 DEF ResumeConsumer, TypeOK, LocalsOK, history, pool
<1>e. ASSUME NEW t \in Tasks, End(t)
      PROVE  /\ task' \in [Tasks -> Handler]
             /\ \A u \in Tasks : task'[u] = task[u] \/ (task'[u].pc = "idle" /\ task'[u].entry = 0)
  BY <1>e, EndTyped, IdleTyped DEF Typed
<1>5. ASSUME NEW t \in Tasks, RoomCreated(t) PROVE Typed'
  <2> DEFINE obj == [room |-> task[t].room, worker |-> task[t].worker, open |-> TRUE,
                     participants |-> {}]
  <2>1. obj \in RoomObject
    BY <1>5 DEF RoomCreated, TypeOK, LocalsOK, Handler, RoomObject
  <2>2. /\ router' \in Seq(RoomObject) /\ Len(router') = Len(router) + 1
        /\ DOMAIN router' = 1 .. (Len(router) + 1)
    BY <1>5, <2>1, AppendProperties DEF RoomCreated, TypeOK
  <2>3. task' \in [Tasks -> Handler] /\ \A u \in Tasks : /\ task'[u].sock = task[u].sock
           /\ task'[u].room = task[u].room /\ task'[u].entry = task[u].entry
           /\ (u # t => task'[u] = task[u]) /\ task'[t].pc = "created"
    BY <1>5 DEF RoomCreated, TypeOK, Handler
  <2>4. rooms' \in [RoomIds -> 0 .. Len(router')]
    BY <1>5, <1>a, <2>2 DEF RoomCreated, TypeOK, LocalsOK
  <2>5. overwritten' \subseteq DOMAIN router'
    <3>1. rooms[task[t].room] \in 0 .. Len(router)
      BY <1>5 DEF RoomCreated, TypeOK, LocalsOK
    <3>2. QED
      BY <1>5, <1>a, <2>2, <3>1 DEF RoomCreated, TypeOK
  <2>6. TypeOK'
    BY <1>5, <1>a, <2>2, <2>3, <2>4, <2>5 DEF RoomCreated, TypeOK, media, pool
  <2>7. LocalsOK'
    BY <1>5, <1>a, <2>2, <2>3 DEF RoomCreated, LocalsOK, TypeOK
  <2>8. QED
    BY <2>6, <2>7
<1>6. ASSUME NEW t \in Tasks, EnterRoom(t) PROVE Typed'
  <2>1. task[t].sock \in Sockets /\ task[t].room \in RoomIds
    BY <1>6 DEF EnterRoom, LocalsOK
  <2>2. QED
    BY <1>6, <1>a, <1>e, <1>s, <2>1 DEF EnterRoom, TypeOK, LocalsOK, media, pool
<1>7. ASSUME NEW t \in Tasks, Rejected(t) PROVE Typed'
  <2>1. End(t) /\ UNCHANGED <<conn, roomOf, rooms, router, media, pool, history>>
    BY <1>7 DEF Rejected
  <2>2. LocalsOK' /\ \A u \in Tasks : task'[u].entry \in 0 .. Len(router')
    BY <1>k, <1>e, <2>1
  <2>3. TypeOK'
    BY <1>e, <2>1, <2>2 DEF TypeOK, media, pool, history
  <2>4. QED
    BY <2>2, <2>3
<1>8. ASSUME NEW t \in Tasks, NEW x \in Transports, TransportCreated(t, x) PROVE Typed'
  <2> DEFINE s == task[t].sock
             e == task[t].entry
  <2>1. s \in Sockets /\ e \in DOMAIN router /\ router \in Seq(RoomObject)
    BY <1>8 DEF TransportCreated, LocalsOK, TypeOK
  <2>2. router' \in Seq(RoomObject) /\ Len(router') = Len(router) /\ DOMAIN router' = DOMAIN router
    <3>1. \A d \in DOMAIN router : router'[d] \in RoomObject
      <4>1. \A d \in DOMAIN router :
              router'[d] = IF d = e THEN [router[e] EXCEPT !.participants = @ \cup {s}] ELSE router[d]
        BY <1>8, <2>1 DEF TransportCreated
      <4>2. [router[e] EXCEPT !.participants = @ \cup {s}] \in RoomObject
        BY <1>o, <2>1 DEF RoomObject
      <4>3. QED
        BY <4>1, <4>2, <1>o
    <3>2. router' = [d \in DOMAIN router |-> router'[d]] /\ DOMAIN router' = DOMAIN router
      BY <1>8 DEF TransportCreated
    <3>4. QED
      BY <2>1, <3>1, <3>2, SeqUpdate
  <2>3. /\ transport' \in [Transports -> {None} \cup Transport]
        /\ \A y \in Transports : transport'[y] # None => transport'[y].entry \in DOMAIN router
    BY <1>8, <1>a, <2>1, NoneIsNoRecord DEF TransportCreated, TypeOK, Transport
  <2>4. strays' \subseteq Sockets \X RoomIds
    <3>1. router[e].room \in RoomIds
      BY <1>o, <2>1 DEF RoomObject
    <3>2. QED
      BY <1>8, <2>1, <3>1 DEF TransportCreated, TypeOK
  <2>5. End(t)
    BY <1>8 DEF TransportCreated
  <2>6. QED
    <3>1. TypeOK'
      BY <1>8, <1>a, <1>e, <2>2, <2>3, <2>4, <2>5 DEF TransportCreated, TypeOK, pool
    <3>2. QED
      BY <3>1, <1>k, <1>e, <2>2, <2>5
<1>9. ASSUME NEW t \in Tasks, NEW p \in Producers, Produced(t, p) PROVE Typed'
  <2>1. producer' \in [Producers -> {None} \cup Transports]
    BY <1>9 DEF Produced, LocalsOK, TypeOK
  <2>2. QED
    <3>1. End(t) /\ router' = router
      BY <1>9 DEF Produced
    <3>2. LocalsOK' /\ \A u \in Tasks : task'[u].entry \in 0 .. Len(router')
      BY <1>k, <1>e, <3>1
    <3>3. TypeOK'
      BY <1>9, <1>e, <2>1, <3>1, <3>2 DEF Produced, TypeOK, pool, history
    <3>4. QED
      BY <3>2, <3>3
<1>10. ASSUME NEW t \in Tasks, NEW c \in Consumers, Consumed(t, c) PROVE Typed'
  <2>1. consumer' \in [Consumers -> {None} \cup Consumer]
    BY <1>10 DEF Consumed, LocalsOK, TypeOK, Consumer
  <2>2. QED
    <3>1. End(t) /\ router' = router
      BY <1>10 DEF Consumed
    <3>2. LocalsOK' /\ \A u \in Tasks : task'[u].entry \in 0 .. Len(router')
      BY <1>k, <1>e, <3>1
    <3>3. TypeOK'
      BY <1>10, <1>e, <2>1, <3>1, <3>2 DEF Consumed, TypeOK, pool, history
    <3>4. QED
      BY <3>2, <3>3
<1>11. ASSUME NEW t \in Tasks, LeaveFails(t) PROVE Typed'
  <2>1. task[t].sock \in Sockets
    BY <1>11 DEF LeaveFails, LocalsOK
  <2>2. strays' \subseteq Sockets \X RoomIds
    BY <1>11, <2>1 DEF LeaveFails, TypeOK
  <2>3. conn' \in [Sockets -> {"open", "closing", "gone"}] /\ End(t)
    BY <1>11, <2>1 DEF LeaveFails, TypeOK
  <2>4. QED
    BY <1>11, <1>a, <1>e, <2>2, <2>3 DEF LeaveFails, TypeOK, LocalsOK, pool, media
<1>12. ASSUME NEW t \in Tasks, LeaveNoRoom(t) PROVE Typed'
  BY <1>12, <1>a, <1>e DEF LeaveNoRoom, TypeOK, LocalsOK, pool, media, history
<1>13. ASSUME NEW t \in Tasks, NEW s \in Sockets, NEW r \in RoomIds, NEW e \in DOMAIN router,
              RemoveParticipant(t, s, r, e)
       PROVE  Typed'
  <2> DEFINE left == router[e].participants \ {s}
  <2>0. Leave(t, s, r, e, left, left = {}) /\ router \in Seq(RoomObject)
    BY <1>13 DEF RemoveParticipant, TypeOK
  <2>1. router' \in Seq(RoomObject) /\ Len(router') = Len(router) /\ DOMAIN router' = DOMAIN router
    <3>1. \A d \in DOMAIN router : router'[d] \in RoomObject
      <4>1. \A d \in DOMAIN router : router'[d] \in
               {router[d], [router[d] EXCEPT !.participants = left, !.open = @ /\ ~(left = {})]}
        BY <2>0 DEF Leave
      <4>2. \A d \in DOMAIN router : \A b \in BOOLEAN :
               [router[d] EXCEPT !.participants = left, !.open = b] \in RoomObject
        BY <1>o DEF RoomObject
      <4>3. \A d \in DOMAIN router : (router[d].open /\ ~(left = {})) \in BOOLEAN
        OBVIOUS
      <4>4. QED
        BY <4>1, <4>2, <4>3, <1>o
    <3>2. router' = [d \in DOMAIN router |-> router'[d]] /\ DOMAIN router' = DOMAIN router
      BY <2>0 DEF Leave
    <3>3. QED
      BY <2>0, <3>1, <3>2, SeqUpdate
  <2>2. /\ transport' \in [Transports -> {None} \cup Transport]
        /\ \A x \in Transports : transport'[x] # None =>
              transport[x] # None /\ transport'[x].entry = transport[x].entry
    <3>1. \A x \in Transports :
             \/ transport'[x] = transport[x]
             \/ transport[x] # None /\ transport'[x] = [transport[x] EXCEPT !.state = "closed"]
             \/ transport[x] # None /\ transport'[x] = [transport[x] EXCEPT !.state = "removed"]
      <4>1. ASSUME NEW x \in Transports
            PROVE  transport'[x] = IF x \in Listed(e) /\ transport[x].owner = s
                                   THEN [transport[x] EXCEPT !.state = "removed"]
                                   ELSE IF left = {} THEN CloseTransports({e})[x] ELSE transport[x]
        BY <2>0 DEF Leave
      <4>2. ASSUME NEW x \in Transports
            PROVE  CloseTransports({e})[x] = IF Open(x) /\ transport[x].entry \in {e}
                      THEN [transport[x] EXCEPT !.state = "closed"] ELSE transport[x]
        BY DEF CloseTransports
      <4>3. ASSUME NEW x \in Transports
            PROVE  (x \in Listed(e) => transport[x] # None) /\ (Open(x) => transport[x] # None)
        BY DEF Listed, Open
      <4>4. SUFFICES ASSUME NEW x \in Transports
                     PROVE  \/ transport'[x] = transport[x]
                            \/ transport[x] # None /\ transport'[x] = [transport[x] EXCEPT !.state = "closed"]
                            \/ transport[x] # None /\ transport'[x] = [transport[x] EXCEPT !.state = "removed"]
        OBVIOUS
      <4>5. CASE x \in Listed(e) /\ transport[x].owner = s
        <5>1. transport[x] # None /\ transport'[x] = [transport[x] EXCEPT !.state = "removed"]
          BY <4>1, <4>3, <4>5
        <5>2. QED
          BY <5>1
      <4>6. CASE ~(x \in Listed(e) /\ transport[x].owner = s) /\ left = {}
        <5>1. transport'[x] = CloseTransports({e})[x]
          BY <4>1, <4>6
        <5>2. CASE Open(x) /\ transport[x].entry \in {e}
          <6>1. transport[x] # None /\ transport'[x] = [transport[x] EXCEPT !.state = "closed"]
            BY <4>2, <4>3, <5>1, <5>2
          <6>2. QED
            BY <6>1
        <5>3. CASE ~(Open(x) /\ transport[x].entry \in {e})
          BY <4>2, <5>1, <5>3
        <5>4. QED
          BY <5>2, <5>3
      <4>7. CASE ~(x \in Listed(e) /\ transport[x].owner = s) /\ left # {}
        BY <4>1, <4>7
      <4>8. QED
        BY <4>5, <4>6, <4>7
    <3>2. \A x \in Transports : transport[x] # None => transport[x] \in Transport
      BY DEF TypeOK
    <3>3. \A x \in Transports : transport'[x] \in {None} \cup Transport
             /\ (transport'[x] # None => transport[x] # None /\ transport'[x].entry = transport[x].entry)
      BY <3>1, <3>2, NoneIsNoRecord DEF Transport
    <3>4. transport' = [x \in Transports |-> transport'[x]]
      BY <2>0 DEF Leave
    <3>5. QED
      BY <3>3, <3>4
  <2>3. rooms' \in [RoomIds -> 0 .. Len(router)]
    BY <2>0, <1>a DEF Leave, TypeOK
  <2>4. conn' \in [Sockets -> {"open", "closing", "gone"}] /\ End(t)
    BY <2>0 DEF Leave, TypeOK
  <2>5. LocalsOK' /\ \A u \in Tasks : task'[u].entry \in 0 .. Len(router')
    BY <2>1, <2>4, <1>k, <1>e
  <2>6. \A x \in Transports : transport'[x] # None => transport'[x].entry \in DOMAIN router'
    BY <2>1, <2>2 DEF TypeOK
  <2>7. UNCHANGED <<roomOf, producer, consumer, pool, history>>
    BY <2>0 DEF Leave
  <2>8. TypeOK'
    BY <1>e, <2>1, <2>2, <2>3, <2>4, <2>5, <2>6, <2>7 DEF TypeOK, pool, history
  <2>9. QED
    BY <2>5, <2>8
<1>14. ASSUME NEW t \in Tasks, NEW s \in Sockets, Request(t, s) PROVE Typed'
  <2>b. ASSUME NEW pc \in {"creating", "transport", "produce", "consume", "leaving"},
               NEW loc \in Handler, Begin(t, pc, s, loc)
        PROVE  /\ task' \in [Tasks -> Handler]
               /\ \A u \in Tasks \ {t} : task'[u] = task[u]
               /\ task'[t] = [loc EXCEPT !.pc = pc, !.sock = s]
    <3>1. [loc EXCEPT !.pc = pc, !.sock = s] \in Handler
      BY DEF Handler
    <3>2. QED
      BY <2>b, <3>1 DEF Begin, TypeOK
  <2>1. ASSUME NEW r \in RoomIds, JoinNew(t, s, r) PROVE Typed'
    <3> DEFINE loc == [IdleTask EXCEPT !.room = r, !.worker = <<workerIndex, workers[workerIndex].refills>>]
    <3>1. loc \in Handler /\ loc.room = r /\ loc.entry = 0
      <4>1. <<workerIndex, workers[workerIndex].refills>> \in Worker
        BY DEF TypeOK, Worker
      <4>2. QED
        BY <4>1, IdleTyped DEF Handler, IdleTask
    <3>2. Begin(t, "creating", s, loc)
      BY <2>1 DEF JoinNew
    <3>3. /\ task' \in [Tasks -> Handler] /\ \A u \in Tasks \ {t} : task'[u] = task[u]
          /\ task'[t] = [loc EXCEPT !.pc = "creating", !.sock = s]
      BY <2>b, <3>1, <3>2
    <3>4. task'[t].pc = "creating" /\ task'[t].sock = s /\ task'[t].room = r /\ task'[t].entry = 0
      BY <3>1, <3>3 DEF Handler
    <3>5. workerIndex' \in Slots
      BY <2>1, SlotFacts DEF JoinNew, TypeOK
    <3>6. QED
      <4>0. \A u \in Tasks : task'[u].entry \in 0 .. Len(router)
        <5>1. task'[t].entry \in 0 .. Len(router)
          BY <1>a, <3>4
        <5>2. \A u \in Tasks \ {t} : task'[u].entry \in 0 .. Len(router)
          BY <1>n, <3>3
        <5>3. QED
          BY <5>1, <5>2
      <4>1. TypeOK'
        BY <2>1, <3>3, <3>4, <3>5, <4>0 DEF JoinNew, TypeOK, media, history
      <4>2. LocalsOK'
        BY <2>1, <3>3, <3>4, <3>5 DEF JoinNew, LocalsOK
      <4>3. QED
        BY <4>1, <4>2
  <2>2. ASSUME CreateTransport(t, s) PROVE Typed'
    <3> DEFINE e == rooms[roomOf[s]]
               loc == [IdleTask EXCEPT !.entry = e]
    <3>1. e \in 1 .. Len(router)
      BY <2>2, <1>a DEF CreateTransport, TypeOK
    <3>2. loc \in Handler /\ loc.entry = e
      BY <3>1, <1>a, IdleTyped DEF Handler, IdleTask
    <3>3. /\ task' \in [Tasks -> Handler] /\ \A u \in Tasks \ {t} : task'[u] = task[u]
          /\ task'[t] = [loc EXCEPT !.pc = "transport", !.sock = s]
      BY <2>2, <2>b, <3>2 DEF CreateTransport
    <3>4. task'[t].pc = "transport" /\ task'[t].sock = s /\ task'[t].entry = e
      BY <3>2, <3>3 DEF Handler
    <3> HIDE DEF e, loc
    <3>5. UNCHANGED <<router, conn, roomOf, rooms, media, pool, history>>
      BY <2>2 DEF CreateTransport
    <3>6. ASSUME NEW u \in Tasks PROVE task'[u].entry \in 0 .. Len(router)
      <4>1. CASE u = t
        BY <1>a, <3>1, <3>4, <4>1
      <4>2. CASE u # t
        BY <1>n, <3>3, <4>2
      <4>3. QED
        BY <4>1, <4>2
    <3>7. TypeOK'
      BY <3>3, <3>5, <3>6 DEF TypeOK, media, pool, history
    <3>8. LocalsOK'
      <4>1. e \in DOMAIN router
        BY <1>a, <3>1
      <4>2. QED
        BY <3>3, <3>4, <3>5, <4>1 DEF LocalsOK
    <3>9. QED
      BY <3>7, <3>8
  <2>3. ASSUME NEW x \in Transports, Produce(t, s, x) PROVE Typed'
    <3> DEFINE loc == [IdleTask EXCEPT !.via = x]
    <3>1. loc \in Handler /\ loc.entry = 0 /\ loc.via = x
      BY IdleTyped DEF Handler, IdleTask
    <3>2. /\ task' \in [Tasks -> Handler] /\ \A u \in Tasks \ {t} : task'[u] = task[u]
          /\ task'[t] = [loc EXCEPT !.pc = "produce", !.sock = s]
      BY <2>3, <2>b, <3>1 DEF Produce
    <3>3. task'[t].pc = "produce" /\ task'[t].sock = s /\ task'[t].entry = 0 /\ task'[t].via = x
      BY <3>1, <3>2 DEF Handler
    <3>4. QED
      <4>0. \A u \in Tasks : task'[u].entry \in 0 .. Len(router)
        <5>1. task'[t].entry \in 0 .. Len(router)
          BY <1>a, <3>3
        <5>2. \A u \in Tasks \ {t} : task'[u].entry \in 0 .. Len(router)
          BY <1>n, <3>2
        <5>3. QED
          BY <5>1, <5>2
      <4>1. TypeOK'
        BY <2>3, <3>2, <3>3, <4>0 DEF Produce, TypeOK, media, pool, history
      <4>2. LocalsOK'
        BY <2>3, <3>2, <3>3 DEF Produce, LocalsOK
      <4>3. QED
        BY <4>1, <4>2
  <2>4. ASSUME NEW x \in Transports, NEW p \in Producers, Consume(t, s, x, p) PROVE Typed'
    <3> DEFINE loc == [IdleTask EXCEPT !.via = x, !.of = p]
    <3>1. loc \in Handler /\ loc.entry = 0 /\ loc.via = x /\ loc.of = p
      BY IdleTyped DEF Handler, IdleTask
    <3>2. /\ task' \in [Tasks -> Handler] /\ \A u \in Tasks \ {t} : task'[u] = task[u]
          /\ task'[t] = [loc EXCEPT !.pc = "consume", !.sock = s]
      BY <2>4, <2>b, <3>1 DEF Consume
    <3>3. /\ task'[t].pc = "consume" /\ task'[t].sock = s /\ task'[t].entry = 0
          /\ task'[t].via = x /\ task'[t].of = p
      BY <3>1, <3>2 DEF Handler
    <3>4. QED
      <4>0. \A u \in Tasks : task'[u].entry \in 0 .. Len(router)
        <5>1. task'[t].entry \in 0 .. Len(router)
          BY <1>a, <3>3
        <5>2. \A u \in Tasks \ {t} : task'[u].entry \in 0 .. Len(router)
          BY <1>n, <3>2
        <5>3. QED
          BY <5>1, <5>2
      <4>1. TypeOK'
        BY <2>4, <3>2, <3>3, <4>0 DEF Consume, TypeOK, media, pool, history
      <4>2. LocalsOK'
        BY <2>4, <3>2, <3>3 DEF Consume, LocalsOK
      <4>3. QED
        BY <4>1, <4>2
  <2>5. ASSUME Disconnect(t, s) PROVE Typed'
    <3>1. /\ task' \in [Tasks -> Handler] /\ \A u \in Tasks \ {t} : task'[u] = task[u]
          /\ task'[t] = [IdleTask EXCEPT !.pc = "leaving", !.sock = s]
      BY <2>5, <2>b, IdleTyped DEF Disconnect
    <3>2. task'[t].pc = "leaving" /\ task'[t].sock = s /\ task'[t].entry = 0
      BY <3>1, IdleTyped DEF Handler, IdleTask
    <3>3. conn' \in [Sockets -> {"open", "closing", "gone"}]
      BY <2>5 DEF Disconnect, TypeOK
    <3>4. QED
      <4>0. \A u \in Tasks : task'[u].entry \in 0 .. Len(router)
        <5>1. task'[t].entry \in 0 .. Len(router)
          BY <1>a, <3>2
        <5>2. \A u \in Tasks \ {t} : task'[u].entry \in 0 .. Len(router)
          BY <1>n, <3>1
        <5>3. QED
          BY <5>1, <5>2
      <4>1. TypeOK'
        BY <2>5, <3>1, <3>2, <3>3, <4>0 DEF Disconnect, TypeOK, media, pool, history
      <4>2. LocalsOK'
        BY <2>5, <3>1, <3>2, <3>3 DEF Disconnect, LocalsOK
      <4>3. QED
        BY <4>1, <4>2
  <2>6. QED
    BY <1>14, <2>1, <2>2, <2>3, <2>4, <2>5 DEF Request
<1>15. ASSUME UNCHANGED vars PROVE Typed'
  BY <1>15 DEF vars, TypeOK, LocalsOK
<1>16. QED
  BY <1>1, <1>2, <1>3, <1>4, <1>5, <1>6, <1>7, <1>8, <1>9, <1>10, <1>11, <1>12, <1>13, <1>14,
     <1>15 DEF Next, Step

\* The service's maps and the handlers' locals keep their types, and never name a
\* room object that does not exist (sfu.service.ts 37-46).
THEOREM RoomsTypeCorrect == Spec => []TypeOK
<1>1. Typed => TypeOK
  BY DEF Typed
<1>2. QED
  BY <1>1, InitTyped, StepTyped, PTL DEF Spec

----------------------------------------------------------------------------
(* Participants and transports.                                            *)

\* ParticipantsHaveTransports, element by element.
Accounted ==
    \A e \in DOMAIN router :
        /\ \A s \in router[e].participants : \E x \in Listed(e) : transport[x].owner = s
        /\ \A x \in Listed(e) : transport[x].owner \in router[e].participants

\* The two forms say the same.
LEMMA AccountedIff == Accounted <=> ParticipantsHaveTransports
  BY DEF Accounted, ParticipantsHaveTransports

\* A step that leaves the transports' places and the participants alone.
LEMMA AccountedKept ==
    ASSUME Accounted, DOMAIN router' = DOMAIN router,
           \A e \in DOMAIN router : router'[e].participants = router[e].participants,
           \A e \in DOMAIN router : Listed(e)' = Listed(e),
           \A x \in Transports : transport[x] # None => transport'[x].owner = transport[x].owner
    PROVE  Accounted'
<1>1. \A e \in DOMAIN router : \A x \in Listed(e) : transport'[x].owner = transport[x].owner
  BY DEF Listed
<1>2. QED
  BY <1>1 DEF Accounted

\* Every step keeps participants and transports in step.
LEMMA StepAccounted == Typed /\ Accounted /\ [Next]_vars => Accounted'
<1> SUFFICES ASSUME Typed, Accounted, [Next]_vars PROVE Accounted'
  OBVIOUS
<1>a. /\ DOMAIN router = 1 .. Len(router) /\ Len(router) \in Nat /\ router \in Seq(RoomObject)
      /\ \A x \in Transports : transport[x] # None =>
            transport[x] \in Transport /\ transport[x].entry \in DOMAIN router
  BY DEF Typed, TypeOK
<1>o. \A e \in DOMAIN router : router[e] \in RoomObject
  BY <1>a, ElementOfSeq
<1>u. ASSUME UNCHANGED <<router, transport>> PROVE Accounted'
  <2>1. \A e : Listed(e)' = Listed(e)
    BY <1>u DEF Listed
  <2>2. QED
    BY <1>u, <2>1, AccountedKept
<1>1. ASSUME NEW i \in Slots, WorkerDies(i) PROVE Accounted'
  <2>1. DOMAIN router' = DOMAIN router
        /\ \A e \in DOMAIN router : router'[e].participants = router[e].participants
    BY <1>1, <1>o DEF WorkerDies, RoomObject
  <2>2. \A x \in Transports : \/ transport'[x] = transport[x]
                              \/ /\ Open(x)
                                 /\ transport'[x] = [transport[x] EXCEPT !.state = "closed"]
    BY <1>1 DEF WorkerDies, CloseTransports
  <2>3. \A x \in Transports :
           /\ (transport'[x] = None) <=> (transport[x] = None)
           /\ transport[x] # None =>
                 /\ transport'[x].owner = transport[x].owner
                 /\ transport'[x].entry = transport[x].entry
                 /\ (transport'[x].state = "removed") <=> (transport[x].state = "removed")
    <3> SUFFICES ASSUME NEW x \in Transports
                 PROVE  /\ (transport'[x] = None) <=> (transport[x] = None)
                        /\ transport[x] # None =>
                              /\ transport'[x].owner = transport[x].owner
                              /\ transport'[x].entry = transport[x].entry
                              /\ (transport'[x].state = "removed") <=> (transport[x].state = "removed")
      OBVIOUS
    <3>1. CASE transport'[x] = transport[x]
      BY <3>1
    <3>2. CASE Open(x) /\ transport'[x] = [transport[x] EXCEPT !.state = "closed"]
      <4>1. transport[x] \in Transport /\ transport[x].state = "open"
        BY <1>a, <3>2 DEF Open
      <4>2. transport'[x] \in Transport
        BY <3>2, <4>1 DEF Transport
      <4>3. QED
        BY <3>2, <4>1, <4>2, NoneIsNoRecord DEF Transport
    <3>3. QED
      BY <2>2, <3>1, <3>2
  <2>4. \A e \in DOMAIN router : Listed(e)' = Listed(e)
    BY <2>3 DEF Listed
  <2>5. QED
    BY <2>1, <2>3, <2>4, AccountedKept
<1>2. ASSUME NEW t \in Tasks, RoomCreated(t) PROVE Accounted'
  <2> DEFINE n == Len(router) + 1
  <2>1. /\ DOMAIN router' = DOMAIN router \cup {n} /\ n \notin DOMAIN router
        /\ \A e \in DOMAIN router : router'[e] = router[e]
        /\ router'[n].participants = {}
    BY <1>2, <1>a DEF RoomCreated
  <2>2. \A e : Listed(e)' = Listed(e)
    BY <1>2 DEF RoomCreated, media, Listed
  <2>3. Listed(n) = {}
    BY <1>a, <2>1 DEF Listed
  <2>4. transport' = transport
    BY <1>2 DEF RoomCreated, media
  <2>5. QED
    BY <2>1, <2>2, <2>3, <2>4 DEF Accounted
<1>3. ASSUME NEW t \in Tasks, NEW x \in Transports, TransportCreated(t, x) PROVE Accounted'
  <2> DEFINE s == task[t].sock
             e == task[t].entry
  <2>1. s \in Sockets /\ e \in DOMAIN router /\ transport[x] = None
    BY <1>3 DEF TransportCreated, Typed, LocalsOK
  <2>2. /\ DOMAIN router' = DOMAIN router
        /\ \A d \in DOMAIN router : router'[d].participants =
              IF d = e THEN router[d].participants \cup {s} ELSE router[d].participants
    BY <1>3, <1>o, <2>1 DEF TransportCreated, RoomObject
  <2>3. /\ transport'[x] = [owner |-> s, entry |-> e, state |-> "open"]
        /\ \A y \in Transports \ {x} : transport'[y] = transport[y]
    BY <1>3 DEF TransportCreated, Typed, TypeOK
  <2>4. transport'[x] # None
    <3>1. [owner |-> s, entry |-> e, state |-> "open"] \in Transport
      BY <1>a, <2>1 DEF Transport
    <3>2. QED
      BY <2>3, <3>1, NoneIsNoRecord
  <2>5. transport'[x].owner = s /\ transport'[x].entry = e /\ transport'[x].state = "open"
    BY <2>3
  <2>6. \A d \in DOMAIN router : Listed(d)' = IF d = e THEN Listed(d) \cup {x} ELSE Listed(d)
    BY <2>1, <2>3, <2>4, <2>5 DEF Listed
  <2>7. \A d \in DOMAIN router : x \notin Listed(d) /\ Listed(d) \subseteq Transports
    BY <2>1 DEF Listed
  <2>8. \A d \in DOMAIN router : \A y \in Listed(d) : y # x /\ transport'[y] = transport[y]
    BY <2>3, <2>7
  <2>9. ASSUME NEW d \in DOMAIN router
        PROVE  /\ \A u \in router'[d].participants : \E y \in Listed(d)' : transport'[y].owner = u
               /\ \A y \in Listed(d)' : transport'[y].owner \in router'[d].participants
    <3>1. /\ \A u \in router[d].participants : \E y \in Listed(d) : transport[y].owner = u
          /\ \A y \in Listed(d) : transport[y].owner \in router[d].participants
      BY DEF Accounted
    <3>2. CASE d = e
      <4>1. router'[d].participants = router[d].participants \cup {s} /\ Listed(d)' = Listed(d) \cup {x}
        BY <2>2, <2>6, <3>2
      <4>2. QED
        BY <2>5, <2>8, <3>1, <4>1
    <3>3. CASE d # e
      <4>1. router'[d].participants = router[d].participants /\ Listed(d)' = Listed(d)
        BY <2>2, <2>6, <3>3
      <4>2. QED
        BY <2>8, <3>1, <4>1
    <3>4. QED
      BY <3>2, <3>3
  <2>10. QED
    BY <2>2, <2>9 DEF Accounted
<1>4. ASSUME NEW t \in Tasks, NEW s \in Sockets, NEW r \in RoomIds, NEW e \in DOMAIN router,
             RemoveParticipant(t, s, r, e)
      PROVE  Accounted'
  <2> DEFINE left == router[e].participants \ {s}
  <2>0. Leave(t, s, r, e, left, left = {})
    BY <1>4 DEF RemoveParticipant
  <2>1. /\ DOMAIN router' = DOMAIN router
        /\ \A d \in DOMAIN router : router'[d].participants =
              IF d = e THEN left ELSE router[d].participants
    BY <2>0, <1>o DEF Leave, RoomObject
  <2>2. \A x \in Transports : transport'[x] =
           IF x \in Listed(e) /\ transport[x].owner = s
           THEN [transport[x] EXCEPT !.state = "removed"]
           ELSE IF left = {} THEN CloseTransports({e})[x] ELSE transport[x]
    BY <2>0 DEF Leave
  <2>3. \A x \in Transports : CloseTransports({e})[x] =
           IF Open(x) /\ transport[x].entry \in {e}
           THEN [transport[x] EXCEPT !.state = "closed"] ELSE transport[x]
    BY DEF CloseTransports
  <2>4. ASSUME NEW x \in Transports, transport[x] # None
        PROVE  /\ transport'[x] # None
               /\ transport'[x].owner = transport[x].owner
               /\ transport'[x].entry = transport[x].entry
               /\ (transport'[x].state = "removed") <=>
                     (transport[x].state = "removed" \/ (x \in Listed(e) /\ transport[x].owner = s))
    <3>1. transport[x] \in Transport
      BY <1>a, <2>4
    <3>2. CASE x \in Listed(e) /\ transport[x].owner = s
      <4>1. transport'[x] = [transport[x] EXCEPT !.state = "removed"]
        BY <2>2, <3>2
      <4>2. QED
        BY <3>1, <3>2, <4>1, NoneIsNoRecord DEF Transport
    <3>3. CASE ~(x \in Listed(e) /\ transport[x].owner = s)
      <4>1. \/ transport'[x] = transport[x]
            \/ Open(x) /\ transport'[x] = [transport[x] EXCEPT !.state = "closed"]
        <5>1. CASE left = {}
          BY <2>2, <2>3, <3>3, <5>1
        <5>2. CASE left # {}
          BY <2>2, <3>3, <5>2
        <5>3. QED
          BY <5>1, <5>2
      <4>2. CASE transport'[x] = transport[x]
        BY <2>4, <3>3, <4>2
      <4>3. CASE Open(x) /\ transport'[x] = [transport[x] EXCEPT !.state = "closed"]
        BY <3>1, <3>3, <4>3, NoneIsNoRecord DEF Transport, Open
      <4>4. QED
        BY <4>1, <4>2, <4>3
    <3>4. QED
      BY <3>2, <3>3
  <2>5. ASSUME NEW x \in Transports, transport[x] = None PROVE transport'[x] = None
    BY <2>2, <2>3, <2>5 DEF Listed, Open
  <2>6. \A d \in DOMAIN router : \A x \in Transports :
           x \in Listed(d)' <=> x \in Listed(d) /\ ~(d = e /\ transport[x].owner = s)
    BY <2>4, <2>5 DEF Listed
  <2>7. \A d \in DOMAIN router : \A x \in Listed(d) : transport'[x].owner = transport[x].owner
    BY <2>4 DEF Listed
  <2>8. \A d \in DOMAIN router : Listed(d) \subseteq Transports /\ Listed(d)' \subseteq Transports
    BY DEF Listed
  <2>9. QED
    BY <2>1, <2>6, <2>7, <2>8 DEF Accounted
<1>5. ASSUME NEW t \in Tasks, NEW s \in Sockets, Request(t, s) PROVE Accounted'
  <2>1. UNCHANGED <<router, transport>>
    BY <1>5 DEF Request, JoinNew, CreateTransport, Produce, Consume, Disconnect, media
  <2>2. QED
    BY <1>u, <2>1
<1>6. ASSUME NEW t \in Tasks, EnterRoom(t) \/ Rejected(t) \/ LeaveFails(t) \/ LeaveNoRoom(t)
      PROVE  Accounted'
  BY <1>6, <1>u DEF EnterRoom, Rejected, LeaveFails, LeaveNoRoom, media
<1>7. ASSUME NEW t \in Tasks, \/ \E p \in Producers : Produced(t, p)
                              \/ \E c \in Consumers : Consumed(t, c)
      PROVE  Accounted'
  BY <1>7, <1>u DEF Produced, Consumed
<1>8. ASSUME \/ \E i \in Slots : ReplaceWorker(i)
             \/ \E s \in Sockets, r \in RoomIds : JoinExisting(s, r)
             \/ \E s \in Sockets, c \in Consumers : ResumeConsumer(s, c)
      PROVE  Accounted'
  BY <1>8, <1>u DEF ReplaceWorker, JoinExisting, ResumeConsumer, media
<1>9. ASSUME UNCHANGED vars PROVE Accounted'
  BY <1>9, <1>u DEF vars
<1>10. QED
  BY <1>1, <1>2, <1>3, <1>4, <1>5, <1>6, <1>7, <1>8, <1>9 DEF Next, Step

\* The set that decides when a room is closed and the map of what is closed with a
\* peer never drift apart (sfu.service.ts 176-177 and 280-288).
THEOREM RoomsKeepAccounts == Spec => []ParticipantsHaveTransports
<1>1. Init => Accounted
  BY DEF Init, Accounted
<1>2. Typed /\ Accounted /\ [Next]_vars => (Typed /\ Accounted)'
  BY StepTyped, StepAccounted
<1>3. QED
  BY <1>1, <1>2, InitTyped, AccountedIff, PTL DEF Spec

----------------------------------------------------------------------------
(* Whose leaving closes a transport.                                       *)

\* The step of OnlyOwnLeaveCloses.
ClosedByOwner ==
    \A x \in Transports : Open(x) /\ transport'[x].state # "open" =>
        \/ conn[transport[x].owner] = "closing" /\ conn'[transport[x].owner] = "gone"
        \/ workers' # workers

\* A handler in handleDisconnect belongs to a socket that is closing.
LeaversClosing == \A t \in Tasks : task[t].pc = "leaving" => conn[task[t].sock] = "closing"

\* One handleDisconnect runs per socket.
OneLeaver ==
    \A t, u \in Tasks :
        task[t].pc = "leaving" /\ task[u].pc = "leaving" /\ task[t].sock = task[u].sock => t = u

Leavers == LeaversClosing /\ OneLeaver

\* A step that makes no handler a leaving one and changes no socket's connection.
LEMMA LeaversKept ==
    ASSUME Leavers, conn' = conn,
           \A u \in Tasks : task'[u] = task[u] \/ task'[u].pc # "leaving"
    PROVE  Leavers'
  BY DEF Leavers, LeaversClosing, OneLeaver

\* A leaving handler ends, and its socket is gone.
LEMMA LeaverEnds ==
    ASSUME Typed, Leavers, NEW t \in Tasks, task[t].pc = "leaving", End(t),
           conn' = [conn EXCEPT ![task[t].sock] = "gone"]
    PROVE  Leavers'
<1>1. \A u \in Tasks : task'[u].pc = "leaving" => u # t /\ task'[u] = task[u]
  BY EndTyped, IdleTyped
<1>2. \A u \in Tasks \ {t} : task[u].pc = "leaving" => task[u].sock # task[t].sock
  BY DEF Leavers, OneLeaver
<1>3. \A u \in Tasks : task[u].pc = "leaving" => task[u].sock \in Sockets
  BY DEF Typed, LocalsOK
<1>4. conn \in [Sockets -> {"open", "closing", "gone"}]
  BY DEF Typed, TypeOK
<1>5. LeaversClosing'
  BY <1>1, <1>2, <1>3, <1>4 DEF Leavers, LeaversClosing
<1>6. OneLeaver'
  BY <1>1 DEF Leavers, OneLeaver
<1>7. QED
  BY <1>5, <1>6 DEF Leavers

\* Every step keeps one handleDisconnect per closing socket.
LEMMA StepLeavers == Typed /\ Leavers /\ [Next]_vars => Leavers'
<1> SUFFICES ASSUME Typed, Leavers, [Next]_vars PROVE Leavers'
  OBVIOUS
<1>t. task \in [Tasks -> Handler]
  BY DEF Typed, TypeOK
<1>1. ASSUME conn' = conn, task' = task PROVE Leavers'
  BY <1>1, LeaversKept
<1>2. ASSUME NEW t \in Tasks, conn' = conn, End(t) PROVE Leavers'
  BY <1>2, LeaversKept, EndTyped, IdleTyped
<1>3. ASSUME NEW t \in Tasks, RoomCreated(t) PROVE Leavers'
  <2>1. conn' = conn /\ \A u \in Tasks : task'[u] = task[u] \/ task'[u].pc # "leaving"
    BY <1>3, <1>t DEF RoomCreated, Handler
  <2>2. QED
    BY <2>1, LeaversKept
<1>4. ASSUME NEW t \in Tasks, NEW s \in Sockets, NEW loc \in Handler,
             NEW pc \in {"creating", "transport", "produce", "consume"},
             conn' = conn, Begin(t, pc, s, loc)
      PROVE  Leavers'
  <2>1. \A u \in Tasks : task'[u] = task[u] \/ task'[u].pc # "leaving"
    BY <1>4, <1>t DEF Begin, Handler
  <2>2. QED
    BY <1>4, <2>1, LeaversKept
<1>5. ASSUME NEW t \in Tasks, NEW s \in Sockets, Request(t, s) PROVE Leavers'
  <2>1. ASSUME NEW r \in RoomIds, JoinNew(t, s, r) PROVE Leavers'
    <3>1. [IdleTask EXCEPT !.room = r, !.worker = <<workerIndex, workers[workerIndex].refills>>]
             \in Handler
      <4>1. <<workerIndex, workers[workerIndex].refills>> \in Worker
        BY DEF Typed, TypeOK, Worker
      <4>2. QED
        BY <4>1, IdleTyped DEF Handler, IdleTask
    <3>2. QED
      BY <2>1, <1>4, <3>1 DEF JoinNew
  <2>2. ASSUME CreateTransport(t, s) PROVE Leavers'
    <3>1. rooms[roomOf[s]] \in Nat
      BY <2>2 DEF CreateTransport, Typed, TypeOK
    <3>2. [IdleTask EXCEPT !.entry = rooms[roomOf[s]]] \in Handler
      BY <3>1, IdleTyped DEF Handler, IdleTask
    <3>3. QED
      BY <2>2, <1>4, <3>2 DEF CreateTransport
  <2>3. ASSUME NEW x \in Transports, Produce(t, s, x) PROVE Leavers'
    <3>1. [IdleTask EXCEPT !.via = x] \in Handler
      BY IdleTyped DEF Handler, IdleTask
    <3>2. QED
      BY <2>3, <1>4, <3>1 DEF Produce
  <2>4. ASSUME NEW x \in Transports, NEW p \in Producers, Consume(t, s, x, p) PROVE Leavers'
    <3>1. [IdleTask EXCEPT !.via = x, !.of = p] \in Handler
      BY IdleTyped DEF Handler, IdleTask
    <3>2. QED
      BY <2>4, <1>4, <3>1 DEF Consume
  <2>5. ASSUME Disconnect(t, s) PROVE Leavers'
    <3>1. conn[s] = "open" /\ conn' = [conn EXCEPT ![s] = "closing"]
          /\ conn \in [Sockets -> {"open", "closing", "gone"}]
      BY <2>5 DEF Disconnect, Typed, TypeOK
    <3>2. task'[t].sock = s /\ \A u \in Tasks \ {t} : task'[u] = task[u]
      BY <2>5, <1>t, IdleTyped DEF Disconnect, Begin, Handler, IdleTask
    <3>3. \A u \in Tasks : task[u].pc = "leaving" => task[u].sock \in Sockets /\ task[u].sock # s
      BY <3>1 DEF Leavers, LeaversClosing, Typed, LocalsOK
    <3>4. LeaversClosing'
      BY <3>1, <3>2, <3>3 DEF Leavers, LeaversClosing
    <3>5. OneLeaver'
      BY <3>2, <3>3 DEF Leavers, OneLeaver
    <3>6. QED
      BY <3>4, <3>5 DEF Leavers
  <2>6. QED
    BY <1>5, <2>1, <2>2, <2>3, <2>4, <2>5 DEF Request
<1>6. ASSUME NEW t \in Tasks, \/ EnterRoom(t) \/ Rejected(t)
                              \/ \E x \in Transports : TransportCreated(t, x)
                              \/ \E p \in Producers : Produced(t, p)
                              \/ \E c \in Consumers : Consumed(t, c)
      PROVE  Leavers'
  <2>1. conn' = conn /\ End(t)
    BY <1>6 DEF EnterRoom, Rejected, TransportCreated, Produced, Consumed
  <2>2. QED
    BY <1>2, <2>1
<1>7. ASSUME NEW t \in Tasks, \/ LeaveFails(t) \/ LeaveNoRoom(t)
                              \/ \E s \in Sockets, r \in RoomIds, e \in DOMAIN router :
                                    RemoveParticipant(t, s, r, e)
      PROVE  Leavers'
  <2>1. task[t].pc = "leaving" /\ End(t) /\ conn' = [conn EXCEPT ![task[t].sock] = "gone"]
    BY <1>7 DEF LeaveFails, LeaveNoRoom, RemoveParticipant, Leave
  <2>2. QED
    BY <2>1, LeaverEnds
<1>8. ASSUME \/ \E i \in Slots : WorkerDies(i) \/ ReplaceWorker(i)
             \/ \E s \in Sockets, r \in RoomIds : JoinExisting(s, r)
             \/ \E s \in Sockets, c \in Consumers : ResumeConsumer(s, c)
             \/ UNCHANGED vars
      PROVE  Leavers'
  BY <1>1, <1>8 DEF WorkerDies, ReplaceWorker, JoinExisting, ResumeConsumer, vars
<1>9. QED
  BY <1>3, <1>5, <1>6, <1>7, <1>8 DEF Next, Step

\* Only a worker's death and the owner's own leaving close a transport: a router is
\* closed by removeParticipant only when it has no participants, hence no transports.
LEMMA StepClosedByOwner == Typed /\ Accounted /\ Leavers /\ [Next]_vars => ClosedByOwner
<1> SUFFICES ASSUME Typed, Accounted, Leavers, [Next]_vars,
                    NEW x \in Transports, Open(x), transport'[x].state # "open"
             PROVE  \/ conn[transport[x].owner] = "closing" /\ conn'[transport[x].owner] = "gone"
                    \/ workers' # workers
  BY DEF ClosedByOwner
<1>o. transport[x] # None /\ transport[x].state = "open" /\ transport[x] \in Transport
  BY DEF Open, Typed, TypeOK
<1>u. transport' # transport
  BY <1>o
<1>1. ASSUME NEW i \in Slots, WorkerDies(i) PROVE workers' # workers
  <2>1. workers[i].alive /\ workers' = [workers EXCEPT ![i].alive = FALSE]
        /\ workers \in [Slots -> [alive : BOOLEAN, refills : Nat]]
    BY <1>1 DEF WorkerDies, Typed, TypeOK
  <2>2. workers'[i].alive = FALSE
    BY <2>1
  <2>3. QED
    BY <2>1, <2>2
<1>2. ASSUME NEW t \in Tasks, NEW y \in Transports, TransportCreated(t, y) PROVE FALSE
  <2>1. x # y
    BY <1>2, <1>o DEF TransportCreated
  <2>2. transport'[x] = transport[x]
    BY <1>2, <2>1 DEF TransportCreated, Typed, TypeOK
  <2>3. QED
    BY <2>2, <1>o
<1>3. ASSUME NEW t \in Tasks, NEW s \in Sockets, NEW r \in RoomIds, NEW e \in DOMAIN router,
             RemoveParticipant(t, s, r, e)
      PROVE  conn[transport[x].owner] = "closing" /\ conn'[transport[x].owner] = "gone"
  <2> DEFINE left == router[e].participants \ {s}
  <2>0. Leave(t, s, r, e, left, left = {})
    BY <1>3 DEF RemoveParticipant
  <2>1. transport'[x] = IF x \in Listed(e) /\ transport[x].owner = s
                        THEN [transport[x] EXCEPT !.state = "removed"]
                        ELSE IF left = {} THEN CloseTransports({e})[x] ELSE transport[x]
    BY <2>0 DEF Leave
  <2>2. CloseTransports({e})[x] = IF Open(x) /\ transport[x].entry \in {e}
                                  THEN [transport[x] EXCEPT !.state = "closed"] ELSE transport[x]
    BY DEF CloseTransports
  <2>3. transport[x].owner = s
    <3>1. SUFFICES ASSUME transport[x].owner # s PROVE FALSE
      OBVIOUS
    <3>2. left = {} /\ transport[x].entry = e
      BY <1>o, <2>1, <2>2, <3>1
    <3>3. x \in Listed(e)
      BY <1>o, <3>2 DEF Listed
    <3>4. transport[x].owner \in router[e].participants
      BY <3>3 DEF Accounted
    <3>5. QED
      BY <3>1, <3>2, <3>4
  <2>4. conn[s] = "closing" /\ conn' = [conn EXCEPT ![s] = "gone"]
    BY <2>0 DEF Leave, Leavers, LeaversClosing
  <2>5. conn'[s] = "gone"
    BY <2>4 DEF Typed, TypeOK
  <2>6. QED
    BY <2>3, <2>4, <2>5
<1>4. ASSUME NEW t \in Tasks, NEW s \in Sockets, Request(t, s) PROVE FALSE
  BY <1>4, <1>u DEF Request, JoinNew, CreateTransport, Produce, Consume, Disconnect, media
<1>5. ASSUME NEW t \in Tasks, \/ RoomCreated(t) \/ EnterRoom(t) \/ Rejected(t)
                              \/ LeaveFails(t) \/ LeaveNoRoom(t)
                              \/ \E p \in Producers : Produced(t, p)
                              \/ \E c \in Consumers : Consumed(t, c)
      PROVE  FALSE
  BY <1>5, <1>u DEF RoomCreated, EnterRoom, Rejected, LeaveFails, LeaveNoRoom, Produced,
     Consumed,
                    media
<1>6. ASSUME \/ \E i \in Slots : ReplaceWorker(i)
             \/ \E s \in Sockets, r \in RoomIds : JoinExisting(s, r)
             \/ \E s \in Sockets, c \in Consumers : ResumeConsumer(s, c)
             \/ UNCHANGED vars
      PROVE  FALSE
  BY <1>6, <1>u DEF ReplaceWorker, JoinExisting, ResumeConsumer, media, vars
<1>7. QED
  BY <1>1, <1>2, <1>3, <1>4, <1>5, <1>6 DEF Next, Step

\* Nobody's media is cut off by somebody else's leaving (sfu.service.ts 276-294).
THEOREM NobodyCutOff == Spec => OnlyOwnLeaveCloses
<1>1. Init => Leavers
  BY IdleTyped DEF Init, Leavers, LeaversClosing, OneLeaver
<1>2. Init => Accounted
  BY DEF Init, Accounted
<1>3. Typed /\ Accounted /\ Leavers /\ [Next]_vars => (Typed /\ Accounted /\ Leavers)'
  BY StepTyped, StepAccounted, StepLeavers
<1>4. Typed /\ Accounted /\ Leavers /\ [Next]_vars => [ClosedByOwner]_vars
  BY StepClosedByOwner
<1>5. Spec => [][ClosedByOwner]_vars
  BY <1>1, <1>2, <1>3, <1>4, InitTyped, PTL DEF Spec
<1>6. QED
  BY <1>5 DEF OnlyOwnLeaveCloses, ClosedByOwner

----------------------------------------------------------------------------
(* Routers and the map of rooms.                                           *)

\* The map files a room object under its own room.
Keys == \A r \in RoomIds : rooms[r] # 0 => router[rooms[r]].room = r

\* A router's worker was in its slot: a replacement never has the name of a worker
\* that has a router already.
Vintage == \A e \in DOMAIN router : router[e].worker[2] <= workers[router[e].worker[1]].refills

Mapped == Keys /\ Vintage /\ RoutersAreMapped

\* What Typed says of the room objects and of the map.
LEMMA RouterFacts ==
    ASSUME Typed
    PROVE  /\ DOMAIN router = 1 .. Len(router) /\ Len(router) \in Nat
           /\ \A e \in DOMAIN router :
                 /\ router[e] \in RoomObject /\ router[e].room \in RoomIds
                 /\ router[e].worker \in Worker /\ router[e].open \in BOOLEAN
           /\ rooms \in [RoomIds -> 0 .. Len(router)]
           /\ \A r \in RoomIds : rooms[r] # 0 => rooms[r] \in DOMAIN router
<1>1. DOMAIN router = 1 .. Len(router) /\ Len(router) \in Nat /\ router \in Seq(RoomObject)
  BY DEF Typed, TypeOK
<1>2. \A e \in DOMAIN router : router[e] \in RoomObject
  BY <1>1, ElementOfSeq
<1>3. \A e \in DOMAIN router : /\ router[e].room \in RoomIds
                               /\ router[e].worker \in Worker /\ router[e].open \in BOOLEAN
  BY <1>2 DEF RoomObject
<1>4. rooms \in [RoomIds -> 0 .. Len(router)]
  BY DEF Typed, TypeOK
<1>5. QED
  BY <1>1, <1>2, <1>3, <1>4

\* The room objects after a worker's death, a creation, a new transport, a leaving.
LEMMA RouterAtDeath ==
    ASSUME Typed, NEW i \in Slots, WorkerDies(i)
    PROVE  /\ DOMAIN router' = DOMAIN router
           /\ \A e \in DOMAIN router :
                 /\ router'[e].room = router[e].room /\ router'[e].worker = router[e].worker
                 /\ router'[e].participants = router[e].participants
                 /\ router'[e].open <=> /\ router[e].open
                                        /\ router[e].worker # <<i, workers[i].refills>>
<1>1. /\ DOMAIN router' = DOMAIN router
      /\ \A e \in DOMAIN router : router'[e] =
            IF router[e].worker = <<i, workers[i].refills>>
            THEN [router[e] EXCEPT !.open = FALSE] ELSE router[e]
  BY DEF WorkerDies
<1>2. QED
  BY <1>1, RouterFacts DEF RoomObject

\* The room objects and the map after createRoom has made room object n for room r.
CreatedAs(t, r, n) ==
    /\ r = task[t].room /\ n = Len(router) + 1
    /\ n # 0 /\ n \notin DOMAIN router /\ DOMAIN router' = DOMAIN router \cup {n}
    /\ \A e \in DOMAIN router : router'[e] = router[e]
    /\ router'[n].room = r /\ router'[n].worker = task[t].worker
    /\ router'[n].open /\ router'[n].participants = {}
    /\ rooms'[r] = n /\ \A q \in RoomIds \ {r} : rooms'[q] = rooms[q]
    /\ overwritten' = IF rooms[r] = 0 THEN overwritten ELSE overwritten \cup {rooms[r]}

LEMMA RouterCreated ==
    ASSUME Typed, NEW t \in Tasks, RoomCreated(t)
    PROVE  \E r \in RoomIds, n \in Nat : CreatedAs(t, r, n)
<1>1. task[t].room \in RoomIds
  BY DEF RoomCreated, Typed, LocalsOK
<1> DEFINE n == Len(router) + 1
           new == [room |-> task[t].room, worker |-> task[t].worker,
                   open |-> TRUE, participants |-> {}]
<1>2. DOMAIN router = 1 .. Len(router) /\ Len(router) \in Nat /\ rooms \in [RoomIds -> 0 .. Len(router)]
  BY RouterFacts
<1>3. router' = Append(router, new)
  BY DEF RoomCreated
<1>4. n \in Nat /\ n # 0 /\ n \notin DOMAIN router
  BY <1>2
<1>5. /\ DOMAIN router' = DOMAIN router \cup {n} /\ router'[n] = new
      /\ \A e \in DOMAIN router : router'[e] = router[e]
  BY <1>2, <1>3
<1>6. /\ rooms'[task[t].room] = n /\ \A q \in RoomIds \ {task[t].room} : rooms'[q] = rooms[q]
      /\ overwritten' = IF rooms[task[t].room] = 0 THEN overwritten
                        ELSE overwritten \cup {rooms[task[t].room]}
  BY <1>1, <1>2 DEF RoomCreated
<1>7. /\ router'[n].room = task[t].room /\ router'[n].worker = task[t].worker
      /\ router'[n].open /\ router'[n].participants = {}
  BY <1>5
<1> WITNESS task[t].room \in RoomIds, n \in Nat
<1>8. QED
  BY <1>1, <1>4, <1>5, <1>6, <1>7 DEF CreatedAs

LEMMA RouterJoined ==
    ASSUME Typed, NEW t \in Tasks, NEW x \in Transports, TransportCreated(t, x)
    PROVE  /\ task[t].sock \in Sockets /\ task[t].entry \in DOMAIN router
           /\ DOMAIN router' = DOMAIN router
           /\ \A e \in DOMAIN router :
                 /\ router'[e].room = router[e].room /\ router'[e].worker = router[e].worker
                 /\ router'[e].open = router[e].open
                 /\ router'[e].participants =
                       IF e = task[t].entry THEN router[e].participants \cup {task[t].sock}
                       ELSE router[e].participants
<1>1. task[t].sock \in Sockets /\ task[t].entry \in DOMAIN router
  BY DEF TransportCreated, Typed, LocalsOK
<1>2. QED
  BY <1>1, RouterFacts DEF TransportCreated, RoomObject

\* They and the map after the peer s has left room object e, in which `left' remain.
LeftBy(s, r, e, left) ==
    /\ left = router[e].participants \ {s}
    /\ roomOf[s] = r /\ rooms[r] = e /\ e # 0
    /\ DOMAIN router' = DOMAIN router
    /\ \A d \in DOMAIN router :
          /\ router'[d].room = router[d].room /\ router'[d].worker = router[d].worker
          /\ router'[d].open <=> router[d].open /\ ~(d = e /\ left = {})
          /\ router'[d].participants = IF d = e THEN left ELSE router[d].participants
    /\ rooms'[r] = IF left = {} THEN 0 ELSE e
    /\ \A q \in RoomIds \ {r} : rooms'[q] = rooms[q]

LEMMA RouterLeft ==
    ASSUME Typed, NEW t \in Tasks, NEW s \in Sockets, NEW r \in RoomIds, NEW e \in DOMAIN router,
           RemoveParticipant(t, s, r, e)
    PROVE  \E left \in SUBSET Sockets : LeftBy(s, r, e, left)
<1>1. PICK left : left = router[e].participants \ {s}
  OBVIOUS
<1>2. Leave(t, s, r, e, left, left = {})
  BY <1>1 DEF RemoveParticipant
<1>3. left \in SUBSET Sockets
  BY <1>1, RouterFacts DEF RoomObject
<1>4. /\ rooms'[r] = IF left = {} THEN 0 ELSE e
      /\ \A q \in RoomIds \ {r} : rooms'[q] = rooms[q]
  BY <1>2, RouterFacts DEF Leave
<1>5. /\ DOMAIN router' = DOMAIN router
      /\ \A d \in DOMAIN router : router'[d] =
            IF d = e THEN [router[e] EXCEPT !.participants = left, !.open = @ /\ ~(left = {})]
            ELSE router[d]
  BY <1>2, RouterFacts DEF Leave, RoomObject
<1>6. \A d \in DOMAIN router :
         /\ router'[d].room = router[d].room /\ router'[d].worker = router[d].worker
         /\ router'[d].open <=> router[d].open /\ ~(d = e /\ left = {})
         /\ router'[d].participants = IF d = e THEN left ELSE router[d].participants
  <2> SUFFICES ASSUME NEW d \in DOMAIN router
               PROVE  /\ router'[d].room = router[d].room /\ router'[d].worker = router[d].worker
                      /\ router'[d].open <=> router[d].open /\ ~(d = e /\ left = {})
                      /\ router'[d].participants = IF d = e THEN left ELSE router[d].participants
    OBVIOUS
  <2>1. CASE d # e
    BY <1>5, <2>1
  <2>2. CASE d = e
    <3>1. PICK o \in RoomObject : o = router[e]
      BY RouterFacts
    <3>2. router'[e] = [o EXCEPT !.participants = left, !.open = @ /\ ~(left = {})]
      BY <1>5, <3>1
    <3>3. /\ router'[e].room = o.room /\ router'[e].worker = o.worker
          /\ router'[e].open = (o.open /\ ~(left = {})) /\ router'[e].participants = left
      BY <3>2 DEF RoomObject
    <3>4. QED
      BY <2>2, <3>1, <3>3
  <2>3. QED
    BY <2>1, <2>2
<1>7. QED
  BY <1>1, <1>2, <1>3, <1>4, <1>5, <1>6 DEF Leave, LeftBy

\* A step that leaves the room objects, the map and the workers alone.
LEMMA MappedKept ==
    ASSUME Mapped, UNCHANGED <<rooms, router, workers, overwritten>>
    PROVE  Mapped'
  BY DEF Mapped, Keys, Vintage, RoutersAreMapped, Alive

\* Every step keeps the map and the routers in step.
LEMMA StepMapped == Typed /\ Mapped /\ [Next]_vars => Mapped'
<1> SUFFICES ASSUME Typed, Mapped, [Next]_vars PROVE Mapped'
  OBVIOUS
<1>a. /\ \A e \in DOMAIN router : /\ router[e].room \in RoomIds /\ router[e].worker \in Worker
                                  /\ e \in Nat
      /\ \A r \in RoomIds : rooms[r] # 0 => rooms[r] \in DOMAIN router
  BY RouterFacts
<1>w. /\ workers \in [Slots -> [alive : BOOLEAN, refills : Nat]]
      /\ \A w \in Worker : w[1] \in Slots /\ w[2] \in Nat /\ w = <<w[1], w[2]>>
  BY DEF Typed, TypeOK, Worker
<1>k. Keys /\ Vintage /\ RoutersAreMapped
  BY DEF Mapped
<1>1. ASSUME NEW i \in Slots, WorkerDies(i) PROVE Mapped'
  <2>1. /\ UNCHANGED <<rooms, overwritten>> /\ DOMAIN router' = DOMAIN router
        /\ \A e \in DOMAIN router :
              /\ router'[e].room = router[e].room /\ router'[e].worker = router[e].worker
              /\ router'[e].open <=> router[e].open /\ router[e].worker # <<i, workers[i].refills>>
    BY <1>1, RouterAtDeath DEF WorkerDies, history
  <2>2. /\ ~workers'[i].alive /\ workers'[i].refills = workers[i].refills
        /\ \A j \in Slots \ {i} : workers'[j] = workers[j]
    BY <1>1, <1>w DEF WorkerDies
  <2>3. Keys'
    BY <1>a, <1>k, <2>1 DEF Keys
  <2>4. Vintage'
    BY <1>a, <1>k, <1>w, <2>1, <2>2 DEF Vintage
  <2>5. \A e \in DOMAIN router : Alive(router[e].worker)' => Alive(router[e].worker) /\ router[e].worker[1] # i
    BY <1>a, <1>w, <2>1, <2>2 DEF Alive
  <2>6. RoutersAreMapped'
    BY <1>k, <2>1, <2>5 DEF RoutersAreMapped
  <2>7. QED
    BY <2>3, <2>4, <2>6 DEF Mapped
<1>2. ASSUME NEW i \in Slots, ReplaceWorker(i) PROVE Mapped'
  <2>1. UNCHANGED <<rooms, router, overwritten>>
    BY <1>2 DEF ReplaceWorker, history
  <2>2. /\ workers'[i].refills = workers[i].refills + 1 /\ workers[i].refills \in Nat
        /\ \A j \in Slots \ {i} : workers'[j] = workers[j]
    BY <1>2, <1>w DEF ReplaceWorker
  <2>3. Keys'
    BY <1>k, <2>1 DEF Keys
  <2>4. Vintage'
    BY <1>a, <1>k, <1>w, <2>1, <2>2 DEF Vintage
  <2>5. \A e \in DOMAIN router : Alive(router[e].worker)' => Alive(router[e].worker)
    BY <1>a, <1>k, <1>w, <2>1, <2>2 DEF Alive, Vintage
  <2>6. RoutersAreMapped'
    BY <1>k, <2>1, <2>5 DEF RoutersAreMapped
  <2>7. QED
    BY <2>3, <2>4, <2>6 DEF Mapped
<1>3. ASSUME NEW t \in Tasks, RoomCreated(t) PROVE Mapped'
  <2>0. PICK r \in RoomIds, n \in Nat : CreatedAs(t, r, n)
    BY <1>3, RouterCreated
  <2>1. /\ n # 0 /\ n \notin DOMAIN router /\ DOMAIN router' = DOMAIN router \cup {n}
        /\ \A e \in DOMAIN router : router'[e] = router[e]
        /\ router'[n].room = r /\ router'[n].worker = task[t].worker /\ router'[n].open
        /\ rooms'[r] = n /\ \A q \in RoomIds \ {r} : rooms'[q] = rooms[q]
        /\ overwritten' = IF rooms[r] = 0 THEN overwritten ELSE overwritten \cup {rooms[r]}
    BY <2>0 DEF CreatedAs
  <2>2. UNCHANGED workers /\ Alive(task[t].worker) /\ task[t].worker \in Worker
    BY <1>3 DEF RoomCreated, pool, Typed, TypeOK, Handler
  <2>3. Keys'
    BY <1>a, <1>k, <2>1 DEF Keys
  <2>4. Vintage'
    BY <1>k, <1>w, <2>1, <2>2 DEF Vintage, Alive
  <2>5. \A e \in DOMAIN router' : router'[e].open =>
           rooms'[router'[e].room] = e \/ e \in overwritten'
    <3>1. ASSUME NEW e \in DOMAIN router, router[e].open
          PROVE  rooms'[router[e].room] = e \/ e \in overwritten'
      <4>1. rooms[router[e].room] = e \/ e \in overwritten
        BY <1>k, <3>1 DEF RoutersAreMapped
      <4>2. CASE router[e].room = r /\ rooms[r] = e
        BY <1>a, <2>1, <4>2, RouterFacts
      <4>3. CASE router[e].room # r
        BY <1>a, <2>1, <4>1, <4>3
      <4>4. CASE e \in overwritten
        BY <2>1, <4>4
      <4>5. QED
        BY <4>1, <4>2, <4>3, <4>4
    <3>2. QED
      BY <2>1, <3>1
  <2>6. \A e \in DOMAIN router' : rooms'[router'[e].room] = e =>
           router'[e].open \/ ~Alive(router[e].worker)
    BY <1>a, <1>k, <2>1 DEF RoutersAreMapped
  <2>7. RoutersAreMapped'
    BY <2>1, <2>2, <2>5, <2>6 DEF RoutersAreMapped, Alive
  <2>8. QED
    BY <2>3, <2>4, <2>7 DEF Mapped
<1>4. ASSUME NEW t \in Tasks, NEW x \in Transports, TransportCreated(t, x) PROVE Mapped'
  <2>1. /\ UNCHANGED <<rooms, workers, overwritten>> /\ DOMAIN router' = DOMAIN router
        /\ \A e \in DOMAIN router :
              /\ router'[e].room = router[e].room /\ router'[e].worker = router[e].worker
              /\ router'[e].open = router[e].open
    BY <1>4, RouterJoined DEF TransportCreated, pool
  <2>2. Keys' /\ Vintage'
    BY <1>a, <1>k, <2>1 DEF Keys, Vintage
  <2>3. RoutersAreMapped'
    BY <1>k, <2>1 DEF RoutersAreMapped, Alive
  <2>4. QED
    BY <2>2, <2>3 DEF Mapped
<1>5. ASSUME NEW t \in Tasks, NEW s \in Sockets, NEW r \in RoomIds, NEW e \in DOMAIN router,
             RemoveParticipant(t, s, r, e)
      PROVE  Mapped'
  <2>0. PICK left \in SUBSET Sockets : LeftBy(s, r, e, left)
    BY <1>5, RouterLeft
  <2>1. /\ rooms[r] = e /\ e # 0 /\ DOMAIN router' = DOMAIN router
        /\ \A d \in DOMAIN router :
              /\ router'[d].room = router[d].room /\ router'[d].worker = router[d].worker
              /\ router'[d].open <=> router[d].open /\ ~(d = e /\ left = {})
        /\ rooms'[r] = IF left = {} THEN 0 ELSE e
        /\ \A q \in RoomIds \ {r} : rooms'[q] = rooms[q]
    BY <2>0 DEF LeftBy
  <2>2. UNCHANGED <<workers, overwritten>>
    BY <1>5 DEF RemoveParticipant, Leave, pool, history
  <2>3. router[e].room = r
    BY <1>k, <2>1 DEF Keys
  <2>4. Keys'
    BY <1>a, <1>k, <2>1 DEF Keys
  <2>5. Vintage'
    BY <1>k, <2>1, <2>2 DEF Vintage
  <2>6. \A d \in DOMAIN router : router'[d].open =>
           rooms'[router[d].room] = d \/ d \in overwritten
    BY <1>a, <1>k, <2>1, <2>3 DEF RoutersAreMapped
  <2>7. \A d \in DOMAIN router : rooms'[router[d].room] = d =>
           router'[d].open \/ ~Alive(router[d].worker)
    <3> SUFFICES ASSUME NEW d \in DOMAIN router, rooms'[router[d].room] = d
                 PROVE  router'[d].open \/ ~Alive(router[d].worker)
      OBVIOUS
    <3>1. rooms[router[d].room] = d /\ ~(d = e /\ left = {})
      <4>1. d # 0 /\ router[d].room \in RoomIds
        BY <1>a, RouterFacts
      <4>2. CASE router[d].room = r
        BY <2>1, <2>3, <4>1, <4>2
      <4>3. CASE router[d].room # r
        BY <2>1, <2>3, <4>1, <4>3
      <4>4. QED
        BY <4>2, <4>3
    <3>2. QED
      BY <1>k, <2>1, <3>1 DEF RoutersAreMapped
  <2>8. RoutersAreMapped'
    BY <2>1, <2>2, <2>6, <2>7 DEF RoutersAreMapped, Alive
  <2>9. QED
    BY <2>4, <2>5, <2>8 DEF Mapped
<1>6. ASSUME NEW t \in Tasks, NEW s \in Sockets, Request(t, s) PROVE Mapped'
  BY <1>6, MappedKept DEF Request, JoinNew, CreateTransport, Produce, Consume, Disconnect, pool,
                          history
<1>7. ASSUME NEW t \in Tasks, \/ EnterRoom(t) \/ Rejected(t) \/ LeaveFails(t) \/ LeaveNoRoom(t)
                              \/ \E p \in Producers : Produced(t, p)
                              \/ \E c \in Consumers : Consumed(t, c)
      PROVE  Mapped'
  BY <1>7, MappedKept DEF EnterRoom, Rejected, LeaveFails, LeaveNoRoom, Produced, Consumed,
     pool,
                          history
<1>8. ASSUME \/ \E s \in Sockets, r \in RoomIds : JoinExisting(s, r)
             \/ \E s \in Sockets, c \in Consumers : ResumeConsumer(s, c)
             \/ UNCHANGED vars
      PROVE  Mapped'
  BY <1>8, MappedKept DEF JoinExisting, ResumeConsumer, pool, history, vars
<1>9. QED
  BY <1>1, <1>2, <1>3, <1>4, <1>5, <1>6, <1>7, <1>8 DEF Next, Step

\* No router is leaked but the ones that a concurrent createRoom replaced, and the map
\* holds no closed router but those of a dead worker (sfu.service.ts 118-133, 290-294).
THEOREM RoutersStayMapped == Spec => []RoutersAreMapped
<1>1. Init => Mapped
  BY DEF Init, Mapped, Keys, Vintage, RoutersAreMapped
<1>2. Typed /\ Mapped /\ [Next]_vars => (Typed /\ Mapped)'
  BY StepTyped, StepMapped
<1>3. Mapped => RoutersAreMapped
  BY DEF Mapped
<1>4. QED
  BY <1>1, <1>2, <1>3, InitTyped, PTL DEF Spec

----------------------------------------------------------------------------
(* The places of peers that are gone.                                      *)

\* A peer that is still there has a place only in its own room, or is known to have
\* one elsewhere.
Placed ==
    \A s \in Sockets : \A e \in DOMAIN router :
        s \in router[e].participants /\ conn[s] # "gone" =>
            roomOf[s] = router[e].room \/ <<s, router[e].room>> \in strays

Places == Keys /\ Placed /\ GoneIsStray

\* A step in which nobody gets a place and nobody is gone.
LEMMA PlacesKept ==
    ASSUME Typed, Places, Keys', DOMAIN router' = DOMAIN router,
           \A e \in DOMAIN router : /\ router'[e].room = router[e].room
                                    /\ router'[e].participants \subseteq router[e].participants,
           rooms' = rooms,
           \A s \in Sockets : (conn'[s] = "gone") <=> (conn[s] = "gone"),
           UNCHANGED <<roomOf, strays>>
    PROVE  Places'
<1>1. \A r \in RoomIds : rooms[r] # 0 => rooms[r] \in DOMAIN router
  BY RouterFacts
<1>2. Placed'
  BY DEF Places, Placed
<1>3. GoneIsStray'
  BY <1>1 DEF Places, GoneIsStray
<1>4. QED
  BY <1>2, <1>3 DEF Places

\* meta.roomId is set: what is left behind in other rooms is recorded.
LEMMA PlacesAfterJoin ==
    ASSUME Typed, Places, NEW s \in Sockets, NEW r \in RoomIds, SetRoom(s, r),
           UNCHANGED <<conn, rooms, router>>
    PROVE  Places'
<1>1. \A q \in RoomIds : rooms[q] # 0 => rooms[q] \in DOMAIN router /\ router[rooms[q]].room = q
  BY RouterFacts DEF Places, Keys
<1>2. roomOf'[s] = r /\ \A z \in Sockets \ {s} : roomOf'[z] = roomOf[z]
  BY DEF SetRoom, Typed, TypeOK
<1>3. \A z \in Sockets \ {s} : \A q : <<z, q>> \in strays => <<z, q>> \in strays'
  BY DEF SetRoom
<1>4. conn[s] = "gone" => strays' = strays
  BY DEF SetRoom
<1>5. conn[s] # "gone" => \A e \in DOMAIN router :
         s \in router[e].participants /\ router[e].room # r => <<s, router[e].room>> \in strays'
  BY DEF SetRoom
<1>6. Placed'
  BY <1>2, <1>3, <1>5 DEF Places, Placed
<1>7. GoneIsStray'
  BY <1>1, <1>3, <1>4 DEF Places, GoneIsStray
<1>8. Keys'
  BY DEF Places, Keys
<1>9. QED
  BY <1>6, <1>7, <1>8 DEF Places

\* handleDisconnect is done with the socket s, which has a place in no room that the
\* map holds but those it is known to have been left in.
LEMMA PlacesAfterLeave ==
    ASSUME Typed, Places, Keys', NEW s \in Sockets, conn' = [conn EXCEPT ![s] = "gone"],
           roomOf' = roomOf, strays \subseteq strays', DOMAIN router' = DOMAIN router,
           \A e \in DOMAIN router : /\ router'[e].room = router[e].room
                                    /\ router'[e].participants \subseteq router[e].participants,
           \A r \in RoomIds : rooms'[r] \in {0, rooms[r]},
           \A r \in RoomIds : rooms'[r] # 0 /\ s \in router'[rooms'[r]].participants =>
                 roomOf[s] # r \/ <<s, r>> \in strays'
    PROVE  Places'
<1>1. \A r \in RoomIds : rooms[r] # 0 => rooms[r] \in DOMAIN router /\ router[rooms[r]].room = r
  BY RouterFacts DEF Places, Keys
<1>2. conn'[s] = "gone" /\ \A z \in Sockets \ {s} : conn'[z] = conn[z]
  BY DEF Typed, TypeOK
<1>3. Placed'
  BY <1>2 DEF Places, Placed
<1>4. ASSUME NEW z \in Sockets, NEW r \in RoomIds,
             conn'[z] = "gone", rooms'[r] # 0, z \in router'[rooms'[r]].participants
      PROVE  <<z, r>> \in strays'
  <2>1. rooms'[r] = rooms[r] /\ z \in router[rooms[r]].participants
    BY <1>1, <1>4
  <2>2. CASE conn[z] = "gone"
    BY <1>4, <2>1, <2>2 DEF Places, GoneIsStray
  <2>3. CASE conn[z] # "gone"
    <3>1. z = s
      BY <1>2, <1>4, <2>3
    <3>2. roomOf[s] = r \/ <<s, r>> \in strays
      BY <1>1, <1>4, <2>1, <2>3, <3>1 DEF Places, Placed
    <3>3. QED
      BY <1>4, <3>1, <3>2
  <2>4. QED
    BY <2>2, <2>3
<1>5. GoneIsStray'
  BY <1>4 DEF GoneIsStray
<1>6. QED
  BY <1>3, <1>5 DEF Places

\* Every step keeps account of the places.
LEMMA StepPlaces == Typed /\ Mapped /\ Places /\ [Next]_vars => Places'
<1> SUFFICES ASSUME Typed, Mapped, Places, [Next]_vars PROVE Places'
  OBVIOUS
<1>k. Keys'
  BY StepMapped DEF Mapped
<1>a. \A r \in RoomIds : rooms[r] # 0 => rooms[r] \in DOMAIN router /\ router[rooms[r]].room = r
  BY RouterFacts DEF Places, Keys
<1>u. ASSUME UNCHANGED <<conn, roomOf, rooms, router, strays>> PROVE Places'
  BY <1>k, <1>u, PlacesKept
<1>1. ASSUME NEW i \in Slots, WorkerDies(i) PROVE Places'
  BY <1>1, <1>k, RouterAtDeath, PlacesKept DEF WorkerDies, history
<1>2. ASSUME NEW t \in Tasks, RoomCreated(t) PROVE Places'
  <2>1. PICK r \in RoomIds, n \in Nat : CreatedAs(t, r, n)
    BY <1>2, RouterCreated
  <2>2. /\ DOMAIN router' = DOMAIN router \cup {n} /\ router'[n].participants = {}
        /\ \A e \in DOMAIN router : router'[e] = router[e]
        /\ rooms'[r] = n /\ \A q \in RoomIds \ {r} : rooms'[q] = rooms[q]
    BY <2>1 DEF CreatedAs
  <2>3. UNCHANGED <<conn, roomOf, strays>>
    BY <1>2 DEF RoomCreated
  <2>4. Placed'
    BY <2>2, <2>3 DEF Places, Placed
  <2>5. GoneIsStray'
    BY <1>a, <2>2, <2>3 DEF Places, GoneIsStray
  <2>6. QED
    BY <1>k, <2>4, <2>5 DEF Places
<1>3. ASSUME NEW t \in Tasks, NEW x \in Transports, TransportCreated(t, x) PROVE Places'
  <2>1. PICK s \in Sockets : s = task[t].sock
    BY <1>3, RouterJoined
  <2>2. PICK e \in DOMAIN router : e = task[t].entry
    BY <1>3, RouterJoined
  <2>3. /\ DOMAIN router' = DOMAIN router
        /\ \A d \in DOMAIN router :
              /\ router'[d].room = router[d].room
              /\ router'[d].participants = IF d = e THEN router[d].participants \cup {s}
                                           ELSE router[d].participants
    BY <1>3, <2>1, <2>2, RouterJoined
  <2>4. /\ UNCHANGED <<conn, roomOf, rooms>>
        /\ strays' = IF conn[s] = "gone" \/ roomOf[s] # router[e].room
                     THEN strays \cup {<<s, router[e].room>>} ELSE strays
    BY <1>3, <2>1, <2>2 DEF TransportCreated
  <2>5. Placed'
    BY <2>3, <2>4 DEF Places, Placed
  <2>6. ASSUME NEW z \in Sockets, NEW r \in RoomIds,
               conn[z] = "gone", rooms[r] # 0, z \in router'[rooms[r]].participants
        PROVE  <<z, r>> \in strays'
    <3>1. rooms[r] \in DOMAIN router /\ router[rooms[r]].room = r
      BY <1>a, <2>6
    <3>2. CASE z \in router[rooms[r]].participants
      <4>1. <<z, r>> \in strays
        BY <2>6, <3>2 DEF Places, GoneIsStray
      <4>2. QED
        BY <2>4, <4>1
    <3>3. CASE z \notin router[rooms[r]].participants
      <4>1. rooms[r] = e /\ z = s
        BY <2>3, <2>6, <3>1, <3>3
      <4>2. QED
        BY <2>4, <2>6, <3>1, <4>1
    <3>4. QED
      BY <3>2, <3>3
  <2>7. GoneIsStray'
    BY <2>4, <2>6 DEF GoneIsStray
  <2>8. QED
    BY <1>k, <2>5, <2>7 DEF Places
<1>4. ASSUME NEW t \in Tasks, EnterRoom(t) PROVE Places'
  <2>1. PICK s \in Sockets, r \in RoomIds : s = task[t].sock /\ r = task[t].room
    BY <1>4 DEF EnterRoom, Typed, LocalsOK
  <2>2. SetRoom(s, r) /\ UNCHANGED <<conn, rooms, router>>
    BY <1>4, <2>1 DEF EnterRoom
  <2>3. QED
    BY <2>2, PlacesAfterJoin
<1>5. ASSUME NEW s \in Sockets, NEW r \in RoomIds, JoinExisting(s, r) PROVE Places'
  BY <1>5, PlacesAfterJoin DEF JoinExisting
<1>6. ASSUME NEW t \in Tasks, LeaveFails(t) \/ LeaveNoRoom(t) PROVE Places'
  <2>1. PICK s \in Sockets : s = task[t].sock
    BY <1>6 DEF LeaveFails, LeaveNoRoom, Typed, LocalsOK
  <2>2. /\ conn' = [conn EXCEPT ![s] = "gone"] /\ UNCHANGED <<roomOf, rooms, router>>
        /\ strays \subseteq strays'
    BY <1>6, <2>1 DEF LeaveFails, LeaveNoRoom, history
  <2>3. \A r \in RoomIds : rooms[r] # 0 => roomOf[s] # r \/ <<s, r>> \in strays'
    <3>1. CASE LeaveFails(t)
      BY <2>1, <3>1 DEF LeaveFails
    <3>2. CASE LeaveNoRoom(t)
      BY <2>1, <3>2, NoneIsNoRoom DEF LeaveNoRoom
    <3>3. QED
      BY <1>6, <3>1, <3>2
  <2>4. QED
    BY <1>k, <2>2, <2>3, PlacesAfterLeave
<1>7. ASSUME NEW t \in Tasks, NEW s \in Sockets, NEW r \in RoomIds, NEW e \in DOMAIN router,
             RemoveParticipant(t, s, r, e)
      PROVE  Places'
  <2>1. PICK left \in SUBSET Sockets : LeftBy(s, r, e, left)
    BY <1>7, RouterLeft
  <2>2. /\ left = router[e].participants \ {s} /\ roomOf[s] = r /\ rooms[r] = e
        /\ DOMAIN router' = DOMAIN router
        /\ \A d \in DOMAIN router :
              /\ router'[d].room = router[d].room
              /\ router'[d].participants = IF d = e THEN left ELSE router[d].participants
        /\ rooms'[r] = IF left = {} THEN 0 ELSE e
        /\ \A q \in RoomIds \ {r} : rooms'[q] = rooms[q]
    BY <2>1 DEF LeftBy
  <2>3. conn' = [conn EXCEPT ![s] = "gone"] /\ UNCHANGED <<roomOf, strays>>
    BY <1>7 DEF RemoveParticipant, Leave, history
  <2>4. \A q \in RoomIds : rooms'[q] \in {0, rooms[q]}
    BY <2>2
  <2>5. \A q \in RoomIds : rooms'[q] # 0 /\ s \in router'[rooms'[q]].participants => roomOf[s] # q
    BY <2>2
  <2>6. QED
    BY <1>k, <2>2, <2>3, <2>4, <2>5, PlacesAfterLeave
<1>8. ASSUME NEW t \in Tasks, NEW s \in Sockets, Request(t, s) PROVE Places'
  <2>1. UNCHANGED <<roomOf, rooms, router, strays>>
    BY <1>8 DEF Request, JoinNew, CreateTransport, Produce, Consume, Disconnect, history
  <2>2. \A z \in Sockets : (conn'[z] = "gone") <=> (conn[z] = "gone")
    BY <1>8 DEF Request, JoinNew, CreateTransport, Produce, Consume, Disconnect, Typed, TypeOK
  <2>3. QED
    BY <1>k, <2>1, <2>2, PlacesKept
<1>9. ASSUME NEW t \in Tasks, \/ Rejected(t)
                              \/ \E p \in Producers : Produced(t, p)
                              \/ \E c \in Consumers : Consumed(t, c)
      PROVE  Places'
  BY <1>9, <1>u DEF Rejected, Produced, Consumed, history
<1>10. ASSUME \/ \E i \in Slots : ReplaceWorker(i)
              \/ \E s \in Sockets, c \in Consumers : ResumeConsumer(s, c)
              \/ UNCHANGED vars
       PROVE  Places'
  BY <1>10, <1>u DEF ReplaceWorker, ResumeConsumer, history, vars
<1>11. QED
  BY <1>1, <1>2, <1>3, <1>4, <1>5, <1>6, <1>7, <1>8, <1>9, <1>10 DEF Next, Step

\* A peer that is gone keeps a room from being closed only in the three ways that the
\* handlers leave open: a late transport, a move to another room, a failed disconnect.
THEOREM GoneHoldNoPlace == Spec => []GoneIsStray
<1>1. Init => Mapped /\ Places
  BY DEF Init, Mapped, Keys, Vintage, RoutersAreMapped, Places, Placed, GoneIsStray
<1>2. Typed /\ Mapped /\ Places /\ [Next]_vars => (Typed /\ Mapped /\ Places)'
  BY StepTyped, StepMapped, StepPlaces
<1>3. Places => GoneIsStray
  BY DEF Places
<1>4. QED
  BY <1>1, <1>2, <1>3, InitTyped, PTL DEF Spec

----------------------------------------------------------------------------
(* Producers and consumers.                                                *)

\* A transport, once created, stays where it is.
Lasting ==
    \A x \in Transports : transport[x] # None =>
        transport'[x] # None /\ transport'[x].entry = transport[x].entry

LEMMA TransportsLast == Typed /\ [Next]_vars => Lasting
<1> SUFFICES ASSUME Typed, [Next]_vars, NEW x \in Transports, transport[x] # None
             PROVE  transport'[x] # None /\ transport'[x].entry = transport[x].entry
  BY DEF Lasting
<1>a. transport[x] \in Transport /\ transport \in [Transports -> {None} \cup Transport]
  BY DEF Typed, TypeOK
<1>s. ASSUME NEW v \in {"open", "closed", "removed"}, transport'[x] = [transport[x] EXCEPT !.state = v]
      PROVE  transport'[x] # None /\ transport'[x].entry = transport[x].entry
  <2>1. transport'[x] \in Transport /\ transport'[x].entry = transport[x].entry
    BY <1>a, <1>s DEF Transport
  <2>2. QED
    BY <2>1, NoneIsNoRecord
<1>1. ASSUME NEW i \in Slots, WorkerDies(i)
      PROVE  transport'[x] # None /\ transport'[x].entry = transport[x].entry
  <2>1. transport'[x] \in {transport[x], [transport[x] EXCEPT !.state = "closed"]}
    BY <1>1 DEF WorkerDies, CloseTransports
  <2>2. QED
    BY <1>s, <2>1
<1>2. ASSUME NEW t \in Tasks, NEW y \in Transports, TransportCreated(t, y)
      PROVE  transport'[x] = transport[x]
  BY <1>2, <1>a DEF TransportCreated
<1>3. ASSUME NEW t \in Tasks, NEW s \in Sockets, NEW r \in RoomIds, NEW e \in DOMAIN router,
             RemoveParticipant(t, s, r, e)
      PROVE  transport'[x] # None /\ transport'[x].entry = transport[x].entry
  <2>1. \/ transport'[x] = [transport[x] EXCEPT !.state = "removed"]
        \/ transport'[x] = CloseTransports({e})[x] \/ transport'[x] = transport[x]
    BY <1>3 DEF RemoveParticipant, Leave
  <2>2. CloseTransports({e})[x] \in {transport[x], [transport[x] EXCEPT !.state = "closed"]}
    BY DEF CloseTransports
  <2>3. QED
    BY <1>s, <2>1, <2>2
<1>4. ASSUME NEW t \in Tasks, NEW s \in Sockets, Request(t, s) PROVE transport' = transport
  BY <1>4 DEF Request, JoinNew, CreateTransport, Produce, Consume, Disconnect, media
<1>5. ASSUME NEW t \in Tasks, \/ RoomCreated(t) \/ EnterRoom(t) \/ Rejected(t)
                              \/ LeaveFails(t) \/ LeaveNoRoom(t)
                              \/ \E p \in Producers : Produced(t, p)
                              \/ \E c \in Consumers : Consumed(t, c)
      PROVE  transport' = transport
  BY <1>5 DEF RoomCreated, EnterRoom, Rejected, LeaveFails, LeaveNoRoom, Produced, Consumed,
     media
<1>6. ASSUME \/ \E i \in Slots : ReplaceWorker(i)
             \/ \E s \in Sockets, r \in RoomIds : JoinExisting(s, r)
             \/ \E s \in Sockets, c \in Consumers : ResumeConsumer(s, c)
             \/ UNCHANGED vars
      PROVE  transport' = transport
  BY <1>6 DEF ReplaceWorker, JoinExisting, ResumeConsumer, media, vars
<1>7. QED
  BY <1>1, <1>2, <1>3, <1>4, <1>5, <1>6 DEF Next, Step

\* The transport x and the producer p exist, in one router.
Together(x, p) ==
    /\ transport[x] # None /\ producer[p] # None /\ transport[producer[p]] # None
    /\ transport[x].entry = transport[producer[p]].entry

\* What handlers, producers and consumers refer to exists, and what canConsume has
\* said before the await of consume is still true after it.
Routed ==
    /\ \A p \in Producers : producer[p] # None => transport[producer[p]] # None
    /\ \A t \in Tasks : task[t].pc = "produce" => transport[task[t].via] # None
    /\ \A t \in Tasks : task[t].pc = "consume" => Together(task[t].via, task[t].of)
    /\ \A c \in Consumers : consumer[c] # None => Together(consumer[c].transport, consumer[c].producer)

\* A step in which no producer or consumer is made and no handler waits for one.
LEMMA RoutedKept ==
    ASSUME Typed, Routed, Lasting, UNCHANGED producer,
           \A u \in Tasks : task'[u] = task[u] \/ task'[u].pc \notin {"produce", "consume"},
           \A c \in Consumers : consumer'[c] # None =>
              /\ consumer[c] # None
              /\ consumer'[c].transport = consumer[c].transport
              /\ consumer'[c].producer = consumer[c].producer
    PROVE  Routed'
<1>1. \A p \in Producers : producer[p] # None => producer[p] \in Transports
  BY DEF Typed, TypeOK
<1>2. \A x \in Transports : \A p \in Producers : Together(x, p) => Together(x, p)'
  BY <1>1 DEF Lasting, Together
<1>3. \A u \in Tasks :
         /\ task[u].pc \in {"produce", "consume"} => task[u].via \in Transports
         /\ task[u].pc = "consume" => task[u].of \in Producers
  BY DEF Typed, LocalsOK
<1>4. \A c \in Consumers : consumer[c] # None =>
         consumer[c].transport \in Transports /\ consumer[c].producer \in Producers
  BY DEF Typed, TypeOK, Consumer
<1>5. \A p \in Producers : producer'[p] # None => transport'[producer'[p]] # None
  BY <1>1 DEF Routed, Lasting
<1>6. \A u \in Tasks : task'[u].pc = "produce" => transport'[task'[u].via] # None
  BY <1>3 DEF Routed, Lasting
<1>7. \A u \in Tasks : task'[u].pc = "consume" => Together(task[u].via, task[u].of)'
  <2> SUFFICES ASSUME NEW u \in Tasks, task'[u].pc = "consume"
               PROVE  Together(task[u].via, task[u].of)'
    OBVIOUS
  <2>1. task'[u] = task[u]
    OBVIOUS
  <2>2. PICK x \in Transports, p \in Producers : x = task[u].via /\ p = task[u].of
    BY <1>3, <2>1
  <2>3. Together(x, p)
    BY <2>1, <2>2 DEF Routed
  <2>4. Together(x, p)'
    BY <1>2, <2>3
  <2>5. QED
    BY <2>1, <2>2, <2>4 DEF Together
<1>8. \A c \in Consumers : consumer'[c] # None => Together(consumer[c].transport, consumer[c].producer)'
  <2> SUFFICES ASSUME NEW c \in Consumers, consumer'[c] # None
               PROVE  Together(consumer[c].transport, consumer[c].producer)'
    OBVIOUS
  <2>1. PICK x \in Transports, p \in Producers : x = consumer[c].transport /\ p = consumer[c].producer
    BY <1>4
  <2>2. Together(x, p)
    BY <2>1 DEF Routed
  <2>3. Together(x, p)'
    BY <1>2, <2>2
  <2>4. QED
    BY <2>1, <2>3 DEF Together
<1>9. QED
  BY <1>5, <1>6, <1>7, <1>8 DEF Routed

\* A handler waits for a producer or a consumer on a transport it has found.
LEMMA RoutedBegins ==
    ASSUME Typed, Routed, UNCHANGED media, NEW t \in Tasks, NEW h \in Handler,
           task' = [task EXCEPT ![t] = h],
           h.pc = "produce" => transport[h.via] # None,
           h.pc = "consume" => Together(h.via, h.of)
    PROVE  Routed'
<1>1. task'[t] = h /\ \A u \in Tasks \ {t} : task'[u] = task[u]
  BY DEF Typed, TypeOK
<1>2. UNCHANGED <<transport, producer, consumer>>
  BY DEF media
<1>3. QED
  BY <1>1, <1>2 DEF Routed, Together

\* Every step keeps producers and consumers in one router.
LEMMA StepRouted == Typed /\ Routed /\ [Next]_vars => Routed'
<1> SUFFICES ASSUME Typed, Routed, [Next]_vars PROVE Routed'
  OBVIOUS
<1>l. Lasting
  BY TransportsLast
<1>p. \A p \in Producers : producer[p] # None => producer[p] \in Transports
  BY DEF Typed, TypeOK
<1>e. ASSUME NEW t \in Tasks, End(t)
      PROVE  \A u \in Tasks : task'[u] = task[u] \/ task'[u].pc \notin {"produce", "consume"}
  BY <1>e, EndTyped, IdleTyped
<1>1. ASSUME UNCHANGED <<producer, consumer, task>> PROVE Routed'
  BY <1>1, <1>l, RoutedKept
<1>2. ASSUME NEW t \in Tasks, UNCHANGED <<producer, consumer>>, End(t) PROVE Routed'
  BY <1>2, <1>l, <1>e, RoutedKept
<1>3. ASSUME NEW t \in Tasks, RoomCreated(t) PROVE Routed'
  <2>1. /\ UNCHANGED <<producer, consumer>>
        /\ \A u \in Tasks : task'[u] = task[u] \/ task'[u].pc \notin {"produce", "consume"}
    BY <1>3 DEF RoomCreated, media, Typed, TypeOK, Handler
  <2>2. QED
    BY <1>l, <2>1, RoutedKept
<1>4. ASSUME NEW t \in Tasks, NEW p \in Producers, Produced(t, p) PROVE Routed'
  <2>1. PICK x \in Transports : x = task[t].via
    BY <1>4 DEF Produced, Typed, LocalsOK
  <2>2. /\ producer[p] = None /\ producer'[p] = x /\ transport[x] # None
        /\ \A q \in Producers \ {p} : producer'[q] = producer[q]
        /\ UNCHANGED <<transport, consumer>> /\ End(t)
    BY <1>4, <2>1 DEF Produced, Open, Typed, TypeOK
  <2>3. \A y : \A q \in Producers : Together(y, q) => Together(y, q)'
    BY <2>2 DEF Together
  <2>4. \A u \in Tasks : task[u].pc = "consume" =>
           task[u].via \in Transports /\ task[u].of \in Producers
    BY DEF Typed, LocalsOK
  <2>5. \A c \in Consumers : consumer[c] # None =>
           consumer[c].transport \in Transports /\ consumer[c].producer \in Producers
    BY DEF Typed, TypeOK, Consumer
  <2>6. \A q \in Producers : producer'[q] # None => transport'[producer'[q]] # None
    BY <2>2 DEF Routed
  <2>7. \A u \in Tasks : task'[u].pc = "produce" => transport'[task'[u].via] # None
    BY <1>e, <2>2 DEF Routed
  <2>8. \A u \in Tasks : task'[u].pc = "consume" =>
           task'[u] = task[u] /\ Together(task[u].via, task[u].of)'
    <3> SUFFICES ASSUME NEW u \in Tasks, task'[u].pc = "consume"
                 PROVE  task'[u] = task[u] /\ Together(task[u].via, task[u].of)'
      OBVIOUS
    <3>1. task'[u] = task[u]
      BY <1>e, <2>2
    <3>2. PICK y \in Transports, q \in Producers : y = task[u].via /\ q = task[u].of
      BY <2>4, <3>1
    <3>3. Together(y, q)'
      BY <2>3, <3>1, <3>2 DEF Routed
    <3>4. QED
      BY <3>1, <3>2, <3>3 DEF Together
  <2>9. \A c \in Consumers : consumer'[c] # None =>
           Together(consumer[c].transport, consumer[c].producer)'
    <3> SUFFICES ASSUME NEW c \in Consumers, consumer'[c] # None
                 PROVE  Together(consumer[c].transport, consumer[c].producer)'
      OBVIOUS
    <3>1. PICK y \in Transports, q \in Producers : y = consumer[c].transport /\ q = consumer[c].producer
      BY <2>2, <2>5
    <3>2. Together(y, q)'
      BY <2>2, <2>3, <3>1 DEF Routed
    <3>3. QED
      BY <2>2, <3>1, <3>2 DEF Together
  <2>10. QED
    BY <2>6, <2>7, <2>8, <2>9 DEF Routed
<1>5. ASSUME NEW t \in Tasks, NEW c \in Consumers, Consumed(t, c) PROVE Routed'
  <2>1. PICK x \in Transports, p \in Producers : x = task[t].via /\ p = task[t].of
    BY <1>5 DEF Consumed, Typed, LocalsOK
  <2>2. /\ Together(x, p) /\ End(t) /\ UNCHANGED <<transport, producer>>
    BY <1>5, <2>1 DEF Consumed, Routed
  <2>3. /\ consumer'[c].transport = x /\ consumer'[c].producer = p
        /\ \A d \in Consumers \ {c} : consumer'[d] = consumer[d]
    BY <1>5, <2>1 DEF Consumed, Typed, TypeOK
  <2>4. \A u \in Tasks : task'[u] = task[u] \/ task'[u].pc \notin {"produce", "consume"}
    BY <1>e, <2>2
  <2>5. QED
    BY <2>2, <2>3, <2>4 DEF Routed, Together
<1>6. ASSUME NEW s \in Sockets, NEW c \in Consumers, ResumeConsumer(s, c) PROVE Routed'
  <2>1. /\ consumer[c] # None /\ consumer' = [consumer EXCEPT ![c].paused = FALSE]
        /\ consumer \in [Consumers -> {None} \cup Consumer] /\ UNCHANGED <<producer, task>>
    BY <1>6 DEF ResumeConsumer, Typed, TypeOK
  <2>2. \A d \in Consumers : consumer'[d] # None =>
           /\ consumer[d] # None
           /\ consumer'[d].transport = consumer[d].transport
           /\ consumer'[d].producer = consumer[d].producer
    BY <2>1 DEF Consumer
  <2>3. QED
    BY <1>l, <2>1, <2>2, RoutedKept
<1>7. ASSUME NEW t \in Tasks, NEW s \in Sockets, NEW loc \in Handler,
             NEW pc \in {"creating", "transport", "leaving"},
             UNCHANGED <<producer, consumer>>, Begin(t, pc, s, loc)
      PROVE  Routed'
  <2>1. \A u \in Tasks : task'[u] = task[u] \/ task'[u].pc \notin {"produce", "consume"}
    BY <1>7 DEF Begin, Handler, Typed, TypeOK
  <2>2. QED
    BY <1>7, <1>l, <2>1, RoutedKept
<1>8. ASSUME NEW t \in Tasks, NEW s \in Sockets, Request(t, s) PROVE Routed'
  <2>1. ASSUME NEW r \in RoomIds, JoinNew(t, s, r) PROVE Routed'
    <3>1. [IdleTask EXCEPT !.room = r, !.worker = <<workerIndex, workers[workerIndex].refills>>]
             \in Handler
      <4>1. <<workerIndex, workers[workerIndex].refills>> \in Worker
        BY DEF Typed, TypeOK, Worker
      <4>2. QED
        BY <4>1, IdleTyped DEF Handler, IdleTask
    <3>2. QED
      BY <2>1, <1>7, <3>1 DEF JoinNew, media
  <2>2. ASSUME CreateTransport(t, s) PROVE Routed'
    <3>1. rooms[roomOf[s]] \in Nat
      BY <2>2 DEF CreateTransport, Typed, TypeOK
    <3>2. [IdleTask EXCEPT !.entry = rooms[roomOf[s]]] \in Handler
      BY <3>1, IdleTyped DEF Handler, IdleTask
    <3>3. QED
      BY <2>2, <1>7, <3>2 DEF CreateTransport, media
  <2>3. ASSUME NEW x \in Transports, Produce(t, s, x) PROVE Routed'
    <3> DEFINE h == [[IdleTask EXCEPT !.via = x] EXCEPT !.pc = "produce", !.sock = s]
    <3>1. h \in Handler /\ h.pc = "produce" /\ h.via = x
      BY IdleTyped DEF Handler, IdleTask
    <3>2. task' = [task EXCEPT ![t] = h] /\ transport[x] # None /\ UNCHANGED media
      BY <2>3 DEF Produce, Begin, Finds, Listed
    <3> HIDE DEF h
    <3>3. QED
      BY <3>1, <3>2, RoutedBegins
  <2>4. ASSUME NEW x \in Transports, NEW p \in Producers, Consume(t, s, x, p) PROVE Routed'
    <3> DEFINE h == [[IdleTask EXCEPT !.via = x, !.of = p] EXCEPT !.pc = "consume", !.sock = s]
    <3>1. h \in Handler /\ h.pc = "consume" /\ h.via = x /\ h.of = p
      BY IdleTyped DEF Handler, IdleTask
    <3>2. task' = [task EXCEPT ![t] = h] /\ UNCHANGED media
      BY <2>4 DEF Consume, Begin
    <3>3. Together(x, p)
      BY <2>4 DEF Consume, Finds, Listed, CanConsume, Open, Together
    <3> HIDE DEF h
    <3>4. QED
      BY <3>1, <3>2, <3>3, RoutedBegins
  <2>5. ASSUME Disconnect(t, s) PROVE Routed'
    BY <2>5, <1>7, IdleTyped DEF Disconnect, media
  <2>6. QED
    BY <1>8, <2>1, <2>2, <2>3, <2>4, <2>5 DEF Request
<1>9. ASSUME NEW t \in Tasks, \/ EnterRoom(t) \/ Rejected(t) \/ LeaveFails(t) \/ LeaveNoRoom(t)
                              \/ \E x \in Transports : TransportCreated(t, x)
                              \/ \E s \in Sockets, r \in RoomIds, e \in DOMAIN router :
                                    RemoveParticipant(t, s, r, e)
      PROVE  Routed'
  <2>1. End(t) /\ UNCHANGED <<producer, consumer>>
    BY <1>9 DEF EnterRoom, Rejected, LeaveFails, LeaveNoRoom, TransportCreated,
       RemoveParticipant,
                Leave, media
  <2>2. QED
    BY <1>2, <2>1
<1>10. ASSUME \/ \E i \in Slots : WorkerDies(i) \/ ReplaceWorker(i)
              \/ \E s \in Sockets, r \in RoomIds : JoinExisting(s, r)
              \/ UNCHANGED vars
       PROVE  Routed'
  BY <1>1, <1>10 DEF WorkerDies, ReplaceWorker, JoinExisting, media, vars
<1>11. QED
  BY <1>3, <1>4, <1>5, <1>6, <1>8, <1>9, <1>10 DEF Next, Step

\* However often a room is replaced between canConsume and transport.consume, a
\* consumer and its producer are in one router (sfu.service.ts 233-262).
THEOREM ConsumersStayInRouter == Spec => []ConsumersInRouter
<1>1. Init => Routed
  BY IdleTyped DEF Init, Routed
<1>2. Typed /\ Routed /\ [Next]_vars => (Typed /\ Routed)'
  BY StepTyped, StepRouted
<1>3. Routed => ConsumersInRouter
  BY DEF Routed, Together, ConsumersInRouter
<1>4. QED
  BY <1>1, <1>2, <1>3, InitTyped, PTL DEF Spec
====
