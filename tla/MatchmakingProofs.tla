---- MODULE MatchmakingProofs ----
(***************************************************************************)
(* Proofs about Matchmaking, for any sockets, tasks, expiry and bounds.    *)
(***************************************************************************)
EXTENDS Matchmaking, FiniteSetTheorems, SequenceTheorems, WellFoundedInduction, TLAPS

(* What a handler holds at each point where the code indexes into it.      *)
WellHeld(pc, held) ==
    /\ pc \in {"pushed", "putBack"} => Len(held) = 1
    /\ pc \in {"popped", "matched", "initiated", "accepted"} => Len(held) = 2

HandlersOK ==
    /\ task \in [Tasks -> Handler]
    /\ \A t \in Tasks : WellHeld(task[t].pc, task[t].held)
    /\ \A t \in Tasks : task[t].kind # "none" => task[t].sock \in Sockets

Typed == TypeOK /\ HandlersOK

(* LREM takes one equal entry out of the list, if there is one.            *)
LEMMA RemoveFirstAt ==
    ASSUME NEW q \in Seq(Entry), NEW e \in Entry
    PROVE  \/ RemoveFirst(q, e) = q
           \/ \E k \in 1..Len(q) :
                 /\ q[k] = e
                 /\ RemoveFirst(q, e) \in Seq(Entry) /\ Len(RemoveFirst(q, e)) = Len(q) - 1
                 /\ \A i \in 1..(Len(q) - 1) :
                       RemoveFirst(q, e)[i] = IF i < k THEN q[i] ELSE q[i + 1]
<1> DEFINE I == {i \in 1..Len(q) : q[i] = e}
<1>1. CASE I = {}
  BY <1>1 DEF RemoveFirst
<1>2. CASE I # {}
  <2>1. I \subseteq Nat
    OBVIOUS
  <2>2. OpToRel(<, Nat) = {ss \in Nat \X Nat : ss[1] < ss[2]}
    BY DEF OpToRel
  <2>3. IsWellFoundedOn({ss \in Nat \X Nat : ss[1] < ss[2]}, Nat)
    BY <2>2, NatLessThanWellFounded
  <2>4. PICK x \in I : \A y \in I : <<y, x>> \notin {ss \in Nat \X Nat : ss[1] < ss[2]}
    BY <1>2, <2>1, <2>3, WFMin
  <2>5. \A y \in I : x <= y
    <3> TAKE y \in I
    <3>1. x \in Nat /\ y \in Nat
      BY <2>1
    <3>2. <<y, x>> \in Nat \X Nat => ~(<<y, x>>[1] < <<y, x>>[2])
      BY <2>4
    <3> QED
      BY <3>1, <3>2
  <2>6. Min(I) \in I
    BY <2>5 DEF Min
  <2>7. RemoveFirst(q, e) = SubSeq(q, 1, Min(I) - 1) \o SubSeq(q, Min(I) + 1, Len(q))
    BY <1>2 DEF RemoveFirst, RemoveAt, SelectInSeq
  <2> HIDE DEF I
  <2>8. PICK k \in 1..Len(q) : k = Min(I) /\ q[k] = e
    BY <2>6 DEF I
  <2>9. /\ SubSeq(q, 1, k - 1) \in Seq(Entry) /\ Len(SubSeq(q, 1, k - 1)) = k - 1
        /\ \A i \in 1..(k - 1) : SubSeq(q, 1, k - 1)[i] = q[i]
    OBVIOUS
  <2>10. /\ SubSeq(q, k + 1, Len(q)) \in Seq(Entry) /\ Len(SubSeq(q, k + 1, Len(q))) = Len(q) - k
         /\ \A i \in 1..(Len(q) - k) : SubSeq(q, k + 1, Len(q))[i] = q[k + i]
    OBVIOUS
  <2>11. PICK a, b \in Seq(Entry) : a = SubSeq(q, 1, k - 1) /\ b = SubSeq(q, k + 1, Len(q))
    BY <2>9, <2>10
  <2>12. /\ Len(a) = k - 1 /\ Len(b) = Len(q) - k
         /\ \A i \in 1..(k - 1) : a[i] = q[i]
         /\ \A i \in 1..(Len(q) - k) : b[i] = q[k + i]
    BY <2>9, <2>10, <2>11
  <2>13. /\ a \o b \in Seq(Entry) /\ Len(a \o b) = Len(q) - 1
         /\ \A i \in 1..(Len(q) - 1) : (a \o b)[i] = IF i <= k - 1 THEN a[i] ELSE b[i - (k - 1)]
    <3>1. /\ a \o b \in Seq(Entry) /\ Len(a \o b) = Len(a) + Len(b)
          /\ \A i \in 1..(Len(a) + Len(b)) :
                (a \o b)[i] = IF i <= Len(a) THEN a[i] ELSE b[i - Len(a)]
      BY ConcatProperties
    <3> QED
      BY <2>12, <3>1
  <2>14. ASSUME NEW i \in 1..(Len(q) - 1)
         PROVE  (a \o b)[i] = IF i < k THEN q[i] ELSE q[i + 1]
    <3>1. CASE i < k
      BY <2>12, <2>13, <3>1
    <3>2. CASE ~(i < k)
      <4>1. i - (k - 1) \in 1..(Len(q) - k) /\ k + (i - (k - 1)) = i + 1
        BY <3>2
      <4> QED
        BY <2>12, <2>13, <3>2, <4>1
    <3> QED
      BY <3>1, <3>2
  <2>15. RemoveFirst(q, e) = a \o b
    BY <2>7, <2>8, <2>11
  <2> QED
    BY <2>8, <2>13, <2>14, <2>15
<1> QED
  BY <1>1, <1>2

\* It leaves a list of entries, no longer than the one it was given.
LEMMA RemoveFirstType ==
    ASSUME NEW q \in Seq(Entry), NEW e \in Entry
    PROVE  RemoveFirst(q, e) \in Seq(Entry) /\ Len(RemoveFirst(q, e)) <= Len(q)
  BY RemoveFirstAt

(* The four ways a step changes a handler.                                 *)
LEMMA TaskMoves ==
    ASSUME HandlersOK, NEW t \in Tasks, NEW p \in TaskPC,
           WellHeld(p, task[t].held),
           task' = [task EXCEPT ![t].pc = p]
    PROVE  HandlersOK'
<1> DEFINE r == [task[t] EXCEPT !.pc = p]
<1>1. r \in Handler
  BY DEF HandlersOK, Handler
<1>2. task' = [task EXCEPT ![t] = r]
  OBVIOUS
<1>3. WellHeld(r.pc, r.held) /\ (r.kind # "none" => r.sock \in Sockets)
  BY DEF HandlersOK, Handler
<1> HIDE DEF r
<1> QED
  BY <1>1, <1>2, <1>3 DEF HandlersOK

\* A step that changes the place and the entries of a handler keeps it typed.
LEMMA TaskTakes ==
    ASSUME HandlersOK, NEW t \in Tasks, NEW p \in TaskPC, NEW h \in Seq(Entry),
           WellHeld(p, h),
           task' = [task EXCEPT ![t].pc = p, ![t].held = h]
    PROVE  HandlersOK'
<1> DEFINE r == [task[t] EXCEPT !.pc = p, !.held = h]
<1>1. r \in Handler
  BY DEF HandlersOK, Handler
<1>2. task' = [task EXCEPT ![t] = r]
  BY DEF HandlersOK
<1>3. WellHeld(r.pc, r.held) /\ (r.kind # "none" => r.sock \in Sockets)
  BY DEF HandlersOK, Handler
<1> HIDE DEF r
<1> QED
  BY <1>1, <1>2, <1>3 DEF HandlersOK

\* A step that ends a handler keeps the handlers typed.
LEMMA TaskReturns ==
    ASSUME HandlersOK, NEW t \in Tasks, task' = [task EXCEPT ![t] = IdleTask]
    PROVE  HandlersOK'
<1>1. /\ IdleTask \in Handler /\ WellHeld(IdleTask.pc, IdleTask.held)
      /\ IdleTask.kind = "none"
  BY DEF IdleTask, Handler, TaskPC, WellHeld
<1> QED
  BY <1>1 DEF HandlersOK

\* A step that starts a handler keeps the handlers typed.
LEMMA TaskBegins ==
    ASSUME HandlersOK, NEW t \in Tasks, NEW k \in {"join", "leave", "disconnect"},
           NEW s \in Sockets, NEW p \in TaskPC, NEW h \in Seq(Entry), WellHeld(p, h),
           Begin(t, k, s, p, h)
    PROVE  HandlersOK'
<1> DEFINE r == [pc |-> p, kind |-> k, sock |-> s, held |-> h, call |-> 0]
<1>1. r \in Handler /\ WellHeld(r.pc, r.held) /\ r.sock \in Sockets
  BY DEF Handler
<1>2. task' = [task EXCEPT ![t] = r]
  BY DEF Begin
<1> HIDE DEF r
<1> QED
  BY <1>1, <1>2 DEF HandlersOK

(* The entries a handler indexes into are there.                           *)
LEMMA HeldEntries ==
    ASSUME Typed, NEW t \in Tasks
    PROVE  /\ task[t].pc \in {"pushed", "putBack"} => task[t].held[1] \in Entry
           /\ task[t].pc \in {"popped", "matched", "initiated", "accepted"} =>
                task[t].held[1] \in Entry /\ task[t].held[2] \in Entry
BY DEF Typed, HandlersOK, Handler, WellHeld

\* What a handler holds is a sequence of entries.
LEMMA HeldSequences ==
    /\ <<>> \in Seq(Entry) /\ Len(<<>>) = 0
    /\ \A e \in Entry : <<e>> \in Seq(Entry) /\ Len(<<e>>) = 1
    /\ \A e, f \in Entry : <<e, f>> \in Seq(Entry) /\ Len(<<e, f>>) = 2
OBVIOUS

\* Every change of the pipe keeps it a sequence of handlers.
LEMMA PipeMoves ==
    ASSUME TypeOK, NEW t \in Tasks
    PROVE  /\ Append(pipe, t) \in Seq(Tasks)
           /\ pipe # <<>> => /\ Tail(pipe) \in Seq(Tasks)
                            /\ Append(Tail(pipe), t) \in Seq(Tasks)
BY DEF TypeOK

\* HDEL keeps the hash a map from sockets to entries.
LEMMA HDelType ==
    ASSUME TypeOK, NEW socks
    PROVE  HDel(socks) \in [Sockets -> Entry \cup {None}]
BY DEF TypeOK, HDel

\* Storing a status keeps the calls a sequence of statuses.
LEMMA StatusUpdate ==
    ASSUME NEW S, NEW q \in Seq(S), NEW v \in S, NEW c
    PROVE  [q EXCEPT ![c] = v] \in Seq(S)
<1>1. q \in [1..Len(q) -> S] /\ Len(q) \in Nat
  OBVIOUS
<1>2. [q EXCEPT ![c] = v] \in [1..Len(q) -> S]
  BY <1>1
<1> QED
  BY <1>1, <1>2, SeqDef

----------------------------------------------------------------------------
(* Every action keeps the types.                                           *)

\* IndexEntry keeps the types and the shape of the handlers (Typed).
LEMMA IndexEntryTyped ==
    ASSUME Typed, NEW t \in Tasks, IndexEntry(t)
    PROVE  Typed'
<1>1. HandlersOK'
  BY TaskTakes, HeldSequences DEF IndexEntry, NextCommand, Typed, TaskPC, WellHeld
<1>2. pipe' \in Seq(Tasks)
  BY PipeMoves DEF Typed, IndexEntry, Replied, NextCommand
<1>3. index' \in [Sockets -> Entry \cup {None}]
  BY HeldEntries DEF IndexEntry, Replied, Typed, TypeOK
<1> QED
  BY <1>1, <1>2, <1>3 DEF Typed, TypeOK, HandlersOK, IndexEntry, redis, history

\* AuditQueued keeps the types and the shape of the handlers (Typed).
LEMMA AuditQueuedTyped ==
    ASSUME Typed, NEW t \in Tasks, AuditQueued(t)
    PROVE  Typed'
<1>1. HandlersOK'
  BY TaskMoves DEF AuditQueued, LeavePipe, Typed, TaskPC, WellHeld
<1>2. pipe' \in Seq(Tasks)
  BY PipeMoves DEF Typed, AuditQueued, Replied, LeavePipe
<1> QED
  BY <1>1, <1>2 DEF Typed, TypeOK, HandlersOK, AuditQueued, redis, history

\* ReadDepth keeps the types and the shape of the handlers (Typed).
LEMMA ReadDepthTyped ==
    ASSUME Typed, NEW t \in Tasks, ReadDepth(t)
    PROVE  Typed'
<1>1. HandlersOK'
  BY TaskMoves DEF ReadDepth, Typed, TaskPC, WellHeld
<1>2. pipe' \in Seq(Tasks)
  BY PipeMoves DEF Typed, ReadDepth, TypeOK
<1> QED
  BY <1>1, <1>2 DEF Typed, TypeOK, HandlersOK, ReadDepth, redis, history

\* PopNone keeps the types and the shape of the handlers (Typed).
LEMMA PopNoneTyped ==
    ASSUME Typed, NEW t \in Tasks, PopNone(t)
    PROVE  Typed'
<1>1. HandlersOK'
  BY TaskReturns DEF PopNone, Return, Typed
<1>2. pipe' \in Seq(Tasks)
  BY PipeMoves DEF Typed, PopNone, Replied, Return
<1> QED
  BY <1>1, <1>2 DEF Typed, TypeOK, HandlersOK, PopNone, redis, history

\* PopPair keeps the types and the shape of the handlers (Typed).
LEMMA PopPairTyped ==
    ASSUME Typed, NEW t \in Tasks, PopPair(t)
    PROVE  Typed'
<1>1. queue \in Seq(Entry) /\ Len(queue) >= 2
  BY DEF Typed, TypeOK, PopPair
<1>2. queue[1] \in Entry /\ queue[2] \in Entry /\ Tail(Tail(queue)) \in Seq(Entry)
  <2>1. Tail(queue) \in Seq(Entry) /\ Len(Tail(queue)) = Len(queue) - 1
    BY <1>1
  <2> QED
    BY <1>1, <2>1
<1>3. HandlersOK'
  BY <1>2, TaskTakes, HeldSequences DEF PopPair, NextCommand, Typed, TaskPC, WellHeld
<1>4. pipe' \in Seq(Tasks)
  BY PipeMoves DEF Typed, PopPair, Replied, NextCommand
<1> QED
  BY <1>2, <1>3, <1>4 DEF Typed, TypeOK, HandlersOK, PopPair, history

\* DiscardBoth keeps the types and the shape of the handlers (Typed).
LEMMA DiscardBothTyped ==
    ASSUME Typed, NEW t \in Tasks, DiscardBoth(t)
    PROVE  Typed'
<1>1. HandlersOK'
  BY TaskReturns DEF DiscardBoth, Return, Typed
<1>2. pipe' \in Seq(Tasks)
  BY PipeMoves DEF Typed, DiscardBoth, Replied, Return
<1>3. index' \in [Sockets -> Entry \cup {None}]
  BY HDelType DEF Typed, DiscardBoth
<1> QED
  BY <1>1, <1>2, <1>3 DEF Typed, TypeOK, HandlersOK, DiscardBoth, redis, history

\* PutBack keeps the types and the shape of the handlers (Typed).
LEMMA PutBackTyped ==
    ASSUME Typed, NEW t \in Tasks, PutBack(t)
    PROVE  Typed'
<1>1. PICK stale \in {1, 2} : PutBack(t)!(stale)
  BY DEF PutBack
<1>2. task[t].held[stale] \in Entry /\ task[t].held[3 - stale] \in Entry
  BY <1>1, HeldEntries DEF Replied
<1>3. HandlersOK'
  BY <1>1, <1>2, TaskTakes, HeldSequences DEF NextCommand, Typed, TaskPC, WellHeld
<1>4. pipe' \in Seq(Tasks)
  BY <1>1, PipeMoves DEF Typed, Replied, NextCommand
<1>5. queue' \in Seq(Entry)
  BY <1>1, <1>2 DEF Typed, TypeOK
<1> QED
  BY <1>1, <1>3, <1>4, <1>5 DEF Typed, TypeOK, HandlersOK

\* ForgetStale keeps the types and the shape of the handlers (Typed).
LEMMA ForgetStaleTyped ==
    ASSUME Typed, NEW t \in Tasks, ForgetStale(t)
    PROVE  Typed'
<1>1. HandlersOK'
  BY TaskReturns DEF ForgetStale, Return, Typed
<1>2. pipe' \in Seq(Tasks)
  BY PipeMoves DEF Typed, ForgetStale, Replied, Return
<1>3. index' \in [Sockets -> Entry \cup {None}]
  BY HDelType DEF Typed, ForgetStale
<1> QED
  BY <1>1, <1>2, <1>3 DEF Typed, TypeOK, HandlersOK, ForgetStale, redis, history

\* ClearIndex keeps the types and the shape of the handlers (Typed).
LEMMA ClearIndexTyped ==
    ASSUME Typed, NEW t \in Tasks, ClearIndex(t)
    PROVE  Typed'
<1>1. HandlersOK'
  BY TaskMoves DEF ClearIndex, Replied, LeavePipe, Typed, TaskPC, WellHeld, HandlersOK
<1>2. pipe' \in Seq(Tasks)
  BY PipeMoves DEF Typed, ClearIndex, Replied, LeavePipe
<1>3. index' \in [Sockets -> Entry \cup {None}]
  BY HDelType DEF Typed, ClearIndex
<1> QED
  BY <1>1, <1>2, <1>3 DEF Typed, TypeOK, HandlersOK, ClearIndex, redis, history

\* InitiateCall keeps the types and the shape of the handlers (Typed).
LEMMA InitiateCallTyped ==
    ASSUME Typed, NEW t \in Tasks, InitiateCall(t)
    PROVE  Typed'
<1> DEFINE r == [task[t] EXCEPT !.pc = "initiated", !.call = Len(calls) + 1]
<1>1. calls' \in Seq({"initiated", "active", "ended"}) /\ Len(calls) + 1 \in Nat
  BY DEF Typed, TypeOK, InitiateCall
<1>2. /\ r \in Handler /\ WellHeld(r.pc, r.held)
      /\ r.kind # "none" => r.sock \in Sockets
  BY <1>1 DEF InitiateCall, Typed, HandlersOK, Handler, TaskPC, WellHeld
<1>3. task' = [task EXCEPT ![t] = r]
  BY DEF InitiateCall, Typed, HandlersOK
<1> HIDE DEF r
<1>4. HandlersOK'
  BY <1>2, <1>3 DEF Typed, HandlersOK
<1> QED
  BY <1>1, <1>4 DEF Typed, TypeOK, HandlersOK, InitiateCall, redis, history

\* AcceptCall keeps the types and the shape of the handlers (Typed).
LEMMA AcceptCallTyped ==
    ASSUME Typed, NEW t \in Tasks, AcceptCall(t)
    PROVE  Typed'
<1>1. HandlersOK'
  BY TaskMoves DEF AcceptCall, Typed, TaskPC, WellHeld, HandlersOK
<1>2. calls' \in Seq({"initiated", "active", "ended"})
  BY StatusUpdate DEF Typed, TypeOK, AcceptCall
<1> QED
  BY <1>1, <1>2 DEF Typed, TypeOK, HandlersOK, AcceptCall, redis, history

\* PairFails keeps the types and the shape of the handlers (Typed).
LEMMA PairFailsTyped ==
    ASSUME Typed, NEW t \in Tasks, PairFails(t)
    PROVE  Typed'
<1>1. HandlersOK'
  BY TaskReturns DEF PairFails, Typed
<1> QED
  BY <1>1 DEF Typed, TypeOK, HandlersOK, PairFails, redis, history

\* Announce keeps the types and the shape of the handlers (Typed).
LEMMA AnnounceTyped ==
    ASSUME Typed, NEW t \in Tasks, Announce(t)
    PROVE  Typed'
<1>1. HandlersOK'
  BY TaskReturns DEF Announce, Typed
<1>2. \A s : Cardinality({i \in {1, 2} : task[t].held[i].socket = s}) \in Nat
  <2> TAKE s
  <2>1. IsFiniteSet({1}) /\ IsFiniteSet({1} \cup {2})
    BY FS_Singleton, FS_AddElement
  <2>2. {i \in {1, 2} : task[t].held[i].socket = s} \subseteq {1} \cup {2}
    OBVIOUS
  <2> QED
    BY <2>1, <2>2, FS_Subset, FS_CardinalityType
<1>3. found' \in [Sockets -> Nat]
  <2> DEFINE c(s) == Cardinality({i \in {1, 2} : task[t].held[i].socket = s})
  <2>1. found' = [s \in Sockets |-> found[s] + c(s)]
    BY DEF Announce
  <2>2. \A s \in Sockets : c(s) \in Nat
    BY <1>2
  <2> HIDE DEF c
  <2> QED
    BY <2>1, <2>2 DEF Typed, TypeOK
<1>4. callOf' \in [Sockets -> Nat \cup {None}]
  BY DEF Announce, Typed, TypeOK, Handler
<1> QED
  BY <1>1, <1>3, <1>4 DEF Typed, TypeOK, HandlersOK, Announce, redis

\* RemoveEntry keeps the types and the shape of the handlers (Typed).
LEMMA RemoveEntryTyped ==
    ASSUME Typed, NEW t \in Tasks, RemoveEntry(t)
    PROVE  Typed'
<1>1. task[t].held \in Seq(Entry) /\ task[t].held # <<>>
  BY DEF Typed, HandlersOK, Handler, RemoveEntry
<1>2. queue' \in Seq(Entry)
  <2>1. task[t].held[1] \in Entry
    BY <1>1
  <2> QED
    BY <2>1, RemoveFirstType DEF Typed, TypeOK, RemoveEntry
<1>3. HandlersOK'
  BY <1>1, TaskTakes DEF RemoveEntry, NextCommand, Typed, TaskPC, WellHeld
<1>4. pipe' \in Seq(Tasks)
  BY PipeMoves DEF Typed, RemoveEntry, Replied, NextCommand
<1> QED
  BY <1>2, <1>3, <1>4 DEF Typed, TypeOK, HandlersOK, RemoveEntry, history

\* Unindex keeps the types and the shape of the handlers (Typed).
LEMMA UnindexTyped ==
    ASSUME Typed, NEW t \in Tasks, Unindex(t)
    PROVE  Typed'
<1>1. HandlersOK'
  BY TaskMoves DEF Unindex, LeavePipe, Typed, TaskPC, WellHeld
<1>2. pipe' \in Seq(Tasks)
  BY PipeMoves DEF Typed, Unindex, Replied, LeavePipe
<1>3. index' \in [Sockets -> Entry \cup {None}]
  BY HDelType DEF Typed, Unindex
<1> QED
  BY <1>1, <1>2, <1>3 DEF Typed, TypeOK, HandlersOK, Unindex, redis, history

\* EndLeave keeps the types and the shape of the handlers (Typed).
LEMMA EndLeaveTyped ==
    ASSUME Typed, NEW t \in Tasks, EndLeave(t)
    PROVE  Typed'
<1>1. HandlersOK'
  BY TaskReturns DEF EndLeave, Typed
<1>2. pipe' \in Seq(Tasks)
  BY PipeMoves DEF Typed, EndLeave, Dequeued, Replied, TypeOK
<1> QED
  BY <1>1, <1>2 DEF Typed, TypeOK, HandlersOK, EndLeave, redis, history

\* Forget keeps the types and the shape of the handlers (Typed).
LEMMA ForgetTyped ==
    ASSUME Typed, NEW t \in Tasks, Forget(t)
    PROVE  Typed'
<1>1. HandlersOK'
  BY TaskReturns DEF Forget, Typed
<1>2. pipe' \in Seq(Tasks)
  BY PipeMoves DEF Typed, Forget, Dequeued, Replied, TypeOK
<1> QED
  BY <1>1, <1>2 DEF Typed, TypeOK, HandlersOK, Forget, redis, history

\* HangUp keeps the types and the shape of the handlers (Typed).
LEMMA HangUpTyped ==
    ASSUME Typed, NEW t \in Tasks, HangUp(t)
    PROVE  Typed'
<1> DEFINE r == [task[t] EXCEPT !.pc = "hangup", !.call = callOf[task[t].sock]]
<1>1. task[t].sock \in Sockets
  BY DEF HangUp, Dequeued, Typed, HandlersOK
<1>2. /\ r \in Handler /\ WellHeld(r.pc, r.held)
      /\ r.kind # "none" => r.sock \in Sockets
  <2>1. task[t] \in Handler /\ callOf[task[t].sock] \in Nat
    BY <1>1 DEF HangUp, Typed, TypeOK, HandlersOK
  <2>2. /\ r \in Handler /\ r.pc = "hangup" /\ r.held = task[t].held
        /\ r.kind = task[t].kind /\ r.sock = task[t].sock
    BY <2>1 DEF Handler, TaskPC
  <2>3. QED
    BY <1>1, <2>2 DEF WellHeld
<1>3. task' = [task EXCEPT ![t] = r]
  BY DEF HangUp, Typed, HandlersOK
<1> HIDE DEF r
<1>4. HandlersOK'
  BY <1>2, <1>3 DEF Typed, HandlersOK
<1>5. pipe' \in Seq(Tasks)
  BY PipeMoves DEF Typed, TypeOK, HangUp, Dequeued, Replied
<1> QED
  BY <1>4, <1>5 DEF Typed, TypeOK, HandlersOK, HangUp, redis, history

\* EndCall keeps the types and the shape of the handlers (Typed).
LEMMA EndCallTyped ==
    ASSUME Typed, NEW t \in Tasks, EndCall(t)
    PROVE  Typed'
<1>1. HandlersOK'
  BY TaskReturns DEF EndCall, Typed
<1>2. calls' \in Seq({"initiated", "active", "ended"})
  BY StatusUpdate DEF Typed, TypeOK, EndCall
<1> QED
  BY <1>1, <1>2 DEF Typed, TypeOK, HandlersOK, EndCall, redis, history

\* JoinQueue keeps the types and the shape of the handlers (Typed).
LEMMA JoinQueueTyped ==
    ASSUME Typed, NEW t \in Tasks, NEW s \in Sockets, JoinQueue(t, s)
    PROVE  Typed'
<1> DEFINE e == [socket |-> s, enqueuedAt |-> now]
<1>1. e \in Entry
  BY DEF Entry, Typed, TypeOK
<1>2. Begin(t, "join", s, "pushed", <<e>>) /\ queue' = Append(queue, e)
  BY DEF JoinQueue
<1> HIDE DEF e
<1>3. HandlersOK'
  BY <1>1, <1>2, TaskBegins, HeldSequences DEF Typed, TaskPC, WellHeld
<1>4. pipe' \in Seq(Tasks)
  BY <1>2, PipeMoves DEF Typed, Begin
<1>5. queue' \in Seq(Entry)
  BY <1>1, <1>2 DEF Typed, TypeOK
<1> QED
  BY <1>3, <1>4, <1>5 DEF Typed, TypeOK, HandlersOK, JoinQueue

\* Lookup keeps the types and the shape of the handlers (Typed).
LEMMA LookupTyped ==
    ASSUME Typed, NEW t \in Tasks, NEW s \in Sockets,
           NEW k \in {"leave", "disconnect"}, Lookup(t, k, s)
    PROVE  HandlersOK' /\ pipe' \in Seq(Tasks)
<1> DEFINE h == IF index[s] = None THEN <<>> ELSE <<index[s]>>
<1>1. h \in Seq(Entry)
  BY HeldSequences DEF Typed, TypeOK
<1>2. Begin(t, k, s, "looked", h)
  BY DEF Lookup
<1> HIDE DEF h
<1>3. HandlersOK'
  BY <1>1, <1>2, TaskBegins DEF Typed, TaskPC, WellHeld
<1> QED
  BY <1>2, <1>3, PipeMoves DEF Typed, Begin

\* LeaveQueue keeps the types and the shape of the handlers (Typed).
LEMMA LeaveQueueTyped ==
    ASSUME Typed, NEW t \in Tasks, NEW s \in Sockets, LeaveQueue(t, s)
    PROVE  Typed'
<1>1. HandlersOK' /\ pipe' \in Seq(Tasks)
  BY LookupTyped DEF LeaveQueue
<1> QED
  BY <1>1 DEF Typed, TypeOK, HandlersOK, LeaveQueue, Lookup, redis, history

\* Disconnect keeps the types and the shape of the handlers (Typed).
LEMMA DisconnectTyped ==
    ASSUME Typed, NEW t \in Tasks, NEW s \in Sockets, Disconnect(t, s)
    PROVE  Typed'
<1>1. HandlersOK' /\ pipe' \in Seq(Tasks)
  BY LookupTyped DEF Disconnect
<1> QED
  BY <1>1 DEF Typed, TypeOK, HandlersOK, Disconnect, Lookup, redis, history

\* Next keeps the types and the shape of the handlers (Typed).
LEMMA NextTyped ==
    ASSUME Typed, [Next]_vars
    PROVE  Typed'
<1>1. CASE Tick
  BY <1>1 DEF Tick, Typed, TypeOK, HandlersOK, redis, history
<1>2. ASSUME NEW s \in Sockets, Connect(s)
      PROVE  Typed'
  BY <1>2 DEF Connect, Typed, TypeOK, HandlersOK, redis, history
<1>3. ASSUME NEW t \in Tasks, Step(t)
      PROVE  Typed'
  BY <1>3, IndexEntryTyped, AuditQueuedTyped, ReadDepthTyped, PopNoneTyped,
     PopPairTyped, DiscardBothTyped, PutBackTyped, ForgetStaleTyped,
     ClearIndexTyped, InitiateCallTyped, AcceptCallTyped, AnnounceTyped,
     PairFailsTyped, RemoveEntryTyped, UnindexTyped, EndLeaveTyped,
     ForgetTyped, HangUpTyped, EndCallTyped DEF Step
<1>4. ASSUME NEW t \in Tasks, NEW s \in Sockets, Request(t, s)
      PROVE  Typed'
  BY <1>4, JoinQueueTyped, LeaveQueueTyped, DisconnectTyped DEF Request
<1>5. CASE UNCHANGED vars
  BY <1>5 DEF vars, Typed, TypeOK, HandlersOK
<1> QED
  BY <1>1, <1>2, <1>3, <1>4, <1>5 DEF Next

\* Init keeps the types and the shape of the handlers (Typed).
LEMMA InitTyped == Init => Typed
BY DEF Init, Typed, TypeOK, HandlersOK, Handler, TaskPC, WellHeld, IdleTask

(* The gateway's maps, Redis' list and hash, and every handler's locals keep *)
(* their types, and a handler never reads an entry it does not hold.         *)
THEOREM TypeCorrect == Spec => []TypeOK
<1>1. Spec => []Typed
  BY InitTyped, NextTyped, PTL DEF Spec
<1>2. Typed => TypeOK
  BY DEF Typed
<1> QED
  BY <1>1, <1>2, PTL

----------------------------------------------------------------------------
(* The queue never outgrows the tryMatch calls still to come.              *)

MatcherPC == {"pushed", "indexed", "audited", "counted"}

QueueBound == Len(queue) <= 1 + Cardinality(Matchers) + putBacks

\* There are finitely many handlers on the way to tryMatch.
LEMMA MatchersFinite == IsFiniteSet(Matchers) /\ Cardinality(Matchers) \in Nat
BY TasksFinite, FS_Subset, FS_CardinalityType DEF Matchers, At

(* t moves to p and the other handlers stay where they are.                *)
PcStep(t, p) ==
    /\ task'[t].pc = p
    /\ \A u \in Tasks \ {t} : task'[u].pc = task[u].pc

\* A change of one handler moves at most that handler to another place.
LEMMA PcSteps ==
    ASSUME task \in [Tasks -> Handler], NEW t \in Tasks, NEW p
    PROVE  /\ task' = [task EXCEPT ![t].pc = p] => PcStep(t, p)
           /\ \A h : task' = [task EXCEPT ![t].pc = p, ![t].held = h] => PcStep(t, p)
           /\ \A c : task' = [task EXCEPT ![t].pc = p, ![t].call = c] => PcStep(t, p)
           /\ task' = [task EXCEPT ![t] = IdleTask] => PcStep(t, "idle")
           /\ \A k, s, h : Begin(t, k, s, p, h) => PcStep(t, p)
BY DEF PcStep, IdleTask, Begin, Handler

(* A step that leaves the set of matchers alone and adds nothing to the queue. *)
LEMMA QuietStep ==
    ASSUME Typed, QueueBound, NEW t \in Tasks, NEW p, PcStep(t, p),
           p \in MatcherPC <=> task[t].pc \in MatcherPC,
           queue' \in Seq(Entry), Len(queue') <= Len(queue), putBacks' = putBacks
    PROVE  QueueBound'
<1>1. Matchers' = Matchers
  BY DEF Matchers, At, MatcherPC, PcStep
<1>2. Len(queue) \in Nat /\ Len(queue') \in Nat /\ putBacks \in Nat
  BY DEF Typed, TypeOK
<1> QED
  BY <1>1, <1>2, MatchersFinite DEF QueueBound

\* A step that neither changes the queue nor involves a matcher keeps the bound.
LEMMA StillStep ==
    ASSUME Typed, QueueBound, NEW t \in Tasks, NEW p, PcStep(t, p),
           p \in MatcherPC <=> task[t].pc \in MatcherPC,
           queue' = queue, putBacks' = putBacks
    PROVE  QueueBound'
<1>1. queue' \in Seq(Entry) /\ Len(queue') <= Len(queue)
  BY DEF Typed, TypeOK
<1> QED
  BY <1>1, QuietStep

(* A step in which t's tryMatch runs its script and takes it off the matchers. *)
LEMMA MatcherStops ==
    ASSUME NEW t \in Tasks, NEW p, PcStep(t, p),
           task[t].pc \in MatcherPC, p \notin MatcherPC
    PROVE  Cardinality(Matchers') \in Nat /\ Cardinality(Matchers) = Cardinality(Matchers') + 1
<1>1. Matchers' = Matchers \ {t} /\ t \in Matchers
  BY DEF Matchers, At, MatcherPC, PcStep
<1>2. IsFiniteSet(Matchers \ {t}) /\ Cardinality(Matchers \ {t}) = Cardinality(Matchers) - 1
  BY <1>1, MatchersFinite, FS_RemoveElement
<1>3. Cardinality(Matchers \ {t}) \in Nat
  BY <1>2, FS_CardinalityType
<1> QED
  BY <1>1, <1>2, <1>3, MatchersFinite

(* A step in which a join handler pushes its entry and becomes a matcher.  *)
LEMMA MatcherStarts ==
    ASSUME NEW t \in Tasks, NEW p, PcStep(t, p),
           task[t].pc \notin MatcherPC, p \in MatcherPC
    PROVE  Cardinality(Matchers') = Cardinality(Matchers) + 1
<1>1. Matchers' = Matchers \cup {t} /\ t \notin Matchers
  BY DEF Matchers, At, MatcherPC, PcStep
<1> QED
  BY <1>1, MatchersFinite, FS_AddElement

\* IndexEntry keeps the bound on the length of the queue (QueueBound).
LEMMA IndexEntryBound ==
    ASSUME Typed, QueueBound, NEW t \in Tasks, IndexEntry(t)
    PROVE  QueueBound'
<1>1. PcStep(t, "indexed")
  BY PcSteps DEF Typed, TypeOK, IndexEntry, NextCommand
<1>2. task[t].pc = "pushed"
  BY DEF IndexEntry, Replied
<1>3. queue' = queue /\ putBacks' = putBacks
  BY DEF IndexEntry, redis, history
<1> QED
  BY <1>1, <1>2, <1>3, StillStep DEF MatcherPC

\* AuditQueued keeps the bound on the length of the queue (QueueBound).
LEMMA AuditQueuedBound ==
    ASSUME Typed, QueueBound, NEW t \in Tasks, AuditQueued(t)
    PROVE  QueueBound'
<1>1. PcStep(t, "audited")
  BY PcSteps DEF Typed, TypeOK, AuditQueued, LeavePipe
<1>2. task[t].pc = "indexed"
  BY DEF AuditQueued, Replied
<1>3. queue' = queue /\ putBacks' = putBacks
  BY DEF AuditQueued, redis, history
<1> QED
  BY <1>1, <1>2, <1>3, StillStep DEF MatcherPC

\* ReadDepth keeps the bound on the length of the queue (QueueBound).
LEMMA ReadDepthBound ==
    ASSUME Typed, QueueBound, NEW t \in Tasks, ReadDepth(t)
    PROVE  QueueBound'
<1>1. PcStep(t, "counted")
  BY PcSteps DEF Typed, TypeOK, ReadDepth
<1>2. task[t].pc = "audited"
  BY DEF ReadDepth
<1>3. queue' = queue /\ putBacks' = putBacks
  BY DEF ReadDepth, redis, history
<1> QED
  BY <1>1, <1>2, <1>3, StillStep DEF MatcherPC

\* DiscardBoth keeps the bound on the length of the queue (QueueBound).
LEMMA DiscardBothBound ==
    ASSUME Typed, QueueBound, NEW t \in Tasks, DiscardBoth(t)
    PROVE  QueueBound'
<1>1. PcStep(t, "idle")
  BY PcSteps DEF Typed, TypeOK, DiscardBoth, Return
<1>2. task[t].pc = "popped"
  BY DEF DiscardBoth, Replied
<1>3. queue' = queue /\ putBacks' = putBacks
  BY DEF DiscardBoth, redis, history
<1> QED
  BY <1>1, <1>2, <1>3, StillStep DEF MatcherPC

\* ForgetStale keeps the bound on the length of the queue (QueueBound).
LEMMA ForgetStaleBound ==
    ASSUME Typed, QueueBound, NEW t \in Tasks, ForgetStale(t)
    PROVE  QueueBound'
<1>1. PcStep(t, "idle")
  BY PcSteps DEF Typed, TypeOK, ForgetStale, Return
<1>2. task[t].pc = "putBack"
  BY DEF ForgetStale, Replied
<1>3. queue' = queue /\ putBacks' = putBacks
  BY DEF ForgetStale, redis, history
<1> QED
  BY <1>1, <1>2, <1>3, StillStep DEF MatcherPC

\* ClearIndex keeps the bound on the length of the queue (QueueBound).
LEMMA ClearIndexBound ==
    ASSUME Typed, QueueBound, NEW t \in Tasks, ClearIndex(t)
    PROVE  QueueBound'
<1>1. PcStep(t, "matched")
  BY PcSteps DEF Typed, TypeOK, ClearIndex, LeavePipe
<1>2. task[t].pc = "popped"
  BY DEF ClearIndex, Replied
<1>3. queue' = queue /\ putBacks' = putBacks
  BY DEF ClearIndex, redis, history
<1> QED
  BY <1>1, <1>2, <1>3, StillStep DEF MatcherPC

\* InitiateCall keeps the bound on the length of the queue (QueueBound).
LEMMA InitiateCallBound ==
    ASSUME Typed, QueueBound, NEW t \in Tasks, InitiateCall(t)
    PROVE  QueueBound'
<1>1. PcStep(t, "initiated")
  BY PcSteps DEF Typed, TypeOK, InitiateCall
<1>2. task[t].pc = "matched"
  BY DEF InitiateCall
<1>3. queue' = queue /\ putBacks' = putBacks
  BY DEF InitiateCall, redis, history
<1> QED
  BY <1>1, <1>2, <1>3, StillStep DEF MatcherPC

\* AcceptCall keeps the bound on the length of the queue (QueueBound).
LEMMA AcceptCallBound ==
    ASSUME Typed, QueueBound, NEW t \in Tasks, AcceptCall(t)
    PROVE  QueueBound'
<1>1. PcStep(t, "accepted")
  BY PcSteps DEF Typed, TypeOK, AcceptCall
<1>2. task[t].pc = "initiated"
  BY DEF AcceptCall
<1>3. queue' = queue /\ putBacks' = putBacks
  BY DEF AcceptCall, redis, history
<1> QED
  BY <1>1, <1>2, <1>3, StillStep DEF MatcherPC

\* Announce keeps the bound on the length of the queue (QueueBound).
LEMMA AnnounceBound ==
    ASSUME Typed, QueueBound, NEW t \in Tasks, Announce(t)
    PROVE  QueueBound'
<1>1. PcStep(t, "idle")
  BY PcSteps DEF Typed, TypeOK, Announce
<1>2. task[t].pc = "accepted"
  BY DEF Announce
<1>3. queue' = queue /\ putBacks' = putBacks
  BY DEF Announce, redis, history
<1> QED
  BY <1>1, <1>2, <1>3, StillStep DEF MatcherPC

\* PairFails keeps the bound on the length of the queue (QueueBound).
LEMMA PairFailsBound ==
    ASSUME Typed, QueueBound, NEW t \in Tasks, PairFails(t)
    PROVE  QueueBound'
<1>1. PcStep(t, "idle")
  BY PcSteps DEF Typed, TypeOK, PairFails
<1>2. task[t].pc \in {"matched", "initiated"}
  BY DEF PairFails
<1>3. queue' = queue /\ putBacks' = putBacks
  BY DEF PairFails, redis, history
<1> QED
  BY <1>1, <1>2, <1>3, StillStep DEF MatcherPC

\* Unindex keeps the bound on the length of the queue (QueueBound).
LEMMA UnindexBound ==
    ASSUME Typed, QueueBound, NEW t \in Tasks, Unindex(t)
    PROVE  QueueBound'
<1>1. PcStep(t, "dequeued")
  BY PcSteps DEF Typed, TypeOK, Unindex, LeavePipe
<1>2. task[t].pc = "removed"
  BY DEF Unindex, Replied
<1>3. queue' = queue /\ putBacks' = putBacks
  BY DEF Unindex, redis, history
<1> QED
  BY <1>1, <1>2, <1>3, StillStep DEF MatcherPC

\* EndLeave keeps the bound on the length of the queue (QueueBound).
LEMMA EndLeaveBound ==
    ASSUME Typed, QueueBound, NEW t \in Tasks, EndLeave(t)
    PROVE  QueueBound'
<1>1. PcStep(t, "idle")
  BY PcSteps DEF Typed, TypeOK, EndLeave
<1>2. task[t].pc \in {"dequeued", "looked"}
  BY DEF EndLeave, Dequeued, Replied
<1>3. queue' = queue /\ putBacks' = putBacks
  BY DEF EndLeave, redis, history
<1> QED
  BY <1>1, <1>2, <1>3, StillStep DEF MatcherPC

\* Forget keeps the bound on the length of the queue (QueueBound).
LEMMA ForgetBound ==
    ASSUME Typed, QueueBound, NEW t \in Tasks, Forget(t)
    PROVE  QueueBound'
<1>1. PcStep(t, "idle")
  BY PcSteps DEF Typed, TypeOK, Forget
<1>2. task[t].pc \in {"dequeued", "looked"}
  BY DEF Forget, Dequeued, Replied
<1>3. queue' = queue /\ putBacks' = putBacks
  BY DEF Forget, redis, history
<1> QED
  BY <1>1, <1>2, <1>3, StillStep DEF MatcherPC

\* HangUp keeps the bound on the length of the queue (QueueBound).
LEMMA HangUpBound ==
    ASSUME Typed, QueueBound, NEW t \in Tasks, HangUp(t)
    PROVE  QueueBound'
<1>1. PcStep(t, "hangup")
  BY PcSteps DEF Typed, TypeOK, HangUp
<1>2. task[t].pc \in {"dequeued", "looked"}
  BY DEF HangUp, Dequeued, Replied
<1>3. queue' = queue /\ putBacks' = putBacks
  BY DEF HangUp, redis, history
<1> QED
  BY <1>1, <1>2, <1>3, StillStep DEF MatcherPC

\* EndCall keeps the bound on the length of the queue (QueueBound).
LEMMA EndCallBound ==
    ASSUME Typed, QueueBound, NEW t \in Tasks, EndCall(t)
    PROVE  QueueBound'
<1>1. PcStep(t, "idle")
  BY PcSteps DEF Typed, TypeOK, EndCall
<1>2. task[t].pc = "hangup"
  BY DEF EndCall
<1>3. queue' = queue /\ putBacks' = putBacks
  BY DEF EndCall, redis, history
<1> QED
  BY <1>1, <1>2, <1>3, StillStep DEF MatcherPC

\* RemoveEntry keeps the bound on the length of the queue (QueueBound).
LEMMA RemoveEntryBound ==
    ASSUME Typed, QueueBound, NEW t \in Tasks, RemoveEntry(t)
    PROVE  QueueBound'
<1>1. PcStep(t, "removed")
  BY PcSteps DEF Typed, TypeOK, RemoveEntry, NextCommand
<1>2. task[t].held[1] \in Entry
  BY DEF Typed, HandlersOK, Handler, RemoveEntry
<1>3. queue' \in Seq(Entry) /\ Len(queue') <= Len(queue)
  BY <1>2, RemoveFirstType DEF Typed, TypeOK, RemoveEntry
<1>4. task[t].pc = "looked" /\ putBacks' = putBacks
  BY DEF RemoveEntry, Replied, history
<1> QED
  BY <1>1, <1>3, <1>4, QuietStep DEF MatcherPC

\* Lookup keeps the bound on the length of the queue (QueueBound).
LEMMA LookupBound ==
    ASSUME Typed, QueueBound, NEW t \in Tasks, NEW s \in Sockets, NEW k, Lookup(t, k, s)
    PROVE  QueueBound'
<1>1. PcStep(t, "looked") /\ task[t].pc = "idle"
  BY PcSteps DEF Typed, TypeOK, Lookup, Begin, Busy
<1>2. queue' = queue /\ putBacks' = putBacks
  BY DEF Lookup, redis, history
<1> QED
  BY <1>1, <1>2, StillStep DEF MatcherPC

\* JoinQueue keeps the bound on the length of the queue (QueueBound).
LEMMA JoinQueueBound ==
    ASSUME Typed, QueueBound, NEW t \in Tasks, NEW s \in Sockets, JoinQueue(t, s)
    PROVE  QueueBound'
<1>1. PcStep(t, "pushed") /\ task[t].pc = "idle"
  BY PcSteps DEF Typed, TypeOK, JoinQueue, Begin, Busy
<1>2. Cardinality(Matchers') = Cardinality(Matchers) + 1
  BY <1>1, MatcherStarts DEF MatcherPC
<1>3. Len(queue') = Len(queue) + 1 /\ putBacks' = putBacks
  BY DEF JoinQueue, Typed, TypeOK
<1> QED
  BY <1>2, <1>3, MatchersFinite DEF QueueBound, Typed, TypeOK

\* PopNone keeps the bound on the length of the queue (QueueBound).
LEMMA PopNoneBound ==
    ASSUME Typed, NEW t \in Tasks, PopNone(t)
    PROVE  QueueBound'
<1>1. PcStep(t, "idle")
  BY PcSteps DEF Typed, TypeOK, PopNone, Return
<1>2. Cardinality(Matchers') \in Nat
  BY <1>1, MatcherStops DEF PopNone, Replied, MatcherPC
<1>3. Len(queue') < 2 /\ putBacks' = putBacks
  BY DEF PopNone, redis, history
<1> QED
  BY <1>2, <1>3 DEF QueueBound, Typed, TypeOK, PopNone, redis

\* Tail takes one element off a sequence that is not empty.
LEMMA TailLen ==
    ASSUME NEW S, NEW q \in Seq(S), Len(q) >= 1
    PROVE  Tail(q) \in Seq(S) /\ Len(Tail(q)) = Len(q) - 1
  OBVIOUS

\* PopPair keeps the bound on the length of the queue (QueueBound).
LEMMA PopPairBound ==
    ASSUME Typed, QueueBound, NEW t \in Tasks, PopPair(t)
    PROVE  QueueBound'
<1>1. PcStep(t, "popped")
  BY PcSteps DEF Typed, TypeOK, PopPair, NextCommand
<1>2. /\ Cardinality(Matchers') \in Nat
      /\ Cardinality(Matchers) = Cardinality(Matchers') + 1
  BY <1>1, MatcherStops DEF PopPair, Replied, MatcherPC
<1>3. Len(queue') = Len(queue) - 2 /\ putBacks' = putBacks
  <2>1. queue \in Seq(Entry) /\ Len(queue) >= 2 /\ queue' = Tail(Tail(queue))
    BY DEF PopPair, Typed, TypeOK
  <2>2. Len(queue) \in Nat
    BY <2>1
  <2>3. Tail(queue) \in Seq(Entry) /\ Len(Tail(queue)) = Len(queue) - 1
    BY <2>1, <2>2, TailLen
  <2>4. Len(Tail(Tail(queue))) = Len(Tail(queue)) - 1
    <3>1. Len(Tail(queue)) >= 1
      BY <2>1, <2>2, <2>3
    <3> QED
      BY <2>3, <3>1, TailLen
  <2>5. putBacks' = putBacks
    BY DEF PopPair, history
  <2> QED
    BY <2>1, <2>2, <2>3, <2>4, <2>5
<1> QED
  BY <1>2, <1>3 DEF QueueBound, Typed, TypeOK

\* PutBack keeps the bound on the length of the queue (QueueBound).
LEMMA PutBackBound ==
    ASSUME Typed, QueueBound, NEW t \in Tasks, PutBack(t)
    PROVE  QueueBound'
<1>1. PICK stale \in {1, 2} : PutBack(t)!(stale)
  BY DEF PutBack
<1>2. PcStep(t, "putBack")
  BY <1>1, PcSteps DEF Typed, TypeOK, NextCommand
<1>3. Matchers' = Matchers
  BY <1>1, <1>2 DEF Matchers, At, PcStep, Replied
<1>4. Len(queue') = Len(queue) + 1 /\ putBacks' = putBacks + 1
  <2>1. task[t].held[3 - stale] \in Entry
    BY <1>1, HeldEntries DEF Replied
  <2> QED
    BY <1>1, <2>1 DEF Typed, TypeOK
<1> QED
  BY <1>3, <1>4, MatchersFinite DEF QueueBound, Typed, TypeOK

\* Next keeps the bound on the length of the queue (QueueBound).
LEMMA NextBound ==
    ASSUME Typed, QueueBound, [Next]_vars
    PROVE  QueueBound'
<1>1. CASE Tick
  BY <1>1 DEF Tick, QueueBound, Matchers, At, redis, history
<1>2. ASSUME NEW s \in Sockets, Connect(s)
      PROVE  QueueBound'
  BY <1>2 DEF Connect, QueueBound, Matchers, At, redis, history
<1>3. ASSUME NEW t \in Tasks, Step(t)
      PROVE  QueueBound'
  BY <1>3, IndexEntryBound, AuditQueuedBound, ReadDepthBound, PopNoneBound,
     PopPairBound, DiscardBothBound, PutBackBound, ForgetStaleBound,
     ClearIndexBound, InitiateCallBound, AcceptCallBound, AnnounceBound,
     PairFailsBound, RemoveEntryBound, UnindexBound, EndLeaveBound,
     ForgetBound, HangUpBound, EndCallBound DEF Step
<1>4. ASSUME NEW t \in Tasks, NEW s \in Sockets, Request(t, s)
      PROVE  QueueBound'
  BY <1>4, JoinQueueBound, LookupBound DEF Request, LeaveQueue, Disconnect
<1>5. CASE UNCHANGED vars
  BY <1>5 DEF vars, QueueBound, Matchers, At
<1> QED
  BY <1>1, <1>2, <1>3, <1>4, <1>5 DEF Next

(* However many handlers run at once, entries that wait beside another one   *)
(* with no tryMatch left to come were stranded by put-backs of stale         *)
(* partners, at most one each; where nothing expires, no pair is stranded.   *)
THEOREM QueueNeverStrands == Spec => []StrandedOnlyByPutBack
<1>1. Init => Typed /\ QueueBound
  <2>1. Init => Len(queue) = 0 /\ putBacks = 0
    BY DEF Init
  <2> QED
    BY <2>1, InitTyped, MatchersFinite DEF QueueBound
<1>2. Typed /\ QueueBound /\ [Next]_vars => (Typed /\ QueueBound)'
  BY NextTyped, NextBound
<1>3. Typed /\ QueueBound => StrandedOnlyByPutBack
  BY FS_EmptySet DEF StrandedOnlyByPutBack, QueueBound, Typed, TypeOK
<1> QED
  BY <1>1, <1>2, <1>3, PTL DEF Spec

----------------------------------------------------------------------------
(* The hash points into the list: an argument about the order of replies.  *)

\* Where a handler has a Redis command outstanding.
RedisPC == {"pushed", "indexed", "counted", "popped", "putBack", "looked", "removed"}

\* A handler is in the pipe, once, exactly while it has a command outstanding.
PipeOK ==
    /\ \A i, j \in DOMAIN pipe : pipe[i] = pipe[j] => i = j
    /\ \A i \in DOMAIN pipe : task[pipe[i]].pc \in RedisPC
    /\ \A t \in Tasks : task[t].pc \in RedisPC => \E i \in DOMAIN pipe : pipe[i] = t

\* b's reply comes after a's.
After(a, b) == \E i, j \in DOMAIN pipe : i < j /\ pipe[i] = a /\ pipe[j] = b

\* An entry is filed under its own socket.
Owned ==
    /\ \A s \in Sockets : index[s] # None => index[s].socket = s
    /\ \A t \in Tasks : task[t].pc \in {"pushed", "looked", "removed"} =>
          /\ task[t].sock \in Sockets
          /\ task[t].held # <<>> => task[t].held[1].socket = task[t].sock
    /\ \A t \in Tasks : task[t].pc = "removed" => task[t].held # <<>>

\* u has taken the entry e out of the list and will delete its socket from the hash.
Covers(u, e) ==
    \/ task[u].pc = "popped" /\ e \in {task[u].held[1], task[u].held[2]}
    \/ task[u].pc = "putBack" /\ e = task[u].held[1]
    \/ task[u].pc = "removed" /\ e.socket = task[u].sock

\* What the hash holds, or is about to be given by a join handler, is in the list or
\* will be deleted; and it is given first, and deleted after that.
Backed ==
    /\ \A s \in Sockets : index[s] # None =>
          index[s] \in Range(queue) \/ \E u \in Tasks : Covers(u, index[s])
    /\ \A t \in Tasks : task[t].pc = "pushed" =>
          \/ task[t].held[1] \in Range(queue)
          \/ \E u \in Tasks : Covers(u, task[t].held[1]) /\ After(t, u)

HashInv == Typed /\ PipeOK /\ Owned /\ Backed

\* t resumes on the next reply.
Next1(t) == pipe # <<>> /\ Head(pipe) = t

\* The four ways in which the step of one handler t changes the pipe.
PipeMove(t) ==
    /\ \A u \in Tasks \ {t} : task'[u] = task[u]
    /\ \/ pipe' = pipe /\ task[t].pc \notin RedisPC /\ task'[t].pc \notin RedisPC
       \/ Next1(t) /\ pipe' = Tail(pipe) /\ task'[t].pc \notin RedisPC
       \/ Next1(t) /\ pipe' = Append(Tail(pipe), t) /\ task'[t].pc \in RedisPC
       \/ pipe' = Append(pipe, t) /\ task[t].pc \notin RedisPC /\ task'[t].pc \in RedisPC

\* Places in the pipe when its head is taken off and when a handler is added.
LEMMA TailAt ==
    ASSUME NEW S, NEW q \in Seq(S), q # <<>>
    PROVE  /\ Tail(q) \in Seq(S) /\ Len(Tail(q)) = Len(q) - 1 /\ Len(q) \in Nat \ {0}
           /\ DOMAIN q = 1 .. Len(q) /\ DOMAIN Tail(q) = 1 .. (Len(q) - 1)
           /\ \A i \in 1 .. (Len(q) - 1) : Tail(q)[i] = q[i + 1]
           /\ Head(q) = q[1]
  OBVIOUS

LEMMA AppendAt ==
    ASSUME NEW S, NEW q \in Seq(S), NEW x \in S
    PROVE  /\ Append(q, x) \in Seq(S) /\ Len(q) \in Nat /\ DOMAIN q = 1 .. Len(q)
           /\ DOMAIN Append(q, x) = 1 .. (Len(q) + 1)
           /\ \A i \in 1 .. Len(q) : Append(q, x)[i] = q[i]
           /\ Append(q, x)[Len(q) + 1] = x
  OBVIOUS

\* The head of the pipe comes after nobody.
LEMMA HeadIsFirst ==
    ASSUME TypeOK, PipeOK, NEW t \in Tasks, Next1(t)
    PROVE  \A a : ~After(a, t)
<1>1. pipe \in Seq(Tasks) /\ pipe # <<>> /\ Head(pipe) = t
  BY DEF TypeOK, Next1
<1>2. pipe[1] = t /\ 1 \in DOMAIN pipe /\ DOMAIN pipe = 1 .. Len(pipe) /\ Len(pipe) \in Nat
  BY <1>1, TailAt
<1>3. QED
  BY <1>2 DEF PipeOK, After

\* The pipe stays in order: the others keep their places before and after each
\* other, and a handler that is added to it comes last.
LEMMA PipeKeepsOrder ==
    ASSUME TypeOK, PipeOK, NEW t \in Tasks, PipeMove(t)
    PROVE  /\ PipeOK'
           /\ \A a, b \in Tasks \ {t} : After(a, b) => After(a, b)'
           /\ task'[t].pc \in RedisPC =>
                 \A a \in Tasks \ {t} : task[a].pc \in RedisPC => After(a, t)'
<1>p. pipe \in Seq(Tasks) /\ DOMAIN pipe = 1 .. Len(pipe) /\ Len(pipe) \in Nat
      /\ \A i \in DOMAIN pipe : pipe[i] \in Tasks
  BY DEF TypeOK
<1>o. \A u \in Tasks \ {t} : task'[u] = task[u]
  BY DEF PipeMove
<1>1. CASE pipe' = pipe /\ task[t].pc \notin RedisPC /\ task'[t].pc \notin RedisPC
  BY <1>1, <1>p, <1>o DEF PipeOK, After
<1>2. CASE Next1(t) /\ pipe' = Tail(pipe) /\ task'[t].pc \notin RedisPC
  <2>1. /\ pipe[1] = t /\ 1 \in DOMAIN pipe /\ DOMAIN pipe' = 1 .. (Len(pipe) - 1)
        /\ \A i \in DOMAIN pipe' : pipe'[i] = pipe[i + 1] /\ i + 1 \in DOMAIN pipe /\ i + 1 # 1
        /\ \A i \in DOMAIN pipe \ {1} : i - 1 \in DOMAIN pipe' /\ pipe'[i - 1] = pipe[i]
    BY <1>2, <1>p, TailAt DEF Next1
  <2>2. \A i \in DOMAIN pipe' : pipe'[i] \in Tasks \ {t}
    BY <1>p, <2>1 DEF PipeOK
  <2>3. PipeOK'
    <3>1. \A i, j \in DOMAIN pipe' : pipe'[i] = pipe'[j] => i = j
      BY <1>p, <2>1 DEF PipeOK
    <3>2. \A i \in DOMAIN pipe' : task'[pipe'[i]].pc \in RedisPC
      BY <1>o, <2>1, <2>2 DEF PipeOK
    <3>3. ASSUME NEW u \in Tasks, task'[u].pc \in RedisPC
          PROVE  \E i \in DOMAIN pipe' : pipe'[i] = u
      <4>1. u # t /\ task[u].pc \in RedisPC
        BY <1>2, <1>o, <3>3
      <4>2. PICK i \in DOMAIN pipe : pipe[i] = u
        BY <4>1 DEF PipeOK
      <4>3. i \in DOMAIN pipe \ {1}
        BY <2>1, <4>1, <4>2
      <4>4. QED
        BY <2>1, <4>2, <4>3
    <3>4. QED
      BY <3>1, <3>2, <3>3 DEF PipeOK
  <2>4. \A a, b \in Tasks \ {t} : After(a, b) => After(a, b)'
    BY <1>p, <2>1 DEF After
  <2>5. QED
    BY <1>2, <2>3, <2>4
<1>3. CASE Next1(t) /\ pipe' = Append(Tail(pipe), t) /\ task'[t].pc \in RedisPC
  <2>0. Tail(pipe) \in Seq(Tasks) /\ Len(Tail(pipe)) = Len(pipe) - 1
    BY <1>3, <1>p, TailAt DEF Next1
  <2>1. /\ pipe[1] = t /\ 1 \in DOMAIN pipe /\ DOMAIN pipe' = 1 .. Len(pipe)
        /\ \A i \in 1 .. (Len(pipe) - 1) : pipe'[i] = pipe[i + 1] /\ i + 1 \in DOMAIN pipe /\ i + 1 # 1
        /\ \A i \in DOMAIN pipe \ {1} : i - 1 \in 1 .. (Len(pipe) - 1) /\ pipe'[i - 1] = pipe[i]
        /\ pipe'[Len(pipe)] = t
    BY <1>3, <1>p, <2>0, TailAt, AppendAt DEF Next1
  <2>2. ASSUME NEW i \in 1 .. (Len(pipe) - 1) PROVE pipe'[i] \in Tasks \ {t}
    <3>1. pipe'[i] = pipe[i + 1] /\ i + 1 \in DOMAIN pipe /\ i + 1 # 1
      BY <2>1
    <3>2. pipe[i + 1] \in Tasks
      BY <1>p, <3>1
    <3>3. pipe[i + 1] # pipe[1]
      BY <1>p, <2>1, <3>1 DEF PipeOK
    <3>4. QED
      BY <2>1, <3>1, <3>2, <3>3
  <2>3. PipeOK'
    <3>0. \A i \in DOMAIN pipe' : i \in 1 .. (Len(pipe) - 1) \/ i = Len(pipe)
      BY <1>p, <2>1
    <3>1. ASSUME NEW i \in DOMAIN pipe', NEW j \in DOMAIN pipe', pipe'[i] = pipe'[j] PROVE i = j
      <4>1. CASE i = Len(pipe) \/ j = Len(pipe)
        BY <2>1, <2>2, <3>0, <3>1, <4>1
      <4>2. CASE i \in 1 .. (Len(pipe) - 1) /\ j \in 1 .. (Len(pipe) - 1)
        <5>1. i + 1 \in DOMAIN pipe /\ j + 1 \in DOMAIN pipe /\ pipe[i + 1] = pipe[j + 1]
          BY <2>1, <3>1, <4>2
        <5>2. i + 1 = j + 1
          BY <5>1 DEF PipeOK
        <5>3. QED
          BY <4>2, <5>2
      <4>3. QED
        BY <3>0, <4>1, <4>2
    <3>2. ASSUME NEW i \in DOMAIN pipe' PROVE task'[pipe'[i]].pc \in RedisPC
      <4>1. CASE i = Len(pipe)
        BY <1>3, <2>1, <4>1
      <4>2. CASE i \in 1 .. (Len(pipe) - 1)
        <5>1. task[pipe'[i]].pc \in RedisPC
          BY <2>1, <4>2 DEF PipeOK
        <5>2. QED
          BY <1>o, <2>2, <4>2, <5>1
      <4>3. QED
        BY <3>0, <4>1, <4>2
    <3>3. ASSUME NEW u \in Tasks, task'[u].pc \in RedisPC
          PROVE  \E i \in DOMAIN pipe' : pipe'[i] = u
      <4>1. CASE u = t
        <5>1. Len(pipe) \in DOMAIN pipe' /\ pipe'[Len(pipe)] = t
          BY <1>p, <2>1
        <5>2. QED
          BY <4>1, <5>1
      <4>2. CASE u # t
        <5>1. task[u].pc \in RedisPC
          BY <1>o, <3>3, <4>2
        <5>2. PICK i \in DOMAIN pipe : pipe[i] = u
          BY <5>1 DEF PipeOK
        <5>3. i \in DOMAIN pipe \ {1}
          BY <2>1, <4>2, <5>2
        <5>4. i - 1 \in DOMAIN pipe' /\ pipe'[i - 1] = u
          BY <1>p, <2>1, <5>2, <5>3
        <5>5. QED
          BY <5>4
      <4>3. QED
        BY <4>1, <4>2
    <3>4. QED
      BY <3>1, <3>2, <3>3 DEF PipeOK
  <2>4. \A a, b \in Tasks \ {t} : After(a, b) => After(a, b)'
    BY <1>p, <2>1 DEF After
  <2>5. \A a \in Tasks \ {t} : task[a].pc \in RedisPC => After(a, t)'
    BY <1>p, <2>1 DEF After, PipeOK
  <2>6. QED
    BY <2>3, <2>4, <2>5
<1>4. CASE pipe' = Append(pipe, t) /\ task[t].pc \notin RedisPC /\ task'[t].pc \in RedisPC
  <2>1. /\ DOMAIN pipe' = 1 .. (Len(pipe) + 1) /\ pipe'[Len(pipe) + 1] = t
        /\ \A i \in DOMAIN pipe : i \in DOMAIN pipe' /\ i < Len(pipe) + 1 /\ pipe'[i] = pipe[i]
    BY <1>4, <1>p, AppendAt
  <2>2. \A i \in DOMAIN pipe : pipe[i] \in Tasks \ {t}
    BY <1>4, <1>p DEF PipeOK
  <2>3. PipeOK'
    <3>1. \A i, j \in DOMAIN pipe' : pipe'[i] = pipe'[j] => i = j
      BY <1>p, <2>1, <2>2 DEF PipeOK
    <3>2. \A i \in DOMAIN pipe' : task'[pipe'[i]].pc \in RedisPC
      BY <1>4, <1>o, <1>p, <2>1, <2>2 DEF PipeOK
    <3>3. \A u \in Tasks : task'[u].pc \in RedisPC => \E i \in DOMAIN pipe' : pipe'[i] = u
      BY <1>4, <1>o, <1>p, <2>1 DEF PipeOK
    <3>4. QED
      BY <3>1, <3>2, <3>3 DEF PipeOK
  <2>4. \A a, b \in Tasks \ {t} : After(a, b) => After(a, b)'
    BY <1>p, <2>1 DEF After
  <2>5. \A a \in Tasks \ {t} : task[a].pc \in RedisPC => After(a, t)'
    BY <1>p, <2>1 DEF After, PipeOK
  <2>6. QED
    BY <2>3, <2>4, <2>5
<1>5. QED
  BY <1>1, <1>2, <1>3, <1>4 DEF PipeMove

\* t goes to p, holding h for the socket s; the other handlers stay as they are.
Goes(t, p, h, s) ==
    /\ \A u \in Tasks \ {t} : task'[u] = task[u]
    /\ task'[t].pc = p /\ task'[t].held = h /\ task'[t].sock = s

\* What the updates of a handler do.
LEMMA HandlerGoes ==
    ASSUME task \in [Tasks -> Handler], NEW t \in Tasks, NEW p
    PROVE  /\ task' = [task EXCEPT ![t].pc = p] => Goes(t, p, task[t].held, task[t].sock)
           /\ \A h : task' = [task EXCEPT ![t].pc = p, ![t].held = h] => Goes(t, p, h, task[t].sock)
           /\ \A c : task' = [task EXCEPT ![t].pc = p, ![t].call = c] =>
                        Goes(t, p, task[t].held, task[t].sock)
           /\ task' = [task EXCEPT ![t] = IdleTask] => Goes(t, "idle", <<>>, None)
           /\ \A k, s, h : Begin(t, k, s, p, h) => Goes(t, p, h, s)
  BY DEF Goes, IdleTask, Begin, Handler

CoverPC == {"popped", "putBack", "removed"}

\* A handler that does not act covers what it covered; one that is elsewhere nothing.
LEMMA CoversFacts ==
    ASSUME NEW t \in Tasks, \A u \in Tasks \ {t} : task'[u] = task[u]
    PROVE  /\ \A u \in Tasks \ {t} : \A e : Covers(u, e) => Covers(u, e)'
           /\ \A u \in Tasks : \A e : Covers(u, e) => task[u].pc \in CoverPC
  BY DEF Covers, CoverPC

\* A step of t that neither starts nor ends a cover and leaves list and hash alone.
LEMMA QuietHash ==
    ASSUME HashInv, Typed', NEW t \in Tasks, NEW p, NEW h, NEW s, PipeMove(t), Goes(t, p, h, s),
           UNCHANGED redis, task[t].pc \notin CoverPC,
           p \notin CoverPC \cup {"pushed"},
           p = "looked" => s \in Sockets /\ (h # <<>> => h[1].socket = s)
    PROVE  HashInv'
<1>1. /\ Typed /\ TypeOK /\ PipeOK /\ Owned /\ Backed
      /\ \A u \in Tasks \ {t} : task'[u] = task[u]
      /\ task'[t].pc = p /\ task'[t].held = h /\ task'[t].sock = s
      /\ queue' = queue /\ index' = index
  BY DEF HashInv, Goes, redis, Typed
<1>2. PipeOK' /\ \A a, b \in Tasks \ {t} : After(a, b) => After(a, b)'
  BY <1>1, PipeKeepsOrder
<1>3. Owned'
  BY <1>1 DEF Owned, CoverPC
<1>4. \A u \in Tasks : \A e : Covers(u, e) => u # t /\ Covers(u, e)'
  BY <1>1, CoversFacts
<1>5. \A r \in Sockets : index'[r] # None =>
         index'[r] \in Range(queue') \/ \E u \in Tasks : Covers(u, index[r])'
  BY <1>1, <1>4 DEF Backed
<1>6. ASSUME NEW a \in Tasks, task'[a].pc = "pushed"
      PROVE  \/ task'[a].held[1] \in Range(queue')
             \/ \E u \in Tasks : Covers(u, task[a].held[1])' /\ After(a, u)'
  <2>1. a # t /\ task'[a] = task[a] /\ task[a].pc = "pushed"
    BY <1>1, <1>6
  <2>2. CASE task[a].held[1] \in Range(queue)
    BY <1>1, <2>1, <2>2
  <2>3. ASSUME NEW u \in Tasks, Covers(u, task[a].held[1]), After(a, u)
        PROVE  Covers(u, task[a].held[1])' /\ After(a, u)'
    <3>1. PICK e : e = task[a].held[1]
      OBVIOUS
    <3>2. Covers(u, e)' /\ u # t
      BY <1>4, <2>3, <3>1
    <3>3. QED
      BY <1>2, <2>1, <2>3, <3>1, <3>2 DEF Covers
  <2>4. QED
    BY <1>1, <2>1, <2>2, <2>3 DEF Backed
<1>7. QED
  BY <1>1, <1>2, <1>3, <1>5, <1>6 DEF HashInv, Backed

\* A step of t on the next reply that ends what t covers, deleting the sockets S from
\* the hash.  No join handler can be waiting to write what t covers: its reply would
\* come before t's.
LEMMA CoverEnds ==
    ASSUME HashInv, Typed', NEW t \in Tasks, NEW p, NEW h, NEW s, NEW S, PipeMove(t),
           Goes(t, p, h, s), Next1(t), queue' = queue, index' = HDel(S),
           \A e : Covers(t, e) => e.socket \in S,
           task[t].pc \in CoverPC, p \notin CoverPC \cup {"pushed", "looked"}
    PROVE  HashInv'
<1>1. /\ Typed /\ TypeOK /\ PipeOK /\ Owned /\ Backed
      /\ \A u \in Tasks \ {t} : task'[u] = task[u]
      /\ task'[t].pc = p
  BY DEF HashInv, Goes, Typed
<1>2. PipeOK' /\ \A a, b \in Tasks \ {t} : After(a, b) => After(a, b)'
  BY <1>1, PipeKeepsOrder
<1>3. \A r \in Sockets : index'[r] # None => index'[r] = index[r] /\ r \notin S
  BY DEF HDel
<1>4. Owned'
  BY <1>1, <1>3 DEF Owned, CoverPC
<1>5. ASSUME NEW r \in Sockets, index'[r] # None
      PROVE  index'[r] \in Range(queue') \/ \E u \in Tasks : Covers(u, index[r])'
  <2>1. PICK e : e = index[r] /\ e = index'[r] /\ e.socket = r
    BY <1>1, <1>3, <1>5 DEF Owned
  <2>2. ~Covers(t, e)
    BY <1>3, <1>5, <2>1
  <2>3. CASE e \in Range(queue)
    BY <2>1, <2>3
  <2>4. ASSUME NEW u \in Tasks, Covers(u, e) PROVE Covers(u, index[r])'
    <3>1. Covers(u, e)'
      BY <1>1, <2>2, <2>4, CoversFacts
    <3>2. QED
      BY <2>1, <3>1
  <2>5. QED
    BY <1>1, <1>3, <1>5, <2>1, <2>3, <2>4 DEF Backed
<1>6. ASSUME NEW a \in Tasks, task'[a].pc = "pushed"
      PROVE  \/ task'[a].held[1] \in Range(queue')
             \/ \E u \in Tasks : Covers(u, task[a].held[1])' /\ After(a, u)'
  <2>1. a # t /\ task'[a] = task[a] /\ task[a].pc = "pushed"
    BY <1>1, <1>6
  <2>2. PICK e : e = task[a].held[1] /\ e = task'[a].held[1]
    BY <2>1
  <2>3. CASE e \in Range(queue)
    BY <2>2, <2>3
  <2>4. ASSUME NEW u \in Tasks, Covers(u, e), After(a, u)
        PROVE  Covers(u, task[a].held[1])' /\ After(a, u)'
    <3>1. u # t
      BY <1>1, <2>4, HeadIsFirst
    <3>2. Covers(u, e)' /\ After(a, u)'
      BY <1>1, <1>2, <2>1, <2>4, <3>1, CoversFacts
    <3>3. QED
      BY <2>2, <3>2
  <2>5. QED
    BY <1>1, <2>1, <2>2, <2>3, <2>4 DEF Backed
<1>7. QED
  BY <1>1, <1>2, <1>3, <1>4, <1>5, <1>6 DEF HashInv, Backed

\* A step of t on the next reply that changes the list: what is no longer in it is
\* covered by t now, and what t covered is in it or covered by t still.
LEMMA CoverMoves ==
    ASSUME HashInv, Typed', NEW t \in Tasks, NEW p, NEW h, NEW s, PipeMove(t),
           Goes(t, p, h, s), Next1(t), index' = index,
           \A e : e \in Range(queue) \/ Covers(t, e) => e \in Range(queue') \/ Covers(t, e)',
           task[t].pc # "pushed", p \in CoverPC,
           p = "removed" => s \in Sockets /\ h # <<>> /\ h[1].socket = s
    PROVE  HashInv'
<1>1. /\ Typed /\ TypeOK /\ PipeOK /\ Owned /\ Backed
      /\ \A u \in Tasks \ {t} : task'[u] = task[u]
      /\ task'[t].pc = p /\ task'[t].held = h /\ task'[t].sock = s
  BY DEF HashInv, Goes, Typed
<1>2. p \in RedisPC /\ "pushed" \in RedisPC
  BY DEF CoverPC, RedisPC
<1>3. /\ PipeOK' /\ \A a, b \in Tasks \ {t} : After(a, b) => After(a, b)'
      /\ \A a \in Tasks \ {t} : task[a].pc \in RedisPC => After(a, t)'
  BY <1>1, <1>2, PipeKeepsOrder
<1>4. Owned'
  BY <1>1 DEF Owned, CoverPC
<1>5. ASSUME NEW r \in Sockets, index'[r] # None
      PROVE  index'[r] \in Range(queue') \/ \E u \in Tasks : Covers(u, index[r])'
  <2>1. PICK e : e = index[r] /\ e = index'[r]
    OBVIOUS
  <2>2. e \in Range(queue) \/ \E u \in Tasks : Covers(u, e)
    BY <1>1, <1>5, <2>1 DEF Backed
  <2>3. e \in Range(queue') \/ \E u \in Tasks : Covers(u, e)'
    BY <1>1, <2>2, CoversFacts
  <2>4. QED
    BY <2>1, <2>3
<1>6. ASSUME NEW a \in Tasks, task'[a].pc = "pushed"
      PROVE  \/ task'[a].held[1] \in Range(queue')
             \/ \E u \in Tasks : Covers(u, task[a].held[1])' /\ After(a, u)'
  <2>1. a # t /\ task'[a] = task[a] /\ task[a].pc = "pushed"
    BY <1>1, <1>6 DEF CoverPC
  <2>2. PICK e : e = task[a].held[1] /\ e = task'[a].held[1]
    BY <2>1
  <2>3. CASE e \in Range(queue)
    <3>1. e \in Range(queue') \/ Covers(t, e)'
      BY <2>3
    <3>2. After(a, t)'
      BY <1>2, <1>3, <2>1
    <3>3. QED
      BY <2>2, <3>1, <3>2
  <2>4. ASSUME NEW u \in Tasks, Covers(u, e), After(a, u)
        PROVE  Covers(u, task[a].held[1])' /\ After(a, u)'
    <3>1. u # t
      BY <1>1, <2>4, HeadIsFirst
    <3>2. Covers(u, e)' /\ After(a, u)'
      BY <1>1, <1>3, <2>1, <2>4, <3>1, CoversFacts
    <3>3. QED
      BY <2>2, <3>2
  <2>5. QED
    BY <1>1, <2>1, <2>2, <2>3, <2>4 DEF Backed
<1>7. QED
  BY <1>1, <1>3, <1>4, <1>5, <1>6 DEF HashInv, Backed

\* The entries of a list that got one more at its end, or at its head.
LEMMA AppendRange ==
    ASSUME NEW S, NEW q \in Seq(S), NEW x \in S
    PROVE  Range(Append(q, x)) = Range(q) \cup {x}
<1>1. /\ DOMAIN q = 1 .. Len(q) /\ DOMAIN Append(q, x) = 1 .. (Len(q) + 1) /\ Len(q) \in Nat
      /\ \A i \in 1 .. Len(q) : Append(q, x)[i] = q[i]
      /\ Append(q, x)[Len(q) + 1] = x
  BY AppendAt
<1>2. \A i \in DOMAIN Append(q, x) : i \in DOMAIN q \/ i = Len(q) + 1
  BY <1>1
<1>3. \A i \in DOMAIN q : i \in DOMAIN Append(q, x)
  BY <1>1
<1>4. Len(q) + 1 \in DOMAIN Append(q, x)
  BY <1>1
<1>5. QED
  BY <1>1, <1>2, <1>3, <1>4 DEF Range

LEMMA ConsAt ==
    ASSUME NEW S, NEW q \in Seq(S), NEW x \in S
    PROVE  /\ <<x>> \o q \in Seq(S) /\ Len(<<x>> \o q) = Len(q) + 1
           /\ (<<x>> \o q)[1] = x /\ \A i \in 1 .. Len(q) : (<<x>> \o q)[i + 1] = q[i]
           /\ Range(<<x>> \o q) = {x} \cup Range(q)
<1>1. /\ <<x>> \o q \in Seq(S) /\ Len(<<x>> \o q) = Len(q) + 1 /\ Len(q) \in Nat
      /\ (<<x>> \o q)[1] = x /\ \A i \in 1 .. Len(q) : (<<x>> \o q)[i + 1] = q[i]
      /\ DOMAIN (<<x>> \o q) = 1 .. (Len(q) + 1) /\ DOMAIN q = 1 .. Len(q)
  OBVIOUS
<1>2. \A i \in 1 .. (Len(q) + 1) : i = 1 \/ (i - 1 \in 1 .. Len(q) /\ (i - 1) + 1 = i)
  BY <1>1
<1>3. \A i \in 1 .. (Len(q) + 1) : (<<x>> \o q)[i] \in {x} \cup Range(q)
  BY <1>1, <1>2 DEF Range
<1>4. \A i \in 1 .. Len(q) : i + 1 \in 1 .. (Len(q) + 1)
  BY <1>1
<1>5. 1 \in 1 .. (Len(q) + 1)
  BY <1>1
<1>6. x \in Range(<<x>> \o q)
  BY <1>1, <1>5 DEF Range
<1>7. \A i \in 1 .. Len(q) : q[i] \in Range(<<x>> \o q)
  BY <1>1, <1>4 DEF Range
<1>8. QED
  BY <1>1, <1>3, <1>6, <1>7 DEF Range

\* LREM leaves every other entry in the list.
LEMMA RemoveFirstKeeps ==
    ASSUME NEW q \in Seq(Entry), NEW e \in Entry, NEW x \in Range(q), x # e
    PROVE  x \in Range(RemoveFirst(q, e))
<1>1. CASE RemoveFirst(q, e) = q
  BY <1>1
<1>2. ASSUME NEW k \in 1 .. Len(q), q[k] = e,
             RemoveFirst(q, e) \in Seq(Entry), Len(RemoveFirst(q, e)) = Len(q) - 1,
             \A i \in 1 .. (Len(q) - 1) :
                RemoveFirst(q, e)[i] = IF i < k THEN q[i] ELSE q[i + 1]
      PROVE  x \in Range(RemoveFirst(q, e))
  <2>1. PICK i \in 1 .. Len(q) : q[i] = x
    BY DEF Range
  <2>2. DOMAIN RemoveFirst(q, e) = 1 .. (Len(q) - 1)
    BY <1>2
  <2>3. CASE i < k
    <3>1. i \in 1 .. (Len(q) - 1) /\ RemoveFirst(q, e)[i] = x
      BY <1>2, <2>1, <2>3
    <3>2. QED
      BY <2>2, <3>1 DEF Range
  <2>4. CASE i > k
    <3>1. i - 1 \in 1 .. (Len(q) - 1) /\ ~(i - 1 < k) /\ (i - 1) + 1 = i
      BY <2>4
    <3>2. RemoveFirst(q, e)[i - 1] = x
      BY <1>2, <2>1, <3>1
    <3>3. QED
      BY <2>2, <3>1, <3>2 DEF Range
  <2>5. i # k
    BY <1>2, <2>1
  <2>6. QED
    BY <2>3, <2>4, <2>5
<1>3. QED
  BY <1>1, <1>2, RemoveFirstAt

\* A join's entry is pushed: it is in the list, and everything else stays there.
LEMMA JoinQueueHash ==
    ASSUME HashInv, Typed', NEW t \in Tasks, NEW r \in Sockets, JoinQueue(t, r)
    PROVE  HashInv'
<1>1. PICK e \in Entry : e = [socket |-> r, enqueuedAt |-> now]
  BY DEF HashInv, Typed, TypeOK, Entry
<1>2. /\ Typed /\ TypeOK /\ PipeOK /\ Owned /\ Backed /\ task \in [Tasks -> Handler]
      /\ queue \in Seq(Entry) /\ e.socket = r
  BY <1>1 DEF HashInv, Typed, TypeOK
<1>3. Begin(t, "join", r, "pushed", <<e>>) /\ queue' = Append(queue, e) /\ index' = index
  BY <1>1 DEF JoinQueue
<1>4. Goes(t, "pushed", <<e>>, r)
  BY <1>2, <1>3, HandlerGoes
<1>5. /\ \A u \in Tasks \ {t} : task'[u] = task[u]
      /\ task'[t].pc = "pushed" /\ task'[t].held = <<e>> /\ task'[t].sock = r
      /\ task[t].pc = "idle"
  BY <1>3, <1>4 DEF Goes, Begin, Busy
<1>6. PipeMove(t)
  BY <1>3, <1>5 DEF PipeMove, Begin, RedisPC
<1>7. PipeOK' /\ \A a, b \in Tasks \ {t} : After(a, b) => After(a, b)'
  BY <1>2, <1>6, PipeKeepsOrder
<1>8. Range(queue') = Range(queue) \cup {e}
  BY <1>2, <1>3, AppendRange
<1>9. Owned'
  BY <1>2, <1>3, <1>5 DEF Owned
<1>10. \A u \in Tasks : \A x : Covers(u, x) => u # t /\ Covers(u, x)'
  BY <1>5, CoversFacts DEF CoverPC
<1>11. ASSUME NEW c \in Sockets, index'[c] # None
       PROVE  index'[c] \in Range(queue') \/ \E u \in Tasks : Covers(u, index[c])'
  BY <1>2, <1>3, <1>8, <1>10, <1>11 DEF Backed
<1>12. ASSUME NEW a \in Tasks, task'[a].pc = "pushed"
       PROVE  \/ task'[a].held[1] \in Range(queue')
              \/ \E u \in Tasks : Covers(u, task[a].held[1])' /\ After(a, u)'
  <2>1. CASE a = t
    BY <1>5, <1>8, <2>1
  <2>2. CASE a # t
    <3>1. PICK x : x = task[a].held[1] /\ x = task'[a].held[1]
      BY <1>5, <2>2
    <3>2. task[a].pc = "pushed"
      BY <1>5, <1>12, <2>2
    <3>3. CASE x \in Range(queue)
      BY <1>8, <3>1, <3>3
    <3>4. ASSUME NEW u \in Tasks, Covers(u, x), After(a, u)
          PROVE  Covers(u, task[a].held[1])' /\ After(a, u)'
      <4>1. u # t /\ Covers(u, x)'
        BY <1>10, <3>4
      <4>2. After(a, u)'
        BY <1>7, <2>2, <3>4, <4>1
      <4>3. QED
        BY <3>1, <4>1, <4>2
    <3>5. QED
      BY <1>2, <3>1, <3>2, <3>3, <3>4 DEF Backed
  <2>3. QED
    BY <2>1, <2>2
<1>13. QED
  BY <1>3, <1>7, <1>9, <1>11, <1>12 DEF HashInv, Backed

\* The HSET of a join: the entry is in the list, or whoever took it out is still to
\* delete it from the hash.
LEMMA IndexEntryHash ==
    ASSUME HashInv, Typed', NEW t \in Tasks, IndexEntry(t)
    PROVE  HashInv'
<1>1. /\ Typed /\ TypeOK /\ PipeOK /\ Owned /\ Backed /\ task \in [Tasks -> Handler]
      /\ index \in [Sockets -> Entry \cup {None}]
  BY DEF HashInv, Typed, TypeOK
<1>2. /\ Next1(t) /\ task[t].pc = "pushed" /\ queue' = queue
      /\ index' = [index EXCEPT ![task[t].sock] = task[t].held[1]]
      /\ task' = [task EXCEPT ![t].pc = "indexed", ![t].held = <<>>]
      /\ pipe' = Append(Tail(pipe), t)
  BY DEF IndexEntry, Replied, Next1, NextCommand
<1>3. Goes(t, "indexed", <<>>, task[t].sock)
  BY <1>1, <1>2, HandlerGoes
<1>4. (\A u \in Tasks \ {t} : task'[u] = task[u]) /\ task'[t].pc = "indexed"
  BY <1>3 DEF Goes
<1>5. PipeMove(t)
  BY <1>2, <1>4 DEF PipeMove, RedisPC
<1>6. PipeOK' /\ \A a, b \in Tasks \ {t} : After(a, b) => After(a, b)'
  BY <1>1, <1>5, PipeKeepsOrder
<1>7. PICK e \in Entry : e = task[t].held[1] /\ e.socket = task[t].sock
  BY <1>1, <1>2, HeldEntries DEF Owned, HandlersOK, WellHeld, Typed
<1>8. \A c \in Sockets : index'[c] = IF c = task[t].sock THEN e ELSE index[c]
  BY <1>1, <1>2, <1>7
<1>9. Owned'
  BY <1>1, <1>4, <1>7, <1>8 DEF Owned
<1>10. \A u \in Tasks : \A x : Covers(u, x) => u # t /\ Covers(u, x)'
  BY <1>2, <1>4, CoversFacts DEF CoverPC
<1>11. ASSUME NEW c \in Sockets, index'[c] # None
       PROVE  index'[c] \in Range(queue') \/ \E u \in Tasks : Covers(u, index[c])'
  <2>1. PICK x : x = index'[c]
    OBVIOUS
  <2>2. x \in Range(queue) \/ \E u \in Tasks : Covers(u, x)
    BY <1>1, <1>2, <1>7, <1>8, <1>11, <2>1 DEF Backed
  <2>3. QED
    BY <1>2, <1>10, <2>1, <2>2
<1>12. ASSUME NEW a \in Tasks, task'[a].pc = "pushed"
       PROVE  \/ task'[a].held[1] \in Range(queue')
              \/ \E u \in Tasks : Covers(u, task[a].held[1])' /\ After(a, u)'
  <2>1. a # t /\ task'[a] = task[a] /\ task[a].pc = "pushed"
    BY <1>4, <1>12
  <2>2. PICK x : x = task[a].held[1] /\ x = task'[a].held[1]
    BY <2>1
  <2>3. CASE x \in Range(queue)
    BY <1>2, <2>2, <2>3
  <2>4. ASSUME NEW u \in Tasks, Covers(u, x), After(a, u)
        PROVE  Covers(u, task[a].held[1])' /\ After(a, u)'
    <3>1. u # t /\ Covers(u, x)'
      BY <1>10, <2>4
    <3>2. After(a, u)'
      BY <1>6, <2>1, <2>4, <3>1
    <3>3. QED
      BY <2>2, <3>1, <3>2
  <2>5. QED
    BY <1>1, <2>1, <2>2, <2>3, <2>4 DEF Backed
<1>13. QED
  BY <1>6, <1>9, <1>11, <1>12 DEF HashInv, Backed

\* The audit insert: t leaves the pipe.
LEMMA AuditQueuedHash ==
    ASSUME HashInv, Typed', NEW t \in Tasks, AuditQueued(t)
    PROVE  HashInv'
<1>1. task \in [Tasks -> Handler] /\ UNCHANGED redis /\ task[t].pc = "indexed"
  BY DEF HashInv, Typed, HandlersOK, AuditQueued, redis, Replied
<1>2. Goes(t, "audited", task[t].held, task[t].sock)
  BY <1>1, HandlerGoes DEF AuditQueued, LeavePipe
<1>3. PipeMove(t)
  BY <1>1, <1>2 DEF AuditQueued, Replied, LeavePipe, Goes, PipeMove, Next1, RedisPC
<1>4. QED
  BY <1>1, <1>2, <1>3, QuietHash DEF CoverPC

\* The LLENs: t enters the pipe.
LEMMA ReadDepthHash ==
    ASSUME HashInv, Typed', NEW t \in Tasks, ReadDepth(t)
    PROVE  HashInv'
<1>1. task \in [Tasks -> Handler] /\ UNCHANGED redis /\ task[t].pc = "audited"
  BY DEF HashInv, Typed, HandlersOK, ReadDepth, redis
<1>2. Goes(t, "counted", task[t].held, task[t].sock)
  BY <1>1, HandlerGoes DEF ReadDepth
<1>3. PipeMove(t)
  BY <1>1, <1>2 DEF ReadDepth, Goes, PipeMove, Next1, RedisPC
<1>4. QED
  BY <1>1, <1>2, <1>3, QuietHash DEF CoverPC

\* The script finds fewer than two entries.
LEMMA PopNoneHash ==
    ASSUME HashInv, Typed', NEW t \in Tasks, PopNone(t)
    PROVE  HashInv'
<1>1. task \in [Tasks -> Handler] /\ UNCHANGED redis /\ task[t].pc = "counted"
  BY DEF HashInv, Typed, HandlersOK, PopNone, redis, Replied
<1>2. Goes(t, "idle", <<>>, None)
  BY <1>1, HandlerGoes DEF PopNone, Return
<1>3. PipeMove(t)
  BY <1>1, <1>2 DEF PopNone, Replied, Return, Goes, PipeMove, Next1, RedisPC
<1>4. QED
  BY <1>1, <1>2, <1>3, QuietHash DEF CoverPC

\* initiateCall touches neither list nor hash.
LEMMA InitiateCallHash ==
    ASSUME HashInv, Typed', NEW t \in Tasks, InitiateCall(t)
    PROVE  HashInv'
<1>1. task \in [Tasks -> Handler] /\ UNCHANGED redis /\ task[t].pc = "matched"
  BY DEF HashInv, Typed, HandlersOK, InitiateCall, redis
<1>2. Goes(t, "initiated", task[t].held, task[t].sock)
  BY <1>1, HandlerGoes DEF InitiateCall
<1>3. PipeMove(t)
  BY <1>1, <1>2 DEF InitiateCall, Goes, PipeMove, Next1, RedisPC
<1>4. QED
  BY <1>1, <1>2, <1>3, QuietHash DEF CoverPC

\* acceptCall touches neither list nor hash.
LEMMA AcceptCallHash ==
    ASSUME HashInv, Typed', NEW t \in Tasks, AcceptCall(t)
    PROVE  HashInv'
<1>1. task \in [Tasks -> Handler] /\ UNCHANGED redis /\ task[t].pc = "initiated"
  BY DEF HashInv, Typed, HandlersOK, AcceptCall, redis
<1>2. Goes(t, "accepted", task[t].held, task[t].sock)
  BY <1>1, HandlerGoes DEF AcceptCall
<1>3. PipeMove(t)
  BY <1>1, <1>2 DEF AcceptCall, Goes, PipeMove, Next1, RedisPC
<1>4. QED
  BY <1>1, <1>2, <1>3, QuietHash DEF CoverPC

\* A pairing that fails touches neither list nor hash.
LEMMA PairFailsHash ==
    ASSUME HashInv, Typed', NEW t \in Tasks, PairFails(t)
    PROVE  HashInv'
<1>1. task \in [Tasks -> Handler] /\ UNCHANGED redis /\ task[t].pc \in {"matched", "initiated"}
  BY DEF HashInv, Typed, HandlersOK, PairFails, redis
<1>2. Goes(t, "idle", <<>>, None)
  BY <1>1, HandlerGoes DEF PairFails
<1>3. PipeMove(t)
  BY <1>1, <1>2 DEF PairFails, Goes, PipeMove, Next1, RedisPC
<1>4. QED
  BY <1>1, <1>2, <1>3, QuietHash DEF CoverPC

\* match:found touches neither list nor hash.
LEMMA AnnounceHash ==
    ASSUME HashInv, Typed', NEW t \in Tasks, Announce(t)
    PROVE  HashInv'
<1>1. task \in [Tasks -> Handler] /\ UNCHANGED redis /\ task[t].pc = "accepted"
  BY DEF HashInv, Typed, HandlersOK, Announce, redis
<1>2. Goes(t, "idle", <<>>, None)
  BY <1>1, HandlerGoes DEF Announce
<1>3. PipeMove(t)
  BY <1>1, <1>2 DEF Announce, Goes, PipeMove, Next1, RedisPC
<1>4. QED
  BY <1>1, <1>2, <1>3, QuietHash DEF CoverPC

\* A leave handler returns.
LEMMA EndLeaveHash ==
    ASSUME HashInv, Typed', NEW t \in Tasks, EndLeave(t)
    PROVE  HashInv'
<1>1. task \in [Tasks -> Handler] /\ UNCHANGED redis /\ task[t].pc \in {"looked", "dequeued"}
  BY DEF HashInv, Typed, HandlersOK, EndLeave, redis, Replied, Dequeued
<1>2. Goes(t, "idle", <<>>, None)
  BY <1>1, HandlerGoes DEF EndLeave
<1>3. PipeMove(t)
  BY <1>1, <1>2 DEF EndLeave, Replied, Dequeued, Goes, PipeMove, Next1, RedisPC
<1>4. QED
  BY <1>1, <1>2, <1>3, QuietHash DEF CoverPC

\* handleDisconnect without a call returns.
LEMMA ForgetHash ==
    ASSUME HashInv, Typed', NEW t \in Tasks, Forget(t)
    PROVE  HashInv'
<1>1. task \in [Tasks -> Handler] /\ UNCHANGED redis /\ task[t].pc \in {"looked", "dequeued"}
  BY DEF HashInv, Typed, HandlersOK, Forget, redis, Replied, Dequeued
<1>2. Goes(t, "idle", <<>>, None)
  BY <1>1, HandlerGoes DEF Forget
<1>3. PipeMove(t)
  BY <1>1, <1>2 DEF Forget, Replied, Dequeued, Goes, PipeMove, Next1, RedisPC
<1>4. QED
  BY <1>1, <1>2, <1>3, QuietHash DEF CoverPC

\* handleDisconnect goes on to end the call.
LEMMA HangUpHash ==
    ASSUME HashInv, Typed', NEW t \in Tasks, HangUp(t)
    PROVE  HashInv'
<1>1. task \in [Tasks -> Handler] /\ UNCHANGED redis /\ task[t].pc \in {"looked", "dequeued"}
  BY DEF HashInv, Typed, HandlersOK, HangUp, redis, Replied, Dequeued
<1>2. Goes(t, "hangup", task[t].held, task[t].sock)
  BY <1>1, HandlerGoes DEF HangUp
<1>3. PipeMove(t)
  BY <1>1, <1>2 DEF HangUp, Replied, Dequeued, Goes, PipeMove, Next1, RedisPC
<1>4. QED
  BY <1>1, <1>2, <1>3, QuietHash DEF CoverPC

\* handleDisconnect returns after endCall.
LEMMA EndCallHash ==
    ASSUME HashInv, Typed', NEW t \in Tasks, EndCall(t)
    PROVE  HashInv'
<1>1. task \in [Tasks -> Handler] /\ UNCHANGED redis /\ task[t].pc = "hangup"
  BY DEF HashInv, Typed, HandlersOK, EndCall, redis
<1>2. Goes(t, "idle", <<>>, None)
  BY <1>1, HandlerGoes DEF EndCall
<1>3. PipeMove(t)
  BY <1>1, <1>2 DEF EndCall, Goes, PipeMove, Next1, RedisPC
<1>4. QED
  BY <1>1, <1>2, <1>3, QuietHash DEF CoverPC

\* Both stale: their sockets are deleted from the hash.
LEMMA DiscardBothHash ==
    ASSUME HashInv, Typed', NEW t \in Tasks, DiscardBoth(t)
    PROVE  HashInv'
<1>1. /\ task \in [Tasks -> Handler] /\ Next1(t) /\ task[t].pc = "popped" /\ queue' = queue
      /\ index' = HDel({task[t].held[1].socket, task[t].held[2].socket}) /\ Return(t)
  BY DEF HashInv, Typed, HandlersOK, DiscardBoth, Replied, Next1
<1>2. Goes(t, "idle", <<>>, None)
  BY <1>1, HandlerGoes DEF Return
<1>3. PipeMove(t)
  BY <1>1, <1>2 DEF Return, Goes, PipeMove, RedisPC
<1>4. \A e : Covers(t, e) => e.socket \in {task[t].held[1].socket, task[t].held[2].socket}
  BY <1>1 DEF Covers
<1>5. QED
  BY <1>1, <1>2, <1>3, <1>4, CoverEnds DEF CoverPC

\* The put-back's second half: the stale socket is deleted.
LEMMA ForgetStaleHash ==
    ASSUME HashInv, Typed', NEW t \in Tasks, ForgetStale(t)
    PROVE  HashInv'
<1>1. /\ task \in [Tasks -> Handler] /\ Next1(t) /\ task[t].pc = "putBack" /\ queue' = queue
      /\ index' = HDel({task[t].held[1].socket}) /\ Return(t)
  BY DEF HashInv, Typed, HandlersOK, ForgetStale, Replied, Next1
<1>2. Goes(t, "idle", <<>>, None)
  BY <1>1, HandlerGoes DEF Return
<1>3. PipeMove(t)
  BY <1>1, <1>2 DEF Return, Goes, PipeMove, RedisPC
<1>4. \A e : Covers(t, e) => e.socket \in {task[t].held[1].socket}
  BY <1>1 DEF Covers
<1>5. QED
  BY <1>1, <1>2, <1>3, <1>4, CoverEnds DEF CoverPC

\* Both fresh: their sockets are deleted from the hash.
LEMMA ClearIndexHash ==
    ASSUME HashInv, Typed', NEW t \in Tasks, ClearIndex(t)
    PROVE  HashInv'
<1>1. /\ task \in [Tasks -> Handler] /\ Next1(t) /\ task[t].pc = "popped" /\ queue' = queue
      /\ index' = HDel({task[t].held[1].socket, task[t].held[2].socket}) /\ LeavePipe(t, "matched")
  BY DEF HashInv, Typed, HandlersOK, ClearIndex, Replied, Next1
<1>2. Goes(t, "matched", task[t].held, task[t].sock)
  BY <1>1, HandlerGoes DEF LeavePipe
<1>3. PipeMove(t)
  BY <1>1, <1>2 DEF LeavePipe, Goes, PipeMove, RedisPC
<1>4. \A e : Covers(t, e) => e.socket \in {task[t].held[1].socket, task[t].held[2].socket}
  BY <1>1 DEF Covers
<1>5. QED
  BY <1>1, <1>2, <1>3, <1>4, CoverEnds DEF CoverPC

\* The HDEL of dequeue.
LEMMA UnindexHash ==
    ASSUME HashInv, Typed', NEW t \in Tasks, Unindex(t)
    PROVE  HashInv'
<1>1. /\ task \in [Tasks -> Handler] /\ Next1(t) /\ task[t].pc = "removed" /\ queue' = queue
      /\ index' = HDel({task[t].sock}) /\ LeavePipe(t, "dequeued")
  BY DEF HashInv, Typed, HandlersOK, Unindex, Replied, Next1
<1>2. Goes(t, "dequeued", task[t].held, task[t].sock)
  BY <1>1, HandlerGoes DEF LeavePipe
<1>3. PipeMove(t)
  BY <1>1, <1>2 DEF LeavePipe, Goes, PipeMove, RedisPC
<1>4. \A e : Covers(t, e) => e.socket \in {task[t].sock}
  BY <1>1 DEF Covers
<1>5. QED
  BY <1>1, <1>2, <1>3, <1>4, CoverEnds DEF CoverPC

\* What a pop leaves of the list: all but its first two entries.
LEMMA PoppedRange ==
    ASSUME NEW S, NEW q \in Seq(S), Len(q) >= 2
    PROVE  Range(q) = Range(Tail(Tail(q))) \cup {q[1], q[2]}
<1>1. /\ Tail(q) \in Seq(S) /\ Len(Tail(q)) = Len(q) - 1 /\ Len(q) \in Nat
      /\ DOMAIN q = 1 .. Len(q) /\ \A i \in 1 .. (Len(q) - 1) : Tail(q)[i] = q[i + 1]
  BY TailAt
<1>2. /\ DOMAIN Tail(Tail(q)) = 1 .. (Len(q) - 2)
      /\ \A i \in 1 .. (Len(q) - 2) : Tail(Tail(q))[i] = q[i + 2]
  <2>1. Tail(q) # <<>>
    <3>1. Len(Tail(q)) # 0
      BY <1>1
    <3>2. Len(<<>>) = 0
      OBVIOUS
    <3>3. QED
      BY <3>1, <3>2, Zenon
  <2>2. /\ DOMAIN Tail(Tail(q)) = 1 .. (Len(Tail(q)) - 1)
        /\ \A i \in 1 .. (Len(Tail(q)) - 1) : Tail(Tail(q))[i] = Tail(q)[i + 1]
    BY <1>1, <2>1, TailAt
  <2>3. QED
    BY <1>1, <2>2
<1>3. ASSUME NEW i \in 1 .. Len(q) PROVE q[i] \in Range(Tail(Tail(q))) \cup {q[1], q[2]}
  <2>1. CASE i = 1 \/ i = 2
    BY <2>1
  <2>2. CASE i > 2
    <3>1. i - 2 \in 1 .. (Len(q) - 2) /\ (i - 2) + 2 = i
      BY <1>1, <2>2
    <3>2. QED
      BY <1>2, <3>1 DEF Range
  <2>3. QED
    BY <1>1, <2>1, <2>2
<1>4. ASSUME NEW i \in 1 .. (Len(q) - 2) PROVE Tail(Tail(q))[i] \in Range(q)
  BY <1>1, <1>2 DEF Range
<1>5. q[1] \in Range(q) /\ q[2] \in Range(q)
  BY <1>1 DEF Range
<1>6. QED
  BY <1>1, <1>2, <1>3, <1>4, <1>5 DEF Range

\* The pop: t covers the two entries it takes.
LEMMA PopPairHash ==
    ASSUME HashInv, Typed', NEW t \in Tasks, PopPair(t)
    PROVE  HashInv'
<1>1. /\ task \in [Tasks -> Handler] /\ Next1(t) /\ task[t].pc = "counted" /\ index' = index
      /\ queue \in Seq(Entry) /\ Len(queue) >= 2 /\ queue' = Tail(Tail(queue))
      /\ task' = [task EXCEPT ![t].pc = "popped", ![t].held = <<queue[1], queue[2]>>]
      /\ pipe' = Append(Tail(pipe), t)
  BY DEF HashInv, Typed, TypeOK, HandlersOK, PopPair, Replied, NextCommand, Next1
<1>2. Goes(t, "popped", <<queue[1], queue[2]>>, task[t].sock)
  BY <1>1, HandlerGoes
<1>3. PipeMove(t)
  BY <1>1, <1>2 DEF Goes, PipeMove, RedisPC
<1>4. ASSUME NEW e, e \in Range(queue) \/ Covers(t, e)
      PROVE  e \in Range(queue') \/ Covers(t, e)'
  <2>1. e \in Range(queue)
    BY <1>1, <1>4 DEF Covers
  <2>2. e \in Range(queue') \/ e = queue[1] \/ e = queue[2]
    BY <1>1, <2>1, PoppedRange
  <2>3. QED
    BY <1>2, <2>2 DEF Goes, Covers
<1>5. QED
  BY <1>1, <1>2, <1>3, <1>4, CoverMoves DEF CoverPC

\* The put-back: the fresh entry is in the list again, the stale one still covered.
LEMMA PutBackHash ==
    ASSUME HashInv, Typed', NEW t \in Tasks, PutBack(t)
    PROVE  HashInv'
<1>1. PICK stale \in {1, 2} : PutBack(t)!(stale)
  BY DEF PutBack
<1>2. PICK f \in Entry : f = task[t].held[3 - stale]
  BY <1>1, HeldEntries DEF Replied, HashInv
<1>3. /\ task \in [Tasks -> Handler] /\ Next1(t) /\ task[t].pc = "popped" /\ index' = index
      /\ queue \in Seq(Entry) /\ queue' = <<f>> \o queue
      /\ task' = [task EXCEPT ![t].pc = "putBack", ![t].held = <<task[t].held[stale]>>]
      /\ pipe' = Append(Tail(pipe), t)
  BY <1>1, <1>2 DEF HashInv, Typed, TypeOK, HandlersOK, Replied, NextCommand, Next1
<1>4. Goes(t, "putBack", <<task[t].held[stale]>>, task[t].sock)
  BY <1>3, HandlerGoes
<1>5. PipeMove(t)
  BY <1>3, <1>4 DEF Goes, PipeMove, RedisPC
<1>6. Range(queue') = {f} \cup Range(queue)
  BY <1>3, ConsAt
<1>7. ASSUME NEW e, e \in Range(queue) \/ Covers(t, e)
      PROVE  e \in Range(queue') \/ Covers(t, e)'
  <2>1. e \in Range(queue) \/ e = f \/ e = task[t].held[stale]
    BY <1>2, <1>3, <1>7 DEF Covers
  <2>2. task'[t].pc = "putBack" /\ task'[t].held[1] = task[t].held[stale]
    BY <1>4 DEF Goes
  <2>3. PICK g : g = task[t].held[stale] /\ g = task'[t].held[1]
    BY <2>2
  <2>4. QED
    BY <1>6, <2>1, <2>2, <2>3 DEF Covers
<1>8. QED
  BY <1>3, <1>4, <1>5, <1>7, CoverMoves DEF CoverPC

\* The LREM of dequeue: t covers all entries of its socket.
LEMMA RemoveEntryHash ==
    ASSUME HashInv, Typed', NEW t \in Tasks, RemoveEntry(t)
    PROVE  HashInv'
<1>1. /\ task \in [Tasks -> Handler] /\ Next1(t) /\ task[t].pc = "looked" /\ index' = index
      /\ queue \in Seq(Entry) /\ task[t].held # <<>>
      /\ queue' = RemoveFirst(queue, task[t].held[1])
      /\ task' = [task EXCEPT ![t].pc = "removed", ![t].held = task[t].held]
      /\ pipe' = Append(Tail(pipe), t)
  BY DEF HashInv, Typed, TypeOK, HandlersOK, RemoveEntry, Replied, NextCommand, Next1
<1>2. Goes(t, "removed", task[t].held, task[t].sock)
  BY <1>1, HandlerGoes
<1>3. PipeMove(t)
  BY <1>1, <1>2 DEF Goes, PipeMove, RedisPC
<1>4. task[t].sock \in Sockets /\ task[t].held[1].socket = task[t].sock
  BY <1>1 DEF HashInv, Owned
<1>5. PICK f \in Entry : f = task[t].held[1]
  <2>1. task[t].held \in Seq(Entry)
    BY <1>1 DEF Handler
  <2>2. QED
    BY <1>1, <2>1
<1>6. \A e \in Range(queue) \ {f} : e \in Range(queue')
  BY <1>1, <1>5, RemoveFirstKeeps
<1>7. ASSUME NEW e, e \in Range(queue) \/ Covers(t, e)
      PROVE  e \in Range(queue') \/ Covers(t, e)'
  <2>1. e \in Range(queue)
    BY <1>1, <1>7 DEF Covers
  <2>2. task'[t].pc = "removed" /\ task'[t].sock = task[t].sock
    BY <1>2 DEF Goes
  <2>3. QED
    BY <1>4, <1>5, <1>6, <2>1, <2>2 DEF Covers
<1>8. QED
  BY <1>1, <1>2, <1>3, <1>4, <1>7, CoverMoves DEF CoverPC

\* A lookup holds what the hash has for its socket.
LEMMA LookupHash ==
    ASSUME HashInv, Typed', NEW t \in Tasks, NEW k, NEW r \in Sockets, Lookup(t, k, r)
    PROVE  HashInv'
<1>1. PICK h : h = IF index[r] = None THEN <<>> ELSE <<index[r]>>
  OBVIOUS
<1>2. h # <<>> => h[1].socket = r
  BY <1>1 DEF HashInv, Owned
<1>3. Begin(t, k, r, "looked", h) /\ UNCHANGED redis /\ task \in [Tasks -> Handler]
  BY <1>1 DEF Lookup, redis, HashInv, Typed, HandlersOK
<1>4. Goes(t, "looked", h, r) /\ task[t].pc = "idle"
  BY <1>3, HandlerGoes DEF Begin, Busy
<1>5. PipeMove(t)
  BY <1>3, <1>4 DEF Begin, Goes, PipeMove, RedisPC
<1>6. QED
  BY <1>2, <1>3, <1>4, <1>5, QuietHash DEF CoverPC

\* Every step keeps the hash backed by the list.
LEMMA NextHash ==
    ASSUME HashInv, [Next]_vars
    PROVE  HashInv'
<1>1. Typed'
  BY NextTyped DEF HashInv
<1>2. ASSUME UNCHANGED <<task, pipe, queue, index>> PROVE HashInv'
  BY <1>1, <1>2 DEF HashInv, PipeOK, Owned, Backed, Covers, After
<1>3. CASE Tick \/ UNCHANGED vars \/ \E s \in Sockets : Connect(s)
  BY <1>2, <1>3 DEF Tick, Connect, vars, redis
<1>4. ASSUME NEW t \in Tasks, Step(t) PROVE HashInv'
  BY <1>1, <1>4, IndexEntryHash, AuditQueuedHash, ReadDepthHash, PopNoneHash, PopPairHash,
     DiscardBothHash, PutBackHash, ForgetStaleHash, ClearIndexHash, InitiateCallHash,
     AcceptCallHash, AnnounceHash, PairFailsHash, RemoveEntryHash, UnindexHash,
     EndLeaveHash, ForgetHash, HangUpHash, EndCallHash DEF Step
<1>5. ASSUME NEW t \in Tasks, NEW s \in Sockets, Request(t, s) PROVE HashInv'
  BY <1>1, <1>5, JoinQueueHash, LookupHash DEF Request, LeaveQueue, Disconnect
<1>6. QED
  BY <1>3, <1>4, <1>5 DEF Next

(* The hash that dequeue trusts points only at entries that are still in the list,  *)
(* whenever no handler is between taking an entry out of the list and its HDEL.     *)
THEOREM IndexIsBacked == Spec => []IndexPointsIntoQueue
<1>1. Init => HashInv
  BY InitTyped DEF Init, IdleTask, HashInv, PipeOK, Owned, Backed, RedisPC
<1>2. HashInv /\ [Next]_vars => HashInv'
  BY NextHash
<1>3. HashInv => IndexPointsIntoQueue
  BY CoversFacts DEF HashInv, Backed, Covers, CoverPC, IndexPointsIntoQueue, At
<1>4. QED
  BY <1>1, <1>2, <1>3, PTL DEF Spec

----------------------------------------------------------------------------
(* Every match:found is paid for by a join-queue request.                  *)

\* Where a handler has taken two entries that may still become a match.
TakenPC == {"popped", "matched", "initiated", "accepted"}

\* The entries of socket s that handlers have taken, by handler and place.
Taken(s) ==
    {p \in Tasks \X {1, 2} : task[p[1]].pc \in TakenPC /\ task[p[1]].held[p[2]].socket = s}

\* Every join-queue request of s accounts for one of: a match:found, an entry in the
\* list, an entry a handler has taken.
Accounted ==
    \A s \in Sockets : found[s] + CountOf(s, queue) + Cardinality(Taken(s)) <= joins[s]

\* 1 if e is an entry of s.
Mine(e, s) == IF e.socket = s THEN 1 ELSE 0

\* There are finitely many entries in the list and with the handlers.
LEMMA CountFinite ==
    ASSUME NEW q \in Seq(Entry), NEW s
    PROVE  IsFiniteSet({i \in DOMAIN q : q[i].socket = s}) /\ CountOf(s, q) \in Nat
<1>1. IsFiniteSet(1 .. Len(q)) /\ DOMAIN q = 1 .. Len(q)
  BY FS_Interval
<1>2. IsFiniteSet({i \in DOMAIN q : q[i].socket = s})
  BY <1>1, FS_Subset
<1>3. QED
  BY <1>2, FS_CardinalityType DEF CountOf

LEMMA TakenFinite ==
    \A s : /\ IsFiniteSet(Taken(s)) /\ Cardinality(Taken(s)) \in Nat
          /\ IsFiniteSet(Taken(s)') /\ Cardinality(Taken(s)') \in Nat
<1>1. IsFiniteSet({1, 2})
  <2>1. IsFiniteSet({1})
    BY FS_Singleton
  <2>2. IsFiniteSet({1} \cup {2})
    BY <2>1, FS_AddElement
  <2>3. {1} \cup {2} = {1, 2}
    OBVIOUS
  <2>4. QED
    BY <2>2, <2>3
<1>2. IsFiniteSet(Tasks \X {1, 2})
  BY <1>1, TasksFinite, FS_Product
<1>3. ASSUME NEW s PROVE IsFiniteSet(Taken(s)) /\ IsFiniteSet(Taken(s)')
  <2>1. Taken(s) \subseteq Tasks \X {1, 2} /\ Taken(s)' \subseteq Tasks \X {1, 2}
    BY DEF Taken
  <2>2. QED
    BY <1>2, <2>1, FS_Subset
<1>4. QED
  BY <1>3, FS_CardinalityType

\* An entry more at the end of the list.
LEMMA CountAppend ==
    ASSUME NEW q \in Seq(Entry), NEW e \in Entry, NEW s
    PROVE  CountOf(s, Append(q, e)) = CountOf(s, q) + Mine(e, s)
<1>1. PICK S : S = {i \in DOMAIN q : q[i].socket = s}
  OBVIOUS
<1>2. /\ DOMAIN q = 1 .. Len(q) /\ DOMAIN Append(q, e) = 1 .. (Len(q) + 1) /\ Len(q) \in Nat
      /\ \A i \in 1 .. Len(q) : Append(q, e)[i] = q[i]
      /\ Append(q, e)[Len(q) + 1] = e
  BY AppendAt
<1>3. IsFiniteSet(S) /\ Cardinality(S) \in Nat /\ CountOf(s, q) = Cardinality(S)
  BY <1>1, CountFinite DEF CountOf
<1>4. Len(q) + 1 \notin S
  BY <1>1, <1>2
<1>5. \A i \in 1 .. (Len(q) + 1) : i \in 1 .. Len(q) \/ i = Len(q) + 1
  BY <1>2
<1>6. CASE e.socket = s
  <2>1. {i \in DOMAIN Append(q, e) : Append(q, e)[i].socket = s} = S \cup {Len(q) + 1}
    BY <1>1, <1>2, <1>5, <1>6
  <2>2. Cardinality(S \cup {Len(q) + 1}) = Cardinality(S) + 1
    BY <1>3, <1>4, FS_AddElement
  <2>3. QED
    BY <1>3, <1>6, <2>1, <2>2 DEF CountOf, Mine
<1>7. CASE e.socket # s
  <2>1. {i \in DOMAIN Append(q, e) : Append(q, e)[i].socket = s} = S
    BY <1>1, <1>2, <1>5, <1>7
  <2>2. CountOf(s, Append(q, e)) = Cardinality(S)
    BY <2>1 DEF CountOf
  <2>3. Mine(e, s) = 0
    BY <1>7 DEF Mine
  <2>4. QED
    BY <1>3, <2>2, <2>3
<1>8. QED
  BY <1>6, <1>7

\* The head of a list and its tail.
LEMMA CountTail ==
    ASSUME NEW q \in Seq(Entry), q # <<>>, NEW s
    PROVE  CountOf(s, q) = CountOf(s, Tail(q)) + Mine(q[1], s)
<1>1. PICK S : S = {i \in DOMAIN Tail(q) : Tail(q)[i].socket = s}
  OBVIOUS
<1>2. PICK T : T = {i \in 2 .. Len(q) : q[i].socket = s}
  OBVIOUS
<1>3. /\ Tail(q) \in Seq(Entry) /\ Len(q) \in Nat \ {0}
      /\ DOMAIN q = 1 .. Len(q) /\ DOMAIN Tail(q) = 1 .. (Len(q) - 1)
      /\ \A i \in 1 .. (Len(q) - 1) : Tail(q)[i] = q[i + 1]
  BY TailAt
<1>4. IsFiniteSet(S) /\ Cardinality(S) \in Nat /\ CountOf(s, Tail(q)) = Cardinality(S)
  BY <1>1, <1>3, CountFinite DEF CountOf
<1>5. IsFiniteSet(T) /\ Cardinality(T) = Cardinality(S)
  <2>1. PICK f : f = [i \in S |-> i + 1]
    OBVIOUS
  <2>2. f \in Injection(S, T)
    <3>1. ASSUME NEW i \in S PROVE f[i] \in T
      BY <1>1, <1>2, <1>3, <2>1
    <3>2. ASSUME NEW i \in S, NEW j \in S, f[i] = f[j] PROVE i = j
      BY <1>1, <1>3, <2>1, <3>2
    <3>3. f \in [S -> T]
      BY <2>1, <3>1
    <3>4. QED
      BY <3>2, <3>3 DEF Injection, IsInjective
  <2>3. f \in Surjection(S, T)
    <3>1. ASSUME NEW j \in T PROVE \E i \in S : f[i] = j
      <4>1. j - 1 \in 1 .. (Len(q) - 1) /\ (j - 1) + 1 = j /\ q[j].socket = s
        BY <1>2, <1>3
      <4>2. j - 1 \in S
        BY <1>1, <1>3, <4>1
      <4>3. f[j - 1] = j
        BY <2>1, <4>1, <4>2
      <4>4. QED
        BY <4>2, <4>3
    <3>2. f \in [S -> T]
      BY <2>2 DEF Injection
    <3>3. QED
      BY <3>1, <3>2 DEF Surjection
  <2>4. ExistsBijection(S, T)
    BY <2>2, <2>3 DEF ExistsBijection, Bijection
  <2>5. QED
    BY <1>4, <2>4, FS_Bijection
<1>6. 1 \notin T
  BY <1>2
<1>7. \A i \in 1 .. Len(q) : i = 1 \/ i \in 2 .. Len(q)
  BY <1>3
<1>8. 2 .. Len(q) \subseteq 1 .. Len(q) /\ 1 \in 1 .. Len(q)
  BY <1>3
<1>9. CASE q[1].socket = s
  <2>1. {i \in DOMAIN q : q[i].socket = s} = T \cup {1}
    BY <1>2, <1>3, <1>7, <1>8, <1>9
  <2>2. Cardinality(T \cup {1}) = Cardinality(T) + 1
    BY <1>5, <1>6, FS_AddElement
  <2>3. QED
    BY <1>4, <1>5, <1>9, <2>1, <2>2 DEF CountOf, Mine
<1>10. CASE q[1].socket # s
  <2>1. {i \in DOMAIN q : q[i].socket = s} = T
    BY <1>2, <1>3, <1>7, <1>8, <1>10
  <2>2. CountOf(s, q) = Cardinality(T)
    BY <2>1 DEF CountOf
  <2>3. Mine(q[1], s) = 0
    BY <1>10 DEF Mine
  <2>4. QED
    BY <1>4, <1>5, <2>2, <2>3
<1>11. QED
  BY <1>9, <1>10

\* An entry more at the head of the list.
LEMMA CountCons ==
    ASSUME NEW q \in Seq(Entry), NEW e \in Entry, NEW s
    PROVE  CountOf(s, <<e>> \o q) = CountOf(s, q) + Mine(e, s)
<1>1. <<e>> \o q \in Seq(Entry) /\ (<<e>> \o q)[1] = e /\ Len(<<e>> \o q) = Len(q) + 1
  BY ConsAt
<1>2. <<e>> \o q # <<>> /\ Tail(<<e>> \o q) = q
  OBVIOUS
<1>3. QED
  BY <1>1, <1>2, CountTail

\* LREM adds no entry of anyone.
LEMMA CountRemove ==
    ASSUME NEW q \in Seq(Entry), NEW e \in Entry, NEW s
    PROVE  CountOf(s, RemoveFirst(q, e)) <= CountOf(s, q)
<1>0. CountOf(s, q) \in Nat
  BY CountFinite
<1>1. CASE RemoveFirst(q, e) = q
  BY <1>0, <1>1
<1>2. ASSUME NEW r, NEW k \in 1 .. Len(q), r \in Seq(Entry), Len(r) = Len(q) - 1,
             \A i \in 1 .. (Len(q) - 1) : r[i] = IF i < k THEN q[i] ELSE q[i + 1]
      PROVE  CountOf(s, r) <= CountOf(s, q)
  <2>1. PICK S : S = {i \in DOMAIN r : r[i].socket = s}
    OBVIOUS
  <2>2. PICK T : T = {i \in DOMAIN q : q[i].socket = s}
    OBVIOUS
  <2>3. DOMAIN r = 1 .. (Len(q) - 1) /\ DOMAIN q = 1 .. Len(q) /\ Len(q) \in Nat
    BY <1>2
  <2>4. IsFiniteSet(T)
    BY <2>2, CountFinite
  <2>5. PICK f : f = [i \in S |-> IF i < k THEN i ELSE i + 1]
    OBVIOUS
  <2>6. ASSUME NEW i \in S PROVE f[i] \in T
    <3>1. i \in 1 .. (Len(q) - 1) /\ r[i].socket = s
      BY <2>1, <2>3
    <3>2. CASE i < k
      BY <1>2, <2>2, <2>3, <2>5, <3>1, <3>2
    <3>3. CASE ~(i < k)
      BY <1>2, <2>2, <2>3, <2>5, <3>1, <3>3
    <3>4. QED
      BY <3>2, <3>3
  <2>7. ASSUME NEW i \in S, NEW j \in S, f[i] = f[j] PROVE i = j
    BY <2>1, <2>3, <2>5, <2>7
  <2>8. f \in Injection(S, T)
    <3>1. f \in [S -> T]
      BY <2>5, <2>6
    <3>2. QED
      BY <2>7, <3>1 DEF Injection, IsInjective
  <2>9. Cardinality(S) <= Cardinality(T)
    BY <2>4, <2>8, FS_Injection
  <2>10. QED
    BY <2>1, <2>2, <2>9 DEF CountOf
<1>3. QED
  BY <1>1, <1>2, RemoveFirstAt

\* Two elements that may or may not be added to a finite set.
LEMMA TwoMore ==
    ASSUME NEW R, IsFiniteSet(R), NEW x, NEW y, x # y, x \notin R, y \notin R,
           NEW a, NEW b, NEW s, NEW T,
           \A z : z \in T <=> z \in R \/ (z = x /\ a.socket = s) \/ (z = y /\ b.socket = s)
    PROVE  Cardinality(T) = Cardinality(R) + Mine(a, s) + Mine(b, s)
<1>1. PICK Q : Q = IF a.socket = s THEN R \cup {x} ELSE R
  OBVIOUS
<1>2. IsFiniteSet(Q) /\ Cardinality(Q) = Cardinality(R) + Mine(a, s) /\ y \notin Q
      /\ Cardinality(R) \in Nat
  BY <1>1, FS_AddElement, FS_CardinalityType DEF Mine
<1>3. T = IF b.socket = s THEN Q \cup {y} ELSE Q
  BY <1>1
<1>4. Cardinality(Q) \in Nat
  BY <1>2, FS_CardinalityType
<1>5. QED
  <2>1. CASE b.socket = s
    <3>1. Cardinality(Q \cup {y}) = Cardinality(Q) + 1
      BY <1>2, FS_AddElement
    <3>2. T = Q \cup {y} /\ Mine(b, s) = 1
      BY <1>3, <2>1 DEF Mine
    <3>3. QED
      BY <1>2, <1>4, <3>1, <3>2
  <2>2. CASE b.socket # s
    <3>1. T = Q /\ Mine(b, s) = 0
      BY <1>3, <2>2 DEF Mine
    <3>2. QED
      BY <1>2, <1>4, <3>1
  <2>3. QED
    BY <2>1, <2>2

\* t takes the entries a and b.
LEMMA TakenAdds ==
    ASSUME NEW t \in Tasks, NEW a, NEW b, NEW s, \A u \in Tasks \ {t} : task'[u] = task[u],
           task[t].pc \notin TakenPC, task'[t].pc \in TakenPC,
           task'[t].held[1] = a, task'[t].held[2] = b
    PROVE  Cardinality(Taken(s)') = Cardinality(Taken(s)) + Mine(a, s) + Mine(b, s)
<1>1. <<t, 1>> # <<t, 2>> /\ <<t, 1>> \notin Taken(s) /\ <<t, 2>> \notin Taken(s)
  BY DEF Taken
<1>2. ASSUME NEW z
      PROVE  z \in Taken(s)' <=> \/ z \in Taken(s)
                                 \/ z = <<t, 1>> /\ a.socket = s
                                 \/ z = <<t, 2>> /\ b.socket = s
  <2>1. CASE z \in Tasks \X {1, 2} /\ z[1] = t
    BY <2>1 DEF Taken
  <2>2. CASE z \in Tasks \X {1, 2} /\ z[1] # t
    BY <2>2 DEF Taken
  <2>3. CASE z \notin Tasks \X {1, 2}
    BY <2>3 DEF Taken
  <2>4. QED
    BY <2>1, <2>2, <2>3
<1>3. IsFiniteSet(Taken(s))
  BY TakenFinite
<1>4. QED
  BY <1>1, <1>2, <1>3, TwoMore

\* t lets go of the entries a and b.
LEMMA TakenDrops ==
    ASSUME NEW t \in Tasks, NEW a, NEW b, NEW s, \A u \in Tasks \ {t} : task'[u] = task[u],
           task[t].pc \in TakenPC, task'[t].pc \notin TakenPC,
           task[t].held[1] = a, task[t].held[2] = b
    PROVE  Cardinality(Taken(s)) = Cardinality(Taken(s)') + Mine(a, s) + Mine(b, s)
<1>1. <<t, 1>> # <<t, 2>> /\ <<t, 1>> \notin Taken(s)' /\ <<t, 2>> \notin Taken(s)'
  BY DEF Taken
<1>2. ASSUME NEW z
      PROVE  z \in Taken(s) <=> \/ z \in Taken(s)'
                                \/ z = <<t, 1>> /\ a.socket = s
                                \/ z = <<t, 2>> /\ b.socket = s
  <2>1. CASE z \in Tasks \X {1, 2} /\ z[1] = t
    BY <2>1 DEF Taken
  <2>2. CASE z \in Tasks \X {1, 2} /\ z[1] # t
    BY <2>2 DEF Taken
  <2>3. CASE z \notin Tasks \X {1, 2}
    BY <2>3 DEF Taken
  <2>4. QED
    BY <2>1, <2>2, <2>3
<1>3. IsFiniteSet(Taken(s)')
  BY TakenFinite
<1>4. QED
  BY <1>1, <1>2, <1>3, TwoMore

\* A step that takes nothing and lets go of nothing.
LEMMA TakenStays ==
    ASSUME NEW t \in Tasks, NEW p, NEW h, NEW r, Goes(t, p, h, r),
           \/ task[t].pc \notin TakenPC /\ p \notin TakenPC
           \/ task[t].pc \in TakenPC /\ p \in TakenPC /\ h = task[t].held,
           NEW s
    PROVE  Taken(s)' = Taken(s)
  BY DEF Goes, Taken

\* It leaves the account as it is when list and requests stay as they are.
LEMMA QuietAccount ==
    ASSUME Accounted, NEW t \in Tasks, NEW p, NEW h, NEW r, Goes(t, p, h, r),
           \/ task[t].pc \notin TakenPC /\ p \notin TakenPC
           \/ task[t].pc \in TakenPC /\ p \in TakenPC /\ h = task[t].held,
           queue' = queue /\ found' = found /\ joins' = joins
    PROVE  Accounted'
<1>1. \A s : Taken(s)' = Taken(s)
  BY TakenStays
<1>2. QED
  BY <1>1 DEF Accounted

\* The numbers of the account.
LEMMA AccountNat ==
    ASSUME Typed, NEW s \in Sockets
    PROVE  /\ found[s] \in Nat /\ joins[s] \in Nat /\ CountOf(s, queue) \in Nat
           /\ Cardinality(Taken(s)) \in Nat
  BY CountFinite, TakenFinite DEF Typed, TypeOK

\* Most steps of a handler change neither side of the account.
LEMMA QuietSteps ==
    ASSUME Typed, Accounted, NEW t \in Tasks,
           \/ IndexEntry(t) \/ AuditQueued(t) \/ ReadDepth(t) \/ PopNone(t) \/ ForgetStale(t)
           \/ ClearIndex(t) \/ InitiateCall(t) \/ AcceptCall(t)
           \/ Unindex(t) \/ EndLeave(t) \/ Forget(t) \/ HangUp(t) \/ EndCall(t)
    PROVE  Accounted'
<1>0. task \in [Tasks -> Handler]
  BY DEF Typed, HandlersOK
<1>1. CASE IndexEntry(t)
  <2>1. Goes(t, "indexed", <<>>, task[t].sock)
    BY <1>0, <1>1, HandlerGoes DEF IndexEntry, NextCommand
  <2>2. task[t].pc = "pushed" /\ queue' = queue /\ found' = found /\ joins' = joins
    BY <1>1 DEF IndexEntry, Replied, redis, history
  <2>3. QED
    BY <2>1, <2>2, QuietAccount DEF TakenPC
<1>2. CASE AuditQueued(t)
  <2>1. Goes(t, "audited", task[t].held, task[t].sock)
    BY <1>0, <1>2, HandlerGoes DEF AuditQueued, LeavePipe
  <2>2. task[t].pc = "indexed" /\ queue' = queue /\ found' = found /\ joins' = joins
    BY <1>2 DEF AuditQueued, Replied, redis, history
  <2>3. QED
    BY <2>1, <2>2, QuietAccount DEF TakenPC
<1>3. CASE ReadDepth(t)
  <2>1. Goes(t, "counted", task[t].held, task[t].sock)
    BY <1>0, <1>3, HandlerGoes DEF ReadDepth
  <2>2. task[t].pc = "audited" /\ queue' = queue /\ found' = found /\ joins' = joins
    BY <1>3 DEF ReadDepth, redis, history
  <2>3. QED
    BY <2>1, <2>2, QuietAccount DEF TakenPC
<1>4. CASE PopNone(t)
  <2>1. Goes(t, "idle", <<>>, None)
    BY <1>0, <1>4, HandlerGoes DEF PopNone, Return
  <2>2. task[t].pc = "counted" /\ queue' = queue /\ found' = found /\ joins' = joins
    BY <1>4 DEF PopNone, Replied, redis, history
  <2>3. QED
    BY <2>1, <2>2, QuietAccount DEF TakenPC
<1>5. CASE ForgetStale(t)
  <2>1. Goes(t, "idle", <<>>, None)
    BY <1>0, <1>5, HandlerGoes DEF ForgetStale, Return
  <2>2. task[t].pc = "putBack" /\ queue' = queue /\ found' = found /\ joins' = joins
    BY <1>5 DEF ForgetStale, Replied, redis, history
  <2>3. QED
    BY <2>1, <2>2, QuietAccount DEF TakenPC
<1>6. CASE ClearIndex(t)
  <2>1. Goes(t, "matched", task[t].held, task[t].sock)
    BY <1>0, <1>6, HandlerGoes DEF ClearIndex, LeavePipe
  <2>2. task[t].pc = "popped" /\ queue' = queue /\ found' = found /\ joins' = joins
    BY <1>6 DEF ClearIndex, Replied, redis, history
  <2>3. QED
    BY <2>1, <2>2, QuietAccount DEF TakenPC
<1>7. CASE InitiateCall(t)
  <2>1. Goes(t, "initiated", task[t].held, task[t].sock)
    BY <1>0, <1>7, HandlerGoes DEF InitiateCall
  <2>2. task[t].pc = "matched" /\ queue' = queue /\ found' = found /\ joins' = joins
    BY <1>7 DEF InitiateCall, redis, history
  <2>3. QED
    BY <2>1, <2>2, QuietAccount DEF TakenPC
<1>8. CASE AcceptCall(t)
  <2>1. Goes(t, "accepted", task[t].held, task[t].sock)
    BY <1>0, <1>8, HandlerGoes DEF AcceptCall
  <2>2. task[t].pc = "initiated" /\ queue' = queue /\ found' = found /\ joins' = joins
    BY <1>8 DEF AcceptCall, redis, history
  <2>3. QED
    BY <2>1, <2>2, QuietAccount DEF TakenPC
<1>9. CASE Unindex(t)
  <2>1. Goes(t, "dequeued", task[t].held, task[t].sock)
    BY <1>0, <1>9, HandlerGoes DEF Unindex, LeavePipe
  <2>2. task[t].pc = "removed" /\ queue' = queue /\ found' = found /\ joins' = joins
    BY <1>9 DEF Unindex, Replied, redis, history
  <2>3. QED
    BY <2>1, <2>2, QuietAccount DEF TakenPC
<1>10. CASE EndLeave(t)
  <2>1. Goes(t, "idle", <<>>, None)
    BY <1>0, <1>10, HandlerGoes DEF EndLeave
  <2>2. task[t].pc \in {"looked", "dequeued"} /\ queue' = queue /\ found' = found /\ joins' = joins
    BY <1>10 DEF EndLeave, Replied, Dequeued, redis, history
  <2>3. QED
    BY <2>1, <2>2, QuietAccount DEF TakenPC
<1>11. CASE Forget(t)
  <2>1. Goes(t, "idle", <<>>, None)
    BY <1>0, <1>11, HandlerGoes DEF Forget
  <2>2. task[t].pc \in {"looked", "dequeued"} /\ queue' = queue /\ found' = found /\ joins' = joins
    BY <1>11 DEF Forget, Replied, Dequeued, redis, history
  <2>3. QED
    BY <2>1, <2>2, QuietAccount DEF TakenPC
<1>12. CASE HangUp(t)
  <2>1. Goes(t, "hangup", task[t].held, task[t].sock)
    BY <1>0, <1>12, HandlerGoes DEF HangUp
  <2>2. task[t].pc \in {"looked", "dequeued"} /\ queue' = queue /\ found' = found /\ joins' = joins
    BY <1>12 DEF HangUp, Replied, Dequeued, redis, history
  <2>3. QED
    BY <2>1, <2>2, QuietAccount DEF TakenPC
<1>13. CASE EndCall(t)
  <2>1. Goes(t, "idle", <<>>, None)
    BY <1>0, <1>13, HandlerGoes DEF EndCall
  <2>2. task[t].pc = "hangup" /\ queue' = queue /\ found' = found /\ joins' = joins
    BY <1>13 DEF EndCall, redis, history
  <2>3. QED
    BY <2>1, <2>2, QuietAccount DEF TakenPC
<1>14. QED
  BY <1>1, <1>2, <1>3, <1>4, <1>5, <1>6, <1>7, <1>8, <1>9, <1>10, <1>11, <1>12, <1>13

\* A request adds one to each side.
LEMMA JoinQueueAccount ==
    ASSUME Typed, Accounted, NEW t \in Tasks, NEW r \in Sockets, JoinQueue(t, r)
    PROVE  Accounted'
<1>1. PICK e \in Entry : e = [socket |-> r, enqueuedAt |-> now]
  BY DEF Typed, TypeOK, Entry
<1>2. /\ Begin(t, "join", r, "pushed", <<e>>) /\ queue' = Append(queue, e) /\ found' = found
      /\ joins' = [joins EXCEPT ![r] = @ + 1] /\ e.socket = r /\ queue \in Seq(Entry)
      /\ joins \in [Sockets -> Nat] /\ task \in [Tasks -> Handler]
  BY <1>1 DEF JoinQueue, Typed, TypeOK
<1>3. Goes(t, "pushed", <<e>>, r) /\ task[t].pc = "idle"
  BY <1>2, HandlerGoes DEF Begin, Busy
<1>4. ASSUME NEW s \in Sockets
      PROVE  found'[s] + CountOf(s, queue)' + Cardinality(Taken(s)') <= joins'[s]
  <2>1. Taken(s)' = Taken(s)
    BY <1>3, TakenStays DEF TakenPC
  <2>2. CountOf(s, queue)' = CountOf(s, queue) + Mine(e, s)
    BY <1>2, CountAppend DEF CountOf
  <2>3. joins'[s] = joins[s] + Mine(e, s)
    BY <1>2, AccountNat DEF Mine
  <2>4. Mine(e, s) \in Nat /\ found'[s] = found[s]
    BY <1>2 DEF Mine
  <2>5. found[s] + CountOf(s, queue) + Cardinality(Taken(s)) <= joins[s]
    BY DEF Accounted
  <2>6. QED
    BY <2>1, <2>2, <2>3, <2>4, <2>5, AccountNat
<1>5. QED
  BY <1>4 DEF Accounted

\* A lookup takes nothing.
LEMMA LookupAccount ==
    ASSUME Typed, Accounted, NEW t \in Tasks, NEW k, NEW r, Lookup(t, k, r)
    PROVE  Accounted'
<1>1. PICK h : h = IF index[r] = None THEN <<>> ELSE <<index[r]>>
  OBVIOUS
<1>2. Begin(t, k, r, "looked", h) /\ queue' = queue /\ found' = found /\ joins' = joins
  BY <1>1 DEF Lookup, redis, history
<1>3. Goes(t, "looked", h, r) /\ task[t].pc = "idle"
  BY <1>2, HandlerGoes DEF Begin, Busy, Typed, HandlersOK
<1>4. QED
  BY <1>2, <1>3, QuietAccount DEF TakenPC

\* The LREM of dequeue takes at most one entry out of the list.
LEMMA RemoveEntryAccount ==
    ASSUME Typed, Accounted, NEW t \in Tasks, RemoveEntry(t)
    PROVE  Accounted'
<1>1. /\ task \in [Tasks -> Handler] /\ task[t].pc = "looked" /\ queue \in Seq(Entry)
      /\ task[t].held # <<>> /\ queue' = RemoveFirst(queue, task[t].held[1])
      /\ found' = found /\ joins' = joins
      /\ task' = [task EXCEPT ![t].pc = "removed", ![t].held = task[t].held]
  BY DEF Typed, TypeOK, RemoveEntry, Replied, NextCommand, history
<1>2. PICK e \in Entry : e = task[t].held[1]
  <2>1. task[t].held \in Seq(Entry)
    BY <1>1 DEF Handler
  <2>2. QED
    BY <1>1, <2>1
<1>3. Goes(t, "removed", task[t].held, task[t].sock)
  BY <1>1, HandlerGoes
<1>4. ASSUME NEW s \in Sockets
      PROVE  found'[s] + CountOf(s, queue)' + Cardinality(Taken(s)') <= joins'[s]
  <2>1. Taken(s)' = Taken(s)
    BY <1>1, <1>3, TakenStays DEF TakenPC
  <2>2. CountOf(s, queue)' <= CountOf(s, queue) /\ CountOf(s, queue)' \in Nat
    <3>1. queue' = RemoveFirst(queue, e) /\ queue' \in Seq(Entry)
      BY <1>1, <1>2, RemoveFirstType
    <3>2. CountOf(s, queue') <= CountOf(s, queue) /\ CountOf(s, queue') \in Nat
      BY <1>1, <3>1, CountRemove, CountFinite
    <3>3. QED
      BY <3>2 DEF CountOf
  <2>3. found[s] + CountOf(s, queue) + Cardinality(Taken(s)) <= joins[s]
    BY DEF Accounted
  <2>4. QED
    BY <1>1, <2>1, <2>2, <2>3, AccountNat
<1>5. QED
  BY <1>4 DEF Accounted

\* The pop moves two entries from the list to a handler: none is taken twice.
LEMMA PopPairAccount ==
    ASSUME Typed, Accounted, NEW t \in Tasks, PopPair(t)
    PROVE  Accounted'
<1>1. /\ task \in [Tasks -> Handler] /\ task[t].pc = "counted" /\ queue \in Seq(Entry)
      /\ Len(queue) >= 2 /\ queue' = Tail(Tail(queue)) /\ found' = found /\ joins' = joins
      /\ task' = [task EXCEPT ![t].pc = "popped", ![t].held = <<queue[1], queue[2]>>]
  BY DEF Typed, TypeOK, PopPair, Replied, NextCommand, history
<1>2. PICK a, b : a = queue[1] /\ b = queue[2]
  OBVIOUS
<1>3. /\ \A u \in Tasks \ {t} : task'[u] = task[u]
      /\ task'[t].pc = "popped" /\ task'[t].held[1] = a /\ task'[t].held[2] = b
  <2>1. Goes(t, "popped", <<a, b>>, task[t].sock)
    BY <1>1, <1>2, HandlerGoes
  <2>2. QED
    BY <2>1 DEF Goes
<1>4. ASSUME NEW s \in Sockets
      PROVE  found'[s] + CountOf(s, queue)' + Cardinality(Taken(s)') <= joins'[s]
  <2>1. Cardinality(Taken(s)') = Cardinality(Taken(s)) + Mine(a, s) + Mine(b, s)
    BY <1>1, <1>3, TakenAdds DEF TakenPC
  <2>2. CountOf(s, queue) = CountOf(s, queue)' + Mine(a, s) + Mine(b, s) /\ CountOf(s, queue)' \in Nat
    <3>1. queue # <<>> /\ Tail(queue) \in Seq(Entry) /\ Tail(queue)[1] = b /\ Tail(queue) # <<>>
          /\ Tail(Tail(queue)) \in Seq(Entry)
      <4>1. /\ queue # <<>> /\ Tail(queue) \in Seq(Entry) /\ Tail(queue)[1] = queue[2]
            /\ Len(Tail(queue)) = Len(queue) - 1
        BY <1>1, TailAt
      <4>2. Len(Tail(queue)) # 0 /\ Len(<<>>) = 0
        BY <1>1, <4>1
      <4>3. Tail(queue) # <<>>
        BY <4>2, Zenon
      <4>4. Tail(Tail(queue)) \in Seq(Entry)
        BY <4>1, <4>3, TailAt
      <4>5. QED
        BY <1>2, <4>1, <4>3, <4>4
    <3>2. /\ CountOf(s, queue) = CountOf(s, Tail(queue)) + Mine(a, s)
          /\ CountOf(s, Tail(queue)) = CountOf(s, Tail(Tail(queue))) + Mine(b, s)
          /\ CountOf(s, Tail(Tail(queue))) \in Nat
      BY <1>1, <1>2, <3>1, CountTail, CountFinite
    <3>3. CountOf(s, queue)' = CountOf(s, Tail(Tail(queue)))
      BY <1>1 DEF CountOf
    <3>4. QED
      BY <3>2, <3>3 DEF Mine
  <2>3. found[s] + CountOf(s, queue) + Cardinality(Taken(s)) <= joins[s]
    BY DEF Accounted
  <2>4. Mine(a, s) \in Nat /\ Mine(b, s) \in Nat
    BY DEF Mine
  <2>5. QED
    BY <1>1, <2>1, <2>2, <2>3, <2>4, AccountNat
<1>5. QED
  BY <1>4 DEF Accounted

\* Stale entries, and those of a pairing that fails, are dropped.
LEMMA DropAccount ==
    ASSUME Typed, Accounted, NEW t \in Tasks, DiscardBoth(t) \/ PairFails(t)
    PROVE  Accounted'
<1>1. /\ task \in [Tasks -> Handler] /\ task[t].pc \in TakenPC /\ queue' = queue
      /\ found' = found /\ joins' = joins /\ task' = [task EXCEPT ![t] = IdleTask]
  BY DEF Typed, TypeOK, DiscardBoth, PairFails, Replied, Return, history, redis, TakenPC
<1>2. (\A u \in Tasks \ {t} : task'[u] = task[u]) /\ task'[t].pc = "idle"
  BY <1>1, HandlerGoes DEF Goes
<1>3. PICK a, b : a = task[t].held[1] /\ b = task[t].held[2]
  OBVIOUS
<1>4. ASSUME NEW s \in Sockets
      PROVE  found'[s] + CountOf(s, queue)' + Cardinality(Taken(s)') <= joins'[s]
  <2>1. Cardinality(Taken(s)) = Cardinality(Taken(s)') + Mine(a, s) + Mine(b, s)
    BY <1>1, <1>2, <1>3, TakenDrops DEF TakenPC
  <2>2. Mine(a, s) \in Nat /\ Mine(b, s) \in Nat /\ CountOf(s, queue)' = CountOf(s, queue)
    BY <1>1 DEF Mine, CountOf
  <2>3. Cardinality(Taken(s)') \in Nat
    BY TakenFinite
  <2>4. found[s] + CountOf(s, queue) + Cardinality(Taken(s)) <= joins[s]
    BY DEF Accounted
  <2>5. QED
    BY <1>1, <2>1, <2>2, <2>3, <2>4, AccountNat
<1>5. QED
  BY <1>4 DEF Accounted

\* The put-back returns one of the two entries to the list.
LEMMA PutBackAccount ==
    ASSUME Typed, Accounted, NEW t \in Tasks, PutBack(t)
    PROVE  Accounted'
<1>1. PICK stale \in {1, 2} : PutBack(t)!(stale)
  BY DEF PutBack
<1>2. PICK a, b \in Entry : a = task[t].held[1] /\ b = task[t].held[2]
  BY <1>1, HeldEntries DEF Replied
<1>3. PICK f \in {a, b} : f = task[t].held[3 - stale]
  BY <1>2
<1>4. /\ task \in [Tasks -> Handler] /\ task[t].pc = "popped" /\ queue \in Seq(Entry)
      /\ queue' = <<f>> \o queue /\ found' = found /\ joins' = joins
      /\ task' = [task EXCEPT ![t].pc = "putBack", ![t].held = <<task[t].held[stale]>>]
  BY <1>1, <1>3 DEF Typed, TypeOK, Replied, NextCommand
<1>5. (\A u \in Tasks \ {t} : task'[u] = task[u]) /\ task'[t].pc = "putBack"
  <2>1. Goes(t, "putBack", <<task[t].held[stale]>>, task[t].sock)
    BY <1>4, HandlerGoes
  <2>2. QED
    BY <2>1 DEF Goes
<1>6. ASSUME NEW s \in Sockets
      PROVE  found'[s] + CountOf(s, queue)' + Cardinality(Taken(s)') <= joins'[s]
  <2>1. Cardinality(Taken(s)) = Cardinality(Taken(s)') + Mine(a, s) + Mine(b, s)
    BY <1>2, <1>4, <1>5, TakenDrops DEF TakenPC
  <2>2. CountOf(s, queue)' = CountOf(s, queue) + Mine(f, s)
    <3>1. f \in Entry
      BY <1>2, <1>3
    <3>2. CountOf(s, <<f>> \o queue) = CountOf(s, queue) + Mine(f, s)
      BY <1>4, <3>1, CountCons
    <3>3. QED
      BY <1>4, <3>2 DEF CountOf
  <2>3. Mine(f, s) <= Mine(a, s) + Mine(b, s) /\ Mine(f, s) \in Nat
        /\ Mine(a, s) \in Nat /\ Mine(b, s) \in Nat
    BY DEF Mine
  <2>4. Cardinality(Taken(s)') \in Nat
    BY TakenFinite
  <2>5. found[s] + CountOf(s, queue) + Cardinality(Taken(s)) <= joins[s]
    BY DEF Accounted
  <2>6. found'[s] = found[s] /\ joins'[s] = joins[s]
    BY <1>4
  <2>7. QED
    BY <2>1, <2>2, <2>3, <2>4, <2>5, <2>6, AccountNat
<1>7. QED
  BY <1>6 DEF Accounted

\* match:found turns what the handler has taken into as many events.
LEMMA AnnounceAccount ==
    ASSUME Typed, Accounted, NEW t \in Tasks, Announce(t)
    PROVE  Accounted'
<1>1. /\ task \in [Tasks -> Handler] /\ task[t].pc = "accepted" /\ queue' = queue
      /\ joins' = joins /\ task' = [task EXCEPT ![t] = IdleTask]
      /\ found' = [s \in Sockets |-> found[s] +
                      Cardinality({i \in {1, 2} : task[t].held[i].socket = s})]
  BY DEF Typed, TypeOK, Announce, redis
<1>2. (\A u \in Tasks \ {t} : task'[u] = task[u]) /\ task'[t].pc = "idle"
  BY <1>1, HandlerGoes DEF Goes
<1>3. PICK a, b : a = task[t].held[1] /\ b = task[t].held[2]
  OBVIOUS
<1>4. ASSUME NEW s \in Sockets
      PROVE  found'[s] + CountOf(s, queue)' + Cardinality(Taken(s)') <= joins'[s]
  <2>1. Cardinality(Taken(s)) = Cardinality(Taken(s)') + Mine(a, s) + Mine(b, s)
    BY <1>1, <1>2, <1>3, TakenDrops DEF TakenPC
  <2>2. Cardinality({i \in {1, 2} : task[t].held[i].socket = s}) = Mine(a, s) + Mine(b, s)
    <3>1. PICK R : R = {} /\ IsFiniteSet(R) /\ Cardinality(R) = 0
      BY FS_EmptySet
    <3>2. PICK T : T = {i \in {1, 2} : task[t].held[i].socket = s}
      OBVIOUS
    <3>3. PICK x, y : x = 1 /\ y = 2
      OBVIOUS
    <3>4. IsFiniteSet(R) /\ x # y /\ x \notin R /\ y \notin R
      BY <3>1, <3>3
    <3>5. \A z : z \in T <=> z \in R \/ (z = x /\ a.socket = s) \/ (z = y /\ b.socket = s)
      BY <1>3, <3>1, <3>2, <3>3
    <3>6. Cardinality(T) = Cardinality(R) + Mine(a, s) + Mine(b, s)
      BY <3>4, <3>5, TwoMore
    <3>7. QED
      BY <3>1, <3>2, <3>6 DEF Mine
  <2>3. Mine(a, s) \in Nat /\ Mine(b, s) \in Nat /\ CountOf(s, queue)' = CountOf(s, queue)
    BY <1>1 DEF Mine, CountOf
  <2>4. Cardinality(Taken(s)') \in Nat
    BY TakenFinite
  <2>5. found[s] + CountOf(s, queue) + Cardinality(Taken(s)) <= joins[s]
    BY DEF Accounted
  <2>6. found'[s] = found[s] + Mine(a, s) + Mine(b, s)
    BY <1>1, <2>2, <2>3, AccountNat
  <2>7. QED
    BY <1>1, <2>1, <2>3, <2>4, <2>5, <2>6, AccountNat
<1>5. QED
  BY <1>4 DEF Accounted

\* Every step keeps the account.
LEMMA NextAccount ==
    ASSUME Typed, Accounted, [Next]_vars
    PROVE  Accounted'
<1>1. ASSUME UNCHANGED <<task, queue, found, joins>> PROVE Accounted'
  BY <1>1 DEF Accounted, CountOf, Taken
<1>2. CASE Tick \/ UNCHANGED vars \/ \E s \in Sockets : Connect(s)
  BY <1>1, <1>2 DEF Tick, Connect, vars, redis, history
<1>3. ASSUME NEW t \in Tasks, Step(t) PROVE Accounted'
  BY <1>3, QuietSteps, PopPairAccount, DropAccount, PutBackAccount, AnnounceAccount,
     RemoveEntryAccount DEF Step
<1>4. ASSUME NEW t \in Tasks, NEW s \in Sockets, Request(t, s) PROVE Accounted'
  BY <1>4, JoinQueueAccount, LookupAccount DEF Request, LeaveQueue, Disconnect
<1>5. QED
  BY <1>2, <1>3, <1>4 DEF Next

(* However the concurrent tryMatch calls, put-backs and removals interleave, a socket *)
(* gets at most one match:found per join-queue request.                               *)
THEOREM MatchesArePaidFor == Spec => []MatchedAtMostAsJoined
<1> DEFINE Inv == Typed /\ Accounted
<1>1. Init => Inv
  <2>1. ASSUME Init, NEW s \in Sockets
        PROVE  found[s] + CountOf(s, queue) + Cardinality(Taken(s)) <= joins[s]
    <3>1. found[s] = 0 /\ joins[s] = 0 /\ queue = <<>> /\ \A t \in Tasks : task[t].pc = "idle"
      BY <2>1 DEF Init, IdleTask
    <3>2. Taken(s) = {} /\ {i \in DOMAIN queue : queue[i].socket = s} = {}
      BY <3>1 DEF Taken, TakenPC
    <3>3. CountOf(s, queue) = 0 /\ Cardinality(Taken(s)) = 0
      BY <3>2, FS_EmptySet DEF CountOf
    <3>4. QED
      BY <3>1, <3>3
  <2>2. QED
    BY <2>1, InitTyped DEF Accounted
<1>2. Inv /\ [Next]_vars => Inv'
  BY NextTyped, NextAccount
<1>3. Inv => MatchedAtMostAsJoined
  <2>1. ASSUME Inv, NEW s \in Sockets PROVE found[s] + CountOf(s, queue) <= joins[s]
    BY <2>1, AccountNat DEF Accounted
  <2>2. QED
    BY <2>1 DEF MatchedAtMostAsJoined
<1>4. QED
  BY <1>1, <1>2, <1>3, PTL DEF Spec

----------------------------------------------------------------------------
(* What tryMatch drops is stale.                                           *)

\* t does not let go of a fresh entry it has popped.
KeepsFresh(t) ==
    task[t].pc = "popped" /\ task'[t].pc # "popped" =>
        \A e \in Range(task[t].held) : Fresh(e) => e \in Range(queue') \cup Range(task'[t].held)

\* A handler with two popped entries holds just these.
LEMMA PoppedHeld ==
    ASSUME Typed, NEW t \in Tasks, task[t].pc = "popped"
    PROVE  Range(task[t].held) = {task[t].held[1], task[t].held[2]}
<1>1. task[t].held \in Seq(Entry) /\ Len(task[t].held) = 2
  BY DEF Typed, HandlersOK, WellHeld, Handler
<1>2. DOMAIN task[t].held = {1, 2}
  BY <1>1
<1>3. QED
  BY <1>2 DEF Range

\* After the pop, tryMatch discards both, puts one back or goes on with both.
LEMMA PoppedSteps ==
    ASSUME NEW t \in Tasks, task[t].pc = "popped", Step(t)
    PROVE  DiscardBoth(t) \/ PutBack(t) \/ ClearIndex(t)
  BY DEF Step, IndexEntry, AuditQueued, ReadDepth, PopNone, PopPair, ForgetStale, InitiateCall,
     AcceptCall, Announce, PairFails, RemoveEntry, Unindex, EndLeave, Forget, HangUp, EndCall,
     Replied, Dequeued

\* A step of one handler leaves the others where they are.
LEMMA OthersStay ==
    ASSUME Typed, NEW u \in Tasks, Step(u) \/ \E s \in Sockets : Request(u, s)
    PROVE  \A v \in Tasks \ {u} : task'[v] = task[v]
<1>1. \E r : task' = [task EXCEPT ![u] = r]
  <2>1. CASE Step(u)
    BY <2>1 DEF Step, IndexEntry, AuditQueued, ReadDepth, PopNone, PopPair, DiscardBoth,
       PutBack,
       ForgetStale, ClearIndex, InitiateCall, AcceptCall, Announce, PairFails, RemoveEntry,
       Unindex, EndLeave, Forget, HangUp, EndCall, NextCommand, LeavePipe, Return
  <2>2. CASE \E s \in Sockets : Request(u, s)
    BY <2>2 DEF Request, JoinQueue, LeaveQueue, Disconnect, Lookup, Begin
  <2>3. QED
    BY <2>1, <2>2
<1>2. QED
  BY <1>1 DEF Typed, TypeOK

\* The handler that acts keeps its fresh entries.
LEMMA StepKeepsFresh ==
    ASSUME Typed, NEW t \in Tasks, Step(t)
    PROVE  KeepsFresh(t)
<1> SUFFICES ASSUME task[t].pc = "popped", task'[t].pc # "popped",
                    NEW e \in Range(task[t].held), Fresh(e)
             PROVE  e \in Range(queue') \cup Range(task'[t].held)
  BY DEF KeepsFresh
<1>1. e = task[t].held[1] \/ e = task[t].held[2]
  BY PoppedHeld
<1>2. CASE DiscardBoth(t)
  BY <1>1, <1>2 DEF DiscardBoth
<1>3. CASE PutBack(t)
  <2>1. PICK stale \in {1, 2} : PutBack(t)!(stale)
    BY <1>3 DEF PutBack
  <2>2. e = task[t].held[3 - stale]
    BY <1>1, <2>1
  <2>3. e \in Entry /\ queue \in Seq(Entry)
    BY <2>2, HeldEntries DEF Typed, TypeOK
  <2>4. queue' = <<e>> \o queue
    BY <2>1, <2>2
  <2>5. QED
    BY <2>3, <2>4, ConsAt
<1>4. CASE ClearIndex(t)
  <2>1. Goes(t, "matched", task[t].held, task[t].sock)
    BY <1>4, HandlerGoes DEF Typed, HandlersOK, ClearIndex, LeavePipe
  <2>2. QED
    BY <2>1 DEF Goes
<1>5. QED
  BY <1>2, <1>3, <1>4, PoppedSteps

(* tryMatch lets go of an entry it has popped only into the list, into a match or   *)
(* because it is stale.                                                             *)
THEOREM OnlyStaleDropped == Spec => FreshNeverDropped
<1>1. ASSUME Typed, [Next]_vars, NEW t \in Tasks PROVE KeepsFresh(t)
  <2>1. CASE task'[t] = task[t]
    BY <2>1 DEF KeepsFresh
  <2>2. ASSUME NEW u \in Tasks, Step(u) PROVE KeepsFresh(t)
    BY <1>1, <2>1, <2>2, StepKeepsFresh, OthersStay
  <2>3. ASSUME NEW u \in Tasks, NEW s \in Sockets, Request(u, s) PROVE KeepsFresh(t)
    <3>1. CASE u = t
      <4>1. task[t].pc = "idle"
        BY <2>3, <3>1 DEF Request, JoinQueue, LeaveQueue, Disconnect, Lookup, Begin, Busy
      <4>2. QED
        BY <4>1 DEF KeepsFresh
    <3>2. CASE u # t
      BY <1>1, <2>1, <2>3, <3>2, OthersStay
    <3>3. QED
      BY <3>1, <3>2
  <2>4. CASE Tick \/ UNCHANGED vars \/ \E s \in Sockets : Connect(s)
    <3>1. task' = task
      BY <2>4 DEF Tick, Connect, vars
    <3>2. QED
      BY <2>1, <3>1
  <2>5. QED
    BY <1>1, <2>2, <2>3, <2>4 DEF Next
<1>2. Typed /\ [Next]_vars =>
         [\A t \in Tasks : task[t].pc = "popped" /\ task'[t].pc # "popped" =>
             \A e \in Range(task[t].held) :
                 Fresh(e) => e \in Range(queue') \cup Range(task'[t].held)]_vars
  BY <1>1 DEF KeepsFresh
<1>3. Spec => []Typed
  BY InitTyped, NextTyped, PTL DEF Spec
<1>4. QED
  BY <1>2, <1>3, PTL DEF Spec, FreshNeverDropped
====
