---- MODULE SessionsProofs ----
(***************************************************************************)
(* Theorems about Sessions, for any number of sessions, requests, users    *)
(* and faults.                                                             *)
(***************************************************************************)
EXTENDS Sessions, SequenceTheorems, FiniteSetTheorems, TLAPS

\* Which locals a request has where.
Locals ==
    \A t \in Tasks :
        /\ task[t].pc # "idle" => /\ task[t].sess \in SessionIds
                                  /\ session[task[t].sess] # "none"
        /\ task[t].pc \in {"selecting", "locked", "marking"} =>
              task[t].tok \in DOMAIN tokens /\ tokens[task[t].tok].session = task[t].sess
        /\ task[t].todo # {} => task[t].pc = "marking"
        /\ \A k \in task[t].todo : k \in DOMAIN tokens /\ tokens[k].session = task[t].sess
        /\ task[t].pc \in {"rotated", "reply"} => task[t].new \in DOMAIN tokens
        /\ task[t].pc \in {"idle", "opened"} => ~task[t].late

\* The tokens in clients' hands have rows, and the rows' sessions exist.
Known ==
    /\ given \subseteq DOMAIN tokens
    /\ \A k \in DOMAIN tokens : session[tokens[k].session] # "none"

\* A login is alone with its session until it has issued the first token.
Opening ==
    \A t \in Tasks : task[t].pc = "opened" =>
        /\ \A k \in DOMAIN tokens : tokens[k].session # task[t].sess
        /\ \A u \in Tasks : task[u].pc # "idle" /\ task[u].sess = task[t].sess => u = t

\* A row's lock belongs to a transaction on its family, which has read the row it
\* presented under that lock: no other transaction has changed it since.
Locks ==
    /\ \A k \in DOMAIN tokens : \A u \in Tasks : tokens[k].lock = u =>
          task[u].pc \in {"locked", "marking"} /\ tokens[k].session = task[u].sess
    /\ \A t \in Tasks : task[t].pc \in {"locked", "marking"} =>
          /\ tokens[task[t].tok].lock = t
          /\ task[t].seen <=> tokens[task[t].tok].used

\* OneLiveToken and NeverBurnt, row by row.
OneLine ==
    \A j, k \in DOMAIN tokens :
        tokens[j].session = tokens[k].session /\ ~tokens[j].used /\ ~tokens[k].used => j = k

Unburnt ==
    \A k \in DOMAIN tokens : tokens[k].session \notin reused =>
        \E j \in DOMAIN tokens : tokens[j].session = tokens[k].session /\ ~tokens[j].used

\* A session that was inactive when the request arrived still is.
Stale == \A t \in Tasks : task[t].late => ~Active(task[t].sess)

SessionsInv ==
    /\ TypeOK /\ Locals /\ Known /\ Opening /\ Locks
    /\ OneLine /\ Unburnt /\ Stale /\ NoLateSuccess

LEMMA IdleTyped ==
    /\ IdleTask \in Request
    /\ IdleTask.pc = "idle" /\ IdleTask.todo = {} /\ ~IdleTask.late
  BY DEF IdleTask, Request

LEMMA InitSessions == Init => SessionsInv
<1> SUFFICES ASSUME Init PROVE SessionsInv
  OBVIOUS
<1>1. tokens \in Seq(Row) /\ DOMAIN tokens = {}
  BY DEF Init
<1>2. TypeOK
  BY IdleTyped DEF Init, TypeOK
<1>3. Locals /\ Known /\ Opening /\ Locks
  BY IdleTyped DEF Init, Locals, Known, Opening, Locks
<1>4. OneLine /\ Unburnt /\ Stale /\ NoLateSuccess
  BY IdleTyped DEF Init, OneLine, Unburnt, Stale, NoLateSuccess
<1>5. QED
  BY <1>2, <1>3, <1>4 DEF SessionsInv

----------------------------------------------------------------------------
(* The table and the requests.                                             *)

LEMMA Points ==
    ASSUME TypeOK
    PROVE  /\ tokens \in Seq(Row) /\ Len(tokens) \in Nat /\ DOMAIN tokens = 1 .. Len(tokens)
           /\ \A k \in DOMAIN tokens : tokens[k] \in Row /\ tokens[k].session \in SessionIds
           /\ \A t \in Tasks : task[t] \in Request
           /\ task \in [Tasks -> Request]
<1>1. tokens \in Seq(Row)
  BY DEF TypeOK
<1>2. \A k \in DOMAIN tokens : tokens[k] \in Row
  BY <1>1
<1>3. \A k \in DOMAIN tokens : tokens[k].session \in SessionIds
  BY <1>2 DEF Row
<1>4. QED
  BY <1>3 DEF TypeOK

\* The rows after a transaction of t.
Released(t, marked, new) ==
    /\ new \in Seq(Row) /\ Len(new) = Len(tokens) /\ DOMAIN new = DOMAIN tokens
    /\ \A k \in DOMAIN tokens :
          /\ new[k].session = tokens[k].session
          /\ new[k].used <=> tokens[k].used \/ k \in marked
          /\ new[k].lock = IF tokens[k].lock = t THEN None ELSE tokens[k].lock

LEMMA ReleaseFacts ==
    ASSUME TypeOK, NEW t \in Tasks, NEW marked
    PROVE  Released(t, marked, Release(t, marked))
<1> DEFINE new == Release(t, marked)
           row(k) == [tokens[k] EXCEPT !.used = @ \/ k \in marked,
                                       !.lock = IF @ = t THEN None ELSE @]
<1>1. /\ Len(tokens) \in Nat /\ DOMAIN tokens = 1 .. Len(tokens)
      /\ \A k \in DOMAIN tokens : tokens[k] \in Row
  BY Points
<1>2. DOMAIN new = DOMAIN tokens /\ \A k \in DOMAIN tokens : new[k] = row(k)
  BY DEF Release
<1>3. ASSUME NEW k \in DOMAIN tokens
      PROVE  /\ row(k) \in Row /\ row(k).session = tokens[k].session
             /\ row(k).used <=> tokens[k].used \/ k \in marked
             /\ row(k).lock = IF tokens[k].lock = t THEN None ELSE tokens[k].lock
  <2>1. tokens[k] \in Row
    BY <1>1
  <2>2. QED
    BY <2>1 DEF Row
<1>4. new = [k \in 1 .. Len(tokens) |-> row(k)]
  BY DEF Release
<1> HIDE DEF row
<1>5. new \in [1 .. Len(tokens) -> Row]
  BY <1>3, <1>4
<1> HIDE DEF new
<1>6. new \in Seq(Row) /\ Len(new) = Len(tokens)
  BY <1>5
<1>7. QED
  BY <1>2, <1>3, <1>6 DEF Released, new

\* The rows after a new one is inserted into the table q.
LEMMA InsertFacts ==
    ASSUME TypeOK, NEW s \in SessionIds, NEW q \in Seq(Row), Len(q) = Len(tokens),
           DOMAIN q = DOMAIN tokens
    PROVE  /\ Append(q, NewRow(s)) \in Seq(Row) /\ Len(tokens) + 1 \notin DOMAIN tokens
           /\ DOMAIN Append(q, NewRow(s)) = DOMAIN tokens \cup {Len(tokens) + 1}
           /\ \A k \in DOMAIN tokens : Append(q, NewRow(s))[k] = q[k]
           /\ LET r == Append(q, NewRow(s))[Len(tokens) + 1]
              IN  r.session = s /\ ~r.used /\ r.lock = None
<1>1. Len(tokens) \in Nat /\ DOMAIN tokens = 1 .. Len(tokens)
  OBVIOUS
<1>2. NewRow(s) \in Row /\ NewRow(s).session = s /\ ~NewRow(s).used /\ NewRow(s).lock = None
  BY DEF NewRow, Row, TypeOK
<1> DEFINE r == NewRow(s)
           new == Append(q, r)
<1> HIDE DEF r
<1>3. /\ new \in Seq(Row) /\ Len(new) = Len(q) + 1 /\ new[Len(q) + 1] = r
      /\ \A i \in 1 .. Len(q) : new[i] = q[i]
  BY <1>2 DEF r
<1>4. DOMAIN new = 1 .. (Len(tokens) + 1)
  OBVIOUS
<1>5. QED
  BY <1>2

\* A row is locked.
LEMMA LockFacts ==
    ASSUME TypeOK, NEW t \in Tasks, NEW k \in DOMAIN tokens, Lock(t, k)
    PROVE  /\ tokens[k].lock = None /\ tokens' \in Seq(Row) /\ DOMAIN tokens' = DOMAIN tokens
           /\ tokens'[k].lock = t
           /\ \A j \in DOMAIN tokens : /\ tokens'[j].session = tokens[j].session
                                       /\ tokens'[j].used <=> tokens[j].used
           /\ \A j \in DOMAIN tokens \ {k} : tokens'[j].lock = tokens[j].lock
<1> DEFINE r == [tokens[k] EXCEPT !.lock = t]
<1>1. /\ tokens \in Seq(Row) /\ DOMAIN tokens = 1 .. Len(tokens) /\ Len(tokens) \in Nat
      /\ tokens[k] \in Row
  BY Points
<1>2. r \in Row /\ r.lock = t /\ r.session = tokens[k].session /\ r.used = tokens[k].used
  BY <1>1 DEF Row
<1>3. tokens[k].lock = None /\ tokens' = [tokens EXCEPT ![k] = r]
  BY DEF Lock
<1> HIDE DEF r
<1>4. /\ tokens' \in Seq(Row) /\ Len(tokens') = Len(tokens)
      /\ \A j \in 1 .. Len(tokens) : tokens'[j] = IF j = k THEN r ELSE tokens[j]
  BY <1>1, <1>2, <1>3
<1>5. DOMAIN tokens' = DOMAIN tokens
  BY <1>4
<1>6. QED
  BY <1>1, <1>2, <1>3

LEMMA SetTask ==
    ASSUME TypeOK, NEW t \in Tasks, NEW new \in Request, task' = [task EXCEPT ![t] = new]
    PROVE  /\ task' \in [Tasks -> Request] /\ task'[t] = new
           /\ \A u \in Tasks \ {t} : task'[u] = task[u]
  BY Points

LEMMA DoneFacts ==
    ASSUME TypeOK, NEW t \in Tasks, Done(t)
    PROVE  /\ task' \in [Tasks -> Request]
           /\ task'[t].pc = "idle" /\ task'[t].todo = {} /\ ~task'[t].late
           /\ \A u \in Tasks \ {t} : task'[u] = task[u]
  BY IdleTyped, SetTask DEF Done

\* A session that was inactive when a request came stays inactive.
LEMMA StaleStays ==
    ASSUME TypeOK, Locals, Stale,
           \A u \in Tasks : task'[u].late => task[u].late /\ task'[u].sess = task[u].sess,
           \A s \in SessionIds : session[s] # "none" =>
              opened'[s] = opened[s] /\ (session'[s] = "open" => session[s] = "open"),
           now' \in {now, now + 1}
    PROVE  Stale'
<1> SUFFICES ASSUME NEW u \in Tasks, task'[u].late
             PROVE  ~Active(task[u].sess)'
  BY DEF Stale
<1>1. task[u].late /\ task'[u].sess = task[u].sess
  OBVIOUS
<1>2. PICK s \in SessionIds : s = task[u].sess /\ session[s] # "none"
  <2>1. task[u].pc # "idle"
    BY DEF Locals
  <2>2. QED
    BY DEF Locals
<1>3. ~(session[s] = "open" /\ opened[s] + TTL > now)
  BY <1>2 DEF Stale, Active
<1>4. opened[s] \in Nat /\ now \in Nat /\ TTL \in Nat
  BY BoundsNat DEF TypeOK
<1>5. ~(session'[s] = "open" /\ opened'[s] + TTL > now')
  BY <1>2, <1>3, <1>4
<1>6. QED
  BY <1>2, <1>5 DEF Active

----------------------------------------------------------------------------
(* The steps.                                                              *)

LEMMA TickStep ==
    ASSUME SessionsInv, Tick
    PROVE  SessionsInv'
<1>1. /\ TypeOK /\ Locals /\ Known /\ Opening /\ Locks
      /\ OneLine /\ Unburnt /\ Stale /\ NoLateSuccess
  BY DEF SessionsInv
<1>2. /\ now' = now + 1
      /\ UNCHANGED <<session, opened, tokens, given, task, refreshes, faults, reused>>
  BY DEF Tick, sessions, history
<1>3. TypeOK'
  BY <1>1, <1>2 DEF TypeOK
<1>4. Locals'
  BY <1>1, <1>2 DEF Locals
<1>5. Known'
  BY <1>1, <1>2 DEF Known
<1>6. Opening'
  BY <1>1, <1>2 DEF Opening
<1>7. Locks'
  BY <1>1, <1>2 DEF Locks
<1>8. OneLine'
  BY <1>1, <1>2 DEF OneLine
<1>9. Unburnt'
  BY <1>1, <1>2 DEF Unburnt
<1>10. Stale'
  BY <1>1, <1>2, StaleStays
<1>11. NoLateSuccess'
  BY <1>1, <1>2 DEF NoLateSuccess
<1>12. QED
  BY <1>3, <1>4, <1>5, <1>6, <1>7, <1>8, <1>9, <1>10, <1>11 DEF SessionsInv

LEMMA CreateSessionStep ==
    ASSUME SessionsInv, NEW t \in Tasks, CreateSession(t)
    PROVE  SessionsInv'
<1>1. /\ TypeOK /\ Locals /\ Known /\ Opening /\ Locks
      /\ OneLine /\ Unburnt /\ Stale /\ NoLateSuccess
  BY DEF SessionsInv
<1>2. PICK s \in SessionIds :
         /\ task[t].pc = "idle" /\ session[s] = "none" /\ session' = [session EXCEPT ![s] = "open"]
         /\ opened' = [opened EXCEPT ![s] = now]
         /\ task' = [task EXCEPT ![t] = [IdleTask EXCEPT !.pc = "opened", !.sess = s]]
         /\ UNCHANGED <<tokens, given, now, refreshes, faults, reused>>
  BY DEF CreateSession, history
<1> DEFINE h == [IdleTask EXCEPT !.pc = "opened", !.sess = s]
<1>3. h \in Request /\ h.pc = "opened" /\ h.sess = s /\ h.todo = {} /\ ~h.late
  BY DEF IdleTask, Request
<1> HIDE DEF h
<1>4. /\ task' \in [Tasks -> Request] /\ task'[t] = h
      /\ \A u \in Tasks \ {t} : task'[u] = task[u]
  BY <1>1, <1>2, <1>3, SetTask DEF h
<1>5. /\ session'[s] = "open"
      /\ \A r \in SessionIds \ {s} : session'[r] = session[r] /\ opened'[r] = opened[r]
  BY <1>1, <1>2 DEF TypeOK
<1>6. /\ \A k \in DOMAIN tokens : tokens[k].session # s
      /\ \A u \in Tasks : task[u].pc # "idle" => task[u].sess # s
  BY <1>1, <1>2 DEF Known, Locals
<1>7. \A u \in Tasks : task'[u].late => task[u].late /\ task'[u].sess = task[u].sess
  BY <1>3, <1>4
<1>8. TypeOK'
  BY <1>1, <1>2, <1>4 DEF TypeOK
<1>9. Locals'
  <2> SUFFICES ASSUME NEW u \in Tasks PROVE Locals!(u)'
    BY DEF Locals
  <2>1. CASE u = t
    BY <1>3, <1>4, <1>5, <2>1
  <2>2. CASE u # t
    <3>1. task'[u] = task[u] /\ tokens' = tokens /\ Locals!(u)
      BY <1>1, <1>2, <2>2 DEF Locals
    <3>2. task[u].pc # "idle" => session'[task[u].sess] = session[task[u].sess]
      BY <1>5, <1>6, <3>1
    <3>3. QED
      BY <3>1, <3>2
  <2>3. QED
    BY <2>1, <2>2
<1>10. Known'
  BY <1>1, <1>2 DEF Known
<1>11. Opening'
  BY <1>1, <1>2, <1>6 DEF Opening
<1>12. Locks'
  BY <1>1, <1>2 DEF Locks
<1>13. OneLine'
  BY <1>1, <1>2 DEF OneLine
<1>14. Unburnt'
  BY <1>1, <1>2 DEF Unburnt
<1>15. Stale'
  BY <1>1, <1>2, <1>3, <1>4, <1>5, StaleStays
<1>16. NoLateSuccess'
  BY <1>1, <1>2 DEF NoLateSuccess
<1>17. QED
  BY <1>8, <1>9, <1>10, <1>11, <1>12, <1>13, <1>14, <1>15, <1>16 DEF SessionsInv

LEMMA IssueTokenSetStep ==
    ASSUME SessionsInv, NEW t \in Tasks, IssueTokenSet(t)
    PROVE  SessionsInv'
<1>1. /\ TypeOK /\ Locals /\ Known /\ Opening /\ Locks
      /\ OneLine /\ Unburnt /\ Stale /\ NoLateSuccess
  BY DEF SessionsInv
<1>2. /\ task[t].pc = "opened" /\ tokens' = Append(tokens, NewRow(task[t].sess))
      /\ task' = [task EXCEPT ![t].pc = "reply", ![t].new = Len(tokens) + 1]
      /\ UNCHANGED <<session, opened, given, now, refreshes, faults, reused>>
  BY DEF IssueTokenSet, sessions, history
<1>3. PICK s \in SessionIds : s = task[t].sess
  BY <1>1, <1>2 DEF Locals
<1>4. PICK n \in Nat : n = Len(tokens) + 1
  OBVIOUS
<1> DEFINE h == [task[t] EXCEPT !.pc = "reply", !.new = n]
<1>5. /\ h \in Request /\ h.pc = "reply" /\ h.sess = s /\ h.new = n /\ h.todo = task[t].todo
      /\ h.late = task[t].late
  BY <1>1, <1>3, Points DEF Request
<1>6. task' = [task EXCEPT ![t] = h]
  BY <1>2, <1>4
<1> HIDE DEF h
<1>7. /\ task' \in [Tasks -> Request] /\ task'[t] = h
      /\ \A u \in Tasks \ {t} : task'[u] = task[u]
  BY <1>1, <1>5, <1>6, SetTask
<1>8. /\ tokens' \in Seq(Row) /\ n \notin DOMAIN tokens /\ DOMAIN tokens' = DOMAIN tokens \cup {n}
      /\ \A k \in DOMAIN tokens : tokens'[k] = tokens[k]
      /\ tokens'[n].session = s /\ ~tokens'[n].used /\ tokens'[n].lock = None
  BY <1>1, <1>2, <1>3, <1>4, InsertFacts, Points
<1>9. /\ \A k \in DOMAIN tokens : tokens[k].session # s /\ tokens[k].lock # t
      /\ task[t].todo = {} /\ ~task[t].late
      /\ \A u \in Tasks : task[u].pc # "idle" /\ task[u].sess = s => u = t
  BY <1>1, <1>2, <1>3 DEF Opening, Locks, Locals
<1>10. session[s] # "none"
  BY <1>1, <1>2, <1>3 DEF Locals
<1>11. TypeOK'
  BY <1>1, <1>2, <1>5, <1>6, <1>8 DEF TypeOK
<1>12. Locals'
  BY <1>1, <1>2, <1>7 DEF Locals
<1>13. Known'
  BY <1>1, <1>2, <1>8, <1>10 DEF Known
<1>14. Opening'
  BY <1>1, <1>2, <1>3, <1>7, <1>8 DEF Opening
<1>15. Locks'
  BY <1>1, <1>2, <1>7, <1>8, NoneApart DEF Locks, Locals
<1>16. OneLine'
  BY <1>1, <1>8, <1>9 DEF OneLine
<1>17. Unburnt'
  BY <1>1, <1>2, <1>8 DEF Unburnt
<1>18. Stale'
  BY <1>1, <1>2, <1>7, StaleStays
<1>19. NoLateSuccess'
  BY <1>1, <1>2, <1>7, <1>9 DEF NoLateSuccess
<1>20. QED
  BY <1>11, <1>12, <1>13, <1>14, <1>15, <1>16, <1>17, <1>18, <1>19 DEF SessionsInv

LEMMA RefreshStep ==
    ASSUME SessionsInv, NEW t \in Tasks, NEW k \in given, Refresh(t, k)
    PROVE  SessionsInv'
<1>1. /\ TypeOK /\ Locals /\ Known /\ Opening /\ Locks
      /\ OneLine /\ Unburnt /\ Stale /\ NoLateSuccess
  BY DEF SessionsInv
<1>2. k \in DOMAIN tokens /\ k \in Nat
  BY <1>1, Points DEF Known
<1>3. PICK s \in SessionIds : s = tokens[k].session
  BY <1>1, <1>2, Points
<1>4. PICK b \in BOOLEAN : b = ~Active(s)
  OBVIOUS
<1> DEFINE h == [IdleTask EXCEPT !.pc = "selecting", !.tok = k, !.sess = s, !.late = b]
<1>5. /\ task[t].pc = "idle" /\ refreshes' = refreshes + 1 /\ task' = [task EXCEPT ![t] = h]
      /\ UNCHANGED <<session, opened, tokens, given, now, faults, reused>>
  BY <1>3, <1>4 DEF Refresh, sessions
<1>6. /\ h \in Request /\ h.pc = "selecting" /\ h.tok = k /\ h.sess = s /\ h.todo = {} /\ h.late = b
  BY <1>2 DEF IdleTask, Request
<1> HIDE DEF h
<1>7. /\ task' \in [Tasks -> Request] /\ task'[t] = h
      /\ \A u \in Tasks \ {t} : task'[u] = task[u]
  BY <1>1, <1>5, <1>6, SetTask
<1>8. session[s] # "none" /\ \A u \in Tasks : task[u].pc = "opened" => task[u].sess # s
  BY <1>1, <1>3 DEF Known, Opening
<1>9. \A j \in DOMAIN tokens : tokens[j].lock # t
  BY <1>1, <1>5 DEF Locks
<1>10. TypeOK'
  BY <1>1, <1>5, <1>6 DEF TypeOK
<1>11. Locals'
  BY <1>1, <1>2, <1>3, <1>5, <1>6, <1>8 DEF Locals
<1>12. Known'
  BY <1>1, <1>5 DEF Known
<1>13. Opening'
  BY <1>1, <1>2, <1>3, <1>5, <1>6 DEF Opening
<1>14. Locks'
  BY <1>1, <1>5, <1>6 DEF Locks
<1>15. OneLine'
  BY <1>1, <1>5 DEF OneLine
<1>16. Unburnt'
  BY <1>1, <1>5 DEF Unburnt
<1>17. Stale'
  BY <1>1, <1>4, <1>5, <1>6, <1>7 DEF Stale, Active
<1>18. NoLateSuccess'
  BY <1>1, <1>5, <1>6 DEF NoLateSuccess
<1>19. QED
  BY <1>10, <1>11, <1>12, <1>13, <1>14, <1>15, <1>16, <1>17, <1>18 DEF SessionsInv

LEMMA SelectForUpdateStep ==
    ASSUME SessionsInv, NEW t \in Tasks, SelectForUpdate(t)
    PROVE  SessionsInv'
<1>1. /\ TypeOK /\ Locals /\ Known /\ Opening /\ Locks
      /\ OneLine /\ Unburnt /\ Stale /\ NoLateSuccess
  BY DEF SessionsInv
<1>2. /\ task[t].pc = "selecting" /\ Lock(t, task[t].tok)
      /\ task' = [task EXCEPT ![t].pc = "locked", ![t].seen = tokens[task[t].tok].used]
      /\ UNCHANGED <<session, opened, given, now, refreshes, faults, reused>>
  BY DEF SelectForUpdate, sessions, history
<1>3. PICK k \in DOMAIN tokens : k = task[t].tok /\ tokens[k].session = task[t].sess
  BY <1>1, <1>2 DEF Locals
<1>4. PICK b \in BOOLEAN : b = tokens[k].used
  BY <1>1, Points DEF Row
<1> DEFINE h == [task[t] EXCEPT !.pc = "locked", !.seen = b]
<1>5. /\ h \in Request /\ h.pc = "locked" /\ h.sess = task[t].sess /\ h.tok = k /\ h.seen = b
      /\ h.todo = task[t].todo /\ h.late = task[t].late /\ h.new = task[t].new
  BY <1>1, <1>3, Points DEF Request
<1>6. task' = [task EXCEPT ![t] = h]
  BY <1>2, <1>3, <1>4
<1> HIDE DEF h
<1>7. /\ task' \in [Tasks -> Request] /\ task'[t] = h
      /\ \A u \in Tasks \ {t} : task'[u] = task[u]
  BY <1>1, <1>5, <1>6, SetTask
<1>8. /\ tokens[k].lock = None /\ tokens' \in Seq(Row) /\ DOMAIN tokens' = DOMAIN tokens
      /\ tokens'[k].lock = t
      /\ \A j \in DOMAIN tokens : /\ tokens'[j].session = tokens[j].session
                                  /\ tokens'[j].used <=> tokens[j].used
      /\ \A j \in DOMAIN tokens \ {k} : tokens'[j].lock = tokens[j].lock
  BY <1>1, <1>2, <1>3, LockFacts
<1>9. TypeOK'
  BY <1>1, <1>2, <1>7, <1>8 DEF TypeOK
<1>10. Locals'
  BY <1>1, <1>2, <1>7, <1>8 DEF Locals
<1>11. Known'
  BY <1>1, <1>2, <1>6, <1>8 DEF Known
<1>12. Opening'
  BY <1>1, <1>2, <1>7, <1>8 DEF Opening
<1>13. Locks'
  <2>1. ASSUME NEW j \in DOMAIN tokens, NEW u \in Tasks, tokens'[j].lock = u
        PROVE  task'[u].pc \in {"locked", "marking"} /\ tokens'[j].session = task'[u].sess
    <3>1. CASE j = k
      BY <1>2, <1>3, <1>7, <1>8, <2>1, <3>1
    <3>2. CASE j # k
      <4>1. tokens[j].lock = u
        BY <1>8, <2>1, <3>2
      <4>2. task[u].pc \in {"locked", "marking"} /\ tokens[j].session = task[u].sess
        BY <1>1, <4>1 DEF Locks
      <4>3. QED
        BY <1>2, <1>7, <1>8, <4>2
    <3>3. QED
      BY <3>1, <3>2
  <2>2. ASSUME NEW u \in Tasks, task'[u].pc \in {"locked", "marking"}
        PROVE  /\ tokens'[task'[u].tok].lock = u
               /\ task'[u].seen <=> tokens'[task'[u].tok].used
    <3>1. CASE u = t
      BY <1>2, <1>3, <1>7, <1>8, <3>1
    <3>2. CASE u # t
      <4>1. task'[u] = task[u] /\ task[u].pc \in {"locked", "marking"}
        BY <1>7, <2>2, <3>2
      <4>2. /\ task[u].tok \in DOMAIN tokens /\ tokens[task[u].tok].lock = u
            /\ task[u].seen <=> tokens[task[u].tok].used
        BY <1>1, <4>1 DEF Locks, Locals
      <4>3. task[u].tok # k
        BY <1>8, <4>2, NoneApart
      <4>4. QED
        BY <1>2, <1>7, <1>8, <4>2, <4>3
    <3>3. QED
      BY <3>1, <3>2
  <2>3. QED
    BY <1>1, <1>2, <1>3, <1>4, <1>7, <1>8, <2>2 DEF Locks
<1>14. OneLine'
  BY <1>1, <1>8 DEF OneLine
<1>15. Unburnt'
  BY <1>1, <1>2, <1>3, <1>4, <1>5, <1>6, <1>8, Points, NoneApart DEF Unburnt
<1>16. Stale'
  BY <1>1, <1>2, <1>7, StaleStays
<1>17. NoLateSuccess'
  BY <1>1, <1>2, <1>7 DEF NoLateSuccess
<1>18. QED
  BY <1>9, <1>10, <1>11, <1>12, <1>13, <1>14, <1>15, <1>16, <1>17 DEF SessionsInv

LEMMA MarkUsedStep ==
    ASSUME SessionsInv, NEW t \in Tasks, MarkUsed(t)
    PROVE  SessionsInv'
<1>1. /\ TypeOK /\ Locals /\ Known /\ Opening /\ Locks
      /\ OneLine /\ Unburnt /\ Stale /\ NoLateSuccess
  BY DEF SessionsInv
<1>2. PICK k \in task[t].todo :
         /\ task[t].pc = "marking" /\ Lock(t, k)
         /\ task' = [task EXCEPT ![t].todo = @ \ {k}]
         /\ UNCHANGED <<session, opened, given, now, refreshes, faults, reused>>
  BY DEF MarkUsed, sessions, history
<1>3. k \in DOMAIN tokens /\ tokens[k].session = task[t].sess
  BY <1>1 DEF Locals
<1> DEFINE h == [task[t] EXCEPT !.todo = @ \ {k}]
<1>4. /\ h \in Request /\ h.pc = "marking" /\ h.sess = task[t].sess /\ h.tok = task[t].tok
      /\ h.seen = task[t].seen /\ h.todo = task[t].todo \ {k} /\ h.late = task[t].late
      /\ h.new = task[t].new
  BY <1>1, <1>2, Points DEF Request
<1>5. task' = [task EXCEPT ![t] = h]
  BY <1>2
<1> HIDE DEF h
<1>6. /\ task' \in [Tasks -> Request] /\ task'[t] = h
      /\ \A u \in Tasks \ {t} : task'[u] = task[u]
  BY <1>1, <1>4, <1>5, SetTask
<1>7. /\ tokens[k].lock = None /\ tokens' \in Seq(Row) /\ DOMAIN tokens' = DOMAIN tokens
      /\ tokens'[k].lock = t
      /\ \A j \in DOMAIN tokens : /\ tokens'[j].session = tokens[j].session
                                  /\ tokens'[j].used <=> tokens[j].used
      /\ \A j \in DOMAIN tokens \ {k} : tokens'[j].lock = tokens[j].lock
  BY <1>1, <1>2, <1>3, LockFacts
<1>8. TypeOK'
  BY <1>1, <1>2, <1>6, <1>7 DEF TypeOK
<1>9. Locals'
  BY <1>1, <1>2, <1>7 DEF Locals
<1>10. Known'
  BY <1>1, <1>2, <1>7, Points DEF Known
<1>11. Opening'
  BY <1>1, <1>2, <1>7 DEF Opening
<1>12. Locks'
  <2>1. ASSUME NEW j \in DOMAIN tokens, NEW u \in Tasks, tokens'[j].lock = u
        PROVE  task'[u].pc \in {"locked", "marking"} /\ tokens'[j].session = task'[u].sess
    <3>1. CASE j = k
      BY <1>2, <1>3, <1>7, <2>1, <3>1
    <3>2. CASE j # k
      <4>1. tokens[j].lock = u
        BY <1>7, <2>1, <3>2
      <4>2. task[u].pc \in {"locked", "marking"} /\ tokens[j].session = task[u].sess
        BY <1>1, <4>1 DEF Locks
      <4>3. QED
        BY <1>2, <1>7, <4>2
    <3>3. QED
      BY <3>1, <3>2
  <2>2. ASSUME NEW u \in Tasks, task'[u].pc \in {"locked", "marking"}
        PROVE  /\ tokens'[task'[u].tok].lock = u
               /\ task'[u].seen <=> tokens'[task'[u].tok].used
    <3>1. CASE u = t
      BY <1>1, <1>2, <1>7, <3>1 DEF Locks, Locals
    <3>2. CASE u # t
      <4>1. task'[u] = task[u] /\ task[u].pc \in {"locked", "marking"}
        BY <1>2, <2>2, <3>2
      <4>2. /\ task[u].tok \in DOMAIN tokens /\ tokens[task[u].tok].lock = u
            /\ task[u].seen <=> tokens[task[u].tok].used
        BY <1>1, <4>1 DEF Locks, Locals
      <4>3. task[u].tok # k
        BY <1>7, <4>2, NoneApart
      <4>4. QED
        BY <1>2, <1>7, <4>2, <4>3
    <3>3. QED
      BY <3>1, <3>2
  <2>3. QED
    BY <1>1, <1>2, <1>3, <1>7, <2>2 DEF Locks
<1>13. OneLine'
  BY <1>1, <1>7 DEF OneLine
<1>14. Unburnt'
  BY <1>1, <1>2, <1>7 DEF Unburnt
<1>15. Stale'
  BY <1>1, <1>2, StaleStays
<1>16. NoLateSuccess'
  BY <1>1, <1>2 DEF NoLateSuccess
<1>17. QED
  BY <1>8, <1>9, <1>10, <1>11, <1>12, <1>13, <1>14, <1>15, <1>16 DEF SessionsInv

\* A transaction ends and changes nothing.
LEMMA RollbackStep ==
    ASSUME SessionsInv, NEW t \in Tasks, tokens' = Release(t, {}), Done(t),
           UNCHANGED <<session, opened, given, now, refreshes, reused>>, faults' \in Nat
    PROVE  SessionsInv'
<1>1. /\ TypeOK /\ Locals /\ Known /\ Opening /\ Locks
      /\ OneLine /\ Unburnt /\ Stale /\ NoLateSuccess
  BY DEF SessionsInv
<1>2. /\ tokens' \in Seq(Row) /\ DOMAIN tokens' = DOMAIN tokens
      /\ \A k \in DOMAIN tokens :
            /\ tokens'[k].session = tokens[k].session
            /\ tokens'[k].used <=> tokens[k].used
            /\ tokens'[k].lock = IF tokens[k].lock = t THEN None ELSE tokens[k].lock
  BY <1>1, ReleaseFacts DEF Released
<1>3. /\ task' \in [Tasks -> Request]
      /\ task'[t].pc = "idle" /\ task'[t].todo = {} /\ ~task'[t].late
      /\ \A u \in Tasks \ {t} : task'[u] = task[u]
  BY <1>1, DoneFacts
<1>4. TypeOK'
  BY <1>1, <1>2, <1>3 DEF TypeOK
<1>5. Locals'
  BY <1>1, <1>2, <1>3 DEF Locals
<1>6. Known'
  BY <1>1, <1>2 DEF Known
<1>7. Opening'
  BY <1>1, <1>2, <1>3 DEF Opening
<1>8. Locks'
  <2>1. ASSUME NEW k \in DOMAIN tokens, NEW u \in Tasks, tokens'[k].lock = u
        PROVE  task'[u].pc \in {"locked", "marking"} /\ tokens'[k].session = task'[u].sess
    <3>1. tokens[k].lock = u /\ u # t
      BY <1>2, <2>1, NoneApart
    <3>2. QED
      BY <1>1, <1>2, <1>3, <3>1 DEF Locks
  <2>2. ASSUME NEW u \in Tasks, task'[u].pc \in {"locked", "marking"}
        PROVE  /\ tokens'[task'[u].tok].lock = u
               /\ task'[u].seen <=> tokens'[task'[u].tok].used
    <3>1. u # t /\ task'[u] = task[u] /\ task[u].pc \in {"locked", "marking"}
      BY <1>3, <2>2
    <3>2. /\ task[u].tok \in DOMAIN tokens /\ tokens[task[u].tok].lock = u
          /\ task[u].seen <=> tokens[task[u].tok].used
      BY <1>1, <3>1 DEF Locks, Locals
    <3>3. QED
      BY <1>2, <3>1, <3>2
  <2>3. QED
    BY <1>2, <2>1, <2>2 DEF Locks
<1>9. OneLine'
  BY <1>1, <1>2 DEF OneLine
<1>10. Unburnt'
  BY <1>1, <1>2 DEF Unburnt
<1>11. Stale'
  BY <1>1, <1>3, StaleStays
<1>12. NoLateSuccess'
  BY <1>1, <1>3 DEF NoLateSuccess
<1>13. QED
  BY <1>4, <1>5, <1>6, <1>7, <1>8, <1>9, <1>10, <1>11, <1>12 DEF SessionsInv

\* A request ends outside a transaction.
LEMMA FinishStep ==
    ASSUME SessionsInv, NEW t \in Tasks, task[t].pc \in {"rotated", "reply"}, Done(t),
           given' \subseteq DOMAIN tokens,
           UNCHANGED <<session, opened, tokens, now, refreshes, faults, reused>>
    PROVE  SessionsInv'
<1>1. /\ TypeOK /\ Locals /\ Known /\ Opening /\ Locks
      /\ OneLine /\ Unburnt /\ Stale /\ NoLateSuccess
  BY DEF SessionsInv
<1>2. /\ task' \in [Tasks -> Request]
      /\ task'[t].pc = "idle" /\ task'[t].todo = {} /\ ~task'[t].late
      /\ \A u \in Tasks \ {t} : task'[u] = task[u]
  BY <1>1, DoneFacts
<1>3. \A k \in DOMAIN tokens : tokens[k].lock # t
  BY <1>1 DEF Locks
<1>4. given' \subseteq Nat
  BY Points
<1>5. TypeOK'
  BY <1>1, <1>2 DEF TypeOK
<1>6. Locals'
  BY <1>1, <1>2 DEF Locals
<1>7. Known'
  BY <1>1 DEF Known
<1>8. Opening'
  BY <1>1, <1>2 DEF Opening
<1>9. Locks'
  BY <1>1, <1>2 DEF Locks
<1>10. OneLine'
  BY <1>1 DEF OneLine
<1>11. Unburnt'
  BY <1>1 DEF Unburnt
<1>12. Stale'
  BY <1>1, <1>2, StaleStays
<1>13. NoLateSuccess'
  BY <1>1, <1>2 DEF NoLateSuccess
<1>14. QED
  BY <1>5, <1>6, <1>7, <1>8, <1>9, <1>10, <1>11, <1>12, <1>13 DEF SessionsInv

LEMMA RevokeFamilyStep ==
    ASSUME SessionsInv, NEW t \in Tasks, RevokeFamily(t)
    PROVE  SessionsInv'
<1>1. /\ TypeOK /\ Locals /\ Known /\ Opening /\ Locks
      /\ OneLine /\ Unburnt /\ Stale /\ NoLateSuccess
  BY DEF SessionsInv
<1>2. /\ task[t].pc = "marking" /\ tokens' = Release(t, {k \in DOMAIN tokens : tokens[k].lock = t})
      /\ session' = [session EXCEPT ![task[t].sess] = "revoked"]
      /\ reused' = reused \cup {task[t].sess} /\ Done(t)
      /\ UNCHANGED <<opened, given, now, refreshes, faults>>
  BY DEF RevokeFamily
<1>3. PICK s \in SessionIds : s = task[t].sess /\ session[s] # "none"
  BY <1>1, <1>2 DEF Locals
<1>4. /\ tokens' \in Seq(Row) /\ DOMAIN tokens' = DOMAIN tokens
      /\ \A k \in DOMAIN tokens :
            /\ tokens'[k].session = tokens[k].session
            /\ tokens'[k].used <=> tokens[k].used \/ tokens[k].lock = t
            /\ tokens'[k].lock = IF tokens[k].lock = t THEN None ELSE tokens[k].lock
  BY <1>1, <1>2, ReleaseFacts DEF Released
<1>5. /\ task' \in [Tasks -> Request]
      /\ task'[t].pc = "idle" /\ task'[t].todo = {} /\ ~task'[t].late
      /\ \A u \in Tasks \ {t} : task'[u] = task[u]
  BY <1>1, <1>2, DoneFacts
<1>6. /\ session' \in [SessionIds -> {"none", "open", "revoked"}] /\ session'[s] = "revoked"
      /\ \A r \in SessionIds \ {s} : session'[r] = session[r]
  BY <1>1, <1>2, <1>3 DEF TypeOK
<1>7. reused' = reused \cup {s} /\ reused' \subseteq SessionIds
  BY <1>1, <1>2, <1>3 DEF TypeOK
<1>8. \A k \in DOMAIN tokens : tokens[k].lock = t => tokens[k].session = s
  BY <1>1, <1>3 DEF Locks
<1>9. TypeOK'
  BY <1>1, <1>2, <1>3, <1>4, <1>5 DEF TypeOK
<1>10. Locals'
  <2> SUFFICES ASSUME NEW u \in Tasks PROVE Locals!(u)'
    BY DEF Locals
  <2>1. CASE u = t
    BY <1>5, <2>1
  <2>2. CASE u # t
    <3>1. task'[u] = task[u] /\ Locals!(u)
      BY <1>1, <1>5, <2>2 DEF Locals
    <3>2. QED
      BY <1>4, <1>6, <3>1
  <2>3. QED
    BY <2>1, <2>2
<1>11. Known'
  <2>1. given' \subseteq DOMAIN tokens'
    BY <1>1, <1>2, <1>4 DEF Known
  <2>2. ASSUME NEW k \in DOMAIN tokens PROVE session'[tokens'[k].session] # "none"
    <3>1. tokens'[k].session = tokens[k].session /\ tokens[k].session \in SessionIds
      BY <1>1, <1>4, Points
    <3>2. session[tokens[k].session] # "none"
      BY <1>1 DEF Known
    <3>3. QED
      BY <1>6, <3>1, <3>2
  <2>3. QED
    BY <1>4, <2>1, <2>2 DEF Known
<1>12. Opening'
  BY <1>1, <1>4, <1>5 DEF Opening
<1>13. Locks'
  <2>1. ASSUME NEW k \in DOMAIN tokens, NEW u \in Tasks, tokens'[k].lock = u
        PROVE  task'[u].pc \in {"locked", "marking"} /\ tokens'[k].session = task'[u].sess
    <3>1. tokens[k].lock = u /\ u # t
      BY <1>4, <2>1, NoneApart
    <3>2. QED
      BY <1>1, <1>4, <1>5, <3>1 DEF Locks
  <2>2. ASSUME NEW u \in Tasks, task'[u].pc \in {"locked", "marking"}
        PROVE  /\ tokens'[task'[u].tok].lock = u
               /\ task'[u].seen <=> tokens'[task'[u].tok].used
    <3>1. u # t /\ task'[u] = task[u] /\ task[u].pc \in {"locked", "marking"}
      BY <1>5, <2>2
    <3>2. /\ task[u].tok \in DOMAIN tokens /\ tokens[task[u].tok].lock = u
          /\ task[u].seen <=> tokens[task[u].tok].used
      BY <1>1, <3>1 DEF Locks, Locals
    <3>3. QED
      BY <1>4, <3>1, <3>2
  <2>3. QED
    BY <1>4, <2>1, <2>2 DEF Locks
<1>14. OneLine'
  BY <1>1, <1>4, NoneApart DEF OneLine
<1>15. Unburnt'
  <2> SUFFICES ASSUME NEW k \in DOMAIN tokens,
                      tokens[k].session \notin reused, tokens[k].session # s
               PROVE  \E j \in DOMAIN tokens :
                         tokens'[j].session = tokens[k].session /\ ~tokens'[j].used
    BY <1>4, <1>7 DEF Unburnt
  <2>1. PICK j \in DOMAIN tokens : tokens[j].session = tokens[k].session /\ ~tokens[j].used
    BY <1>1 DEF Unburnt
  <2>2. tokens[j].lock # t
    BY <1>8, <2>1
  <2>3. QED
    BY <1>4, <2>1, <2>2
<1>16. Stale'
  BY <1>1, <1>2, <1>5, StaleStays
<1>17. NoLateSuccess'
  BY <1>1, <1>5 DEF NoLateSuccess
<1>18. QED
  BY <1>9, <1>10, <1>11, <1>12, <1>13, <1>14, <1>15, <1>16, <1>17 DEF SessionsInv

LEMMA RotateStep ==
    ASSUME SessionsInv, NEW t \in Tasks, Rotate(t)
    PROVE  SessionsInv'
<1>1. /\ TypeOK /\ Locals /\ Known /\ Opening /\ Locks
      /\ OneLine /\ Unburnt /\ Stale /\ NoLateSuccess
  BY DEF SessionsInv
<1>2. /\ task[t].pc = "locked" /\ ~task[t].seen
      /\ tokens' = Append(Release(t, {task[t].tok}), NewRow(task[t].sess))
      /\ task' = [task EXCEPT ![t].pc = "rotated", ![t].new = Len(tokens) + 1]
      /\ UNCHANGED <<session, opened, given, now, refreshes, faults, reused>>
  BY DEF Rotate, sessions, history
<1>3. PICK s \in SessionIds : s = task[t].sess /\ session[s] # "none"
  BY <1>1, <1>2 DEF Locals
<1>4. PICK i \in DOMAIN tokens : /\ i = task[t].tok /\ tokens[i].session = s /\ ~tokens[i].used
                                 /\ tokens[i].lock = t
  BY <1>1, <1>2, <1>3 DEF Locals, Locks
<1>5. PICK n \in Nat : n = Len(tokens) + 1
  OBVIOUS
<1> DEFINE h == [task[t] EXCEPT !.pc = "rotated", !.new = n]
           q == Release(t, {i})
<1>6. /\ h \in Request /\ h.pc = "rotated" /\ h.sess = s /\ h.new = n /\ h.todo = task[t].todo
      /\ h.late = task[t].late
  BY <1>1, <1>3, Points DEF Request
<1>7. task' = [task EXCEPT ![t] = h]
  BY <1>2, <1>5
<1>8. tokens' = Append(q, NewRow(s))
  BY <1>2, <1>3, <1>4
<1>9. Released(t, {i}, q)
  BY <1>1, ReleaseFacts
<1> HIDE DEF h, q
<1>10. /\ task' \in [Tasks -> Request] /\ task'[t] = h
      /\ \A u \in Tasks \ {t} : task'[u] = task[u]
  BY <1>1, <1>6, <1>7, SetTask
<1>11. /\ tokens' \in Seq(Row) /\ n \notin DOMAIN tokens /\ DOMAIN tokens' = DOMAIN tokens \cup {n}
      /\ \A k \in DOMAIN tokens : tokens'[k] = q[k]
      /\ tokens'[n].session = s /\ ~tokens'[n].used /\ tokens'[n].lock = None
  BY <1>1, <1>5, <1>8, <1>9, InsertFacts DEF Released
<1>12. \A k \in DOMAIN tokens :
            /\ tokens'[k].session = tokens[k].session
            /\ tokens'[k].used <=> tokens[k].used \/ k = i
            /\ tokens'[k].lock = IF tokens[k].lock = t THEN None ELSE tokens[k].lock
  BY <1>9, <1>11 DEF Released
<1>13. /\ \A k \in DOMAIN tokens : tokens[k].session = s /\ ~tokens[k].used => k = i
      /\ task[t].todo = {} /\ \A u \in Tasks : task[u].pc = "opened" => task[u].sess # s
  BY <1>1, <1>2, <1>4 DEF OneLine, Opening, Locals
<1>14. UNCHANGED <<session, opened, given, now, refreshes, faults, reused>>
  BY <1>2
<1>15. TypeOK'
  BY <1>1, <1>2, <1>6, <1>7, <1>11 DEF TypeOK
<1>16. Locals'
  <2> SUFFICES ASSUME NEW u \in Tasks PROVE Locals!(u)'
    BY DEF Locals
  <2>1. CASE u = t
    BY <1>3, <1>6, <1>10, <1>11, <1>13, <1>14, <2>1
  <2>2. CASE u # t
    <3>1. task'[u] = task[u] /\ Locals!(u)
      BY <1>1, <1>10, <2>2 DEF Locals
    <3>2. QED
      BY <1>11, <1>12, <1>14, <3>1
  <2>3. QED
    BY <2>1, <2>2
<1>17. Known'
  BY <1>1, <1>3, <1>11, <1>12, <1>14 DEF Known
<1>18. Opening'
  BY <1>1, <1>6, <1>10, <1>11, <1>12, <1>13 DEF Opening
<1>19. Locks'
  <2>1. ASSUME NEW k \in DOMAIN tokens', NEW u \in Tasks, tokens'[k].lock = u
        PROVE  task'[u].pc \in {"locked", "marking"} /\ tokens'[k].session = task'[u].sess
    <3>1. k \in DOMAIN tokens /\ tokens[k].lock = u /\ u # t
      BY <1>11, <1>12, <2>1, NoneApart
    <3>2. QED
      BY <1>1, <1>10, <1>12, <3>1 DEF Locks
  <2>2. ASSUME NEW u \in Tasks, task'[u].pc \in {"locked", "marking"}
        PROVE  /\ tokens'[task'[u].tok].lock = u
               /\ task'[u].seen <=> tokens'[task'[u].tok].used
    <3>1. u # t /\ task'[u] = task[u] /\ task[u].pc \in {"locked", "marking"}
      BY <1>6, <1>10, <2>2
    <3>2. /\ task[u].tok \in DOMAIN tokens /\ tokens[task[u].tok].lock = u
          /\ task[u].seen <=> tokens[task[u].tok].used
      BY <1>1, <3>1 DEF Locks, Locals
    <3>3. QED
      BY <1>4, <1>12, <3>1, <3>2
  <2>3. QED
    BY <2>1, <2>2 DEF Locks
<1>20. OneLine'
  BY <1>1, <1>4, <1>11, <1>12 DEF OneLine
<1>21. Unburnt'
  <2>1. ASSUME NEW k \in DOMAIN tokens, tokens[k].session # s, tokens[k].session \notin reused
        PROVE  \E j \in DOMAIN tokens : tokens'[j].session = tokens[k].session /\ ~tokens'[j].used
    <3>1. PICK j \in DOMAIN tokens : tokens[j].session = tokens[k].session /\ ~tokens[j].used
      BY <1>1, <2>1 DEF Unburnt
    <3>2. j # i
      BY <1>4, <2>1, <3>1
    <3>3. QED
      BY <1>12, <3>1, <3>2
  <2>2. n \in DOMAIN tokens' /\ tokens'[n].session = s /\ ~tokens'[n].used
    BY <1>11
  <2>3. QED
    BY <1>11, <1>12, <1>14, <2>1 DEF Unburnt
<1>22. Stale'
  BY <1>1, <1>2, <1>10, StaleStays
<1>23. NoLateSuccess'
  BY <1>1, <1>2, <1>10 DEF NoLateSuccess
<1>24. QED
  BY <1>15, <1>16, <1>17, <1>18, <1>19, <1>20, <1>21, <1>22, <1>23 DEF SessionsInv

LEMMA DetectReuseStep ==
    ASSUME SessionsInv, NEW t \in Tasks, DetectReuse(t)
    PROVE  SessionsInv'
<1>1. /\ TypeOK /\ Locals /\ Known /\ Opening /\ Locks
      /\ OneLine /\ Unburnt /\ Stale /\ NoLateSuccess
  BY DEF SessionsInv
<1>2. /\ task[t].pc = "locked"
      /\ task' = [task EXCEPT ![t].pc = "marking", ![t].todo = Family(task[t].sess) \ {task[t].tok}]
      /\ UNCHANGED <<session, opened, tokens, given, now, refreshes, faults, reused>>
  BY DEF DetectReuse, sessions, history
<1>3. /\ Family(task[t].sess) \subseteq DOMAIN tokens /\ DOMAIN tokens \subseteq Nat
      /\ \A k \in Family(task[t].sess) : tokens[k].session = task[t].sess
  BY Points DEF Family
<1>4. PICK R : /\ R = Family(task[t].sess) \ {task[t].tok}
               /\ R \subseteq DOMAIN tokens /\ R \subseteq Nat
               /\ \A k \in R : tokens[k].session = task[t].sess
  BY <1>3
<1> DEFINE h == [task[t] EXCEPT !.pc = "marking", !.todo = R]
<1>5. /\ h \in Request /\ h.pc = "marking" /\ h.sess = task[t].sess /\ h.tok = task[t].tok
      /\ h.seen = task[t].seen /\ h.todo = R /\ h.late = task[t].late
  BY <1>1, <1>4, Points DEF Request
<1>6. task' = [task EXCEPT ![t] = h]
  BY <1>2, <1>4
<1> HIDE DEF h
<1>7. /\ task' \in [Tasks -> Request] /\ task'[t] = h
      /\ \A u \in Tasks \ {t} : task'[u] = task[u]
  BY <1>1, <1>5, <1>6, SetTask
<1>8. TypeOK'
  BY <1>1, <1>2, <1>5, <1>6 DEF TypeOK
<1>9. Locals'
  BY <1>1, <1>2, <1>3, <1>7 DEF Locals
<1>10. Known'
  BY <1>1, <1>2 DEF Known
<1>11. Opening'
  BY <1>1, <1>2, <1>7 DEF Opening
<1>12. Locks'
  BY <1>1, <1>2, <1>7 DEF Locks
<1>13. OneLine'
  BY <1>1, <1>2 DEF OneLine
<1>14. Unburnt'
  BY <1>1, <1>2 DEF Unburnt
<1>15. Stale'
  BY <1>1, <1>2, <1>7, StaleStays
<1>16. NoLateSuccess'
  BY <1>1, <1>2, <1>7 DEF NoLateSuccess
<1>17. QED
  BY <1>8, <1>9, <1>10, <1>11, <1>12, <1>13, <1>14, <1>15, <1>16 DEF SessionsInv

LEMMA SignAccessTokenStep ==
    ASSUME SessionsInv, NEW t \in Tasks, SignAccessToken(t)
    PROVE  SessionsInv'
<1>1. /\ TypeOK /\ Locals /\ Known /\ Opening /\ Locks
      /\ OneLine /\ Unburnt /\ Stale /\ NoLateSuccess
  BY DEF SessionsInv
<1>2. /\ task[t].pc = "rotated" /\ Active(task[t].sess) /\ task' = [task EXCEPT ![t].pc = "reply"]
      /\ UNCHANGED <<session, opened, tokens, given, now, refreshes, faults, reused>>
  BY DEF SignAccessToken, sessions, history
<1> DEFINE h == [task[t] EXCEPT !.pc = "reply"]
<1>3. /\ h \in Request /\ h.pc = "reply" /\ h.sess = task[t].sess /\ h.new = task[t].new
      /\ h.todo = task[t].todo /\ h.late = task[t].late
  BY <1>1, Points DEF Request
<1>4. task' = [task EXCEPT ![t] = h]
  BY <1>2
<1> HIDE DEF h
<1>5. /\ task' \in [Tasks -> Request] /\ task'[t] = h
      /\ \A u \in Tasks \ {t} : task'[u] = task[u]
  BY <1>1, <1>3, <1>4, SetTask
<1>6. ~task[t].late
  BY <1>1, <1>2 DEF Stale
<1>7. TypeOK'
  BY <1>1, <1>2, <1>3, <1>4 DEF TypeOK
<1>8. Locals'
  BY <1>1, <1>2 DEF Locals
<1>9. Known'
  BY <1>1, <1>2 DEF Known
<1>10. Opening'
  BY <1>1, <1>2 DEF Opening
<1>11. Locks'
  BY <1>1, <1>2 DEF Locks
<1>12. OneLine'
  BY <1>1, <1>2 DEF OneLine
<1>13. Unburnt'
  BY <1>1, <1>2 DEF Unburnt
<1>14. Stale'
  BY <1>1, <1>2, StaleStays
<1>15. NoLateSuccess'
  BY <1>1, <1>2, <1>6 DEF NoLateSuccess
<1>16. QED
  BY <1>7, <1>8, <1>9, <1>10, <1>11, <1>12, <1>13, <1>14, <1>15 DEF SessionsInv

LEMMA RevokeStep ==
    ASSUME SessionsInv, NEW ss \in SUBSET SessionIds, Revoke(ss),
           UNCHANGED <<opened, tokens, given, task, now, history>>
    PROVE  SessionsInv'
<1>1. /\ TypeOK /\ Locals /\ Known /\ Opening /\ Locks
      /\ OneLine /\ Unburnt /\ Stale /\ NoLateSuccess
  BY DEF SessionsInv
<1>2. /\ session' \in [SessionIds -> {"none", "open", "revoked"}]
      /\ \A s \in SessionIds : /\ session[s] = "none" <=> session'[s] = "none"
                               /\ session'[s] = "open" => session[s] = "open"
  BY <1>1 DEF Revoke, TypeOK
<1>3. UNCHANGED <<opened, tokens, given, task, now, refreshes, faults, reused>>
  BY DEF history
<1>4. TypeOK'
  BY <1>1, <1>2, <1>3 DEF TypeOK
<1>5. Locals'
  BY <1>1, <1>2 DEF Locals
<1>6. Known'
  BY <1>1, <1>2, Points DEF Known
<1>7. Opening'
  BY <1>1 DEF Opening
<1>8. Locks'
  BY <1>1 DEF Locks
<1>9. OneLine'
  BY <1>1 DEF OneLine
<1>10. Unburnt'
  BY <1>1, <1>3 DEF Unburnt
<1>11. Stale'
  BY <1>1, <1>2, StaleStays
<1>12. NoLateSuccess'
  BY <1>1 DEF NoLateSuccess
<1>13. QED
  BY <1>4, <1>5, <1>6, <1>7, <1>8, <1>9, <1>10, <1>11, <1>12 DEF SessionsInv

LEMMA RequestSteps ==
    ASSUME SessionsInv, NEW t \in Tasks, CreateSession(t) \/ Step(t) \/ Fail(t)
    PROVE  SessionsInv'
<1>1. TypeOK /\ Locals /\ Known
  BY DEF SessionsInv
<1>2. CASE CreateSession(t)
  BY <1>2, CreateSessionStep
<1>3. CASE IssueTokenSet(t)
  BY <1>3, IssueTokenSetStep
<1>4. CASE SelectForUpdate(t)
  BY <1>4, SelectForUpdateStep
<1>5. CASE RefuseExpired(t) \/ AbortDeadlock(t) \/ Fail(t)
  <2>1. /\ tokens' = Release(t, {}) /\ Done(t) /\ faults' \in Nat
        /\ UNCHANGED <<session, opened, given, now, refreshes, reused>>
    BY <1>1, <1>5 DEF RefuseExpired, AbortDeadlock, Fail, sessions, history, TypeOK
  <2>2. QED
    BY <2>1, RollbackStep
<1>6. CASE Rotate(t)
  BY <1>6, RotateStep
<1>7. CASE DetectReuse(t)
  BY <1>7, DetectReuseStep
<1>8. CASE MarkUsed(t)
  BY <1>8, MarkUsedStep
<1>9. CASE RevokeFamily(t)
  BY <1>9, RevokeFamilyStep
<1>10. CASE SignAccessToken(t)
  BY <1>10, SignAccessTokenStep
<1>11. CASE RefuseInactive(t) \/ Reply(t)
  <2>1. /\ task[t].pc \in {"rotated", "reply"} /\ Done(t)
        /\ UNCHANGED <<session, opened, tokens, now, refreshes, faults, reused>>
    BY <1>11 DEF RefuseInactive, Reply, sessions, history
  <2>2. given' = given \/ (task[t].pc = "reply" /\ given' = given \cup {task[t].new})
    BY <1>11 DEF RefuseInactive, Reply
  <2>3. given' \subseteq DOMAIN tokens
    BY <1>1, <2>2 DEF Known, Locals
  <2>4. QED
    BY <2>1, <2>3, FinishStep
<1>12. QED
  BY <1>2, <1>3, <1>4, <1>5, <1>6, <1>7, <1>8, <1>9, <1>10, <1>11 DEF Step

LEMMA StepSessions == SessionsInv /\ [Next]_vars => SessionsInv'
<1> SUFFICES ASSUME SessionsInv, [Next]_vars PROVE SessionsInv'
  OBVIOUS
<1>1. CASE Tick
  BY <1>1, TickStep
<1>2. CASE \E t \in Tasks : CreateSession(t) \/ Step(t) \/ Fail(t)
  BY <1>2, RequestSteps
<1>3. CASE \E t \in Tasks : \E k \in given : Refresh(t, k)
  BY <1>3, RefreshStep
<1>4. CASE \E s \in SessionIds : Logout(s) \/ LogoutAll(s)
  <2>1. PICK s \in SessionIds : Logout(s) \/ LogoutAll(s)
    BY <1>4
  <2>2. PICK ss \in SUBSET SessionIds : Revoke(ss)
    BY <2>1 DEF Logout, LogoutAll
  <2>3. UNCHANGED <<opened, tokens, given, task, now, history>>
    BY <2>1 DEF Logout, LogoutAll
  <2>4. QED
    BY <2>2, <2>3, RevokeStep
<1>5. CASE UNCHANGED vars
  <2>1. /\ TypeOK /\ Locals /\ Known /\ Opening /\ Locks
        /\ OneLine /\ Unburnt /\ Stale /\ NoLateSuccess
    BY DEF SessionsInv
  <2>2. UNCHANGED <<session, opened, tokens, given, task, now, refreshes, faults, reused>>
    BY <1>5 DEF vars, sessions, history
  <2>3. TypeOK' /\ Locals' /\ Known'
    BY <2>1, <2>2 DEF TypeOK, Locals, Known
  <2>4. Opening' /\ Locks' /\ OneLine'
    BY <2>1, <2>2 DEF Opening, Locks, OneLine
  <2>5. Unburnt' /\ Stale' /\ NoLateSuccess'
    BY <2>1, <2>2 DEF Unburnt, Stale, Active, NoLateSuccess
  <2>6. QED
    BY <2>3, <2>4, <2>5 DEF SessionsInv
<1>6. QED
  BY <1>1, <1>2, <1>3, <1>4, <1>5 DEF Next

\* SessionsInv holds in every reachable state.
LEMMA SessionsInvariant == Spec => []SessionsInv
  BY InitSessions, StepSessions, PTL DEF Spec

----------------------------------------------------------------------------
(* The theorems.                                                           *)

\* The session and refresh-token columns and the locals of the running requests
\* always have their types.
THEOREM SessionsTypeCorrect == Spec => []TypeOK
<1>1. SessionsInv => TypeOK
  BY DEF SessionsInv
<1>2. QED
  BY <1>1, SessionsInvariant, PTL

\* However many requests present the same or older tokens of a session at once, and
\* wherever they fail, the FOR UPDATE of rotate() never lets a family have two tokens
\* that can still be exchanged.
THEOREM RotationIsLinear == Spec => []OneLiveToken
<1>1. SessionsInv => OneLiveToken
  <2> SUFFICES ASSUME SessionsInv, NEW s \in SessionIds PROVE Cardinality(Live(s)) <= 1
    BY DEF OneLiveToken
  <2>1. \A j, k \in Live(s) : j = k
    BY DEF Live, Family, SessionsInv, OneLine
  <2>2. CASE Live(s) = {}
    BY <2>2, FS_EmptySet
  <2>3. CASE Live(s) # {}
    <3>1. PICK k : k \in Live(s)
      BY <2>3
    <3>2. Live(s) = {k}
      BY <2>1, <3>1
    <3>3. Cardinality({k}) = 1
      BY FS_Singleton
    <3>4. QED
      BY <3>2, <3>3
  <2>4. QED
    BY <2>2, <2>3
<1>2. QED
  BY <1>1, SessionsInvariant, PTL

\* Whatever rotations fail or are aborted half way, a session that was given tokens
\* has one that can still be exchanged, unless a reuse was detected in its family.
THEOREM RollbackBurnsNothing == Spec => []NeverBurnt
<1>1. SessionsInv => NeverBurnt
  <2> SUFFICES ASSUME SessionsInv, NEW s \in SessionIds, Family(s) # {}, s \notin reused
               PROVE  Live(s) # {}
    BY DEF NeverBurnt
  <2>1. PICK k \in DOMAIN tokens : tokens[k].session = s
    BY DEF Family
  <2>2. PICK j \in DOMAIN tokens : tokens[j].session = s /\ ~tokens[j].used
    BY <2>1 DEF SessionsInv, Unburnt
  <2>3. QED
    BY <2>2 DEF Live, Family
<1>2. QED
  BY <1>1, SessionsInvariant, PTL

\* A refresh that arrives after its session was revoked or has expired never gets as
\* far as a reply with tokens, because the session is looked up again after rotate().
THEOREM RevokedStaysOut == Spec => []NoLateSuccess
<1>1. SessionsInv => NoLateSuccess
  BY DEF SessionsInv
<1>2. QED
  BY <1>1, SessionsInvariant, PTL

====
