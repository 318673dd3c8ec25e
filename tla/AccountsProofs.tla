---- MODULE AccountsProofs ----
(***************************************************************************)
(* Theorems about Accounts, for any sets of emails, passwords and requests *)
(* and any lockout policy.                                                 *)
(***************************************************************************)
EXTENDS Accounts, TLAPS

Handler == [pc : {"idle", "create", "registered", "verify", "count", "reset",
                  "issue", "granted", "refused", "failed"},
            email : Emails \cup {None}, password : Passwords \cup {None},
            user : Row \cup {None}]

\* What a handler knows at its statements.  A login that goes on has read a row whose lock
\* was over at the time, and rows are never deleted.
LocalsOf(t) ==
    /\ task[t].pc \in {"create", "verify", "count", "reset"} => task[t].email \in Emails
    /\ task[t].pc = "create" => task[t].password \in Passwords
    /\ task[t].pc \in {"verify", "count", "reset"} /\ task[t].user # None
           => users[task[t].email] # None
    /\ task[t].pc \in {"count", "reset"}
           => task[t].user # None /\ task[t].user.lockedUntil <= clock

Locals == \A t \in Tasks : LocalsOf(t)

AccountsInv == AccountsTypeOK /\ Locals /\ LimitLocks

LEMMA TypeOKByHandler ==
    AccountsTypeOK <=> /\ users \in [Emails -> Row \cup {None}]
                       /\ clock \in Nat
                       /\ task \in [Tasks -> Handler]
  BY DEF AccountsTypeOK, Handler

LEMMA IdleTyped == IdleTask \in Handler /\ IdleTask.pc = "idle"
  BY DEF IdleTask, Handler

\* The ways a handler goes on.
LEMMA BeginTyped ==
    ASSUME AccountsTypeOK, NEW t \in Tasks, NEW e \in Emails, NEW p \in Passwords,
           NEW pc \in {"create", "verify"}, NEW user \in Row \cup {None}, Begin(t, pc, e, p, user)
    PROVE  /\ task' \in [Tasks -> Handler]
           /\ task'[t] = [pc |-> pc, email |-> e, password |-> p, user |-> user]
           /\ task'[t].pc = pc
           /\ \A u \in Tasks \ {t} : task'[u] = task[u]
<1>1. [pc |-> pc, email |-> e, password |-> p, user |-> user] \in Handler
  BY DEF Handler
<1>2. QED
  BY <1>1, TypeOKByHandler DEF Begin

LEMMA GotoTyped ==
    ASSUME AccountsTypeOK, NEW t \in Tasks, NEW pc \in {"count", "reset", "issue"}, Goto(t, pc)
    PROVE  /\ task' \in [Tasks -> Handler]
           /\ task'[t].pc = pc /\ task'[t].email = task[t].email /\ task'[t].user = task[t].user
           /\ \A u \in Tasks \ {t} : task'[u] = task[u]
<1>1. task \in [Tasks -> Handler] /\ task[t] \in Handler
  BY TypeOKByHandler
<1>2. task' = [task EXCEPT ![t] = [task[t] EXCEPT !.pc = pc]]
  BY <1>1 DEF Goto
<1>3. /\ [task[t] EXCEPT !.pc = pc] \in Handler
      /\ [task[t] EXCEPT !.pc = pc].pc = pc
      /\ [task[t] EXCEPT !.pc = pc].email = task[t].email
      /\ [task[t] EXCEPT !.pc = pc].user = task[t].user
  BY <1>1 DEF Handler
<1>4. task'[t] = [task[t] EXCEPT !.pc = pc]
  BY <1>1, <1>2
<1>5. QED
  BY <1>1, <1>2, <1>3, <1>4

LEMMA AnswerTyped ==
    ASSUME AccountsTypeOK, NEW t \in Tasks,
           NEW pc \in {"registered", "refused", "granted", "failed"}, Answer(t, pc)
    PROVE  /\ task' \in [Tasks -> Handler]
           /\ task'[t].pc = pc
           /\ \A u \in Tasks \ {t} : task'[u] = task[u]
<1>1. [IdleTask EXCEPT !.pc = pc] \in Handler /\ [IdleTask EXCEPT !.pc = pc].pc = pc
  BY DEF IdleTask, Handler
<1>2. QED
  BY <1>1, TypeOKByHandler DEF Answer

\* The rows after a counted failure, a reset and a registration.
LEMMA CountedRow ==
    ASSUME AccountsTypeOK, NEW t \in Tasks, NEW row \in Row
    PROVE  LET new == Incremented(t, row)
           IN  /\ new \in Row /\ new.password = row.password /\ new.failed = row.failed + 1
               /\ row.failed + 1 >= MaxFailed => new.lockedUntil = clock + LockTime
               /\ row.failed + 1 < MaxFailed => new.lockedUntil = row.lockedUntil
<1> DEFINE n == row.failed + 1
           l == IF n >= MaxFailed THEN clock + LockTime ELSE row.lockedUntil
<1>1. clock \in Nat /\ LockTime \in Nat /\ MaxFailed \in Nat
  BY PolicyNat DEF AccountsTypeOK
<1>2. row.failed \in Nat /\ row.lockedUntil \in Nat
  BY DEF Row
<1>3. n \in Nat /\ l \in Nat
  BY <1>1, <1>2
<1>4. Incremented(t, row) = [row EXCEPT !.failed = n, !.lockedUntil = l]
  BY Zenon DEF Incremented
<1>5. /\ n >= MaxFailed => l = clock + LockTime
      /\ n < MaxFailed => l = row.lockedUntil
  BY <1>1, <1>2
<1> HIDE DEF n, l
<1>6. LET new == Incremented(t, row)
      IN  new \in Row /\ new.password = row.password /\ new.failed = n /\ new.lockedUntil = l
  BY <1>3, <1>4 DEF Row
<1>7. QED
  BY <1>5, <1>6 DEF n

LEMMA ResetRow ==
    ASSUME NEW row \in Row
    PROVE  LET new == [row EXCEPT !.failed = 0, !.lockedUntil = NoLock]
           IN  new \in Row /\ new.password = row.password /\ new.failed = 0 /\ new.lockedUntil = NoLock
  BY DEF Row, NoLock

LEMMA NewRowTyped ==
    ASSUME NEW p \in Passwords
    PROVE  NewRow(p) \in Row /\ NewRow(p).failed = 0 /\ NewRow(p).lockedUntil = NoLock
  BY DEF NewRow, Row, NoLock

LEMMA InitAccounts == Init => AccountsInv
<1> SUFFICES ASSUME Init PROVE AccountsInv
  OBVIOUS
<1>1. AccountsTypeOK
  BY IdleTyped, TypeOKByHandler DEF Init
<1>2. Locals
  BY IdleTyped DEF Init, Locals, LocalsOf
<1>3. LimitLocks
  BY DEF Init, LimitLocks
<1>4. QED
  BY <1>1, <1>2, <1>3 DEF AccountsInv

\* What every step does to the rows: it leaves them alone, stores a new one, counts a
\* failure or resets a row, each for one email.
Stored(t) ==
    /\ task[t].email \in Emails /\ task[t].password \in Passwords
    /\ users[task[t].email] = None
    /\ users' = [users EXCEPT ![task[t].email] = NewRow(task[t].password)]

Counted(t) ==
    /\ task[t].email \in Emails /\ users[task[t].email] \in Row
    /\ users' = [users EXCEPT ![task[t].email] = Incremented(t, users[task[t].email])]

ResetBy(t) ==
    /\ task[t].email \in Emails /\ users[task[t].email] \in Row
    /\ task[t].pc = "reset"
    /\ task[t].user \in Row /\ task[t].user.lockedUntil <= clock
    /\ users' = [users EXCEPT ![task[t].email] =
                    [users[task[t].email] EXCEPT !.failed = 0, !.lockedUntil = NoLock]]

RowsStep ==
    \/ UNCHANGED users
    \/ \E t \in Tasks : (Stored(t) \/ Counted(t) \/ ResetBy(t)) /\ UNCHANGED clock

LEMMA StepOfRows ==
    ASSUME AccountsInv, [Next]_accounts
    PROVE  RowsStep
<1>1. AccountsTypeOK /\ Locals
  BY DEF AccountsInv
<1>2. ASSUME NEW t \in Tasks, Create(t) PROVE RowsStep
  <2>1. task[t].email \in Emails /\ task[t].password \in Passwords
    BY <1>1, <1>2 DEF Locals, LocalsOf, Create
  <2>2. CASE users[task[t].email] = None
    BY <1>2, <2>1, <2>2 DEF Create, InsertUser, RowsStep, Stored
  <2>3. CASE users[task[t].email] # None
    BY <1>2, <2>3 DEF Create, InsertUser, RowsStep
  <2>4. QED
    BY <2>2, <2>3
<1>3. ASSUME NEW t \in Tasks, Count(t) PROVE RowsStep
  <2>1. task[t].email \in Emails /\ users[task[t].email] # None
    BY <1>1, <1>3 DEF Locals, LocalsOf, Count
  <2>2. users[task[t].email] \in Row
    BY <1>1, <2>1 DEF AccountsTypeOK
  <2>3. QED
    BY <1>1, <1>3, <2>1, <2>2 DEF Count, RowsStep, Counted, AccountsTypeOK
<1>4. ASSUME NEW t \in Tasks, Reset(t) PROVE RowsStep
  <2>1. /\ task[t].email \in Emails /\ users[task[t].email] # None /\ task[t].user # None
        /\ task[t].user.lockedUntil <= clock
    BY <1>1, <1>4 DEF Locals, LocalsOf, Reset
  <2>2. users[task[t].email] \in Row /\ task[t].user \in Row
    BY <1>1, <2>1 DEF AccountsTypeOK
  <2>3. QED
    BY <1>1, <1>4, <2>1, <2>2 DEF Reset, RowsStep, ResetBy, AccountsTypeOK
<1>5. ASSUME ~\E t \in Tasks : Create(t) \/ Count(t) \/ Reset(t) PROVE UNCHANGED users
  BY <1>5 DEF Next, accounts, Tick, Handle, Verify, DbFails, Issue, Reply, Register, Login, LoginAgain
<1>6. QED
  BY <1>2, <1>3, <1>4, <1>5 DEF RowsStep

\* The rows keep their types and their owners, and none is deleted.
RowsStay ==
    /\ users' \in [Emails -> Row \cup {None}]
    /\ \A e \in Emails : users[e] # None =>
           users'[e] # None /\ users'[e].password = users[e].password

LEMMA RowsKept ==
    ASSUME AccountsInv, RowsStep
    PROVE  RowsStay
<1>1. AccountsTypeOK /\ users \in [Emails -> Row \cup {None}]
  BY DEF AccountsInv, AccountsTypeOK
<1>2. CASE UNCHANGED users
  BY <1>1, <1>2 DEF RowsStay
<1>3. ASSUME NEW t \in Tasks, Stored(t) PROVE RowsStay
  BY <1>1, <1>3, NewRowTyped, NoneApart DEF Stored, RowsStay
<1>4. ASSUME NEW t \in Tasks, Counted(t) PROVE RowsStay
  BY <1>1, <1>4, CountedRow, NoneApart DEF Counted, RowsStay
<1>5. ASSUME NEW t \in Tasks, ResetBy(t) PROVE RowsStay
  BY <1>1, <1>5, ResetRow, NoneApart DEF ResetBy, RowsStay
<1>6. QED
  BY <1>2, <1>3, <1>4, <1>5 DEF RowsStep

LEMMA StepLocals ==
    ASSUME AccountsInv, [Next]_accounts
    PROVE  AccountsTypeOK' /\ Locals'
<1>1. AccountsTypeOK /\ Locals /\ task \in [Tasks -> Handler] /\ clock \in Nat
  BY TypeOKByHandler DEF AccountsInv
<1>2. RowsStay
  BY StepOfRows, RowsKept
<1>3. clock' \in Nat /\ clock' >= clock
  <2>1. CASE Tick
    BY <1>1, <2>1 DEF Tick
  <2>2. CASE ~Tick
    <3>1. clock' = clock
      BY <2>2 DEF Next, accounts, Handle, Create, Verify, Count, Reset, DbFails, Issue, Reply,
                  Register, Login, LoginAgain
    <3>2. QED
      BY <1>1, <3>1
  <2>3. QED
    BY <2>1, <2>2
\* The locals of a handler that does not move are as good as before.
<1>4. ASSUME NEW u \in Tasks, task'[u] = task[u] PROVE LocalsOf(u)'
  <2>1. LocalsOf(u) /\ task[u] \in Handler
    BY <1>1 DEF Locals
  <2>2. task[u].user # None => task[u].user.lockedUntil \in Nat
    BY <2>1 DEF Handler, Row
  <2>3. QED
    BY <1>1, <1>2, <1>3, <1>4, <2>1, <2>2 DEF LocalsOf, RowsStay
<1>5. SUFFICES task' \in [Tasks -> Handler] /\ \A u \in Tasks : task'[u] # task[u] => LocalsOf(u)'
  BY <1>2, <1>3, <1>4, TypeOKByHandler DEF AccountsTypeOK, Handler, Locals, RowsStay
<1> DEFINE Goal == task' \in [Tasks -> Handler] /\ \A u \in Tasks : task'[u] # task[u] => LocalsOf(u)'
\* A handler with an answer has no locals.
<1>6. ASSUME NEW t \in Tasks, NEW pc \in {"registered", "refused", "granted", "failed"}, Answer(t, pc)
      PROVE  Goal
  BY <1>1, <1>6, AnswerTyped DEF LocalsOf
<1>7. ASSUME UNCHANGED task PROVE Goal
  BY <1>1, <1>7
<1>8. ASSUME NEW t \in Tasks, NEW e \in Emails, NEW p \in Passwords,
             Begin(t, "verify", e, p, users[e]), UNCHANGED users
      PROVE  Goal
  <2>1. users[e] \in Row \cup {None}
    BY <1>1 DEF AccountsTypeOK
  <2>2. /\ task' \in [Tasks -> Handler]
        /\ task'[t] = [pc |-> "verify", email |-> e, password |-> p, user |-> users[e]]
        /\ \A u \in Tasks \ {t} : task'[u] = task[u]
    BY <1>1, <1>8, <2>1, BeginTyped
  <2>3. LocalsOf(t)'
    BY <1>8, <2>2 DEF LocalsOf
  <2>4. QED
    BY <2>2, <2>3
<1>9. ASSUME NEW t \in Tasks, NEW e \in Emails, NEW p \in Passwords, Register(t, e, p)
      PROVE  Goal
  <2>1. CASE Begin(t, "create", e, p, None)
    <3>1. /\ task' \in [Tasks -> Handler]
          /\ task'[t] = [pc |-> "create", email |-> e, password |-> p, user |-> None]
          /\ \A u \in Tasks \ {t} : task'[u] = task[u]
      BY <1>1, <2>1, BeginTyped
    <3>2. LocalsOf(t)'
      BY <3>1 DEF LocalsOf
    <3>3. QED
      BY <3>1, <3>2
  <2>2. QED
    BY <1>6, <1>9, <2>1 DEF Register
<1>10. ASSUME NEW t \in Tasks, Verify(t) PROVE Goal
  <2>1. CASE task[t].user = None \/ IsLocked(task[t].user)
    BY <1>6, <1>10, <2>1 DEF Verify
  <2>2. CASE ~(task[t].user = None \/ IsLocked(task[t].user))
    <3>1. PICK pc \in {"count", "reset"} : Goto(t, pc)
      BY <1>10, <2>2 DEF Verify
    <3>2. task[t].user \in Row /\ clock' = clock
      BY <1>1, <1>10, <2>2 DEF Handler, Verify
    <3>3. task[t].user.lockedUntil <= clock'
      BY <1>1, <2>2, <3>2 DEF IsLocked, Row
    <3>4. LocalsOf(t) /\ task[t].pc = "verify" /\ users' = users
      BY <1>1, <1>10 DEF Locals, Verify
    <3>5. QED
      BY <1>1, <2>2, <3>1, <3>3, <3>4, GotoTyped DEF LocalsOf
  <2>3. QED
    BY <2>1, <2>2
<1>11. ASSUME NEW t \in Tasks, Reset(t) PROVE Goal
  BY <1>1, <1>11, GotoTyped DEF Reset, LocalsOf
<1>12. ASSUME NEW t \in Tasks, Reply(t) PROVE Goal
  BY <1>1, <1>12, IdleTyped DEF Reply, LocalsOf
<1>13. ASSUME NEW t \in Tasks, Handle(t) \/ Issue(t) PROVE Goal
  BY <1>6, <1>10, <1>11, <1>13 DEF Handle, Issue, Create, Count, DbFails
<1>14. QED
  <2> HIDE DEF Goal
  <2>1. ASSUME Next PROVE Goal
    <3>1. CASE Tick
      BY <1>7, <3>1 DEF Tick
    <3>2. CASE \E t \in Tasks : Handle(t) \/ Issue(t) \/ Reply(t)
      BY <1>12, <1>13, <3>2
    <3>3. ASSUME NEW t \in Tasks, NEW e \in Emails, NEW p \in Passwords,
                 Register(t, e, p) \/ Login(t, e, p) \/ LoginAgain(t, e, p)
          PROVE  Goal
      BY <1>8, <1>9, <3>3 DEF Login, LoginAgain
    <3>4. QED
      BY <2>1, <3>1, <3>2, <3>3 DEF Next
  <2>2. Goal
    BY <1>7, <2>1 DEF accounts
  <2>3. QED
    BY <2>2 DEF Goal

\* Counting and resetting keep the two columns of the lock together.
LEMMA StepLocks ==
    ASSUME AccountsInv, [Next]_accounts
    PROVE  LimitLocks'
<1>1. AccountsTypeOK /\ LimitLocks /\ users \in [Emails -> Row \cup {None}] /\ clock \in Nat
  BY DEF AccountsInv, AccountsTypeOK
<1>2. MaxFailed \in Nat \ {0} /\ LockTime \in Nat \ {0}
  BY PolicyNat
<1>3. RowsStep
  BY StepOfRows
<1>4. SUFFICES ASSUME NEW e \in Emails, users'[e] # None, users'[e] # users[e]
               PROVE  users'[e].failed >= MaxFailed <=> users'[e].lockedUntil # NoLock
  BY <1>1 DEF LimitLocks
<1>5. PICK t \in Tasks : (Stored(t) \/ Counted(t) \/ ResetBy(t)) /\ UNCHANGED clock
  BY <1>3, <1>4 DEF RowsStep
<1>6. e = task[t].email
  BY <1>1, <1>4, <1>5 DEF Stored, Counted, ResetBy
<1>7. CASE Stored(t)
  BY <1>1, <1>2, <1>6, <1>7, NewRowTyped DEF Stored
<1>8. CASE ResetBy(t)
  <2>1. /\ users[e] \in Row
        /\ users'[e] = [users[e] EXCEPT !.failed = 0, !.lockedUntil = NoLock]
    BY <1>1, <1>6, <1>8 DEF ResetBy
  <2>2. users'[e].failed = 0 /\ users'[e].lockedUntil = NoLock
    BY <2>1, ResetRow
  <2>3. QED
    BY <1>2, <2>2
<1>9. CASE Counted(t)
  <2> DEFINE row == users[e]
  <2>1. row \in Row /\ users'[e] = Incremented(t, row)
    BY <1>1, <1>6, <1>9 DEF Counted
  <2>2. row.failed \in Nat /\ row.lockedUntil \in Nat
    BY <2>1 DEF Row
  <2>3. row.failed >= MaxFailed <=> row.lockedUntil # NoLock
    BY <1>1, <2>1, NoneApart DEF LimitLocks
  <2> HIDE DEF row
  <2>4. /\ users'[e].failed = row.failed + 1
        /\ row.failed + 1 >= MaxFailed => users'[e].lockedUntil = clock + LockTime
        /\ row.failed + 1 < MaxFailed => users'[e].lockedUntil = row.lockedUntil
    BY <1>1, <2>1, CountedRow
  <2>5. QED
    BY <1>1, <1>2, <2>2, <2>3, <2>4 DEF NoLock
<1>10. QED
  BY <1>5, <1>7, <1>8, <1>9

LEMMA AccountsInvariant == Spec => []AccountsInv
<1>1. AccountsInv /\ [Next]_accounts => AccountsInv'
  BY StepLocals, StepLocks DEF AccountsInv
<1>2. QED
  BY <1>1, InitAccounts, PTL DEF Spec

\* The rows and the handlers' locals of register and login keep their types.
THEOREM AccountsTypeCorrect == Spec => []AccountsTypeOK
<1>1. AccountsInv => AccountsTypeOK
  BY DEF AccountsInv
<1>2. QED
  BY <1>1, AccountsInvariant, PTL

\* Any number of concurrent logins keep an account locked exactly when the limit of
\* failed attempts was reached since the last success.
THEOREM LockoutCounts == Spec => []LimitLocks
<1>1. AccountsInv => LimitLocks
  BY DEF AccountsInv
<1>2. QED
  BY <1>1, AccountsInvariant, PTL

\* A lock in force is cleared only by a login that had read the row before it was set.
THEOREM LocksHold == Spec => LockClearedOnlyByEarlier
<1> DEFINE Cleared(e) == /\ users[e] # None
                         /\ users[e].lockedUntil > clock
                         /\ users'[e].lockedUntil = NoLock
           Earlier(e) == \E t \in Tasks :
                             /\ task[t].pc = "reset" /\ task[t].email = e
                             /\ task[t].user.lockedUntil < users[e].lockedUntil
<1>1. AccountsInv /\ [Next]_accounts => \A e \in Emails : Cleared(e) => Earlier(e)
  <2> SUFFICES ASSUME AccountsInv, [Next]_accounts, NEW e \in Emails, Cleared(e)
               PROVE  Earlier(e)
    OBVIOUS
  <2>1. AccountsTypeOK /\ users \in [Emails -> Row \cup {None}] /\ clock \in Nat
    BY DEF AccountsInv, AccountsTypeOK
  <2>2. users[e] \in Row /\ users[e].lockedUntil \in Nat
    BY <2>1 DEF Row
  <2>3. users'[e] # users[e]
    BY <2>1, <2>2 DEF NoLock
  <2>4. PICK t \in Tasks : (Stored(t) \/ Counted(t) \/ ResetBy(t)) /\ UNCHANGED clock
    BY <2>3, StepOfRows DEF RowsStep
  <2>5. e = task[t].email
    BY <2>1, <2>3, <2>4 DEF Stored, Counted, ResetBy
  <2>6. ~Stored(t)
    BY <2>5 DEF Stored
  <2>7. ~Counted(t)
    <3> SUFFICES ASSUME Counted(t) PROVE FALSE
      OBVIOUS
    <3>1. users'[e] = Incremented(t, users[e])
      BY <2>1, <2>5 DEF Counted
    <3>2. users'[e].lockedUntil \in {clock + LockTime, users[e].lockedUntil}
      <4>1. users[e].failed \in Nat /\ MaxFailed \in Nat
        BY <2>2, PolicyNat DEF Row
      <4>2. QED
        BY <2>1, <2>2, <3>1, <4>1, CountedRow
    <3>3. QED
      BY <2>1, <2>2, <3>2, PolicyNat DEF NoLock
  <2>8. ResetBy(t)
    BY <2>4, <2>6, <2>7
  <2>9. task[t].user.lockedUntil \in Nat /\ task[t].user.lockedUntil <= clock
    BY <2>8 DEF ResetBy, Row
  <2>10. task[t].user.lockedUntil < users[e].lockedUntil
    BY <2>1, <2>2, <2>9
  <2>11. QED
    BY <2>5, <2>8, <2>10 DEF ResetBy
<1>2. QED
  BY <1>1, AccountsInvariant, PTL DEF Spec, LockClearedOnlyByEarlier

\* However registrations of an email interleave, the first one stored keeps the account.
THEOREM FirstWins == Spec => FirstRegistrationWins
<1>1. AccountsInv /\ [Next]_accounts
        => \A e \in Emails : users[e] # None => users'[e].password = users[e].password
  BY StepOfRows, RowsKept DEF RowsStay
<1>2. QED
  BY <1>1, AccountsInvariant, PTL DEF Spec, FirstRegistrationWins
====
