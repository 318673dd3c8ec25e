---- MODULE Accounts ----
(***************************************************************************)
(* Registration, login and the lockout of failed logins: AuthService,      *)
(* UsersService and UserRepository.  A request's handler stops at its      *)
(* statements and at argon2; login decides on the row it read first.  No   *)
(* code clears is_active, so every account is active.                      *)
(***************************************************************************)
EXTENDS Naturals

CONSTANTS
    Emails,
    Passwords,
    Weak,        \* passwords below MINIMUM_PASSWORD_SCORE
    MaxFailed,   \* LockoutPolicy.MAX_FAILED_ATTEMPTS
    LockTime,    \* LockoutPolicy.LOCKOUT_MINUTES
    MaxTime,     \* bound on the clock
    Tasks,       \* requests that may be in progress at once
    None

ASSUME PolicyNat == MaxFailed \in Nat \ {0} /\ LockTime \in Nat \ {0} /\ MaxTime \in Nat
ASSUME WeakPasswords == Weak \subseteq Passwords

VARIABLES
    users,   \* per email: the row of the account or None
    clock,   \* now(), in minutes
    task     \* per request: its handler

accounts == <<users, clock, task>>

\* locked_until is NULL; a lock that is set is later than any clock.
NoLock == 0

Row == [password : Passwords, failed : Nat, lockedUntil : Nat]

ASSUME NoneApart == None \notin Row /\ None \notin Emails /\ None \notin Passwords

IdleTask == [pc |-> "idle", email |-> None, password |-> None, user |-> None]

Init ==
    /\ users = [e \in Emails |-> None]
    /\ clock = 0
    /\ task = [t \in Tasks |-> IdleTask]

Begin(t, pc, e, p, user) ==
    task' = [task EXCEPT ![t] = [pc |-> pc, email |-> e, password |-> p, user |-> user]]

Goto(t, pc) == task' = [task EXCEPT ![t].pc = pc]

\* The handler has its answer.
Answer(t, pc) == task' = [task EXCEPT ![t] = [IdleTask EXCEPT !.pc = pc]]

Tick ==
    /\ clock < MaxTime
    /\ clock' = clock + 1
    /\ UNCHANGED <<users, task>>

----------------------------------------------------------------------------
(* Registration.                                                           *)

\* The password's strength and findByEmail; both messages to the client are the same
\* whether or not the account exists.
Register(t, e, p) ==
    /\ task[t].pc = "idle"
    /\ CASE p \in Weak -> Answer(t, "refused")
         [] p \notin Weak /\ users[e] # None -> Answer(t, "registered")
         [] OTHER -> Begin(t, "create", e, p, None)
    /\ UNCHANGED <<users, clock>>

NewRow(p) == [password |-> p, failed |-> 0, lockedUntil |-> NoLock]

\* Mutant of InsertUser: the conflict is resolved by an update.
UpsertUser(e, p) == [users EXCEPT ![e] = NewRow(p)]

\* INSERT INTO users; the UNIQUE email makes the second of two registrations a
\* ConflictException, which register answers like a success.
InsertUser(e, p) == IF users[e] = None THEN [users EXCEPT ![e] = NewRow(p)] ELSE users

Create(t) ==
    /\ task[t].pc = "create"
    /\ users' = InsertUser(task[t].email, task[t].password)
    /\ Answer(t, "registered")
    /\ UNCHANGED clock

----------------------------------------------------------------------------
(* Login.                                                                  *)

\* findByEmail: the rest of the handler works with this copy of the row.
Login(t, e, p) ==
    /\ task[t].pc = "idle"
    /\ Begin(t, "verify", e, p, users[e])
    /\ UNCHANGED <<users, clock>>

\* The client, told that it is registered, logs in by the same request.
LoginAgain(t, e, p) ==
    /\ task[t].pc = "registered"
    /\ Begin(t, "verify", e, p, users[e])
    /\ UNCHANGED <<users, clock>>

\* Mutant of IsLocked: a lock that is in force ends one minute early.
IsLockedEarly(user) == user.lockedUntil > clock + 1

IsLocked(user) == user.lockedUntil > clock

\* After argon2.verify, which runs for unknown emails too.
Verify(t) ==
    LET user == task[t].user
        valid == user.password = task[t].password
    IN  /\ task[t].pc = "verify"
        /\ IF user = None \/ IsLocked(user) THEN Answer(t, "refused")
           ELSE Goto(t, IF valid THEN "reset" ELSE "count")
        /\ UNCHANGED <<users, clock>>

\* Mutant of Incremented: the count is taken from the row that login read.
IncrementedFromCopy(t, row) ==
    LET n == task[t].user.failed + 1
    IN  [row EXCEPT !.failed = n, !.lockedUntil = IF n >= MaxFailed THEN clock + LockTime ELSE @]

\* UPDATE users SET failed_attempts = failed_attempts + 1, locked_until = CASE ...
Incremented(t, row) ==
    LET n == row.failed + 1
    IN  [row EXCEPT !.failed = n, !.lockedUntil = IF n >= MaxFailed THEN clock + LockTime ELSE @]

Count(t) ==
    /\ task[t].pc = "count"
    /\ users' = [users EXCEPT ![task[t].email] = Incremented(t, @)]
    /\ Answer(t, "refused")
    /\ UNCHANGED clock

\* resetFailedAttempts, whatever the row holds by now.
Reset(t) ==
    /\ task[t].pc = "reset"
    /\ users' = [users EXCEPT ![task[t].email] = [@ EXCEPT !.failed = 0, !.lockedUntil = NoLock]]
    /\ Goto(t, "issue")
    /\ UNCHANGED clock

\* issueTokens.
Issue(t) ==
    /\ task[t].pc = "issue"
    /\ Answer(t, "granted")
    /\ UNCHANGED <<users, clock>>

\* A statement fails: the handler ends with an internal error.
DbFails(t) ==
    /\ task[t].pc \in {"create", "verify", "count", "reset", "issue"}
    /\ Answer(t, "failed")
    /\ UNCHANGED <<users, clock>>

Answered(t) == task[t].pc \in {"registered", "refused", "granted", "failed"}

Reply(t) ==
    /\ Answered(t)
    /\ task' = [task EXCEPT ![t] = IdleTask]
    /\ UNCHANGED <<users, clock>>

----------------------------------------------------------------------------

Handle(t) == Create(t) \/ Verify(t) \/ Count(t) \/ Reset(t) \/ DbFails(t)

Next ==
    \/ Tick
    \/ \E t \in Tasks : Handle(t) \/ Issue(t) \/ Reply(t)
    \/ \E t \in Tasks, e \in Emails, p \in Passwords :
         Register(t, e, p) \/ Login(t, e, p) \/ LoginAgain(t, e, p)

Spec == Init /\ [][Next]_accounts

----------------------------------------------------------------------------
(* Properties.                                                             *)

\* Types of the rows and of the handlers' locals.
AccountsTypeOK ==
    /\ users \in [Emails -> Row \cup {None}]
    /\ clock \in Nat
    /\ task \in [Tasks -> [pc : {"idle", "create", "registered", "verify", "count", "reset",
                                 "issue", "granted", "refused", "failed"},
                           email : Emails \cup {None}, password : Passwords \cup {None},
                           user : Row \cup {None}]]

\* However concurrent failures and successes interleave, an account is locked exactly
\* when the limit of failed attempts was reached since the last success: no failure is
\* lost between reading and counting and no success leaves half of the lock behind.
LimitLocks ==
    \A e \in Emails : users[e] # None =>
        (users[e].failed >= MaxFailed <=> users[e].lockedUntil # NoLock)

\* A lock in force is cleared only by a login that read the row before that lock was
\* set: the reset is unconditional, but no login that could see the lock reaches it.
LockClearedOnlyByEarlier ==
    [][\A e \in Emails :
         /\ users[e] # None
         /\ users[e].lockedUntil > clock
         /\ users'[e].lockedUntil = NoLock
         => \E t \in Tasks : /\ task[t].pc = "reset" /\ task[t].email = e
                             /\ task[t].user.lockedUntil < users[e].lockedUntil]_accounts

\* Of two registrations of an email the first one to be stored keeps the account: the
\* check and the INSERT are apart, and both clients are told of success.
FirstRegistrationWins ==
    [][\A e \in Emails : users[e] # None => users'[e].password = users[e].password]_accounts
====
