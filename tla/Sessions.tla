---- MODULE Sessions ----
(***************************************************************************)
(* Login sessions and the rotation of refresh tokens: AuthService (the     *)
(* part of login after the password check, refresh, logout, logoutAll)     *)
(* over SessionsService and the session, refresh-token and CSRF            *)
(* repositories.                                                           *)
(*                                                                         *)
(* A running request is a task.  rotate() is one PostgreSQL transaction at *)
(* the default isolation level, READ COMMITTED: a row lock is held to the  *)
(* end of the transaction, a statement that meets a lock waits and then    *)
(* works on the newest committed version of that row, and a statement sees *)
(* only the rows that were committed when it started.  What a transaction  *)
(* writes is applied, as other requests see it, by its COMMIT.  A request  *)
(* that dies (a database error, or the process with it) is rolled back.    *)
(***************************************************************************)
EXTENDS Naturals, FiniteSets, Sequences

CONSTANTS
    SessionIds,   \* sessions rows that may be created
    Users,        \* users
    UserOf,       \* the user of each session
    Tasks,        \* requests that may be in progress at once
    TTL,          \* ticks until a session or a token expires
    MaxTime,      \* bound on the clock
    MaxRefreshes, \* bound on refresh requests
    MaxFaults,    \* bound on database errors
    None          \* no row, no task

ASSUME UserOfType == UserOf \in [SessionIds -> Users]
ASSUME BoundsNat == {TTL, MaxTime, MaxRefreshes, MaxFaults} \subseteq Nat
ASSUME NoneApart == None \notin SessionIds /\ None \notin Tasks

VARIABLES
    session,    \* per session: "none", "open" or "revoked" (is_revoked)
    opened,     \* per session: created_at
    tokens,     \* the refresh_tokens rows that are committed, oldest first
    given,      \* tokens that reached a client; a token is its place in tokens
    task,       \* what each request is doing
    now,        \* the clock, in ticks
    refreshes,  \* refresh requests so far
    faults,     \* database errors so far
    reused      \* sessions in whose family a reuse was detected and committed

sessions == <<session, opened>>
history == <<refreshes, faults, reused>>
vars == <<sessions, tokens, given, task, now, history>>

(***************************************************************************)
(* issueTokenSet makes one family per session, so the family of a token is *)
(* its session.  lock is the transaction that holds the row's lock.        *)
(***************************************************************************)
NewRow(s) == [session |-> s, used |-> FALSE, born |-> now, lock |-> None]

Family(s) == {k \in DOMAIN tokens : tokens[k].session = s}

\* findActiveById.
Active(s) == session[s] = "open" /\ opened[s] + TTL > now

IdleTask == [pc |-> "idle", sess |-> None, tok |-> 0, seen |-> FALSE, new |-> 0,
             todo |-> {}, late |-> FALSE]

Init ==
    /\ session = [s \in SessionIds |-> "none"]
    /\ opened = [s \in SessionIds |-> 0]
    /\ tokens = <<>>
    /\ given = {}
    /\ task = [t \in Tasks |-> IdleTask]
    /\ now = 0
    /\ refreshes = 0
    /\ faults = 0
    /\ reused = {}

Done(t) == task' = [task EXCEPT ![t] = IdleTask]

\* The rows once t's transaction has ended; a committed one marks rows as used.
Release(t, marked) ==
    [k \in DOMAIN tokens |->
        [tokens[k] EXCEPT !.used = @ \/ k \in marked,
                          !.lock = IF @ = t THEN None ELSE @]]

Lock(t, k) ==
    /\ tokens[k].lock = None
    /\ tokens' = [tokens EXCEPT ![k].lock = t]

Tick ==
    /\ now < MaxTime
    /\ now' = now + 1
    /\ UNCHANGED <<sessions, tokens, given, task, history>>

----------------------------------------------------------------------------
(* issueTokens, the end of a successful login.                             *)

CreateSession(t) ==
    \E s \in SessionIds :
        /\ task[t].pc = "idle"
        /\ session[s] = "none"
        /\ session' = [session EXCEPT ![s] = "open"]
        /\ opened' = [opened EXCEPT ![s] = now]
        /\ task' = [task EXCEPT ![t] = [IdleTask EXCEPT !.pc = "opened", !.sess = s]]
        /\ UNCHANGED <<tokens, given, now, history>>

\* issueTokenSet: the first token of the family, then the CSRF upsert.
IssueTokenSet(t) ==
    /\ task[t].pc = "opened"
    /\ tokens' = Append(tokens, NewRow(task[t].sess))
    /\ task' = [task EXCEPT ![t].pc = "reply", ![t].new = Len(tokens) + 1]
    /\ UNCHANGED <<sessions, given, now, history>>

----------------------------------------------------------------------------
(* refresh: the transaction of rotate().                                   *)

\* A client presents a token it was given, perhaps not for the first time.
Refresh(t, k) ==
    LET s == tokens[k].session
    IN  /\ task[t].pc = "idle"
        /\ refreshes < MaxRefreshes
        /\ refreshes' = refreshes + 1
        /\ task' = [task EXCEPT ![t] = [IdleTask EXCEPT !.pc = "selecting", !.tok = k,
                                            !.sess = s, !.late = ~Active(s)]]
        /\ UNCHANGED <<sessions, tokens, given, now, faults, reused>>

\* Mutant of SelectForUpdate: a plain SELECT takes no lock.
SelectUnlocked(t) ==
    /\ task[t].pc = "selecting"
    /\ task' = [task EXCEPT ![t].pc = "locked", ![t].seen = tokens[task[t].tok].used]
    /\ UNCHANGED <<sessions, tokens, given, now, history>>

\* SELECT ... FOR UPDATE waits for the row's lock; seen is the is_used it returns.
SelectForUpdate(t) ==
    /\ task[t].pc = "selecting"
    /\ Lock(t, task[t].tok)
    /\ task' = [task EXCEPT ![t].pc = "locked", ![t].seen = tokens[task[t].tok].used]
    /\ UNCHANGED <<sessions, given, now, history>>

Expired(k) == now > tokens[k].born + TTL

RefuseExpired(t) ==
    /\ task[t].pc = "locked"
    /\ Expired(task[t].tok)
    /\ tokens' = Release(t, {})
    /\ Done(t)
    /\ UNCHANGED <<sessions, given, now, history>>

\* The happy path, up to its COMMIT; the CSRF upsert is awaited next.
Rotate(t) ==
    /\ task[t].pc = "locked"
    /\ ~Expired(task[t].tok) /\ ~task[t].seen
    /\ tokens' = Append(Release(t, {task[t].tok}), NewRow(task[t].sess))
    /\ task' = [task EXCEPT ![t].pc = "rotated", ![t].new = Len(tokens) + 1]
    /\ UNCHANGED <<sessions, given, now, history>>

\* Reuse: the UPDATE of the family starts on the rows it can see, ...
DetectReuse(t) ==
    /\ task[t].pc = "locked"
    /\ ~Expired(task[t].tok) /\ task[t].seen
    /\ task' = [task EXCEPT ![t].pc = "marking",
                            ![t].todo = Family(task[t].sess) \ {task[t].tok}]
    /\ UNCHANGED <<sessions, tokens, given, now, history>>

\* ... locks them one by one, ...
MarkUsed(t) ==
    \E k \in task[t].todo :
        /\ task[t].pc = "marking"
        /\ Lock(t, k)
        /\ task' = [task EXCEPT ![t].todo = @ \ {k}]
        /\ UNCHANGED <<sessions, given, now, history>>

\* Mutants of RevokeFamily: the exception rolls the updates back; the session gets
\* a state of its own.
RevokeRolledBack(t) ==
    /\ task[t].pc = "marking"
    /\ task[t].todo = {}
    /\ tokens' = Release(t, {})
    /\ Done(t)
    /\ UNCHANGED <<sessions, given, now, history>>

RevokeMisnamed(t) ==
    /\ task[t].pc = "marking"
    /\ task[t].todo = {}
    /\ tokens' = Release(t, {k \in DOMAIN tokens : tokens[k].lock = t})
    /\ session' = [session EXCEPT ![task[t].sess] = "reused"]
    /\ reused' = reused \cup {task[t].sess}
    /\ Done(t)
    /\ UNCHANGED <<opened, given, now, refreshes, faults>>

\* ... and is committed with the UPDATE of the session; then rotate() throws.
RevokeFamily(t) ==
    /\ task[t].pc = "marking"
    /\ task[t].todo = {}
    /\ tokens' = Release(t, {k \in DOMAIN tokens : tokens[k].lock = t})
    /\ session' = [session EXCEPT ![task[t].sess] = "revoked"]
    /\ reused' = reused \cup {task[t].sess}
    /\ Done(t)
    /\ UNCHANGED <<opened, given, now, refreshes, faults>>

\* t waits for a row that u has locked.
WaitsFor(t, u) == \E k \in task[t].todo : tokens[k].lock = u

\* PostgreSQL aborts a transaction that waits in a cycle.
AbortDeadlock(t) ==
    /\ \E S \in SUBSET Tasks :
          /\ t \in S
          /\ \A u \in S : \E v \in S \ {u} : WaitsFor(u, v)
    /\ tokens' = Release(t, {})
    /\ Done(t)
    /\ UNCHANGED <<sessions, given, now, history>>

----------------------------------------------------------------------------
(* refresh after rotate(), and the reply.                                  *)

\* Mutant of SignAccessToken: the session is not looked up.
SignUnchecked(t) ==
    /\ task[t].pc = "rotated"
    /\ task' = [task EXCEPT ![t].pc = "reply"]
    /\ UNCHANGED <<sessions, tokens, given, now, history>>

\* The CSRF upsert is done and findActiveSession finds the session, ...
SignAccessToken(t) ==
    /\ task[t].pc = "rotated"
    /\ Active(task[t].sess)
    /\ task' = [task EXCEPT ![t].pc = "reply"]
    /\ UNCHANGED <<sessions, tokens, given, now, history>>

\* ... or does not: the request is refused, the rotation stays.
RefuseInactive(t) ==
    /\ task[t].pc = "rotated"
    /\ ~Active(task[t].sess)
    /\ Done(t)
    /\ UNCHANGED <<sessions, tokens, given, now, history>>

\* The response with the new token reaches the client or is lost.
Reply(t) ==
    /\ task[t].pc = "reply"
    /\ given' \in {given, given \cup {task[t].new}}
    /\ Done(t)
    /\ UNCHANGED <<sessions, tokens, now, history>>

\* Mutant of Fail: the error path commits what the transaction has done so far.
FailCommits(t) ==
    /\ task[t].pc # "idle"
    /\ faults < MaxFaults
    /\ faults' = faults + 1
    /\ tokens' = Release(t, {k \in DOMAIN tokens : tokens[k].lock = t})
    /\ Done(t)
    /\ UNCHANGED <<sessions, given, now, refreshes, reused>>

\* A statement fails, or the process dies: an open transaction is rolled back.
Fail(t) ==
    /\ task[t].pc # "idle"
    /\ faults < MaxFaults
    /\ faults' = faults + 1
    /\ tokens' = Release(t, {})
    /\ Done(t)
    /\ UNCHANGED <<sessions, given, now, refreshes, reused>>

----------------------------------------------------------------------------
(* logout and logoutAll, behind the JWT guard.                             *)

Revoke(ss) == session' = [s \in SessionIds |->
                    IF s \in ss /\ session[s] # "none" THEN "revoked" ELSE session[s]]

\* A client that was given a token of s also has an access token of s.
Authorized(s) == Active(s) /\ Family(s) \cap given # {}

Logout(s) ==
    /\ Authorized(s)
    /\ Revoke({s})
    /\ UNCHANGED <<opened, tokens, given, task, now, history>>

LogoutAll(s) ==
    /\ Authorized(s)
    /\ Revoke({r \in SessionIds : UserOf[r] = UserOf[s]})
    /\ UNCHANGED <<opened, tokens, given, task, now, history>>

----------------------------------------------------------------------------

Step(t) ==
    \/ IssueTokenSet(t)
    \/ SelectForUpdate(t) \/ RefuseExpired(t) \/ Rotate(t)
    \/ DetectReuse(t) \/ MarkUsed(t) \/ RevokeFamily(t) \/ AbortDeadlock(t)
    \/ SignAccessToken(t) \/ RefuseInactive(t) \/ Reply(t)

Next ==
    \/ Tick
    \/ \E t \in Tasks : CreateSession(t) \/ Step(t) \/ Fail(t)
    \/ \E t \in Tasks : \E k \in given : Refresh(t, k)
    \/ \E s \in SessionIds : Logout(s) \/ LogoutAll(s)

Spec == Init /\ [][Next]_vars

\* PostgreSQL runs every statement that need not wait, and breaks deadlocks.
Fairness == \A t \in Tasks : WF_vars(Step(t))

FairSpec == Spec /\ Fairness

----------------------------------------------------------------------------
(* Properties.                                                             *)

Row == [session : SessionIds, used : BOOLEAN, born : Nat, lock : Tasks \cup {None}]

Request == [pc : {"idle", "opened", "selecting", "locked", "marking", "rotated", "reply"},
            sess : SessionIds \cup {None}, tok : Nat, seen : BOOLEAN, new : Nat,
            todo : SUBSET Nat, late : BOOLEAN]

\* Types of the sessions and refresh_tokens columns and of the requests' locals.
TypeOK ==
    /\ session \in [SessionIds -> {"none", "open", "revoked"}]
    /\ opened \in [SessionIds -> Nat]
    /\ tokens \in Seq(Row)
    /\ given \subseteq Nat
    /\ task \in [Tasks -> Request]
    /\ {now, refreshes, faults} \subseteq Nat
    /\ reused \subseteq SessionIds

Live(s) == {k \in Family(s) : ~tokens[k].used}

\* Rotation keeps a single line of succession: however many requests present the
\* same or older tokens at once, a family never has two tokens that can still be
\* exchanged (the FOR UPDATE of rotate, refresh-token.repository.ts 60-66).
OneLiveToken == \A s \in SessionIds : Cardinality(Live(s)) <= 1

\* A rotation that dies half way burns nothing: a session that was given tokens
\* and in which no reuse was detected has a token that can still be exchanged.
NeverBurnt ==
    \A s \in SessionIds : Family(s) # {} /\ s \notin reused => Live(s) # {}

\* Once a session is revoked, by logout or by reuse, or has expired, no request
\* that arrives later gets new tokens, even with a token that is still unused.
NoLateSuccess ==
    \A t \in Tasks : task[t].pc = "reply" => ~task[t].late

\* A detected reuse revokes the session although other requests, among them other
\* detections in the same family, hold or wait for rows of it and one of them may
\* be aborted to break a deadlock; only a database error prevents it.
ReuseRevokes ==
    \A s \in SessionIds :
        (faults = 0 /\ \E t \in Tasks : task[t].pc = "marking" /\ task[t].sess = s)
            ~> (faults > 0 \/ session[s] = "revoked")
====
