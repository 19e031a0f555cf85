----------------------------- MODULE SessionAuth -----------------------------
(***************************************************************************)
(* EapiSessionAuth and the calls of asynceapi.Device that use it           *)
(* (asynceapi/_auth.py, asynceapi/device.py): one client with              *)
(* use_session, whose requests, logouts and closes run concurrently.       *)
(*                                                                         *)
(* A task is one call.  It suspends at a POST (login, the request itself,  *)
(* logout) and, when the lock is taken, in acquire(); what lies between is *)
(* one action.  asyncio.Lock (external) is FIFO: a release hands it to the *)
(* first waiter.  The device (external) treats a POST at some moment       *)
(* (Serve) before the client sees the answer; a POST may be lost before or *)
(* after that.  A session is named by the task whose login opened it, and  *)
(* the device may end one on its own (Expire).  A closed httpx client      *)
(* (external) refuses to send.                                             *)
(***************************************************************************)
EXTENDS Sequences

CONSTANTS
    Tasks,      \* the calls
    Null        \* Python's None

ASSUME SessionAssumption == Null \notin Tasks

VARIABLES
    cookie,     \* EapiSessionAuth.session_cookie
    holder,     \* the task inside `async with self._lock`
    waiters,    \* the tasks suspended in its acquire()
    closed,     \* the httpx client's is_closed
    open,       \* external: the sessions the device knows
    kind,       \* per task: the method it calls
    pc,         \* per task: where it is
    session,    \* per task: the session its POST carries or opens
    verdict,    \* per task: how the device treated its POST
    opened,     \* history: the sessions that were the cookie
    lost,       \* history: sessions whose login or logout was cut off
    crossed     \* history: two logouts were under way together

lockVars == <<holder, waiters>>
taskVars == <<kind, pc, session, verdict>>
history  == <<opened, lost, crossed>>
vars     == <<cookie, lockVars, closed, open, taskVars, history>>

Kinds    == {"request", "logout", "aclose"}
Verdicts == {"none", "accepted", "refused"}
Posting  == {"login", "sent", "logout"}
Ended    == {"done", "autherror", "raised"}
PcValues == {"idle", "queued", "woken"} \cup Posting \cup Ended

Init ==
    /\ cookie = Null
    /\ holder = Null /\ waiters = <<>>
    /\ closed = FALSE
    /\ open = {}
    /\ kind = [t \in Tasks |-> "request"]
    /\ pc = [t \in Tasks |-> "idle"]
    /\ session = [t \in Tasks |-> Null]
    /\ verdict = [t \in Tasks |-> "none"]
    /\ opened = {} /\ lost = {} /\ crossed = FALSE

-----------------------------------------------------------------------------
(* The lock *)

NextHolder == IF waiters = <<>> THEN Null ELSE Head(waiters)

\* Task t leaves `async with` and goes on at `next`; the first waiter gets the lock.
Leave(t, next) ==
    /\ holder' = NextHolder
    /\ waiters' = IF waiters = <<>> THEN <<>> ELSE Tail(waiters)
    /\ pc' = [s \in Tasks |-> IF s = t THEN next
                              ELSE IF s = NextHolder THEN "woken"
                              ELSE pc[s]]

Queue(t) ==
    /\ holder # Null
    /\ waiters' = Append(waiters, t)
    /\ pc' = [pc EXCEPT ![t] = "queued"]
    /\ UNCHANGED holder

\* The local variables of a call that ends.
Drop(t) ==
    /\ session' = [session EXCEPT ![t] = Null]
    /\ verdict' = [verdict EXCEPT ![t] = "none"]

-----------------------------------------------------------------------------
(* async_auth_flow: a request of the client *)

LoggedIn == cookie # Null

\* Mutant of LogsIn: the second look at the cookie, inside the lock, is gone.
LogsInAnyway(t) == pc[t] = "woken" \/ ~LoggedIn

\* Does task t, inside the lock, still have to log in?
LogsIn(t) == ~LoggedIn

StartRequest(t) ==
    /\ pc[t] = "idle" /\ ~closed
    /\ kind' = [kind EXCEPT ![t] = "request"]

\* Logged in: the cookie is attached and the request sent, without a lock.
Send(t) ==
    /\ StartRequest(t) /\ LoggedIn
    /\ pc' = [pc EXCEPT ![t] = "sent"]
    /\ session' = [session EXCEPT ![t] = cookie]
    /\ UNCHANGED <<cookie, lockVars, closed, open, verdict, history>>

WaitForLogin(t) ==
    /\ StartRequest(t) /\ ~LoggedIn
    /\ Queue(t)
    /\ UNCHANGED <<cookie, closed, open, session, verdict, history>>

\* The task holds the lock, taken free or handed to it, and posts the login.
Login(t) ==
    /\ \/ StartRequest(t) /\ ~LoggedIn /\ holder = Null
       \/ pc[t] = "woken" /\ UNCHANGED kind
    /\ kind'[t] = "request" /\ LogsIn(t)
    /\ holder' = t
    /\ pc' = [pc EXCEPT ![t] = "login"]
    /\ UNCHANGED <<cookie, waiters, closed, open, session, verdict, history>>

\* Another task logged in meanwhile: leave the lock and send.
SendAfterWait(t) ==
    /\ pc[t] = "woken" /\ kind[t] = "request" /\ ~LogsIn(t)
    /\ session' = [session EXCEPT ![t] = cookie]
    /\ Leave(t, "sent")
    /\ UNCHANGED <<cookie, closed, open, kind, verdict, history>>

\* Mutant of LoginAnswer: the lock is left before the cookie is stored.
LoginAnswerLate(t) ==
    /\ pc[t] = "login" /\ verdict[t] = "accepted"
    /\ verdict' = [verdict EXCEPT ![t] = "none"]
    /\ opened' = opened \cup {t}
    /\ Leave(t, "sent")
    /\ UNCHANGED <<cookie, closed, open, kind, session, lost, crossed>>

\* The answer has a Session cookie: store it, leave the lock, send the request.
LoginAnswer(t) ==
    /\ pc[t] = "login" /\ verdict[t] = "accepted"
    /\ cookie' = session[t]
    /\ verdict' = [verdict EXCEPT ![t] = "none"]
    /\ opened' = opened \cup {t}
    /\ Leave(t, "sent")
    /\ UNCHANGED <<closed, open, kind, session, lost, crossed>>

\* Mutant of LoginFails: the lock is taken and released by hand.
LoginFailsInLock(t) ==
    /\ pc[t] = "login"
    /\ \E end \in {"autherror", "raised"} : pc' = [pc EXCEPT ![t] = end]
    /\ lost' = (lost \cup {session[t]}) \ {Null}
    /\ UNCHANGED <<cookie, lockVars, closed, open, kind, opened, crossed>>
    /\ Drop(t)

\* A 401, another HTTP error, an answer without the cookie, or no answer at all.
LoginFails(t) ==
    /\ pc[t] = "login"
    /\ \E end \in {"autherror", "raised"} :
        /\ end = "autherror" => verdict[t] = "refused"
        /\ Leave(t, end)
    /\ lost' = (lost \cup {session[t]}) \ {Null}
    /\ UNCHANGED <<cookie, closed, open, kind, opened, crossed>>
    /\ Drop(t)

\* A 401 means that the session is over: EapiAuthenticationError, and the cookie stays.
Answer(t) ==
    /\ pc[t] = "sent" /\ verdict[t] # "none"
    /\ pc' = [pc EXCEPT ![t] = IF verdict[t] = "refused" THEN "autherror" ELSE "done"]
    /\ UNCHANGED <<cookie, lockVars, closed, open, kind, history>>
    /\ Drop(t)

NoAnswer(t) ==
    /\ pc[t] = "sent"
    /\ pc' = [pc EXCEPT ![t] = "raised"]
    /\ UNCHANGED <<cookie, lockVars, closed, open, kind, history>>
    /\ Drop(t)

-----------------------------------------------------------------------------
(* Device.logout, aclose and __aexit__ *)

StartLogout(t, k) ==
    /\ pc[t] = "idle" /\ k # "request"
    /\ kind' = [kind EXCEPT ![t] = k]

\* `super().aclose()` follows the logout of an aclose.
Closes(t) == closed' = (closed \/ kind'[t] = "aclose")

LogoutNothing(t, k) ==
    /\ StartLogout(t, k) /\ ~LoggedIn
    /\ pc' = [pc EXCEPT ![t] = "done"]
    /\ Closes(t)
    /\ UNCHANGED <<cookie, lockVars, open, session, verdict, history>>

LoggingOut(t) == kind[t] # "request" /\ pc[t] \in {"logout", "queued", "woken"}

\* The cookie is read before the POST is awaited.
Logout(t, k) ==
    /\ StartLogout(t, k) /\ LoggedIn /\ ~closed
    /\ pc' = [pc EXCEPT ![t] = "logout"]
    /\ session' = [session EXCEPT ![t] = cookie]
    /\ crossed' = (crossed \/ \E s \in Tasks : LoggingOut(s))
    /\ UNCHANGED <<cookie, lockVars, closed, open, verdict, opened, lost>>

\* The POST is over, answered or not: `finally: await reset()`.
Resets(t) ==
    /\ pc[t] = "logout"
    /\ lost' = IF verdict[t] = "accepted" THEN lost ELSE lost \cup {session[t]}

WaitForReset(t) ==
    /\ Resets(t) /\ Queue(t)
    /\ UNCHANGED <<cookie, closed, open, kind, session, opened, crossed>>
    /\ verdict' = [verdict EXCEPT ![t] = "none"]

ResetNow(t) ==
    /\ Resets(t) /\ holder = Null
    /\ cookie' = Null
    /\ pc' = [pc EXCEPT ![t] = "done"]
    /\ UNCHANGED kind /\ Closes(t)
    /\ UNCHANGED <<lockVars, open, opened, crossed>>
    /\ Drop(t)

ResetAfterWait(t) ==
    /\ pc[t] = "woken" /\ kind[t] # "request"
    /\ cookie' = Null
    /\ Leave(t, IF session[t] = Null THEN "raised" ELSE "done")
    /\ UNCHANGED kind /\ Closes(t)
    /\ UNCHANGED <<open, history>>
    /\ Drop(t)

-----------------------------------------------------------------------------
(* The closed client, and the device *)

\* Any call on the closed client raises; a logout resets the cookie first.
RefuseRequest(t) ==
    /\ pc[t] = "idle" /\ closed
    /\ pc' = [pc EXCEPT ![t] = "raised"]
    /\ UNCHANGED <<cookie, lockVars, closed, open, kind, session, verdict, history>>

RefuseLogout(t, k) ==
    /\ StartLogout(t, k) /\ closed /\ LoggedIn
    /\ lost' = lost \cup {cookie}
    /\ IF holder = Null
       THEN cookie' = Null /\ pc' = [pc EXCEPT ![t] = "raised"] /\ UNCHANGED lockVars
       ELSE Queue(t) /\ UNCHANGED cookie
    /\ crossed' = (crossed \/ \E s \in Tasks : LoggingOut(s))
    /\ UNCHANGED <<closed, open, session, verdict, opened>>

\* The device treats the POST of task t.
Serve(t) ==
    /\ pc[t] \in Posting /\ verdict[t] = "none"
    /\ \E v \in {"accepted", "refused"} :
        /\ verdict' = [verdict EXCEPT ![t] = v]
        /\ \/ /\ pc[t] = "login" /\ v = "accepted"
              /\ session' = [session EXCEPT ![t] = t]
              /\ open' = open \cup {t}
           \/ /\ pc[t] = "login" /\ v = "refused"
              /\ UNCHANGED <<session, open>>
           \/ /\ pc[t] = "sent" /\ (v = "accepted" <=> session[t] \in open)
              /\ UNCHANGED <<session, open>>
           \/ /\ pc[t] = "logout" /\ v = "accepted"
              /\ open' = open \ {session[t]}
              /\ UNCHANGED session
    /\ UNCHANGED <<cookie, lockVars, closed, kind, pc, history>>

\* The device ends a session on its own.
Expire(s) ==
    /\ s \in open
    /\ open' = open \ {s}
    /\ UNCHANGED <<cookie, lockVars, closed, taskVars, history>>

-----------------------------------------------------------------------------
Begin(t) ==
    \/ Send(t) \/ WaitForLogin(t) \/ (pc[t] = "idle" /\ Login(t)) \/ RefuseRequest(t)
    \/ \E k \in Kinds : LogoutNothing(t, k) \/ Logout(t, k) \/ RefuseLogout(t, k)

Resume(t) ==
    \/ (pc[t] = "woken" /\ Login(t)) \/ SendAfterWait(t) \/ ResetAfterWait(t)
    \/ LoginAnswer(t) \/ LoginFails(t) \/ Answer(t) \/ NoAnswer(t)
    \/ WaitForReset(t) \/ ResetNow(t)

Next ==
    \/ \E t \in Tasks : Begin(t) \/ Resume(t) \/ Serve(t)
    \/ \E s \in open : Expire(s)

Spec == Init /\ [][Next]_vars

\* The event loop runs every ready task, and httpx times out on a silent device.
FairSpec == Spec /\ \A t \in Tasks : WF_vars(Resume(t))

-----------------------------------------------------------------------------
(* Properties *)

\* The variables stay in their ranges, and the lock is held by exactly the task
\* that posts the login or was woken with it: the queue has no other tasks.
TypeOK ==
    /\ cookie \in Tasks \cup {Null} /\ holder \in Tasks \cup {Null}
    /\ waiters \in Seq(Tasks)
    /\ closed \in BOOLEAN /\ crossed \in BOOLEAN
    /\ open \subseteq Tasks /\ opened \subseteq Tasks /\ lost \subseteq Tasks
    /\ kind \in [Tasks -> Kinds] /\ pc \in [Tasks -> PcValues]
    /\ session \in [Tasks -> Tasks \cup {Null}] /\ verdict \in [Tasks -> Verdicts]
    /\ \A t \in Tasks : holder = t <=> pc[t] \in {"login", "woken"}

\* Double-checked locking (async_auth_flow): while a task posts the login no other
\* one does, and nobody logs in while the client has a cookie.
OneLogin ==
    \A t \in Tasks : pc[t] = "login" =>
        cookie = Null /\ \A s \in Tasks : pc[s] = "login" => s = t

Carried == [t \in Tasks |-> IF pc[t] = "sent" THEN session[t] ELSE Null]

Contract == INSTANCE SessionContract WITH
    Requests <- Tasks, Sessions <- Tasks, None <- Null,
    held <- cookie, carried <- Carried

\* The client implements the contract: it never sends `Session=None`, never
\* replaces a cookie it has not given up, also not one that expired, and each
\* request carries the cookie of the moment it is sent (_auth.py).
ImplementsContract == Contract!Spec

\* Logout (device.py): a session the device still knows is the cookie, or in the
\* hands of a task, or its login or logout was cut off. It takes two logouts under
\* way together to forget one: the second reset then drops a newer cookie.
SessionsAccounted ==
    ~crossed => \A s \in open :
        s \in lost \cup {cookie} \/ \E t \in Tasks : session[t] = s /\ pc[t] = "login"

\* Every request, logout and close comes to an end, also one that waits for the lock
\* while its holder's login fails or is cut off.
EveryCallEnds == \A t \in Tasks : (pc[t] # "idle") ~> (pc[t] \in Ended)
=============================================================================
