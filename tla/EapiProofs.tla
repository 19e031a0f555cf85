----------------------------- MODULE EapiProofs -----------------------------
(***************************************************************************)
(* The eAPI client (asynceapi), in three parts.                            *)
(*                                                                         *)
(* SessionAuth, for any number of calls: type correctness, one login at a  *)
(* time, that it implements SessionContract, and that no session is        *)
(* forgotten.  The inductive invariant adds to TypeOK that the waiters of  *)
(* the lock are distinct and suspended there, that only the holder of the  *)
(* lock has a login under way, and where the session of each call comes    *)
(* from.                                                                   *)
(*                                                                         *)
(* ConfigSession, for any contents: the caller is right about the session. *)
(* The inductive invariant adds that the device has configurations.  No    *)
(* command before a commit changes the running configuration, and the      *)
(* lines that are typed on the device and by the caller agree: both are    *)
(* inductions over the commands and the lines (Loops).                     *)
(*                                                                         *)
(* EapiClient, for any requests: every command of one is accounted for, by *)
(* cases of what fails.                                                    *)
(***************************************************************************)
EXTENDS SessionAuth, ConfigSession, EapiClient, TLAPS

-----------------------------------------------------------------------------
(* The authentication *)

Waiting ==
    /\ \A i \in 1..Len(waiters) : pc[waiters[i]] = "queued"
    /\ \A i, j \in 1..Len(waiters) : waiters[i] = waiters[j] => i = j

\* What TypeOK says of the lock, and of the rest.
Locked ==
    /\ holder \in Tasks \cup {Null} /\ waiters \in Seq(Tasks)
    /\ pc \in [Tasks -> PcValues]
    /\ \A t \in Tasks : holder = t <=> pc[t] \in {"login", "woken"}
    /\ Waiting

Ranges ==
    /\ cookie \in Tasks \cup {Null}
    /\ closed \in BOOLEAN /\ crossed \in BOOLEAN
    /\ open \subseteq Tasks /\ opened \subseteq Tasks /\ lost \subseteq Tasks
    /\ kind \in [Tasks -> Kinds]
    /\ session \in [Tasks -> Tasks \cup {Null}] /\ verdict \in [Tasks -> Verdicts]

\* What call t has: nothing before its POST, its own session after a login, the cookie
\* it was sent with; it logs in at most once, while the client has no cookie.
Owned(t) ==
    /\ pc[t] \in {"idle", "queued", "woken"} => verdict[t] = "none"
    /\ pc[t] = "login" => cookie = Null
    /\ pc[t] = "login" /\ verdict[t] = "accepted" => session[t] = t
    /\ pc[t] \in {"sent", "logout"} => session[t] # Null
    /\ t \in opened => pc[t] \in {"sent"} \cup Ended

IInv == Locked /\ Ranges /\ \A t \in Tasks : Owned(t)

\* A step of t leaves the other calls alone, but for the one that gets the lock.
OthersWait(t) == \A s \in Tasks \ {t} : pc'[s] = pc[s] \/ (pc[s] = "queued" /\ pc'[s] = "woken")
OthersKeep(t) ==
    \A s \in Tasks \ {t} :
        session'[s] = session[s] /\ verdict'[s] = verdict[s] /\ (s \in opened' => s \in opened)

\* The holder leaves `async with`: the first waiter, if any, has the lock, and no
\* other call is disturbed (asyncio.Lock.release).
LEMMA LeaveKeeps ==
    ASSUME Locked, NEW t \in Tasks, NEW next \in PcValues \ {"login", "woken", "queued"},
           pc[t] \in {"login", "woken"}, Leave(t, next)
    PROVE  Locked' /\ pc'[t] = next /\ OthersWait(t)
<1> USE DEF Locked, OthersWait, Waiting, Leave, NextHolder, PcValues, Posting, Ended
<1>1. CASE waiters = <<>>
  <2>1. holder' = Null /\ waiters' = <<>> BY <1>1
  <2>2. \A s \in Tasks : pc'[s] = IF s = t THEN next ELSE pc[s]
    BY <1>1, SessionAssumption
  <2>3. holder = t OBVIOUS
  <2> QED BY <2>1, <2>2, <2>3, <1>1, SessionAssumption
<1>2. CASE waiters # <<>>
  <2> DEFINE h == Head(waiters)
  <2>1. Len(waiters) \in Nat \ {0} /\ h = waiters[1] /\ h \in Tasks /\ pc[h] = "queued"
    BY <1>2
  <2>2. holder' = h /\ waiters' = Tail(waiters) BY <1>2
  <2>3. \A s \in Tasks : pc'[s] = IF s = t THEN next ELSE IF s = h THEN "woken" ELSE pc[s]
    BY <1>2
  <2>4. h # t BY <2>1
  <2>5. /\ Len(waiters') = Len(waiters) - 1 /\ waiters' \in Seq(Tasks)
        /\ \A i \in 1..Len(waiters') : waiters'[i] = waiters[i + 1] /\ waiters'[i] \in Tasks
    BY <2>1, <2>2, <1>2
  <2>6. \A i \in 1..Len(waiters') : waiters'[i] # h /\ waiters'[i] # t /\ pc[waiters'[i]] = "queued"
    BY <2>5, <2>1
  <2>7. Waiting' BY <2>3, <2>5, <2>6
  <2>8. holder = t OBVIOUS
  <2>9. \A s \in Tasks : holder' = s <=> pc'[s] \in {"login", "woken"}
    BY <2>2, <2>3, <2>4, <2>8
  <2> HIDE DEF h
  <2>10. pc' \in [Tasks -> PcValues] BY <2>3
  <2> QED BY <2>1, <2>2, <2>3, <2>4, <2>5, <2>7, <2>9, <2>10
<1> QED BY <1>1, <1>2

\* A call that waits is one more distinct waiter (asyncio.Lock.acquire).
LEMMA QueueKeeps ==
    ASSUME Locked, NEW t \in Tasks, pc[t] \notin {"login", "woken", "queued"}, Queue(t)
    PROVE  Locked' /\ pc'[t] = "queued" /\ OthersWait(t)
<1> USE DEF Locked, OthersWait, Waiting, Queue, PcValues, Posting, Ended
<1>1. /\ Len(waiters') = Len(waiters) + 1 /\ waiters' \in Seq(Tasks)
      /\ \A i \in 1..Len(waiters) : waiters'[i] = waiters[i] /\ waiters[i] \in Tasks
      /\ waiters'[Len(waiters) + 1] = t
  OBVIOUS
<1>2. \A i \in 1..Len(waiters) : waiters[i] # t OBVIOUS
<1>3. \A s \in Tasks : pc'[s] = IF s = t THEN "queued" ELSE pc[s] OBVIOUS
<1>4. Waiting' BY <1>1, <1>2, <1>3
<1> QED BY <1>1, <1>3, <1>4

LEMMA InitHolds == Init => IInv
<1> SUFFICES ASSUME Init PROVE IInv
  OBVIOUS
<1>1. waiters \in Seq(Tasks) /\ Len(waiters) = 0 BY DEF Init
<1>2. Locked BY <1>1, SessionAssumption DEF Init, Locked, Waiting, PcValues
<1>3. Ranges BY DEF Init, Ranges, Kinds, Verdicts
<1>4. \A t \in Tasks : Owned(t) BY DEF Init, Owned
<1> QED BY <1>2, <1>3, <1>4 DEF IInv

-----------------------------------------------------------------------------
(* The steps of a call *)

\* A call that is not in the lock and changes its own state only.
LEMMA OwnStep ==
    ASSUME Locked, NEW t \in Tasks, NEW next \in PcValues \ {"login", "woken", "queued"},
           pc[t] \notin {"login", "woken", "queued"}, pc' = [pc EXCEPT ![t] = next], UNCHANGED lockVars
    PROVE  Locked' /\ pc'[t] = next /\ OthersWait(t)
BY DEF Locked, OthersWait, Waiting, lockVars, PcValues, Posting, Ended

\* A call that takes the free lock, or has just got it, to log in.
LEMMA LoginStep ==
    ASSUME Locked, NEW t \in Tasks, Login(t)
    PROVE  Locked' /\ pc'[t] = "login" /\ OthersWait(t)
<1>1. /\ pc[t] \in {"idle", "woken"} /\ holder \in {Null, t}
      /\ holder' = t /\ waiters' = waiters /\ pc' = [pc EXCEPT ![t] = "login"]
  BY DEF Login, StartRequest, Locked
<1> QED BY <1>1, SessionAssumption DEF Locked, OthersWait, Waiting, PcValues, Posting, Ended

\* What is left to show of a step of call t.
LEMMA StepKeeps ==
    ASSUME IInv, NEW t \in Tasks, Locked', Ranges', OthersWait(t), OthersKeep(t), Owned(t)',
           cookie' \in {cookie, Null} \/ \A s \in Tasks \ {t} : pc[s] # "login"
    PROVE  IInv'
<1> SUFFICES ASSUME NEW s \in Tasks \ {t} PROVE Owned(s)'
  BY DEF IInv
<1>1. Owned(s) BY DEF IInv
<1>2. pc'[s] = pc[s] \/ (pc[s] = "queued" /\ pc'[s] = "woken") BY DEF OthersWait
<1>3. session'[s] = session[s] /\ verdict'[s] = verdict[s] /\ (s \in opened' => s \in opened)
  BY DEF OthersKeep
<1>4. pc'[s] = "login" => cookie' = Null BY <1>1, <1>2 DEF Owned
<1> QED BY <1>1, <1>2, <1>3, <1>4 DEF Owned, Ended

\* A call that begins.
LEMMA BeginKeeps ==
    ASSUME IInv, NEW t \in Tasks, Begin(t)
    PROVE  IInv' /\ OthersWait(t) /\ OthersKeep(t)
<1> USE DEF IInv
<1>1. CASE Send(t)
  <2>1. pc[t] = "idle" /\ pc' = [pc EXCEPT ![t] = "sent"] /\ UNCHANGED lockVars
    BY <1>1 DEF Send, StartRequest, LoggedIn, lockVars, history
  <2>2. Locked' /\ OthersWait(t) /\ pc'[t] = "sent" BY <2>1, OwnStep DEF PcValues, Posting, Ended
  <2>3. Ranges' BY <2>1, <1>1 DEF Send, StartRequest, LoggedIn, lockVars, history, Ranges, Kinds, Verdicts
  <2>4. OthersKeep(t) /\ Owned(t)'
    BY <2>1, <2>2, <1>1, SessionAssumption DEF Send, StartRequest, LoggedIn, lockVars, history, Ranges, OthersKeep, Owned, Ended
  <2>5. cookie' \in {cookie, Null} BY <2>1, <1>1 DEF Send, StartRequest, LoggedIn, lockVars, history
  <2> QED BY <2>2, <2>3, <2>4, <2>5, StepKeeps
<1>2. CASE WaitForLogin(t)
  <2>1. pc[t] = "idle" /\ Queue(t)
    BY <1>2 DEF WaitForLogin, StartRequest, history
  <2>2. Locked' /\ OthersWait(t) /\ pc'[t] = "queued" BY <2>1, QueueKeeps DEF PcValues, Posting, Ended
  <2>3. Ranges' BY <2>1, <1>2 DEF WaitForLogin, StartRequest, history, Ranges, Kinds, Verdicts
  <2>4. OthersKeep(t) /\ Owned(t)'
    BY <2>1, <2>2, <1>2, SessionAssumption DEF WaitForLogin, StartRequest, history, Ranges, OthersKeep, Owned, Ended
  <2>5. cookie' \in {cookie, Null} BY <2>1, <1>2 DEF WaitForLogin, StartRequest, history
  <2> QED BY <2>2, <2>3, <2>4, <2>5, StepKeeps
<1>3. CASE pc[t] = "idle" /\ Login(t)
  <2>1. pc[t] = "idle" /\ cookie = Null /\ Login(t)
    BY <1>3 DEF Login, LogsIn, LoggedIn, StartRequest, history
  <2>2. Locked' /\ OthersWait(t) /\ pc'[t] = "login" BY <2>1, LoginStep DEF PcValues, Posting, Ended
  <2>3. Ranges' BY <2>1, <1>3 DEF Login, LogsIn, LoggedIn, StartRequest, history, Ranges, Kinds, Verdicts
  <2>4. OthersKeep(t) /\ Owned(t)'
    BY <2>1, <2>2, <1>3, SessionAssumption DEF Login, LogsIn, LoggedIn, StartRequest, history, Ranges, OthersKeep, Owned, Ended
  <2>5. cookie' \in {cookie, Null} BY <2>1, <1>3 DEF Login, LogsIn, LoggedIn, StartRequest, history
  <2> QED BY <2>2, <2>3, <2>4, <2>5, StepKeeps
<1>4. CASE RefuseRequest(t)
  <2>1. pc[t] = "idle" /\ pc' = [pc EXCEPT ![t] = "raised"] /\ UNCHANGED lockVars
    BY <1>4 DEF RefuseRequest, history
  <2>2. Locked' /\ OthersWait(t) /\ pc'[t] = "raised" BY <2>1, OwnStep DEF PcValues, Posting, Ended
  <2>3. Ranges' BY <2>1, <1>4 DEF RefuseRequest, history, Ranges, Kinds, Verdicts
  <2>4. OthersKeep(t) /\ Owned(t)'
    BY <2>1, <2>2, <1>4, SessionAssumption DEF RefuseRequest, history, Ranges, OthersKeep, Owned, Ended
  <2>5. cookie' \in {cookie, Null} BY <2>1, <1>4 DEF RefuseRequest, history
  <2> QED BY <2>2, <2>3, <2>4, <2>5, StepKeeps
<1>5. ASSUME NEW k \in Kinds, LogoutNothing(t, k)
        PROVE  IInv' /\ OthersWait(t) /\ OthersKeep(t)
  <2>1. pc[t] = "idle" /\ pc' = [pc EXCEPT ![t] = "done"] /\ UNCHANGED lockVars
    BY <1>5 DEF LogoutNothing, StartLogout, Closes, history
  <2>2. Locked' /\ OthersWait(t) /\ pc'[t] = "done" BY <2>1, OwnStep DEF PcValues, Posting, Ended
  <2>3. Ranges' BY <2>1, <1>5 DEF LogoutNothing, StartLogout, Closes, history, Ranges, Kinds, Verdicts
  <2>4. OthersKeep(t) /\ Owned(t)'
    BY <2>1, <2>2, <1>5, SessionAssumption DEF LogoutNothing, StartLogout, Closes, history, Ranges, OthersKeep, Owned, Ended
  <2>5. cookie' \in {cookie, Null} BY <2>1, <1>5 DEF LogoutNothing, StartLogout, Closes, history
  <2> QED BY <2>2, <2>3, <2>4, <2>5, StepKeeps
<1>6. ASSUME NEW k \in Kinds, Logout(t, k)
        PROVE  IInv' /\ OthersWait(t) /\ OthersKeep(t)
  <2>1. pc[t] = "idle" /\ pc' = [pc EXCEPT ![t] = "logout"] /\ UNCHANGED lockVars
    BY <1>6 DEF Logout, StartLogout, lockVars
  <2>2. Locked' /\ OthersWait(t) /\ pc'[t] = "logout" BY <2>1, OwnStep DEF PcValues, Posting, Ended
  <2>3. Ranges' BY <2>1, <1>6 DEF Logout, StartLogout, lockVars, Ranges, Kinds, Verdicts
  <2>4. OthersKeep(t) /\ Owned(t)'
    BY <2>1, <2>2, <1>6, SessionAssumption DEF Logout, StartLogout, LoggedIn, lockVars, Ranges, OthersKeep, Owned, Ended
  <2>5. cookie' \in {cookie, Null} BY <2>1, <1>6 DEF Logout, StartLogout, lockVars
  <2> QED BY <2>2, <2>3, <2>4, <2>5, StepKeeps
<1>7. ASSUME NEW k \in Kinds, RefuseLogout(t, k)
        PROVE  IInv' /\ OthersWait(t) /\ OthersKeep(t)
  <2>1. /\ pc[t] = "idle"
        /\ \/ pc' = [pc EXCEPT ![t] = "raised"] /\ UNCHANGED lockVars
           \/ Queue(t)
    BY <1>7 DEF RefuseLogout, StartLogout
  <2>2. Locked' /\ OthersWait(t) /\ pc'[t] \in {"raised", "queued"}
    BY <2>1, OwnStep, QueueKeeps DEF PcValues, Posting, Ended
  <2>3. Ranges' BY <1>7 DEF RefuseLogout, StartLogout, LoggedIn, Ranges
  <2>4. OthersKeep(t) /\ Owned(t)'
    BY <2>1, <2>2, <1>7 DEF RefuseLogout, StartLogout, OthersKeep, Owned, Ended
  <2>5. cookie' \in {cookie, Null} BY <1>7 DEF RefuseLogout
  <2> QED BY <2>2, <2>3, <2>4, <2>5, StepKeeps
<1> QED BY <1>1, <1>2, <1>3, <1>4, <1>5, <1>6, <1>7 DEF Begin

\* A call that goes on.
LEMMA ResumeKeeps ==
    ASSUME IInv, NEW t \in Tasks, Resume(t)
    PROVE  IInv' /\ OthersWait(t) /\ OthersKeep(t)
<1> USE DEF IInv
<1>1. CASE pc[t] = "woken" /\ Login(t)
  <2>1. pc[t] = "woken" /\ cookie = Null /\ Login(t)
    BY <1>1 DEF Login, LogsIn, LoggedIn, StartRequest, history
  <2>2. Locked' /\ OthersWait(t) /\ pc'[t] = "login" BY <2>1, LoginStep DEF PcValues, Posting, Ended
  <2>3. Ranges' BY <2>1, <1>1 DEF Login, LogsIn, LoggedIn, StartRequest, history, Ranges, Kinds, Verdicts
  <2>4. OthersKeep(t) /\ Owned(t)'
    BY <2>1, <2>2, <1>1, SessionAssumption DEF Login, LogsIn, LoggedIn, StartRequest, history, Ranges, OthersKeep, Owned, Ended
  <2>5. cookie' \in {cookie, Null} BY <2>1, <1>1 DEF Login, LogsIn, LoggedIn, StartRequest, history
  <2> QED BY <2>2, <2>3, <2>4, <2>5, StepKeeps
<1>2. CASE SendAfterWait(t)
  <2>1. pc[t] = "woken" /\ Leave(t, "sent") /\ cookie # Null
    BY <1>2 DEF SendAfterWait, LogsIn, LoggedIn, history
  <2>2. Locked' /\ OthersWait(t) /\ pc'[t] = "sent" BY <2>1, LeaveKeeps DEF PcValues, Posting, Ended
  <2>3. Ranges' BY <2>1, <1>2 DEF SendAfterWait, LogsIn, LoggedIn, history, Ranges, Kinds, Verdicts
  <2>4. OthersKeep(t) /\ Owned(t)'
    BY <2>1, <2>2, <1>2, SessionAssumption DEF SendAfterWait, LogsIn, LoggedIn, history, Ranges, OthersKeep, Owned, Ended
  <2>5. cookie' \in {cookie, Null} BY <2>1, <1>2 DEF SendAfterWait, LogsIn, LoggedIn, history
  <2> QED BY <2>2, <2>3, <2>4, <2>5, StepKeeps
<1>3. CASE LoginAnswer(t)
  <2>1. pc[t] = "login" /\ Leave(t, "sent") /\ session[t] = t
    BY <1>3 DEF LoginAnswer, Owned
  <2>2. Locked' /\ OthersWait(t) /\ pc'[t] = "sent" BY <2>1, LeaveKeeps DEF PcValues, Posting, Ended
  <2>3. Ranges' BY <2>1, <1>3 DEF LoginAnswer, Owned, Ranges, Kinds, Verdicts
  <2>4. OthersKeep(t) /\ Owned(t)'
    BY <2>1, <2>2, <1>3, SessionAssumption DEF LoginAnswer, Owned, Ranges, OthersKeep, Owned, Ended
  <2>5. \A s \in Tasks \ {t} : pc[s] # "login" BY <2>1 DEF Locked
  <2> QED BY <2>2, <2>3, <2>4, <2>5, StepKeeps
<1>4. CASE LoginFails(t)
  <2>1. PICK end \in {"autherror", "raised"} : pc[t] = "login" /\ Leave(t, end)
    BY <1>4 DEF LoginFails, Drop
  <2>2. Locked' /\ OthersWait(t) /\ pc'[t] = end BY <2>1, LeaveKeeps DEF PcValues, Posting, Ended
  <2>3. Ranges' BY <2>1, <1>4 DEF LoginFails, Drop, Ranges, Kinds, Verdicts
  <2>4. OthersKeep(t) /\ Owned(t)'
    BY <2>1, <2>2, <1>4, SessionAssumption DEF LoginFails, Drop, Ranges, OthersKeep, Owned, Ended
  <2>5. cookie' \in {cookie, Null} BY <2>1, <1>4 DEF LoginFails, Drop
  <2> QED BY <2>2, <2>3, <2>4, <2>5, StepKeeps
<1>5. CASE Answer(t)
  <2>1. PICK end \in {"autherror", "done"} : pc[t] = "sent" /\ pc' = [pc EXCEPT ![t] = end] /\ UNCHANGED lockVars
    BY <1>5 DEF Answer, Drop, history
  <2>2. Locked' /\ OthersWait(t) /\ pc'[t] = end BY <2>1, OwnStep DEF PcValues, Posting, Ended
  <2>3. Ranges' BY <2>1, <1>5 DEF Answer, Drop, history, Ranges, Kinds, Verdicts
  <2>4. OthersKeep(t) /\ Owned(t)'
    BY <2>1, <2>2, <1>5, SessionAssumption DEF Answer, Drop, history, Ranges, OthersKeep, Owned, Ended
  <2>5. cookie' \in {cookie, Null} BY <2>1, <1>5 DEF Answer, Drop, history
  <2> QED BY <2>2, <2>3, <2>4, <2>5, StepKeeps
<1>6. CASE NoAnswer(t)
  <2>1. pc[t] = "sent" /\ pc' = [pc EXCEPT ![t] = "raised"] /\ UNCHANGED lockVars
    BY <1>6 DEF NoAnswer, Drop, history
  <2>2. Locked' /\ OthersWait(t) /\ pc'[t] = "raised" BY <2>1, OwnStep DEF PcValues, Posting, Ended
  <2>3. Ranges' BY <2>1, <1>6 DEF NoAnswer, Drop, history, Ranges, Kinds, Verdicts
  <2>4. OthersKeep(t) /\ Owned(t)'
    BY <2>1, <2>2, <1>6, SessionAssumption DEF NoAnswer, Drop, history, Ranges, OthersKeep, Owned, Ended
  <2>5. cookie' \in {cookie, Null} BY <2>1, <1>6 DEF NoAnswer, Drop, history
  <2> QED BY <2>2, <2>3, <2>4, <2>5, StepKeeps
<1>7. CASE WaitForReset(t)
  <2>1. pc[t] = "logout" /\ Queue(t)
    BY <1>7 DEF WaitForReset, Resets
  <2>2. Locked' /\ OthersWait(t) /\ pc'[t] = "queued" BY <2>1, QueueKeeps DEF PcValues, Posting, Ended
  <2>3. Ranges' BY <2>1, <1>7 DEF WaitForReset, Resets, Ranges, Owned, Kinds, Verdicts
  <2>4. OthersKeep(t) /\ Owned(t)'
    BY <2>1, <2>2, <1>7, SessionAssumption DEF WaitForReset, Resets, Ranges, OthersKeep, Owned, Ended
  <2>5. cookie' \in {cookie, Null} BY <2>1, <1>7 DEF WaitForReset, Resets
  <2> QED BY <2>2, <2>3, <2>4, <2>5, StepKeeps
<1>8. CASE ResetNow(t)
  <2>1. pc[t] = "logout" /\ pc' = [pc EXCEPT ![t] = "done"] /\ UNCHANGED lockVars
    BY <1>8 DEF ResetNow, Resets, Closes, Drop
  <2>2. Locked' /\ OthersWait(t) /\ pc'[t] = "done" BY <2>1, OwnStep DEF PcValues, Posting, Ended
  <2>3. Ranges' BY <2>1, <1>8 DEF ResetNow, Resets, Closes, Drop, Ranges, Owned, Kinds, Verdicts
  <2>4. OthersKeep(t) /\ Owned(t)'
    BY <2>1, <2>2, <1>8, SessionAssumption DEF ResetNow, Resets, Closes, Drop, Ranges, OthersKeep, Owned, Ended
  <2>5. cookie' \in {cookie, Null} BY <2>1, <1>8 DEF ResetNow, Resets, Closes, Drop
  <2> QED BY <2>2, <2>3, <2>4, <2>5, StepKeeps
<1>9. CASE ResetAfterWait(t)
  <2>1. PICK end \in {"raised", "done"} : pc[t] = "woken" /\ Leave(t, end)
    BY <1>9 DEF ResetAfterWait, Closes, Drop, history
  <2>2. Locked' /\ OthersWait(t) /\ pc'[t] = end BY <2>1, LeaveKeeps DEF PcValues, Posting, Ended
  <2>3. Ranges' BY <2>1, <1>9 DEF ResetAfterWait, Closes, Drop, history, Ranges, Kinds, Verdicts
  <2>4. OthersKeep(t) /\ Owned(t)'
    BY <2>1, <2>2, <1>9, SessionAssumption DEF ResetAfterWait, Closes, Drop, history, Ranges, OthersKeep, Owned, Ended
  <2>5. cookie' \in {cookie, Null} BY <2>1, <1>9 DEF ResetAfterWait, Closes, Drop, history
  <2> QED BY <2>2, <2>3, <2>4, <2>5, StepKeeps
<1> QED BY <1>1, <1>2, <1>3, <1>4, <1>5, <1>6, <1>7, <1>8, <1>9 DEF Resume

-----------------------------------------------------------------------------
(* The specification *)

LEMMA NextKeeps == IInv /\ [Next]_vars => IInv'
<1> SUFFICES ASSUME IInv, [Next]_vars PROVE IInv'
  OBVIOUS
<1>1. ASSUME NEW t \in Tasks, Serve(t) PROVE IInv'
  <2>1. UNCHANGED <<cookie, lockVars, closed, kind, pc, history>> /\ pc[t] \in Posting
    BY <1>1 DEF Serve
  <2>2. verdict' \in [Tasks -> Verdicts] /\ \A s \in Tasks \ {t} : verdict'[s] = verdict[s]
    BY <1>1 DEF Serve, IInv, Ranges, Owned, Verdicts
  <2>3. session' \in [Tasks -> Tasks \cup {Null}] /\ \A s \in Tasks \ {t} : session'[s] = session[s]
    BY <1>1 DEF Serve, IInv, Ranges
  <2>4. /\ open' \subseteq Tasks
        /\ pc[t] = "login" /\ verdict'[t] = "accepted" => session'[t] = t
        /\ pc[t] \in {"sent", "logout"} => session'[t] = session[t]
    BY <1>1 DEF Serve, IInv, Ranges, Owned, Verdicts
  <2> QED BY <2>1, <2>2, <2>3, <2>4
       DEF IInv, Locked, Ranges, Waiting, Owned, lockVars, history, Posting
<1>2. ASSUME NEW s \in open, Expire(s) PROVE IInv'
  BY <1>2 DEF Expire, IInv, Locked, Ranges, Waiting, Owned, lockVars, taskVars, history
<1>3. CASE UNCHANGED vars
  BY <1>3 DEF vars, IInv, Locked, Ranges, Waiting, Owned, lockVars, taskVars, history
<1> QED BY <1>1, <1>2, <1>3, BeginKeeps, ResumeKeeps DEF Next

\* The inductive invariant holds in every state.
THEOREM Invariance == Spec => []IInv
BY InitHolds, NextKeeps, PTL DEF Spec

\* The variables stay in their ranges, and the lock is held by exactly the call that
\* posts the login or was woken with it (asyncio.Lock).
THEOREM TypeCorrect == Spec => []TypeOK
<1>1. IInv => TypeOK BY DEF IInv, Locked, Ranges, TypeOK
<1> QED BY <1>1, Invariance, PTL

\* Double-checked locking (async_auth_flow), for any number of calls: one login at a
\* time, and none while the client has a cookie.
THEOREM LoginsAreSingle == Spec => []OneLogin
<1>1. IInv => OneLogin BY SessionAssumption DEF IInv, Locked, Owned, OneLogin
<1> QED BY <1>1, Invariance, PTL

-----------------------------------------------------------------------------
(* The contract *)

\* What a step of call t means for the requests under way.
LEMMA CarriedSteps ==
    ASSUME IInv, IInv', NEW t \in Tasks, OthersWait(t), OthersKeep(t)
    PROVE  /\ pc[t] # "sent" /\ pc'[t] # "sent" => Carried' = Carried
           /\ pc[t] # "sent" => Carried[t] = Null
           /\ pc[t] # "sent" /\ pc'[t] = "sent" => Carried' = [Carried EXCEPT ![t] = session'[t]]
           /\ pc[t] = "sent" /\ pc'[t] # "sent" => Carried' = [Carried EXCEPT ![t] = Null] /\ Carried[t] # Null
<1>1. \A s \in Tasks \ {t} : Carried'[s] = Carried[s]
  BY DEF Carried, OthersWait, OthersKeep
<1>2. pc[t] = "sent" => session[t] # Null BY DEF IInv, Owned
<1> QED BY <1>1, <1>2 DEF Carried

LEMMA BeginImplements ==
    ASSUME IInv, NEW t \in Tasks, Begin(t)
    PROVE  [Contract!Next]_(Contract!vars)
<1>1. IInv' /\ OthersWait(t) /\ OthersKeep(t) BY BeginKeeps
<1>2. pc \in [Tasks -> PcValues] /\ pc' \in [Tasks -> PcValues] BY <1>1 DEF IInv, Locked
<1> DEFINE Quiet == /\ pc[t] # "sent" /\ pc'[t] # "sent" /\ opened' = opened
                    /\ cookie' \in {cookie, Null}
<1>3. Quiet => [Contract!Next]_(Contract!vars)
  BY <1>1, CarriedSteps DEF Contract!Next, Contract!GiveUp, Contract!vars
<1>4. CASE Send(t)
  <2>1. /\ pc[t] = "idle" /\ pc'[t] = "sent" /\ cookie # Null
        /\ cookie' = cookie /\ opened' = opened /\ session'[t] = cookie
    BY <1>2, <1>4 DEF Send, StartRequest, LoggedIn, history, IInv, Ranges
  <2>2. Contract!Send(t) /\ Contract!Keep
    BY <2>1, <1>1, CarriedSteps DEF Contract!Send, Contract!Keep
  <2> QED BY <2>2 DEF Contract!Next
<1>5. CASE WaitForLogin(t)
  BY <1>2, <1>3, <1>5 DEF WaitForLogin, StartRequest, Queue, history
<1>6. CASE pc[t] = "idle" /\ Login(t)
  BY <1>2, <1>3, <1>6 DEF Login, StartRequest, history
<1>7. CASE RefuseRequest(t)
  BY <1>2, <1>3, <1>7 DEF RefuseRequest, history
<1>8. ASSUME NEW k \in Kinds, LogoutNothing(t, k) PROVE Quiet
  BY <1>2, <1>8 DEF LogoutNothing, StartLogout, history
<1>9. ASSUME NEW k \in Kinds, Logout(t, k) PROVE Quiet
  BY <1>2, <1>9 DEF Logout, StartLogout
<1>10. ASSUME NEW k \in Kinds, RefuseLogout(t, k) PROVE Quiet
  BY <1>2, <1>10 DEF RefuseLogout, StartLogout, Queue
<1> QED BY <1>3, <1>4, <1>5, <1>6, <1>7, <1>8, <1>9, <1>10 DEF Begin

LEMMA ResumeImplements ==
    ASSUME IInv, NEW t \in Tasks, Resume(t)
    PROVE  [Contract!Next]_(Contract!vars)
<1>1. IInv' /\ OthersWait(t) /\ OthersKeep(t) BY ResumeKeeps
<1>2. pc \in [Tasks -> PcValues] /\ pc' \in [Tasks -> PcValues] BY <1>1 DEF IInv, Locked
<1> DEFINE Quiet == /\ pc[t] # "sent" /\ pc'[t] # "sent" /\ opened' = opened
                    /\ cookie' \in {cookie, Null}
<1>3. Quiet => [Contract!Next]_(Contract!vars)
  BY <1>1, CarriedSteps DEF Contract!Next, Contract!GiveUp, Contract!vars
<1>4. ASSUME NEW next \in {"sent", "autherror", "raised", "done"}, Leave(t, next) PROVE pc'[t] = next
  BY <1>4, <1>2 DEF Leave
<1>5. CASE pc[t] = "woken" /\ Login(t)
  BY <1>2, <1>3, <1>5 DEF Login, StartRequest, history
<1>6. CASE SendAfterWait(t)
  <2>1. /\ pc[t] = "woken" /\ pc'[t] = "sent" /\ cookie # Null
        /\ cookie' = cookie /\ opened' = opened /\ session'[t] = cookie
    BY <1>4, <1>6 DEF SendAfterWait, LogsIn, LoggedIn, history, IInv, Ranges
  <2>2. Contract!Send(t) /\ Contract!Keep
    BY <2>1, <1>1, CarriedSteps DEF Contract!Send, Contract!Keep
  <2> QED BY <2>2 DEF Contract!Next
<1>7. CASE LoginAnswer(t)
  <2>1. /\ pc[t] = "login" /\ pc'[t] = "sent" /\ cookie = Null /\ t \notin opened
        /\ cookie' = t /\ opened' = opened \cup {t} /\ session'[t] = t
    BY <1>4, <1>7 DEF LoginAnswer, IInv, Owned, Ended
  <2>2. Contract!Send(t) /\ Contract!Open
    BY <2>1, <1>1, CarriedSteps, SessionAssumption DEF Contract!Send, Contract!Open
  <2> QED BY <2>2 DEF Contract!Next
<1>8. CASE LoginFails(t)
  BY <1>3, <1>4, <1>8 DEF LoginFails
<1>9. CASE Answer(t) \/ NoAnswer(t)
  <2>1. pc[t] = "sent" /\ pc'[t] # "sent" /\ cookie' = cookie /\ opened' = opened
    BY <1>2, <1>9 DEF Answer, NoAnswer, history
  <2>2. Contract!Finish(t) /\ Contract!Keep
    BY <2>1, <1>1, CarriedSteps DEF Contract!Finish, Contract!Keep
  <2> QED BY <2>2 DEF Contract!Next
<1>10. CASE WaitForReset(t)
  BY <1>2, <1>3, <1>10 DEF WaitForReset, Resets, Queue
<1>11. CASE ResetNow(t)
  BY <1>2, <1>3, <1>11 DEF ResetNow, Resets
<1>12. CASE ResetAfterWait(t)
  BY <1>3, <1>4, <1>12 DEF ResetAfterWait, history
<1> QED BY <1>5, <1>6, <1>7, <1>8, <1>9, <1>10, <1>11, <1>12 DEF Resume

\* Every step of the client is a step of its contract or changes nothing there.
LEMMA NextImplements == IInv /\ [Next]_vars => [Contract!Next]_(Contract!vars)
<1> SUFFICES ASSUME IInv, [Next]_vars PROVE [Contract!Next]_(Contract!vars)
  OBVIOUS
<1>1. ASSUME NEW t \in Tasks, Serve(t) PROVE UNCHANGED Contract!vars
  <2>1. UNCHANGED <<cookie, pc, opened>> BY <1>1 DEF Serve, history
  <2>2. \A s \in Tasks : pc[s] = "sent" => session'[s] = session[s]
    BY <1>1 DEF Serve, IInv, Ranges
  <2> QED BY <2>1, <2>2 DEF Carried, Contract!vars
<1>2. ASSUME NEW s \in open, Expire(s) PROVE UNCHANGED Contract!vars
  BY <1>2 DEF Expire, taskVars, history, Carried, Contract!vars
<1>3. CASE UNCHANGED vars
  BY <1>3 DEF vars, taskVars, history, Carried, Contract!vars
<1> QED BY <1>1, <1>2, <1>3, BeginImplements, ResumeImplements DEF Next

\* EapiSessionAuth implements the contract of its client for any number of calls: no
\* request without a session, one session at a time, given up before the next one is
\* opened, and each request sent with the session of the moment.
THEOREM Refinement == Spec => ImplementsContract
<1>1. Init => Contract!Init BY DEF Init, Contract!Init, Carried
<1> QED BY <1>1, NextImplements, Invariance, PTL DEF Spec, ImplementsContract, Contract!Spec

-----------------------------------------------------------------------------
(* Logouts *)

\* What a logout under way has: the cookie it is about to drop, which the device no longer
\* knows once the logout is accepted, or that counts as lost.
GivesUp(t) ==
    LoggingOut(t) =>
        /\ cookie # Null
        /\ pc[t] = "logout" => session[t] = cookie /\ (verdict[t] = "accepted" => cookie \notin open)
        /\ pc[t] # "logout" => cookie \in lost \/ cookie \notin open

\* Before its login is answered a call has no session but its own.
Unsent(t) ==
    pc[t] \in {"idle", "login"} \/ (pc[t] \in {"queued", "woken"} /\ kind[t] = "request") =>
        session[t] \in {Null, t}

\* The cookie is from a login that was answered; and unless two logouts crossed, there is
\* one at a time.
Accounted ==
    /\ cookie # Null => cookie \in opened
    /\ \A t \in Tasks : Unsent(t) /\ (pc[t] = "logout" => kind[t] # "request")
    /\ ~ crossed =>
           /\ \A s, t \in Tasks : LoggingOut(s) /\ LoggingOut(t) => s = t
           /\ \A t \in Tasks : GivesUp(t)
    /\ SessionsAccounted

\* What is left to show of a step of call t that leaves the cookie: how the call itself
\* goes on, and what becomes of the session it opened.
LEMMA AccountedStep ==
    ASSUME IInv, IInv', Accounted, NEW t \in Tasks, OthersWait(t), OthersKeep(t),
           \A s \in Tasks \ {t} : kind'[s] = kind[s],
           cookie' = cookie, open' = open, opened' = opened, lost \subseteq lost', crossed => crossed',
           Unsent(t)', pc'[t] = "logout" => kind'[t] # "request",
           ~ crossed' /\ LoggingOut(t)' => LoggingOut(t) \/ \A s \in Tasks : ~ LoggingOut(s),
           ~ crossed' => GivesUp(t)',
           pc[t] = "login" /\ session[t] # Null => session[t] \in lost'
    PROVE  Accounted'
<1>1. \A s \in Tasks \ {t} :
          /\ LoggingOut(s)' <=> LoggingOut(s)
          /\ pc'[s] = "logout" <=> pc[s] = "logout"
          /\ pc'[s] = "login" <=> pc[s] = "login"
          /\ session'[s] = session[s] /\ verdict'[s] = verdict[s] /\ kind'[s] = kind[s]
  <2> SUFFICES ASSUME NEW s \in Tasks \ {t}
               PROVE  /\ LoggingOut(s)' <=> LoggingOut(s)
                      /\ pc'[s] = "logout" <=> pc[s] = "logout"
                      /\ pc'[s] = "login" <=> pc[s] = "login"
                      /\ session'[s] = session[s] /\ verdict'[s] = verdict[s] /\ kind'[s] = kind[s]
    OBVIOUS
  <2>1. pc'[s] = pc[s] \/ (pc[s] = "queued" /\ pc'[s] = "woken") BY DEF OthersWait
  <2>2. session'[s] = session[s] /\ verdict'[s] = verdict[s] /\ kind'[s] = kind[s] BY DEF OthersKeep
  <2> QED BY <2>1, <2>2 DEF LoggingOut
<1>2. cookie' # Null => cookie' \in opened' BY DEF Accounted
<1>3. \A s \in Tasks : Unsent(s)' /\ (pc'[s] = "logout" => kind'[s] # "request")
  <2>1. \A s \in Tasks \ {t} : Unsent(s)'
    BY <1>1 DEF Accounted, Unsent, OthersWait
  <2>2. \A s \in Tasks \ {t} : pc'[s] = "logout" => kind'[s] # "request" BY <1>1 DEF Accounted
  <2> QED BY <2>1, <2>2
<1>4. ASSUME ~ crossed'
      PROVE  /\ \A r, s \in Tasks : LoggingOut(r)' /\ LoggingOut(s)' => r = s
             /\ \A s \in Tasks : GivesUp(s)'
  <2>1. ~ crossed BY <1>4
  <2>2. \A r, s \in Tasks : LoggingOut(r) /\ LoggingOut(s) => r = s BY <2>1 DEF Accounted
  <2>3. \A s \in Tasks \ {t} : GivesUp(s) BY <2>1 DEF Accounted
  <2>4. \A s \in Tasks \ {t} : GivesUp(s)' BY <1>1, <2>3 DEF GivesUp
  <2> HIDE DEF LoggingOut, GivesUp
  <2>5. \A r, s \in Tasks : LoggingOut(r)' /\ LoggingOut(s)' => r = s BY <1>1, <1>4, <2>2
  <2> QED BY <1>4, <2>4, <2>5
<1>5. SessionsAccounted'
  <2> SUFFICES ASSUME ~ crossed', NEW s \in open'
               PROVE  s \in lost' \cup {cookie'} \/ \E r \in Tasks : session'[r] = s /\ pc'[r] = "login"
    BY DEF SessionsAccounted
  <2>1. s \in lost \cup {cookie} \/ \E r \in Tasks : session[r] = s /\ pc[r] = "login"
    BY DEF Accounted, SessionsAccounted
  <2>2. s # Null BY SessionAssumption DEF IInv, Ranges
  <2> QED BY <1>1, <2>1, <2>2
<1> QED BY <1>2, <1>3, <1>4, <1>5 DEF Accounted

\* A call that drops the cookie: its session is lost or over, unless two logouts crossed.
LEMMA AccountedReset ==
    ASSUME IInv, IInv', Accounted, NEW t \in Tasks, OthersWait(t), OthersKeep(t),
           \A s \in Tasks \ {t} : kind'[s] = kind[s],
           cookie' = Null, open' = open, opened' = opened, lost \subseteq lost', crossed => crossed',
           pc[t] # "login", pc'[t] \in Ended,
           ~ crossed' => /\ cookie \in lost' \/ cookie \notin open
                         /\ LoggingOut(t) \/ \A s \in Tasks : ~ LoggingOut(s)
    PROVE  Accounted'
<1>1. \A s \in Tasks \ {t} :
          /\ LoggingOut(s)' <=> LoggingOut(s)
          /\ pc'[s] = "logout" <=> pc[s] = "logout"
          /\ pc'[s] = "login" <=> pc[s] = "login"
          /\ session'[s] = session[s] /\ kind'[s] = kind[s]
  <2> SUFFICES ASSUME NEW s \in Tasks \ {t}
               PROVE  /\ LoggingOut(s)' <=> LoggingOut(s)
                      /\ pc'[s] = "logout" <=> pc[s] = "logout"
                      /\ pc'[s] = "login" <=> pc[s] = "login"
                      /\ session'[s] = session[s] /\ kind'[s] = kind[s]
    OBVIOUS
  <2>1. pc'[s] = pc[s] \/ (pc[s] = "queued" /\ pc'[s] = "woken") BY DEF OthersWait
  <2>2. session'[s] = session[s] /\ kind'[s] = kind[s] BY DEF OthersKeep
  <2> QED BY <2>1, <2>2 DEF LoggingOut
<1>2. ~ LoggingOut(t)' /\ pc'[t] # "logout" BY DEF LoggingOut, Ended
<1>3. \A s \in Tasks : Unsent(s)' /\ (pc'[s] = "logout" => kind'[s] # "request")
  <2>1. \A s \in Tasks \ {t} : Unsent(s)'
    BY <1>1 DEF Accounted, Unsent, OthersWait
  <2>2. \A s \in Tasks : pc'[s] = "logout" => kind'[s] # "request" BY <1>1, <1>2 DEF Accounted
  <2>3. Unsent(t)' BY DEF Unsent, Ended
  <2> QED BY <2>1, <2>2, <2>3
<1>4. ASSUME ~ crossed' PROVE \A s \in Tasks : ~ LoggingOut(s)'
  <2>1. \A r, s \in Tasks : LoggingOut(r) /\ LoggingOut(s) => r = s BY <1>4 DEF Accounted
  <2> HIDE DEF LoggingOut
  <2> QED BY <1>1, <1>2, <1>4, <2>1
<1>5. ~ crossed' => \A s \in Tasks : GivesUp(s)' BY <1>4 DEF GivesUp
<1>6. SessionsAccounted'
  <2> SUFFICES ASSUME ~ crossed', NEW s \in open'
               PROVE  s \in lost' \cup {cookie'} \/ \E r \in Tasks : session'[r] = s /\ pc'[r] = "login"
    BY DEF SessionsAccounted
  <2>1. s \in lost \cup {cookie} \/ \E r \in Tasks : session[r] = s /\ pc[r] = "login"
    BY DEF Accounted, SessionsAccounted
  <2> QED BY <1>1, <2>1
<1> QED BY <1>3, <1>4, <1>5, <1>6 DEF Accounted

LEMMA BeginAccounts ==
    ASSUME IInv, Accounted, NEW t \in Tasks, Begin(t)
    PROVE  Accounted'
<1>1. IInv' /\ OthersWait(t) /\ OthersKeep(t) BY BeginKeeps
<1>2. /\ pc \in [Tasks -> PcValues] /\ kind \in [Tasks -> Kinds]
      /\ session \in [Tasks -> Tasks \cup {Null}] /\ verdict[t] \in Verdicts
  BY DEF IInv, Locked, Ranges
<1>3. CASE Send(t)
  <2>1. /\ pc[t] = "idle" /\ pc' = [pc EXCEPT ![t] = "sent"] /\ kind' = [kind EXCEPT ![t] = "request"]
        /\ UNCHANGED <<cookie, open, opened, lost, crossed>>
    BY <1>3 DEF Send, StartRequest, history
  <2>2. pc'[t] = "sent" /\ \A s \in Tasks \ {t} : kind'[s] = kind[s] BY <1>2, <2>1
  <2>3. ~ LoggingOut(t)' BY <2>2 DEF LoggingOut
  <2> QED BY <1>1, <2>1, <2>2, <2>3, AccountedStep DEF GivesUp, Unsent
<1>4. CASE WaitForLogin(t)
  <2>1. /\ pc[t] = "idle" /\ pc' = [pc EXCEPT ![t] = "queued"] /\ kind' = [kind EXCEPT ![t] = "request"]
        /\ UNCHANGED <<cookie, open, opened, lost, crossed>>
    BY <1>4 DEF WaitForLogin, StartRequest, Queue, history
  <2>2. pc'[t] = "queued" /\ kind'[t] = "request" /\ \A s \in Tasks \ {t} : kind'[s] = kind[s]
    BY <1>2, <2>1
  <2>3. ~ LoggingOut(t)' BY <2>2 DEF LoggingOut
  <2>4. Unsent(t)' BY <1>4, <2>1 DEF WaitForLogin, Accounted, Unsent
  <2> QED BY <1>1, <2>1, <2>2, <2>3, <2>4, AccountedStep DEF GivesUp
<1>5. CASE pc[t] = "idle" /\ Login(t)
  <2>1. /\ pc[t] = "idle" /\ pc' = [pc EXCEPT ![t] = "login"] /\ kind' = [kind EXCEPT ![t] = "request"]
        /\ UNCHANGED <<cookie, open, opened, lost, crossed>>
    BY <1>5 DEF Login, StartRequest, history
  <2>2. pc'[t] = "login" /\ kind'[t] = "request" /\ \A s \in Tasks \ {t} : kind'[s] = kind[s]
    BY <1>2, <2>1
  <2>3. ~ LoggingOut(t)' BY <2>2 DEF LoggingOut
  <2>4. Unsent(t)' BY <1>5, <2>1 DEF Login, Accounted, Unsent
  <2> QED BY <1>1, <2>1, <2>2, <2>3, <2>4, AccountedStep DEF GivesUp
<1>6. CASE RefuseRequest(t)
  <2>1. /\ pc[t] = "idle" /\ pc' = [pc EXCEPT ![t] = "raised"] /\ kind' = kind
        /\ UNCHANGED <<cookie, open, opened, lost, crossed>>
    BY <1>6 DEF RefuseRequest, history
  <2>2. pc'[t] = "raised" BY <1>2, <2>1
  <2>3. ~ LoggingOut(t)' BY <2>2 DEF LoggingOut
  <2> QED BY <1>1, <2>1, <2>2, <2>3, AccountedStep DEF GivesUp, Unsent
<1>7. ASSUME NEW k \in Kinds, LogoutNothing(t, k) PROVE Accounted'
  <2>1. /\ pc[t] = "idle" /\ pc' = [pc EXCEPT ![t] = "done"] /\ kind' = [kind EXCEPT ![t] = k]
        /\ UNCHANGED <<cookie, open, opened, lost, crossed>>
    BY <1>7 DEF LogoutNothing, StartLogout, history
  <2>2. pc'[t] = "done" /\ \A s \in Tasks \ {t} : kind'[s] = kind[s] BY <1>2, <2>1
  <2>3. ~ LoggingOut(t)' BY <2>2 DEF LoggingOut
  <2> QED BY <1>1, <2>1, <2>2, <2>3, AccountedStep DEF GivesUp, Unsent
<1>8. ASSUME NEW k \in Kinds, Logout(t, k) PROVE Accounted'
  <2>1. /\ pc[t] = "idle" /\ pc' = [pc EXCEPT ![t] = "logout"] /\ kind' = [kind EXCEPT ![t] = k]
        /\ k # "request" /\ cookie # Null
        /\ session' = [session EXCEPT ![t] = cookie]
        /\ crossed' = (crossed \/ \E s \in Tasks : LoggingOut(s))
        /\ UNCHANGED <<cookie, open, opened, lost, verdict>>
    BY <1>8 DEF Logout, StartLogout, LoggedIn
  <2>2. /\ pc'[t] = "logout" /\ kind'[t] = k /\ session'[t] = cookie' /\ verdict'[t] = "none"
        /\ \A s \in Tasks \ {t} : kind'[s] = kind[s]
    BY <1>2, <2>1 DEF IInv, Owned
  <2>3. GivesUp(t)' BY <2>1, <2>2 DEF GivesUp
  <2>4. ~ crossed' => \A s \in Tasks : ~ LoggingOut(s) BY <2>1
  <2> HIDE DEF LoggingOut, GivesUp
  <2> QED BY <1>1, <2>1, <2>2, <2>3, <2>4, AccountedStep DEF Unsent
<1>9. ASSUME NEW k \in Kinds, RefuseLogout(t, k) PROVE Accounted'
  <2>1. /\ pc[t] = "idle" /\ kind' = [kind EXCEPT ![t] = k] /\ k # "request" /\ cookie # Null
        /\ lost' = lost \cup {cookie}
        /\ crossed' = (crossed \/ \E s \in Tasks : LoggingOut(s))
        /\ UNCHANGED <<open, opened>>
        /\ \/ cookie' = Null /\ pc' = [pc EXCEPT ![t] = "raised"]
           \/ cookie' = cookie /\ pc' = [pc EXCEPT ![t] = "queued"]
    BY <1>9 DEF RefuseLogout, StartLogout, LoggedIn, Queue
  <2>2. kind'[t] = k /\ \A s \in Tasks \ {t} : kind'[s] = kind[s] BY <1>2, <2>1
  <2>3. ~ crossed' => \A s \in Tasks : ~ LoggingOut(s) BY <2>1
  <2>4. CASE cookie' = Null /\ pc' = [pc EXCEPT ![t] = "raised"]
    <3>1. pc'[t] \in Ended BY <1>2, <2>4 DEF Ended
    <3> HIDE DEF LoggingOut
    <3> QED BY <1>1, <2>1, <2>2, <2>3, <2>4, <3>1, AccountedReset
  <2>5. CASE cookie' = cookie /\ pc' = [pc EXCEPT ![t] = "queued"]
    <3>1. pc'[t] = "queued" BY <1>2, <2>5
    <3>2. GivesUp(t)' BY <2>1, <2>5, <3>1 DEF GivesUp
    <3> HIDE DEF LoggingOut, GivesUp
    <3> QED BY <1>1, <2>1, <2>2, <2>3, <2>5, <3>1, <3>2, AccountedStep DEF Unsent
  <2> QED BY <2>1, <2>4, <2>5
<1> QED BY <1>3, <1>4, <1>5, <1>6, <1>7, <1>8, <1>9 DEF Begin

LEMMA ResumeAccounts ==
    ASSUME IInv, Accounted, NEW t \in Tasks, Resume(t)
    PROVE  Accounted'
<1>1. IInv' /\ OthersWait(t) /\ OthersKeep(t) BY ResumeKeeps
<1>2. /\ pc \in [Tasks -> PcValues] /\ kind \in [Tasks -> Kinds]
      /\ session \in [Tasks -> Tasks \cup {Null}] /\ verdict[t] \in Verdicts
  BY DEF IInv, Locked, Ranges
<1>3. ASSUME NEW next \in PcValues, Leave(t, next) PROVE pc'[t] = next
  BY <1>3 DEF Leave
<1>4. CASE pc[t] = "woken" /\ Login(t)
  <2>1. /\ pc'[t] = "login" /\ kind' = kind /\ UNCHANGED <<cookie, open, opened, lost, crossed>>
    BY <1>2, <1>4 DEF Login, StartRequest, history
  <2>2. ~ LoggingOut(t)' BY <2>1 DEF LoggingOut
  <2>3. Unsent(t)' BY <1>4, <2>1 DEF Login, Accounted, Unsent
  <2> QED BY <1>1, <1>4, <2>1, <2>2, <2>3, AccountedStep DEF GivesUp
<1>5. CASE SendAfterWait(t)
  <2>1. /\ pc[t] = "woken" /\ pc'[t] = "sent" /\ kind' = kind
        /\ UNCHANGED <<cookie, open, opened, lost, crossed>>
    BY <1>3, <1>5 DEF SendAfterWait, history, PcValues, Posting
  <2>2. ~ LoggingOut(t)' BY <2>1 DEF LoggingOut
  <2> QED BY <1>1, <2>1, <2>2, AccountedStep DEF GivesUp, Unsent
<1>6. CASE LoginAnswer(t)
  <2>1. /\ pc[t] = "login" /\ pc'[t] = "sent" /\ kind' = kind /\ cookie = Null /\ cookie' = t
        /\ session[t] = t /\ opened' = opened \cup {t} /\ UNCHANGED <<open, lost, crossed>>
    BY <1>3, <1>6 DEF LoginAnswer, PcValues, Posting, IInv, Owned
  <2>2. \A s \in Tasks \ {t} : pc[s] = pc'[s] \/ (pc[s] = "queued" /\ pc'[s] = "woken")
    BY <1>1 DEF OthersWait
  <2>3. \A s \in Tasks \ {t} : LoggingOut(s)' <=> LoggingOut(s) BY <2>1, <2>2 DEF LoggingOut
  <2>4. ~ LoggingOut(t)' BY <2>1 DEF LoggingOut
  <2>5. ~ crossed => \A s \in Tasks : ~ LoggingOut(s) BY <2>1 DEF Accounted, GivesUp
  <2>6. ~ crossed' => \A s \in Tasks : ~ LoggingOut(s)'
    <3> HIDE DEF LoggingOut
    <3> QED BY <2>1, <2>3, <2>4, <2>5
  <2>7. \A s \in Tasks : Unsent(s)' /\ (pc'[s] = "logout" => kind'[s] # "request")
    BY <1>1, <2>1, <2>2 DEF Accounted, Unsent, OthersKeep
  <2>8. \A s \in Tasks : pc[s] = "login" => s = t BY <2>1 DEF IInv, Locked
  <2>9. Null \notin open BY SessionAssumption DEF IInv, Ranges
  <2>10. SessionsAccounted' BY <2>1, <2>8, <2>9 DEF Accounted, SessionsAccounted
  <2> QED BY <2>1, <2>6, <2>7, <2>10 DEF Accounted, GivesUp
<1>7. CASE LoginFails(t)
  <2>1. PICK end \in {"autherror", "raised"} : Leave(t, end) BY <1>7 DEF LoginFails
  <2>2. /\ pc[t] = "login" /\ pc'[t] = end /\ kind' = kind
        /\ UNCHANGED <<cookie, open, opened, crossed>>
        /\ lost' = (lost \cup {session[t]}) \ {Null}
    BY <1>3, <1>7, <2>1 DEF LoginFails, PcValues, Ended
  <2>3. lost \subseteq lost' BY <2>2, SessionAssumption DEF IInv, Ranges
  <2>4. ~ LoggingOut(t)' BY <2>2 DEF LoggingOut
  <2> QED BY <1>1, <2>2, <2>3, <2>4, AccountedStep DEF GivesUp, Unsent
<1>8. CASE Answer(t) \/ NoAnswer(t)
  <2>1. /\ pc[t] = "sent" /\ pc'[t] \in Ended /\ kind' = kind
        /\ UNCHANGED <<cookie, open, opened, lost, crossed>>
    BY <1>2, <1>8 DEF Answer, NoAnswer, history, Ended
  <2>2. ~ LoggingOut(t)' /\ pc'[t] # "logout" BY <2>1 DEF LoggingOut, Ended
  <2>3. Unsent(t)' BY <2>1 DEF Unsent, Ended
  <2> QED BY <1>1, <2>1, <2>2, <2>3, AccountedStep DEF GivesUp
<1>9. CASE WaitForReset(t)
  <2>1. /\ pc[t] = "logout" /\ pc'[t] = "queued" /\ kind' = kind
        /\ UNCHANGED <<cookie, open, opened, crossed>>
        /\ lost' = IF verdict[t] = "accepted" THEN lost ELSE lost \cup {session[t]}
    BY <1>2, <1>9 DEF WaitForReset, Resets, Queue
  <2>2. LoggingOut(t) BY <2>1 DEF Accounted, LoggingOut
  <2>3. ~ crossed' => GivesUp(t)' BY <2>1, <2>2 DEF Accounted, GivesUp
  <2>4. lost \subseteq lost' BY <2>1
  <2>5. Unsent(t)' BY <2>1 DEF Accounted, Unsent
  <2> HIDE DEF LoggingOut, GivesUp
  <2> QED BY <1>1, <2>1, <2>2, <2>3, <2>4, <2>5, AccountedStep
<1>10. CASE ResetNow(t)
  <2>1. /\ pc[t] = "logout" /\ pc'[t] = "done" /\ kind' = kind /\ cookie' = Null
        /\ UNCHANGED <<open, opened, crossed>>
        /\ lost' = IF verdict[t] = "accepted" THEN lost ELSE lost \cup {session[t]}
    BY <1>2, <1>10 DEF ResetNow, Resets
  <2>2. LoggingOut(t) BY <2>1 DEF Accounted, LoggingOut
  <2>3. ~ crossed' => cookie \in lost' \/ cookie \notin open BY <2>1, <2>2 DEF Accounted, GivesUp
  <2>4. lost \subseteq lost' /\ pc'[t] \in Ended BY <2>1 DEF Ended
  <2> HIDE DEF LoggingOut
  <2> QED BY <1>1, <2>1, <2>2, <2>3, <2>4, AccountedReset
<1>11. CASE ResetAfterWait(t)
  <2>1. PICK end \in {"raised", "done"} : Leave(t, end) BY <1>11 DEF ResetAfterWait
  <2>2. /\ pc[t] = "woken" /\ kind[t] # "request" /\ pc'[t] = end /\ kind' = kind /\ cookie' = Null
        /\ UNCHANGED <<open, opened, lost, crossed>>
    BY <1>3, <1>11, <2>1 DEF ResetAfterWait, PcValues, Ended, history
  <2>3. LoggingOut(t) BY <2>2 DEF LoggingOut
  <2>4. ~ crossed' => cookie \in lost' \/ cookie \notin open BY <2>2, <2>3 DEF Accounted, GivesUp
  <2>5. pc'[t] \in Ended BY <2>2 DEF Ended
  <2> HIDE DEF LoggingOut
  <2> QED BY <1>1, <2>2, <2>3, <2>4, <2>5, AccountedReset
<1> QED BY <1>4, <1>5, <1>6, <1>7, <1>8, <1>9, <1>10, <1>11 DEF Resume

LEMMA NextAccounts == IInv /\ Accounted /\ [Next]_vars => Accounted'
<1> SUFFICES ASSUME IInv, Accounted, [Next]_vars PROVE Accounted'
  OBVIOUS
<1>1. ASSUME NEW t \in Tasks, Serve(t) PROVE Accounted'
  <2>1. UNCHANGED <<cookie, kind, pc, opened, lost, crossed>> BY <1>1 DEF Serve, history
  <2>2. \A s \in Tasks \ {t} : session'[s] = session[s] /\ verdict'[s] = verdict[s]
    BY <1>1 DEF Serve, IInv, Ranges
  <2>3. \A s \in Tasks : LoggingOut(s)' <=> LoggingOut(s) BY <2>1 DEF LoggingOut
  <2>4. CASE pc[t] = "login" /\ verdict'[t] = "accepted"
    <3>1. session'[t] = t /\ open' = open \cup {t} /\ cookie # t
      <4>1. cookie = Null BY <2>4 DEF IInv, Owned
      <4>2. session' = [session EXCEPT ![t] = t] /\ open' = open \cup {t}
        BY <1>1, <2>4 DEF Serve, IInv, Ranges
      <4> QED BY <4>1, <4>2, SessionAssumption DEF IInv, Ranges
    <3>2. SessionsAccounted'
      <4>1. session[t] \in {Null, t} /\ Null \notin open
        BY <2>4, SessionAssumption DEF Accounted, Unsent, IInv, Ranges
      <4> QED BY <2>1, <2>2, <2>4, <3>1, <4>1 DEF Accounted, SessionsAccounted
    <3>3. \A s \in Tasks : ~ crossed /\ GivesUp(s) => GivesUp(s)'
      BY <2>1, <2>2, <2>3, <2>4, <3>1 DEF GivesUp
    <3>4. \A s \in Tasks : Unsent(s)' BY <2>1, <2>2, <3>1 DEF Accounted, Unsent
    <3> QED BY <2>1, <2>3, <3>2, <3>3, <3>4 DEF Accounted
  <2>5. CASE pc[t] # "login" \/ verdict'[t] # "accepted"
    <3>1. /\ open' \subseteq open /\ session' = session
          /\ pc[t] = "logout" /\ verdict'[t] = "accepted" => session[t] \notin open'
      BY <1>1, <2>5 DEF Serve, IInv, Ranges
    <3>2. SessionsAccounted' BY <2>1, <3>1 DEF Accounted, SessionsAccounted
    <3>3. ASSUME NEW s \in Tasks, GivesUp(s) PROVE GivesUp(s)'
      <4>1. CASE s = t BY <2>1, <2>3, <3>1, <3>3, <4>1 DEF GivesUp
      <4>2. CASE s # t BY <2>1, <2>2, <2>3, <3>1, <3>3, <4>2 DEF GivesUp
      <4> QED BY <4>1, <4>2
    <3>4. \A s \in Tasks : Unsent(s)' BY <2>1, <2>2, <3>1 DEF Accounted, Unsent
    <3> QED BY <2>1, <2>3, <3>2, <3>3, <3>4 DEF Accounted
  <2> QED BY <2>4, <2>5
<1>2. ASSUME NEW s \in open, Expire(s) PROVE Accounted'
  <2>1. UNCHANGED <<cookie, kind, pc, session, verdict, opened, lost, crossed>> /\ open' \subseteq open
    BY <1>2 DEF Expire, taskVars, history
  <2> QED BY <2>1 DEF Accounted, GivesUp, LoggingOut, SessionsAccounted, Unsent
<1>3. CASE UNCHANGED vars
  BY <1>3 DEF vars, taskVars, history, Accounted, GivesUp, LoggingOut, SessionsAccounted, Unsent
<1> QED BY <1>1, <1>2, <1>3, BeginAccounts, ResumeAccounts DEF Next

\* Logout (device.py), for any number of calls: unless two logouts were under way together,
\* no session the device knows is forgotten, but one whose login or logout was cut off.
THEOREM NoSessionForgotten == Spec => []SessionsAccounted
<1>1. Init => Accounted BY DEF Init, Accounted, GivesUp, LoggingOut, SessionsAccounted, Unsent
<1>2. Accounted => SessionsAccounted BY DEF Accounted
<1> QED BY <1>1, <1>2, NextAccounts, Invariance, PTL DEF Spec

-----------------------------------------------------------------------------
(* The configuration session *)

\* A configuration, and a device that has the session.
Devices == [pending : (SUBSET Lines) \cup {Nothing}, running : SUBSET Lines,
            fallback : (SUBSET Lines) \cup {Nothing}]
Opened == [pending : SUBSET Lines, running : SUBSET Lines, fallback : (SUBSET Lines) \cup {Nothing}]

AreFacts(k) == k = Facts(k.pending, k.running, k.fallback)

\* What k says of the session and the rest is so on the device d.
Right(k, d) ==
    /\ AreFacts(k)
    /\ k.pending # Unknown => d.pending = k.pending
    /\ k.running # Unknown => d.running = k.running
    /\ k.fallback # Unknown => d.fallback = k.fallback

\* What no command before a commit or an abort changes.
Keeps(e, d) == e \in Devices /\ e.running = d.running /\ e.fallback = d.fallback

\* The commands that open the session, with `replace` or without, and the device after them.
EnterCommand == Command("configure session", Nothing)
CleanCommand == Command("rollback clean-config", Nothing)
CopiedIn(lines) == <<Command("copy", lines)>>
ContentCommands == {Command("line", l) : l \in Lines} \cup {Command("copy", s) : s \in Seq(Lines)}
Opens(opening, d, start) ==
    \/ opening = <<EnterCommand, CleanCommand>> /\ start = [Enter(d) EXCEPT !.pending = {}]
    \/ opening = <<EnterCommand>> /\ start = Enter(d)

Device == Facts(pending, running, fallback)

SessionIInv == Device \in Devices /\ Right(known, Device)

-----------------------------------------------------------------------------
(* Loops *)

TypingStart(p) == p[1]
TypingTurn(p, x, i) == Type(x, p[2][i])
RunningStart(p) == p[1]
RunningTurn(p, x, i) == Execute(x, p[2][i])
FillingStart(p) == <<>>
FillingTurn(p, x, i) == IF p[i] = Empty THEN x ELSE Append(x, p[i])
Any(p, x, i) == TRUE

TypingLoop == INSTANCE Loops WITH Start <- TypingStart, Turn <- TypingTurn, Good <- Any
RunningLoop == INSTANCE Loops WITH Start <- RunningStart, Turn <- RunningTurn, Good <- Any
FillingGood(p, x, i) == x \in Seq(Lines)
FillingLoop == INSTANCE Loops WITH Start <- FillingStart, Turn <- FillingTurn, Good <- FillingGood

LEMMA TypingSteps ==
    ASSUME NEW d, NEW lines, Len(lines) \in Nat
    PROVE  /\ TypedTo(d, lines, 0) = d
           /\ \A i \in 0..(Len(lines) - 1) :
                  TypedTo(d, lines, i + 1) = Type(TypedTo(d, lines, i), lines[i + 1])
<1> DEFINE n == Len(lines)
           p == <<d, lines>>
           Equation(f) == f = [i \in 0..n |-> IF i = 0 THEN d ELSE Type(f[i - 1], lines[i])]
           after == CHOOSE f : Equation(f)
<1>1. \E f : Equation(f)
  <2>1. \E f : TypingLoop!Unrolls(p, f, n)
    <3> HIDE DEF p, n
    <3>1. n \in Nat BY DEF n
    <3> QED BY <3>1, TypingLoop!LoopExists
  <2>2. \A f : TypingLoop!Unrolls(p, f, n) <=> Equation(f)
    BY DEF TypingLoop!Unrolls, TypingStart, TypingTurn
  <2> HIDE DEF p, n, Equation
  <2> QED BY <2>1, <2>2
<1>2. Equation(after)
  <2> HIDE DEF Equation
  <2> QED BY <1>1
<1>3. \A i : TypedTo(d, lines, i) = after[i] BY DEF TypedTo
<1>4. \A i \in 0..n : after[i] = IF i = 0 THEN d ELSE Type(after[i - 1], lines[i])
  <2> HIDE DEF after
  <2> QED BY <1>2
<1> HIDE DEF after
<1>5. ASSUME NEW i \in 0..(n - 1) PROVE i + 1 \in 0..n /\ i + 1 # 0 /\ (i + 1) - 1 = i
  OBVIOUS
<1> QED BY <1>3, <1>4, <1>5

LEMMA RunningSteps ==
    ASSUME NEW d, NEW commands, Len(commands) \in Nat
    PROVE  /\ Run(d, commands, 0) = d
           /\ \A i \in 0..(Len(commands) - 1) :
                  Run(d, commands, i + 1) = Execute(Run(d, commands, i), commands[i + 1])
<1> DEFINE n == Len(commands)
           p == <<d, commands>>
           Equation(f) == f = [i \in 0..n |-> IF i = 0 THEN d ELSE Execute(f[i - 1], commands[i])]
           after == CHOOSE f : Equation(f)
<1>1. \E f : Equation(f)
  <2>1. \E f : RunningLoop!Unrolls(p, f, n)
    <3> HIDE DEF p, n
    <3>1. n \in Nat BY DEF n
    <3> QED BY <3>1, RunningLoop!LoopExists
  <2>2. \A f : RunningLoop!Unrolls(p, f, n) <=> Equation(f)
    BY DEF RunningLoop!Unrolls, RunningStart, RunningTurn
  <2> HIDE DEF p, n, Equation
  <2> QED BY <2>1, <2>2
<1>2. Equation(after)
  <2> HIDE DEF Equation
  <2> QED BY <1>1
<1>3. \A i : Run(d, commands, i) = after[i] BY DEF Run
<1>4. \A i \in 0..n : after[i] = IF i = 0 THEN d ELSE Execute(after[i - 1], commands[i])
  <2> HIDE DEF after
  <2> QED BY <1>2
<1> HIDE DEF after
<1>5. ASSUME NEW i \in 0..(n - 1) PROVE i + 1 \in 0..n /\ i + 1 # 0 /\ (i + 1) - 1 = i
  OBVIOUS
<1> QED BY <1>3, <1>4, <1>5

\* The lines of a content that are not empty are lines.
LEMMA FilledLines ==
    ASSUME NEW content \in Contents
    PROVE  Filled(content) \in Seq(Lines)
<1> DEFINE n == Len(content)
           Equation(f) == f = [i \in 0..n |-> IF i = 0 THEN <<>>
                                              ELSE IF content[i] = Empty THEN f[i - 1]
                                              ELSE Append(f[i - 1], content[i])]
           kept == CHOOSE f : Equation(f)
<1>1. n \in Nat /\ \A i \in 1..n : content[i] # Empty => content[i] \in Lines
  <2>1. content \in Seq(Range(content)) BY ConfigAssumption
  <2>2. Range(content) \ {Empty} \subseteq Lines BY DEF Lines
  <2> QED BY <2>1, <2>2
<1>2. \A i \in 1..n : \A x : FillingGood(content, x, i - 1) => FillingGood(content, FillingTurn(content, x, i), i)
  BY <1>1 DEF FillingGood, FillingTurn
<1>3. FillingGood(content, FillingStart(content), 0) BY DEF FillingGood, FillingStart
<1>4. /\ \E f : FillingLoop!Unrolls(content, f, n)
      /\ \A f : FillingLoop!Unrolls(content, f, n) => \A i \in 0..n : FillingGood(content, f[i], i)
  <2> HIDE DEF n
  <2> QED BY <1>1, <1>2, <1>3, FillingLoop!LoopInvariant
<1>5. \A f : FillingLoop!Unrolls(content, f, n) <=> Equation(f)
  BY DEF FillingLoop!Unrolls, FillingStart, FillingTurn
<1>6. FillingLoop!Unrolls(content, kept, n)
  <2> HIDE DEF Equation
  <2> QED BY <1>4, <1>5
<1>7. Filled(content) = kept[n] BY DEF Filled
<1> HIDE DEF kept
<1> QED BY <1>1, <1>4, <1>6, <1>7 DEF FillingGood

-----------------------------------------------------------------------------
(* What a caller who is right about a device stays right about *)

\* One line: what is known of the session and what is there change alike.
LEMMA TypeAgrees ==
    ASSUME NEW k, AreFacts(k), NEW d \in Opened, NEW l \in Lines,
           k.pending # Unknown => d.pending = k.pending
    PROVE  /\ AreFacts(Type(k, l))
           /\ Type(k, l).running = k.running /\ Type(k, l).fallback = k.fallback
           /\ Type(d, l) \in Opened
           /\ Type(d, l).running = d.running /\ Type(d, l).fallback = d.fallback
           /\ Type(k, l).pending # Unknown => Type(d, l).pending = Type(k, l).pending
<1>1. d.pending # Unknown BY ConfigAssumption DEF Opened
<1>2. Type(d, l) = [d EXCEPT !.pending = {x \in @ : x[1] # l[1]} \cup {l}] BY <1>1 DEF Type
<1>3. Type(d, l) \in Opened /\ Type(d, l).running = d.running /\ Type(d, l).fallback = d.fallback
  BY <1>2 DEF Opened
<1>4. Type(k, l) = Facts(Type(k, l).pending, k.running, k.fallback) BY DEF AreFacts, Facts, Type
<1>5. AreFacts(Type(k, l)) /\ Type(k, l).running = k.running /\ Type(k, l).fallback = k.fallback
  BY <1>4 DEF AreFacts, Facts
<1>6. CASE k.pending = Unknown
  <2>1. Type(k, l).pending = Unknown BY <1>6 DEF AreFacts, Facts, Type
  <2> QED BY <1>3, <1>5, <2>1
<1>7. CASE k.pending # Unknown
  <2>1. Type(k, l).pending = {x \in k.pending : x[1] # l[1]} \cup {l}
    BY <1>7 DEF AreFacts, Facts, Type
  <2>2. Type(d, l).pending = {x \in d.pending : x[1] # l[1]} \cup {l}
    BY <1>2 DEF Opened
  <2> QED BY <1>3, <1>5, <1>7, <2>1, <2>2
<1> QED BY <1>6, <1>7

\* The lines of a content.
LEMMA TypedAgrees ==
    ASSUME NEW k, AreFacts(k), NEW d \in Opened, NEW lines \in Seq(Lines),
           k.pending # Unknown => d.pending = k.pending, NEW i \in 0..Len(lines)
    PROVE  LET a == TypedTo(k, lines, i)  b == TypedTo(d, lines, i)
           IN  /\ AreFacts(a) /\ a.running = k.running /\ a.fallback = k.fallback
               /\ b \in Opened /\ b.running = d.running /\ b.fallback = d.fallback
               /\ a.pending # Unknown => b.pending = a.pending
<1> DEFINE n == Len(lines)
           Agree(a, b) == /\ AreFacts(a) /\ a.running = k.running /\ a.fallback = k.fallback
                          /\ b \in Opened /\ b.running = d.running /\ b.fallback = d.fallback
                          /\ a.pending # Unknown => b.pending = a.pending
           S == {j \in 0..n : Agree(TypedTo(k, lines, j), TypedTo(d, lines, j))}
<1>1. n \in Nat /\ \A j \in 1..n : lines[j] \in Lines OBVIOUS
<1>2. 0 \in S BY <1>1, TypingSteps
<1>3. ASSUME NEW j \in 0..(n - 1), j \in S PROVE j + 1 \in S
  <2>1. j + 1 \in 1..n /\ j + 1 \in 0..n /\ (j + 1) - 1 = j BY <1>1
  <2>2. /\ TypedTo(k, lines, j + 1) = Type(TypedTo(k, lines, j), lines[j + 1])
        /\ TypedTo(d, lines, j + 1) = Type(TypedTo(d, lines, j), lines[j + 1])
    BY ONLY <1>1, TypingSteps, j \in 0..(n - 1)
  <2>3. Agree(TypedTo(k, lines, j), TypedTo(d, lines, j)) BY <1>3
  <2>4. ASSUME NEW a, NEW b, Agree(a, b) PROVE Agree(Type(a, lines[j + 1]), Type(b, lines[j + 1]))
    BY <1>1, <2>1, <2>4, TypeAgrees
  <2> HIDE DEF Agree
  <2> QED BY <2>1, <2>2, <2>3, <2>4
<1>4. 0..n \subseteq S
  <2> HIDE DEF S
  <2> QED BY <1>1, <1>2, <1>3, TypingLoop!Induction
<1> QED BY <1>4

\* Entering the session.
LEMMA EnterAgrees ==
    ASSUME NEW k, NEW d \in Devices, Right(k, d)
    PROVE  /\ Enter(d) \in Opened /\ Enter(d).running = d.running /\ Enter(d).fallback = d.fallback
           /\ Right(Enter(k), Enter(d))
<1>1. Enter(d) \in Opened /\ Enter(d).running = d.running /\ Enter(d).fallback = d.fallback
  BY DEF Enter, Devices, Opened
<1>2. Enter(d).pending = IF d.pending = Nothing THEN d.running ELSE d.pending
  BY DEF Enter, Devices
<1>3. Enter(k) = Facts(IF k.pending = Nothing THEN k.running ELSE k.pending, k.running, k.fallback)
  BY DEF Enter, Right, AreFacts, Facts
<1> QED BY <1>1, <1>2, <1>3, ConfigAssumption DEF Right, AreFacts, Facts

-----------------------------------------------------------------------------
(* Requests *)

\* One command.
LEMMA CommandExecuted ==
    ASSUME NEW d, NEW x
    PROVE  /\ Execute(d, Command("configure session", x)) = Enter(d)
           /\ Execute(d, Command("rollback clean-config", x)) = [d EXCEPT !.pending = {}]
           /\ Execute(d, Command("line", x)) = Type(d, x)
           /\ Execute(d, Command("copy", x)) = Typed(d, x)
           /\ Execute(d, Command("commit", x)) = Commit(d, x)
           /\ Execute(d, Command("abort", x)) = Abort(d)
BY DEF Execute, Command

\* What the device has after the commands that open the session, or one of them.
LEMMA OpeningRun ==
    ASSUME NEW d \in Devices, NEW opening, NEW start, Opens(opening, d, start),
           NEW rest \in Seq(ContentCommands)
    PROVE  /\ Len(opening) \in 1..2 /\ Len(opening \o rest) = Len(opening) + Len(rest)
           /\ \A i \in 1..Len(rest) : (opening \o rest)[Len(opening) + i] = rest[i]
           /\ \A i \in 0..Len(opening) : Keeps(Run(d, opening \o rest, i), d)
           /\ start \in Opened /\ Run(d, opening \o rest, Len(opening)) = start
<1> DEFINE m == Len(opening)
           commands == opening \o rest
<1>1. /\ m \in 1..2 /\ Len(commands) = m + Len(rest)
      /\ commands[1] = EnterCommand
      /\ m = 2 => commands[2] = CleanCommand /\ start = [Enter(d) EXCEPT !.pending = {}]
      /\ m = 1 => start = Enter(d)
      /\ \A i \in 1..Len(rest) : commands[m + i] = rest[i]
  <2> DEFINE T == ContentCommands \cup {EnterCommand, CleanCommand}
  <2>1. rest \in Seq(T) /\ EnterCommand \in T /\ CleanCommand \in T OBVIOUS
  <2> HIDE DEF T
  <2>2. CASE opening = <<EnterCommand, CleanCommand>> /\ start = [Enter(d) EXCEPT !.pending = {}]
    BY <2>1, <2>2
  <2>3. CASE opening = <<EnterCommand>> /\ start = Enter(d)
    BY <2>1, <2>3
  <2> QED BY <2>2, <2>3 DEF Opens
<1>2. Len(rest) \in Nat OBVIOUS
<1> HIDE DEF m, commands
<1>3. Len(commands) \in Nat /\ m \in 1..2 /\ m <= Len(commands) BY <1>1, <1>2
<1>4. /\ Enter(d) \in Opened /\ Enter(d).running = d.running /\ Enter(d).fallback = d.fallback
  BY DEF Enter, Devices, Opened
<1>5. /\ Run(d, commands, 0) = d
      /\ \A i \in 0..(Len(commands) - 1) : Run(d, commands, i + 1) = Execute(Run(d, commands, i), commands[i + 1])
  BY ONLY <1>3, RunningSteps
<1>6. Run(d, commands, 1) = Enter(d)
  <2>1. 0 \in 0..(Len(commands) - 1) /\ 0 + 1 = 1 BY <1>3
  <2>2. Run(d, commands, 1) = Execute(Run(d, commands, 0), commands[1])
    BY ONLY <1>5, <2>1
  <2>3. commands[1] = EnterCommand /\ Run(d, commands, 0) = d BY <1>1, <1>5
  <2>4. Execute(d, EnterCommand) = Enter(d) BY ONLY CommandExecuted DEF EnterCommand
  <2> QED BY ONLY <2>2, <2>3, <2>4
<1>7. m = 2 => Run(d, commands, 2) = [Enter(d) EXCEPT !.pending = {}]
  <2> SUFFICES ASSUME m = 2 PROVE Run(d, commands, 2) = [Enter(d) EXCEPT !.pending = {}]
    OBVIOUS
  <2>1. 1 \in 0..(Len(commands) - 1) /\ 1 + 1 = 2 BY ONLY <1>1, <1>3, m = 2
  <2>2. Run(d, commands, 2) = Execute(Run(d, commands, 1), commands[2])
    BY ONLY <1>5, <2>1
  <2>3. commands[2] = CleanCommand BY <1>1
  <2>4. Execute(Enter(d), CleanCommand) = [Enter(d) EXCEPT !.pending = {}]
    BY ONLY CommandExecuted DEF CleanCommand
  <2> QED BY ONLY <1>6, <2>2, <2>3, <2>4
<1>8. start \in Opened /\ start.running = d.running /\ start.fallback = d.fallback
  BY <1>1, <1>4 DEF Opened
<1>9. Run(d, commands, m) = start
  <2>1. CASE m = 1 BY ONLY <1>1, <1>6, <2>1
  <2>2. CASE m = 2 BY ONLY <1>1, <1>7, <2>2
  <2> QED BY <1>1, <2>1, <2>2
<1>10. Opened \subseteq Devices BY DEF Opened, Devices
<1>11. ASSUME NEW i \in 0..m PROVE Keeps(Run(d, commands, i), d)
  <2>1. i = 0 \/ i = 1 \/ i = m BY <1>1
  <2> QED BY <2>1, <1>4, <1>5, <1>6, <1>8, <1>9, <1>10 DEF Keeps
<1> QED BY <1>1, <1>3, <1>8, <1>9, <1>11 DEF m, commands

\* A push: the lines are typed one after the other.
LEMMA PushRun ==
    ASSUME NEW d \in Devices, NEW opening, NEW start, Opens(opening, d, start),
           NEW lines \in Seq(Lines), NEW commands, commands = opening \o TypedIn(lines)
    PROVE  /\ Len(commands) \in Nat
           /\ \A i \in 0..Len(commands) : Keeps(Run(d, commands, i), d)
           /\ Run(d, commands, Len(commands)) = Typed(start, lines)
<1> DEFINE m == Len(opening)
           n == Len(lines)
           S == {j \in 0..n : Run(d, commands, m + j) = TypedTo(start, lines, j)}
           rest == TypedIn(lines)
<1>1. /\ n \in Nat /\ Len(rest) = n /\ rest \in Seq(ContentCommands)
      /\ \A i \in 1..n : lines[i] \in Lines /\ rest[i] = Command("line", lines[i])
  BY DEF TypedIn, ContentCommands
<1>2. /\ m \in 1..2 /\ Len(commands) = m + n
      /\ \A i \in 1..n : commands[m + i] = rest[i]
      /\ \A i \in 0..m : Keeps(Run(d, commands, i), d)
      /\ start \in Opened /\ Run(d, commands, m) = start
  <2>1. commands = opening \o rest OBVIOUS
  <2> HIDE DEF rest
  <2>2. /\ Len(opening) \in 1..2 /\ Len(opening \o rest) = Len(opening) + Len(rest)
        /\ \A i \in 1..Len(rest) : (opening \o rest)[Len(opening) + i] = rest[i]
        /\ \A i \in 0..Len(opening) : Keeps(Run(d, opening \o rest, i), d)
        /\ start \in Opened /\ Run(d, opening \o rest, Len(opening)) = start
    <3>1. rest \in Seq(ContentCommands) BY <1>1
    <3> QED BY ONLY <3>1, OpeningRun, d \in Devices, Opens(opening, d, start)
  <2> QED BY ONLY <1>1, <2>1, <2>2
<1> HIDE DEF m
<1>3. start.running = d.running /\ start.fallback = d.fallback
  <2>1. m \in 0..m BY <1>2
  <2> QED BY <1>2, <2>1 DEF Keeps
<1>4. AreFacts(start) BY <1>2 DEF AreFacts, Facts, Opened
<1>5. 0 \in S BY <1>1, <1>2, TypingSteps
<1> HIDE DEF rest
<1>6. Len(commands) \in Nat BY <1>1, <1>2
<1>7. \A i \in 0..(Len(commands) - 1) : Run(d, commands, i + 1) = Execute(Run(d, commands, i), commands[i + 1])
  BY ONLY <1>6, RunningSteps
<1>8. ASSUME NEW j \in 0..(n - 1), j \in S PROVE j + 1 \in S
  <2>1. j + 1 \in 1..n /\ j + 1 \in 0..n /\ (j + 1) - 1 = j BY <1>1
  <2>2. m + j \in 0..(Len(commands) - 1) /\ (m + j) + 1 = m + (j + 1) /\ Len(commands) \in Nat
    BY <1>1, <1>2, <2>1
  <2>3. Run(d, commands, (m + j) + 1) = Execute(Run(d, commands, m + j), commands[(m + j) + 1])
    BY ONLY <2>2, <1>7
  <2>4. commands[m + (j + 1)] = Command("line", lines[j + 1]) BY <1>1, <1>2, <2>1
  <2>5. Run(d, commands, m + (j + 1)) = Type(Run(d, commands, m + j), lines[j + 1])
    <3>1. Execute(Run(d, commands, m + j), Command("line", lines[j + 1])) =
              Type(Run(d, commands, m + j), lines[j + 1])
      BY ONLY CommandExecuted
    <3> QED BY ONLY <2>2, <2>3, <2>4, <3>1
  <2>6. TypedTo(start, lines, j + 1) = Type(TypedTo(start, lines, j), lines[j + 1])
    BY ONLY <1>1, TypingSteps, j \in 0..(n - 1)
  <2> QED BY <1>8, <2>1, <2>5, <2>6
<1>9. 0..n \subseteq S
  <2> HIDE DEF S
  <2> QED BY <1>1, <1>5, <1>8, TypingLoop!Induction
<1>10. ASSUME NEW j \in 0..n
      PROVE  /\ Run(d, commands, m + j) = TypedTo(start, lines, j)
             /\ Keeps(TypedTo(start, lines, j), d)
  <2>1. Opened \subseteq Devices BY DEF Opened, Devices
  <2> QED BY <1>2, <1>3, <1>4, <1>9, <2>1, TypedAgrees DEF Keeps
<1>11. ASSUME NEW i \in 0..Len(commands) PROVE Keeps(Run(d, commands, i), d)
  <2>1. CASE i \in 0..m BY <1>2, <2>1
  <2>2. CASE i \notin 0..m
    <3>1. i - m \in 0..n /\ m + (i - m) = i BY <1>1, <1>2, <2>2
    <3> QED BY <3>1, <1>10
  <2> QED BY <2>1, <2>2
<1>12. Run(d, commands, Len(commands)) = Typed(start, lines)
  BY <1>1, <1>2, <1>10 DEF Typed
<1> QED BY <1>6, <1>11, <1>12

\* A load: one command types the lines of the file, or those before it stopped.
LEMMA LoadRun ==
    ASSUME NEW d \in Devices, NEW opening, NEW start, Opens(opening, d, start),
           NEW lines \in Seq(Lines), NEW commands, commands = opening \o CopiedIn(lines)
    PROVE  /\ Len(commands) \in Nat
           /\ \A i \in 0..Len(commands) : Keeps(Run(d, commands, i), d)
           /\ Run(d, commands, Len(commands)) = Typed(start, lines)
<1> DEFINE m == Len(opening)
           copy == Command("copy", lines)
           rest == CopiedIn(lines)
<1>1. rest \in Seq(ContentCommands) /\ Len(rest) = 1 /\ rest[1] = copy
  <2>1. copy \in ContentCommands BY DEF ContentCommands
  <2> HIDE DEF copy
  <2>2. rest = <<copy>> BY DEF CopiedIn, copy
  <2> HIDE DEF rest
  <2> QED BY <2>1, <2>2
<1>2. commands = opening \o rest OBVIOUS
<1> HIDE DEF rest, copy
<1>3. /\ m \in 1..2 /\ Len(commands) = m + 1
      /\ \A i \in 1..1 : commands[m + i] = copy
      /\ \A i \in 0..m : Keeps(Run(d, commands, i), d)
      /\ start \in Opened /\ Run(d, commands, m) = start
  <2>1. /\ Len(opening) \in 1..2 /\ Len(opening \o rest) = Len(opening) + Len(rest)
        /\ \A i \in 1..Len(rest) : (opening \o rest)[Len(opening) + i] = rest[i]
        /\ \A i \in 0..Len(opening) : Keeps(Run(d, opening \o rest, i), d)
        /\ start \in Opened /\ Run(d, opening \o rest, Len(opening)) = start
    BY ONLY <1>1, OpeningRun, d \in Devices, Opens(opening, d, start)
  <2> QED BY ONLY <1>1, <1>2, <2>1
<1> HIDE DEF m
<1>4. start.running = d.running /\ start.fallback = d.fallback
  <2>1. m \in 0..m BY <1>3
  <2> QED BY <1>3, <2>1 DEF Keeps
<1>5. Len(commands) \in Nat /\ m \in 0..(Len(commands) - 1) BY <1>3
<1>6. Run(d, commands, m + 1) = Execute(Run(d, commands, m), commands[m + 1])
  <2>1. \A i \in 0..(Len(commands) - 1) : Run(d, commands, i + 1) = Execute(Run(d, commands, i), commands[i + 1])
    BY ONLY <1>5, RunningSteps
  <2> QED BY ONLY <1>5, <2>1
<1>7. Run(d, commands, m + 1) = Typed(start, lines)
  <2>1. commands[m + 1] = copy BY <1>3
  <2>2. Execute(start, copy) = Typed(start, lines) BY ONLY CommandExecuted DEF copy
  <2> QED BY <1>3, <1>6, <2>1, <2>2
<1>8. Keeps(Typed(start, lines), d)
  <2>1. AreFacts(start) BY <1>3 DEF AreFacts, Facts, Opened
  <2>2. Len(lines) \in 0..Len(lines) OBVIOUS
  <2>3. Opened \subseteq Devices BY DEF Opened, Devices
  <2> QED BY <1>3, <1>4, <2>1, <2>2, <2>3, TypedAgrees DEF Keeps, Typed
<1>9. ASSUME NEW i \in 0..Len(commands) PROVE Keeps(Run(d, commands, i), d)
  <2>1. i \in 0..m \/ i = m + 1 BY <1>3
  <2> QED BY <1>3, <1>7, <1>8, <2>1
<1> QED BY <1>3, <1>5, <1>7, <1>9

\* What a push or a load that returned teaches is so: of one with `replace`, and without.
LEMMA ReplacedRight ==
    ASSUME NEW k, NEW d \in Devices, Right(k, d), NEW lines \in Seq(Lines)
    PROVE  Right([k EXCEPT !.pending = Typed(Facts({}, {}, {}), lines).pending],
                 Typed([Enter(d) EXCEPT !.pending = {}], lines))
<1> DEFINE n == Len(lines)
           none == Facts({}, {}, {})
           start == [Enter(d) EXCEPT !.pending = {}]
           a == TypedTo(none, lines, n)
           b == TypedTo(start, lines, n)
<1>1. n \in 0..n OBVIOUS
<1>2. start \in Opened /\ start.pending = {} /\ start.running = d.running /\ start.fallback = d.fallback
  BY EnterAgrees DEF Opened
<1>3. AreFacts(none) /\ none.pending = {} BY DEF AreFacts, Facts
<1> HIDE DEF start, none
<1>4. start \in Opened /\ AreFacts(none) /\ (none.pending # Unknown => start.pending = none.pending)
  BY ONLY <1>2, <1>3
<1>5. /\ b.running = start.running /\ b.fallback = start.fallback
      /\ a.pending # Unknown => b.pending = a.pending
  BY <1>1, <1>4, TypedAgrees
<1> HIDE DEF a, b
<1>6. Right([k EXCEPT !.pending = a.pending], b)
  <2>1. [k EXCEPT !.pending = a.pending] = Facts(a.pending, k.running, k.fallback)
    BY DEF Right, AreFacts, Facts
  <2>2. Right(Facts(a.pending, k.running, k.fallback), b)
    BY <1>2, <1>5 DEF Right, AreFacts, Facts
  <2> QED BY <2>1, <2>2
<1> QED BY <1>6 DEF Typed, a, b, start, none, n

LEMMA TypedRight ==
    ASSUME NEW k, NEW d \in Devices, Right(k, d), NEW lines \in Seq(Lines)
    PROVE  Right(Typed(Enter(k), lines), Typed(Enter(d), lines))
<1> DEFINE n == Len(lines)
           a == TypedTo(Enter(k), lines, n)
           b == TypedTo(Enter(d), lines, n)
<1>1. n \in 0..n OBVIOUS
<1>2. Enter(d) \in Opened /\ Right(Enter(k), Enter(d)) BY EnterAgrees
<1>3. /\ AreFacts(a) /\ a.running = Enter(k).running /\ a.fallback = Enter(k).fallback
      /\ b.running = Enter(d).running /\ b.fallback = Enter(d).fallback
      /\ a.pending # Unknown => b.pending = a.pending
  BY <1>1, <1>2, TypedAgrees DEF Right
<1> HIDE DEF a, b
<1>4. Right(a, b) BY <1>2, <1>3 DEF Right
<1> QED BY <1>4 DEF Typed, a, b, n

-----------------------------------------------------------------------------
(* The steps *)

\* The device ran the first `ran` commands; the method returns only if these were all.
Ran(commands, ran) ==
    /\ ran \in 0..Len(commands)
    /\ pending' = Run(Device, commands, ran).pending
    /\ running' = Run(Device, commands, ran).running
    /\ fallback' = Run(Device, commands, ran).fallback
    /\ ~raised' => ran = Len(commands)

LEMMA RequestRan ==
    ASSUME NEW commands, NEW well \in BOOLEAN, Request(commands, well)
    PROVE  /\ \E ran : Ran(commands, ran)
           /\ raised' \in BOOLEAN
           /\ ~raised' => well
BY DEF Request, Ran, Device

\* A device that ran commands which kept it a device is what they made of it.
LEMMA DeviceRan ==
    ASSUME NEW commands, NEW ran, Ran(commands, ran), Run(Device, commands, ran) \in Devices
    PROVE  Device' = Run(Device, commands, ran)
BY DEF Ran, Devices, Device, Facts

\* A push or a load: whatever was lost or cut off, the running configuration and the
\* timer are as before; one that returned has typed everything.
LEMMA ContentKeeps ==
    ASSUME SessionIInv, NEW commands, NEW ran, Ran(commands, ran),
           \A i \in 0..Len(commands) : Keeps(Run(Device, commands, i), Device),
           raised' \in BOOLEAN,
           raised' => known' = [known EXCEPT !.pending = Unknown],
           ~raised' => Right(known', Run(Device, commands, Len(commands)))
    PROVE  SessionIInv'
<1>1. Keeps(Run(Device, commands, ran), Device) BY DEF Ran
<1>2. Device' = Run(Device, commands, ran) BY <1>1, DeviceRan DEF Keeps
<1>3. Device' \in Devices /\ Device'.running = Device.running /\ Device'.fallback = Device.fallback
  BY <1>1, <1>2 DEF Keeps
<1>4. CASE raised'
  <2>1. known' = Facts(Unknown, known.running, known.fallback)
    BY <1>4 DEF SessionIInv, Right, AreFacts, Facts
  <2>2. Right(known', Device') BY <1>3, <2>1 DEF SessionIInv, Right, AreFacts, Facts
  <2> QED BY <1>3, <2>2 DEF SessionIInv
<1>5. CASE ~raised'
  <2>1. ran = Len(commands) BY <1>5 DEF Ran
  <2> QED BY <1>2, <1>3, <1>5, <2>1 DEF SessionIInv
<1> QED BY <1>4, <1>5

LEMMA OpeningOpens ==
    /\ \A d : Opens(Opening(TRUE), d, [Enter(d) EXCEPT !.pending = {}])
    /\ \A d : Opens(Opening(FALSE), d, Enter(d))
BY DEF Opens, Opening, EnterCommand, CleanCommand

LEMMA PushKeeps ==
    ASSUME SessionIInv, NEW content \in Contents, NEW replace \in BOOLEAN, Push(content, replace)
    PROVE  SessionIInv'
<1> DEFINE lines == Filled(content)
           commands == PushCommands(content, replace)
<1>1. lines \in Seq(Lines) BY FilledLines
<1>2. Device \in Devices /\ Right(known, Device) BY DEF SessionIInv
<1>3. /\ \E ran : Ran(commands, ran)
      /\ raised' \in BOOLEAN
  <2>1. Request(commands, TRUE) BY DEF Push
  <2> QED BY <2>1, RequestRan
<1>4. PICK ran : Ran(commands, ran) BY <1>3
<1>5. raised' => known' = [known EXCEPT !.pending = Unknown] BY DEF Push, Learn
<1>6. CASE replace
  <2> DEFINE opening == Opening(TRUE)
             start == [Enter(Device) EXCEPT !.pending = {}]
  <2>1. commands = opening \o TypedIn(lines) BY <1>6 DEF PushCommands
  <2>2. Opens(opening, Device, start) BY OpeningOpens
  <2>3. ~raised' => known' = [known EXCEPT !.pending = Typed(Facts({}, {}, {}), lines).pending]
    BY <1>6 DEF Push, Learn
  <2>4. Right([known EXCEPT !.pending = Typed(Facts({}, {}, {}), lines).pending], Typed(start, lines))
    BY <1>1, <1>2, ReplacedRight
  <2> HIDE DEF commands, opening, start, lines
  <2>5. /\ \A i \in 0..Len(commands) : Keeps(Run(Device, commands, i), Device)
        /\ Run(Device, commands, Len(commands)) = Typed(start, lines)
    BY <1>1, <1>2, <2>1, <2>2, PushRun, ZenonT(60)
  <2>6. ~raised' => Right(known', Run(Device, commands, Len(commands)))
    BY <2>3, <2>4, <2>5
  <2> QED BY <1>3, <1>4, <1>5, <2>5, <2>6, ContentKeeps
<1>7. CASE ~replace
  <2> DEFINE opening == Opening(FALSE)
             start == Enter(Device)
  <2>1. commands = opening \o TypedIn(lines) BY <1>7 DEF PushCommands
  <2>2. Opens(opening, Device, start) BY OpeningOpens
  <2>3. ~raised' => known' = Typed(Enter(known), lines)
    BY <1>7 DEF Push, Learn
  <2>4. Right(Typed(Enter(known), lines), Typed(start, lines))
    BY <1>1, <1>2, TypedRight
  <2> HIDE DEF commands, opening, start, lines
  <2>5. /\ \A i \in 0..Len(commands) : Keeps(Run(Device, commands, i), Device)
        /\ Run(Device, commands, Len(commands)) = Typed(start, lines)
    BY <1>1, <1>2, <2>1, <2>2, PushRun, ZenonT(60)
  <2>6. ~raised' => Right(known', Run(Device, commands, Len(commands)))
    BY <2>3, <2>4, <2>5
  <2> QED BY <1>3, <1>4, <1>5, <2>5, <2>6, ContentKeeps
<1> QED BY <1>6, <1>7

LEMMA LoadKeeps ==
    ASSUME SessionIInv, NEW file \in Contents, NEW replace \in BOOLEAN, LoadFile(file, replace),
           \A i \in DOMAIN file : file[i] # Empty
    PROVE  SessionIInv'
<1>1. file \in Seq(Lines)
  <2>1. file \in Seq(Range(file)) BY ConfigAssumption
  <2>2. \A i \in DOMAIN file : file[i] \in Lines BY <2>1 DEF Lines, Range
  <2> QED BY <2>1, <2>2
<1>2. Device \in Devices /\ Right(known, Device) BY DEF SessionIInv
<1>3. PICK n \in 0..Len(file) : Request(LoadCommands(SubSeq(file, 1, n), replace), n = Len(file))
  BY DEF LoadFile
<1> DEFINE lines == SubSeq(file, 1, n)
           commands == LoadCommands(lines, replace)
           well == n = Len(file)
<1>4. lines \in Seq(Lines) /\ (n = Len(file) => lines = file)
  BY <1>1
<1>5. (\E ran : Ran(commands, ran)) /\ raised' \in BOOLEAN /\ (~raised' => n = Len(file))
  <2>1. well \in BOOLEAN /\ Request(commands, well) BY <1>3
  <2> HIDE DEF commands, well
  <2>2. (\E ran : Ran(commands, ran)) /\ raised' \in BOOLEAN /\ (~raised' => well)
    BY <2>1, RequestRan
  <2> QED BY <2>2 DEF well
<1>6. PICK ran : Ran(commands, ran) BY <1>5
<1>7. raised' => known' = [known EXCEPT !.pending = Unknown] BY DEF LoadFile, Learn
<1>8. CASE replace
  <2> DEFINE opening == Opening(TRUE)
             start == [Enter(Device) EXCEPT !.pending = {}]
  <2>1. commands = opening \o CopiedIn(lines) BY <1>8 DEF LoadCommands, CopiedIn
  <2>2. Opens(opening, Device, start) BY OpeningOpens
  <2>3. ~raised' => known' = [known EXCEPT !.pending = Typed(Facts({}, {}, {}), lines).pending]
    BY <1>4, <1>5, <1>8 DEF LoadFile, Learn
  <2>4. Right([known EXCEPT !.pending = Typed(Facts({}, {}, {}), lines).pending], Typed(start, lines))
    BY <1>2, <1>4, ReplacedRight
  <2> HIDE DEF commands, opening, start, lines
  <2>5. /\ \A i \in 0..Len(commands) : Keeps(Run(Device, commands, i), Device)
        /\ Run(Device, commands, Len(commands)) = Typed(start, lines)
    <3>1. lines \in Seq(Lines) BY <1>4
    <3> QED BY ONLY <1>2, <2>1, <2>2, <3>1, LoadRun, ZenonT(60)
  <2>6. ~raised' => Right(known', Run(Device, commands, Len(commands)))
    BY <2>3, <2>4, <2>5
  <2> QED BY <1>5, <1>6, <1>7, <2>5, <2>6, ContentKeeps
<1>9. CASE ~replace
  <2> DEFINE opening == Opening(FALSE)
             start == Enter(Device)
  <2>1. commands = opening \o CopiedIn(lines) BY <1>9 DEF LoadCommands, CopiedIn
  <2>2. Opens(opening, Device, start) BY OpeningOpens
  <2>3. ~raised' => known' = Typed(Enter(known), lines)
    BY <1>4, <1>5, <1>9 DEF LoadFile, Learn
  <2>4. Right(Typed(Enter(known), lines), Typed(start, lines))
    BY <1>2, <1>4, TypedRight
  <2> HIDE DEF commands, opening, start, lines
  <2>5. /\ \A i \in 0..Len(commands) : Keeps(Run(Device, commands, i), Device)
        /\ Run(Device, commands, Len(commands)) = Typed(start, lines)
    <3>1. lines \in Seq(Lines) BY <1>4
    <3> QED BY ONLY <1>2, <2>1, <2>2, <3>1, LoadRun, ZenonT(60)
  <2>6. ~raised' => Right(known', Run(Device, commands, Len(commands)))
    BY <2>3, <2>4, <2>5
  <2> QED BY <1>5, <1>6, <1>7, <2>5, <2>6, ContentKeeps
<1> QED BY <1>8, <1>9

\* A request of one command: it was run or it was not.
LEMMA OneCommandRan ==
    ASSUME NEW c, NEW ran, Ran(<<c>>, ran), Device \in Devices, Execute(Device, c) \in Devices
    PROVE  /\ Device' \in {Device, Execute(Device, c)}
           /\ ~raised' => Device' = Execute(Device, c)
<1> DEFINE commands == <<c>>
<1>1. Len(commands) = 1 /\ commands[1] = c OBVIOUS
<1> HIDE DEF commands
<1>2. Ran(commands, ran) BY DEF commands
<1>3. Run(Device, commands, 0) = Device /\ Run(Device, commands, 1) = Execute(Device, c)
  <2>1. Len(commands) \in Nat /\ 0 \in 0..(Len(commands) - 1) BY <1>1
  <2>2. /\ Run(Device, commands, 0) = Device
        /\ \A i \in 0..(Len(commands) - 1) :
               Run(Device, commands, i + 1) = Execute(Run(Device, commands, i), commands[i + 1])
    BY ONLY <2>1, RunningSteps
  <2>3. Run(Device, commands, 1) = Execute(Run(Device, commands, 0), commands[1])
    BY ONLY <2>1, <2>2
  <2> QED BY ONLY <1>1, <2>2, <2>3
<1>4. ran = 0 \/ ran = 1 BY <1>1, <1>2 DEF Ran
<1>5. Run(Device, commands, ran) \in Devices BY <1>3, <1>4
<1>6. Device' = Run(Device, commands, ran) BY <1>2, <1>5, DeviceRan
<1>7. ~raised' => ran = 1 BY <1>1, <1>2 DEF Ran
<1> QED BY <1>3, <1>4, <1>6, <1>7

LEMMA CommitKeeps ==
    ASSUME SessionIInv, NEW timer \in BOOLEAN, CommitSession(timer)
    PROVE  SessionIInv'
<1> DEFINE c == Command("commit", timer)
<1>1. Device \in Devices /\ Right(known, Device) BY DEF SessionIInv
<1>2. (\E ran : Ran(<<c>>, ran)) /\ raised' \in BOOLEAN
  <2>1. Request(<<c>>, TRUE) BY DEF CommitSession
  <2> QED BY <2>1, RequestRan
<1>3. PICK ran : Ran(<<c>>, ran) BY <1>2
<1>4. Execute(Device, c) = Commit(Device, timer) BY CommandExecuted
<1>5. Commit(Device, timer) \in Devices BY <1>1 DEF Commit, Devices, Facts
<1> HIDE DEF c
<1>6. Device' \in Devices /\ (~raised' => Device' = Commit(Device, timer))
  BY <1>1, <1>3, <1>4, <1>5, OneCommandRan
<1>7. Right(known', Device')
  <2>1. CASE raised'
    <3>1. known' = Facts(Unknown, Unknown, Unknown) BY <2>1 DEF CommitSession
    <3> QED BY <3>1 DEF Right, AreFacts, Facts
  <2>2. CASE ~raised' /\ known.pending = Unknown
    <3>1. known' = Facts(Nothing, Unknown, Unknown) BY <2>2 DEF CommitSession
    <3>2. Commit(Device, timer).pending = Nothing BY <1>1 DEF Commit, Devices, Facts
    <3> QED BY <1>6, <2>2, <3>1, <3>2 DEF Right, AreFacts, Facts
  <2>3. CASE ~raised' /\ known.pending # Unknown
    <3>1. known' = Commit(known, timer) BY <2>3 DEF CommitSession
    <3>2. Device' = Commit(Device, timer) BY <1>6, <2>3
    <3>3. CASE known.pending = Nothing
      <4>1. known' = Facts(Nothing, known.running, Nothing)
        BY <1>1, <3>1, <3>3 DEF Commit, Right, AreFacts, Facts
      <4>2. Device' = [Device EXCEPT !.fallback = Nothing]
        BY <1>1, <2>3, <3>2, <3>3 DEF Commit, Right
      <4> QED BY <1>1, <2>3, <3>3, <4>1, <4>2 DEF Right, AreFacts, Facts, Devices
    <3>4. CASE known.pending # Nothing
      <4>1. known' = Facts(Nothing, known.pending, IF timer THEN known.running ELSE Nothing)
        BY <3>1, <3>4 DEF Commit
      <4>2. Device' = Facts(Nothing, Device.pending, IF timer THEN Device.running ELSE Nothing)
        BY <1>1, <2>3, <3>2, <3>4 DEF Commit, Right
      <4> QED BY <1>1, <2>3, <4>1, <4>2 DEF Right, AreFacts, Facts
    <3> QED BY <3>3, <3>4
  <2> QED BY <1>2, <2>1, <2>2, <2>3
<1> QED BY <1>6, <1>7 DEF SessionIInv

LEMMA AbortKeeps ==
    ASSUME SessionIInv, AbortSession
    PROVE  SessionIInv'
<1> DEFINE c == Command("abort", Nothing)
<1>1. Device \in Devices /\ Right(known, Device) BY DEF SessionIInv
<1>2. (\E ran : Ran(<<c>>, ran)) /\ raised' \in BOOLEAN
  <2>1. Request(<<c>>, TRUE) BY DEF AbortSession
  <2> QED BY <2>1, RequestRan
<1>3. PICK ran : Ran(<<c>>, ran) BY <1>2
<1>4. Execute(Device, c) = Abort(Device) BY CommandExecuted
<1>5. Abort(Device) \in Devices BY <1>1 DEF Abort, Devices, Facts
<1> HIDE DEF c
<1>6. Device' \in {Device, Abort(Device)} /\ (~raised' => Device' = Abort(Device))
  BY <1>1, <1>3, <1>4, <1>5, OneCommandRan
<1>7. Right(known', Device')
  <2>1. CASE ~raised'
    <3>1. known' = Abort(known) /\ Device' = Abort(Device) BY <1>6, <2>1 DEF AbortSession
    <3>2. /\ Abort(Device).pending = Nothing
          /\ Abort(Device).fallback = Nothing
          /\ Abort(Device).running = IF Device.fallback = Nothing THEN Device.running ELSE Device.fallback
      BY <1>1 DEF Abort, Devices, Facts
    <3>3. Abort(known) = Facts(Nothing, IF known.fallback = Nothing THEN known.running ELSE known.fallback, Nothing)
      BY <1>1 DEF Abort, Right, AreFacts, Facts
    <3>4. known' = Facts(known'.pending, known'.running, known'.fallback)
      BY <3>1, <3>3 DEF Facts
    <3>5. /\ known'.pending = Nothing /\ known'.fallback = Nothing
          /\ known'.running = IF known.fallback = Nothing THEN known.running ELSE known.fallback
      BY <3>1, <3>3 DEF Facts
    <3>6. known'.running # Unknown => Device'.running = known'.running
      <4>1. CASE known.fallback = Unknown BY <3>5, <4>1, ConfigAssumption
      <4>2. CASE known.fallback # Unknown
        <5>1. Device.fallback = known.fallback BY <1>1, <4>2 DEF Right
        <5> QED BY <1>1, <3>1, <3>2, <3>5, <5>1 DEF Right
      <4> QED BY <4>1, <4>2
    <3> QED BY <3>1, <3>2, <3>4, <3>5, <3>6 DEF Right, AreFacts
  <2>2. CASE raised' /\ known.fallback = Nothing
    <3>1. known' = Facts(Unknown, known.running, known.fallback)
      BY <1>1, <2>2 DEF AbortSession, Right, AreFacts, Facts
    <3>2. Device.fallback = Nothing BY <1>1, <2>2, ConfigAssumption DEF Right
    <3>3. Device'.running = Device.running /\ Device'.fallback = Device.fallback
      BY <1>1, <1>6, <3>2 DEF Abort, Devices
    <3> QED BY <1>1, <3>1, <3>3 DEF Right, AreFacts, Facts
  <2>3. CASE raised' /\ known.fallback # Nothing
    <3>1. known' = Facts(Unknown, Unknown, Unknown) BY <2>3 DEF AbortSession
    <3> QED BY <3>1 DEF Right, AreFacts, Facts
  <2> QED BY <1>2, <2>1, <2>2, <2>3
<1> QED BY <1>1, <1>5, <1>6, <1>7 DEF SessionIInv

LEMMA OtherKeeps ==
    ASSUME SessionIInv, Status \/ Write \/ TimerExpires \/ UNCHANGED sessionVars
    PROVE  SessionIInv'
<1>1. CASE Status
  BY <1>1, ConfigAssumption DEF Status, StatusOf, SessionIInv, Right, AreFacts, Device, Devices, Facts
<1>2. CASE Write
  BY <1>2 DEF Write, SessionIInv, Right, AreFacts, Device, Devices, Facts
<1>3. CASE TimerExpires
  BY <1>3 DEF TimerExpires, SessionIInv, Right, AreFacts, Device, Devices, Facts
<1>4. CASE UNCHANGED sessionVars
  BY <1>4 DEF sessionVars, SessionIInv, Right, AreFacts, Device, Devices, Facts
<1> QED BY <1>1, <1>2, <1>3, <1>4

\* The inductive invariant.
THEOREM SessionInvariance == SessionSpec => []SessionIInv
<1>1. SessionInit => SessionIInv
  BY ConfigAssumption DEF SessionInit, SessionIInv, Right, AreFacts, Device, Devices, Facts
<1>2. SessionIInv /\ [SessionNext]_sessionVars => SessionIInv'
  BY PushKeeps, LoadKeeps, CommitKeeps, AbortKeeps, OtherKeeps DEF SessionNext
<1> QED BY <1>1, <1>2, PTL DEF SessionSpec

\* Whatever was lost, cut off or refused, the caller is right about the session.
THEOREM SessionIntended == SessionSpec => []SessionIsIntended
<1>1. SessionIInv => SessionIsIntended BY DEF SessionIInv, Right, Device, Facts, SessionIsIntended
<1> QED BY <1>1, SessionInvariance, PTL

-----------------------------------------------------------------------------
(* An answer *)

\* The first of the commands that fail.
LEMMA FirstFails ==
    ASSUME NEW n \in Nat, NEW bad \in SUBSET (1..n), bad # {}
    PROVE  Min(bad) \in bad /\ \A k \in bad : Min(bad) <= k
<1>1. bad \in SUBSET Nat OBVIOUS
<1>2. \E m \in bad : \A k \in bad : m <= k BY ONLY <1>1, bad # {}, TypingLoop!LeastNatural
<1> QED BY <1>2 DEF Min

\* What is asked, and the answers to it: of a device that stops at the first command that
\* fails, and of one that does what the request says.
Stopped == AnswerOf(Len(asked.request), asked.bad, TRUE, asked.nodata)
Served == AnswerOf(Len(asked.request), asked.bad, asked.stop, asked.nodata)

LEMMA AskedTyped ==
    ASSUME asked \in Asked
    PROVE  /\ asked.request \in Seq(Range(asked.request)) /\ Len(asked.request) \in Nat
           /\ DOMAIN asked.request = 1..Len(asked.request)
           /\ asked.bad \in SUBSET (1..Len(asked.request))
           /\ asked.stop \in BOOLEAN /\ asked.nodata \in BOOLEAN /\ asked.suppress \in BOOLEAN
           /\ asked.bad # {} => Min(asked.bad) \in asked.bad /\ \A k \in asked.bad : Min(asked.bad) <= k
<1>1. PICK r \in Requests : asked \in [request : {r}, bad : SUBSET (1..Len(r)), stop : BOOLEAN,
                    nodata : BOOLEAN, suppress : BOOLEAN, details : SUBSET Details]
  BY DEF Asked
<1>2. asked.request \in Requests /\ asked.bad \in SUBSET (1..Len(asked.request)) BY <1>1
<1>3. asked.request \in Seq(Range(asked.request)) BY <1>2, ClientAssumption
<1>4. Len(asked.request) \in Nat /\ DOMAIN asked.request = 1..Len(asked.request) BY <1>3
<1>5. asked.bad # {} => Min(asked.bad) \in asked.bad /\ \A k \in asked.bad : Min(asked.bad) <= k
  BY ONLY <1>2, <1>4, FirstFails
<1> QED BY <1>1, <1>2, <1>3, <1>4, <1>5

\* The data of an answer.
LEMMA StoppedData ==
    ASSUME asked \in Asked
    PROVE  /\ Stopped.error <=> asked.bad # {} \/ asked.nodata
           /\ asked.nodata => Len(Stopped.data) = 0
           /\ ~asked.nodata /\ asked.bad # {} => Len(Stopped.data) = Min(asked.bad)
           /\ ~asked.nodata /\ asked.bad = {} => Len(Stopped.data) = Len(asked.request)
<1> DEFINE n == IF asked.bad # {} THEN Min(asked.bad) ELSE Len(asked.request)
           data == [i \in 1..n |-> IF i \in asked.bad THEN "errors" ELSE "output"]
<1>1. n \in Nat BY AskedTyped
<1>2. Stopped = [error |-> asked.bad # {} \/ asked.nodata,
                data |-> IF asked.nodata THEN <<>> ELSE data]
  BY DEF Stopped, AnswerOf
<1> HIDE DEF n
<1>3. Len(data) = n BY <1>1
<1> HIDE DEF data
<1>4. CASE asked.nodata BY <1>2, <1>4
<1>5. CASE ~asked.nodata BY <1>2, <1>3, <1>5 DEF n
<1> QED BY <1>4, <1>5

LEMMA ServedData ==
    ASSUME asked \in Asked
    PROVE  /\ Served.error <=> asked.bad # {} \/ asked.nodata
           /\ Len(Served.data) = IF asked.nodata THEN 0
                                 ELSE IF asked.stop /\ asked.bad # {} THEN Min(asked.bad)
                                 ELSE Len(asked.request)
           /\ Len(Served.data) \in 0..Len(asked.request)
           /\ \A i \in 1..Len(Served.data) :
                Served.data[i] = IF i \in asked.bad THEN "errors" ELSE "output"
<1>1. CASE asked.nodata
  <2>1. Served = [error |-> asked.bad # {} \/ asked.nodata, data |-> <<>>]
    BY <1>1 DEF Served, AnswerOf
  <2>2. Len(Served.data) = 0 /\ (Served.error <=> asked.bad # {} \/ asked.nodata) BY <2>1
  <2>3. 0 \in 0..Len(asked.request) /\ 1..0 = {} BY AskedTyped
  <2> QED BY <1>1, <2>2, <2>3
<1>2. CASE ~asked.nodata
  <2> DEFINE n == IF asked.stop /\ asked.bad # {} THEN Min(asked.bad) ELSE Len(asked.request)
  <2>1. n \in 0..Len(asked.request) BY AskedTyped
  <2>2. Served = [error |-> asked.bad # {} \/ asked.nodata,
                  data |-> [i \in 1..n |-> IF i \in asked.bad THEN "errors" ELSE "output"]]
    BY <1>2 DEF Served, AnswerOf
  <2> HIDE DEF n
  <2>3. Len(Served.data) = n BY <2>1, <2>2
  <2> QED BY <1>2, <2>1, <2>2, <2>3 DEF n
<1> QED BY <1>1, <1>2

\* jsonrpc_exec and cli: the cases of AnswerIsAccounted.
LEMMA CliAccounts ==
    ASSUME asked \in Asked
    PROVE  LET r == asked.request
               cli == Cli(r, Stopped, asked.suppress)
           IN  /\ cli.raised = "RuntimeError" <=> r = <<>>
               /\ ~asked.nodata =>
                    /\ cli.raised = "EapiCommandError" <=> asked.bad # {} /\ ~asked.suppress
                    /\ cli.raised = Absent <=> r # <<>> /\ (asked.bad = {} \/ asked.suppress)
                    /\ cli.raised = "EapiCommandError" =>
                         /\ cli.failed = r[Min(asked.bad)]
                         /\ Len(cli.passed) + 1 + Len(cli.not_exec) = Len(r)
                         /\ cli.not_exec = SubSeq(r, Min(asked.bad) + 1, Len(r))
                    /\ cli.raised = Absent /\ asked.bad = {} => cli.passed = [i \in 1..Len(r) |-> i]
               /\ asked.nodata => cli.raised # Absent
<1> DEFINE r == asked.request
           cli == Cli(r, Stopped, asked.suppress)
           m == Min(asked.bad)
<1> USE ClientAssumption
<1>1. CASE r = <<>>
  <2>1. asked.bad = {} BY <1>1, AskedTyped
  <2>2. cli = [Returned(<<>>) EXCEPT !.raised = "RuntimeError"] BY <1>1 DEF Cli
  <2>3. cli.raised = "RuntimeError" BY <2>2 DEF Returned
  <2> QED BY <1>1, <2>1, <2>3
<1>2. CASE r # <<>> /\ asked.nodata
  <2>1. JsonRpcExec(r, Stopped) = [Returned(<<>>) EXCEPT !.raised = "IndexError"]
    BY <1>2, StoppedData DEF JsonRpcExec, ErrorAt
  <2>2. cli.raised = "IndexError" BY <1>2, <2>1 DEF Cli, Returned
  <2> QED BY <1>2, <2>2
<1>3. CASE r # <<>> /\ ~asked.nodata /\ asked.bad # {}
  <2>1. m \in 1..Len(r) /\ Len(r) \in Nat /\ r \in Seq(Range(r)) BY <1>3, AskedTyped
  <2>2. JsonRpcExec(r, Stopped) =
          [raised |-> "EapiCommandError", passed |-> [i \in 1..(m - 1) |-> i],
           failed |-> r[m], not_exec |-> SubSeq(r, m + 1, Len(r))]
    <3>1. Stopped.error /\ Len(Stopped.data) = m BY <1>3, StoppedData
    <3>2. m # 0 BY <2>1
    <3> QED BY <3>1, <3>2 DEF JsonRpcExec, ErrorAt
  <2>3. CASE asked.suppress
    <3>1. cli.raised = Absent BY <1>3, <2>2, <2>3 DEF Cli, Returned
    <3> QED BY <1>3, <2>3, <3>1
  <2>4. CASE ~asked.suppress
    <3> DEFINE passed == [i \in 1..(m - 1) |-> i]
               rest == SubSeq(r, m + 1, Len(r))
    <3>1. cli = JsonRpcExec(r, Stopped) BY <1>3, <2>4 DEF Cli
    <3>2. Len(passed) = m - 1 /\ Len(rest) = Len(r) - m BY <2>1
    <3> HIDE DEF passed, rest
    <3>3. /\ cli.raised = "EapiCommandError" /\ cli.failed = r[m]
          /\ cli.passed = passed /\ cli.not_exec = rest
      <4>1. cli = [raised |-> "EapiCommandError", passed |-> passed, failed |-> r[m], not_exec |-> rest]
        BY <2>2, <3>1 DEF passed, rest
      <4> HIDE DEF cli
      <4> QED BY <4>1
    <3>4. Len(passed) + 1 + Len(rest) = Len(r) BY <2>1, <3>2
    <3> QED BY <1>3, <2>4, <3>3, <3>4 DEF rest
  <2> QED BY <2>3, <2>4, AskedTyped
<1>4. CASE r # <<>> /\ ~asked.nodata /\ asked.bad = {}
  <2>1. JsonRpcExec(r, Stopped) = Returned([i \in 1..Len(r) |-> i])
    BY <1>4, StoppedData DEF JsonRpcExec
  <2>2. cli.raised = Absent /\ cli.passed = [i \in 1..Len(r) |-> i] BY <1>4, <2>1 DEF Cli, Returned
  <2> QED BY <1>4, <2>2
<1> QED BY <1>1, <1>2, <1>3, <1>4

\* from_jsonrpc: the commands it shows, and what it says of each.
LEMMA ResponseAccounts ==
    ASSUME asked \in Asked
    PROVE  LET r == asked.request
               res == FromJsonRpc(r, Served, asked.stop)
           IN  /\ asked.stop \/ ~asked.nodata => DOMAIN res = DOMAIN r
               /\ \A i \in DOMAIN res :
                    /\ res[i].success <=> res[i].executed /\ i \notin asked.bad
                    /\ res[i].executed =>
                         ~asked.nodata /\ (asked.stop => \A j \in asked.bad : i <= j)
<1> DEFINE r == asked.request
           count == Len(Served.data)
           shown == IF NotExecuted(Served, asked.stop) THEN Len(r) ELSE count
           res == FromJsonRpc(r, Served, asked.stop)
<1>1. count \in Nat /\ count <= Len(r) /\ Len(r) \in Nat BY ServedData, AskedTyped
<1>2. Min({count, Len(r)}) = count BY <1>1 DEF Min
<1>3. res = [i \in 1..shown |-> IF i <= count THEN Executed(i, Served) ELSE Skipped]
  BY <1>2 DEF FromJsonRpc
<1>4. asked.stop \/ ~asked.nodata => shown = Len(r)
  BY ServedData, AskedTyped DEF NotExecuted
<1>5. asked.stop \/ ~asked.nodata => DOMAIN res = DOMAIN r BY <1>3, <1>4, AskedTyped
<1>6. ASSUME NEW i \in DOMAIN res
      PROVE  /\ res[i].success <=> res[i].executed /\ i \notin asked.bad
             /\ res[i].executed => ~asked.nodata /\ (asked.stop => \A j \in asked.bad : i <= j)
  <2>1. i \in 1..shown /\ shown \in Nat BY <1>1, <1>3
  <2>2. CASE i <= count
    <3>1. res[i] = Executed(i, Served) BY <1>3, <2>1, <2>2
    <3>2. res[i].executed = TRUE /\ (res[i].success <=> Served.data[i] # "errors")
      <4>1. /\ Executed(i, Served).executed = TRUE
            /\ Executed(i, Served).success = (Served.data[i] # "errors")
        BY DEF Executed
      <4> HIDE DEF res
      <4> QED BY <3>1, <4>1
    <3>3. i \in 1..count BY <1>1, <2>1, <2>2
    <3>4. Served.data[i] = IF i \in asked.bad THEN "errors" ELSE "output" BY <3>3, ServedData
    <3>5. ~asked.nodata /\ (asked.stop => \A j \in asked.bad : i <= j)
      BY <3>3, ServedData, AskedTyped
    <3> QED BY <3>2, <3>4, <3>5
  <2>3. CASE ~(i <= count)
    <3>1. res[i] = Skipped BY <1>3, <2>1, <2>3
    <3>2. res[i].executed = FALSE /\ res[i].success = FALSE BY <3>1 DEF Skipped
    <3> QED BY <3>2
  <2> QED BY <2>2, <2>3
<1> QED BY <1>5, <1>6

\* _collect: a test has the output of its command, or errors.
LEMMA CollectAccounts ==
    ASSUME asked \in Asked, OfATest(asked.request)
    PROVE  LET r == asked.request
               c == Collect(Len(r) = 2, r[Len(r)], Stopped, asked.details)
           IN  /\ c.output = IF asked.bad # {} \/ asked.nodata THEN Absent ELSE r[Len(r)]
               /\ c.errors # {} <=> asked.bad # {} /\ ~asked.nodata
               /\ c.raised <=> asked.nodata
               /\ "" \notin c.errors
<1> DEFINE r == asked.request
           n == Len(r)
           res == Cli(r, Stopped, FALSE)
           c == Collect(n = 2, r[n], Stopped, asked.details)
           m == Min(asked.bad)
<1> USE ClientAssumption
<1>1. n \in 1..2 /\ r # <<>> /\ r \in Seq(Range(r)) /\ n \in Nat BY AskedTyped DEF OfATest
<1>2. Commands(n = 2, r[n]) = r
  <2>1. CASE n = 1
    <3>1. r = <<r[1]>> BY <1>1, <2>1
    <3> QED BY <2>1, <3>1 DEF Commands
  <2>2. CASE n = 2
    <3>1. r[1] = "enable" BY <2>2 DEF OfATest
    <3>2. r = <<r[1], r[2]>> BY <1>1, <2>2
    <3> QED BY <2>2, <3>1, <3>2 DEF Commands
  <2> QED BY <1>1, <2>1, <2>2
<1>3. c = IF res.raised = "EapiCommandError"
          THEN [output |-> Absent, errors |-> ErrorsOf(asked.details), raised |-> FALSE]
          ELSE IF res.raised # Absent THEN [output |-> Absent, errors |-> {}, raised |-> TRUE]
          ELSE [output |-> r[Collected(res)], errors |-> {}, raised |-> FALSE]
  BY <1>2 DEF Collect
<1>4. CASE asked.nodata
  <2>1. JsonRpcExec(r, Stopped) = [Returned(<<>>) EXCEPT !.raised = "IndexError"]
    BY <1>4, StoppedData DEF JsonRpcExec, ErrorAt
  <2>2. res.raised = "IndexError" BY <1>1, <2>1 DEF Cli, Returned
  <2>3. c = [output |-> Absent, errors |-> {}, raised |-> TRUE] BY <1>3, <2>2
  <2>4. c.output = Absent /\ c.errors = {} /\ c.raised = TRUE
    <3> HIDE DEF c
    <3> QED BY <2>3
  <2> QED BY <1>4, <2>4
<1>5. CASE ~asked.nodata /\ asked.bad # {}
  <2>1. m \in 1..n BY <1>5, AskedTyped
  <2>2. JsonRpcExec(r, Stopped).raised = "EapiCommandError"
    BY <1>5, <2>1, StoppedData DEF JsonRpcExec, ErrorAt
  <2>3. res.raised = "EapiCommandError" BY <1>1, <2>2 DEF Cli
  <2>4. c.output = Absent /\ c.errors = ErrorsOf(asked.details) /\ c.raised = FALSE
    <3>1. c = [output |-> Absent, errors |-> ErrorsOf(asked.details), raised |-> FALSE] BY <1>3, <2>3
    <3> HIDE DEF c
    <3> QED BY <3>1
  <2>5. ErrorsOf(asked.details) # {} /\ "" \notin ErrorsOf(asked.details) BY DEF ErrorsOf
  <2> QED BY <1>5, <2>4, <2>5
<1>6. CASE ~asked.nodata /\ asked.bad = {}
  <2>1. JsonRpcExec(r, Stopped) = Returned([i \in 1..n |-> i])
    BY <1>6, StoppedData DEF JsonRpcExec
  <2>2. res.raised = Absent /\ res.passed = [i \in 1..n |-> i] BY <1>1, <2>1 DEF Cli, Returned
  <2>3. Collected(res) = n
    <3>1. \A k \in 1..2 : Len([i \in 1..k |-> i]) = k /\ [i \in 1..k |-> i][k] = k OBVIOUS
    <3> QED BY <1>1, <2>2, <3>1 DEF Collected
  <2>4. c = [output |-> r[n], errors |-> {}, raised |-> FALSE] BY <1>3, <2>2, <2>3
  <2>5. c.output = r[n] /\ c.errors = {} /\ c.raised = FALSE
    <3> HIDE DEF c
    <3> QED BY <2>4
  <2> QED BY <1>6, <2>5
<1> QED BY <1>4, <1>5, <1>6

ClientIInv == asked \in Asked /\ (made = Absent \/ made = Handled(asked))

\* One request, whichever it is and whatever of it fails.
THEOREM AnswersAccounted == ClientSpec => []AnswerIsAccounted
<1>1. ClientInit => ClientIInv BY DEF ClientInit, ClientIInv
<1>2. ClientIInv /\ [Handle]_clientVars => ClientIInv' BY DEF ClientIInv, Handle, clientVars
<1>3. ClientIInv => AnswerIsAccounted
  <2> SUFFICES ASSUME asked \in Asked, made = Handled(asked) PROVE AnswerIsAccounted
    BY DEF ClientIInv, AnswerIsAccounted
  <2> DEFINE r == asked.request
  <2>1. /\ made.cli = Cli(r, Stopped, asked.suppress)
        /\ made.response = FromJsonRpc(r, Served, asked.stop)
        /\ made.collected = IF OfATest(r) THEN Collect(Len(r) = 2, r[Len(r)], Stopped, asked.details)
                            ELSE Absent
    BY DEF Handled, Stopped, Served
  <2>2. Len([i \in 1..Len(r) |-> i]) = Len(r) BY AskedTyped
  <2> QED BY <2>1, <2>2, CliAccounts, ResponseAccounts, CollectAccounts DEF AnswerIsAccounted
<1> QED BY <1>1, <1>2, <1>3, PTL DEF ClientSpec
=============================================================================
