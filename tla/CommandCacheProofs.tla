-------------------------- MODULE CommandCacheProofs --------------------------
(***************************************************************************)
(* Proofs about CommandCache, for every set of tasks and uids, every size  *)
(* and every time to live.                                                 *)
(*                                                                         *)
(* That two calls overlap on a uid only after an expiry, and that a        *)
(* KeyError only strikes a call whose lock was deleted, is not inductive:  *)
(* it rests on what the lock objects guarantee, LockInv below, whose parts *)
(* say who holds a lock, who waits for it and which locks are still in the *)
(* dictionary.                                                             *)
(***************************************************************************)
EXTENDS CommandCache, SequenceTheorems, TLAPS

\* A call has looked up no lock before it starts.
IdleHasNoLock == \A t \in Tasks : pc[t] = "idle" => lock[t] = Null

\* The lock a call looked up is the one of its uid, or an expiry deleted it.
LockIsListed ==
    \A t \in Tasks : lock[t] # Null => locks[uid[t]] = lock[t] \/ lock[t] \in dropped

Inside(t) == pc[t] \in {"woken", "sent", "read"} /\ lock[t] # Null

\* A cached call inside `async with` is the holder of its lock.
InsideHolds == \A t \in Tasks : Inside(t) => holder[lock[t]] = t

\* Who waits for a lock is queued, for that lock, and waits once.
WaitersWait ==
    \A l \in Tasks : \A i \in 1..Len(waiters[l]) :
        /\ pc[waiters[l][i]] = "queued" /\ lock[waiters[l][i]] = l
        /\ \A j \in 1..Len(waiters[l]) : waiters[l][i] = waiters[l][j] => i = j

\* A lock object that is in use was created by a call that has started.
LocksStarted ==
    /\ \A u \in Uids : locks[u] # Null => pc[locks[u]] # "idle"
    /\ \A t \in Tasks : lock[t] # Null => pc[lock[t]] # "idle"
    /\ \A l \in Tasks : holder[l] # Null => pc[l] # "idle"

LockInv == IdleHasNoLock /\ LockIsListed /\ InsideHolds /\ WaitersWait /\ LocksStarted

\* Only a call that has not started has no uid.
StartedHasUid == \A t \in Tasks : pc[t] # "idle" => uid[t] \in Uids

\* A call that waits for the device, or ended as `_collect` ended, has asked.
AskersAsked == \A t \in Tasks : pc[t] \in {"sent", "read"} => t \in asked

FailureInv == AskersAsked /\ FailureIsOwn

\* The inductive invariant.
IInv == TypeOK /\ StartedHasUid /\ LockInv

-----------------------------------------------------------------------------
(* What the operators return *)

\* Removing a key from an order leaves an order.
LEMMA WithoutType ==
    ASSUME NEW keys \in Seq(Uids), NEW u \in Uids
    PROVE  Without(keys, u) \in Seq(Uids)
<1>1. CASE ~Listed(u, keys)
  BY <1>1 DEF Without
<1>2. CASE Listed(u, keys)
  <2> DEFINE i == CHOOSE i \in 1..Len(keys) : keys[i] = u
             rest == [j \in 1..(Len(keys) - 1) |-> IF j < i THEN keys[j] ELSE keys[j + 1]]
  <2>1. i \in 1..Len(keys)
    BY <1>2 DEF Listed
  <2>2. Len(keys) \in Nat /\ Len(keys) - 1 \in Nat /\ keys \in [1..Len(keys) -> Uids]
    BY <2>1, LenProperties
  <2>3. rest \in [1..(Len(keys) - 1) -> Uids]
    BY <2>1, <2>2
  <2>4. rest \in Seq(Uids)
    BY <2>2, <2>3, SeqDef
  <2> QED
    BY <1>2, <2>4 DEF Without
<1> QED
  BY <1>1, <1>2

LEMMA KeptType ==
    ASSUME order \in Seq(Uids)
    PROVE  Kept \in Seq(Uids)
<1>1. CASE Len(order) > MaxSize
  <2>1. order # <<>>
    BY <1>1, CacheAssumption
  <2> QED
    BY <1>1, <2>1, HeadTailProperties DEF Kept
<1>2. CASE ~(Len(order) > MaxSize)
  BY <1>2 DEF Kept
<1> QED
  BY <1>1, <1>2

LEMMA StoreType ==
    ASSUME TypeOK, NEW u \in Uids, NEW val \in Time \cup {Null}, Store(u, val)
    PROVE  entry' \in [Uids -> Entry \cup {Null}] /\ order' \in Seq(Uids)
<1>1. Kept \in Seq(Uids)
  BY KeptType DEF TypeOK
<1>2. [ts |-> now, val |-> val] \in Entry
  BY DEF TypeOK, Entry
<1> QED
  BY <1>1, <1>2, AppendProperties DEF Store, TypeOK

LEMMA LockForType ==
    ASSUME TypeOK, NEW t \in Tasks, NEW u \in Uids
    PROVE  LockFor(t, u) \in Tasks
BY DEF LockFor, TypeOK

LEMMA LocksSeenType ==
    ASSUME TypeOK, NEW t \in Tasks, NEW u \in Uids
    PROVE  LocksSeen(t, u) \in [Uids -> Tasks \cup {Null}]
BY LockForType DEF LocksSeen, TypeOK

\* What a handed-over lock leaves behind.
LEMMA LeaveType ==
    ASSUME TypeOK, NEW t \in Tasks, NEW l \in Tasks, NEW end \in PcValues, Leave(t, l, end)
    PROVE  /\ holder' \in [Tasks -> Tasks \cup {Null}]
           /\ waiters' \in [Tasks -> Seq(Tasks)]
           /\ pc' \in [Tasks -> PcValues]
           /\ ended' \in [Tasks -> Time \cup {Null}]
<1>1. waiters[l] # <<>> => Head(waiters[l]) \in Tasks /\ Tail(waiters[l]) \in Seq(Tasks)
  BY HeadTailProperties DEF TypeOK
<1>2. NextHolder(l) \in Tasks \cup {Null}
  BY <1>1 DEF NextHolder
<1>3. holder' \in [Tasks -> Tasks \cup {Null}]
  BY <1>2 DEF Leave, TypeOK
<1>4. waiters' \in [Tasks -> Seq(Tasks)]
  BY <1>1 DEF Leave, TypeOK
<1>5. pc' \in [Tasks -> PcValues]
  BY DEF Leave, TypeOK, PcValues
<1>6. ended' \in [Tasks -> Time \cup {Null}]
  BY DEF Leave, TypeOK
<1> QED
  BY <1>3, <1>4, <1>5, <1>6

-----------------------------------------------------------------------------
(* Type correctness *)

\* The stretch of a call inside the lock, up to `_collect` or to the end.
LEMMA GetType ==
    ASSUME TypeOK, NEW t \in Tasks, NEW u \in Uids, NEW l \in Tasks, Get(t, u, l)
    PROVE  TypeOK'
<1>1. LocksSeen(t, u) \in [Uids -> Tasks \cup {Null}]
  BY LocksSeenType
<1>2. Without(order, u) \in Seq(Uids) /\ Append(Without(order, u), u) \in Seq(Uids)
  BY WithoutType, AppendProperties DEF TypeOK
<1>3. CASE GetMiss(t, u, l)
  BY <1>1, <1>3 DEF GetMiss, Began, GoAsk, cacheVars, TypeOK, PcValues
<1>4. CASE GetNone(t, u, l)
  BY <1>1, <1>2, <1>4 DEF GetNone, Touch, Began, GoAsk, TypeOK, PcValues
<1>5. CASE GetHit(t, u, l)
  <2>1. Leave(t, l, "done") /\ "done" \in PcValues
    BY <1>5 DEF GetHit, PcValues
  <2>2. entry[u].val \in Time \cup {Null}
    BY <1>5 DEF GetHit, Fresh, TypeOK, Entry
  <2> QED
    BY <1>1, <1>2, <1>5, <2>1, <2>2, LeaveType DEF GetHit, Touch, Began, TypeOK
<1>6. CASE GetExpired(t, u, l)
  BY <1>1, <1>2, <1>6 DEF GetExpired, Forget, Began, GoAsk, TypeOK, PcValues
<1>7. CASE GetExpiredTwice(t, u, l)
  <2>1. Leave(t, l, "keyerror") /\ "keyerror" \in PcValues
    BY <1>7 DEF GetExpiredTwice, PcValues
  <2> QED
    BY <1>2, <1>7, <2>1, LeaveType DEF GetExpiredTwice, Forget, Began, TypeOK
<1> QED
  BY <1>3, <1>4, <1>5, <1>6, <1>7 DEF Get

LEMMA EndType ==
    ASSUME TypeOK, NEW t \in Tasks, NEW end \in PcValues, End(t, end)
    PROVE  /\ holder' \in [Tasks -> Tasks \cup {Null}]
           /\ waiters' \in [Tasks -> Seq(Tasks)]
           /\ pc' \in [Tasks -> PcValues]
           /\ ended' \in [Tasks -> Time \cup {Null}]
<1>1. CASE lock[t] = Null
  BY <1>1 DEF End, TypeOK
<1>2. CASE lock[t] # Null
  <2>1. lock[t] \in Tasks /\ Leave(t, lock[t], end)
    BY <1>2 DEF End, TypeOK
  <2> QED
    BY <2>1, LeaveType
<1> QED
  BY <1>1, <1>2

LEMMA FinishType ==
    ASSUME TypeOK, NEW t \in Tasks, uid[t] \in Uids,
           NEW val \in Time \cup {Null}, Finish(t, val)
    PROVE  TypeOK'
<1>1. entry' \in [Uids -> Entry \cup {Null}] /\ order' \in Seq(Uids)
  BY StoreType DEF Finish, cacheVars, TypeOK
<1>2. End(t, "done") /\ "done" \in PcValues
  BY DEF Finish, PcValues
<1>3. output' \in [Tasks -> Time \cup {Null}]
  BY DEF Finish, TypeOK
<1> QED
  BY <1>1, <1>2, <1>3, EndType DEF Finish, TypeOK

\* Every step keeps the types, whatever the calls do.
LEMMA NextType ==
    ASSUME TypeOK, StartedHasUid, [Next]_vars
    PROVE  TypeOK'
<1>1. CASE UNCHANGED vars
  BY <1>1 DEF vars, cacheVars, lockVars, taskVars, TypeOK
<1>2. ASSUME NEW t \in Tasks, NEW u \in Uids, Wait(t, u)
      PROVE  TypeOK'
  <2>1. LockFor(t, u) \in Tasks
    BY LockForType
  <2>2. Append(waiters[LockFor(t, u)], t) \in Seq(Tasks)
    BY <2>1, AppendProperties DEF TypeOK
  <2> QED
    BY <1>2, <2>1, <2>2 DEF Wait, cacheVars, TypeOK, PcValues
<1>3. ASSUME NEW t \in Tasks, NEW u \in Uids, CollectUncached(t, u)
      PROVE  TypeOK'
  BY <1>3 DEF CollectUncached, cacheVars, lockVars, TypeOK, PcValues
<1>4. ASSUME NEW t \in Tasks, NEW u \in Uids, NEW l \in Tasks, Get(t, u, l)
      PROVE  TypeOK'
  BY <1>4, GetType
<1>5. ASSUME NEW t \in Tasks, DeviceReads(t)
      PROVE  TypeOK'
  BY <1>5 DEF DeviceReads, cacheVars, lockVars, TypeOK, PcValues
<1>6. ASSUME NEW t \in Tasks, Answer(t)
      PROVE  TypeOK'
  BY <1>6, FinishType DEF Answer, TypeOK, StartedHasUid
<1>7. ASSUME NEW t \in Tasks, NoAnswer(t)
      PROVE  TypeOK'
  BY <1>7, FinishType DEF NoAnswer, StartedHasUid
<1>8. ASSUME NEW t \in Tasks, Raise(t)
      PROVE  TypeOK'
  <2>1. End(t, "raised") /\ "raised" \in PcValues
    BY <1>8 DEF Raise, PcValues
  <2> QED
    BY <1>8, <2>1, EndType DEF Raise, cacheVars, TypeOK
<1>9. CASE Clear
  BY <1>9, EmptySeq DEF Clear, lockVars, taskVars, TypeOK
<1>10. CASE Tick
  BY <1>10, CacheAssumption DEF Tick, cacheVars, lockVars, taskVars, TypeOK, Time, Entry
<1> QED
  BY <1>1, <1>2, <1>3, <1>4, <1>5, <1>6, <1>7, <1>8, <1>9, <1>10
     DEF Next, Start, Enter, Return

-----------------------------------------------------------------------------
(* The locks *)

\* What a step leaves of the calls of the other tasks: a queued one may be woken.
Others(t) ==
    \A s \in Tasks \ {t} :
        /\ pc'[s] = pc[s] \/ (pc[s] = "queued" /\ pc'[s] = "woken")
        /\ lock'[s] = lock[s] /\ uid'[s] = uid[s]

\* Leaving a lock hands it to the waiter that is woken, and to nobody else.
LEMMA LeaveHandsOver ==
    ASSUME IInv, NEW t \in Tasks, NEW l \in Tasks,
           NEW end \in {"done", "raised", "keyerror"}, Leave(t, l, end),
           holder[l] \in {t, Null}, pc[t] # "queued",
           \A s \in Tasks \ {t} : lock'[s] = lock[s] /\ uid'[s] = uid[s]
    PROVE  Others(t) /\ pc'[t] = end /\ InsideHolds' /\ WaitersWait'
<1>1. pc'[t] = end
  BY DEF Leave, IInv, TypeOK
<1>2. waiters[l] # <<>> =>
          /\ Len(waiters[l]) \in Nat \ {0} /\ Head(waiters[l]) = waiters[l][1]
          /\ Tail(waiters[l]) \in Seq(Tasks) /\ Len(Tail(waiters[l])) = Len(waiters[l]) - 1
          /\ \A i \in 1..Len(Tail(waiters[l])) : Tail(waiters[l])[i] = waiters[l][i + 1]
  BY HeadTailProperties, LenProperties DEF IInv, TypeOK
<1>3. NextHolder(l) # Null =>
          /\ waiters[l] # <<>> /\ NextHolder(l) \in Tasks \ {t}
          /\ pc[NextHolder(l)] = "queued" /\ lock[NextHolder(l)] = l
  <2> SUFFICES ASSUME NextHolder(l) # Null
               PROVE  /\ waiters[l] # <<>> /\ NextHolder(l) \in Tasks \ {t}
                      /\ pc[NextHolder(l)] = "queued" /\ lock[NextHolder(l)] = l
    OBVIOUS
  <2>1. waiters[l] # <<>> /\ NextHolder(l) = waiters[l][1] /\ 1 \in 1..Len(waiters[l])
    BY <1>2 DEF NextHolder
  <2>2. waiters[l][1] \in Tasks
    BY <2>1, ElementOfSeq DEF IInv, TypeOK
  <2> QED
    BY <2>1, <2>2 DEF IInv, LockInv, WaitersWait
<1>4. Others(t)
  <2> SUFFICES ASSUME NEW s \in Tasks \ {t}
               PROVE  pc'[s] = pc[s] \/ (pc[s] = "queued" /\ pc'[s] = "woken")
    BY DEF Others
  <2>1. pc'[s] = IF s = NextHolder(l) THEN "woken" ELSE pc[s]
    BY DEF Leave
  <2> QED
    BY <1>3, <2>1, CacheAssumption
<1>5. InsideHolds'
  <2> SUFFICES ASSUME NEW s \in Tasks, Inside(s)'
               PROVE  holder'[lock'[s]] = s
    BY DEF InsideHolds
  <2>1. s # t /\ lock'[s] = lock[s] /\ lock[s] \in Tasks
    BY <1>1 DEF Inside, IInv, TypeOK
  <2>2. CASE s = NextHolder(l)
    <3>1. lock[s] = l
      BY <1>3, <2>2, CacheAssumption
    <3> QED
      BY <2>1, <2>2, <3>1 DEF Leave, IInv, TypeOK
  <2>3. CASE s # NextHolder(l)
    <3>1. Inside(s) /\ holder[lock[s]] = s
      BY <2>1, <2>3 DEF Inside, Leave, IInv, TypeOK, LockInv, InsideHolds
    <3>2. lock[s] # l
      BY <2>1, <3>1, CacheAssumption
    <3> QED
      BY <2>1, <3>1, <3>2 DEF Leave, IInv, TypeOK
  <2> QED
    BY <2>2, <2>3
<1>6. WaitersWait'
  <2>1. ASSUME NEW m \in Tasks, m # l, NEW i \in 1..Len(waiters'[m])
        PROVE  /\ pc'[waiters'[m][i]] = "queued" /\ lock'[waiters'[m][i]] = m
               /\ \A j \in 1..Len(waiters'[m]) : waiters'[m][i] = waiters'[m][j] => i = j
    <3>1. waiters'[m] = waiters[m]
      BY <2>1 DEF Leave, IInv, TypeOK
    <3>2. waiters[m][i] \in Tasks
      BY <3>1, ElementOfSeq DEF IInv, TypeOK
    <3>3. /\ pc[waiters[m][i]] = "queued" /\ lock[waiters[m][i]] = m
          /\ \A j \in 1..Len(waiters[m]) : waiters[m][i] = waiters[m][j] => i = j
      BY <3>1 DEF IInv, LockInv, WaitersWait
    <3>4. waiters[m][i] # t /\ waiters[m][i] # NextHolder(l)
      BY <1>3, <2>1, <3>2, <3>3, CacheAssumption
    <3> QED
      BY <3>1, <3>2, <3>3, <3>4 DEF Leave, IInv, TypeOK
  <2>2. ASSUME NEW i \in 1..Len(waiters'[l])
        PROVE  /\ pc'[waiters'[l][i]] = "queued" /\ lock'[waiters'[l][i]] = l
               /\ \A j \in 1..Len(waiters'[l]) : waiters'[l][i] = waiters'[l][j] => i = j
    <3>1. waiters[l] # <<>> /\ waiters'[l] = Tail(waiters[l])
      BY <2>2 DEF Leave, IInv, TypeOK
    <3>2. \A j \in 1..Len(waiters'[l]) :
              waiters'[l][j] = waiters[l][j + 1] /\ j + 1 \in 2..Len(waiters[l])
      BY <1>2, <3>1
    <3>3. waiters[l][i + 1] \in Tasks
      BY <3>2, ElementOfSeq DEF IInv, TypeOK
    <3>4. /\ pc[waiters[l][i + 1]] = "queued" /\ lock[waiters[l][i + 1]] = l
          /\ \A j \in 1..Len(waiters[l]) : waiters[l][i + 1] = waiters[l][j] => i + 1 = j
      BY <3>2, i + 1 \in 1..Len(waiters[l]) DEF IInv, LockInv, WaitersWait
    <3>5. NextHolder(l) = waiters[l][1] /\ 1 \in 1..Len(waiters[l])
      BY <1>2, <3>1 DEF NextHolder
    <3>6. waiters[l][i + 1] # t /\ waiters[l][i + 1] # NextHolder(l)
      BY <3>4, <3>5
    <3>7. pc'[waiters'[l][i]] = "queued" /\ lock'[waiters'[l][i]] = l
      BY <3>2, <3>3, <3>4, <3>6 DEF Leave, IInv, TypeOK
    <3> QED
      BY <3>2, <3>4, <3>7
  <2> QED
    BY <2>1, <2>2 DEF WaitersWait
<1> QED
  BY <1>1, <1>4, <1>5, <1>6

\* Going on to `_collect` keeps, or takes, the lock.
LEMMA GoAskHolds ==
    ASSUME IInv, NEW t \in Tasks, NEW l \in Tasks, GoAsk(t, l),
           holder[l] \in {t, Null}, pc[t] # "queued",
           lock' = [lock EXCEPT ![t] = l],
           \A s \in Tasks \ {t} : uid'[s] = uid[s]
    PROVE  Others(t) /\ pc'[t] = "sent" /\ InsideHolds' /\ WaitersWait'
<1>1. /\ pc' = [pc EXCEPT ![t] = "sent"] /\ holder' = [holder EXCEPT ![l] = t]
      /\ waiters' = waiters
  BY DEF GoAsk
<1>2. pc'[t] = "sent" /\ lock'[t] = l /\ holder'[l] = t
  BY <1>1 DEF IInv, TypeOK
<1>3. Others(t)
  BY <1>1 DEF Others, IInv, TypeOK
<1>4. InsideHolds'
  <2> SUFFICES ASSUME NEW s \in Tasks, s # t, Inside(s)'
               PROVE  holder'[lock'[s]] = s
    BY <1>2 DEF InsideHolds
  <2>1. lock[s] \in Tasks /\ lock'[s] = lock[s] /\ holder[lock[s]] = s
    BY <1>1 DEF Inside, IInv, TypeOK, LockInv, InsideHolds
  <2>2. lock[s] # l
    BY <2>1, CacheAssumption
  <2> QED
    BY <1>1, <2>1, <2>2 DEF IInv, TypeOK
<1>5. WaitersWait'
  <2> SUFFICES ASSUME NEW m \in Tasks, NEW i \in 1..Len(waiters[m])
               PROVE  /\ pc'[waiters[m][i]] = "queued" /\ lock'[waiters[m][i]] = m
                      /\ \A j \in 1..Len(waiters[m]) : waiters[m][i] = waiters[m][j] => i = j
    BY <1>1 DEF WaitersWait
  <2>1. waiters[m][i] \in Tasks
    BY ElementOfSeq DEF IInv, TypeOK
  <2>2. /\ pc[waiters[m][i]] = "queued" /\ lock[waiters[m][i]] = m
        /\ \A j \in 1..Len(waiters[m]) : waiters[m][i] = waiters[m][j] => i = j
    BY DEF IInv, LockInv, WaitersWait
  <2> QED
    BY <1>1, <2>1, <2>2 DEF IInv, TypeOK
<1> QED
  BY <1>2, <1>3, <1>4, <1>5

\* A call inside a lock found it free or was handed it.
LEMMA InLockFacts ==
    ASSUME IInv, NEW t \in Tasks, NEW u \in Uids, NEW l \in Tasks, InLock(t, u, l)
    PROVE  /\ holder[l] \in {t, Null} /\ pc[t] \in {"idle", "woken"}
           /\ LocksSeen(t, u)[u] = l \/ (l \in dropped /\ LocksSeen(t, u) = locks)
           /\ \A v \in Uids : locks[v] # Null => LocksSeen(t, u)[v] = locks[v]
<1>1. CASE pc[t] = "idle" /\ l = LockFor(t, u) /\ holder[l] = Null
  BY <1>1 DEF LocksSeen, LockFor, IInv, TypeOK
<1>2. CASE pc[t] = "woken" /\ u = uid[t] /\ l = lock[t]
  <2>1. l # Null
    BY CacheAssumption
  <2> QED
    BY <1>2, <2>1 DEF LocksSeen, IInv, LockInv, InsideHolds, Inside, LockIsListed
<1> QED
  BY <1>1, <1>2 DEF InLock

\* The stretch of a call inside the lock keeps the invariant.
LEMMA GetLocks ==
    ASSUME IInv, NEW t \in Tasks, NEW u \in Uids, NEW l \in Tasks, Get(t, u, l)
    PROVE  Others(t) /\ StartedHasUid' /\ LockInv'
<1>1. InLock(t, u, l) /\ Began(t, u, l)
  BY DEF Get, GetMiss, GetNone, GetHit, GetExpired, GetExpiredTwice
<1>2. uid'[t] = u /\ lock' = [lock EXCEPT ![t] = l] /\ lock'[t] = l
  BY <1>1 DEF Began, IInv, TypeOK
<1>3. \A s \in Tasks \ {t} : lock'[s] = lock[s] /\ uid'[s] = uid[s]
  BY <1>1 DEF Began, IInv, TypeOK
<1>4. /\ holder[l] \in {t, Null} /\ pc[t] \in {"idle", "woken"}
      /\ LocksSeen(t, u)[u] = l \/ (l \in dropped /\ LocksSeen(t, u) = locks)
      /\ \A v \in Uids : locks[v] # Null => LocksSeen(t, u)[v] = locks[v]
  BY <1>1, InLockFacts
<1>5. GoAsk(t, l) \/ Leave(t, l, "done") \/ Leave(t, l, "keyerror")
  BY DEF Get, GetMiss, GetNone, GetHit, GetExpired, GetExpiredTwice
<1>6. Others(t) /\ pc'[t] # "idle" /\ InsideHolds' /\ WaitersWait'
  BY <1>2, <1>3, <1>4, <1>5, GoAskHolds, LeaveHandsOver
<1>7. /\ dropped \subseteq dropped'
      /\ \A v \in Uids : LocksSeen(t, u)[v] # Null =>
             locks'[v] = LocksSeen(t, u)[v] \/ LocksSeen(t, u)[v] \in dropped'
  <2>1. CASE GetMiss(t, u, l) \/ GetNone(t, u, l) \/ GetHit(t, u, l)
    BY <2>1 DEF GetMiss, GetNone, GetHit
  <2>2. CASE GetExpired(t, u, l)
    BY <2>2, LocksSeenType DEF GetExpired, IInv
  <2>3. CASE GetExpiredTwice(t, u, l)
    <3>1. LocksSeen(t, u)[u] = Null /\ UNCHANGED <<locks, dropped>>
      BY <2>3 DEF GetExpiredTwice
    <3>2. LocksSeen(t, u) = locks
      BY <1>4, <3>1, CacheAssumption
    <3> QED
      BY <3>1, <3>2
  <2> QED
    BY <2>1, <2>2, <2>3 DEF Get
<1>8. StartedHasUid'
  BY <1>2, <1>6 DEF StartedHasUid, Others, IInv
<1>9. IdleHasNoLock'
  BY <1>6 DEF IdleHasNoLock, Others, IInv, LockInv
<1>10. LockIsListed'
  <2>1. ASSUME NEW s \in Tasks \ {t}, lock'[s] # Null
        PROVE  locks'[uid'[s]] = lock'[s] \/ lock'[s] \in dropped'
    <3>1. lock'[s] = lock[s] /\ uid'[s] = uid[s] /\ lock[s] # Null
      BY <1>3, <2>1
    <3>2. uid[s] \in Uids
      BY <3>1 DEF IInv, StartedHasUid, LockInv, IdleHasNoLock
    <3>3. locks[uid[s]] = lock[s] \/ lock[s] \in dropped
      BY <3>1 DEF IInv, LockInv, LockIsListed
    <3> QED
      BY <1>4, <1>7, <3>1, <3>2, <3>3
  <2>2. locks'[u] = l \/ l \in dropped'
    BY <1>4, <1>7, CacheAssumption
  <2> QED
    BY <1>2, <2>1, <2>2 DEF LockIsListed
<1>11. LocksStarted'
  <2>1. \A s \in Tasks : pc[s] # "idle" => pc'[s] # "idle"
    BY <1>6 DEF Others
  <2>2. pc'[l] # "idle"
    <3>1. l = t \/ locks[u] = l \/ lock[t] = l
      BY <1>1 DEF InLock, LockFor
    <3> QED
      BY <1>6, <2>1, <3>1, CacheAssumption DEF IInv, LockInv, LocksStarted
  <2>3. \A v \in Uids : locks'[v] # Null => pc'[locks'[v]] # "idle"
    <3>1. \A v \in Uids : locks'[v] \in {locks[v], LocksSeen(t, u)[v], Null}
      BY DEF Get, GetMiss, GetNone, GetHit, GetExpired, GetExpiredTwice, LocksSeen, IInv, TypeOK
    <3>2. \A v \in Uids : LocksSeen(t, u)[v] \in {locks[v], t}
      BY DEF LocksSeen, LockFor, IInv, TypeOK
    <3> QED
      BY <1>6, <2>1, <3>1, <3>2 DEF IInv, TypeOK, LockInv, LocksStarted
  <2>4. \A s \in Tasks : lock'[s] # Null => pc'[lock'[s]] # "idle"
    BY <1>2, <1>3, <2>1, <2>2 DEF IInv, TypeOK, LockInv, LocksStarted
  <2>5. \A m \in Tasks : holder'[m] # Null => pc'[m] # "idle"
    BY <1>5, <2>1, <2>2 DEF GoAsk, Leave, IInv, TypeOK, LockInv, LocksStarted
  <2> QED
    BY <2>3, <2>4, <2>5 DEF LocksStarted
<1> QED
  BY <1>6, <1>8, <1>9, <1>10, <1>11 DEF LockInv

\* The end of a call that was in `_collect` keeps the invariant.
LEMMA EndLocks ==
    ASSUME IInv, NEW t \in Tasks, NEW end \in {"done", "raised"}, End(t, end),
           pc[t] \in {"sent", "read"}, UNCHANGED <<locks, dropped, uid, lock>>
    PROVE  Others(t) /\ pc'[t] = end /\ StartedHasUid' /\ LockInv'
<1>1. Others(t) /\ pc'[t] = end /\ InsideHolds' /\ WaitersWait'
  <2>1. CASE lock[t] = Null
    <3>1. pc' = [pc EXCEPT ![t] = end] /\ UNCHANGED <<holder, waiters>>
      BY <2>1 DEF End
    <3>2. Others(t) /\ pc'[t] = end
      BY <3>1 DEF Others, IInv, TypeOK
    <3>3. InsideHolds'
      BY <2>1, <3>1 DEF InsideHolds, Inside, IInv, TypeOK, LockInv
    <3>4. WaitersWait'
      <4> SUFFICES ASSUME NEW m \in Tasks, NEW i \in 1..Len(waiters[m])
                   PROVE  /\ pc'[waiters[m][i]] = "queued" /\ lock'[waiters[m][i]] = m
                          /\ \A j \in 1..Len(waiters[m]) : waiters[m][i] = waiters[m][j] => i = j
        BY <3>1 DEF WaitersWait
      <4>1. waiters[m][i] \in Tasks
        BY ElementOfSeq DEF IInv, TypeOK
      <4> QED
        BY <3>1, <4>1 DEF IInv, TypeOK, LockInv, WaitersWait
    <3> QED
      BY <3>2, <3>3, <3>4
  <2>2. CASE lock[t] # Null
    <3>1. lock[t] \in Tasks /\ Leave(t, lock[t], end) /\ holder[lock[t]] = t
      BY <2>2 DEF End, IInv, TypeOK, LockInv, InsideHolds, Inside
    <3> QED
      BY <3>1, LeaveHandsOver
  <2> QED
    BY <2>1, <2>2
<1>2. StartedHasUid'
  BY <1>1 DEF StartedHasUid, Others, IInv
<1>3. IdleHasNoLock'
  BY <1>1 DEF IdleHasNoLock, Others, IInv, LockInv
<1>4. LockIsListed'
  BY DEF LockIsListed, IInv, LockInv
<1>5. LocksStarted'
  <2>1. \A s \in Tasks : pc[s] # "idle" => pc'[s] # "idle"
    BY <1>1 DEF Others
  <2>2. \A m \in Tasks : holder'[m] # Null => holder[m] # Null \/ m = lock[t]
    BY DEF End, Leave, IInv, TypeOK
  <2> QED
    BY <2>1, <2>2, CacheAssumption DEF IInv, TypeOK, LockInv, LocksStarted
<1> QED
  BY <1>1, <1>2, <1>3, <1>4, <1>5 DEF LockInv

\* Joining the queue of a lock keeps the invariant.
LEMMA WaitLocks ==
    ASSUME IInv, NEW t \in Tasks, NEW u \in Uids, Wait(t, u)
    PROVE  StartedHasUid' /\ LockInv'
<1> DEFINE l == LockFor(t, u)
<1>1. l \in Tasks /\ pc[t] = "idle" /\ lock[t] = Null
  BY LockForType DEF Wait, IInv, LockInv, IdleHasNoLock
<1>2. /\ pc' = [pc EXCEPT ![t] = "queued"] /\ uid' = [uid EXCEPT ![t] = u]
      /\ lock' = [lock EXCEPT ![t] = l]
      /\ waiters' = [waiters EXCEPT ![l] = Append(waiters[l], t)]
      /\ UNCHANGED <<locks, holder, dropped>>
  BY DEF Wait
<1>3. pc'[t] = "queued" /\ uid'[t] = u /\ lock'[t] = l
  BY <1>2 DEF IInv, TypeOK
<1>4. \A s \in Tasks \ {t} : pc'[s] = pc[s] /\ uid'[s] = uid[s] /\ lock'[s] = lock[s]
  BY <1>2 DEF IInv, TypeOK
<1>5. StartedHasUid' /\ IdleHasNoLock'
  BY <1>3, <1>4 DEF StartedHasUid, IdleHasNoLock, IInv, LockInv
<1>6. InsideHolds'
  BY <1>2, <1>3, <1>4 DEF InsideHolds, Inside, IInv, LockInv
<1>7. LockIsListed'
  <2>1. locks[u] = l
    <3>1. l # t
      BY <1>1 DEF Wait, IInv, LockInv, LocksStarted
    <3> QED
      BY <3>1 DEF LockFor
  <2> QED
    BY <1>2, <1>3, <1>4, <2>1 DEF LockIsListed, IInv, LockInv
<1>8. WaitersWait'
  <2>1. \A m \in Tasks : \A i \in 1..Len(waiters[m]) :
            waiters[m][i] \in Tasks \ {t} /\ lock[waiters[m][i]] = m
            /\ pc[waiters[m][i]] = "queued"
    BY <1>1, ElementOfSeq DEF IInv, TypeOK, LockInv, WaitersWait
  <2>2. \A m \in Tasks \ {l} : waiters'[m] = waiters[m]
    BY <1>2 DEF IInv, TypeOK
  <2>3. /\ Len(waiters[l]) \in Nat /\ Len(waiters'[l]) = Len(waiters[l]) + 1
        /\ waiters'[l][Len(waiters[l]) + 1] = t
        /\ \A i \in 1..Len(waiters[l]) : waiters'[l][i] = waiters[l][i]
    BY <1>1, <1>2, AppendProperties, LenProperties DEF IInv, TypeOK
  <2>4. ASSUME NEW m \in Tasks \ {l}, NEW i \in 1..Len(waiters'[m])
        PROVE  /\ pc'[waiters'[m][i]] = "queued" /\ lock'[waiters'[m][i]] = m
               /\ \A j \in 1..Len(waiters'[m]) : waiters'[m][i] = waiters'[m][j] => i = j
    BY <1>4, <2>1, <2>2 DEF IInv, LockInv, WaitersWait
  <2>5. ASSUME NEW i \in 1..Len(waiters'[l])
        PROVE  /\ pc'[waiters'[l][i]] = "queued" /\ lock'[waiters'[l][i]] = l
               /\ \A j \in 1..Len(waiters'[l]) : waiters'[l][i] = waiters'[l][j] => i = j
    <3>1. \A j \in 1..Len(waiters'[l]) : j \in 1..Len(waiters[l]) \/ j = Len(waiters[l]) + 1
      BY <2>3
    <3>2. pc'[waiters'[l][i]] = "queued" /\ lock'[waiters'[l][i]] = l
      BY <1>1, <1>3, <1>4, <2>1, <2>3, <3>1
    <3>3. \A j \in 1..Len(waiters'[l]) : waiters'[l][i] = waiters'[l][j] => i = j
      BY <1>1, <2>1, <2>3, <3>1 DEF IInv, LockInv, WaitersWait
    <3> QED
      BY <3>2, <3>3
  <2> QED
    BY <2>4, <2>5 DEF WaitersWait
<1>9. LocksStarted'
  <2>1. pc[l] # "idle"
    BY <1>1 DEF Wait, IInv, LockInv, LocksStarted
  <2> QED
    BY <1>2, <1>3, <1>4, <2>1 DEF IInv, TypeOK, LockInv, LocksStarted
<1> QED
  BY <1>5, <1>6, <1>7, <1>8, <1>9 DEF LockInv

\* Steps of one task that touch no lock: it was not queued, and is not queued after.
LEMMA OwnStepLocks ==
    ASSUME IInv, NEW t \in Tasks, NEW next \in {"sent", "read"},
           pc' = [pc EXCEPT ![t] = next], pc[t] # "queued",
           pc[t] = "idle" \/ Inside(t) \/ lock[t] = Null,
           uid'[t] \in Uids, uid'[t] = uid[t] \/ lock[t] = Null,
           \A s \in Tasks \ {t} : uid'[s] = uid[s],
           UNCHANGED <<locks, holder, waiters, dropped, lock>>
    PROVE  StartedHasUid' /\ LockInv'
<1>1. pc'[t] = next /\ \A s \in Tasks \ {t} : pc'[s] = pc[s]
  BY DEF IInv, TypeOK
<1>2. StartedHasUid' /\ IdleHasNoLock'
  BY <1>1 DEF StartedHasUid, IdleHasNoLock, IInv, LockInv
<1>3. InsideHolds'
  BY <1>1 DEF InsideHolds, Inside, IInv, LockInv, IdleHasNoLock
<1>4. LockIsListed'
  BY DEF LockIsListed, IInv, LockInv
<1>5. WaitersWait'
  <2> SUFFICES ASSUME NEW m \in Tasks, NEW i \in 1..Len(waiters[m])
               PROVE  /\ pc'[waiters[m][i]] = "queued" /\ lock[waiters[m][i]] = m
                      /\ \A j \in 1..Len(waiters[m]) : waiters[m][i] = waiters[m][j] => i = j
    BY DEF WaitersWait
  <2>1. waiters[m][i] \in Tasks
    BY ElementOfSeq DEF IInv, TypeOK
  <2> QED
    BY <1>1, <2>1 DEF IInv, LockInv, WaitersWait
<1>6. LocksStarted'
  BY <1>1 DEF IInv, TypeOK, LockInv, LocksStarted
<1> QED
  BY <1>2, <1>3, <1>4, <1>5, <1>6 DEF LockInv

-----------------------------------------------------------------------------
(* Theorems *)

\* The inductive invariant holds: it does so at first, and every action keeps it.
THEOREM Inductive == Spec => []IInv
<1>1. Init => IInv
  <2> SUFFICES ASSUME Init
               PROVE  IInv
    OBVIOUS
  <2>1. TypeOK
    BY CacheAssumption, EmptySeq DEF Init, TypeOK, Time, PcValues
  <2>2. \A l \in Tasks : Len(waiters[l]) = 0
    BY EmptySeq DEF Init
  <2>3. WaitersWait
    BY <2>2 DEF WaitersWait
  <2>4. StartedHasUid /\ IdleHasNoLock /\ LockIsListed /\ InsideHolds /\ LocksStarted
    BY DEF Init, StartedHasUid, IdleHasNoLock, LockIsListed, InsideHolds, Inside, LocksStarted
  <2> QED
    BY <2>1, <2>3, <2>4 DEF IInv, LockInv
<1>2. IInv /\ [Next]_vars => IInv'
  <2> SUFFICES ASSUME IInv, [Next]_vars
               PROVE  IInv'
    OBVIOUS
  <2>1. TypeOK'
    BY NextType DEF IInv
  <2>2. StartedHasUid' /\ LockInv'
    <3>1. ASSUME UNCHANGED <<pc, uid, lock, locks, holder, waiters, dropped>>
          PROVE  StartedHasUid' /\ LockInv'
      BY <3>1 DEF IInv, StartedHasUid, LockInv, IdleHasNoLock, LockIsListed,
                  InsideHolds, Inside, WaitersWait, LocksStarted
    <3>2. ASSUME NEW t \in Tasks, NEW u \in Uids, Wait(t, u)
          PROVE  StartedHasUid' /\ LockInv'
      BY <3>2, WaitLocks
    <3>3. ASSUME NEW t \in Tasks, NEW u \in Uids, CollectUncached(t, u)
          PROVE  StartedHasUid' /\ LockInv'
      <4>1. /\ pc[t] = "idle" /\ lock[t] = Null /\ uid'[t] = u
            /\ \A s \in Tasks \ {t} : uid'[s] = uid[s]
        BY <3>3 DEF CollectUncached, IInv, TypeOK, LockInv, IdleHasNoLock
      <4> QED
        BY <3>3, <4>1, OwnStepLocks DEF CollectUncached, lockVars
    <3>4. ASSUME NEW t \in Tasks, NEW u \in Uids, NEW l \in Tasks, Get(t, u, l)
          PROVE  StartedHasUid' /\ LockInv'
      BY <3>4, GetLocks
    <3>5. ASSUME NEW t \in Tasks, DeviceReads(t)
          PROVE  StartedHasUid' /\ LockInv'
      <4>1. pc[t] = "sent" /\ uid[t] \in Uids /\ uid' = uid
        BY <3>5 DEF DeviceReads, IInv, StartedHasUid
      <4> QED
        BY <3>5, <4>1, OwnStepLocks DEF DeviceReads, lockVars, Inside
    <3>6. ASSUME NEW t \in Tasks, Return(t)
          PROVE  StartedHasUid' /\ LockInv'
      <4>1. /\ pc[t] \in {"sent", "read"} /\ UNCHANGED <<locks, dropped, uid, lock>>
            /\ End(t, "done") \/ End(t, "raised")
        BY <3>6 DEF Return, Answer, NoAnswer, Raise, Finish
      <4> QED
        BY <4>1, EndLocks
    <3>7. CASE Clear \/ Tick \/ UNCHANGED vars
      BY <3>1, <3>7 DEF Clear, Tick, vars, lockVars, taskVars
    <3> QED
      BY <3>2, <3>3, <3>4, <3>5, <3>6, <3>7 DEF Next, Start, Enter
  <2> QED
    BY <2>1, <2>2 DEF IInv
<1> QED
  BY <1>1, <1>2, PTL DEF Spec

\* Every variable keeps its type; the timestamps, readings and outputs of any run are
\* times of the clock, and every lock object belongs to a call.
THEOREM TypeCorrect == Spec => []TypeOK
<1>1. IInv => TypeOK
  BY DEF IInv
<1> QED
  BY <1>1, Inductive, PTL

\* What the locks of AntaCache give, for any number of calls and uids: two calls of
\* `collect` ask the device for the same uid at once only if an expiry deleted the
\* lock that one of them holds.
THEOREM OverlapNeedsExpiry == Spec => []OverlapOnlyAfterExpiry
<1>1. IInv => OverlapOnlyAfterExpiry
  <2> SUFFICES ASSUME IInv, NEW s \in Tasks, NEW t \in Tasks, s # t,
                      InFlight(s), InFlight(t), uid[s] = uid[t],
                      lock[s] \notin dropped, lock[t] \notin dropped
               PROVE  FALSE
    BY DEF OverlapOnlyAfterExpiry
  <2>1. lock[s] = lock[t]
    BY DEF IInv, LockInv, LockIsListed, InFlight
  <2>2. holder[lock[s]] = s /\ holder[lock[t]] = t
    BY DEF IInv, LockInv, InsideHolds, Inside, InFlight
  <2> QED
    BY <2>1, <2>2
<1> QED
  BY <1>1, Inductive, PTL

\* The failures of a step: if the others keep what they had and t's own end is its
\* own, no failure is inherited.
LEMMA FailureStep ==
    ASSUME FailureInv, NEW t \in Tasks, Others(t),
           \A s \in Tasks \ {t} : output'[s] = output[s],
           asked \subseteq asked', dropped \subseteq dropped',
           pc'[t] \in {"sent", "read"} => t \in asked',
           pc'[t] = "raised" \/ (pc'[t] = "done" /\ output'[t] = Null) => t \in asked',
           pc'[t] = "keyerror" => lock'[t] \in dropped'
    PROVE  FailureInv'
<1>1. AskersAsked'
  BY DEF FailureInv, AskersAsked, Others
<1>2. FailureIsOwn'
  BY DEF FailureInv, FailureIsOwn, Others
<1> QED
  BY <1>1, <1>2 DEF FailureInv

\* Who waits for the device has asked it, and failures are their own, in every state.
LEMMA FailureInvariant == Spec => []FailureInv
<1>1. Init => FailureInv
  BY DEF Init, FailureInv, AskersAsked, FailureIsOwn
<1>2. IInv /\ FailureInv /\ [Next]_vars => FailureInv'
  <2> SUFFICES ASSUME IInv, FailureInv, [Next]_vars
               PROVE  FailureInv'
    OBVIOUS
  <2>1. ASSUME NEW t \in Tasks, NEW u \in Uids, Wait(t, u) \/ CollectUncached(t, u)
        PROVE  FailureInv'
    <3>1. Others(t) /\ pc'[t] \in {"queued", "sent"} /\ asked \subseteq asked'
      BY <2>1 DEF Wait, CollectUncached, Others, IInv, TypeOK
    <3> QED
      BY <2>1, <3>1, FailureStep DEF Wait, CollectUncached, lockVars, IInv, TypeOK
  <2>2. ASSUME NEW t \in Tasks, NEW u \in Uids, NEW l \in Tasks, Get(t, u, l)
        PROVE  FailureInv'
    <3>1. Others(t) /\ InLock(t, u, l)
      BY <2>2, GetLocks DEF Get, GetMiss, GetNone, GetHit, GetExpired, GetExpiredTwice
    <3>2. CASE GetMiss(t, u, l) \/ GetNone(t, u, l) \/ GetExpired(t, u, l)
      <4>1. pc'[t] = "sent" /\ asked' = asked \cup {t} /\ output' = output
        BY <3>2 DEF GetMiss, GetNone, GetExpired, GoAsk, IInv, TypeOK
      <4>2. dropped \subseteq dropped'
        BY <3>2 DEF GetMiss, GetNone, GetExpired
      <4> QED
        BY <3>1, <4>1, <4>2, FailureStep
    <3>3. CASE GetHit(t, u, l)
      <4>1. pc'[t] = "done" /\ output'[t] # Null /\ dropped' = dropped /\ asked' = asked
        BY <3>3 DEF GetHit, Leave, IInv, TypeOK
      <4>2. \A s \in Tasks \ {t} : output'[s] = output[s]
        BY <3>3 DEF GetHit, IInv, TypeOK
      <4> QED
        BY <3>1, <4>1, <4>2, FailureStep
    <3>4. CASE GetExpiredTwice(t, u, l)
      <4>1. /\ pc'[t] = "keyerror" /\ UNCHANGED <<output, dropped, asked>>
            /\ lock'[t] = l
        BY <3>4 DEF GetExpiredTwice, Leave, Began, IInv, TypeOK
      <4>2. l \in dropped
        <5>1. LocksSeen(t, u)[u] = Null /\ l # Null
          BY <3>4, CacheAssumption DEF GetExpiredTwice
        <5> QED
          BY <3>1, <5>1, InLockFacts
      <4> QED
        BY <3>1, <4>1, <4>2, FailureStep
    <3> QED
      BY <2>2, <3>2, <3>3, <3>4 DEF Get
  <2>3. ASSUME NEW t \in Tasks, DeviceReads(t)
        PROVE  FailureInv'
    <3>1. Others(t) /\ pc'[t] = "read" /\ t \in asked
      BY <2>3 DEF DeviceReads, Others, IInv, TypeOK, FailureInv, AskersAsked
    <3> QED
      BY <2>3, <3>1, FailureStep DEF DeviceReads, lockVars
  <2>4. ASSUME NEW t \in Tasks, Return(t)
        PROVE  FailureInv'
    <3>1. /\ pc[t] \in {"sent", "read"} /\ UNCHANGED <<locks, dropped, uid, lock, asked>>
          /\ End(t, "done") \/ End(t, "raised")
      BY <2>4 DEF Return, Answer, NoAnswer, Raise, Finish
    <3>2. Others(t) /\ pc'[t] \in {"done", "raised"}
      BY <3>1, EndLocks
    <3>3. t \in asked
      BY <3>1 DEF FailureInv, AskersAsked
    <3>4. \A s \in Tasks \ {t} : output'[s] = output[s]
      BY <2>4 DEF Return, Answer, NoAnswer, Raise, Finish, IInv, TypeOK
    <3> QED
      BY <3>1, <3>2, <3>3, <3>4, FailureStep
  <2>5. CASE Clear \/ Tick \/ UNCHANGED vars
    BY <2>5 DEF Clear, Tick, vars, lockVars, taskVars, FailureInv, AskersAsked, FailureIsOwn
  <2> QED
    BY <2>1, <2>2, <2>3, <2>4, <2>5 DEF Next, Start, Enter
<1> QED
  BY <1>1, <1>2, Inductive, PTL DEF Spec

\* No call of `collect` fails for another one's reason: whoever returns without an
\* output or raises has asked the device itself, and the KeyError of AntaCache.get
\* only strikes a call whose lock an expiry had deleted.
THEOREM FailuresAreOwn == Spec => []FailureIsOwn
<1>1. FailureInv => FailureIsOwn
  BY DEF FailureInv
<1> QED
  BY <1>1, FailureInvariant, PTL

-----------------------------------------------------------------------------
(* The size of the cache *)

Distinct(keys) == \A i, j \in 1..Len(keys) : keys[i] = keys[j] => i = j

\* Removing a key removes that key and no other.
LEMMA WithoutKeys ==
    ASSUME NEW keys \in Seq(Uids), NEW u \in Uids, Distinct(keys)
    PROVE  /\ Distinct(Without(keys, u))
           /\ \A v \in Uids : Listed(v, Without(keys, u)) <=> v # u /\ Listed(v, keys)
           /\ Len(Without(keys, u)) = IF Listed(u, keys) THEN Len(keys) - 1 ELSE Len(keys)
<1>1. CASE ~Listed(u, keys)
  BY <1>1 DEF Without
<1>2. CASE Listed(u, keys)
  <2> DEFINE k == CHOOSE i \in 1..Len(keys) : keys[i] = u
             rest == Without(keys, u)
             at(i) == IF i < k THEN i ELSE i + 1
  <2>1. k \in 1..Len(keys) /\ keys[k] = u
    BY <1>2 DEF Listed
  <2>2. Len(keys) \in Nat
    BY LenProperties
  <2>3. rest = [j \in 1..(Len(keys) - 1) |-> IF j < k THEN keys[j] ELSE keys[j + 1]]
    BY <1>2 DEF Without
  <2> HIDE DEF k
  <2>4. Len(rest) = Len(keys) - 1
    <3>1. rest \in Seq(Uids) /\ DOMAIN rest = 1..(Len(keys) - 1)
      BY <2>3, WithoutType
    <3>2. DOMAIN rest = 1..Len(rest) /\ Len(rest) \in Nat /\ Len(keys) - 1 \in Nat
      BY <2>1, <2>2, <3>1, LenProperties
    <3> QED
      BY <3>1, <3>2
  <2>5. \A i \in 1..Len(rest) : rest[i] = keys[at(i)] /\ at(i) \in 1..Len(keys) /\ at(i) # k
    <3> SUFFICES ASSUME NEW i \in 1..Len(rest)
                 PROVE  rest[i] = keys[at(i)] /\ at(i) \in 1..Len(keys) /\ at(i) # k
      OBVIOUS
    <3>1. i \in 1..(Len(keys) - 1)
      BY <2>4
    <3>2. rest[i] = IF i < k THEN keys[i] ELSE keys[i + 1]
      BY <2>3, <3>1
    <3>3. CASE i < k
      BY <2>1, <2>2, <3>1, <3>2, <3>3
    <3>4. CASE ~(i < k)
      BY <2>1, <2>2, <3>1, <3>2, <3>4
    <3> QED
      BY <3>3, <3>4
  <2>6. Distinct(rest)
    <3> SUFFICES ASSUME NEW i \in 1..Len(rest), NEW j \in 1..Len(rest), rest[i] = rest[j]
                 PROVE  i = j
      BY DEF Distinct
    <3>1. at(i) = at(j)
      BY <2>5 DEF Distinct
    <3> QED
      BY <2>1, <2>2, <2>4, <3>1
  <2>7. ASSUME NEW v \in Uids
        PROVE  Listed(v, rest) <=> v # u /\ Listed(v, keys)
    <3>1. ASSUME Listed(v, rest) PROVE v # u /\ Listed(v, keys)
      <4>1. PICK i \in 1..Len(rest) : rest[i] = v
        BY <3>1 DEF Listed
      <4> QED
        BY <2>1, <2>5, <4>1 DEF Listed, Distinct
    <3>2. ASSUME v # u, Listed(v, keys) PROVE Listed(v, rest)
      <4>1. PICK i \in 1..Len(keys) : keys[i] = v
        BY <3>2 DEF Listed
      <4>2. i # k
        BY <2>1, <3>2, <4>1
      <4>3. CASE i < k
        BY <2>1, <2>2, <2>4, <2>5, <4>1, <4>3 DEF Listed
      <4>4. CASE i > k
        <5>1. i - 1 \in 1..Len(rest) /\ at(i - 1) = i
          BY <2>1, <2>2, <2>4, <4>4
        <5> QED
          BY <2>5, <4>1, <5>1 DEF Listed
      <4> QED
        BY <2>1, <4>2, <4>3, <4>4
    <3> QED
      BY <3>1, <3>2
  <2> QED
    BY <1>2, <2>4, <2>6, <2>7
<1> QED
  BY <1>1, <1>2

\* Adding a new key at the end.
LEMMA AppendKeys ==
    ASSUME NEW keys \in Seq(Uids), NEW u \in Uids, Distinct(keys), ~Listed(u, keys)
    PROVE  /\ Distinct(Append(keys, u))
           /\ \A v \in Uids : Listed(v, Append(keys, u)) <=> v = u \/ Listed(v, keys)
           /\ Len(Append(keys, u)) = Len(keys) + 1
<1> DEFINE more == Append(keys, u)
<1>1. /\ Len(keys) \in Nat /\ Len(more) = Len(keys) + 1 /\ more[Len(keys) + 1] = u
      /\ \A i \in 1..Len(keys) : more[i] = keys[i]
  BY AppendProperties, LenProperties
<1>2. \A i \in 1..Len(more) : i \in 1..Len(keys) \/ i = Len(keys) + 1
  BY <1>1
<1>3. Distinct(more)
  BY <1>1, <1>2 DEF Distinct, Listed
<1>4. \A v \in Uids : Listed(v, more) <=> v = u \/ Listed(v, keys)
  <2>1. \A i \in 1..Len(keys) : i \in 1..Len(more)
    BY <1>1
  <2>2. Len(keys) + 1 \in 1..Len(more)
    BY <1>1
  <2> QED
    BY <1>1, <1>2, <2>1, <2>2 DEF Listed
<1> QED
  BY <1>1, <1>3, <1>4

\* The keys that stay when `set` has made room.
LEMMA KeptKeys ==
    ASSUME order \in Seq(Uids), BoundedCache
    PROVE  /\ Kept \in Seq(Uids) /\ Distinct(Kept) /\ Len(Kept) \in Nat
           /\ Len(Kept) <= MaxSize
           /\ \A v \in Uids : Listed(v, Kept) => Listed(v, order)
<1>1. Len(order) \in Nat /\ Len(order) <= MaxSize + 1 /\ Distinct(order) /\ MaxSize \in Nat
  BY LenProperties, CacheAssumption DEF BoundedCache, Distinct
<1>2. CASE Len(order) > MaxSize
  <2>1. order # <<>> /\ Kept = Tail(order)
    BY <1>1, <1>2 DEF Kept
  <2>2. /\ Kept \in Seq(Uids) /\ Len(Kept) = Len(order) - 1
        /\ \A i \in 1..Len(Kept) : Kept[i] = order[i + 1] /\ i + 1 \in 1..Len(order)
    BY <1>1, <2>1, HeadTailProperties
  <2>3. Distinct(Kept)
    <3> SUFFICES ASSUME NEW i \in 1..Len(Kept), NEW j \in 1..Len(Kept), Kept[i] = Kept[j]
                 PROVE  i = j
      BY DEF Distinct
    <3>1. i + 1 = j + 1
      BY <1>1, <2>2 DEF Distinct
    <3> QED
      BY <3>1
  <2>4. \A v \in Uids : Listed(v, Kept) => Listed(v, order)
    BY <2>2 DEF Listed
  <2>5. Len(Kept) \in Nat /\ Len(Kept) <= MaxSize
    BY <1>1, <1>2, <2>2
  <2> QED
    BY <2>2, <2>3, <2>4, <2>5
<1>3. CASE ~(Len(order) > MaxSize)
  BY <1>1, <1>3 DEF Kept
<1> QED
  BY <1>2, <1>3

\* What `get` and `set` do to the dictionary keeps it bounded and listed.
LEMMA BoundedStep ==
    ASSUME TypeOK, BoundedCache, NEW u \in Uids,
           \/ Touch(u) /\ entry' = entry /\ entry[u] # Null
           \/ Forget(u)
           \/ \E val \in Time \cup {Null} : Store(u, val)
    PROVE  BoundedCache'
<1>1. /\ order \in Seq(Uids) /\ Distinct(order) /\ Len(order) \in Nat
      /\ Len(order) <= MaxSize + 1 /\ MaxSize \in Nat
      /\ \A v \in Uids : entry[v] # Null <=> Listed(v, order)
  BY LenProperties, CacheAssumption DEF TypeOK, BoundedCache, Distinct
<1> DEFINE rest == Without(order, u)
<1>2. /\ rest \in Seq(Uids) /\ Distinct(rest) /\ Len(rest) \in Nat
      /\ \A v \in Uids : Listed(v, rest) <=> v # u /\ Listed(v, order)
      /\ Len(rest) = IF Listed(u, order) THEN Len(order) - 1 ELSE Len(order)
  BY <1>1, WithoutKeys, WithoutType, LenProperties
<1>3. CASE Touch(u) /\ entry' = entry /\ entry[u] # Null
  <2>1. ~Listed(u, rest) /\ order' = Append(rest, u)
    BY <1>2, <1>3 DEF Touch
  <2>2. /\ Distinct(order') /\ Len(order') = Len(order)
        /\ \A v \in Uids : Listed(v, order') <=> v = u \/ Listed(v, rest)
    BY <1>1, <1>2, <1>3, <2>1, AppendKeys
  <2> QED
    BY <1>1, <1>2, <1>3, <2>2 DEF BoundedCache, Distinct
<1>4. CASE Forget(u)
  <2>1. order' = rest /\ \A v \in Uids : entry'[v] = IF v = u THEN Null ELSE entry[v]
    BY <1>4 DEF Forget, TypeOK
  <2>2. Len(rest) <= MaxSize + 1
    BY <1>1, <1>2
  <2>3. \A v \in Uids : entry'[v] # Null <=> Listed(v, order')
    BY <1>1, <1>2, <2>1
  <2> QED
    BY <1>2, <2>1, <2>2, <2>3 DEF BoundedCache, Distinct
<1>5. ASSUME NEW val \in Time \cup {Null}, Store(u, val)
      PROVE  BoundedCache'
  <2>1. /\ Kept \in Seq(Uids) /\ Distinct(Kept) /\ Len(Kept) \in Nat /\ Len(Kept) <= MaxSize
        /\ \A v \in Uids : Listed(v, Kept) => Listed(v, order)
    BY <1>1, KeptKeys
  <2>2. /\ Distinct(order') /\ Len(order') <= MaxSize + 1
        /\ \A v \in Uids : Listed(v, order') <=> v = u \/ Listed(v, Kept)
    <3>1. CASE Listed(u, Kept)
      BY <1>1, <1>5, <2>1, <3>1 DEF Store
    <3>2. CASE ~Listed(u, Kept)
      <4>1. order' = Append(Kept, u)
        BY <1>5, <3>2 DEF Store
      <4> QED
        BY <1>1, <2>1, <3>2, <4>1, AppendKeys
    <3> QED
      BY <3>1, <3>2
  <2>3. [ts |-> now, val |-> val] # Null
    <3>1. [ts |-> now, val |-> val] \in Entry
      BY <1>5 DEF TypeOK, Entry
    <3> QED
      BY <3>1, CacheAssumption
  <2>4. \A v \in Uids : entry'[v] # Null <=> Listed(v, order')
    BY <1>1, <1>5, <2>1, <2>2, <2>3 DEF Store
  <2> QED
    BY <2>2, <2>4 DEF BoundedCache, Distinct
<1> QED
  BY <1>3, <1>4, <1>5

\* The cache of a device never holds more than one entry above max_size, and its order
\* lists the cached uids exactly: `set` only evicts what is there, and `get` never
\* moves or deletes a key that is missing.
THEOREM CacheIsBounded == Spec => []BoundedCache
<1>1. Init => BoundedCache
  <2> SUFFICES ASSUME Init
               PROVE  BoundedCache
    OBVIOUS
  <2>1. Len(order) = 0 /\ \A u \in Uids : entry[u] = Null
    BY EmptySeq DEF Init
  <2> QED
    BY <2>1, CacheAssumption DEF BoundedCache, Listed
<1>2. IInv /\ BoundedCache /\ [Next]_vars => BoundedCache'
  <2> SUFFICES ASSUME IInv, BoundedCache, [Next]_vars
               PROVE  BoundedCache'
    OBVIOUS
  <2>1. ASSUME UNCHANGED cacheVars
        PROVE  BoundedCache'
    BY <2>1 DEF cacheVars, BoundedCache, Listed
  <2>2. ASSUME NEW t \in Tasks, Start(t) \/ DeviceReads(t)
        PROVE  BoundedCache'
    BY <2>1, <2>2 DEF Start, Wait, CollectUncached, DeviceReads
  <2>3. ASSUME NEW t \in Tasks, NEW u \in Uids, NEW l \in Tasks, Get(t, u, l)
        PROVE  BoundedCache'
    <3>1. \/ UNCHANGED cacheVars
          \/ Touch(u) /\ entry' = entry /\ entry[u] # Null
          \/ Forget(u)
      BY <2>3 DEF Get, GetMiss, GetNone, GetHit, GetExpired, GetExpiredTwice, Fresh
    <3> QED
      BY <2>1, <3>1, BoundedStep DEF IInv
  <2>4. ASSUME NEW t \in Tasks, Return(t)
        PROVE  BoundedCache'
    <3>1. uid[t] \in Uids /\ reading[t] \in Time \cup {Null}
      BY <2>4 DEF Return, Answer, NoAnswer, Raise, IInv, StartedHasUid, TypeOK
    <3>2. UNCHANGED cacheVars \/ \E val \in Time \cup {Null} : Store(uid[t], val)
      BY <2>4, <3>1 DEF Return, Answer, NoAnswer, Raise, Finish
    <3> QED
      BY <2>1, <3>1, <3>2, BoundedStep DEF IInv
  <2>5. CASE Clear
    <3>1. Len(order') = 0 /\ \A u \in Uids : entry'[u] = Null
      BY <2>5, EmptySeq DEF Clear
    <3> QED
      BY <3>1, CacheAssumption DEF BoundedCache, Listed
  <2>6. CASE Tick \/ UNCHANGED vars
    BY <2>1, <2>6 DEF Tick, vars
  <2> QED
    BY <2>2, <2>3, <2>4, <2>5, <2>6 DEF Next, Enter
<1> QED
  BY <1>1, <1>2, Inductive, PTL DEF Spec

-----------------------------------------------------------------------------
(* What the cache answers: whose answer a hit is, and that newer answers replace older  *)
(* ones.  Both rest on what a step can do to an entry (EntryStep): keep it, drop it, or *)
(* replace it by what a cached call just got.                                           *)

\* An entry with a value is kept by a step, or is the answer of a cached call that ends.
LEMMA EntryStep ==
    ASSUME TypeOK, StartedHasUid, [Next]_vars, NEW u \in Uids,
           entry'[u] # Null, entry'[u].val # Null
    PROVE  \/ entry'[u] = entry[u]
           \/ \E t \in Tasks : /\ Answer(t) /\ lock[t] # Null /\ uid[t] = u
                               /\ entry'[u] = [ts |-> now, val |-> reading[t]]
<1>1. CASE entry' = entry
  BY <1>1
<1>2. ASSUME NEW t \in Tasks, NEW v \in Uids, NEW l \in Tasks, Get(t, v, l)
      PROVE  entry'[u] = entry[u]
  <2>1. entry' = entry \/ Forget(v)
    BY <1>2 DEF Get, GetMiss, GetNone, GetHit, GetExpired, GetExpiredTwice, cacheVars
  <2> QED
    BY <2>1 DEF Forget, TypeOK
<1>3. ASSUME NEW t \in Tasks, NEW val \in Time \cup {Null}, Store(uid[t], val)
      PROVE  \/ entry'[u] = entry[u]
             \/ uid[t] = u /\ entry'[u] = [ts |-> now, val |-> val]
  BY <1>3 DEF Store
<1>4. ASSUME NEW t \in Tasks, Answer(t)
      PROVE  \/ entry'[u] = entry[u]
             \/ /\ lock[t] # Null /\ uid[t] = u
                /\ entry'[u] = [ts |-> now, val |-> reading[t]]
  <2>1. CASE lock[t] = Null
    BY <1>4, <2>1 DEF Answer, Finish, cacheVars
  <2>2. CASE lock[t] # Null
    <3>1. Store(uid[t], reading[t]) /\ reading[t] \in Time \cup {Null}
      BY <1>4, <2>2 DEF Answer, Finish, TypeOK
    <3> QED
      BY <1>3, <2>2, <3>1
  <2> QED
    BY <2>1, <2>2
<1>5. ASSUME NEW t \in Tasks, NoAnswer(t)
      PROVE  entry'[u] = entry[u]
  <2>1. CASE lock[t] = Null
    BY <1>5, <2>1 DEF NoAnswer, Finish, cacheVars
  <2>2. CASE lock[t] # Null
    <3>1. Store(uid[t], Null)
      BY <1>5, <2>2 DEF NoAnswer, Finish
    <3>2. entry'[u] = entry[u] \/ entry'[u] = [ts |-> now, val |-> Null]
      BY <1>3, <3>1
    <3> QED
      BY <3>2
  <2> QED
    BY <2>1, <2>2
<1>6. CASE Clear
  BY <1>6 DEF Clear
<1> QED
  BY <1>1, <1>2, <1>4, <1>5, <1>6
     DEF Next, Start, Enter, Return, Wait, CollectUncached, DeviceReads, Raise, Tick,
         vars, cacheVars

\* What is known of a call that is over does not change.
Stays(s) ==
    /\ pc'[s] = pc[s] /\ uid'[s] = uid[s] /\ lock'[s] = lock[s]
    /\ reading'[s] = reading[s] /\ output'[s] = output[s] /\ ended'[s] = ended[s]
    /\ s \in asked' <=> s \in asked

LEMMA DoneStays ==
    ASSUME IInv, [Next]_vars, NEW s \in Tasks, pc[s] = "done"
    PROVE  Stays(s)
<1>1. ASSUME UNCHANGED taskVars
      PROVE  Stays(s)
  BY <1>1 DEF taskVars, Stays
<1>2. ASSUME NEW t \in Tasks, NEW u \in Uids, Wait(t, u) \/ CollectUncached(t, u)
      PROVE  Stays(s)
  BY <1>2 DEF Wait, CollectUncached, Stays, IInv, TypeOK
<1>3. ASSUME NEW t \in Tasks, NEW u \in Uids, NEW l \in Tasks, Get(t, u, l)
      PROVE  Stays(s)
  <2>1. InLock(t, u, l) /\ Began(t, u, l) /\ Others(t)
    BY <1>3, GetLocks DEF Get, GetMiss, GetNone, GetHit, GetExpired, GetExpiredTwice
  <2>2. s # t
    BY <2>1 DEF InLock
  <2>3. output'[s] = output[s] /\ (s \in asked' <=> s \in asked) /\ ended'[s] = ended[s]
    BY <1>3, <2>2 DEF Get, GetMiss, GetNone, GetHit, GetExpired, GetExpiredTwice, GoAsk, Leave,
                      IInv, TypeOK
  <2> QED
    BY <2>1, <2>2, <2>3 DEF Others, Began, Stays
<1>4. ASSUME NEW t \in Tasks, DeviceReads(t)
      PROVE  Stays(s)
  BY <1>4 DEF DeviceReads, Stays, IInv, TypeOK
<1>5. ASSUME NEW t \in Tasks, Return(t)
      PROVE  Stays(s)
  <2>1. /\ pc[t] \in {"sent", "read"} /\ UNCHANGED <<locks, dropped, uid, lock, reading, asked>>
        /\ End(t, "done") \/ End(t, "raised")
    BY <1>5 DEF Return, Answer, NoAnswer, Raise, Finish
  <2>2. Others(t) /\ s # t
    BY <2>1, EndLocks
  <2>3. output'[s] = output[s]
    BY <1>5, <2>2 DEF Return, Answer, NoAnswer, Raise, Finish, IInv, TypeOK
  <2>4. ended'[s] = ended[s]
    BY <2>1, <2>2 DEF End, Leave, IInv, TypeOK
  <2> QED
    BY <2>1, <2>2, <2>3, <2>4 DEF Others, Stays
<1> QED
  BY <1>1, <1>2, <1>3, <1>4, <1>5 DEF Next, Start, Enter, Clear, Tick, vars

-----------------------------------------------------------------------------
(* Whose answer a hit is *)

\* Task s is a cached call that got val for uid u and ended at ts.
Got(s, u, val, ts) ==
    /\ s \in asked /\ uid[s] = u /\ lock[s] # Null /\ pc[s] = "done"
    /\ output[s] = val /\ reading[s] = val /\ ended[s] = ts

\* Every value in the cache is the answer of a call that ended when it was stored.
EntriesAreAnswers ==
    \A u \in Uids :
        entry[u] # Null /\ entry[u].val # Null =>
            \E s \in Tasks : Got(s, u, entry[u].val, entry[u].ts)

\* A call that ends in a step without having asked was served a fresh entry.
LEMMA ServedStep ==
    ASSUME IInv, FailureInv, [Next]_vars, NEW t \in Tasks, pc'[t] = "done", t \notin asked'
    PROVE  \/ pc[t] = "done"
           \/ \E u \in Uids : /\ Fresh(u) /\ entry[u].val # Null
                              /\ uid'[t] = u /\ output'[t] = entry[u].val /\ ended'[t] = now
<1> SUFFICES ASSUME pc[t] # "done"
             PROVE  \E u \in Uids : /\ Fresh(u) /\ entry[u].val # Null
                                    /\ uid'[t] = u /\ output'[t] = entry[u].val /\ ended'[t] = now
  OBVIOUS
<1>1. ASSUME NEW s \in Tasks, Others(s), pc'[s] # "done"
      PROVE  FALSE
  BY <1>1 DEF Others
<1>2. ASSUME NEW s \in Tasks, NEW u \in Uids, Wait(s, u) \/ CollectUncached(s, u)
      PROVE  FALSE
  BY <1>2 DEF Wait, CollectUncached, IInv, TypeOK
<1>3. ASSUME NEW s \in Tasks, NEW u \in Uids, NEW l \in Tasks, Get(s, u, l)
      PROVE  Fresh(u) /\ entry[u].val # Null
             /\ uid'[t] = u /\ output'[t] = entry[u].val /\ ended'[t] = now
  <2>1. Others(s)
    BY <1>3, GetLocks
  <2>2. s = t
    BY <2>1 DEF Others
  <2>3. GetHit(s, u, l)
    BY <1>3, <2>2 DEF Get, GetMiss, GetNone, GetExpired, GetExpiredTwice, GoAsk, Leave, IInv, TypeOK
  <2> QED
    BY <2>2, <2>3 DEF GetHit, Began, Leave, IInv, TypeOK
<1>4. ASSUME NEW s \in Tasks, DeviceReads(s)
      PROVE  FALSE
  BY <1>4 DEF DeviceReads, IInv, TypeOK
<1>5. ASSUME NEW s \in Tasks, Return(s)
      PROVE  FALSE
  <2>1. /\ pc[s] \in {"sent", "read"} /\ UNCHANGED <<locks, dropped, uid, lock, asked>>
        /\ End(s, "done") \/ End(s, "raised")
    BY <1>5 DEF Return, Answer, NoAnswer, Raise, Finish
  <2>2. Others(s)
    BY <2>1, EndLocks
  <2>3. s = t
    BY <2>2 DEF Others
  <2> QED
    BY <2>1, <2>3 DEF FailureInv, AskersAsked
<1>6. CASE Clear \/ Tick \/ UNCHANGED vars
  BY <1>6 DEF Clear, Tick, vars, taskVars
<1> QED
  BY <1>2, <1>3, <1>4, <1>5, <1>6 DEF Next, Start, Enter

\* A call that was served from the cache got, unchanged, the answer another cached call
\* got from the device for the same uid, and that call had ended less than the time to
\* live before (AntaCache.get), whatever expired, was evicted or cleared in between.
THEOREM HitsAreRecent == Spec => []HitIsRecentAnswer
<1> DEFINE HitInv == EntriesAreAnswers /\ HitIsRecentAnswer
<1>1. Init => HitInv
  BY DEF Init, EntriesAreAnswers, HitIsRecentAnswer
<1>2. IInv /\ FailureInv /\ HitInv /\ [Next]_vars => HitInv'
  <2> SUFFICES ASSUME IInv, FailureInv, HitInv, [Next]_vars
               PROVE  EntriesAreAnswers' /\ HitIsRecentAnswer'
    OBVIOUS
  <2>1. EntriesAreAnswers'
    <3> SUFFICES ASSUME NEW u \in Uids, entry'[u] # Null, entry'[u].val # Null
                 PROVE  \E s \in Tasks : Got(s, u, entry[u].val, entry[u].ts)'
      BY DEF EntriesAreAnswers
    <3>1. CASE entry'[u] = entry[u]
      <4>1. PICK s \in Tasks : Got(s, u, entry[u].val, entry[u].ts)
        BY <3>1 DEF EntriesAreAnswers
      <4>2. Stays(s)
        BY <4>1, DoneStays DEF Got
      <4> QED
        BY <3>1, <4>1, <4>2 DEF Got, Stays
    <3>2. ASSUME NEW t \in Tasks, Answer(t), lock[t] # Null, uid[t] = u,
                 entry'[u] = [ts |-> now, val |-> reading[t]]
          PROVE  Got(t, u, entry[u].val, entry[u].ts)'
      <4>1. End(t, "done") /\ UNCHANGED <<locks, dropped, uid, lock, reading, asked>>
            /\ pc[t] = "read" /\ output' = [output EXCEPT ![t] = reading[t]]
        BY <3>2 DEF Answer, Finish
      <4>2. pc'[t] = "done"
        BY <4>1, EndLocks
      <4>3. t \in asked /\ output'[t] = reading[t]
        BY <4>1 DEF FailureInv, AskersAsked, IInv, TypeOK
      <4>4. ended'[t] = now
        BY <3>2, <4>1 DEF End, Leave, IInv, TypeOK
      <4> QED
        BY <3>2, <4>1, <4>2, <4>3, <4>4 DEF Got
    <3> QED
      BY <3>1, <3>2, EntryStep DEF IInv
  <2>2. HitIsRecentAnswer'
    <3> SUFFICES ASSUME NEW t \in Tasks, pc'[t] = "done", t \notin asked'
                 PROVE  \E s \in asked' :
                            /\ uid'[s] = uid'[t] /\ lock'[s] # Null /\ pc'[s] = "done"
                            /\ output'[s] = output'[t] /\ reading'[s] = output'[t]
                            /\ ended'[t] - ended'[s] < Ttl
      BY DEF HitIsRecentAnswer
    <3>1. CASE pc[t] = "done"
      <4>1. Stays(t)
        BY <3>1, DoneStays
      <4>2. t \notin asked
        BY <4>1 DEF Stays
      <4>3. PICK s \in asked : /\ uid[s] = uid[t] /\ lock[s] # Null /\ pc[s] = "done"
                               /\ output[s] = output[t] /\ reading[s] = output[t]
                               /\ ended[t] - ended[s] < Ttl
        BY <3>1, <4>2 DEF HitIsRecentAnswer
      <4>4. Stays(s)
        BY <4>3, DoneStays DEF IInv, TypeOK
      <4> QED
        BY <4>1, <4>3, <4>4 DEF Stays
    <3>2. ASSUME NEW u \in Uids, Fresh(u), entry[u].val # Null,
                 uid'[t] = u, output'[t] = entry[u].val, ended'[t] = now
          PROVE  \E s \in asked' :
                            /\ uid'[s] = uid'[t] /\ lock'[s] # Null /\ pc'[s] = "done"
                            /\ output'[s] = output'[t] /\ reading'[s] = output'[t]
                            /\ ended'[t] - ended'[s] < Ttl
      <4>1. PICK s \in Tasks : Got(s, u, entry[u].val, entry[u].ts)
        BY <3>2 DEF EntriesAreAnswers, Fresh
      <4>2. Stays(s)
        BY <4>1, DoneStays DEF Got
      <4> QED
        BY <3>2, <4>1, <4>2 DEF Got, Stays, Fresh
    <3> QED
      BY <3>1, <3>2, ServedStep
  <2> QED
    BY <2>1, <2>2
<1>3. HitInv => HitIsRecentAnswer
  OBVIOUS
<1> QED
  <2> HIDE DEF HitInv
  <2> QED
    BY <1>1, <1>2, <1>3, Inductive, FailureInvariant, PTL DEF Spec

-----------------------------------------------------------------------------
(* Newer answers replace older ones *)

\* An expiry deleted a lock of uid u.
Lost(u) == \E l \in dropped : uid[l] = u

\* What the device answered is not of the future.
ValuesPast ==
    \A u \in Uids : entry[u] # Null /\ entry[u].val # Null => entry[u].val <= now

\* A lock object is the lock of the uid of the call that created it.
LocksNamed ==
    /\ \A t \in Tasks : pc[t] = "idle" => uid[t] = Null
    /\ \A t \in Tasks : lock[t] # Null => uid[lock[t]] = uid[t]
    /\ \A u \in Uids : locks[u] # Null => uid[locks[u]] = u

\* A cached call that has its reading took it after whatever is cached for its uid.
ReadIsLater ==
    \A t \in Tasks :
        /\ pc[t] = "read" /\ lock[t] # Null /\ ~Lost(uid[t])
        /\ entry[uid[t]] # Null /\ entry[uid[t]].val # Null
        => reading[t] \in Time /\ entry[uid[t]].val <= reading[t]

\* A reading that is there is the time at which it was taken.
HasRead == \A t \in Tasks : pc[t] = "read" => reading[t] \in Time /\ reading[t] <= now

ForwardInv == ValuesPast /\ LocksNamed /\ HasRead /\ ReadIsLater

\* A call that has started keeps its uid.
LEMMA UidStays ==
    ASSUME IInv, [Next]_vars, NEW s \in Tasks, pc[s] # "idle"
    PROVE  uid'[s] = uid[s] /\ pc'[s] # "idle" /\ (lock[s] # Null => lock'[s] = lock[s])
<1>1. ASSUME UNCHANGED taskVars
      PROVE  uid'[s] = uid[s] /\ pc'[s] # "idle" /\ (lock[s] # Null => lock'[s] = lock[s])
  BY <1>1 DEF taskVars
<1>2. ASSUME NEW t \in Tasks, NEW u \in Uids, Wait(t, u) \/ CollectUncached(t, u)
      PROVE  uid'[s] = uid[s] /\ pc'[s] # "idle" /\ (lock[s] # Null => lock'[s] = lock[s])
  BY <1>2 DEF Wait, CollectUncached, IInv, TypeOK
<1>3. ASSUME NEW t \in Tasks, NEW u \in Uids, NEW l \in Tasks, Get(t, u, l)
      PROVE  uid'[s] = uid[s] /\ pc'[s] # "idle" /\ (lock[s] # Null => lock'[s] = lock[s])
  <2>1. InLock(t, u, l) /\ Began(t, u, l) /\ Others(t) /\ StartedHasUid' /\ LockInv'
    BY <1>3, GetLocks DEF Get, GetMiss, GetNone, GetHit, GetExpired, GetExpiredTwice
  <2>2. CASE s # t
    BY <2>1, <2>2 DEF Others
  <2>3. CASE s = t
    <3>1. u = uid[t] /\ l = lock[t] /\ lock'[t] = l /\ uid'[t] = u
      BY <2>1, <2>3 DEF InLock, Began, IInv, TypeOK
    <3>2. pc'[t] # "idle"
      BY <2>1, <3>1, CacheAssumption DEF LockInv, IdleHasNoLock
    <3> QED
      BY <2>3, <3>1, <3>2
  <2> QED
    BY <2>2, <2>3
<1>4. ASSUME NEW t \in Tasks, DeviceReads(t)
      PROVE  uid'[s] = uid[s] /\ pc'[s] # "idle" /\ (lock[s] # Null => lock'[s] = lock[s])
  BY <1>4 DEF DeviceReads, IInv, TypeOK
<1>5. ASSUME NEW t \in Tasks, Return(t)
      PROVE  uid'[s] = uid[s] /\ pc'[s] # "idle" /\ (lock[s] # Null => lock'[s] = lock[s])
  <2>1. /\ pc[t] \in {"sent", "read"} /\ UNCHANGED <<locks, dropped, uid, lock>>
        /\ End(t, "done") \/ End(t, "raised")
    BY <1>5 DEF Return, Answer, NoAnswer, Raise, Finish
  <2>2. Others(t) /\ pc'[t] \in {"done", "raised"}
    BY <2>1, EndLocks
  <2> QED
    BY <2>1, <2>2 DEF Others
<1> QED
  BY <1>1, <1>2, <1>3, <1>4, <1>5 DEF Next, Start, Enter, Clear, Tick, vars

\* A call has its reading already, or takes it in this step.
LEMMA ReadStep ==
    ASSUME IInv, [Next]_vars, NEW t \in Tasks, pc'[t] = "read"
    PROVE  \/ DeviceReads(t)
           \/ pc[t] = "read" /\ reading'[t] = reading[t] /\ uid'[t] = uid[t] /\ lock'[t] = lock[t]
<1>1. ASSUME UNCHANGED taskVars
      PROVE  pc[t] = "read" /\ reading'[t] = reading[t] /\ uid'[t] = uid[t] /\ lock'[t] = lock[t]
  BY <1>1 DEF taskVars
<1>2. ASSUME NEW s \in Tasks, NEW u \in Uids, Wait(s, u) \/ CollectUncached(s, u)
      PROVE  pc[t] = "read" /\ reading'[t] = reading[t] /\ uid'[t] = uid[t] /\ lock'[t] = lock[t]
  BY <1>2 DEF Wait, CollectUncached, IInv, TypeOK
<1>3. ASSUME NEW s \in Tasks, NEW u \in Uids, NEW l \in Tasks, Get(s, u, l)
      PROVE  pc[t] = "read" /\ reading'[t] = reading[t] /\ uid'[t] = uid[t] /\ lock'[t] = lock[t]
  <2>1. Others(s) /\ reading' = reading
    BY <1>3, GetLocks DEF Get, GetMiss, GetNone, GetHit, GetExpired, GetExpiredTwice, Began
  <2>2. s # t
    BY <1>3 DEF Get, GetMiss, GetNone, GetHit, GetExpired, GetExpiredTwice, GoAsk, Leave, IInv, TypeOK
  <2> QED
    BY <2>1, <2>2 DEF Others
<1>4. ASSUME NEW s \in Tasks, DeviceReads(s), s # t
      PROVE  pc[t] = "read" /\ reading'[t] = reading[t] /\ uid'[t] = uid[t] /\ lock'[t] = lock[t]
  BY <1>4 DEF DeviceReads, IInv, TypeOK
<1>5. ASSUME NEW s \in Tasks, Return(s)
      PROVE  pc[t] = "read" /\ reading'[t] = reading[t] /\ uid'[t] = uid[t] /\ lock'[t] = lock[t]
  <2>1. /\ pc[s] \in {"sent", "read"} /\ UNCHANGED <<locks, dropped, uid, lock, reading>>
        /\ End(s, "done") \/ End(s, "raised")
    BY <1>5 DEF Return, Answer, NoAnswer, Raise, Finish
  <2>2. Others(s) /\ pc'[s] \in {"done", "raised"}
    BY <2>1, EndLocks
  <2> QED
    BY <2>1, <2>2 DEF Others
<1> QED
  BY <1>1, <1>2, <1>3, <1>4, <1>5 DEF Next, Start, Enter, Clear, Tick, vars

\* A deleted lock stays deleted, and so does its uid.
LEMMA LostStays ==
    ASSUME IInv, LocksNamed, [Next]_vars, NEW u \in Uids, Lost(u)
    PROVE  Lost(u)'
<1>1. PICK l \in dropped : uid[l] = u
  BY DEF Lost
<1>2. l \in Tasks /\ pc[l] # "idle"
  BY <1>1, CacheAssumption DEF LocksNamed, IInv, TypeOK
<1>3. dropped \subseteq dropped'
  BY DEF Next, Start, Enter, Return, Wait, CollectUncached, Get, GetMiss, GetNone, GetHit,
         GetExpired, GetExpiredTwice, DeviceReads, Answer, NoAnswer, Raise, Finish, Clear, Tick,
         vars, lockVars
<1> QED
  BY <1>1, <1>2, <1>3, UidStays DEF Lost

\* A call that has not started after a step had not before, and was left alone.
LEMMA IdleStays ==
    ASSUME IInv, [Next]_vars, NEW t \in Tasks, pc'[t] = "idle"
    PROVE  pc[t] = "idle" /\ uid'[t] = uid[t]
<1>1. pc[t] = "idle"
  BY UidStays
<1>2. ASSUME NEW s \in Tasks, NEW u \in Uids, Wait(s, u) \/ CollectUncached(s, u)
      PROVE  uid'[t] = uid[t]
  BY <1>2 DEF Wait, CollectUncached, IInv, TypeOK
<1>3. ASSUME NEW s \in Tasks, NEW u \in Uids, NEW l \in Tasks, Get(s, u, l)
      PROVE  uid'[t] = uid[t]
  <2>1. Others(s) /\ LockInv' /\ Began(s, u, l)
    BY <1>3, GetLocks DEF Get, GetMiss, GetNone, GetHit, GetExpired, GetExpiredTwice
  <2>2. lock'[s] = l /\ l # Null
    BY <2>1, CacheAssumption DEF Began, IInv, TypeOK
  <2>3. s # t
    BY <2>1, <2>2 DEF LockInv, IdleHasNoLock
  <2> QED
    BY <2>1, <2>3 DEF Others
<1> QED
  BY <1>1, <1>2, <1>3 DEF Next, Start, Enter, Return, DeviceReads, Answer, NoAnswer, Raise,
                          Finish, Clear, Tick, vars, taskVars

\* Every lock object keeps its uid through a step.
LEMMA NamedStep ==
    ASSUME IInv, LocksNamed, [Next]_vars
    PROVE  LocksNamed'
<1>1. \A t \in Tasks : pc'[t] = "idle" => uid'[t] = Null
  BY IdleStays DEF LocksNamed
<1>2. ASSUME NEW t \in Tasks, NEW u \in Uids, pc[t] = "idle", uid'[t] = u
      PROVE  uid'[LockFor(t, u)] = u
  <2>1. CASE locks[u] = Null
    BY <1>2, <2>1 DEF LockFor
  <2>2. CASE locks[u] # Null
    <3>1. locks[u] \in Tasks /\ pc[locks[u]] # "idle" /\ uid[locks[u]] = u
      BY <2>2 DEF IInv, TypeOK, LockInv, LocksStarted, LocksNamed
    <3> QED
      BY <2>2, <3>1, UidStays DEF LockFor
  <2> QED
    BY <2>1, <2>2
<1>3. ASSUME NEW t \in Tasks, lock'[t] # Null
      PROVE  uid'[lock'[t]] = uid'[t]
  <2>1. CASE lock[t] # Null
    <3>1. pc[t] # "idle" /\ lock[t] \in Tasks /\ pc[lock[t]] # "idle" /\ uid[lock[t]] = uid[t]
      BY <2>1 DEF IInv, TypeOK, LockInv, LocksStarted, IdleHasNoLock, LocksNamed
    <3> QED
      BY <2>1, <3>1, UidStays
  <2>2. CASE lock[t] = Null
    <3>1. ASSUME NEW s \in Tasks, NEW u \in Uids, Wait(s, u)
          PROVE  uid'[lock'[t]] = uid'[t]
      <4>1. s = t /\ pc[t] = "idle" /\ uid'[t] = u /\ lock'[t] = LockFor(t, u)
        BY <1>3, <2>2, <3>1 DEF Wait, IInv, TypeOK
      <4> QED
        BY <1>2, <4>1
    <3>2. ASSUME NEW s \in Tasks, NEW u \in Uids, NEW l \in Tasks, Get(s, u, l)
          PROVE  uid'[lock'[t]] = uid'[t]
      <4>1. InLock(s, u, l) /\ Began(s, u, l)
        BY <3>2 DEF Get, GetMiss, GetNone, GetHit, GetExpired, GetExpiredTwice
      <4>2. s = t /\ uid'[t] = u /\ lock'[t] = l
        BY <1>3, <2>2, <4>1 DEF Began, IInv, TypeOK
      <4>3. pc[t] = "idle" /\ l = LockFor(t, u)
        BY <2>2, <4>1, <4>2, CacheAssumption DEF InLock
      <4> QED
        BY <1>2, <4>2, <4>3
    <3>3. CASE lock' = lock
      BY <1>3, <2>2, <3>3
    <3> QED
      BY <3>1, <3>2, <3>3
         DEF Next, Start, Enter, Return, CollectUncached, DeviceReads, Answer, NoAnswer, Raise,
             Finish, Clear, Tick, vars, taskVars
  <2> QED
    BY <2>1, <2>2
<1>4. ASSUME NEW v \in Uids, locks'[v] # Null
      PROVE  uid'[locks'[v]] = v
  <2>1. ASSUME locks'[v] = locks[v]
        PROVE  uid'[locks'[v]] = v
    <3>1. locks[v] \in Tasks /\ pc[locks[v]] # "idle" /\ uid[locks[v]] = v
      BY <1>4, <2>1 DEF IInv, TypeOK, LockInv, LocksStarted, LocksNamed
    <3> QED
      BY <2>1, <3>1, UidStays
  <2>2. ASSUME NEW s \in Tasks, NEW u \in Uids, NEW l \in Tasks, Get(s, u, l)
        PROVE  uid'[locks'[v]] = v
    <3>1. locks'[v] \in {locks[v], LocksSeen(s, u)[v], Null}
      BY <2>2 DEF Get, GetMiss, GetNone, GetHit, GetExpired, GetExpiredTwice, LocksSeen, IInv, TypeOK
    <3>2. \/ LocksSeen(s, u)[v] = locks[v]
          \/ v = u /\ pc[s] = "idle" /\ LocksSeen(s, u)[v] = LockFor(s, u)
      BY DEF LocksSeen, IInv, TypeOK
    <3>3. uid'[s] = u
      BY <2>2 DEF Get, GetMiss, GetNone, GetHit, GetExpired, GetExpiredTwice, Began, IInv, TypeOK
    <3> QED
      BY <1>2, <1>4, <2>1, <3>1, <3>2, <3>3
  <2> QED
    BY <2>1, <2>2
       DEF Next, Start, Enter, Return, Wait, CollectUncached, DeviceReads, Answer, NoAnswer, Raise,
           Finish, Clear, Tick, vars, lockVars
<1> QED
  BY <1>1, <1>3, <1>4 DEF LocksNamed

\* As long as no expiry has deleted a lock of its uid, a call that has its reading is
\* alone with it: nobody else's answer for the uid is stored before it ends.
LEMMA ReadLaterStep ==
    ASSUME IInv, OverlapOnlyAfterExpiry, ForwardInv, [Next]_vars
    PROVE  ReadIsLater'
<1> SUFFICES ASSUME NEW t \in Tasks, pc'[t] = "read", lock'[t] # Null, ~Lost(uid[t])',
                    entry'[uid'[t]] # Null, entry'[uid'[t]].val # Null
             PROVE  reading'[t] \in Time /\ entry'[uid'[t]].val <= reading'[t]
  BY DEF ReadIsLater
<1>1. CASE DeviceReads(t)
  <2>1. uid' = uid /\ entry' = entry /\ reading'[t] = now /\ now \in Time /\ uid[t] \in Uids
    BY <1>1 DEF DeviceReads, cacheVars, IInv, TypeOK, StartedHasUid
  <2> QED
    BY <2>1 DEF ForwardInv, ValuesPast
<1>2. CASE pc[t] = "read" /\ reading'[t] = reading[t] /\ uid'[t] = uid[t] /\ lock'[t] = lock[t]
  <2>1. uid[t] \in Uids /\ lock[t] # Null
    BY <1>2 DEF IInv, StartedHasUid
  <2>2. ~Lost(uid[t])
    BY <1>2, <2>1, LostStays DEF ForwardInv, Lost
  <2>3. CASE entry'[uid[t]] = entry[uid[t]]
    BY <1>2, <2>1, <2>2, <2>3 DEF ForwardInv, ReadIsLater
  <2>4. ASSUME NEW s \in Tasks, Answer(s), lock[s] # Null, uid[s] = uid[t]
        PROVE  FALSE
    <3>1. pc[s] = "read" /\ s # t
      <4>1. Finish(s, reading[s]) /\ pc[s] = "read"
        BY <2>4 DEF Answer
      <4>2. pc'[s] = "done"
        BY <4>1, EndLocks DEF Finish
      <4> QED
        BY <4>1, <4>2
    <3>2. lock[s] \in dropped \/ lock[t] \in dropped
      BY <1>2, <2>1, <2>4, <3>1 DEF OverlapOnlyAfterExpiry, InFlight
    <3>3. uid[lock[s]] = uid[t] /\ uid[lock[t]] = uid[t]
      BY <2>1, <2>4 DEF ForwardInv, LocksNamed
    <3> QED
      BY <2>2, <3>2, <3>3 DEF Lost
  <2>5. \/ entry'[uid[t]] = entry[uid[t]]
        \/ \E s \in Tasks : Answer(s) /\ lock[s] # Null /\ uid[s] = uid[t]
    BY <1>2, <2>1, EntryStep DEF IInv
  <2> QED
    BY <2>3, <2>4, <2>5
<1> QED
  BY <1>1, <1>2, ReadStep

\* As long as no expiry deleted a lock of the uid, the cache of a device only moves
\* forward: an answer is never replaced by one the device gave earlier (AntaCache.set
\* under the lock of collect).
THEOREM CacheIsForward == Spec => CacheMovesForward
<1>1. Init => ForwardInv
  BY CacheAssumption DEF Init, ForwardInv, ValuesPast, LocksNamed, HasRead, ReadIsLater
<1>2. IInv /\ OverlapOnlyAfterExpiry /\ ForwardInv /\ [Next]_vars => ForwardInv'
  <2> SUFFICES ASSUME IInv, OverlapOnlyAfterExpiry, ForwardInv, [Next]_vars
               PROVE  ForwardInv'
    OBVIOUS
  <2>1. now \in Time /\ now' \in {now, now + 1} /\ Time \subseteq Int
    BY DEF Next, Start, Enter, Return, Wait, CollectUncached, Get, GetMiss, GetNone, GetHit,
           GetExpired, GetExpiredTwice, Began, DeviceReads, Answer, NoAnswer, Raise, Finish, Clear,
           Tick, vars, IInv, TypeOK, Time
  <2>a. \A x \in Time : x <= now => x <= now'
    BY <2>1 DEF Time
  <2>2. ValuesPast'
    <3> SUFFICES ASSUME NEW u \in Uids, entry'[u] # Null, entry'[u].val # Null
                 PROVE  entry'[u].val <= now'
      BY DEF ValuesPast
    <3>1. CASE entry'[u] = entry[u]
      <4>1. entry[u].val \in Time /\ entry[u].val <= now
        BY <3>1 DEF ForwardInv, ValuesPast, IInv, TypeOK, Entry
      <4> QED
        BY <2>a, <3>1, <4>1
    <3>2. ASSUME NEW t \in Tasks, Answer(t), entry'[u] = [ts |-> now, val |-> reading[t]]
          PROVE  entry'[u].val <= now'
      <4>1. reading[t] \in Time /\ reading[t] <= now
        BY <3>2 DEF Answer, ForwardInv, HasRead
      <4> QED
        BY <2>a, <3>2, <4>1
    <3> QED
      BY <3>1, <3>2, EntryStep DEF IInv
  <2>3. HasRead'
    <3> SUFFICES ASSUME NEW t \in Tasks, pc'[t] = "read"
                 PROVE  reading'[t] \in Time /\ reading'[t] <= now'
      BY DEF HasRead
    <3>1. CASE DeviceReads(t)
      <4>1. reading'[t] = now /\ now' = now
        BY <3>1 DEF DeviceReads, IInv, TypeOK
      <4> QED
        BY <2>1, <4>1 DEF Time
    <3>2. CASE pc[t] = "read" /\ reading'[t] = reading[t]
      BY <2>a, <3>2 DEF ForwardInv, HasRead
    <3> QED
      BY <3>1, <3>2, ReadStep
  <2> QED
    BY <2>2, <2>3, NamedStep, ReadLaterStep DEF ForwardInv
<1>3. ASSUME IInv, ForwardInv, [Next]_vars, NEW u \in Uids,
             entry[u] # Null, entry'[u] # Null, entry[u].val # Null, entry'[u].val # Null,
             entry'[u].val < entry[u].val
      PROVE  Lost(u)
  <2>1. entry[u].val \in Time /\ entry[u].val \in Int
    BY <1>3 DEF IInv, TypeOK, Entry, Time
  <2>2. entry'[u] # entry[u]
    BY <1>3, <2>1
  <2>3. PICK t \in Tasks : /\ Answer(t) /\ lock[t] # Null /\ uid[t] = u
                           /\ entry'[u] = [ts |-> now, val |-> reading[t]]
    BY <1>3, <2>2, EntryStep DEF IInv
  <2>4. pc[t] = "read" /\ entry'[u].val = reading[t]
    BY <2>3 DEF Answer
  <2>5. Lost(u) \/ (reading[t] \in Time /\ entry[u].val <= reading[t])
    BY <1>3, <2>3, <2>4 DEF ForwardInv, ReadIsLater
  <2> QED
    BY <1>3, <2>1, <2>4, <2>5 DEF Time
<1>4. IInv /\ ForwardInv /\ [Next]_vars =>
          [\A u \in Uids :
              /\ entry[u] # Null /\ entry'[u] # Null
              /\ entry[u].val # Null /\ entry'[u].val # Null
              /\ entry'[u].val < entry[u].val
              => \E l \in dropped : uid[l] = u]_vars
  BY <1>3 DEF Lost
<1> QED
  BY <1>1, <1>2, <1>4, Inductive, OverlapNeedsExpiry, PTL DEF Spec, CacheMovesForward
=============================================================================
