---------------------------- MODULE CommandCache ----------------------------
(***************************************************************************)
(* AntaDevice.collect and the AntaCache of one device (anta/device.py).    *)
(*                                                                         *)
(* A task is one call of `collect`: asyncio runs it without interruption   *)
(* from one await that really suspends to the next, so an action is such a *)
(* stretch of code.  The only suspensions are the wait for the lock of the *)
(* command's uid and the await of `_collect`.                              *)
(*                                                                         *)
(* A lock object is named by the task whose look-up in the defaultdict     *)
(* `locks` created it.  asyncio.Lock (external) is FIFO: a release wakes   *)
(* the first waiter and no newcomer can pass it, which is modelled as a    *)
(* hand-over.  `_collect` is abstract: the device runs the command at some *)
(* moment (the reading is that moment), and the call ends with the         *)
(* reading, with no output (the errors `_collect` handles) or by raising.  *)
(* The hit counters are left out: they are only logged.                    *)
(***************************************************************************)
EXTENDS Integers, Sequences

CONSTANTS
    Tasks,      \* the calls of `collect`
    Uids,       \* the uids of the commands
    MaxSize,    \* AntaCache.max_size
    Ttl,        \* AntaCache.ttl
    MaxTime,    \* bound of the clock
    Null        \* Python's None

Time  == 0..MaxTime
Entry == [ts : Time, val : Time \cup {Null}]

ASSUME CacheAssumption ==
    /\ MaxSize \in Nat
    /\ Ttl \in Nat \ {0}
    /\ MaxTime \in Nat
    /\ Null \notin Int
    /\ Null \notin Entry
    /\ Null \notin Tasks \cup Uids

VARIABLES
    now,        \* monotonic()
    entry,      \* the OrderedDict `cache`: uid -> (timestamp, value)
    order,      \* ... and its order, least recently used first
    locks,      \* the defaultdict `locks`
    holder,     \* per lock object: the task inside `async with`
    waiters,    \* per lock object: the tasks suspended in acquire()
    pc,         \* per task: where the call is
    uid,        \* per task: its command's uid
    lock,       \* per task: the lock object it looked up, Null without a cache
    reading,    \* per task: when the device ran its command
    output,     \* per task: command.output
    dropped,    \* history: lock objects deleted from `locks`
    asked,      \* history: tasks that reached `_collect`
    ended       \* history, per task: when it ended

cacheVars == <<entry, order>>
lockVars  == <<locks, holder, waiters, dropped>>
taskVars  == <<pc, uid, lock, reading, output, asked, ended>>
vars      == <<now, cacheVars, lockVars, taskVars>>

PcValues == {"idle", "queued", "woken", "sent", "read", "done", "raised", "keyerror"}

-----------------------------------------------------------------------------
(* AntaCache *)

\* Mutant of Fresh: an entry is still served at the very end of its life.
FreshLate(u) == entry[u] # Null /\ now - entry[u].ts <= Ttl

Fresh(u)   == entry[u] # Null /\ now - entry[u].ts < Ttl
Expired(u) == entry[u] # Null /\ now - entry[u].ts >= Ttl

Listed(u, keys) == \E i \in 1..Len(keys) : keys[i] = u

\* The keys without u, in the same order (u occurs at most once).
Without(keys, u) ==
    IF Listed(u, keys)
    THEN LET i == CHOOSE i \in 1..Len(keys) : keys[i] = u
         IN  [j \in 1..(Len(keys) - 1) |-> IF j < i THEN keys[j] ELSE keys[j + 1]]
    ELSE keys

\* cache.move_to_end(u)
Touch(u) == order' = Append(Without(order, u), u)

\* del cache[u]
Forget(u) ==
    /\ entry' = [entry EXCEPT ![u] = Null]
    /\ order' = Without(order, u)

\* Mutant of Kept: `set` never evicts.
KeptAll == order

\* The keys that stay when `set` has made room: it evicts only above max_size.
Kept == IF Len(order) > MaxSize THEN Tail(order) ELSE order

\* AntaCache.set: a key that is already there keeps its place.
Store(u, val) ==
    /\ entry' = [v \in Uids |-> IF v = u THEN [ts |-> now, val |-> val]
                                ELSE IF Listed(v, Kept) THEN entry[v]
                                ELSE Null]
    /\ order' = IF Listed(u, Kept) THEN Kept ELSE Append(Kept, u)

-----------------------------------------------------------------------------
(* asyncio.Lock *)

NextHolder(l) == IF waiters[l] = <<>> THEN Null ELSE Head(waiters[l])

\* Task t ends as `end` and leaves `async with` on lock l.
Leave(t, l, end) ==
    /\ holder'  = [holder EXCEPT ![l] = NextHolder(l)]
    /\ waiters' = [waiters EXCEPT ![l] = IF @ = <<>> THEN @ ELSE Tail(@)]
    /\ pc' = [s \in Tasks |-> IF s = t THEN end
                              ELSE IF s = NextHolder(l) THEN "woken"
                              ELSE pc[s]]
    /\ ended' = [ended EXCEPT ![t] = now]

\* Mutant of LockFor: the new lock is not kept in the dictionary.
LockForCall(t, u) == t

\* The lock object that `self.cache.locks[command.uid]` returns to task t.
LockFor(t, u) == IF locks[u] = Null THEN t ELSE locks[u]

-----------------------------------------------------------------------------
(* AntaDevice.collect *)

\* `async with` finds the lock taken.
Wait(t, u) ==
    LET l == LockFor(t, u) IN
    /\ pc[t] = "idle"
    /\ holder[l] # Null
    /\ pc'      = [pc EXCEPT ![t] = "queued"]
    /\ uid'     = [uid EXCEPT ![t] = u]
    /\ lock'    = [lock EXCEPT ![t] = l]
    /\ waiters' = [waiters EXCEPT ![l] = Append(@, t)]
    /\ UNCHANGED <<now, cacheVars, locks, holder, dropped, reading, output, asked, ended>>

\* Task t runs `cache.get(u)` inside lock l: it found l free, or l was handed to it.
InLock(t, u, l) ==
    \/ pc[t] = "idle" /\ l = LockFor(t, u) /\ holder[l] = Null
    \/ pc[t] = "woken" /\ u = uid[t] /\ l = lock[t]

\* The dictionary of locks as `get` sees it.
LocksSeen(t, u) ==
    IF pc[t] = "idle" THEN [locks EXCEPT ![u] = LockFor(t, u)] ELSE locks

Began(t, u, l) ==
    /\ uid'  = [uid EXCEPT ![t] = u]
    /\ lock' = [lock EXCEPT ![t] = l]
    /\ UNCHANGED <<now, reading>>

\* `get` returned None: go on to `_collect`, holding the lock.
GoAsk(t, l) ==
    /\ pc'     = [pc EXCEPT ![t] = "sent"]
    /\ holder' = [holder EXCEPT ![l] = t]
    /\ asked'  = asked \cup {t}
    /\ UNCHANGED <<waiters, output, ended>>

GetMiss(t, u, l) ==
    /\ InLock(t, u, l)
    /\ entry[u] = Null
    /\ locks' = LocksSeen(t, u)
    /\ Began(t, u, l) /\ GoAsk(t, l)
    /\ UNCHANGED <<cacheVars, dropped>>

\* A cached None is a hit for `get` and a miss for `collect`.
GetNone(t, u, l) ==
    /\ InLock(t, u, l)
    /\ Fresh(u) /\ entry[u].val = Null
    /\ Touch(u)
    /\ locks' = LocksSeen(t, u)
    /\ Began(t, u, l) /\ GoAsk(t, l)
    /\ UNCHANGED <<entry, dropped>>

\* Mutant of GetHit: `collect` does not test that the cached output is not None.
GetHitAny(t, u, l) ==
    /\ InLock(t, u, l)
    /\ Fresh(u)
    /\ Touch(u)
    /\ locks'  = LocksSeen(t, u)
    /\ output' = [output EXCEPT ![t] = entry[u].val]
    /\ Began(t, u, l) /\ Leave(t, l, "done")
    /\ UNCHANGED <<entry, dropped, asked>>

GetHit(t, u, l) ==
    /\ InLock(t, u, l)
    /\ Fresh(u) /\ entry[u].val # Null
    /\ Touch(u)
    /\ locks'  = LocksSeen(t, u)
    /\ output' = [output EXCEPT ![t] = entry[u].val]
    /\ Began(t, u, l) /\ Leave(t, l, "done")
    /\ UNCHANGED <<entry, dropped, asked>>

\* The entry expired: `get` deletes it and the uid's lock, whoever holds or awaits it.
GetExpired(t, u, l) ==
    /\ InLock(t, u, l)
    /\ Expired(u) /\ LocksSeen(t, u)[u] # Null
    /\ Forget(u)
    /\ locks'   = [LocksSeen(t, u) EXCEPT ![u] = Null]
    /\ dropped' = dropped \cup {LocksSeen(t, u)[u]}
    /\ Began(t, u, l) /\ GoAsk(t, l)

\* ... but the lock is gone already: `del self.locks[key]` raises KeyError.
GetExpiredTwice(t, u, l) ==
    /\ InLock(t, u, l)
    /\ Expired(u) /\ LocksSeen(t, u)[u] = Null
    /\ Forget(u)
    /\ Began(t, u, l) /\ Leave(t, l, "keyerror")
    /\ UNCHANGED <<locks, dropped, output, asked>>

\* No cache on the device, or command.use_cache is False.
CollectUncached(t, u) ==
    /\ pc[t] = "idle"
    /\ pc'  = [pc EXCEPT ![t] = "sent"]
    /\ uid' = [uid EXCEPT ![t] = u]
    /\ asked' = asked \cup {t}
    /\ UNCHANGED <<now, cacheVars, lockVars, lock, reading, output, ended>>

-----------------------------------------------------------------------------
(* `_collect` and what follows it *)

DeviceReads(t) ==
    /\ pc[t] = "sent"
    /\ pc'      = [pc EXCEPT ![t] = "read"]
    /\ reading' = [reading EXCEPT ![t] = now]
    /\ UNCHANGED <<now, cacheVars, lockVars, uid, lock, output, asked, ended>>

\* The call ends; a cached one leaves its lock.
End(t, end) ==
    IF lock[t] = Null
    THEN /\ pc'    = [pc EXCEPT ![t] = end]
         /\ ended' = [ended EXCEPT ![t] = now]
         /\ UNCHANGED <<holder, waiters>>
    ELSE Leave(t, lock[t], end)

\* `_collect` returned with command.output = val: a cached call stores it.
Finish(t, val) ==
    /\ output' = [output EXCEPT ![t] = val]
    /\ IF lock[t] = Null THEN UNCHANGED cacheVars ELSE Store(uid[t], val)
    /\ End(t, "done")
    /\ UNCHANGED <<now, locks, dropped, uid, lock, reading, asked>>

Answer(t) == pc[t] = "read" /\ Finish(t, reading[t])

\* A timeout, a connection error or an EOS error: command.errors, no output.
NoAnswer(t) == pc[t] \in {"sent", "read"} /\ Finish(t, Null)

\* Mutant of Raise: the lock is taken and released by hand, not by `async with`.
RaiseInLock(t) ==
    /\ pc[t] \in {"sent", "read"}
    /\ pc'    = [pc EXCEPT ![t] = "raised"]
    /\ ended' = [ended EXCEPT ![t] = now]
    /\ UNCHANGED <<now, cacheVars, lockVars, uid, lock, reading, output, asked>>

\* `_collect` raised (closed client, bad answer): nothing is stored.
Raise(t) ==
    /\ pc[t] \in {"sent", "read"}
    /\ End(t, "raised")
    /\ UNCHANGED <<now, cacheVars, locks, dropped, uid, lock, reading, output, asked>>

-----------------------------------------------------------------------------

\* Mutant of Clear: the locks are replaced too.
ClearLocks ==
    /\ entry' = [u \in Uids |-> Null]
    /\ order' = <<>>
    /\ locks' = [u \in Uids |-> Null]
    /\ UNCHANGED <<now, holder, waiters, dropped, taskVars>>

\* AntaCache.clear keeps the locks.
Clear ==
    /\ entry' = [u \in Uids |-> Null]
    /\ order' = <<>>
    /\ UNCHANGED <<now, lockVars, taskVars>>

Tick ==
    /\ now < MaxTime
    /\ now' = now + 1
    /\ UNCHANGED <<cacheVars, lockVars, taskVars>>

Init ==
    /\ now = 0
    /\ entry = [u \in Uids |-> Null]
    /\ order = <<>>
    /\ locks = [u \in Uids |-> Null]
    /\ holder = [l \in Tasks |-> Null]
    /\ waiters = [l \in Tasks |-> <<>>]
    /\ pc = [t \in Tasks |-> "idle"]
    /\ uid = [t \in Tasks |-> Null]
    /\ lock = [t \in Tasks |-> Null]
    /\ reading = [t \in Tasks |-> Null]
    /\ output = [t \in Tasks |-> Null]
    /\ dropped = {}
    /\ asked = {}
    /\ ended = [t \in Tasks |-> Null]

Get(t, u, l) ==
    \/ GetMiss(t, u, l)
    \/ GetNone(t, u, l)
    \/ GetHit(t, u, l)
    \/ GetExpired(t, u, l)
    \/ GetExpiredTwice(t, u, l)

Start(t)  == \E u \in Uids : Wait(t, u) \/ CollectUncached(t, u)
Enter(t)  == \E u \in Uids, l \in Tasks : Get(t, u, l)
Return(t) == Answer(t) \/ NoAnswer(t) \/ Raise(t)

Next ==
    \/ \E t \in Tasks : Start(t) \/ Enter(t) \/ DeviceReads(t) \/ Return(t)
    \/ Clear
    \/ Tick

Spec == Init /\ [][Next]_vars

\* The event loop runs a woken task, and a request ends: httpx bounds it by its timeout.
Fairness == \A t \in Tasks : WF_vars(pc[t] = "woken" /\ Enter(t)) /\ WF_vars(Return(t))

FairSpec == Spec /\ Fairness

-----------------------------------------------------------------------------
(* Properties *)

TypeOK ==
    /\ now \in Time
    /\ entry \in [Uids -> Entry \cup {Null}]
    /\ order \in Seq(Uids)
    /\ locks \in [Uids -> Tasks \cup {Null}]
    /\ holder \in [Tasks -> Tasks \cup {Null}]
    /\ waiters \in [Tasks -> Seq(Tasks)]
    /\ pc \in [Tasks -> PcValues]
    /\ uid \in [Tasks -> Uids \cup {Null}]
    /\ lock \in [Tasks -> Tasks \cup {Null}]
    /\ reading \in [Tasks -> Time \cup {Null}]
    /\ output \in [Tasks -> Time \cup {Null}]
    /\ dropped \subseteq Tasks
    /\ asked \subseteq Tasks
    /\ ended \in [Tasks -> Time \cup {Null}]

\* The order lists exactly the cached uids, once each, and `set` never lets the
\* cache grow beyond one entry more than max_size.
BoundedCache ==
    /\ Len(order) <= MaxSize + 1
    /\ \A u \in Uids : entry[u] # Null <=> Listed(u, order)
    /\ \A i, j \in 1..Len(order) : order[i] = order[j] => i = j

\* A cached call that waits for the device.
InFlight(t) == pc[t] \in {"sent", "read"} /\ lock[t] # Null

\* The claim of collect's docstring: one call at a time has access to a uid.
ExclusiveAccess ==
    \A s, t \in Tasks : s # t /\ InFlight(s) /\ InFlight(t) => uid[s] # uid[t]

\* What the locks really give: two calls ask the device for one uid at the same
\* time only if an expiry deleted the lock of one of them.
OverlapOnlyAfterExpiry ==
    \A s, t \in Tasks :
        /\ s # t /\ InFlight(s) /\ InFlight(t) /\ uid[s] = uid[t]
        => lock[s] \in dropped \/ lock[t] \in dropped

\* No failure is inherited: a call that ends without an output, or that raises what
\* `_collect` raised, asked the device itself.  The KeyError of `get` only strikes a
\* call that waited for a lock which an expiry had deleted meanwhile.
FailureIsOwn ==
    \A t \in Tasks :
        /\ pc[t] = "raised" \/ (pc[t] = "done" /\ output[t] = Null) => t \in asked
        /\ pc[t] = "keyerror" => lock[t] \in dropped

\* A call that ends with an output and did not ask was served the answer another
\* cached call got for the same uid, and got less than Ttl before.
HitIsRecentAnswer ==
    \A t \in Tasks :
        pc[t] = "done" /\ t \notin asked =>
            \E s \in asked :
                /\ uid[s] = uid[t] /\ lock[s] # Null /\ pc[s] = "done"
                /\ output[s] = output[t] /\ reading[s] = output[t]
                /\ ended[t] - ended[s] < Ttl

\* As long as no expiry deleted a lock of the uid, the cache never replaces what the
\* device answered by something the device answered earlier.
CacheMovesForward ==
    [][\A u \in Uids :
        /\ entry[u] # Null /\ entry'[u] # Null
        /\ entry[u].val # Null /\ entry'[u].val # Null
        /\ entry'[u].val < entry[u].val
        => \E l \in dropped : uid[l] = u]_vars

\* Every call that waits for a lock or for the device ends.
EveryCallEnds ==
    \A t \in Tasks : pc[t] # "idle" ~> pc[t] \in {"done", "raised", "keyerror"}

=============================================================================
