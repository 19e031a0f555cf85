---------------------------- MODULE DeviceProofs ----------------------------
(***************************************************************************)
(* Proofs about devices.                                                   *)
(*                                                                         *)
(* DeviceLifecycle, for any calls and any number of slots: the slots of    *)
(* the semaphore, the clients and the flags of a device.                   *)
(*                                                                         *)
(* Inventory, for any files: parse makes one device of every name a file   *)
(* gives, and a dump is read back as the devices it was made of.           *)
(***************************************************************************)
EXTENDS DeviceLifecycle, Inventory, FiniteSetTheorems, SequenceTheorems, TLAPS

\* The parts of SlotsAreExact as the induction needs them.
QueueExact ==
    /\ \A t \in Tasks : pc[t] = "queued" <=> \E i \in 1..Len(queue) : queue[i] = t
    /\ \A i, j \in 1..Len(queue) : queue[i] = queue[j] => i = j

SlotCount == IsFiniteSet(InSlot) /\ free + Cardinality(InSlot) = MaxRequests

NoIdleSlot == queue # <<>> => free = 0

Slots == QueueExact /\ SlotCount /\ NoIdleSlot

\* Where a call of each kind can be; a call that has not started created no client.
KindFits ==
    \A t \in Tasks :
        /\ pc[t] = "idle" => t \notin created
        /\ pc[t] = "checking" => kind[t] = "refresh"
        /\ pc[t] = "closing" => kind[t] = "disconnect"
        /\ pc[t] \in {"queued", "woken", "sent"} => kind[t] \in {"refresh", "collect"}

\* The client is open under a refresh, unless a disconnect came across.
RefreshOpen ==
    \A t \in Tasks : UnderWay(t) /\ kind[t] = "refresh" => client \notin closed \/ crossed

IInv == TypeOK /\ Slots /\ KindFits /\ RefreshOpen /\ OneOpenClient /\ FlagsAreTrue

SlotTypes == free \in 0..MaxRequests /\ queue \in Seq(Tasks) /\ pc \in [Tasks -> PcValues]

\* What a step of task t leaves of the others: a queued one may be woken.
Others(t) ==
    \A s \in Tasks \ {t} : pc'[s] = pc[s] \/ (pc[s] = "queued" /\ pc'[s] = "woken")

-----------------------------------------------------------------------------
(* The slots *)

\* A call that ends gives its slot to the first waiter, or back to the semaphore.
LEMMA GiveBackKeeps ==
    ASSUME SlotTypes, Slots, NEW t \in Tasks, NEW end \in Ended,
           pc[t] \in {"woken", "sent"}, GiveBack(t, end)
    PROVE  SlotTypes' /\ Slots' /\ Others(t) /\ pc'[t] = end
<1>1. pc'[t] = end /\ t \in InSlot
  BY DEF GiveBack, InSlot
<1>2. /\ IsFiniteSet(InSlot \ {t}) /\ Cardinality(InSlot) \in Nat
      /\ Cardinality(InSlot \ {t}) = Cardinality(InSlot) - 1
      /\ Cardinality(InSlot \ {t}) \in Nat
  BY <1>1, FS_RemoveElement, FS_CardinalityType DEF Slots, SlotCount
<1>3. CASE queue = <<>>
  <2>1. free' = free + 1 /\ queue' = queue /\ pc' = [pc EXCEPT ![t] = end]
    BY <1>3 DEF GiveBack, SlotTypes
  <2>2. InSlot' = InSlot \ {t}
    BY <2>1 DEF InSlot, SlotTypes, Ended
  <2>3. SlotCount'
    BY <1>2, <2>1, <2>2, DeviceAssumption DEF Slots, SlotCount, SlotTypes
  <2>4. SlotTypes'
    BY <1>2, <2>1, DeviceAssumption DEF Slots, SlotCount, SlotTypes, PcValues
  <2>5. QueueExact'
    BY <2>1 DEF Slots, QueueExact, SlotTypes, Ended
  <2> QED
    BY <1>1, <1>3, <2>1, <2>3, <2>4, <2>5 DEF Slots, NoIdleSlot, Others, SlotTypes
<1>4. CASE queue # <<>>
  <2> DEFINE w == Head(queue)
  <2>1. /\ Len(queue) \in Nat \ {0} /\ w = queue[1] /\ w \in Tasks
        /\ Tail(queue) \in Seq(Tasks) /\ Len(Tail(queue)) = Len(queue) - 1
        /\ \A i \in 1..Len(Tail(queue)) : Tail(queue)[i] = queue[i + 1]
    BY <1>4, HeadTailProperties, LenProperties, ElementOfSeq DEF SlotTypes
  <2>2. pc[w] = "queued" /\ w # t
    BY <2>1, 1 \in 1..Len(queue) DEF Slots, QueueExact
  <2>3. /\ free' = free /\ free = 0 /\ queue' = Tail(queue)
        /\ pc' = [s \in Tasks |-> IF s = t THEN end ELSE IF s = w THEN "woken" ELSE pc[s]]
    BY <1>4 DEF GiveBack, Slots, NoIdleSlot
  <2>4. InSlot' = (InSlot \ {t}) \cup {w}
    BY <2>1, <2>2, <2>3 DEF InSlot, SlotTypes, Ended
  <2>5. w \notin InSlot \ {t}
    BY <2>2 DEF InSlot
  <2>6. SlotCount'
    <3>1. /\ IsFiniteSet((InSlot \ {t}) \cup {w})
          /\ Cardinality((InSlot \ {t}) \cup {w}) = Cardinality(InSlot \ {t}) + 1
      BY <1>2, <2>5, FS_AddElement
    <3>2. IsFiniteSet(InSlot') /\ Cardinality(InSlot') = Cardinality(InSlot)
      BY <1>2, <2>4, <3>1
    <3> QED
      BY <2>3, <3>2 DEF Slots, SlotCount
  <2>7. SlotTypes'
    BY <2>1, <2>3 DEF SlotTypes, PcValues, Ended
  <2>8. \A i, j \in 1..Len(queue') : queue'[i] = queue'[j] => i = j
    BY <2>1, <2>3 DEF Slots, QueueExact
  <2>9. ASSUME NEW s \in Tasks
        PROVE  pc'[s] = "queued" <=> \E i \in 1..Len(queue') : queue'[i] = s
    <3>1. ASSUME pc'[s] = "queued"
          PROVE  \E i \in 1..Len(queue') : queue'[i] = s
      <4>1. pc[s] = "queued" /\ s # w
        BY <2>3, <3>1 DEF Ended
      <4>2. PICK i \in 1..Len(queue) : queue[i] = s
        BY <4>1 DEF Slots, QueueExact
      <4>3. i # 1 /\ i - 1 \in 1..Len(Tail(queue)) /\ (i - 1) + 1 = i
        BY <2>1, <4>1, <4>2
      <4> QED
        BY <2>1, <2>3, <4>2, <4>3
    <3>2. ASSUME NEW i \in 1..Len(queue'), queue'[i] = s
          PROVE  pc'[s] = "queued"
      <4>1. i + 1 \in 1..Len(queue) /\ queue[i + 1] = s /\ 1 \in 1..Len(queue) /\ i + 1 # 1
        BY <2>1, <2>3, <3>2
      <4>2. pc[s] = "queued" /\ s # w
        BY <2>1, <4>1 DEF Slots, QueueExact
      <4> QED
        BY <2>3, <4>2
    <3> QED
      BY <3>1, <3>2
  <2>10. Others(t)
    BY <2>2, <2>3 DEF Others
  <2> QED
    BY <1>1, <2>3, <2>6, <2>7, <2>8, <2>9, <2>10 DEF Slots, QueueExact, NoIdleSlot
<1> QED
  BY <1>3, <1>4

\* A step of a task outside the semaphore, to a place outside it, or of a woken task
\* that sends, changes no slot.
LEMMA AsideKeeps ==
    ASSUME SlotTypes, Slots, NEW t \in Tasks, NEW v \in PcValues, UNCHANGED slotVars,
           pc' = [pc EXCEPT ![t] = v],
           \/ pc[t] \notin {"queued", "woken", "sent"} /\ v \notin {"queued", "woken", "sent"}
           \/ pc[t] = "woken" /\ v = "sent"
    PROVE  SlotTypes' /\ Slots' /\ Others(t) /\ pc'[t] = v
<1>1. SlotTypes' /\ Others(t) /\ pc'[t] = v /\ UNCHANGED <<free, queue>>
  BY DEF SlotTypes, Others, slotVars
<1>2. InSlot' = InSlot
  BY <1>1 DEF InSlot, SlotTypes
<1>3. SlotCount' /\ NoIdleSlot'
  BY <1>1, <1>2 DEF Slots, SlotCount, NoIdleSlot
<1>4. QueueExact'
  BY <1>1 DEF Slots, QueueExact, SlotTypes
<1> QED
  BY <1>1, <1>3, <1>4 DEF Slots

\* Entering `_collect` takes a free slot, queues, or is refused.
LEMMA EnterKeeps ==
    ASSUME SlotTypes, Slots, NEW t \in Tasks, pc[t] \in {"idle", "checking"}, EnterCollect(t)
    PROVE  /\ SlotTypes' /\ Slots' /\ Others(t)
           /\ pc'[t] = "raised" \/ (pc'[t] \in {"sent", "queued"} /\ client \notin closed)
<1>1. CASE Refuse(t)
  BY <1>1, AsideKeeps, "raised" \in PcValues DEF Refuse, PcValues, Ended
<1>2. CASE TakeSlot(t)
  <2>1. /\ free > 0 /\ free' = free - 1 /\ queue' = queue /\ queue = <<>>
        /\ pc' = [pc EXCEPT ![t] = "sent"] /\ client \notin closed
    BY <1>2 DEF TakeSlot, Slots, NoIdleSlot, SlotTypes
  <2>2. InSlot' = InSlot \cup {t} /\ t \notin InSlot
    BY <2>1 DEF InSlot, SlotTypes
  <2>3. Cardinality(InSlot) \in Nat
    BY FS_CardinalityType DEF Slots, SlotCount
  <2>4. SlotCount'
    <3>1. /\ IsFiniteSet(InSlot \cup {t})
          /\ Cardinality(InSlot \cup {t}) = Cardinality(InSlot) + 1
      BY <2>2, FS_AddElement DEF Slots, SlotCount
    <3>2. IsFiniteSet(InSlot') /\ Cardinality(InSlot') = Cardinality(InSlot) + 1
      BY <2>2, <3>1
    <3> QED
      BY <2>1, <2>3, <3>2, DeviceAssumption DEF Slots, SlotCount, SlotTypes
  <2>5. SlotTypes'
    BY <2>1, DeviceAssumption DEF SlotTypes, PcValues
  <2>6. QueueExact'
    BY <2>1 DEF Slots, QueueExact, SlotTypes
  <2> QED
    BY <2>1, <2>4, <2>5, <2>6 DEF Slots, NoIdleSlot, Others, SlotTypes
<1>3. CASE WaitForSlot(t)
  <2>1. /\ free' = free /\ free = 0 /\ queue' = Append(queue, t)
        /\ pc' = [pc EXCEPT ![t] = "queued"] /\ client \notin closed
    BY <1>3 DEF WaitForSlot
  <2>2. /\ queue' \in Seq(Tasks) /\ Len(queue) \in Nat /\ Len(queue') = Len(queue) + 1
        /\ queue'[Len(queue) + 1] = t
        /\ \A i \in 1..Len(queue) : queue'[i] = queue[i]
    BY <2>1, AppendProperties, LenProperties DEF SlotTypes
  <2>3. InSlot' = InSlot
    BY <2>1 DEF InSlot, SlotTypes
  <2>4. SlotTypes' /\ SlotCount'
    BY <2>1, <2>2, <2>3 DEF Slots, SlotCount, SlotTypes, PcValues
  <2>5. \A i \in 1..Len(queue) : queue[i] # t
    BY DEF Slots, QueueExact
  <2>6. QueueExact'
    <3>1. \A s \in Tasks \ {t} : pc'[s] = pc[s]
      BY <2>1 DEF SlotTypes
    <3>2. pc'[t] = "queued" /\ Len(queue) + 1 \in 1..Len(queue')
      BY <2>1, <2>2 DEF SlotTypes
    <3>3. \A i \in 1..Len(queue') : i \in 1..Len(queue) \/ i = Len(queue) + 1
      BY <2>2
    <3>4. \A i \in 1..Len(queue) : i \in 1..Len(queue')
      BY <2>2
    <3>5. ASSUME NEW s \in Tasks
          PROVE  pc'[s] = "queued" <=> \E i \in 1..Len(queue') : queue'[i] = s
      <4>1. CASE s = t
        BY <2>2, <3>2, <4>1
      <4>2. CASE s # t
        <5>1. pc[s] = "queued" <=> \E i \in 1..Len(queue) : queue[i] = s
          BY DEF Slots, QueueExact
        <5> QED
          BY <2>2, <3>1, <3>3, <3>4, <4>2, <5>1
      <4> QED
        BY <4>1, <4>2
    <3>6. \A i, j \in 1..Len(queue') : queue'[i] = queue'[j] => i = j
      BY <2>2, <2>5, <3>3 DEF Slots, QueueExact
    <3> QED
      BY <3>5, <3>6 DEF QueueExact
  <2> QED
    BY <2>1, <2>4, <2>6 DEF Slots, NoIdleSlot, Others, SlotTypes
<1> QED
  BY <1>1, <1>2, <1>3 DEF EnterCollect

-----------------------------------------------------------------------------
(* The clients and the flags *)

\* A step of t that opens and closes no client and sets no flag, and leaves t where its
\* kind can be, keeps what is said of clients and flags.
LEMMA QuietKeeps ==
    ASSUME IInv, NEW t \in Tasks, SlotTypes', Slots', Others(t), UnderWay(t),
           UNCHANGED <<clientVars, flagVars, kind, crossed>>,
           pc'[t] \in {"sent", "raised", "done"},
           pc'[t] = "sent" => kind[t] \in {"refresh", "collect"},
           pc'[t] = "done" => kind[t] # "disconnect"
    PROVE  IInv'
<1>1. TypeOK' /\ OneOpenClient'
  BY DEF IInv, TypeOK, SlotTypes, OneOpenClient, clientVars, flagVars
<1>2. KindFits'
  BY DEF IInv, KindFits, Others, clientVars
<1>3. RefreshOpen'
  BY DEF IInv, RefreshOpen, UnderWay, Others, clientVars, Ended
<1>4. Interrupted => Interrupted'
  <2> SUFFICES ASSUME NEW s \in Tasks, kind[s] = "disconnect", pc[s] \in {"closing", "raised"}
               PROVE  Interrupted'
    BY DEF Interrupted
  <2>1. pc'[s] \in {"closing", "raised"}
    BY DEF Others, UnderWay, Ended
  <2> QED
    BY <2>1 DEF Interrupted
<1>5. FlagsAreTrue'
  BY <1>4 DEF IInv, FlagsAreTrue, clientVars, flagVars
<1> QED
  BY <1>1, <1>2, <1>3, <1>5 DEF IInv

\* A step of a call under way that ends in no disconnect, or ends one with both flags
\* reset, and sets a flag only when a refresh does.
LEMMA FlagStepKeeps ==
    ASSUME IInv, NEW t \in Tasks, SlotTypes', Slots', Others(t), UnderWay(t),
           UNCHANGED <<clientVars, kind, crossed>>,
           pc'[t] \in {"sent", "queued", "raised", "done"},
           pc'[t] \in {"sent", "queued"} => kind[t] \in {"refresh", "collect"},
           online' \in BOOLEAN, established' \in BOOLEAN, model' \in Models,
           established' => model' = "name",
           \/ ~online' /\ ~established'
           \/ kind[t] = "refresh"
    PROVE  IInv'
<1>1. TypeOK' /\ OneOpenClient'
  BY DEF IInv, TypeOK, SlotTypes, OneOpenClient, clientVars
<1>2. KindFits'
  BY DEF IInv, KindFits, Others, clientVars
<1>3. RefreshOpen'
  BY DEF IInv, RefreshOpen, UnderWay, Others, clientVars, Ended
<1>4. ASSUME kind[t] = "refresh"
      PROVE  client' \notin closed' \/ crossed'
  BY <1>4 DEF IInv, RefreshOpen, clientVars
<1>5. FlagsAreTrue'
  BY <1>4 DEF FlagsAreTrue
<1> QED
  BY <1>1, <1>2, <1>3, <1>5 DEF IInv

\* A call starts.
LEMMA StartKeeps ==
    ASSUME IInv, NEW t \in Tasks, Start(t)
    PROVE  IInv'
<1>1. SlotTypes /\ Slots /\ pc[t] = "idle" /\ t \notin created
  BY DEF IInv, TypeOK, SlotTypes, KindFits, Start, Collect, Refresh, Disconnect
<1>2. CASE Collect(t)
  <2>1. /\ SlotTypes' /\ Slots' /\ Others(t) /\ pc'[t] \in {"raised", "sent", "queued"}
        /\ kind' = [kind EXCEPT ![t] = "collect"] /\ UNCHANGED <<clientVars, flagVars, crossed>>
    BY <1>1, <1>2, EnterKeeps DEF Collect
  <2>2. TypeOK' /\ OneOpenClient' /\ KindFits' /\ RefreshOpen'
    BY <2>1 DEF IInv, TypeOK, SlotTypes, OneOpenClient, KindFits, RefreshOpen, UnderWay, Others,
                clientVars, flagVars, Kinds, Ended
  <2>3. Interrupted => Interrupted'
    <3> SUFFICES ASSUME NEW s \in Tasks, kind[s] = "disconnect", pc[s] \in {"closing", "raised"}
                 PROVE  Interrupted'
      BY DEF Interrupted
    <3>1. s # t /\ kind'[s] = "disconnect" /\ pc'[s] \in {"closing", "raised"}
      BY <1>1, <2>1 DEF Others, IInv, TypeOK
    <3> QED
      BY <3>1 DEF Interrupted
  <2>4. FlagsAreTrue'
    BY <2>1, <2>3 DEF IInv, FlagsAreTrue, clientVars, flagVars
  <2> QED
    BY <2>1, <2>2, <2>4 DEF IInv
<1>3. CASE Refresh(t)
  <2>1. /\ SlotTypes' /\ Slots' /\ Others(t) /\ pc'[t] = "checking"
        /\ pc' = [pc EXCEPT ![t] = "checking"]
    BY <1>1, <1>3, AsideKeeps, "checking" \in PcValues DEF Refresh, PcValues
  <2>2. /\ kind' = [kind EXCEPT ![t] = "refresh"] /\ UNCHANGED <<closed, flagVars>>
        /\ crossed' \in BOOLEAN /\ (crossed => crossed')
    BY <1>3 DEF Refresh, Crosses, IInv, TypeOK
  <2>3. /\ client' \in created' /\ client' \notin closed'
        /\ created \subseteq created' /\ created' \subseteq created \cup {t}
        /\ created' \ {client'} \subseteq closed'
    BY <1>1, <1>3 DEF Refresh, IInv, TypeOK, OneOpenClient
  <2>4. TypeOK' /\ OneOpenClient'
    BY <2>1, <2>2, <2>3 DEF IInv, TypeOK, SlotTypes, OneOpenClient, flagVars, Kinds
  <2>5. KindFits'
    BY <2>1, <2>2, <2>3 DEF IInv, TypeOK, KindFits, Others
  <2>6. RefreshOpen' /\ FlagsAreTrue'
    BY <2>2, <2>3 DEF IInv, RefreshOpen, FlagsAreTrue, flagVars
  <2> QED
    BY <2>1, <2>4, <2>5, <2>6 DEF IInv
<1>4. CASE Disconnect(t)
  <2>1. /\ kind' = [kind EXCEPT ![t] = "disconnect"] /\ crossed' = Crosses("refresh")
        /\ UNCHANGED <<client, created, model, slotVars>>
        /\ crossed' \in BOOLEAN /\ (crossed => crossed')
    BY <1>4 DEF Disconnect, Crosses, IInv, TypeOK
  <2>2. \/ /\ closed' = closed \cup {client} /\ pc' = [pc EXCEPT ![t] = "closing"]
           /\ UNCHANGED <<online, established>>
        \/ /\ online' = FALSE /\ established' = FALSE /\ closed' = closed
           /\ pc' = [pc EXCEPT ![t] = "done"]
    BY <1>4 DEF Disconnect
  <2>3. SlotTypes' /\ Slots' /\ Others(t) /\ pc'[t] \in {"closing", "done"}
    BY <1>1, <2>1, <2>2, AsideKeeps, "closing" \in PcValues, "done" \in PcValues DEF PcValues, Ended
  <2>4. TypeOK' /\ OneOpenClient'
    BY <2>1, <2>2, <2>3 DEF IInv, TypeOK, SlotTypes, OneOpenClient, Kinds
  <2>5. KindFits'
    BY <2>1, <2>2, <2>3 DEF IInv, TypeOK, KindFits, Others
  <2>6. RefreshOpen'
    <3> SUFFICES ASSUME NEW s \in Tasks, UnderWay(s)', kind'[s] = "refresh"
                 PROVE  crossed'
      BY DEF RefreshOpen
    <3>1. s # t /\ kind[s] = "refresh" /\ UnderWay(s)
      BY <2>1, <2>3 DEF IInv, TypeOK, UnderWay, Others, Ended
    <3> QED
      BY <2>1, <3>1 DEF Crosses
  <2>7. FlagsAreTrue'
    <3>1. CASE pc'[t] = "closing"
      <4>1. Interrupted'
        BY <2>1, <3>1 DEF Interrupted, IInv, TypeOK
      <4>2. UNCHANGED <<established, model>>
        BY <2>1, <2>2, <3>1 DEF IInv, TypeOK
      <4> QED
        BY <4>1, <4>2 DEF IInv, FlagsAreTrue
    <3>2. CASE pc'[t] = "done"
      <4>1. ~online' /\ ~established'
        BY <2>2, <3>2 DEF IInv, TypeOK
      <4> QED
        BY <4>1 DEF FlagsAreTrue
    <3> QED
      BY <2>3, <3>1, <3>2
  <2> QED
    BY <2>3, <2>4, <2>5, <2>6, <2>7 DEF IInv
<1> QED
  BY <1>2, <1>3, <1>4 DEF Start

\* A call goes on.
LEMMA ProceedKeeps ==
    ASSUME IInv, NEW t \in Tasks, Proceed(t)
    PROVE  IInv'
<1> SlotTypes /\ Slots
  BY DEF IInv, TypeOK, SlotTypes
<1>0. {"done", "raised", "sent"} \subseteq PcValues /\ "done" \in Ended /\ "raised" \in Ended
  BY DEF PcValues, Ended
<1>1. CASE CheckPasses(t)
  <2>1. /\ pc[t] = "checking" /\ EnterCollect(t) /\ online' = TRUE
        /\ UNCHANGED <<clientVars, established, model, kind, crossed>>
    BY <1>1 DEF CheckPasses
  <2>2. kind[t] = "refresh" /\ UnderWay(t) /\ (established => model = "name")
    BY <2>1 DEF IInv, KindFits, FlagsAreTrue, UnderWay, Ended
  <2>3. SlotTypes' /\ Slots' /\ Others(t) /\ pc'[t] \in {"raised", "sent", "queued"}
    BY <2>1, EnterKeeps
  <2> QED
    BY <2>1, <2>2, <2>3, FlagStepKeeps DEF IInv, TypeOK
<1>2. CASE CheckFails(t) \/ DisconnectEnds(t)
  <2>1. /\ pc[t] \in {"checking", "closing"} /\ pc' = [pc EXCEPT ![t] = "done"]
        /\ online' = FALSE /\ established' = FALSE
        /\ UNCHANGED <<clientVars, model, slotVars, kind, crossed>>
    BY <1>2 DEF CheckFails, DisconnectEnds
  <2>2. SlotTypes' /\ Slots' /\ Others(t) /\ pc'[t] = "done" /\ UnderWay(t)
    BY <1>0, <2>1, AsideKeeps DEF UnderWay, Ended
  <2> QED
    BY <2>1, <2>2, FlagStepKeeps DEF IInv, TypeOK
<1>3. CASE CheckRaises(t) \/ DisconnectRaises(t)
  <2>1. /\ pc[t] \in {"checking", "closing"} /\ pc' = [pc EXCEPT ![t] = "raised"]
        /\ UNCHANGED <<clientVars, flagVars, slotVars, kind, crossed>>
    BY <1>3 DEF CheckRaises, DisconnectRaises
  <2>2. SlotTypes' /\ Slots' /\ Others(t) /\ pc'[t] = "raised" /\ UnderWay(t)
    BY <1>0, <2>1, AsideKeeps DEF UnderWay, Ended
  <2> QED
    BY <2>1, <2>2, QuietKeeps
<1>4. CASE Send(t)
  <2>1. /\ pc[t] = "woken" /\ pc' = [pc EXCEPT ![t] = "sent"]
        /\ UNCHANGED <<clientVars, flagVars, slotVars, kind, crossed>>
    BY <1>4 DEF Send
  <2>2. SlotTypes' /\ Slots' /\ Others(t) /\ pc'[t] = "sent" /\ UnderWay(t)
    BY <1>0, <2>1, AsideKeeps DEF UnderWay, Ended
  <2>3. kind[t] \in {"refresh", "collect"}
    BY <2>1 DEF IInv, KindFits
  <2> QED
    BY <2>1, <2>2, <2>3, QuietKeeps
<1>5. CASE SendRefused(t) \/ RequestRaises(t) \/ CollectEnds(t)
  <2>1. /\ pc[t] \in {"woken", "sent"} /\ (GiveBack(t, "raised") \/ GiveBack(t, "done"))
        /\ UNCHANGED <<clientVars, flagVars, kind, crossed>>
    BY <1>5 DEF SendRefused, RequestRaises, CollectEnds
  <2>2. /\ SlotTypes' /\ Slots' /\ Others(t) /\ pc'[t] \in {"raised", "done"} /\ UnderWay(t)
        /\ kind[t] # "disconnect"
    BY <1>0, <2>1, GiveBackKeeps DEF UnderWay, Ended, IInv, KindFits
  <2> QED
    BY <2>1, <2>2, QuietKeeps
<1>6. CASE RefreshEnds(t) \/ RefreshFails(t)
  <2>1. /\ kind[t] = "refresh" /\ pc[t] = "sent" /\ GiveBack(t, "done")
        /\ UNCHANGED <<clientVars, online, kind, crossed>>
        /\ established' \in BOOLEAN /\ model' \in Models /\ (established' => model' = "name")
    BY <1>6 DEF RefreshEnds, RefreshFails, IInv, TypeOK
  <2>2. SlotTypes' /\ Slots' /\ Others(t) /\ pc'[t] = "done" /\ UnderWay(t)
    BY <1>0, <2>1, GiveBackKeeps DEF UnderWay, Ended
  <2> QED
    BY <2>1, <2>2, FlagStepKeeps DEF IInv, TypeOK
<1> QED
  BY <1>1, <1>2, <1>3, <1>4, <1>5, <1>6 DEF Proceed

-----------------------------------------------------------------------------

\* The inductive invariant: the slots and the queue of the semaphore, where a call of
\* each kind can be, and what a refresh under way may count on.
THEOREM Inductive == Spec => []IInv
<1>1. Init => IInv
  <2> SUFFICES ASSUME Init
               PROVE  IInv
    OBVIOUS
  <2>1. TypeOK
    <3>1. queue \in Seq(Tasks)
      BY EmptySeq DEF Init
    <3>2. free \in 0..MaxRequests
      BY DeviceAssumption DEF Init
    <3> QED
      BY <3>1, <3>2 DEF Init, TypeOK, Models, Kinds, PcValues
  <2>2. InSlot = {} /\ Len(queue) = 0
    BY EmptySeq DEF Init, InSlot
  <2>3. SlotCount
    BY <2>2, FS_EmptySet, DeviceAssumption DEF Init, SlotCount
  <2>4. QueueExact /\ NoIdleSlot
    BY <2>2 DEF Init, QueueExact, NoIdleSlot
  <2>5. KindFits /\ RefreshOpen /\ OneOpenClient /\ FlagsAreTrue
    BY DeviceAssumption DEF Init, KindFits, RefreshOpen, UnderWay, OneOpenClient, FlagsAreTrue
  <2> QED
    BY <2>1, <2>3, <2>4, <2>5 DEF IInv, Slots
<1>2. IInv /\ [Next]_vars => IInv'
  <2> SUFFICES ASSUME IInv, [Next]_vars
               PROVE  IInv'
    OBVIOUS
  <2>1. CASE UNCHANGED vars
    BY <2>1 DEF IInv, TypeOK, Slots, QueueExact, SlotCount, InSlot, NoIdleSlot, KindFits, RefreshOpen,
                UnderWay, OneOpenClient, FlagsAreTrue, Interrupted, vars, clientVars, flagVars, slotVars
  <2> QED
    BY <2>1, StartKeeps, ProceedKeeps DEF Next
<1> QED
  BY <1>1, <1>2, PTL DEF Spec

\* Type correctness of a device, for any calls: the semaphore never counts fewer than no
\* or more than all of its slots, and every closed client is one that was created.
THEOREM TypeCorrect == Spec => []TypeOK
<1>1. IInv => TypeOK
  BY DEF IInv
<1> QED
  BY <1>1, Inductive, PTL

\* However refresh, disconnect and collect overlap, no client but the current one is open.
THEOREM NoClientIsLost == Spec => []OneOpenClient
<1>1. IInv => OneOpenClient
  BY DEF IInv
<1> QED
  BY <1>1, Inductive, PTL

\* The flags refresh and disconnect set tell the truth, but for overlaps and exceptions.
THEOREM FlagsTellTheTruth == Spec => []FlagsAreTrue
<1>1. IInv => FlagsAreTrue
  BY DEF IInv
<1> QED
  BY <1>1, Inductive, PTL

\* The command semaphore loses no slot, hands none out twice and leaves none idle, for any
\* number of slots and of calls.
THEOREM SlotsExact == Spec => []SlotsAreExact
<1>1. IInv => SlotsAreExact
  BY DEF IInv, Slots, QueueExact, SlotCount, NoIdleSlot, SlotsAreExact
<1> QED
  BY <1>1, Inductive, PTL


-----------------------------------------------------------------------------
(* The loops of parse *)

NamesOf(devices) == {devices[k].name : k \in 1..Len(devices)}

\* The device x[n] is a device of that name in list k.
Added(lists, k, n, x) == \E j \in 1..Len(lists[k]) : lists[k][j].name = n /\ x[n] = lists[k][j]

\* The loop of AddAll: p is the devices there are and those to add.
AddingStart(p) == p[1]
AddingTurn(p, x, i) == AddDevice(x, p[2][i])
AddingGood(p, x, i) ==
    /\ DOMAIN x = DOMAIN p[1] \cup {p[2][k].name : k \in 1..i}
    /\ IsFiniteSet(DOMAIN p[1]) => IsFiniteSet(DOMAIN x)
    /\ \A n \in DOMAIN x :
        \/ \E k \in 1..i : p[2][k].name = n /\ x[n] = p[2][k]
        \/ n \in DOMAIN p[1] /\ x[n] = p[1][n] /\ \A k \in 1..i : p[2][k].name # n
AddingLoop == INSTANCE Loops WITH Start <- AddingStart, Turn <- AddingTurn, Good <- AddingGood

\* The loop of Built: p is the lists of devices.
BuildingStart(p) == <<>>
BuildingTurn(p, x, i) == AddAll(x, p[i])
BuildingGood(p, x, i) ==
    /\ DOMAIN x = UNION {NamesOf(p[k]) : k \in 1..i}
    /\ IsFiniteSet(DOMAIN x)
    /\ \A n \in DOMAIN x : \E k \in 1..i :
        Added(p, k, n, x) /\ \A j \in 1..i : j > k => n \notin NamesOf(p[j])
BuildingLoop == INSTANCE Loops WITH Start <- BuildingStart, Turn <- BuildingTurn, Good <- BuildingGood

\* add_device: the devices of a list join those that are there, and replace their namesakes.
LEMMA AddAllAdds ==
    ASSUME NEW devices, NEW more, Len(more) \in Nat
    PROVE  LET x == AddAll(devices, more) IN
           /\ DOMAIN x = DOMAIN devices \cup NamesOf(more)
           /\ IsFiniteSet(DOMAIN devices) => IsFiniteSet(DOMAIN x)
           /\ \A n \in DOMAIN x :
                \/ \E j \in 1..Len(more) : more[j].name = n /\ x[n] = more[j]
                \/ n \in DOMAIN devices /\ x[n] = devices[n] /\ n \notin NamesOf(more)
<1> DEFINE p == <<devices, more>>
           m == Len(more)
           Equation(f) == f = [i \in 0..m |-> IF i = 0 THEN devices ELSE AddDevice(f[i - 1], more[i])]
           after == CHOOSE f : Equation(f)
<1>1. ASSUME NEW i \in 1..m, NEW x, AddingGood(p, x, i - 1)
      PROVE  AddingGood(p, AddingTurn(p, x, i), i)
  <2> DEFINE y == AddDevice(x, more[i])
             names(k) == {more[j].name : j \in 1..k}
  <2>1. /\ DOMAIN x = DOMAIN devices \cup names(i - 1)
        /\ IsFiniteSet(DOMAIN devices) => IsFiniteSet(DOMAIN x)
        /\ \A n \in DOMAIN x :
            \/ \E k \in 1..(i - 1) : more[k].name = n /\ x[n] = more[k]
            \/ n \in DOMAIN devices /\ x[n] = devices[n] /\ \A k \in 1..(i - 1) : more[k].name # n
    BY <1>1 DEF AddingGood
  <2>2. i \in 1..i /\ \A k \in 1..i : k = i \/ k \in 1..(i - 1) OBVIOUS
  <2>3. \A k \in 1..(i - 1) : k \in 1..i OBVIOUS
  <2>4. /\ DOMAIN y = DOMAIN x \cup {more[i].name}
        /\ y[more[i].name] = more[i]
        /\ \A n \in DOMAIN x : n # more[i].name => y[n] = x[n]
    BY DEF AddDevice
  <2> HIDE DEF y
  <2>5. names(i) = names(i - 1) \cup {more[i].name} BY <2>2, <2>3
  <2>6. DOMAIN y = DOMAIN devices \cup names(i) BY <2>1, <2>4, <2>5
  <2>7. IsFiniteSet(DOMAIN devices) => IsFiniteSet(DOMAIN y)
    <3>1. IsFiniteSet(DOMAIN x) => IsFiniteSet(DOMAIN x \cup {more[i].name}) BY FS_AddElement
    <3> QED BY <2>1, <2>4, <3>1
  <2>8. ASSUME NEW n \in DOMAIN y
        PROVE  \/ \E k \in 1..i : more[k].name = n /\ y[n] = more[k]
               \/ n \in DOMAIN devices /\ y[n] = devices[n] /\ \A k \in 1..i : more[k].name # n
    <3>1. CASE n = more[i].name BY <2>2, <2>4, <3>1
    <3>2. CASE n # more[i].name
      <4>1. n \in DOMAIN x /\ y[n] = x[n] BY <2>4, <3>2
      <4> QED BY <2>1, <2>2, <2>3, <3>2, <4>1
    <3> QED BY <3>1, <3>2
  <2> QED BY <2>6, <2>7, <2>8 DEF AddingGood, AddingTurn, y
<1>2. AddingGood(p, AddingStart(p), 0)
  <2>1. {more[k].name : k \in 1..0} = {} /\ AddingStart(p) = devices BY DEF AddingStart
  <2> QED BY <2>1 DEF AddingGood
<1>3. /\ \E f : AddingLoop!Unrolls(p, f, m)
      /\ \A f : AddingLoop!Unrolls(p, f, m) => \A i \in 0..m : AddingGood(p, f[i], i)
  <2> HIDE DEF m, p
  <2>1. m \in Nat BY DEF m
  <2> QED BY <1>1, <1>2, <2>1, AddingLoop!LoopInvariant
<1>4. \A f : AddingLoop!Unrolls(p, f, m) <=> Equation(f)
  BY DEF AddingLoop!Unrolls, AddingStart, AddingTurn
<1>5. AddingLoop!Unrolls(p, after, m)
  <2> HIDE DEF Equation
  <2> QED BY <1>3, <1>4
<1>6. AddAll(devices, more) = after[m] BY DEF AddAll
<1> HIDE DEF after
<1>7. AddingGood(p, after[m], m) BY <1>3, <1>5
<1> QED BY <1>6, <1>7 DEF AddingGood, NamesOf

\* parse: each name has the device of the last list that has one.
LEMMA BuiltLists ==
    ASSUME NEW lists, Len(lists) \in Nat, \A i \in 1..Len(lists) : Len(lists[i]) \in Nat
    PROVE  LET x == Built(lists) IN
           /\ DOMAIN x = UNION {NamesOf(lists[k]) : k \in 1..Len(lists)}
           /\ IsFiniteSet(DOMAIN x)
           /\ \A n \in DOMAIN x : \E k \in 1..Len(lists) :
                Added(lists, k, n, x) /\ \A j \in 1..Len(lists) : j > k => n \notin NamesOf(lists[j])
<1> DEFINE m == Len(lists)
           Equation(f) == f = [i \in 0..m |-> IF i = 0 THEN <<>> ELSE AddAll(f[i - 1], lists[i])]
           after == CHOOSE f : Equation(f)
<1>1. ASSUME NEW i \in 1..m, NEW x, BuildingGood(lists, x, i - 1)
      PROVE  BuildingGood(lists, BuildingTurn(lists, x, i), i)
  <2> DEFINE y == AddAll(x, lists[i])
             names(k) == UNION {NamesOf(lists[j]) : j \in 1..k}
  <2>1. /\ DOMAIN x = names(i - 1) /\ IsFiniteSet(DOMAIN x)
        /\ \A n \in DOMAIN x : \E k \in 1..(i - 1) :
            Added(lists, k, n, x) /\ \A j \in 1..(i - 1) : j > k => n \notin NamesOf(lists[j])
    BY <1>1 DEF BuildingGood
  <2>2. i \in 1..i /\ \A k \in 1..i : k = i \/ (k \in 1..(i - 1) /\ i > k) OBVIOUS
  <2>3. \A k \in 1..(i - 1) : k \in 1..i OBVIOUS
  <2>4. /\ DOMAIN y = DOMAIN x \cup NamesOf(lists[i])
        /\ IsFiniteSet(DOMAIN x) => IsFiniteSet(DOMAIN y)
        /\ \A n \in DOMAIN y :
            \/ \E j \in 1..Len(lists[i]) : lists[i][j].name = n /\ y[n] = lists[i][j]
            \/ n \in DOMAIN x /\ y[n] = x[n] /\ n \notin NamesOf(lists[i])
    BY AddAllAdds
  <2> HIDE DEF y
  <2>5. names(i) = names(i - 1) \cup NamesOf(lists[i]) BY <2>2, <2>3
  <2>6. ASSUME NEW n \in DOMAIN y
        PROVE  \E k \in 1..i :
                 Added(lists, k, n, y) /\ \A j \in 1..i : j > k => n \notin NamesOf(lists[j])
    <3>1. CASE \E j \in 1..Len(lists[i]) : lists[i][j].name = n /\ y[n] = lists[i][j]
      <4>1. Added(lists, i, n, y) BY <3>1 DEF Added
      <4>2. \A j \in 1..i : ~(j > i) OBVIOUS
      <4> QED BY <2>2, <4>1, <4>2
    <3>2. CASE n \in DOMAIN x /\ y[n] = x[n] /\ n \notin NamesOf(lists[i])
      <4>1. PICK k \in 1..(i - 1) :
              Added(lists, k, n, x) /\ \A j \in 1..(i - 1) : j > k => n \notin NamesOf(lists[j])
        BY <2>1, <3>2
      <4>2. Added(lists, k, n, y) BY <3>2, <4>1 DEF Added
      <4> QED BY <2>2, <2>3, <3>2, <4>1, <4>2
    <3> QED BY <2>4, <3>1, <3>2
  <2> QED BY <2>1, <2>4, <2>5, <2>6 DEF BuildingGood, BuildingTurn, y
<1>2. BuildingGood(lists, BuildingStart(lists), 0)
  <2>1. DOMAIN BuildingStart(lists) = {} BY DEF BuildingStart
  <2> QED BY <2>1, FS_EmptySet DEF BuildingGood
<1>3. /\ \E f : BuildingLoop!Unrolls(lists, f, m)
      /\ \A f : BuildingLoop!Unrolls(lists, f, m) => \A i \in 0..m : BuildingGood(lists, f[i], i)
  <2> HIDE DEF m
  <2>1. m \in Nat BY DEF m
  <2> QED BY <1>1, <1>2, <2>1, BuildingLoop!LoopInvariant
<1>4. \A f : BuildingLoop!Unrolls(lists, f, m) <=> Equation(f)
  BY DEF BuildingLoop!Unrolls, BuildingStart, BuildingTurn
<1>5. BuildingLoop!Unrolls(lists, after, m)
  <2> HIDE DEF Equation
  <2> QED BY <1>3, <1>4
<1>6. Built(lists) = after[m] BY DEF Built
<1> HIDE DEF after
<1>7. BuildingGood(lists, after[m], m) BY <1>3, <1>5
<1> QED BY <1>6, <1>7 DEF BuildingGood

-----------------------------------------------------------------------------
(* The entries of a file *)

\* Addresses from one to another, none when they are the wrong way round.
LEMMA AddressesRange ==
    ASSUME NEW family, NEW from \in Nat, NEW to \in Int
    PROVE  LET as == Addresses(family, from, to) IN
           /\ Len(as) \in Nat /\ DOMAIN as = 1..Len(as)
           /\ ToSet(as) = {<<family, i>> : i \in from..to}
<1> DEFINE as == Addresses(family, from, to)
           n == to - from + 1
<1>1. CASE from <= to
  <2>1. n \in Nat /\ as = [i \in 1..n |-> <<family, from + i - 1>>] BY <1>1 DEF Addresses
  <2>2. Len(as) = n /\ DOMAIN as = 1..n BY <2>1
  <2>3. \A i \in from..to : i - from + 1 \in 1..n /\ from + (i - from + 1) - 1 = i BY <1>1
  <2>4. \A i \in 1..n : from + i - 1 \in from..to BY <1>1
  <2>5. ToSet(as) = {<<family, i>> : i \in from..to}
    <3>1. ToSet(as) = {<<family, from + i - 1>> : i \in 1..n} BY <2>1 DEF ToSet
    <3> QED BY <2>3, <2>4, <3>1
  <2> QED BY <2>1, <2>2, <2>5
<1>2. CASE ~(from <= to)
  <2>1. 1..n = {} /\ from..to = {} BY <1>2
  <2>2. as = [i \in {} |-> <<family, from + i - 1>>] BY <2>1 DEF Addresses
  <2>3. as = <<>> BY <2>2
  <2> QED BY <2>1, <2>3 DEF ToSet
<1> QED BY <1>1, <1>2

\* The devices of a list are those an entry gives.
Become(devices, e, disabled) ==
    /\ Len(devices) \in Nat
    /\ NamesOf(devices) = Gives(e)
    /\ \A j \in 1..Len(devices) :
        /\ Fits(devices[j], devices[j].name, e, disabled)
        /\ devices[j].cached \in BOOLEAN /\ (devices[j].cached => ~disabled)
        /\ devices[j].name \in devices[j].tags

LEMMA AddressesBecome ==
    ASSUME NEW e, NEW disabled \in BOOLEAN, NEW family, NEW from \in Nat, NEW to \in Int,
           "host" \notin DOMAIN e, e.disable_cache \in BOOLEAN,
           Gives(e) = {<<family, i>> : i \in from..to}
    PROVE  Become(AddressDevices(Addresses(family, from, to), e, disabled), e, disabled)
<1> DEFINE as == Addresses(family, from, to)
           devices == AddressDevices(as, e, disabled)
           One(i) == Device(as[i], as[i], Unset, DeviceTags(e.tags, ToSet(as), as[i]), Cached(e, disabled))
<1>1. Len(as) \in Nat /\ DOMAIN as = 1..Len(as) /\ ToSet(as) = Gives(e) BY AddressesRange
<1> HIDE DEF as
<1>2. devices = [i \in 1..Len(as) |-> One(i)] BY DEF AddressDevices
<1>3. Len(devices) = Len(as)
  <2> DEFINE n == Len(as)
  <2>1. n \in Nat /\ devices = [i \in 1..n |-> One(i)] BY <1>1, <1>2
  <2> HIDE DEF One, devices, n
  <2>2. Len(devices) = n BY ONLY <2>1
  <2> QED BY <2>2 DEF n
<1>4. ASSUME NEW j \in 1..Len(as)
      PROVE  /\ devices[j].name = as[j]
             /\ Fits(devices[j], devices[j].name, e, disabled)
             /\ devices[j].cached \in BOOLEAN /\ (devices[j].cached => ~disabled)
             /\ devices[j].name \in devices[j].tags
  <2> DEFINE d == devices[j]
  <2>1. /\ d.name = as[j] /\ d.host = as[j] /\ d.port = DefaultPort
        /\ d.tags = DeviceTags(e.tags, ToSet(as), as[j])
        /\ d.cached = ~(e.disable_cache \/ disabled)
    <3>1. d = One(j)
      <4> HIDE DEF One
      <4> QED BY <1>2
    <3> HIDE DEF d
    <3> QED BY <3>1 DEF Device, Cached
  <2>2. as[j] \in ToSet(as) BY <1>1 DEF ToSet
  <2> HIDE DEF d
  <2>3. GivenTags(e) \cup {as[j]} \subseteq d.tags /\ d.tags \subseteq GivenTags(e) \cup Gives(e)
    BY <1>1, <2>1, <2>2 DEF DeviceTags, GivenTags
  <2>4. Fits(d, d.name, e, disabled) BY <2>1, <2>3 DEF Fits
  <2> QED BY <2>1, <2>3, <2>4 DEF d
<1>5. NamesOf(devices) = ToSet(as) BY <1>1, <1>3, <1>4 DEF NamesOf, ToSet
<1> HIDE DEF devices
<1> QED BY <1>1, <1>3, <1>4, <1>5 DEF Become, devices, as

LEMMA HostBecomes ==
    ASSUME NEW h, NEW disabled \in BOOLEAN, "host" \in DOMAIN h, h.disable_cache \in BOOLEAN
    PROVE  Become(HostDevices(h, disabled), h, disabled)
<1> DEFINE name == DeviceName(h.name, h.host, h.port)
           d == Device(name, h.host, h.port, DeviceTags(h.tags, {name}, name), Cached(h, disabled))
           devices == HostDevices(h, disabled)
<1>1. devices = <<d>> BY DEF HostDevices
<1>2. Gives(h) = {name} BY DEF Gives, DeviceName
<1> HIDE DEF name
<1>3. /\ d.name = name /\ d.host = h.host /\ d.port = IF h.port = Unset THEN DefaultPort ELSE h.port
      /\ d.tags = DeviceTags(h.tags, {name}, name)
      /\ d.cached = ~(h.disable_cache \/ disabled)
  BY DEF Device, Cached
<1> HIDE DEF d
<1>4. d.tags = GivenTags(h) \cup {name} BY <1>3 DEF DeviceTags, GivenTags
<1>5. Fits(d, d.name, h, disabled) BY <1>2, <1>3, <1>4 DEF Fits
<1>6. Len(devices) = 1 /\ devices[1] = d /\ \A j \in 1..Len(devices) : j = 1 BY <1>1
<1>7. NamesOf(devices) = {name} BY <1>3, <1>6 DEF NamesOf
<1>8. d.cached \in BOOLEAN /\ (d.cached => ~disabled) /\ d.name \in d.tags BY <1>3, <1>4
<1> HIDE DEF devices
<1>9. Become(devices, h, disabled) BY <1>2, <1>5, <1>6, <1>7, <1>8 DEF Become
<1> QED BY <1>9 DEF devices

\* Every entry of a file becomes the list of devices that parse makes of it.
LEMMA CreatedBecome ==
    ASSUME NEW f, IsFile(f), NEW disabled \in BOOLEAN
    PROVE  /\ Len(Created(f, disabled)) \in Nat
           /\ Len(Created(f, disabled)) = Len(FileEntries(f))
           /\ DOMAIN FileEntries(f) = 1..Len(FileEntries(f))
           /\ \A i \in 1..Len(FileEntries(f)) :
                Become(Created(f, disabled)[i], FileEntries(f)[i], disabled)
<1> DEFINE h == f.hosts
           n == f.networks
           r == f.ranges
           hs == [i \in DOMAIN h |-> HostDevices(h[i], disabled)]
           ns == [i \in DOMAIN n |-> AddressDevices(NetworkAddresses(n[i]), n[i], disabled)]
           rs == [i \in DOMAIN r |-> AddressDevices(RangeAddresses(r[i]), r[i], disabled)]
<1>1. h \in Seq(ToSet(h)) /\ n \in Seq(ToSet(n)) /\ r \in Seq(ToSet(r)) BY DEF IsFile
<1>2. /\ \A i \in DOMAIN h : "host" \in DOMAIN h[i] /\ h[i].disable_cache \in BOOLEAN
      /\ \A i \in DOMAIN n :
            /\ "host" \notin DOMAIN n[i] /\ "size" \in DOMAIN n[i] /\ n[i].disable_cache \in BOOLEAN
            /\ n[i].first[2] \in Nat /\ n[i].size \in Nat
      /\ \A i \in DOMAIN r :
            /\ "host" \notin DOMAIN r[i] /\ "size" \notin DOMAIN r[i] /\ r[i].disable_cache \in BOOLEAN
            /\ r[i].start[2] \in Nat /\ r[i].end[2] \in Nat
  <2>1. /\ \A i \in DOMAIN h : h[i] \in ToSet(h)
        /\ \A i \in DOMAIN n : n[i] \in ToSet(n)
        /\ \A i \in DOMAIN r : r[i] \in ToSet(r)
    BY DEF ToSet
  <2> QED BY <2>1 DEF IsFile
<1> HIDE DEF h, n, r
<1>3. /\ DOMAIN h = 1..Len(h) /\ Len(h) \in Nat
      /\ DOMAIN n = 1..Len(n) /\ Len(n) \in Nat
      /\ DOMAIN r = 1..Len(r) /\ Len(r) \in Nat
  BY <1>1
<1>4. \A i \in DOMAIN h : Become(hs[i], h[i], disabled) BY <1>2, HostBecomes
<1>5. ASSUME NEW i \in DOMAIN n PROVE Become(ns[i], n[i], disabled)
  <2> DEFINE e == n[i]
             to == e.first[2] + e.size - 1
  <2>1. Gives(e) = {<<e.first[1], k>> : k \in e.first[2]..to} BY <1>2 DEF Gives
  <2>2. to \in Int /\ e.first[2] \in Nat /\ "host" \notin DOMAIN e /\ e.disable_cache \in BOOLEAN BY <1>2
  <2>3. NetworkAddresses(e) = Addresses(e.first[1], e.first[2], to) BY DEF NetworkAddresses
  <2> HIDE DEF e, to
  <2>4. Become(AddressDevices(Addresses(e.first[1], e.first[2], to), e, disabled), e, disabled)
    BY ONLY <2>1, <2>2, AddressesBecome, disabled \in BOOLEAN
  <2> QED BY <2>3, <2>4 DEF e
<1>6. ASSUME NEW i \in DOMAIN r PROVE Become(rs[i], r[i], disabled)
  <2> DEFINE e == r[i]
  <2>1. Gives(e) = {<<e.start[1], k>> : k \in e.start[2]..e.end[2]} BY <1>2 DEF Gives
  <2>2. e.end[2] \in Int /\ e.start[2] \in Nat /\ "host" \notin DOMAIN e /\ e.disable_cache \in BOOLEAN BY <1>2
  <2>3. RangeAddresses(e) = Addresses(e.start[1], e.start[2], e.end[2]) BY DEF RangeAddresses
  <2> HIDE DEF e
  <2>4. Become(AddressDevices(Addresses(e.start[1], e.start[2], e.end[2]), e, disabled), e, disabled)
    BY ONLY <2>1, <2>2, AddressesBecome, disabled \in BOOLEAN
  <2> QED BY <2>3, <2>4 DEF e
<1>7. /\ Len(h \o n \o r) = Len(h) + Len(n) + Len(r)
      /\ DOMAIN (h \o n \o r) = 1..Len(h \o n \o r)
      /\ \A i \in 1..Len(h) : (h \o n \o r)[i] = h[i]
      /\ \A i \in 1..Len(n) : (h \o n \o r)[Len(h) + i] = n[i]
      /\ \A i \in 1..Len(r) : (h \o n \o r)[Len(h) + Len(n) + i] = r[i]
  <2> DEFINE T == ToSet(h) \cup ToSet(n) \cup ToSet(r)
  <2>1. h \in Seq(T) /\ n \in Seq(T) /\ r \in Seq(T) BY <1>1
  <2> HIDE DEF T
  <2> QED BY <1>3, <2>1
<1>8. /\ Len(hs \o ns \o rs) = Len(h) + Len(n) + Len(r)
      /\ \A i \in 1..Len(h) : (hs \o ns \o rs)[i] = hs[i]
      /\ \A i \in 1..Len(n) : (hs \o ns \o rs)[Len(h) + i] = ns[i]
      /\ \A i \in 1..Len(r) : (hs \o ns \o rs)[Len(h) + Len(n) + i] = rs[i]
  <2> DEFINE T == {hs[i] : i \in DOMAIN h} \cup {ns[i] : i \in DOMAIN n} \cup {rs[i] : i \in DOMAIN r}
  <2>1. /\ hs \in Seq(T) /\ Len(hs) = Len(h)
        /\ ns \in Seq(T) /\ Len(ns) = Len(n)
        /\ rs \in Seq(T) /\ Len(rs) = Len(r)
    BY <1>3
  <2> HIDE DEF T, hs, ns, rs
  <2> QED BY <1>3, <2>1
<1>9. Created(f, disabled) = hs \o ns \o rs /\ FileEntries(f) = h \o n \o r
  BY DEF Created, FileEntries, h, n, r
<1> DEFINE es == h \o n \o r
           lists == hs \o ns \o rs
<1> HIDE DEF hs, ns, rs, es, lists
<1>10. ASSUME NEW i \in 1..Len(es) PROVE Become(lists[i], es[i], disabled)
  <2>1. \/ i \in 1..Len(h)
        \/ i - Len(h) \in 1..Len(n) /\ Len(h) + (i - Len(h)) = i
        \/ i - Len(h) - Len(n) \in 1..Len(r) /\ Len(h) + Len(n) + (i - Len(h) - Len(n)) = i
    BY <1>3, <1>7 DEF es
  <2>2. CASE i \in 1..Len(h) BY <1>3, <1>4, <1>7, <1>8, <2>2 DEF es, lists
  <2>3. CASE i - Len(h) \in 1..Len(n) /\ Len(h) + (i - Len(h)) = i
    <3>1. Become(ns[i - Len(h)], n[i - Len(h)], disabled) BY <1>3, <1>5, <2>3
    <3> QED BY <1>7, <1>8, <2>3, <3>1 DEF es, lists
  <2>4. CASE i - Len(h) - Len(n) \in 1..Len(r) /\ Len(h) + Len(n) + (i - Len(h) - Len(n)) = i
    <3>1. Become(rs[i - Len(h) - Len(n)], r[i - Len(h) - Len(n)], disabled) BY <1>3, <1>6, <2>4
    <3> QED BY <1>7, <1>8, <2>4, <3>1 DEF es, lists
  <2> QED BY <2>1, <2>2, <2>3, <2>4
<1> QED BY <1>3, <1>7, <1>8, <1>9, <1>10 DEF es, lists

\* The inventory x has a device for every name that the entries of f give, of the entry
\* read last.
Complete(x, f, disabled) ==
    /\ DOMAIN x = UNION {Gives(FileEntries(f)[i]) : i \in DOMAIN FileEntries(f)}
    /\ \A n \in DOMAIN x : \E i \in DOMAIN FileEntries(f) :
        /\ n \in Gives(FileEntries(f)[i])
        /\ \A j \in DOMAIN FileEntries(f) : j > i => n \notin Gives(FileEntries(f)[j])
        /\ Fits(x[n], n, FileEntries(f)[i], disabled)

LEMMA ParsedComplete ==
    ASSUME NEW f, IsFile(f), NEW disabled \in BOOLEAN, ~\E i \in DOMAIN f.ranges : RangeFails(f.ranges[i])
    PROVE  LET x == Parse(f, disabled) IN
           /\ Complete(x, f, disabled)
           /\ IsFiniteSet(DOMAIN x)
           /\ \A n \in DOMAIN x :
                x[n].cached \in BOOLEAN /\ (x[n].cached => ~disabled) /\ n \in x[n].tags
<1> DEFINE lists == Created(f, disabled)
           es == FileEntries(f)
           x == Parse(f, disabled)
<1>1. /\ Len(lists) \in Nat /\ Len(lists) = Len(es) /\ DOMAIN es = 1..Len(es)
      /\ \A i \in 1..Len(es) : Become(lists[i], es[i], disabled)
  BY CreatedBecome
<1>2. \A i \in 1..Len(es) : Len(lists[i]) \in Nat /\ NamesOf(lists[i]) = Gives(es[i])
  BY <1>1 DEF Become
<1>3. x = Built(lists) BY DEF Parse
<1> HIDE DEF x, lists, es
<1>4. /\ DOMAIN x = UNION {NamesOf(lists[k]) : k \in 1..Len(lists)}
      /\ IsFiniteSet(DOMAIN x)
      /\ \A n \in DOMAIN x : \E k \in 1..Len(lists) :
            Added(lists, k, n, x) /\ \A j \in 1..Len(lists) : j > k => n \notin NamesOf(lists[j])
  <2>1. \A i \in 1..Len(lists) : Len(lists[i]) \in Nat BY <1>1, <1>2
  <2> QED BY <1>1, <1>3, <2>1, BuiltLists
<1>5. DOMAIN x = UNION {Gives(es[k]) : k \in DOMAIN es} BY <1>1, <1>2, <1>4
<1>6. ASSUME NEW n \in DOMAIN x
      PROVE  \E i \in 1..Len(es) :
               /\ \A j \in 1..Len(es) : j > i => n \notin Gives(es[j])
               /\ \E j \in 1..Len(lists[i]) : lists[i][j].name = n /\ x[n] = lists[i][j]
  <2>1. PICK i \in 1..Len(lists) :
          Added(lists, i, n, x) /\ \A j \in 1..Len(lists) : j > i => n \notin NamesOf(lists[j])
    BY <1>4
  <2>2. i \in 1..Len(es) /\ \A j \in 1..Len(es) : j > i => n \notin Gives(es[j]) BY <1>1, <1>2, <2>1
  <2>3. \E j \in 1..Len(lists[i]) : lists[i][j].name = n /\ x[n] = lists[i][j] BY <2>1 DEF Added
  <2> QED BY <2>2, <2>3
<1>7. ASSUME NEW i \in 1..Len(es), NEW j \in 1..Len(lists[i])
      PROVE  /\ lists[i][j].name \in Gives(es[i])
             /\ Fits(lists[i][j], lists[i][j].name, es[i], disabled)
             /\ lists[i][j].cached \in BOOLEAN /\ (lists[i][j].cached => ~disabled)
             /\ lists[i][j].name \in lists[i][j].tags
  BY <1>1, <1>2 DEF Become, NamesOf
<1>8. Complete(x, f, disabled)
  <2>1. ASSUME NEW n \in DOMAIN x
        PROVE  \E i \in DOMAIN es :
                 /\ n \in Gives(es[i]) /\ \A j \in DOMAIN es : j > i => n \notin Gives(es[j])
                 /\ Fits(x[n], n, es[i], disabled)
    <3>1. PICK i \in 1..Len(es) :
            /\ \A j \in 1..Len(es) : j > i => n \notin Gives(es[j])
            /\ \E j \in 1..Len(lists[i]) : lists[i][j].name = n /\ x[n] = lists[i][j]
      BY <1>6
    <3> QED BY <1>1, <1>7, <3>1
  <2> QED BY <1>5, <2>1 DEF Complete, es
<1>9. ASSUME NEW n \in DOMAIN x
      PROVE  x[n].cached \in BOOLEAN /\ (x[n].cached => ~disabled) /\ n \in x[n].tags
  <2>1. PICK i \in 1..Len(es) : \E j \in 1..Len(lists[i]) : lists[i][j].name = n /\ x[n] = lists[i][j]
    BY <1>6
  <2> QED BY <1>1, <1>7, <2>1
<1> QED BY <1>4, <1>8, <1>9 DEF x, lists

-----------------------------------------------------------------------------
(* The dump *)

HostOf(x, n) == [name |-> n, host |-> n, port |-> Unset, tags |-> x[n].tags, disable_cache |-> ~x[n].cached]

\* SetToSeq lists the elements of a finite set.
LEMMA SetListed ==
    ASSUME NEW S, IsFiniteSet(S)
    PROVE  /\ SetToSeq(S) \in Seq(S) /\ Len(SetToSeq(S)) \in Nat
           /\ DOMAIN SetToSeq(S) = 1..Len(SetToSeq(S))
           /\ ToSet(SetToSeq(S)) = S
<1> DEFINE n == Cardinality(S)
           f == SetToSeq(S)
<1>1. n \in Nat /\ \E g \in [1..n -> S] : IsInjective(g)
  <2>1. n \in Nat /\ ExistsBijection(1..n, S) BY FS_CardinalityType
  <2> QED BY <2>1 DEF ExistsBijection, Bijection, Injection
<1>2. f \in [1..n -> S] /\ IsInjective(f) BY <1>1 DEF SetToSeq
<1>3. f \in Injection(1..n, S) BY <1>2 DEF Injection
<1>4. Cardinality(1..n) = n
  <2>1. 1 \in Int /\ n \in Int BY <1>1
  <2>2. Cardinality(1..n) = IF 1 > n THEN 0 ELSE n - 1 + 1 BY <2>1, FS_Interval
  <2> QED BY <1>1, <2>2
<1>5. f \in Surjection(1..n, S) BY ONLY <1>3, <1>4, FS_Injection, IsFiniteSet(S)
<1> HIDE DEF f, n
<1>6. f \in Seq(S) /\ Len(f) = n /\ DOMAIN f = 1..n BY <1>1, <1>2
<1>7. ToSet(f) = S BY <1>2, <1>5, <1>6 DEF Surjection, ToSet
<1> QED BY <1>1, <1>6, <1>7 DEF f

\* The entries of a dump are the hosts of its inventory.
LEMMA DumpedHosts ==
    ASSUME NEW x, Valid(x), IsFiniteSet(DOMAIN x), \A n \in DOMAIN x : x[n].cached \in BOOLEAN
    PROVE  /\ IsFile(Dump(x)) /\ DOMAIN Dump(x).ranges = {}
           /\ \A i \in DOMAIN FileEntries(Dump(x)) : \E n \in DOMAIN x : FileEntries(Dump(x))[i] = HostOf(x, n)
           /\ \A n \in DOMAIN x : \E i \in DOMAIN FileEntries(Dump(x)) : FileEntries(Dump(x))[i] = HostOf(x, n)
<1> DEFINE S == {HostOf(x, n) : n \in DOMAIN x}
           hosts == SetToSeq(S)
           f == Dump(x)
<1>1. IsFiniteSet(S)
  <2> DEFINE g == [n \in DOMAIN x |-> HostOf(x, n)]
  <2>1. g \in Surjection(DOMAIN x, S) BY DEF Surjection
  <2> HIDE DEF g, S
  <2> QED BY <2>1, FS_Surjection
<1>2. f = [hosts |-> hosts, networks |-> <<>>, ranges |-> <<>>] BY DEF Dump, HostOf
<1>3. hosts \in Seq(S) /\ Len(hosts) \in Nat /\ DOMAIN hosts = 1..Len(hosts) /\ ToSet(hosts) = S
  <2> HIDE DEF S
  <2> QED BY <1>1, SetListed
<1>4. ASSUME NEW h \in S PROVE "host" \in DOMAIN h /\ h.disable_cache \in BOOLEAN
  <2>1. PICK n \in DOMAIN x : h = HostOf(x, n) OBVIOUS
  <2>2. "host" \in DOMAIN HostOf(x, n) /\ HostOf(x, n).disable_cache = ~x[n].cached BY DEF HostOf
  <2>3. (~x[n].cached) \in BOOLEAN OBVIOUS
  <2> HIDE DEF S
  <2> QED BY <2>1, <2>2, <2>3
<1> HIDE DEF f, hosts, S
<1>5. f.hosts = hosts /\ f.networks = <<>> /\ f.ranges = <<>> BY <1>2
<1>6. ToSet(<<>>) = {} /\ <<>> \in Seq({}) /\ DOMAIN <<>> = {} BY DEF ToSet
<1>7. IsFile(f) BY <1>3, <1>4, <1>5, <1>6 DEF IsFile
<1>8. FileEntries(f) = hosts
  <2>1. hosts \o <<>> = hosts BY <1>3
  <2> QED BY <1>5, <2>1 DEF FileEntries
<1>9. /\ \A i \in DOMAIN hosts : \E n \in DOMAIN x : hosts[i] = HostOf(x, n)
      /\ \A n \in DOMAIN x : \E i \in DOMAIN hosts : hosts[i] = HostOf(x, n)
  BY <1>3 DEF ToSet, S
<1> QED BY <1>5, <1>6, <1>7, <1>8, <1>9 DEF f

-----------------------------------------------------------------------------
(* A file and its dump *)

\* Parse of the file, and then of the dump.
InventoryIInv ==
    /\ file \in Files /\ off \in BOOLEAN
    /\ inventory = Unset \/ inventory = Parse(file, off)
    /\ reloaded # Unset =>
        /\ inventory \notin {Unset, Refused}
        /\ IF Valid(inventory) THEN reloaded = Parse(Dump(inventory), off) ELSE reloaded = Refused

\* A file that is not refused has no range that fails, and its devices have tags.
LEMMA LoadedComplete ==
    ASSUME InventoryIInv, inventory \notin {Unset, Refused}
    PROVE  /\ \A i \in DOMAIN file.ranges : ~RangeFails(file.ranges[i])
           /\ Complete(inventory, file, off) /\ IsFiniteSet(DOMAIN inventory)
           /\ \A n \in DOMAIN inventory :
                /\ inventory[n].cached \in BOOLEAN /\ (inventory[n].cached => ~off)
                /\ n \in inventory[n].tags /\ inventory[n].tags # Unset
<1>1. inventory = Parse(file, off) /\ IsFile(file) /\ off \in BOOLEAN BY InventoryAssumption DEF InventoryIInv
<1>2. ~\E i \in DOMAIN file.ranges : RangeFails(file.ranges[i]) BY <1>1 DEF Parse
<1>3. /\ Complete(inventory, file, off) /\ IsFiniteSet(DOMAIN inventory)
      /\ \A n \in DOMAIN inventory :
            inventory[n].cached \in BOOLEAN /\ (inventory[n].cached => ~off) /\ n \in inventory[n].tags
  BY <1>1, <1>2, ParsedComplete
<1> DEFINE es == FileEntries(file)
<1>4. ASSUME NEW n \in DOMAIN inventory PROVE inventory[n].tags # Unset
  <2>1. PICK i \in DOMAIN es : Fits(inventory[n], n, es[i], off) BY <1>3 DEF Complete
  <2>2. es[i] \in ToSet(es) BY DEF ToSet
  <2>3. inventory[n].tags \subseteq GivenTags(es[i]) \cup Gives(es[i]) BY <2>1 DEF Fits
  <2>4. inventory[n].tags \in SUBSET TagsIn(file) BY <2>2, <2>3 DEF TagsIn
  <2> QED BY <2>4, TagsAssumption DEF InventoryIInv
<1> QED BY <1>2, <1>3, <1>4

\* Any file, and any dump of what it holds.
THEOREM InventoryInvariance == InventorySpec => []InventoryIInv
<1>1. InventoryInit => InventoryIInv BY DEF InventoryInit, InventoryIInv
<1>2. InventoryIInv /\ [InventoryNext]_inventoryVars => InventoryIInv'
  BY DEF InventoryNext, Load, Reload, inventoryVars, InventoryIInv, Dump, Valid
<1> QED BY <1>1, <1>2, PTL DEF InventorySpec

\* parse: one device for every name, of the last entry that gives it.
THEOREM InventoriesAreComplete == InventorySpec => []InventoryIsComplete
<1>1. InventoryIInv => InventoryIsComplete
  <2> SUFFICES ASSUME InventoryIInv, inventory # Unset PROVE InventoryIsComplete
    BY DEF InventoryIsComplete
  <2>1. ASSUME NEW i \in DOMAIN file.ranges
        PROVE  file.ranges[i] \in ToSet(file.ranges)
    BY DEF ToSet
  <2>2. CASE inventory = Refused /\ \E i \in DOMAIN file.ranges : RangeFails(file.ranges[i])
    BY <2>1, <2>2 DEF RangeFails, InventoryIsComplete
  <2>3. CASE inventory # Refused \/ \A i \in DOMAIN file.ranges : ~RangeFails(file.ranges[i])
    <3>1. /\ \A i \in DOMAIN file.ranges : ~RangeFails(file.ranges[i])
          /\ Complete(inventory, file, off)
      <4>1. CASE inventory # Refused BY <4>1, LoadedComplete
      <4>2. CASE \A i \in DOMAIN file.ranges : ~RangeFails(file.ranges[i])
        <5>1. inventory = Parse(file, off) /\ IsFile(file) /\ off \in BOOLEAN
          BY InventoryAssumption DEF InventoryIInv
        <5> QED BY <4>2, <5>1, ParsedComplete
      <4> QED BY <2>3, <4>1, <4>2
    <3>2. \A r \in ToSet(file.ranges) : r.start[1] = r.end[1] BY <3>1 DEF ToSet, RangeFails
    <3> QED BY <3>1, <3>2 DEF Complete, InventoryIsComplete
  <2>4. inventory = Refused \/ \A i \in DOMAIN file.ranges : ~RangeFails(file.ranges[i])
    BY LoadedComplete
  <2> QED BY <2>2, <2>3, <2>4
<1> QED BY <1>1, InventoryInvariance, PTL

\* dump: it fails only on a name that no host may have, and otherwise what is read back has
\* the devices, their tags and their cache, and those hosts that are the name of the device.
THEOREM DumpsAreRead == InventorySpec => []DumpAndParse
<1>1. ASSUME InventoryIInv, reloaded # Unset, ~Valid(inventory) PROVE DumpAndParse
  <2>1. reloaded = Refused BY <1>1 DEF InventoryIInv
  <2>2. \E n \in DOMAIN inventory : n \notin HostNames BY <1>1 DEF Valid
  <2> QED BY <2>1, <2>2 DEF DumpAndParse
<1>2. ASSUME InventoryIInv, reloaded # Unset, Valid(inventory) PROVE DumpAndParse
  <2> DEFINE x == inventory
             f == Dump(x)
             es == FileEntries(f)
  <2>1. off \in BOOLEAN /\ x \notin {Unset, Refused} /\ reloaded = Parse(f, off)
    BY <1>2 DEF InventoryIInv
  <2>2. /\ IsFiniteSet(DOMAIN x)
        /\ \A n \in DOMAIN x : /\ x[n].cached \in BOOLEAN /\ (x[n].cached => ~off)
                               /\ n \in x[n].tags /\ x[n].tags # Unset
    BY <1>2, <2>1, LoadedComplete
  <2>3. /\ IsFile(f) /\ DOMAIN f.ranges = {}
        /\ \A i \in DOMAIN es : \E n \in DOMAIN x : es[i] = HostOf(x, n)
        /\ \A n \in DOMAIN x : \E i \in DOMAIN es : es[i] = HostOf(x, n)
    BY <1>2, <2>2, DumpedHosts
  <2>4. ASSUME NEW n \in DOMAIN x PROVE Gives(HostOf(x, n)) = {n} BY DEF Gives, HostOf
  <2> HIDE DEF x, f, es
  <2>5. Complete(reloaded, f, off)
    <3>1. ~\E i \in DOMAIN f.ranges : RangeFails(f.ranges[i]) BY <2>3
    <3> QED BY <2>1, <2>3, <3>1, ParsedComplete
  <2>6. /\ DOMAIN reloaded = UNION {Gives(es[i]) : i \in DOMAIN es}
        /\ \A n \in DOMAIN reloaded : \E i \in DOMAIN es : n \in Gives(es[i]) /\ Fits(reloaded[n], n, es[i], off)
    BY <2>5 DEF Complete, es
  <2>7. DOMAIN reloaded = DOMAIN x
    <3>1. \A i \in DOMAIN es : Gives(es[i]) \subseteq DOMAIN x BY <2>3, <2>4
    <3>2. \A n \in DOMAIN x : \E i \in DOMAIN es : n \in Gives(es[i]) BY <2>3, <2>4
    <3> QED BY ONLY <2>6, <3>1, <3>2
  <2>8. ASSUME NEW n \in DOMAIN reloaded
        PROVE  /\ reloaded[n].tags = x[n].tags /\ reloaded[n].cached = x[n].cached
               /\ reloaded[n].host = n /\ reloaded[n].port = DefaultPort
    <3>1. PICK i \in DOMAIN es : n \in Gives(es[i]) /\ Fits(reloaded[n], n, es[i], off) BY <2>6
    <3>2. es[i] = HostOf(x, n) BY <2>3, <2>4, <3>1
    <3>3. Gives(es[i]) = {n} BY <2>4, <2>7, <3>2
    <3>4. /\ "host" \in DOMAIN HostOf(x, n) /\ HostOf(x, n).host = n /\ HostOf(x, n).port = Unset
          /\ HostOf(x, n).tags = x[n].tags /\ HostOf(x, n).disable_cache = ~x[n].cached
      BY DEF HostOf
    <3>5. reloaded[n].tags = x[n].tags
      BY <2>2, <2>7, <3>1, <3>2, <3>3, <3>4 DEF Fits, GivenTags
    <3>6. reloaded[n].cached = x[n].cached
      <4>1. reloaded[n].cached = ~(off \/ ~x[n].cached) BY <3>1, <3>2, <3>4 DEF Fits
      <4>2. x[n].cached \in BOOLEAN /\ (x[n].cached => ~off) BY <2>2, <2>7
      <4> QED BY <2>1, <4>1, <4>2
    <3>7. reloaded[n].host = n /\ reloaded[n].port = DefaultPort BY <3>1, <3>2, <3>4 DEF Fits
    <3> QED BY <3>5, <3>6, <3>7
  <2> QED BY <2>7, <2>8 DEF DumpAndParse, x
<1>3. InventoryIInv => DumpAndParse BY <1>1, <1>2 DEF DumpAndParse
<1> QED BY <1>3, InventoryInvariance, PTL
=============================================================================
