-------------------------- MODULE DeviceLifecycle --------------------------
(***************************************************************************)
(* AsyncEOSDevice (anta/device.py): refresh, disconnect and _collect of    *)
(* one device, called concurrently.                                        *)
(*                                                                         *)
(* A task is one call.  It suspends in check_api_endpoint, in the command  *)
(* semaphore, in cli and in aclose; what lies between is one action.  An   *)
(* httpx client (external) is closed as soon as aclose is called, before   *)
(* it is awaited, and refuses to send from then on; a request that is under *)
(* way when its client closes may still end in any way.  A client is named *)
(* by the refresh that created it, Null is the one __init__ created.       *)
(* asyncio.Semaphore (external, as of Python 3.11) is FIFO and hands a     *)
(* slot that is given back to the first waiter.                            *)
(***************************************************************************)
EXTENDS Integers, Sequences, FiniteSets

CONSTANTS
    Tasks,          \* the calls
    MaxRequests,    \* MAX_CONCURRENT_REQUESTS
    Null            \* Python's None

ASSUME DeviceAssumption ==
    /\ MaxRequests \in Nat \ {0}
    /\ Null \notin Tasks

VARIABLES
    client,         \* _client
    created,        \* history: the clients ever created
    closed,         \* the clients whose is_closed is true
    online,         \* is_online
    established,    \* established
    model,          \* hw_model: None, the empty string or a name
    free,           \* value of _command_semaphore
    queue,          \* its waiters
    kind,           \* per task: the method it calls
    pc,             \* per task: where it is
    crossed         \* history: a refresh and a disconnect were under way together

clientVars == <<client, created, closed>>
flagVars   == <<online, established, model>>
slotVars   == <<free, queue>>
vars       == <<clientVars, flagVars, slotVars, kind, pc, crossed>>

Models == {"none", "empty", "name"}
Kinds  == {"refresh", "disconnect", "collect"}
Ended  == {"done", "raised"}
PcValues == {"idle", "checking", "queued", "woken", "sent", "closing"} \cup Ended

UnderWay(t) == pc[t] \notin {"idle"} \cup Ended

-----------------------------------------------------------------------------
(* _collect *)

\* The client is closed: RuntimeError, before the semaphore.
Refuse(t) ==
    /\ client \in closed
    /\ pc' = [pc EXCEPT ![t] = "raised"]
    /\ UNCHANGED slotVars

\* A slot is free: the request is sent without a suspension in between.
TakeSlot(t) ==
    /\ client \notin closed /\ free > 0
    /\ free' = free - 1
    /\ pc' = [pc EXCEPT ![t] = "sent"]
    /\ UNCHANGED queue

WaitForSlot(t) ==
    /\ client \notin closed /\ free = 0
    /\ queue' = Append(queue, t)
    /\ pc' = [pc EXCEPT ![t] = "queued"]
    /\ UNCHANGED free

EnterCollect(t) == Refuse(t) \/ TakeSlot(t) \/ WaitForSlot(t)

\* Task t ends as `end` and leaves `async with` on the semaphore.
GiveBack(t, end) ==
    /\ free' = IF queue = <<>> THEN free + 1 ELSE free
    /\ queue' = IF queue = <<>> THEN queue ELSE Tail(queue)
    /\ pc' = [s \in Tasks |-> IF s = t THEN end
                              ELSE IF queue # <<>> /\ s = Head(queue) THEN "woken"
                              ELSE pc[s]]

\* A task that waited sends on the client there is now.
Send(t) ==
    /\ pc[t] = "woken" /\ client \notin closed
    /\ pc' = [pc EXCEPT ![t] = "sent"]
    /\ UNCHANGED <<clientVars, flagVars, slotVars, kind, crossed>>

\* Mutant of SendRefused: the slot is lost with the exception.
SendRefusedInSlot(t) ==
    /\ pc[t] = "woken" /\ client \in closed
    /\ pc' = [pc EXCEPT ![t] = "raised"]
    /\ UNCHANGED <<clientVars, flagVars, slotVars, kind, crossed>>

\* ... which was closed while it waited: httpx raises, and _collect does not catch it.
SendRefused(t) ==
    /\ pc[t] = "woken" /\ client \in closed
    /\ GiveBack(t, "raised")
    /\ UNCHANGED <<clientVars, flagVars, kind, crossed>>

\* Mutant of RequestRaises: the slot is lost with the exception.
RequestRaisesInSlot(t) ==
    /\ pc[t] = "sent"
    /\ pc' = [pc EXCEPT ![t] = "raised"]
    /\ UNCHANGED <<clientVars, flagVars, slotVars, kind, crossed>>

\* An exception that _collect does not catch, or refresh's json_output raises.
RequestRaises(t) ==
    /\ pc[t] = "sent"
    /\ GiveBack(t, "raised")
    /\ UNCHANGED <<clientVars, flagVars, kind, crossed>>

-----------------------------------------------------------------------------
(* collect, as far as it calls _collect *)

Collect(t) ==
    /\ pc[t] = "idle"
    /\ kind' = [kind EXCEPT ![t] = "collect"]
    /\ EnterCollect(t)
    /\ UNCHANGED <<clientVars, flagVars, crossed>>

\* The command has an output, or errors from EOS, a timeout or the connection.
CollectEnds(t) ==
    /\ kind[t] = "collect" /\ pc[t] = "sent"
    /\ GiveBack(t, "done")
    /\ UNCHANGED <<clientVars, flagVars, kind, crossed>>

-----------------------------------------------------------------------------
(* refresh *)

\* Has the call that starts now company of the given kind?
Crosses(other) == crossed \/ \E s \in Tasks : UnderWay(s) /\ kind[s] = other

\* Mutant of Refresh: it always opens a new client.
RefreshAnew(t) ==
    /\ pc[t] = "idle"
    /\ client' = t
    /\ created' = created \cup {t}
    /\ kind' = [kind EXCEPT ![t] = "refresh"]
    /\ pc' = [pc EXCEPT ![t] = "checking"]
    /\ crossed' = Crosses("disconnect")
    /\ UNCHANGED <<closed, flagVars, slotVars>>

Refresh(t) ==
    /\ pc[t] = "idle"
    /\ IF client \in closed
       THEN client' = t /\ created' = created \cup {t}
       ELSE UNCHANGED <<client, created>>
    /\ kind' = [kind EXCEPT ![t] = "refresh"]
    /\ pc' = [pc EXCEPT ![t] = "checking"]
    /\ crossed' = Crosses("disconnect")
    /\ UNCHANGED <<closed, flagVars, slotVars>>

\* check_api_endpoint returned: `show version` comes next.
CheckPasses(t) ==
    /\ pc[t] = "checking"
    /\ online' = TRUE
    /\ EnterCollect(t)
    /\ UNCHANGED <<clientVars, established, model, kind, crossed>>

\* It raised an HTTPError.
CheckFails(t) ==
    /\ pc[t] = "checking"
    /\ online' = FALSE /\ established' = FALSE
    /\ pc' = [pc EXCEPT ![t] = "done"]
    /\ UNCHANGED <<clientVars, model, slotVars, kind, crossed>>

\* It raised anything else, which leaves refresh with the flags as they were.
CheckRaises(t) ==
    /\ pc[t] = "checking"
    /\ pc' = [pc EXCEPT ![t] = "raised"]
    /\ UNCHANGED <<clientVars, flagVars, slotVars, kind, crossed>>

\* `show version` has an output, with a model name, an empty one, or none ...
RefreshEnds(t) ==
    /\ kind[t] = "refresh" /\ pc[t] = "sent"
    /\ \E m \in Models : model' = m /\ established' = (m = "name")
    /\ GiveBack(t, "done")
    /\ UNCHANGED <<clientVars, online, kind, crossed>>

\* ... or failed.
RefreshFails(t) ==
    /\ kind[t] = "refresh" /\ pc[t] = "sent"
    /\ established' = FALSE
    /\ GiveBack(t, "done")
    /\ UNCHANGED <<clientVars, online, model, kind, crossed>>

-----------------------------------------------------------------------------
(* disconnect *)

\* Closes the client and awaits aclose, or, when it is closed, is over at once.
Disconnect(t) ==
    /\ pc[t] = "idle"
    /\ kind' = [kind EXCEPT ![t] = "disconnect"]
    /\ crossed' = Crosses("refresh")
    /\ IF client \notin closed
       THEN /\ closed' = closed \cup {client}
            /\ pc' = [pc EXCEPT ![t] = "closing"]
            /\ UNCHANGED <<online, established>>
       ELSE /\ online' = FALSE /\ established' = FALSE
            /\ pc' = [pc EXCEPT ![t] = "done"]
            /\ UNCHANGED closed
    /\ UNCHANGED <<client, created, model, slotVars>>

\* Mutant of DisconnectEnds: one of the flags is forgotten.
DisconnectEndsOnline(t) ==
    /\ pc[t] = "closing"
    /\ established' = FALSE
    /\ pc' = [pc EXCEPT ![t] = "done"]
    /\ UNCHANGED <<clientVars, online, model, slotVars, kind, crossed>>

DisconnectEnds(t) ==
    /\ pc[t] = "closing"
    /\ online' = FALSE /\ established' = FALSE
    /\ pc' = [pc EXCEPT ![t] = "done"]
    /\ UNCHANGED <<clientVars, model, slotVars, kind, crossed>>

\* aclose raised: disconnect_inventory expects that, the flags stay.
DisconnectRaises(t) ==
    /\ pc[t] = "closing"
    /\ pc' = [pc EXCEPT ![t] = "raised"]
    /\ UNCHANGED <<clientVars, flagVars, slotVars, kind, crossed>>

-----------------------------------------------------------------------------

Init ==
    /\ client = Null /\ created = {Null} /\ closed = {}
    /\ online = FALSE /\ established = FALSE /\ model = "none"
    /\ free = MaxRequests /\ queue = <<>>
    /\ kind = [t \in Tasks |-> Null]
    /\ pc = [t \in Tasks |-> "idle"]
    /\ crossed = FALSE

Start(t) == Collect(t) \/ Refresh(t) \/ Disconnect(t)

Proceed(t) ==
    \/ CheckPasses(t) \/ CheckFails(t) \/ CheckRaises(t)
    \/ Send(t) \/ SendRefused(t)
    \/ CollectEnds(t) \/ RefreshEnds(t) \/ RefreshFails(t) \/ RequestRaises(t)
    \/ DisconnectEnds(t) \/ DisconnectRaises(t)

Next == \E t \in Tasks : Start(t) \/ Proceed(t)

Spec == Init /\ [][Next]_vars

\* The event loop runs what is ready; requests, the check and the closing end, bounded
\* by the timeout of the client.
FairSpec == Spec /\ \A t \in Tasks : WF_vars(Proceed(t))

-----------------------------------------------------------------------------
(* Properties *)

TypeOK ==
    /\ client \in Tasks \cup {Null}
    /\ created \subseteq Tasks \cup {Null} /\ closed \subseteq created
    /\ online \in BOOLEAN /\ established \in BOOLEAN /\ model \in Models
    /\ free \in 0..MaxRequests
    /\ queue \in Seq(Tasks)
    /\ kind \in [Tasks -> Kinds \cup {Null}]
    /\ pc \in [Tasks -> PcValues]
    /\ crossed \in BOOLEAN

\* No client is lost while it is open, whatever calls overlap: of all clients a device
\* ever had, only the current one may be open.
OneOpenClient == client \in created /\ created \ {client} \subseteq closed

\* A disconnect that is still closing, or whose aclose raised.
Interrupted == \E t \in Tasks : kind[t] = "disconnect" /\ pc[t] \in {"closing", "raised"}

\* A device marked online or established has an open client, unless a disconnect and a
\* refresh were under way together or a disconnect did not come to its end; and an
\* established device has a hardware model, which skip_on_platforms relies on.
FlagsAreTrue ==
    /\ (online \/ established) /\ ~crossed /\ ~Interrupted => client \notin closed
    /\ established => model = "name"

InSlot == {t \in Tasks : pc[t] \in {"woken", "sent"}}

\* The semaphore bounds the requests of the device through every change of client, no
\* slot is lost or handed out twice, and none is idle while a call waits for it.
SlotsAreExact ==
    /\ free + Cardinality(InSlot) = MaxRequests
    /\ \A t \in Tasks : pc[t] = "queued" <=> \E i \in 1..Len(queue) : queue[i] = t
    /\ \A i, j \in 1..Len(queue) : queue[i] = queue[j] => i = j
    /\ queue # <<>> => free = 0

\* Every call that starts ends, also those that waited for a slot while the client was
\* closed.
EveryCallEnds == \A t \in Tasks : UnderWay(t) ~> pc[t] \in Ended

=============================================================================
