--------------------------- MODULE SessionContract ---------------------------
(***************************************************************************)
(* What EapiSessionAuth promises (asynceapi/_auth.py): a client holds at   *)
(* most one eAPI session, gives it up before it opens another, opens each  *)
(* only once, and sends a request with the session it holds at that        *)
(* moment.  SessionAuth is shown to implement this.                        *)
(***************************************************************************)
CONSTANTS
    Requests,   \* the requests of the client
    Sessions,   \* the eAPI sessions a device can open
    None        \* no session

VARIABLES
    held,       \* the session the client holds
    carried,    \* per request under way: the session it was sent with
    opened      \* the sessions the client has held so far

vars == <<held, carried, opened>>

Init ==
    /\ held = None
    /\ carried = [r \in Requests |-> None]
    /\ opened = {}

Send(r) ==
    /\ carried[r] = None
    /\ held' # None
    /\ carried' = [carried EXCEPT ![r] = held']

Finish(r) ==
    /\ carried[r] # None
    /\ carried' = [carried EXCEPT ![r] = None]

Keep == held' = held /\ opened' = opened

Open ==
    /\ held = None
    /\ \E s \in Sessions \ opened : held' = s /\ opened' = opened \cup {s}

GiveUp == held' = None /\ UNCHANGED <<carried, opened>>

\* The request that had to log in is sent at once with the session it opened.
Next ==
    \/ \E r \in Requests : Send(r) /\ (Keep \/ Open)
    \/ \E r \in Requests : Finish(r) /\ Keep
    \/ GiveUp

Spec == Init /\ [][Next]_vars
=============================================================================
