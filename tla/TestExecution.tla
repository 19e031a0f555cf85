---------------------------- MODULE TestExecution ----------------------------
(***************************************************************************)
(* One AntaTest on one device (anta/models.py): construction, the call of  *)
(* its decorated test() coroutine, the collection of its commands, and the *)
(* verdict its code reports on the TestResult and on atomic results        *)
(* (anta/result_manager/models.py, anta/decorators.py).                    *)
(*                                                                         *)
(* The commands are collected concurrently by a gather without             *)
(* return_exceptions: when one raises, the test returns and the others go  *)
(* on.  The test's code itself never awaits: its reports are small steps   *)
(* here, but no other action comes between them.                           *)
(***************************************************************************)
EXTENDS Integers, FiniteSets

CONSTANTS
    Commands,       \* the commands the class may render
    Atomics,        \* the atomic results the code may add
    MaxReports      \* bound of the reports of the test's code

ASSUME TestAssumption == MaxReports \in Nat

VARIABLES
    phase,          \* where the coroutine is
    command,        \* instance_commands: command -> what became of it
    status,         \* result.result
    atomic,         \* atomic_results: atomic -> its status, "absent" if not added
    reports,        \* number of reports made by the test's code
    direct,         \* history: the code reported on the TestResult itself
    alarmed         \* history: an atomic result was once a failure or an error

vars == <<phase, command, status, atomic, reports, direct, alarmed>>

Statuses == {"unset", "success", "failure", "error", "skipped"}
Phases == {"new", "ready", "collecting", "judging", "returned"}

\* A command of the instance: not collected, being collected, collected, failed with
\* one of the three kinds of errors, ended with neither output nor error (an AntaDevice
\* other than AsyncEOSDevice may do that), or its collection raised.  "absent": not a
\* command of this instance.
Failures == {"unsupported", "known", "unknown"}
CommandStates == {"absent", "none", "sent", "output", "silent", "raised"} \cup Failures

Own == {c \in Commands : command[c] # "absent"}

\* AntaTest.collected and AntaTest.failed_commands
AllCollected == \A c \in Own : command[c] = "output"
Failed == {c \in Own : command[c] \in Failures}

-----------------------------------------------------------------------------
(* Construction *)

Instance(set, state) == [c \in Commands |-> IF c \in set THEN state ELSE "absent"]

\* __init__: invalid inputs, or a template that does not render, make an error and
\* leave the test with the commands rendered so far; eos_data may fill the outputs,
\* and is an error when it has more or less entries than there are commands.
Construct ==
    /\ phase = "new"
    /\ phase' = "ready"
    /\ \E set \in SUBSET Commands :
        \/ status' = "unset" /\ \E state \in {"none", "output"} : command' = Instance(set, state)
        \/ status' = "error" /\ command' = Instance(set, "none")
    /\ UNCHANGED <<atomic, reports, direct, alarmed>>

-----------------------------------------------------------------------------
(* The wrappers of test() *)

Return(s) == phase' = "returned" /\ status' = s

\* An earlier error, or the platform is one skip_on_platforms lists.
CallEnds ==
    /\ phase = "ready"
    /\ \/ status # "unset" /\ Return(status)
       \/ status = "unset" /\ Return("skipped")
    /\ UNCHANGED <<command, atomic, reports, direct, alarmed>>

Send == command' = [c \in Commands |-> IF c \in Own THEN "sent" ELSE "absent"]

\* The wrapper runs up to its only await: with all outputs there the test's code comes
\* next; otherwise all commands are collected, unless one of them is blocked.
Call ==
    /\ phase = "ready" /\ status = "unset"
    /\ \/ \* eos_data with an entry for each command
          /\ phase' = "judging" /\ command' = Instance(Own, "output") /\ UNCHANGED status
       \/ \* no eos_data, or eos_data of the wrong length
          /\ status' \in {"unset", "error"}
          /\ \/ AllCollected /\ phase' = "judging" /\ UNCHANGED command
             \/ ~AllCollected /\ phase' = "collecting" /\ Send
       \/ \* a command is in the blacklist
          /\ ~AllCollected /\ Return("error") /\ UNCHANGED command
    /\ UNCHANGED <<atomic, reports, direct, alarmed>>

\* Mutant of CommandEnds: an unsupported command skips the test as soon as it is known.
CommandEndsAtOnce(c) ==
    /\ command[c] = "sent"
    /\ \E s \in {"output", "silent"} \cup Failures :
        /\ command' = [command EXCEPT ![c] = s]
        /\ status' = IF s = "unsupported" THEN "skipped" ELSE status
    /\ UNCHANGED <<phase, atomic, reports, direct, alarmed>>

\* device.collect(c) ends; it may do so long after the test has returned.
CommandEnds(c) ==
    /\ command[c] = "sent"
    /\ \E s \in {"output", "silent"} \cup Failures : command' = [command EXCEPT ![c] = s]
    /\ UNCHANGED <<phase, status, atomic, reports, direct, alarmed>>

\* device.collect(c) raises: the first exception ends the gather and the test, the
\* later ones are lost.
CommandRaises(c) ==
    /\ command[c] = "sent"
    /\ command' = [command EXCEPT ![c] = "raised"]
    /\ IF phase = "collecting" THEN Return("error") ELSE UNCHANGED <<phase, status>>
    /\ UNCHANGED <<atomic, reports, direct, alarmed>>

\* _handle_failed_commands
FailureStatus ==
    IF \E c \in Failed : command[c] = "unsupported" THEN "skipped"
    ELSE IF \E c \in Failed : command[c] = "known" THEN "failure"
    ELSE "error"

\* Mutant of Gathered: the failed commands are looked for in the test's code only.
GatheredAny ==
    /\ phase = "collecting" /\ \A c \in Own : command[c] # "sent"
    /\ IF status # "unset" THEN Return(status) ELSE phase' = "judging" /\ UNCHANGED status
    /\ UNCHANGED <<command, atomic, reports, direct, alarmed>>

\* The gather is over: an earlier error, a failed command, or the test's code.
Gathered ==
    /\ phase = "collecting" /\ \A c \in Own : command[c] # "sent"
    /\ IF status # "unset" THEN Return(status)
       ELSE IF Failed # {} THEN Return(FailureStatus)
       ELSE phase' = "judging" /\ UNCHANGED status
    /\ UNCHANGED <<command, atomic, reports, direct, alarmed>>

-----------------------------------------------------------------------------
(* The test's code *)

Reporting ==
    /\ phase = "judging" /\ reports < MaxReports
    /\ reports' = reports + 1
    /\ UNCHANGED <<phase, command>>

\* TestResult._set_status
Report(s) ==
    /\ Reporting
    /\ status' = s
    /\ direct' = TRUE
    /\ UNCHANGED <<atomic, alarmed>>

\* Mutant of Propagated: the latest atomic result wins.
PropagatedAlways(s) == s

\* What an atomic status makes of the status of its TestResult.
Propagated(s) ==
    IF s \in {"failure", "error"} \/ (s = "success" /\ status = "unset") THEN s ELSE status

\* TestResult.add and AtomicTestResult._set_status, which add calls too
ReportAtomic(a, s) ==
    /\ Reporting
    /\ atomic' = [atomic EXCEPT ![a] = s]
    /\ status' = Propagated(s)
    /\ alarmed' = (alarmed \/ s \in {"failure", "error"})
    /\ UNCHANGED direct

\* The code returns, or raises and the wrapper reports an error.
CodeEnds ==
    /\ phase = "judging"
    /\ Return(status) \/ Return("error")
    /\ UNCHANGED <<command, atomic, reports, direct, alarmed>>

-----------------------------------------------------------------------------

Init ==
    /\ phase = "new"
    /\ command = [c \in Commands |-> "absent"]
    /\ status = "unset"
    /\ atomic = [a \in Atomics |-> "absent"]
    /\ reports = 0
    /\ direct = FALSE
    /\ alarmed = FALSE

Collecting == \E c \in Commands : CommandEnds(c) \/ CommandRaises(c)

Code ==
    \/ \E s \in Statuses \ {"unset"} : Report(s)
    \/ \E a \in Atomics, s \in Statuses : ReportAtomic(a, s)
    \/ CodeEnds

Next == Construct \/ CallEnds \/ Call \/ Collecting \/ Gathered \/ Code

Spec == Init /\ [][Next]_vars

-----------------------------------------------------------------------------
(* Properties *)

TypeOK ==
    /\ phase \in Phases
    /\ command \in [Commands -> CommandStates]
    /\ status \in Statuses
    /\ atomic \in [Atomics -> Statuses \cup {"absent"}]
    /\ reports \in 0..MaxReports
    /\ direct \in BOOLEAN /\ alarmed \in BOOLEAN

\* The result a test returned is final: commands that end or raise after it, which a
\* partial failure of the gather leaves behind, do not touch it any more.
ReturnedIsFinal == [][phase = "returned" => UNCHANGED <<phase, status, atomic>>]_vars

\* The test's code only sees commands that ended without an error, and no command is
\* still being collected while it runs.
JudgedOnData ==
    phase = "judging" => \A c \in Own : command[c] \in {"output", "silent"}

\* Unless the code reports on the TestResult itself, no failure or error of an atomic
\* result is lost, not even when that atomic result is set again later, and no atomic
\* result makes a test that has failed a success.
AtomicAlarmsLast ==
    /\ alarmed /\ ~direct => status \in {"failure", "error"}
    /\ status = "success" /\ ~direct =>
           \A a \in Atomics : atomic[a] \notin {"failure", "error"}

=============================================================================
