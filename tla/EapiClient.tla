----------------------------- MODULE EapiClient -----------------------------
(***************************************************************************)
(* What the eAPI client makes of an answer: Device.cli and jsonrpc_exec    *)
(* (asynceapi/device.py), EapiResponse.from_jsonrpc (asynceapi/_models.py) *)
(* and AsyncEOSDevice._collect (anta/device.py).                           *)
(*                                                                         *)
(* A request is a sequence of commands.  The answer (external) has a list  *)
(* of data, one item per command the device came to, and perhaps an error. *)
(* An item is "output" or "errors"; the output of a command is the index   *)
(* of the data it was taken from.  A behaviour is one request: `asked`     *)
(* says what of it fails, and `made` what the three make of the answer.    *)
(***************************************************************************)
EXTENDS Integers, Sequences, FiniteSets, FiniteSetsExt, Functions

CONSTANTS
    Requests,   \* the requests
    Details,    \* the error texts of a command, "" among them
    Absent      \* Python's None

\* A request is a list, and None is none of the exceptions.
ASSUME ClientAssumption ==
    /\ \A r \in Requests : r \in Seq(Range(r))
    /\ Absent \notin {"EapiCommandError", "IndexError", "RuntimeError"}

VARIABLES
    asked,      \* the request, and what the device and the caller do about it
    made        \* what the client made of the answer

clientVars == <<asked, made>>

-----------------------------------------------------------------------------
(* The device (external) *)

\* Its answer to a request of n commands of which `bad` fail. `nodata` is an error
\* before any command, with empty data (the comment in jsonrpc_exec).
AnswerOf(n, bad, stop, nodata) ==
    LET reached == IF stop /\ bad # {} THEN Min(bad) ELSE n
    IN  [error |-> bad # {} \/ nodata,
         data  |-> IF nodata THEN <<>>
                   ELSE [i \in 1..reached |-> IF i \in bad THEN "errors" ELSE "output"]]

-----------------------------------------------------------------------------
(* Device.jsonrpc_exec and cli *)

\* The command that failed: the one the last item belongs to.
ErrorAt(answer) == Len(answer.data)

Returned(outputs) == [raised |-> Absent, passed |-> outputs, failed |-> Absent, not_exec |-> <<>>]

\* With empty data `cmd_data[err_at]` raises IndexError.
JsonRpcExec(commands, answer) ==
    LET at == ErrorAt(answer) IN
    IF ~answer.error THEN Returned([i \in 1..Len(answer.data) |-> i])
    ELSE IF at = 0 THEN [Returned(<<>>) EXCEPT !.raised = "IndexError"]
    ELSE [raised |-> "EapiCommandError",
          passed |-> [i \in 1..(at - 1) |-> i],
          failed |-> commands[at],
          not_exec |-> SubSeq(commands, at + 1, Len(commands))]

\* suppress_error turns an EapiCommandError, and nothing else, into None.
Cli(commands, answer, suppress_error) ==
    LET res == JsonRpcExec(commands, answer) IN
    IF commands = <<>> THEN [Returned(<<>>) EXCEPT !.raised = "RuntimeError"]
    ELSE IF suppress_error /\ res.raised = "EapiCommandError" THEN Returned(Absent)
    ELSE res

-----------------------------------------------------------------------------
(* EapiResponse.from_jsonrpc *)

\* Are the commands without data marked as not executed?
NotExecuted(answer, stop) == answer.error /\ stop

Executed(i, answer) ==
    [output |-> IF answer.data[i] = "errors" THEN Absent ELSE i,
     success |-> answer.data[i] # "errors", executed |-> TRUE]

Skipped == [output |-> Absent, success |-> FALSE, executed |-> FALSE]

FromJsonRpc(commands, answer, stop) ==
    LET count == Min({Len(answer.data), Len(commands)})
        shown == IF NotExecuted(answer, stop) THEN Len(commands) ELSE count
    IN  [i \in 1..shown |-> IF i <= count THEN Executed(i, answer) ELSE Skipped]

-----------------------------------------------------------------------------
(* AsyncEOSDevice._collect and _handle_eapi_command_error *)

\* `enable` goes first; a command's answer is the last one.
Commands(enable, command) == IF enable THEN <<"enable", command>> ELSE <<command>>

\* Mutant of Collected: the first answer is kept.
CollectedFirst(res) == res.passed[1]

\* `response[-1]`
Collected(res) == res.passed[Len(res.passed)]

\* EOS gives details, or only empty ones: then errmsg is the error.
ErrorsOf(details) == IF details \ {""} = {} THEN {"errmsg"} ELSE details \ {""}

Collect(enable, command, answer, details) ==
    LET commands == Commands(enable, command)
        res == Cli(commands, answer, FALSE)
    IN  IF res.raised = "EapiCommandError"
        THEN [output |-> Absent, errors |-> ErrorsOf(details), raised |-> FALSE]
        ELSE IF res.raised # Absent
        THEN [output |-> Absent, errors |-> {}, raised |-> TRUE]
        ELSE [output |-> commands[Collected(res)], errors |-> {}, raised |-> FALSE]

-----------------------------------------------------------------------------
(* A request *)

\* Commands `bad` fail with the errors `details`; or, with `nodata`, the request itself.
Asked == UNION {
    [request : {r}, bad : SUBSET (1..Len(r)), stop : BOOLEAN, nodata : BOOLEAN,
     suppress : BOOLEAN, details : SUBSET Details] : r \in Requests}

\* Is it one that _collect makes?
OfATest(r) == Len(r) = 1 \/ (Len(r) = 2 /\ r[1] = "enable")

\* cli and _collect leave it to the device to stop at the first command that fails.
Handled(in) ==
    LET r == in.request
        stopped == AnswerOf(Len(r), in.bad, TRUE, in.nodata)
    IN  [cli       |-> Cli(r, stopped, in.suppress),
         response  |-> FromJsonRpc(r, AnswerOf(Len(r), in.bad, in.stop, in.nodata), in.stop),
         collected |-> IF OfATest(r) THEN Collect(Len(r) = 2, r[Len(r)], stopped, in.details)
                       ELSE Absent]

ClientInit == asked \in Asked /\ made = Absent

Handle ==
    /\ made = Absent
    /\ made' = Handled(asked)
    /\ UNCHANGED asked

ClientSpec == ClientInit /\ [][Handle]_clientVars

-----------------------------------------------------------------------------
(* Properties *)

\* Whatever a device answers, every command is accounted for: an EapiCommandError is
\* raised exactly when a command failed, unless asked not to, and names the first that
\* failed, and those before and after it; a response tells for each command whether it
\* ran and passed; a test gets the output of its own command, or an error that is not
\* empty.  An error before any command, which comes without data, is never silent
\* either, but which exception tells of it is left open (jsonrpc_exec, from_jsonrpc,
\* _collect; README, Findings).
AnswerIsAccounted ==
    made # Absent =>
        LET r == asked.request  cli == made.cli  res == made.response IN
        /\ cli.raised = "RuntimeError" <=> r = <<>>
        /\ ~asked.nodata =>
            /\ cli.raised = "EapiCommandError" <=> asked.bad # {} /\ ~asked.suppress
            /\ cli.raised = Absent <=> r # <<>> /\ (asked.bad = {} \/ asked.suppress)
            /\ cli.raised = "EapiCommandError" =>
                /\ cli.failed = r[Min(asked.bad)]
                /\ Len(cli.passed) + 1 + Len(cli.not_exec) = Len(r)
                /\ cli.not_exec = SubSeq(r, Min(asked.bad) + 1, Len(r))
            /\ cli.raised = Absent /\ asked.bad = {} => Len(cli.passed) = Len(r)
        /\ asked.nodata /\ ~asked.suppress => cli.raised # Absent
        /\ asked.stop \/ ~asked.nodata => DOMAIN res = DOMAIN r
        /\ \A i \in DOMAIN res :
            res[i].success <=> res[i].executed /\ i \notin asked.bad
        /\ \A i \in DOMAIN res :
            res[i].executed => ~asked.nodata /\ (asked.stop => \A j \in asked.bad : i <= j)
        /\ made.collected # Absent =>
            LET c == made.collected
                fails == asked.bad # {} \/ asked.nodata
            IN
            /\ c.output = (IF fails THEN Absent ELSE r[Len(r)])
            /\ fails <=> c.errors # {} \/ c.raised
            /\ c.raised => asked.nodata
            /\ "" \notin c.errors
=============================================================================
