---------------------------- MODULE ConfigSession ----------------------------
(***************************************************************************)
(* SessionConfig (asynceapi/config_session.py): one caller that configures *)
(* a device through a named configuration session.                         *)
(*                                                                         *)
(* Every method is one request of a few commands, which the device         *)
(* (external) runs in order up to the first that fails.  A request may be  *)
(* lost, and so may its answer, after the device ran it: the method then   *)
(* raises.  A configuration is a set of lines <<key, value>>, one per key. *)
(***************************************************************************)
EXTENDS Integers, Sequences, Functions

CONSTANTS
    Contents,   \* the contents of a push or a file: sequences of lines, some Empty
    Empty,      \* an empty line
    Nothing,    \* no session, no timer
    Unknown     \* the caller cannot tell

Lines == (UNION {Range(content) : content \in Contents}) \ {Empty}

\* Text is a sequence of lines, and the two values are told from a configuration.
ASSUME ConfigAssumption ==
    /\ \A content \in Contents : content \in Seq(Range(content))
    /\ Nothing # Unknown /\ Nothing # "pending"
    /\ \A lines \in SUBSET Lines : lines # Nothing /\ lines # Unknown

VARIABLES
    running,    \* external: the running configuration
    startup,    \* external: the startup configuration
    pending,    \* external: the configuration in the session
    fallback,   \* external: what an unconfirmed commit goes back to
    raised,     \* the last method raised
    known       \* history: what the caller makes of pending, running and fallback

sessionVars == <<running, startup, pending, fallback, raised, known>>

Facts(p, r, f) == [pending |-> p, running |-> r, fallback |-> f]

SessionInit ==
    /\ running = {} /\ startup = {}
    /\ pending = Nothing /\ fallback = Nothing
    /\ raised = FALSE
    /\ known = Facts(Nothing, {}, Nothing)

-----------------------------------------------------------------------------
(* The device (external) *)

Enter(d)   == [d EXCEPT !.pending = IF @ = Nothing THEN d.running ELSE @]
Type(d, l) == [d EXCEPT !.pending = IF @ = Unknown THEN Unknown
                                    ELSE {x \in @ : x[1] # l[1]} \cup {l}]

\* The configuration after the first n of some lines.
TypedTo(d, lines, n) ==
    LET after[i \in 0..Len(lines)] == IF i = 0 THEN d ELSE Type(after[i - 1], lines[i])
    IN  after[n]

Typed(d, lines) == TypedTo(d, lines, Len(lines))

\* A second commit confirms the first; a timer keeps the old configuration at hand.
Commit(d, timer) ==
    IF d.pending = Nothing THEN [d EXCEPT !.fallback = Nothing]
    ELSE Facts(Nothing, d.pending, IF timer THEN d.running ELSE Nothing)

Abort(d) ==
    IF d.fallback = Nothing THEN [d EXCEPT !.pending = Nothing]
    ELSE Facts(Nothing, d.fallback, Nothing)

Execute(d, c) ==
    CASE c.verb = "configure session"     -> Enter(d)
      [] c.verb = "rollback clean-config" -> [d EXCEPT !.pending = {}]
      [] c.verb = "line"                  -> Type(d, c.arg)
      [] c.verb = "copy"                  -> Typed(d, c.arg)
      [] c.verb = "commit"                -> Commit(d, c.arg)
      [] c.verb = "abort"                 -> Abort(d)

\* The device after the first n commands.
Run(d, commands, n) ==
    LET after[i \in 0..Len(commands)] == IF i = 0 THEN d ELSE Execute(after[i - 1], commands[i])
    IN  after[n]

-----------------------------------------------------------------------------
(* The methods *)

Command(verb, arg) == [verb |-> verb, arg |-> arg]

Opening(replace) ==
    LET enter == Command("configure session", Nothing)
    IN  IF replace THEN <<enter, Command("rollback clean-config", Nothing)>> ELSE <<enter>>

\* `filter(None, content)`
Filled(content) ==
    LET kept[i \in 0..Len(content)] ==
            IF i = 0 THEN <<>>
            ELSE IF content[i] = Empty THEN kept[i - 1] ELSE Append(kept[i - 1], content[i])
    IN  kept[Len(content)]

TypedIn(lines) == [i \in DOMAIN lines |-> Command("line", lines[i])]

\* Mutant of PushCommands: the session is cleaned after the content.
PushCommandsCleanLast(content, replace) ==
    <<Opening(replace)[1]>> \o TypedIn(Filled(content)) \o Tail(Opening(replace))

PushCommands(content, replace) == Opening(replace) \o TypedIn(Filled(content))

LoadCommands(file, replace) == Opening(replace) \o <<Command("copy", file)>>

\* One request: lost, cut off after the device ran `ran` of its commands, or answered;
\* only with all commands run well and an answer does the method return.
Request(commands, well) ==
    \E ran \in 0..Len(commands), answered \in BOOLEAN :
        LET device == Run(Facts(pending, running, fallback), commands, ran)
        IN  /\ pending' = device.pending /\ running' = device.running
            /\ fallback' = device.fallback
            /\ raised' = ~(answered /\ well /\ ran = Len(commands))
            /\ UNCHANGED startup

\* What a push or a load teaches: of one that raised, nothing.
Learn(lines, replace) ==
    known' = IF raised' THEN [known EXCEPT !.pending = Unknown]
             ELSE IF replace THEN [known EXCEPT !.pending = Typed(Facts({}, {}, {}), lines).pending]
             ELSE Typed(Enter(known), lines)

Push(content, replace) ==
    /\ Request(PushCommands(content, replace), TRUE)
    /\ Learn(Filled(content), replace)

\* The device may stop inside the file: its messages then make a RuntimeError.
LoadFile(file, replace) ==
    /\ \E n \in 0..Len(file) :
        Request(LoadCommands(SubSeq(file, 1, n), replace), n = Len(file))
    /\ Learn(file, replace)

CommitSession(timer) ==
    /\ Request(<<Command("commit", timer)>>, TRUE)
    /\ known' = IF raised' THEN Facts(Unknown, Unknown, Unknown)
                ELSE IF known.pending = Unknown THEN Facts(Nothing, Unknown, Unknown)
                ELSE Commit(known, timer)

AbortSession ==
    /\ Request(<<Command("abort", Nothing)>>, TRUE)
    /\ known' = IF ~raised' THEN Abort(known)
                ELSE IF known.fallback = Nothing THEN [known EXCEPT !.pending = Unknown]
                ELSE Facts(Unknown, Unknown, Unknown)

\* status, status_all and diff only read.
StatusOf(d) == IF d.pending = Nothing THEN Nothing ELSE "pending"

\* A status that is answered tells whether there is a session.
Status ==
    /\ raised' \in BOOLEAN
    /\ known' = IF ~raised' /\ StatusOf(Facts(pending, running, fallback)) = Nothing
                THEN [known EXCEPT !.pending = Nothing]
                ELSE known
    /\ UNCHANGED <<running, startup, pending, fallback>>

Write ==
    /\ raised' \in BOOLEAN
    /\ startup' \in {running} \cup (IF raised' THEN {startup} ELSE {})
    /\ UNCHANGED <<running, pending, fallback, known>>

\* The commit timer of the device expires; the caller knows the time.
TimerExpires ==
    /\ fallback # Nothing
    /\ running' = fallback /\ fallback' = Nothing
    /\ known' = IF known.fallback = Unknown THEN [known EXCEPT !.running = Unknown]
                ELSE Facts(known.pending, known.fallback, Nothing)
    /\ UNCHANGED <<startup, pending, raised>>

SessionNext ==
    \/ \E content \in Contents, replace \in BOOLEAN : Push(content, replace)
    \/ \E file \in Contents, replace \in BOOLEAN :
        (\A i \in DOMAIN file : file[i] # Empty) /\ LoadFile(file, replace)
    \/ \E timer \in BOOLEAN : CommitSession(timer)
    \/ AbortSession \/ Status \/ Write \/ TimerExpires

SessionSpec == SessionInit /\ [][SessionNext]_sessionVars

-----------------------------------------------------------------------------
(* Properties *)

\* Whatever was lost or cut off, the caller who learns only from methods that
\* returned is right about the session and the running configuration: a push with
\* `replace`, an abort or a status that finds none ends the doubt (push, abort).
SessionIsIntended ==
    /\ known.pending # Unknown => pending = known.pending
    /\ known.running # Unknown => running = known.running
    /\ known.fallback # Unknown => fallback = known.fallback
=============================================================================
