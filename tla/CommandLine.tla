----------------------------- MODULE CommandLine -----------------------------
(***************************************************************************)
(* One invocation of `anta` (anta/cli): from its options to its exit code. *)
(*                                                                         *)
(* The commands: nrfu with its reports, the three of `exec` (ExecCommands),*)
(* `get from-ansible` and `from-cvp` ("import"), `debug` and those that    *)
(* only show something ("show": get inventory, tags, tests and commands,   *)
(* check catalog).  Any call may fail where the code expects it, or raise  *)
(* what nobody catches: cli() then exits with 1.                           *)
(***************************************************************************)
EXTENDS ExecCommands

VARIABLES
    command,    \* the command that is run
    options,    \* its options
    phase,      \* what is done next
    exit,       \* the exit code
    results,    \* the statuses of the results in the result manager
    collected,  \* the command of `debug` has an output
    output,     \* the file at the path of the output option: none, empty, old, other, partial, new
    consent,    \* the user confirmed that it may be overwritten
    replaced    \* history: what was in the file when it was opened for writing

cliVars == <<command, options, phase, exit, results, collected, output, consent, replaced>>
vars    == <<cliVars, execVars>>

Exec     == {"clear", "snapshot", "tech"}
Verbs    == Exec \cup {"nrfu", "import", "debug", "show"}
Statuses == {"success", "failure", "error", "skipped"}

\* ExitCode
OK == 0  INTERNAL_ERROR == 1  USAGE_ERROR == 2  TESTS_ERROR == 3  TESTS_FAILED == 4

\* None is neither an exit code nor what a file holds.
ASSUME CommandLineAssumption == None \notin 0..4 /\ None # "old"

\* The options a command has; the credentials are the same for all with an inventory.
\* With `--help` the others do not matter.
Options(verb) ==
    LET of(one, values, default) == IF verb = one THEN values ELSE {default}
        flag(one) == of(one, BOOLEAN, FALSE)
    IN  [help          : IF verb = "nrfu" THEN BOOLEAN ELSE {FALSE},
         password      : of("debug", {"given", "prompt", "none"}, "given"),
         enable        : flag("debug"), enable_password : flag("debug"),
         dry_run       : flag("nrfu"), ignore_status : flag("nrfu"), ignore_error : flag("nrfu"),
         hide          : of("nrfu", {{}, {"failure"}, {"error", "failure"}}, {}),
         format        : of("nrfu", {"table", "json", "csv", "md", "tpl"}, "table"),
         overwrite     : flag("import"), tty : flag("import"),
         configure     : flag("tech")]

Init ==
    /\ command \in Verbs /\ options \in Options(command)
    /\ phase = "options" /\ exit = None
    /\ results = {} /\ collected = FALSE
    /\ output \in {"none", "empty", "old"}
    /\ consent = FALSE /\ replaced = None
    /\ ExecInit

-----------------------------------------------------------------------------
(* Leaving, and going on *)

Exit(code) == phase' = "exited" /\ exit' = code
GoTo(next) == phase' = next /\ UNCHANGED exit
Fails(code) == Exit(code) \/ Exit(INTERNAL_ERROR)

\* What the steps before the run leave alone.
Preparing == UNCHANGED <<command, options, results, collected, output, replaced, execVars>>

-----------------------------------------------------------------------------
(* Options, inventory and catalog *)

\* click refuses the arguments, an alias fits several commands or none, the log file
\* cannot be opened.
Misused ==
    /\ phase = "options"
    /\ Fails(USAGE_ERROR)
    /\ Preparing /\ UNCHANGED consent

\* `--help` for a command of nrfu: nothing is parsed.
ShowHelp ==
    /\ phase = "options" /\ options.help
    /\ Exit(OK)
    /\ Preparing /\ UNCHANGED consent

\* core_options: the prompt may be left with Ctrl-C, a password may be missing; some
\* of the commands that show have no inventory.
ReadCredentials ==
    /\ phase = "options" /\ ~options.help /\ command # "import"
    /\ \/ options.password = "prompt" /\ Exit(INTERNAL_ERROR)
       \/ options.password = "none" /\ Exit(USAGE_ERROR)
       \/ options.enable_password /\ ~options.enable /\ Exit(USAGE_ERROR)
       \/ command = "show" /\ GoTo("run")
       \/ /\ options.password # "none"
          /\ options.enable_password => options.enable
          /\ GoTo("inventory")
    /\ Preparing /\ UNCHANGED consent

ParseInventory ==
    /\ phase = "inventory"
    /\ GoTo(IF command = "nrfu" THEN "catalog" ELSE "run") \/ Fails(USAGE_ERROR)
    /\ Preparing /\ UNCHANGED consent

ParseCatalog ==
    /\ phase = "catalog"
    /\ GoTo("run") \/ Fails(USAGE_ERROR)
    /\ Preparing /\ UNCHANGED consent

-----------------------------------------------------------------------------
(* nrfu *)

\* run_tests; a dry run exits before there is a report.
RunTests ==
    /\ phase = "run" /\ command = "nrfu"
    /\ IF options.dry_run THEN Fails(OK) /\ UNCHANGED results
       ELSE \/ Exit(INTERNAL_ERROR) /\ UNCHANGED results
            \/ GoTo("report") /\ results' \in SUBSET Statuses
    /\ UNCHANGED <<command, options, collected, output, consent, replaced, execVars>>

\* The file is not opened, opened but not written to the end, or written.
WriteFile(written, failed) ==
    \/ failed /\ UNCHANGED <<output, replaced>>
    \/ failed /\ output' = "partial" /\ replaced' = output
    \/ written /\ output' = "new" /\ replaced' = output

\* save_to_csv, save_markdown_report and print_json expect an OSError; print_jinja
\* does not, and may fail to render.
Report ==
    /\ phase = "report"
    /\ CASE options.format = "table" -> GoTo("exit") /\ UNCHANGED <<output, replaced>>
         [] options.format = "tpl"   -> WriteFile(GoTo("exit"), Exit(INTERNAL_ERROR))
         [] OTHER                    -> WriteFile(GoTo("exit"), Fails(USAGE_ERROR))
    /\ UNCHANGED <<command, options, results, collected, consent, execVars>>

\* The overall status of a manager with results of these statuses (get_status).
StatusOf(statuses, ignore_error) ==
    IF "error" \in statuses /\ ~ignore_error THEN "error"
    ELSE IF "failure" \in statuses THEN "failure"
    ELSE IF "success" \in statuses THEN "success"
    ELSE IF "skipped" \in statuses THEN "skipped" ELSE "unset"

\* Mutant of Judged: the results that `--hide` leaves.
JudgedShown == results \ options.hide

\* The results the exit code is about: all of them, also those the report hides.
Judged == results

\* exit_with_code
ExitWithCode ==
    /\ phase = "exit"
    /\ LET status == StatusOf(Judged, options.ignore_error)
       IN  Exit(IF options.ignore_status \/ status \in {"unset", "skipped", "success"} THEN OK
                ELSE IF status = "failure" THEN TESTS_FAILED ELSE TESTS_ERROR)
    /\ Preparing /\ UNCHANGED consent

-----------------------------------------------------------------------------
(* get from-ansible and from-cvp *)

NotEmpty == output \notin {"none", "empty"}

\* Mutant of MustAsk: a terminal is asked, a script is not.
MustAskTerminal == NotEmpty /\ ~options.overwrite /\ options.tty

MustAsk == NotEmpty /\ ~options.overwrite

\* inventory_output_options: look at the file, ask on a terminal, refuse elsewhere.
CheckOutput ==
    /\ phase = "options" /\ command = "import"
    /\ \/ MustAsk /\ options.tty /\ consent' = TRUE /\ GoTo("import")
       \/ MustAsk /\ options.tty /\ UNCHANGED consent /\ Exit(INTERNAL_ERROR)
       \/ MustAsk /\ ~options.tty /\ UNCHANGED consent /\ Exit(USAGE_ERROR)
       \/ ~MustAsk /\ UNCHANGED consent /\ (GoTo("import") \/ Exit(INTERNAL_ERROR))
    /\ Preparing

\* Another program writes the file while the inventory is fetched.
Appear ==
    /\ phase = "import" /\ output # "other"
    /\ output' = "other"
    /\ UNCHANGED <<command, options, phase, exit, results, collected, consent, replaced, execVars>>

\* The inventory cannot be fetched or read, or is written.
Import ==
    /\ phase = "import"
    /\ \/ Fails(USAGE_ERROR) /\ UNCHANGED <<output, replaced>>
       \/ WriteFile(Exit(OK), Exit(USAGE_ERROR))
    /\ UNCHANGED <<command, options, results, collected, consent, execVars>>

-----------------------------------------------------------------------------
(* debug, and the commands that show *)

\* An unknown device and a command that is not collected are misuse.
Debug ==
    /\ phase = "run" /\ command = "debug"
    /\ \/ Fails(USAGE_ERROR) /\ UNCHANGED collected
       \/ Exit(OK) /\ collected' = TRUE
    /\ UNCHANGED <<command, options, results, output, consent, replaced, execVars>>

Show ==
    /\ phase = "run" /\ command = "show"
    /\ Exit(OK) \/ Fails(USAGE_ERROR)
    /\ Preparing /\ UNCHANGED consent

-----------------------------------------------------------------------------
(* exec *)

\* snapshot reads its list of commands first, which may fail.
StartExec ==
    /\ phase = "run" /\ command \in Exec
    /\ \/ GoTo("jobs") /\ Connect(command)
       \/ command = "snapshot" /\ Exit(INTERNAL_ERROR) /\ UNCHANGED execVars
    /\ UNCHANGED <<command, options, results, collected, output, consent, replaced>>

StepExec ==
    /\ phase = "jobs"
    /\ JobStep(options.configure)
    /\ UNCHANGED cliVars

AllOver(jobs) == \A j \in jobs : job[j] \in Over

EndExec ==
    /\ phase = "jobs"
    /\ \/ Raised(DOMAIN job) /\ CancelJobs /\ Exit(INTERNAL_ERROR)
       \/ ~Raised(DOMAIN job) /\ AllOver(DOMAIN job) /\ Exit(OK) /\ UNCHANGED execVars
    /\ UNCHANGED <<command, options, results, collected, output, consent, replaced>>

-----------------------------------------------------------------------------
Step ==
    \/ Misused \/ ShowHelp \/ ReadCredentials \/ ParseInventory \/ ParseCatalog
    \/ RunTests \/ Report \/ ExitWithCode
    \/ CheckOutput \/ Import \/ Debug \/ Show
    \/ StartExec \/ StepExec \/ EndExec

Next == Step \/ Appear

Spec == Init /\ [][Next]_vars

-----------------------------------------------------------------------------
(* Properties *)

\* Exit code 0 (exit_with_code and the commands): no result, shown or hidden, is a
\* failure or an error unless the options say to ignore it, the report that was asked
\* for is complete, the inventory is written, the command has its output.
ExitZeroMeansGood ==
    exit = OK /\ ~options.help =>
        /\ command = "nrfu" /\ ~options.dry_run =>
            /\ options.format # "table" => output = "new"
            /\ options.ignore_status \/ "failure" \notin results
            /\ options.ignore_status \/ options.ignore_error \/ "error" \notin results
        /\ command = "import" => output = "new"
        /\ command = "debug" => collected

\* inventory_output_options: what the output file held when the command started is
\* replaced by an inventory only with --overwrite or a confirmation, also when the
\* file is looked at long before it is written; what another program puts there in
\* between is replaced without a question.
NoSilentOverwrite ==
    command = "import" /\ replaced = "old" => options.overwrite \/ consent

\* No other command of the snapshot has the same safe name.
OwnFile(j) == \A c \in Commands : SafeName[c] = SafeName[j[3]] => c = j[3]

\* exec: when the command ends well, every job on a device that could be reached did
\* its work or logged an error; a raising one is never passed over (asyncio.gather).  A
\* file of a snapshot holds the output of its command; of the commands that have the
\* same safe name there is one file, and nothing is said of whose output it holds:
\* one of them is lost (README, Findings).
NoSilentDevice ==
    exit = OK /\ command \in Exec =>
        \A j \in JobsOf(command, online) :
            \/ j \in logged
            \/ command = "clear" /\ {j[2]} \X ClearCommands(j[2]) \subseteq cleared
            \/ command = "tech" /\ j[2] \in copied
            \/ /\ command = "snapshot" /\ FileOf(j) \in DOMAIN files
               /\ OwnFile(j) => files[FileOf(j)] = <<j[2], j[3]>>

=============================================================================
