------------------------- MODULE CommandLineProofs -------------------------
(***************************************************************************)
(* CommandLine, for any devices, commands and formats: what exit code 0    *)
(* means, which files are replaced, and what becomes of every device.      *)
(*                                                                         *)
(* The inductive invariant says what each phase of an invocation has done  *)
(* so far, and which commands come to it.                                  *)
(***************************************************************************)
EXTENDS CommandLine, TLAPS

\* Which command is in which phase; only an exited one has an exit code.
Phased ==
    /\ options.help => command = "nrfu"
    /\ phase # "exited" => exit = None
    /\ phase \in {"catalog", "report", "exit"} => command = "nrfu"
    /\ phase = "import" => command = "import"
    /\ phase \in {"inventory", "run"} => command # "import"
    /\ phase = "jobs" => command \in Exec

\* What was done when the exit code of the results is worked out.
Reported ==
    /\ phase \in {"report", "exit"} => ~ options.dry_run
    /\ phase = "exit" => (options.format # "table" => output = "new")

\* An inventory that was there at the beginning is replaced by an import that may do so.
Allowed ==
    /\ phase = "import" /\ output = "old" => options.overwrite \/ consent
    /\ NoSilentOverwrite

\* The file of a job is there, with its output when the name of the file is its own.
Stored(j) ==
    /\ FileOf(j) \in DOMAIN files
    /\ OwnFile(j) => files[FileOf(j)] = <<j[2], j[3]>>

\* What a job that is done has to show for it.
Did(j) ==
    \/ j \in logged
    \/ command = "clear" /\ {j[2]} \X ClearCommands(j[2]) \subseteq cleared
    \/ command = "tech" /\ j[2] \in copied
    \/ command = "snapshot" /\ Stored(j)

Gathered ==
    /\ phase = "jobs" =>
           /\ DOMAIN job = JobsOf(command, online)
           /\ \A j \in DOMAIN job : job[j] # "cancelled" /\ (job[j] = "done" => Did(j))
    /\ NoSilentDevice

IInv == Phased /\ Reported /\ Allowed /\ Gathered /\ ExitZeroMeansGood

Codes == {INTERNAL_ERROR, USAGE_ERROR, TESTS_ERROR, TESTS_FAILED}

LEMMA CodesDiffer == OK # None /\ OK \notin Codes
BY CommandLineAssumption DEF Codes, OK, INTERNAL_ERROR, USAGE_ERROR, TESTS_ERROR, TESTS_FAILED

\* The job of a kind of command is one of the three.
LEMMA KindOfJob ==
    ASSUME NEW verb \in Exec, NEW devices, NEW j \in JobsOf(verb, devices)
    PROVE  j[1] = verb /\ j[2] \in devices
BY DEF JobsOf, Exec

\* Two jobs of a snapshot with one file, which is the own one of a command, are one job.
LEMMA OneJobAFile ==
    ASSUME NEW devices, NEW i \in JobsOf("snapshot", devices), NEW j \in JobsOf("snapshot", devices),
           OwnFile(i), FileOf(i) = FileOf(j)
    PROVE  i = j
<1>1. /\ i \in {"snapshot"} \X devices \X Commands \X Formats
      /\ j \in {"snapshot"} \X devices \X Commands \X Formats
  BY DEF JobsOf
<1>2. i = <<"snapshot", i[2], i[3], i[4]>> /\ j = <<"snapshot", j[2], j[3], j[4]>> BY <1>1
<1>3. i[2] = j[2] /\ i[4] = j[4] /\ SafeName[i[3]] = SafeName[j[3]] BY DEF FileOf
<1>4. j[3] = i[3] BY <1>1, <1>3 DEF OwnFile
<1> QED BY <1>2, <1>3, <1>4

LEMMA InitHolds == Init => IInv
<1> SUFFICES ASSUME Init PROVE IInv
  OBVIOUS
<1>1. phase = "options" /\ exit = None /\ replaced = None BY DEF Init
<1>2. options.help => command = "nrfu"
  BY DEF Init, Options
<1>3. exit # OK /\ replaced # "old" BY <1>1, CodesDiffer, CommandLineAssumption
<1> QED BY <1>1, <1>2, <1>3
     DEF IInv, Phased, Reported, Allowed, NoSilentOverwrite, Gathered, NoSilentDevice, ExitZeroMeansGood

-----------------------------------------------------------------------------
(* Before the run *)

\* A step that exits with an error, or goes on, and leaves what was done alone.
LEMMA ExitKeeps ==
    ASSUME IInv, phase # "exited", phase' = "exited", exit' \in Codes,
           UNCHANGED <<command, options>>, replaced' = "old" => replaced = "old",
           consent => consent'
    PROVE  IInv'
<1>1. exit' # OK BY CodesDiffer
<1>2. Phased' BY DEF IInv, Phased
<1>3. Reported' /\ Gathered' /\ ExitZeroMeansGood'
  BY <1>1 DEF Reported, Gathered, NoSilentDevice, ExitZeroMeansGood
<1>4. Allowed' BY DEF IInv, Allowed, NoSilentOverwrite
<1> QED BY <1>2, <1>3, <1>4 DEF IInv

LEMMA GoOnKeeps ==
    ASSUME IInv, phase # "exited", phase' \in {"inventory", "catalog", "run", "report"}, exit' = exit,
           UNCHANGED <<command, options, replaced, consent>>,
           phase' \in {"catalog", "report"} => command = "nrfu",
           phase' = "report" => ~ options.dry_run,
           phase' \in {"inventory", "run"} => command # "import"
    PROVE  IInv'
<1>1. exit' # OK BY CodesDiffer DEF IInv, Phased
<1>2. Phased' BY DEF IInv, Phased
<1>3. Reported' /\ Gathered' /\ ExitZeroMeansGood'
  BY <1>1 DEF Reported, Gathered, NoSilentDevice, ExitZeroMeansGood
<1>4. Allowed' BY DEF IInv, Allowed, NoSilentOverwrite
<1> QED BY <1>2, <1>3, <1>4 DEF IInv

LEMMA PreparationKeeps ==
    ASSUME IInv, Misused \/ ShowHelp \/ ReadCredentials \/ ParseInventory \/ ParseCatalog
    PROVE  IInv'
<1> USE DEF Preparing, Exit, Fails, GoTo, Codes
<1>1. CASE Misused BY <1>1, ExitKeeps DEF Misused
<1>2. CASE ShowHelp
  <2>1. /\ phase = "options" /\ options.help /\ phase' = "exited" /\ exit' = OK
        /\ UNCHANGED <<command, options, results, collected, output, consent, replaced, execVars>>
    BY <1>2 DEF ShowHelp
  <2>2. command = "nrfu" BY <2>1 DEF IInv, Phased
  <2> QED BY <2>1, <2>2
       DEF IInv, Phased, Reported, Allowed, NoSilentOverwrite, Gathered, NoSilentDevice, ExitZeroMeansGood, Exec
<1>3. CASE ReadCredentials
  <2>1. /\ phase = "options" /\ command # "import"
        /\ UNCHANGED <<command, options, replaced, consent>>
        /\ \/ phase' = "exited" /\ exit' \in {INTERNAL_ERROR, USAGE_ERROR}
           \/ phase' \in {"run", "inventory"} /\ exit' = exit
    BY <1>3 DEF ReadCredentials
  <2> QED BY <2>1, ExitKeeps, GoOnKeeps
<1>4. CASE ParseInventory
  <2>1. /\ phase = "inventory" /\ command # "import"
        /\ UNCHANGED <<command, options, replaced, consent>>
        /\ \/ phase' = "exited" /\ exit' \in {INTERNAL_ERROR, USAGE_ERROR}
           \/ phase' = (IF command = "nrfu" THEN "catalog" ELSE "run") /\ exit' = exit
    BY <1>4 DEF ParseInventory, IInv, Phased
  <2> QED BY <2>1, ExitKeeps, GoOnKeeps
<1>5. CASE ParseCatalog
  <2>1. /\ phase = "catalog" /\ command = "nrfu"
        /\ UNCHANGED <<command, options, replaced, consent>>
        /\ \/ phase' = "exited" /\ exit' \in {INTERNAL_ERROR, USAGE_ERROR}
           \/ phase' = "run" /\ exit' = exit
    BY <1>5 DEF ParseCatalog, IInv, Phased
  <2> QED BY <2>1, ExitKeeps, GoOnKeeps
<1> QED BY <1>1, <1>2, <1>3, <1>4, <1>5

-----------------------------------------------------------------------------
(* nrfu, imports, debug and the commands that show *)

LEMMA RunTestsKeeps ==
    ASSUME IInv, RunTests
    PROVE  IInv'
<1>1. /\ phase = "run" /\ command = "nrfu" /\ UNCHANGED <<command, options, replaced, consent>>
      /\ \/ phase' = "exited" /\ exit' = INTERNAL_ERROR
         \/ phase' = "exited" /\ exit' = OK /\ options.dry_run
         \/ phase' = "report" /\ exit' = exit /\ ~ options.dry_run
  BY DEF RunTests, Fails, Exit, GoTo
<1>2. CASE phase' = "exited" /\ exit' = OK /\ options.dry_run
  BY <1>1, <1>2
     DEF IInv, Phased, Reported, Allowed, NoSilentOverwrite, Gathered, NoSilentDevice, ExitZeroMeansGood, Exec
<1> QED BY <1>1, <1>2, ExitKeeps, GoOnKeeps DEF Codes

\* What is left to show of a command that ends well.
LEMMA EndsWell ==
    ASSUME IInv, phase # "exited", phase' = "exited", exit' = OK, UNCHANGED <<command, options>>,
           Allowed', NoSilentDevice', ExitZeroMeansGood'
    PROVE  IInv'
BY DEF IInv, Phased, Reported, Gathered

LEMMA ReportKeeps ==
    ASSUME IInv, Report
    PROVE  IInv'
<1>1. /\ phase = "report" /\ command = "nrfu" /\ ~ options.dry_run
      /\ UNCHANGED <<command, options, consent>>
  BY DEF Report, IInv, Phased, Reported
<1>2. \/ phase' = "exited" /\ exit' \in Codes
      \/ phase' = "exit" /\ exit' = exit /\ (options.format # "table" => output' = "new")
  <2>1. CASE options.format = "table" BY <2>1 DEF Report, GoTo
  <2>2. CASE options.format = "tpl" BY <2>2 DEF Report, WriteFile, GoTo, Exit, Codes
  <2>3. CASE options.format \notin {"table", "tpl"}
    BY <2>3 DEF Report, WriteFile, GoTo, Fails, Exit, Codes
  <2> QED BY <2>1, <2>2, <2>3
<1>3. Allowed' BY <1>1, <1>2 DEF Allowed, NoSilentOverwrite
<1>4. CASE phase' = "exited" /\ exit' \in Codes
  <2>1. exit' # OK BY <1>4, CodesDiffer
  <2> QED BY <1>1, <1>3, <1>4, <2>1
       DEF IInv, Phased, Reported, Gathered, NoSilentDevice, ExitZeroMeansGood
<1>5. CASE phase' = "exit" /\ exit' = exit /\ (options.format # "table" => output' = "new")
  <2>1. exit' # OK BY <1>1, <1>5, CodesDiffer DEF IInv, Phased
  <2> QED BY <1>1, <1>3, <1>5, <2>1
       DEF IInv, Phased, Reported, Gathered, NoSilentDevice, ExitZeroMeansGood
<1> QED BY <1>2, <1>4, <1>5

\* The overall status is good only if no failure and no error counts.
LEMMA GoodStatus ==
    ASSUME NEW statuses, NEW ignore, StatusOf(statuses, ignore) \in {"unset", "skipped", "success"}
    PROVE  "failure" \notin statuses /\ (ignore \/ "error" \notin statuses)
BY DEF StatusOf

LEMMA ExitWithCodeKeeps ==
    ASSUME IInv, ExitWithCode
    PROVE  IInv'
<1>1. /\ phase = "exit" /\ phase' = "exited" /\ command = "nrfu" /\ ~ options.dry_run
      /\ options.format # "table" => output = "new"
      /\ UNCHANGED <<command, options, results, collected, output, replaced, consent>>
  BY DEF ExitWithCode, Exit, Preparing, IInv, Phased, Reported
<1>2. CASE \/ options.ignore_status
           \/ StatusOf(results, options.ignore_error) \in {"unset", "skipped", "success"}
  <2>1. exit' = OK BY <1>2 DEF ExitWithCode, Exit, Judged
  <2>2. options.ignore_status \/ "failure" \notin results BY <1>2, GoodStatus
  <2>3. options.ignore_status \/ options.ignore_error \/ "error" \notin results BY <1>2, GoodStatus
  <2>4. ExitZeroMeansGood' BY <1>1, <2>2, <2>3 DEF ExitZeroMeansGood
  <2>5. Allowed' /\ NoSilentDevice' BY <1>1 DEF IInv, Allowed, NoSilentOverwrite, NoSilentDevice, Exec
  <2> QED BY <1>1, <2>1, <2>4, <2>5, EndsWell
<1>3. CASE ~ \/ options.ignore_status
             \/ StatusOf(results, options.ignore_error) \in {"unset", "skipped", "success"}
  <2>1. exit' \in Codes BY <1>3 DEF ExitWithCode, Exit, Judged, Codes
  <2> QED BY <1>1, <2>1, ExitKeeps
<1> QED BY <1>2, <1>3

LEMMA CheckOutputKeeps ==
    ASSUME IInv, CheckOutput
    PROVE  IInv'
<1>1. /\ phase = "options" /\ command = "import"
      /\ UNCHANGED <<command, options, results, collected, output, replaced, execVars>>
      /\ consent => consent'
      /\ \/ phase' = "exited" /\ exit' \in Codes
         \/ phase' = "import" /\ exit' = exit /\ (MustAsk => consent')
  BY DEF CheckOutput, Preparing, Exit, GoTo, Codes
<1>2. CASE phase' = "exited" /\ exit' \in Codes BY <1>1, <1>2, ExitKeeps
<1>3. CASE phase' = "import" /\ exit' = exit /\ (MustAsk => consent')
  <2>1. exit' # OK BY <1>1, <1>3, CodesDiffer DEF IInv, Phased
  <2>2. Allowed' BY <1>1, <1>3 DEF IInv, Allowed, NoSilentOverwrite, MustAsk, NotEmpty
  <2> QED BY <1>1, <1>3, <2>1, <2>2
       DEF IInv, Phased, Reported, Gathered, NoSilentDevice, ExitZeroMeansGood
<1> QED BY <1>1, <1>2, <1>3

LEMMA ImportKeeps ==
    ASSUME IInv, Import \/ Appear
    PROVE  IInv'
<1>1. CASE Appear
  <2>1. /\ phase = "import" /\ exit = None /\ output' = "other"
        /\ UNCHANGED <<command, options, phase, exit, results, collected, consent, replaced, execVars>>
    BY <1>1 DEF Appear, IInv, Phased
  <2>2. exit' # OK BY <2>1, CodesDiffer
  <2> QED BY <2>1, <2>2
       DEF IInv, Phased, Reported, Allowed, NoSilentOverwrite, Gathered, NoSilentDevice, ExitZeroMeansGood
<1>2. CASE Import
  <2>1. /\ phase = "import" /\ command = "import" /\ phase' = "exited"
        /\ UNCHANGED <<command, options, results, collected, consent>>
        /\ replaced' = replaced \/ replaced' = output
        /\ exit' \in Codes \/ (exit' = OK /\ output' = "new")
    BY <1>2 DEF Import, WriteFile, Fails, Exit, Codes, IInv, Phased
  <2>2. Allowed' BY <2>1 DEF IInv, Allowed, NoSilentOverwrite
  <2>3. NoSilentDevice' BY <2>1 DEF NoSilentDevice, Exec
  <2>4. ExitZeroMeansGood' BY <2>1, CodesDiffer DEF ExitZeroMeansGood
  <2> QED BY <2>1, <2>2, <2>3, <2>4 DEF IInv, Phased, Reported, Gathered
<1> QED BY <1>1, <1>2

LEMMA DebugKeeps ==
    ASSUME IInv, Debug \/ Show
    PROVE  IInv'
<1>1. /\ phase = "run" /\ phase' = "exited" /\ command \in {"debug", "show"}
      /\ UNCHANGED <<command, options, replaced, consent>>
      /\ exit' \in Codes \/ (exit' = OK /\ (command = "debug" => collected'))
  BY DEF Debug, Show, Preparing, Fails, Exit, Codes
<1>2. CASE exit' \in Codes BY <1>1, <1>2, ExitKeeps
<1>3. CASE exit' = OK /\ (command = "debug" => collected')
  <2>1. Allowed' /\ NoSilentDevice' /\ ExitZeroMeansGood'
    BY <1>1, <1>3 DEF IInv, Allowed, NoSilentOverwrite, NoSilentDevice, ExitZeroMeansGood, Exec
  <2> QED BY <1>1, <1>3, <2>1, EndsWell
<1> QED BY <1>1, <1>2, <1>3

-----------------------------------------------------------------------------
(* exec *)

LEMMA StartExecKeeps ==
    ASSUME IInv, StartExec
    PROVE  IInv'
<1>1. phase = "run" /\ command \in Exec /\ UNCHANGED <<command, options, results, collected, output, consent, replaced>>
  BY DEF StartExec
<1>2. CASE phase' = "exited" /\ exit' = INTERNAL_ERROR BY <1>1, <1>2, ExitKeeps DEF Codes
<1>3. CASE phase' = "jobs" /\ exit' = exit /\ Connect(command)
  <2>1. exit' # OK BY <1>1, <1>3, CodesDiffer DEF IInv, Phased
  <2>2. /\ DOMAIN job' = JobsOf(command, online')
        /\ \A j \in DOMAIN job' : job'[j] = "start"
    BY <1>3 DEF Connect
  <2>3. Gathered' BY <1>1, <1>3, <2>1, <2>2 DEF Gathered, NoSilentDevice
  <2> QED BY <1>1, <1>3, <2>1, <2>3
       DEF IInv, Phased, Reported, Allowed, NoSilentOverwrite, ExitZeroMeansGood
<1> QED BY <1>2, <1>3 DEF StartExec, Exit, GoTo

\* A job that is done did its work, and stays done whatever another one does.
LEMMA StepExecKeeps ==
    ASSUME IInv, StepExec
    PROVE  IInv'
<1>1. phase = "jobs" /\ JobStep(options.configure) /\ UNCHANGED cliVars /\ command \in Exec /\ exit # OK
  BY CodesDiffer DEF StepExec, IInv, Phased
<1>2. PICK j \in DOMAIN job :
          \/ Clear(j) \/ MakeDirectory(j) \/ WriteOutput(j)
          \/ ListFiles(j) \/ CheckAuthorization(j, options.configure) \/ Configure(j) \/ Copy(j)
  BY <1>1 DEF JobStep
<1>3. /\ DOMAIN job = JobsOf(command, online)
      /\ \A i \in DOMAIN job : job[i] # "cancelled" /\ (job[i] = "done" => Did(i))
  BY <1>1 DEF IInv, Gathered
<1>4. j[1] = command
  BY <1>1, <1>2, <1>3, KindOfJob
<1>5. /\ online' = online /\ \E at : job' = [job EXCEPT ![j] = at] /\ at # "cancelled"
      /\ logged \subseteq logged' /\ cleared \subseteq cleared' /\ copied \subseteq copied'
      /\ files' = files \/ \E content : files' = Written(FileOf(j), content)
  <2>1. \/ Done(j) \/ LogError(j) \/ Escape(j)
        \/ \E at \in {"collect", "check", "configure", "copy"} : GoOn(j, at)
    BY <1>2 DEF Clear, MakeDirectory, WriteOutput, ListFiles, CheckAuthorization, Configure, Copy
  <2>2. /\ \E at : job' = [job EXCEPT ![j] = at] /\ at # "cancelled"
        /\ logged \subseteq logged'
    BY <2>1 DEF Done, LogError, Escape, GoOn
  <2>3. online' = online /\ cleared \subseteq cleared' /\ copied \subseteq copied'
    BY <1>2 DEF Clear, MakeDirectory, WriteOutput, ListFiles, CheckAuthorization, Configure, Copy
  <2>4. files' = files \/ \E content : files' = Written(FileOf(j), content)
    <3>1. CASE WriteOutput(j) BY <3>1 DEF WriteOutput
    <3>2. CASE ~ WriteOutput(j)
      BY <1>2, <3>2 DEF Clear, MakeDirectory, ListFiles, CheckAuthorization, Configure, Copy
    <3> QED BY <3>1, <3>2
  <2> QED BY <2>2, <2>3, <2>4
<1>6. job'[j] = "done" => Did(j)'
  <2>1. CASE LogError(j)
    <3>1. j \in logged' BY <2>1 DEF LogError
    <3> QED BY <3>1 DEF Did
  <2>2. CASE Escape(j) \/ \E at \in {"collect", "check", "configure", "copy"} : GoOn(j, at)
    BY <1>2, <2>2 DEF Escape, GoOn
  <2>3. CASE Clear(j) /\ ~ LogError(j) /\ ~ Escape(j)
    <3>1. {j[2]} \X ClearCommands(j[2]) \subseteq cleared' /\ j[1] = "clear"
      BY <2>3 DEF Clear
    <3> QED BY <1>1, <1>4, <3>1 DEF Did, cliVars
  <2>4. CASE WriteOutput(j) /\ ~ LogError(j)
    <3>1. j[1] = "snapshot" /\ files' = Written(FileOf(j), <<j[2], j[3]>>)
      BY <2>4 DEF WriteOutput
    <3>2. FileOf(j) \in DOMAIN files' /\ files'[FileOf(j)] = <<j[2], j[3]>> BY <3>1 DEF Written
    <3>3. Stored(j)' BY <3>2 DEF Stored, FileOf
    <3> QED BY <1>1, <1>4, <3>1, <3>3 DEF Did, cliVars
  <2>5. CASE Copy(j) /\ ~ LogError(j) /\ ~ Escape(j)
    <3>1. j[2] \in copied' /\ j[1] = "tech" BY <2>5 DEF Copy, Tech
    <3> QED BY <1>1, <1>4, <3>1 DEF Did, cliVars
  <2> QED
    BY <1>2, <2>1, <2>2, <2>3, <2>4, <2>5
    DEF MakeDirectory, ListFiles, CheckAuthorization, Configure
<1>7. Gathered'
  <2>1. DOMAIN job' = DOMAIN job /\ \A i \in DOMAIN job \ {j} : job'[i] = job[i] BY <1>5
  <2>2. job'[j] # "cancelled" BY <1>2, <1>5
  <2>3. ASSUME NEW i \in DOMAIN job, i # j, Did(i) PROVE Did(i)'
    <3>1. ASSUME command = "snapshot", Stored(i) PROVE Stored(i)'
      <4>1. CASE files' = files BY <3>1, <4>1 DEF Stored, OwnFile, FileOf
      <4>2. ASSUME NEW content, files' = Written(FileOf(j), content) PROVE Stored(i)'
        <5>1. FileOf(i) \in DOMAIN files' BY <3>1, <4>2 DEF Written, Stored
        <5>2. OwnFile(i) => FileOf(i) # FileOf(j) BY <1>3, <2>3, <3>1, OneJobAFile
        <5>3. OwnFile(i) => files'[FileOf(i)] = <<i[2], i[3]>>
          BY <3>1, <4>2, <5>2 DEF Written, Stored
        <5> QED BY <5>1, <5>3 DEF Stored, FileOf, OwnFile
      <4> QED BY <1>5, <4>1, <4>2
    <3> QED BY <1>1, <1>5, <2>3, <3>1 DEF Did, cliVars
  <2>4. \A i \in DOMAIN job' : job'[i] # "cancelled" /\ (job'[i] = "done" => Did(i)')
    BY <1>3, <1>6, <2>1, <2>2, <2>3
  <2>5. NoSilentDevice' BY <1>1 DEF NoSilentDevice, cliVars
  <2>6. DOMAIN job' = JobsOf(command, online)' BY <1>1, <1>3, <1>5, <2>1 DEF cliVars
  <2> QED BY <2>4, <2>5, <2>6 DEF Gathered
<1> QED BY <1>1, <1>7
     DEF IInv, cliVars, Phased, Reported, Allowed, NoSilentOverwrite, ExitZeroMeansGood

LEMMA EndExecKeeps ==
    ASSUME IInv, EndExec
    PROVE  IInv'
<1>1. /\ phase = "jobs" /\ phase' = "exited" /\ command \in Exec
      /\ UNCHANGED <<command, options, results, collected, output, consent, replaced>>
  BY DEF EndExec, Exit, IInv, Phased
<1>2. CASE exit' = INTERNAL_ERROR BY <1>1, <1>2, ExitKeeps DEF Codes
<1>3. CASE ~ Raised(DOMAIN job) /\ AllOver(DOMAIN job) /\ exit' = OK /\ UNCHANGED execVars
  <2>1. /\ DOMAIN job = JobsOf(command, online)
        /\ \A j \in DOMAIN job : job[j] # "cancelled" /\ (job[j] = "done" => Did(j))
    BY <1>1 DEF IInv, Gathered
  <2>2. \A j \in DOMAIN job : job[j] = "done"
    BY <1>3, <2>1 DEF Raised, AllOver, Over
  <2>3. \A j \in JobsOf(command, online) : Did(j) BY <2>1, <2>2
  <2>4. NoSilentDevice' BY <1>1, <1>3, <2>3 DEF NoSilentDevice, Did, Stored, OwnFile, execVars
  <2>5. Allowed' /\ ExitZeroMeansGood'
    BY <1>1 DEF IInv, Allowed, NoSilentOverwrite, ExitZeroMeansGood, Exec
  <2> QED BY <1>1, <1>3, <2>4, <2>5, EndsWell
<1> QED BY <1>2, <1>3 DEF EndExec, Exit

-----------------------------------------------------------------------------
(* The specification *)

LEMMA NextKeeps == IInv /\ [Next]_vars => IInv'
<1> SUFFICES ASSUME IInv, [Next]_vars PROVE IInv'
  OBVIOUS
<1>1. CASE UNCHANGED vars
  BY <1>1 DEF vars, cliVars, execVars, IInv, Phased, Reported, Allowed, NoSilentOverwrite, Gathered, Did, Stored, OwnFile,
              NoSilentDevice, ExitZeroMeansGood
<1> QED BY <1>1, PreparationKeeps, RunTestsKeeps, ReportKeeps, ExitWithCodeKeeps, CheckOutputKeeps,
           ImportKeeps, DebugKeeps, StartExecKeeps, StepExecKeeps, EndExecKeeps DEF Next, Step

LEMMA Invariance == Spec => []IInv
BY InitHolds, NextKeeps, PTL DEF Spec

\* Exit code 0 (exit_with_code and the commands), for any devices, commands and results: no
\* failure or error is passed over unless the options say so, and what was asked for is there.
THEOREM ExitZeroIsGood == Spec => []ExitZeroMeansGood
BY Invariance, PTL DEF IInv

\* inventory_output_options: an inventory is replaced only with --overwrite or a confirmation.
THEOREM OverwriteIsAsked == Spec => []NoSilentOverwrite
<1>1. IInv => NoSilentOverwrite BY DEF IInv, Allowed
<1> QED BY <1>1, Invariance, PTL

\* exec, for any number of devices and commands: when the command ends well, each job on a
\* device that could be reached did its work or logged an error, and what is in the file of a
\* command with a safe name of its own is the output of that command (asyncio.gather).
THEOREM EveryDeviceAnswers == Spec => []NoSilentDevice
<1>1. IInv => NoSilentDevice BY DEF IInv, Gathered
<1> QED BY <1>1, Invariance, PTL
=============================================================================
