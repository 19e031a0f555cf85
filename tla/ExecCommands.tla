---------------------------- MODULE ExecCommands ----------------------------
(***************************************************************************)
(* `anta exec` (anta/cli/exec/utils.py): clear-counters, snapshot and      *)
(* collect-tech-support, each a gather of jobs over the devices that could *)
(* be reached.  A job suspends at each exchange with its device; another   *)
(* job may run there.                                                      *)
(*                                                                         *)
(* A job is <<"clear", device>>, <<"tech", device>> or                     *)
(* <<"snapshot", device, command, format>>; job[j] is where it is.         *)
(***************************************************************************)
EXTENDS Integers, Sequences, FiniteSets

CONSTANTS
    Devices,    \* the devices the tags select
    Lab,        \* those of a lab model: cEOSLab, vEOS-lab
    Commands,   \* the commands of a snapshot
    Formats,    \* the formats it asks for them in
    SafeName,   \* safe_command: Commands -> names of files
    None        \* Python's None

ASSUME ExecAssumption == Lab \subseteq Devices

VARIABLES
    online,     \* the established devices
    job,        \* per job of the gather: where it is
    logged,     \* the jobs that logged an error
    files,      \* the files of a snapshot: name -> <<device, its command or None>>
    cleared,    \* external: <<device, command>> that cleared counters
    setup,      \* external: the devices with `aaa authorization exec default local`
    copied      \* the devices whose tech-support files were copied

execVars == <<online, job, logged, files, cleared, setup, copied>>

Over == {"done", "raised", "cancelled"}

ExecInit ==
    /\ online = {} /\ job = <<>> /\ logged = {}
    /\ files = <<>> /\ cleared = {} /\ setup = {} /\ copied = {}

\* A job ends; the list of error messages says so when it did not do its work.
Done(j)     == job' = [job EXCEPT ![j] = "done"]   /\ UNCHANGED logged
LogError(j) == job' = [job EXCEPT ![j] = "done"]   /\ logged' = logged \cup {j}
Escape(j)   == job' = [job EXCEPT ![j] = "raised"] /\ UNCHANGED logged
GoOn(j, at) == job' = [job EXCEPT ![j] = at]       /\ UNCHANGED logged

-----------------------------------------------------------------------------
(* clear_counters *)

ClearCommands(d) ==
    {"clear counters"} \cup IF d \in Lab THEN {} ELSE {"clear hardware counter drop"}

\* The device did some of the commands; the answers tell, or collect_commands raises.
Clear(j) ==
    /\ j[1] = "clear" /\ job[j] = "start"
    /\ \E did \in SUBSET ClearCommands(j[2]) :
        /\ cleared' = cleared \cup ({j[2]} \X did)
        /\ \/ did = ClearCommands(j[2]) /\ Done(j)
           \/ did # ClearCommands(j[2]) /\ LogError(j)
           \/ Escape(j)
    /\ UNCHANGED <<online, files, setup, copied>>

-----------------------------------------------------------------------------
(* collect_commands *)

FileOf(j) == <<j[2], j[4], SafeName[j[3]]>>

MakeDirectory(j) ==
    /\ j[1] = "snapshot" /\ job[j] = "start"
    /\ GoOn(j, "collect") \/ LogError(j)
    /\ UNCHANGED <<online, files, cleared, setup, copied>>

\* The files once there is one of this name with this content.
Written(name, content) ==
    [f \in DOMAIN files \cup {name} |-> IF f = name THEN content ELSE files[f]]

\* An error of the device, of the file system or any exception is logged; a write may
\* fail after the file was opened, and truncated.
WriteOutput(j) ==
    /\ j[1] = "snapshot" /\ job[j] = "collect"
    /\ \/ Done(j) /\ files' = Written(FileOf(j), <<j[2], j[3]>>)
       \/ LogError(j) /\ UNCHANGED files
       \/ LogError(j) /\ files' = Written(FileOf(j), <<j[2], None>>)
    /\ UNCHANGED <<online, cleared, setup, copied>>

-----------------------------------------------------------------------------
(* _collect_device_show_tech *)

Tech(j, at) == j[1] = "tech" /\ job[j] = at

\* The names of the files: none, an error, or a directory that cannot be made.
ListFiles(j) ==
    /\ Tech(j, "start")
    /\ GoOn(j, "check") \/ LogError(j) \/ Escape(j)
    /\ UNCHANGED <<online, files, cleared, setup, copied>>

\* The answer may be the line, nothing, or an error: then the copy is tried.
CheckAuthorization(j, configure) ==
    /\ Tech(j, "check")
    /\ \/ j[2] \in setup /\ GoOn(j, "copy")
       \/ j[2] \notin setup /\ ~configure /\ LogError(j)
       \/ j[2] \notin setup /\ configure /\ GoOn(j, "configure")
       \/ GoOn(j, "copy")
       \/ Escape(j)
    /\ UNCHANGED <<online, files, cleared, setup, copied>>

Configure(j) ==
    /\ Tech(j, "configure")
    /\ \/ setup' = setup \cup {j[2]} /\ GoOn(j, "copy")
       \/ setup' \in {setup, setup \cup {j[2]}} /\ (LogError(j) \/ Escape(j))
    /\ UNCHANGED <<online, files, cleared, copied>>

Copy(j) ==
    /\ Tech(j, "copy")
    /\ \/ copied' = copied \cup {j[2]} /\ Done(j)
       \/ UNCHANGED copied /\ (LogError(j) \/ Escape(j))
    /\ UNCHANGED <<online, files, cleared, setup>>

-----------------------------------------------------------------------------
(* The gathers *)

JobsOf(command, devices) ==
    IF command = "snapshot" THEN {command} \X devices \X Commands \X Formats
    ELSE {command} \X devices

\* connect_inventory, and one job for each established device or output.
Connect(command) ==
    /\ online' \in SUBSET Devices
    /\ setup' \in SUBSET Devices
    /\ job' = [j \in JobsOf(command, online') |-> "start"]
    /\ UNCHANGED <<logged, files, cleared, copied>>

JobStep(configure) ==
    \E j \in DOMAIN job :
        Clear(j) \/ MakeDirectory(j) \/ WriteOutput(j)
        \/ ListFiles(j) \/ CheckAuthorization(j, configure) \/ Configure(j) \/ Copy(j)

\* Mutant of Raised: the exceptions are results of the gather, which nobody reads.
RaisedIgnored(jobs) == \E j \in jobs : job[j] = "raised" /\ j[1] = "none"

\* An exception out of a job ends the gather.
Raised(jobs) == \E j \in jobs : job[j] = "raised"

\* asyncio.run cancels the jobs that are still under way.
CancelJobs ==
    /\ job' = [j \in DOMAIN job |-> IF job[j] \in Over THEN job[j] ELSE "cancelled"]
    /\ UNCHANGED <<online, logged, files, cleared, setup, copied>>
=============================================================================
