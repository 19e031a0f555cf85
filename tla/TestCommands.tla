---------------------------- MODULE TestCommands ----------------------------
(***************************************************************************)
(* The commands of a test (AntaTemplate, AntaCommand and                   *)
(* AntaTest._init_commands, anta/models.py): what its templates render,    *)
(* what of a command identifies its answer in the cache, and what of it is *)
(* sent to the device.                                                     *)
(*                                                                         *)
(* A text is a sequence of words.  A command is a record [command,         *)
(* version, revision, ofmt]; a template has pieces in place of the text: a *)
(* piece is a text, or the name of a parameter in braces.  A behaviour     *)
(* makes the commands of one definition.                                   *)
(***************************************************************************)
EXTENDS Integers, Sequences, SequencesExt, FiniteSets

CONSTANTS
    Words,          \* the words of texts
    CommandLists,   \* what tests render: [commands, params], params for each rendering
    OtherCommands,  \* the commands of other tests
    NotSet          \* Python's None: a revision that is not set, or not yet

IsText(t) == t \in Seq(Words)

\* A revision is a number, so that it is not "NA" in a text.
IsSent(c) == c.version \in Words /\ c.ofmt \in Words /\ c.revision \in (Words \ {"NA"}) \cup {NotSet}

IsCommand(c) == "pieces" \notin DOMAIN c /\ "raised" \notin DOMAIN c /\ IsText(c.command) /\ IsSent(c)

IsTemplate(c) == "pieces" \in DOMAIN c

\* A test lists commands and templates, and renders with texts as parameters.
ASSUME CommandsAssumption ==
    /\ {"NA", "_"} \subseteq Words
    /\ \A c \in OtherCommands : IsCommand(c)
    /\ \A t \in CommandLists :
        /\ t.commands \in Seq(ToSet(t.commands)) /\ t.params \in Seq(ToSet(t.params))
        /\ \A i \in DOMAIN t.params : \A x \in DOMAIN t.params[i] : IsText(t.params[i][x])
        /\ \A i \in DOMAIN t.commands : LET c == t.commands[i] IN
            \/ IsCommand(c)
            \/ /\ IsTemplate(c) /\ IsSent(c)
               /\ c.pieces \in Seq(ToSet(c.pieces))
               /\ \A j \in DOMAIN c.pieces : c.pieces[j][1] = "var" \/ IsText(c.pieces[j][2])

VARIABLES
    definition, \* the commands of the class, and the parameters they are rendered with
    instance    \* what _init_commands makes of them

commandVars == <<definition, instance>>

-----------------------------------------------------------------------------
(* AntaTemplate and AntaCommand *)

Parameters(template) == {template.pieces[i][2] : i \in {j \in DOMAIN template.pieces : template.pieces[j][1] = "var"}}

\* str.format
Text(template, params) ==
    LET ps == template.pieces
        text[i \in 0..Len(ps)] ==
            IF i = 0 THEN <<>>
            ELSE text[i - 1] \o (IF ps[i][1] = "var" THEN params[ps[i][2]] ELSE ps[i][2])
    IN  text[Len(ps)]

\* render: a parameter that is missing, then one that is not of the template.
Render(template, params) ==
    IF ~(Parameters(template) \subseteq DOMAIN params) THEN [raised |-> "AntaTemplateRenderError"]
    ELSE IF ~(DOMAIN params \subseteq Parameters(template)) THEN [raised |-> "ValidationError"]
    ELSE [command |-> Text(template, params), version |-> template.version,
          revision |-> template.revision, ofmt |-> template.ofmt]

\* Mutant of Uid: the revision replaces the version.
UidOfRevision(c) ==
    c.command \o <<"_", IF c.revision = NotSet THEN c.version ELSE c.revision, "_", c.ofmt>>

\* The text sha1 is taken of; "_" may be in a command too.
Uid(c) ==
    c.command \o <<"_", c.version, "_", IF c.revision = NotSet THEN "NA" ELSE c.revision, "_", c.ofmt>>

\* What AsyncEOSDevice._collect asks the device.
Asks(c) ==
    [cmd |-> c.command, revision |-> c.revision, ofmt |-> c.ofmt, version |-> c.version]

-----------------------------------------------------------------------------
(* AntaTest._init_commands *)

\* A template is rendered once for each set of parameters of the definition.
Instances(c, params) ==
    IF IsTemplate(c) THEN [i \in 1..Len(params) |-> Render(c, params[i])] ELSE <<c>>

\* The first error is one of the test and ends the loop.
AddInstances(r, more) ==
    IF r.error THEN r
    ELSE IF \E i \in 1..Len(more) : "raised" \in DOMAIN more[i] THEN [r EXCEPT !.error = TRUE]
    ELSE [r EXCEPT !.commands = @ \o more]

InitCommands(commands, params) ==
    LET after[i \in 0..Len(commands)] ==
            IF i = 0 THEN [commands |-> <<>>, error |-> FALSE]
            ELSE AddInstances(after[i - 1], Instances(commands[i], params))
    IN  after[Len(commands)]

CommandsInit == definition \in CommandLists /\ instance = NotSet

MakeCommands ==
    /\ instance = NotSet
    /\ instance' = InitCommands(definition.commands, definition.params)
    /\ UNCHANGED definition

CommandsSpec == CommandsInit /\ [][MakeCommands]_commandVars

-----------------------------------------------------------------------------
(* Properties *)

\* Two commands that find one answer in the cache would have sent the same request, also
\* when templates rendered them and whatever their texts contain; a test fails exactly
\* when a template and a set of parameters do not match, and otherwise has a command for
\* each rendering (AntaCommand.uid, render, _init_commands).
CachedAnswerFits ==
    instance # NotSet =>
        /\ \A c \in ToSet(instance.commands), d \in OtherCommands \cup ToSet(instance.commands) :
            Uid(c) = Uid(d) => Asks(c) = Asks(d)
        /\ instance.error <=> \E i \in DOMAIN definition.commands, j \in DOMAIN definition.params :
            IsTemplate(definition.commands[i]) /\ Parameters(definition.commands[i]) # DOMAIN definition.params[j]
        /\ ~instance.error =>
            LET templates == {i \in DOMAIN definition.commands : IsTemplate(definition.commands[i])} IN
            Len(instance.commands) = Len(definition.commands) - Cardinality(templates)
                                     + Cardinality(templates) * Len(definition.params)
=============================================================================
