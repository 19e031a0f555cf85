------------------------------ MODULE TestProofs ------------------------------
(***************************************************************************)
(* Proofs about tests: about TestExecution, for any commands and atomic    *)
(* results; about TestCommands, for any lists of commands and templates;   *)
(* and about InputTypes, for any values.                                   *)
(*                                                                         *)
(* The inductive invariant of TestExecution adds to the properties that    *)
(* nothing is reported before the test's code runs, and that an atomic     *)
(* result which is bad now was counted as an alarm.  The commands of a     *)
(* test are made by two loops, one inside the other; each is a loop of     *)
(* Loops.  A value is read twice: what a type makes of it before its       *)
(* pattern is shown to be a fixed point, type by type.                     *)
(***************************************************************************)
EXTENDS TestExecution, TestCommands, InputTypes, FiniteSetTheorems, SequenceTheorems, TLAPS

-----------------------------------------------------------------------------
(* TestExecution *)

\* Nothing is reported before the test's code runs.
NoEarlyReport ==
    phase \in {"new", "ready", "collecting"} =>
        ~alarmed /\ ~direct /\ \A a \in Atomics : atomic[a] = "absent"

\* A bad atomic result raised the alarm.
BadAlarms == \A a \in Atomics : atomic[a] \in {"failure", "error"} => alarmed

\* While the gather waits, every command was sent and none has raised.
GatherWaits ==
    phase = "collecting" =>
        \A c \in Own : command[c] \in {"sent", "output", "silent"} \cup Failures

IInv == TypeOK /\ JudgedOnData /\ GatherWaits /\ NoEarlyReport /\ BadAlarms /\ AtomicAlarmsLast

-----------------------------------------------------------------------------

\* Starting: the commands of an instance, and what the wrapper makes of them.
LEMMA StartKeeps ==
    ASSUME IInv, Construct \/ CallEnds \/ Call
    PROVE  IInv'
<1>1. \A set \in SUBSET Commands, s \in CommandStates : Instance(set, s) \in [Commands -> CommandStates]
  BY DEF Instance, CommandStates
<1>2. phase \in {"new", "ready"} /\ UNCHANGED <<atomic, reports, direct, alarmed>>
  BY DEF Construct, CallEnds, Call
<1>3. ~alarmed /\ ~direct /\ \A a \in Atomics : atomic[a] = "absent"
  BY <1>2 DEF IInv, NoEarlyReport
<1>4. NoEarlyReport' /\ BadAlarms' /\ AtomicAlarmsLast'
  BY <1>2, <1>3 DEF NoEarlyReport, BadAlarms, AtomicAlarmsLast
<1>5. CASE Construct
  <2>1. command' \in [Commands -> CommandStates]
    BY <1>1, <1>5 DEF Construct, CommandStates
  <2>2. phase' = "ready" /\ status' \in Statuses
    BY <1>5 DEF Construct, Statuses
  <2> QED
    BY <1>2, <1>4, <2>1, <2>2 DEF IInv, TypeOK, Phases, JudgedOnData, GatherWaits
<1>6. CASE CallEnds
  <2>1. phase' = "returned" /\ status' \in Statuses /\ command' = command
    BY <1>6 DEF CallEnds, Return, Statuses, IInv, TypeOK
  <2> QED
    BY <1>2, <1>4, <2>1 DEF IInv, TypeOK, Phases, JudgedOnData, GatherWaits
<1>7. CASE Call
  <2>1. status' \in Statuses /\ phase' \in {"judging", "collecting", "returned"}
    BY <1>7 DEF Call, Return, Statuses, IInv, TypeOK
  <2>2. Own \in SUBSET Commands
    BY DEF Own
  <2>3. command' \in [Commands -> CommandStates]
    BY <1>1, <1>7, <2>2 DEF Call, Send, CommandStates, IInv, TypeOK
  <2>4. JudgedOnData'
    BY <1>7 DEF Call, Return, JudgedOnData, Own, AllCollected, Instance
  <2>5. GatherWaits'
    BY <1>7 DEF Call, Return, Send, GatherWaits, Own
  <2> QED
    BY <1>2, <1>4, <2>1, <2>3, <2>4, <2>5 DEF IInv, TypeOK, Phases
<1> QED
  BY <1>5, <1>6, <1>7

\* Collecting: commands end, in time or not, and the gather.
LEMMA CollectKeeps ==
    ASSUME IInv, Collecting \/ Gathered
    PROVE  IInv'
<1>1. UNCHANGED <<atomic, reports, direct, alarmed>> /\ BadAlarms'
  BY DEF Collecting, CommandEnds, CommandRaises, Gathered, IInv, BadAlarms
<1>2. ASSUME NEW c \in Commands, CommandEnds(c) \/ CommandRaises(c)
      PROVE  IInv'
  <2>1. /\ command[c] = "sent" /\ c \in Own
        /\ \E s \in CommandStates : command' = [command EXCEPT ![c] = s]
    BY <1>2 DEF CommandEnds, CommandRaises, CommandStates, Own
  <2>2. command' \in [Commands -> CommandStates]
    BY <2>1 DEF IInv, TypeOK
  <2>3. \/ UNCHANGED <<phase, status>>
        \/ phase = "collecting" /\ phase' = "returned" /\ status' = "error"
    BY <1>2 DEF CommandEnds, CommandRaises, Return
  <2>4. phase # "judging"
    BY <2>1 DEF IInv, JudgedOnData
  <2>5. TypeOK' /\ JudgedOnData'
    BY <1>1, <2>2, <2>3, <2>4 DEF IInv, TypeOK, JudgedOnData, Phases, Statuses
  <2>6. GatherWaits'
    <3> SUFFICES ASSUME phase' = "collecting", NEW d \in Own'
                 PROVE  command'[d] \in {"sent", "output", "silent"} \cup Failures
      BY DEF GatherWaits
    <3>1. phase = "collecting" /\ CommandEnds(c)
      BY <1>2, <2>3 DEF CommandRaises, Return
    <3>2. command'[c] \in {"output", "silent"} \cup Failures
      BY <3>1 DEF CommandEnds, IInv, TypeOK
    <3>3. d # c => d \in Own /\ command'[d] = command[d]
      BY <2>1 DEF Own, IInv, TypeOK
    <3> QED
      BY <3>1, <3>2, <3>3 DEF IInv, GatherWaits
  <2>7. NoEarlyReport' /\ AtomicAlarmsLast'
    BY <1>1, <2>3 DEF IInv, NoEarlyReport, AtomicAlarmsLast
  <2> QED
    BY <1>1, <2>5, <2>6, <2>7 DEF IInv
<1>3. CASE Gathered
  <2>1. phase = "collecting" /\ command' = command /\ \A c \in Own : command[c] # "sent"
    BY <1>3 DEF Gathered
  <2>2. \/ phase' = "returned" /\ status' \in Statuses
        \/ phase' = "judging" /\ status' = status /\ Failed = {} /\ status = "unset"
    BY <1>3 DEF Gathered, Return, FailureStatus, Statuses, IInv, TypeOK
  <2>3. ~alarmed /\ ~direct /\ \A a \in Atomics : atomic[a] = "absent"
    BY <2>1 DEF IInv, NoEarlyReport
  <2>4. TypeOK'
    BY <1>1, <2>1, <2>2 DEF IInv, TypeOK, Phases
  <2>5. NoEarlyReport' /\ AtomicAlarmsLast'
    BY <1>1, <2>2, <2>3 DEF NoEarlyReport, AtomicAlarmsLast
  <2>6. JudgedOnData'
    BY <2>1, <2>2 DEF JudgedOnData, IInv, GatherWaits, Own, Failed
  <2>7. GatherWaits'
    BY <2>2 DEF GatherWaits
  <2> QED
    BY <1>1, <2>4, <2>5, <2>6, <2>7 DEF IInv
<1> QED
  BY <1>2, <1>3 DEF Collecting

\* The reports of the test's code.
LEMMA CodeKeeps ==
    ASSUME IInv, Code
    PROVE  IInv'
<1>1. phase = "judging" /\ command' = command
  BY DEF Code, Report, ReportAtomic, Reporting, CodeEnds
<1>2. ASSUME NEW s \in Statuses \ {"unset"}, Report(s)
      PROVE  IInv'
  BY <1>1, <1>2, TestAssumption DEF Report, Reporting, IInv, TypeOK, JudgedOnData, Own, NoEarlyReport,
                    BadAlarms, AtomicAlarmsLast, GatherWaits
<1>3. ASSUME NEW a \in Atomics, NEW s \in Statuses, ReportAtomic(a, s)
      PROVE  IInv'
  <2>1. /\ reports' \in 0..MaxReports /\ phase' = phase /\ direct' = direct
        /\ atomic' = [atomic EXCEPT ![a] = s] /\ status' = Propagated(s)
        /\ alarmed' = (alarmed \/ s \in {"failure", "error"})
    BY <1>3, TestAssumption DEF ReportAtomic, Reporting, IInv, TypeOK
  <2>2. status' \in Statuses
    BY <2>1 DEF Propagated, Statuses, IInv, TypeOK
  <2>3. BadAlarms'
    BY <2>1 DEF BadAlarms, IInv, TypeOK
  <2>4. alarmed' /\ ~direct' => status' \in {"failure", "error"}
    BY <2>1 DEF Propagated, AtomicAlarmsLast, IInv
  <2>5. AtomicAlarmsLast'
    BY <2>3, <2>4 DEF AtomicAlarmsLast, BadAlarms
  <2>6. TypeOK' /\ JudgedOnData' /\ GatherWaits' /\ NoEarlyReport'
    BY <1>1, <2>1, <2>2 DEF GatherWaits, IInv, TypeOK, JudgedOnData, Own, NoEarlyReport
  <2> QED
    BY <2>3, <2>5, <2>6 DEF IInv
<1>4. CASE CodeEnds
  BY <1>4 DEF CodeEnds, GatherWaits, Return, IInv, TypeOK, Phases, Statuses, JudgedOnData,
              NoEarlyReport, BadAlarms, AtomicAlarmsLast
<1> QED
  BY <1>2, <1>3, <1>4 DEF Code

-----------------------------------------------------------------------------
(* Theorems *)

\* The inductive invariant holds.
THEOREM Inductive == Spec => []IInv
<1>1. Init => IInv
  <2> SUFFICES ASSUME Init
               PROVE  IInv
    OBVIOUS
  <2>1. TypeOK
    <3>1. reports \in 0..MaxReports
      BY TestAssumption DEF Init
    <3>2. command \in [Commands -> CommandStates] /\ atomic \in [Atomics -> Statuses \cup {"absent"}]
      BY DEF Init, CommandStates
    <3>3. phase \in Phases /\ status \in Statuses
      BY DEF Init, Phases, Statuses
    <3>4. direct \in BOOLEAN /\ alarmed \in BOOLEAN
      BY DEF Init
    <3> QED
      BY <3>1, <3>2, <3>3, <3>4 DEF TypeOK
  <2>2. JudgedOnData /\ GatherWaits /\ NoEarlyReport
    BY DEF Init, JudgedOnData, GatherWaits, NoEarlyReport
  <2>3. BadAlarms /\ AtomicAlarmsLast
    BY DEF Init, BadAlarms, AtomicAlarmsLast
  <2> QED
    BY <2>1, <2>2, <2>3 DEF IInv
<1>2. IInv /\ [Next]_vars => IInv'
  <2>1. ASSUME IInv, UNCHANGED vars
        PROVE  IInv'
    BY <2>1 DEF vars, IInv, GatherWaits, TypeOK, JudgedOnData, Own, NoEarlyReport, BadAlarms, AtomicAlarmsLast
  <2> QED
    BY <2>1, StartKeeps, CollectKeeps, CodeKeeps DEF Next
<1> QED
  BY <1>1, <1>2, PTL DEF Spec

\* Every variable keeps its type: in particular the result is always one of the five
\* statuses, whatever failed.
THEOREM TypeCorrect == Spec => []TypeOK
<1>1. IInv => TypeOK
  BY DEF IInv
<1> QED
  BY <1>1, Inductive, PTL

\* The code of a test never sees a command that failed or that is still on its way,
\* whichever way its data came: saved outputs, a collection, or none.
THEOREM JudgesData == Spec => []JudgedOnData
<1>1. IInv => JudgedOnData
  BY DEF IInv
<1> QED
  BY <1>1, Inductive, PTL

\* No failure or error of an atomic result is lost in the result of the test.
THEOREM AlarmsLast == Spec => []AtomicAlarmsLast
<1>1. IInv => AtomicAlarmsLast
  BY DEF IInv
<1> QED
  BY <1>1, Inductive, PTL

\* What a test returned is final, also when commands that a partial failure of the
\* gather left behind end later.
THEOREM ReturnIsFinal == Spec => ReturnedIsFinal
<1>1. [Next]_vars => [phase = "returned" => UNCHANGED <<phase, status, atomic>>]_vars
  BY DEF Next, Construct, CallEnds, Call, Collecting, CommandEnds, CommandRaises, Gathered,
         Code, Report, ReportAtomic, Reporting, CodeEnds
<1> QED
  BY <1>1, PTL DEF Spec, ReturnedIsFinal

-----------------------------------------------------------------------------
(* TestCommands *)

-----------------------------------------------------------------------------
(* Texts and renderings *)

\* A template whose pieces, with these parameters, are texts.
IsRenderable(template) ==
    /\ IsSent(template) /\ Len(template.pieces) \in Nat /\ DOMAIN template.pieces = 1..Len(template.pieces)
    /\ \A j \in DOMAIN template.pieces : template.pieces[j][1] = "var" \/ IsText(template.pieces[j][2])

\* The loop of Text: p is the template and the parameters.
PieceOf(p, i) == IF p[1].pieces[i][1] = "var" THEN p[2][p[1].pieces[i][2]] ELSE p[1].pieces[i][2]
TextStart(p) == <<>>
TextTurn(p, x, i) == x \o PieceOf(p, i)
TextGood(p, x, i) == IsText(x)
TextLoop == INSTANCE Loops WITH Start <- TextStart, Turn <- TextTurn, Good <- TextGood

\* str.format: with all parameters there, a text.
LEMMA TextIsText ==
    ASSUME NEW template, IsRenderable(template), NEW params,
           \A x \in DOMAIN params : IsText(params[x]), Parameters(template) \subseteq DOMAIN params
    PROVE  IsText(Text(template, params))
<1> DEFINE p == <<template, params>>
           m == Len(template.pieces)
           Equation(f) == f = [i \in 0..m |->
                IF i = 0 THEN <<>>
                ELSE f[i - 1] \o (IF template.pieces[i][1] = "var" THEN params[template.pieces[i][2]]
                                  ELSE template.pieces[i][2])]
           text == CHOOSE f : Equation(f)
<1>1. ASSUME NEW i \in 1..m PROVE IsText(PieceOf(p, i))
  <2>1. CASE template.pieces[i][1] = "var"
    <3>1. template.pieces[i][2] \in Parameters(template) BY <2>1 DEF Parameters, IsRenderable
    <3>2. PieceOf(p, i) = params[template.pieces[i][2]] BY <2>1 DEF PieceOf
    <3> QED BY <3>1, <3>2
  <2>2. CASE template.pieces[i][1] # "var"
    <3>1. PieceOf(p, i) = template.pieces[i][2] BY <2>2 DEF PieceOf
    <3> QED BY <2>2, <3>1 DEF IsRenderable
  <2> QED BY <2>1, <2>2
<1>2. ASSUME NEW i \in 1..m, NEW x, TextGood(p, x, i - 1) PROVE TextGood(p, TextTurn(p, x, i), i)
  <2> HIDE DEF p, m
  <2> QED BY <1>1, <1>2 DEF TextGood, TextTurn, IsText
<1>3. TextGood(p, TextStart(p), 0) BY DEF TextGood, TextStart, IsText
<1>4. /\ \E f : TextLoop!Unrolls(p, f, m)
      /\ \A f : TextLoop!Unrolls(p, f, m) => \A i \in 0..m : TextGood(p, f[i], i)
  <2>1. m \in Nat BY DEF IsRenderable
  <2> HIDE DEF m, p
  <2> QED BY <1>2, <1>3, <2>1, TextLoop!LoopInvariant
<1>5. \A f : TextLoop!Unrolls(p, f, m) <=> Equation(f)
  BY DEF TextLoop!Unrolls, TextStart, TextTurn, PieceOf
<1>6. TextLoop!Unrolls(p, text, m)
  <2> HIDE DEF Equation
  <2> QED BY <1>4, <1>5
<1>7. Text(template, params) = text[m] BY DEF Text
<1> HIDE DEF text
<1>8. m \in 0..m BY DEF IsRenderable
<1>9. TextGood(p, text[m], m) BY <1>4, <1>6, <1>8
<1> QED BY <1>7, <1>9 DEF TextGood

\* render: a command, exactly if the parameters are those of the template.
LEMMA Rendered ==
    ASSUME NEW template, IsRenderable(template), NEW params, \A x \in DOMAIN params : IsText(params[x])
    PROVE  LET c == Render(template, params) IN
           /\ "raised" \in DOMAIN c <=> Parameters(template) # DOMAIN params
           /\ Parameters(template) = DOMAIN params => IsCommand(c)
<1> DEFINE text == Text(template, params)
           c == Render(template, params)
<1>1. CASE Parameters(template) = DOMAIN params
  <2>1. IsText(text) BY <1>1, TextIsText
  <2>2. c = [command |-> text, version |-> template.version,
             revision |-> template.revision, ofmt |-> template.ofmt]
    BY <1>1 DEF Render
  <2> HIDE DEF c, text
  <2>3. /\ DOMAIN c = {"command", "version", "revision", "ofmt"} /\ c.command = text
        /\ c.version = template.version /\ c.revision = template.revision /\ c.ofmt = template.ofmt
    BY <2>2
  <2>4. IsCommand(c) BY <2>1, <2>3 DEF IsCommand, IsSent, IsRenderable
  <2> QED BY <1>1, <2>4 DEF c, IsCommand
<1>2. CASE Parameters(template) # DOMAIN params
  <2>1. c = [raised |-> "AntaTemplateRenderError"] \/ c = [raised |-> "ValidationError"]
    BY <1>2 DEF Render
  <2> HIDE DEF c
  <2>2. "raised" \in DOMAIN c BY <2>1
  <2> QED BY <1>2, <2>2 DEF c
<1> QED BY <1>1, <1>2

-----------------------------------------------------------------------------
(* The uid *)

\* Texts that end in as many words are equal in parts.
Joined(u, a, s) == u = a \o s

LEMMA EqualParts ==
    ASSUME NEW W, NEW a \in Seq(W), NEW b \in Seq(W), NEW s \in Seq(W), NEW t \in Seq(W),
           Len(s) = Len(t), NEW u, Joined(u, a, s), Joined(u, b, t)
    PROVE  a = b /\ \A i \in 1..Len(s) : s[i] = t[i]
<1>1. /\ Len(u) = Len(a) + Len(s)
      /\ \A i \in 1..(Len(a) + Len(s)) : u[i] = IF i <= Len(a) THEN a[i] ELSE s[i - Len(a)]
  BY ONLY a \in Seq(W), s \in Seq(W), Joined(u, a, s), ConcatProperties DEF Joined
<1>2. /\ Len(u) = Len(b) + Len(t)
      /\ \A i \in 1..(Len(b) + Len(t)) : u[i] = IF i <= Len(b) THEN b[i] ELSE t[i - Len(b)]
  BY ONLY b \in Seq(W), t \in Seq(W), Joined(u, b, t), ConcatProperties DEF Joined
<1>3. Len(a) \in Nat /\ Len(b) \in Nat /\ Len(s) \in Nat OBVIOUS
<1>4. Len(a) = Len(b) BY <1>1, <1>2, <1>3
<1>5. ASSUME NEW i \in 1..Len(a) PROVE a[i] = b[i]
  <2>1. i \in 1..(Len(a) + Len(s)) /\ i <= Len(a) BY <1>3
  <2> QED BY <1>1, <1>2, <1>4, <2>1
<1>6. ASSUME NEW i \in 1..Len(s) PROVE s[i] = t[i]
  <2> DEFINE k == Len(a) + i
  <2>1. k \in 1..(Len(a) + Len(s)) /\ ~(k <= Len(a)) /\ k - Len(a) = i BY <1>3
  <2> HIDE DEF k
  <2> QED BY <1>1, <1>2, <1>4, <2>1
<1>7. a = b BY <1>4, <1>5
<1> QED BY <1>6, <1>7

\* The last six words of a uid are what follows the text of the command.
LEMMA UidTellsRequest ==
    ASSUME NEW c, NEW d, IsCommand(c), IsCommand(d), Uid(c) = Uid(d)
    PROVE  Asks(c) = Asks(d)
<1> DEFINE shown(e) == IF e.revision = NotSet THEN "NA" ELSE e.revision
           s(e) == <<"_", e.version, "_", shown(e), "_", e.ofmt>>
<1>1. ASSUME NEW e, IsCommand(e)
      PROVE  /\ e.command \in Seq(Words) /\ s(e) \in Seq(Words) /\ Len(s(e)) = 6
             /\ Uid(e) = e.command \o s(e)
             /\ e.revision # "NA" \/ e.revision = NotSet
             /\ s(e)[2] = e.version /\ s(e)[4] = shown(e) /\ s(e)[6] = e.ofmt
  <2>1. shown(e) \in Words /\ e.version \in Words /\ e.ofmt \in Words
    BY <1>1, CommandsAssumption DEF IsCommand, IsSent
  <2>2. Uid(e) = e.command \o s(e) BY DEF Uid
  <2> HIDE DEF shown
  <2>3. "_" \in Words BY CommandsAssumption
  <2>4. s(e) \in Seq(Words) /\ Len(s(e)) = 6
    <3>1. Len(s(e)) = 6 /\ DOMAIN s(e) = 1..6 /\ s(e) = [i \in 1..6 |-> s(e)[i]] BY ONLY TRUE
    <3>2. ASSUME NEW i \in 1..6 PROVE s(e)[i] \in Words
      <4>1. i = 1 \/ i = 2 \/ i = 3 \/ i = 4 \/ i = 5 \/ i = 6 OBVIOUS
      <4>2. /\ s(e)[1] = "_" /\ s(e)[2] = e.version /\ s(e)[3] = "_"
            /\ s(e)[4] = shown(e) /\ s(e)[5] = "_" /\ s(e)[6] = e.ofmt
        BY ONLY TRUE
      <4> HIDE DEF s
      <4> QED BY ONLY <2>1, <2>3, <4>1, <4>2
    <3>3. s(e) \in [1..6 -> Words]
      <4> HIDE DEF s
      <4> QED BY <3>1, <3>2
    <3> HIDE DEF s
    <3> QED BY <3>1, <3>3
  <2> QED BY <1>1, <2>2, <2>4 DEF IsCommand, IsText, IsSent
<1> HIDE DEF s
<1>2. c.command = d.command /\ \A i \in 1..6 : s(c)[i] = s(d)[i]
  <2>1. Uid(c) = c.command \o s(c) /\ Uid(c) = d.command \o s(d) BY <1>1
  <2>2. /\ c.command \in Seq(Words) /\ d.command \in Seq(Words)
        /\ s(c) \in Seq(Words) /\ s(d) \in Seq(Words) /\ Len(s(c)) = 6 /\ Len(s(d)) = 6
    BY <1>1
  <2>3. c.command = d.command /\ \A i \in 1..Len(s(c)) : s(c)[i] = s(d)[i]
    <3> DEFINE a == c.command
               b == d.command
               x == s(c)
               y == s(d)
    <3>1. /\ a \in Seq(Words) /\ b \in Seq(Words) /\ x \in Seq(Words) /\ y \in Seq(Words)
          /\ Len(x) = Len(y) /\ Joined(Uid(c), a, x) /\ Joined(Uid(c), b, y)
      BY <2>1, <2>2 DEF Joined
    <3> HIDE DEF a, b, x, y
    <3>2. a = b /\ \A i \in 1..Len(x) : x[i] = y[i] BY <3>1, EqualParts
    <3> QED BY <3>2 DEF a, b, x, y
  <2> QED BY <2>2, <2>3
<1>3. c.version = d.version /\ c.ofmt = d.ofmt /\ shown(c) = shown(d) BY <1>1, <1>2
<1>4. c.revision = d.revision BY <1>1, <1>3
<1> QED BY <1>2, <1>3, <1>4 DEF Asks

-----------------------------------------------------------------------------
(* The commands of a test *)

\* A test of the lists: commands and templates that can be rendered.
IsDefinition(t) ==
    /\ Len(t.commands) \in Nat /\ DOMAIN t.commands = 1..Len(t.commands)
    /\ Len(t.params) \in Nat /\ DOMAIN t.params = 1..Len(t.params)
    /\ \A i \in DOMAIN t.params : \A x \in DOMAIN t.params[i] : IsText(t.params[i][x])
    /\ \A i \in DOMAIN t.commands :
        \/ IsCommand(t.commands[i]) /\ ~IsTemplate(t.commands[i])
        \/ IsTemplate(t.commands[i]) /\ IsRenderable(t.commands[i])

LEMMA ListsAreDefinitions == ASSUME NEW t \in CommandLists PROVE IsDefinition(t)
<1>1. t.commands \in Seq(ToSet(t.commands)) /\ t.params \in Seq(ToSet(t.params))
  BY CommandsAssumption
<1>2. /\ Len(t.commands) \in Nat /\ DOMAIN t.commands = 1..Len(t.commands)
      /\ Len(t.params) \in Nat /\ DOMAIN t.params = 1..Len(t.params)
  BY <1>1
<1>3. ASSUME NEW i \in DOMAIN t.commands
      PROVE  \/ IsCommand(t.commands[i]) /\ ~IsTemplate(t.commands[i])
             \/ IsTemplate(t.commands[i]) /\ IsRenderable(t.commands[i])
  <2> DEFINE c == t.commands[i]
  <2>1. \/ IsCommand(c)
        \/ /\ IsTemplate(c) /\ IsSent(c)
           /\ c.pieces \in Seq(ToSet(c.pieces))
           /\ \A j \in DOMAIN c.pieces : c.pieces[j][1] = "var" \/ IsText(c.pieces[j][2])
    BY CommandsAssumption
  <2> HIDE DEF c
  <2>2. CASE IsCommand(c) BY <2>2 DEF IsCommand, IsTemplate, c
  <2>3. CASE ~IsCommand(c)
    <3>1. Len(c.pieces) \in Nat /\ DOMAIN c.pieces = 1..Len(c.pieces) BY <2>1, <2>3
    <3> QED BY <2>1, <2>3, <3>1 DEF IsRenderable, c
  <2> QED BY <2>2, <2>3
<1> QED BY <1>2, <1>3, CommandsAssumption DEF IsDefinition

\* Does a set of parameters not match a template?
Mismatch(t, i) ==
    /\ IsTemplate(t.commands[i])
    /\ \E j \in DOMAIN t.params : Parameters(t.commands[i]) # DOMAIN t.params[j]

\* What one command of a test becomes: one command, or one for each set of parameters.
LEMMA InstancesFit ==
    ASSUME NEW t, IsDefinition(t), NEW i \in DOMAIN t.commands
    PROVE  LET more == Instances(t.commands[i], t.params) IN
           /\ Len(more) = IF IsTemplate(t.commands[i]) THEN Len(t.params) ELSE 1
           /\ (\E k \in 1..Len(more) : "raised" \in DOMAIN more[k]) <=> Mismatch(t, i)
           /\ ~Mismatch(t, i) => more \in Seq({c \in ToSet(more) : IsCommand(c)})
<1> DEFINE c == t.commands[i]
           n == Len(t.params)
           rendered == [k \in 1..n |-> Render(c, t.params[k])]
           more == Instances(c, t.params)
<1>1. n \in Nat /\ DOMAIN t.params = 1..n BY DEF IsDefinition
<1>2. CASE IsTemplate(c)
  <2>1. ASSUME NEW k \in 1..n
        PROVE  /\ "raised" \in DOMAIN rendered[k] <=> Parameters(c) # DOMAIN t.params[k]
               /\ Parameters(c) = DOMAIN t.params[k] => IsCommand(rendered[k])
    <3>1. IsRenderable(c) BY <1>2 DEF IsDefinition, IsCommand, IsTemplate
    <3>2. \A x \in DOMAIN t.params[k] : IsText(t.params[k][x]) BY <1>1 DEF IsDefinition
    <3>3. rendered[k] = Render(c, t.params[k]) OBVIOUS
    <3> HIDE DEF c, rendered
    <3> QED BY <3>1, <3>2, <3>3, Rendered
  <2>2. more = rendered BY <1>2 DEF Instances
  <2>3. Len(rendered) = n /\ DOMAIN rendered = 1..n
    <3> HIDE DEF n
    <3> QED BY <1>1
  <2>4. Mismatch(t, i) <=> \E k \in 1..n : Parameters(c) # DOMAIN t.params[k]
    BY <1>1, <1>2 DEF Mismatch
  <2>5. ASSUME ~Mismatch(t, i) PROVE rendered \in Seq({d \in ToSet(rendered) : IsCommand(d)})
    <3> DEFINE W == {d \in ToSet(rendered) : IsCommand(d)}
    <3>1. ASSUME NEW k \in 1..n PROVE rendered[k] \in W
      <4>1. rendered[k] \in ToSet(rendered) BY <2>3 DEF ToSet
      <4>2. IsCommand(rendered[k]) BY <2>1, <2>4, <2>5
      <4> HIDE DEF rendered
      <4> QED BY <4>1, <4>2
    <3>2. rendered = [k \in 1..n |-> rendered[k]] OBVIOUS
    <3> HIDE DEF W, rendered, n
    <3>3. rendered \in Seq(W) BY <1>1, <3>1, <3>2
    <3> QED BY <3>3 DEF W
  <2> HIDE DEF rendered, n, c
  <2> QED BY <1>2, <2>1, <2>2, <2>3, <2>4, <2>5 DEF n, c
<1>3. CASE ~IsTemplate(c)
  <2>1. more = <<c>> BY <1>3 DEF Instances
  <2>2. IsCommand(c) BY <1>3 DEF IsDefinition
  <2>3. ~Mismatch(t, i) BY <1>3 DEF Mismatch
  <2> HIDE DEF c, more
  <2>4. Len(more) = 1 /\ more[1] = c /\ \A k \in 1..Len(more) : k = 1 BY <2>1
  <2>5. "raised" \notin DOMAIN c BY <2>2 DEF IsCommand
  <2>6. c \in {d \in ToSet(more) : IsCommand(d)} BY <2>1, <2>2 DEF ToSet
  <2>7. more \in Seq({d \in ToSet(more) : IsCommand(d)}) BY <2>1, <2>6
  <2> QED BY <1>3, <2>3, <2>4, <2>5, <2>7 DEF c, more
<1> QED BY <1>2, <1>3

\* The loop of _init_commands: p is the test.
Templates(t, i) == {j \in 1..i : IsTemplate(t.commands[j])}
MakingStart(p) == [commands |-> <<>>, error |-> FALSE]
MakingTurn(p, x, i) == AddInstances(x, Instances(p.commands[i], p.params))
MakingGood(p, x, i) ==
    /\ x = [commands |-> x.commands, error |-> x.error]
    /\ x.error <=> \E j \in 1..i : Mismatch(p, j)
    /\ x.commands \in Seq({c \in ToSet(x.commands) : IsCommand(c)})
    /\ ~x.error => Len(x.commands) = i - Cardinality(Templates(p, i)) + Cardinality(Templates(p, i)) * Len(p.params)
MakingLoop == INSTANCE Loops WITH Start <- MakingStart, Turn <- MakingTurn, Good <- MakingGood

\* One more command: one more template, or not.
LEMMA TemplatesCounted ==
    ASSUME NEW t, NEW i \in Nat \ {0}
    PROVE  /\ Cardinality(Templates(t, i - 1)) \in Nat
           /\ Cardinality(Templates(t, i)) =
                Cardinality(Templates(t, i - 1)) + (IF IsTemplate(t.commands[i]) THEN 1 ELSE 0)
<1>1. IsFiniteSet(Templates(t, i - 1))
  <2>1. IsFiniteSet(1..(i - 1)) BY FS_Interval
  <2> QED BY <2>1, FS_Subset DEF Templates
<1>2. Cardinality(Templates(t, i - 1)) \in Nat BY <1>1, FS_CardinalityType
<1>3. CASE IsTemplate(t.commands[i])
  <2>1. Templates(t, i) = Templates(t, i - 1) \cup {i} /\ i \notin Templates(t, i - 1)
    BY <1>3 DEF Templates
  <2> QED BY <1>1, <1>2, <1>3, <2>1, FS_AddElement
<1>4. CASE ~IsTemplate(t.commands[i])
  <2>1. Templates(t, i) = Templates(t, i - 1) BY <1>4 DEF Templates
  <2> QED BY <1>2, <1>4, <2>1
<1> QED BY <1>3, <1>4

LEMMA TestsAreMade ==
    ASSUME NEW t, IsDefinition(t)
    PROVE  MakingGood(t, InitCommands(t.commands, t.params), Len(t.commands))
<1> DEFINE m == Len(t.commands)
           n == Len(t.params)
           Equation(f) == f = [i \in 0..m |->
                IF i = 0 THEN [commands |-> <<>>, error |-> FALSE]
                ELSE AddInstances(f[i - 1], Instances(t.commands[i], t.params))]
           after == CHOOSE f : Equation(f)
<1>0. m \in Nat /\ n \in Nat /\ DOMAIN t.commands = 1..m BY DEF IsDefinition
<1>1. ASSUME NEW i \in 1..m, NEW x, MakingGood(t, x, i - 1)
      PROVE  MakingGood(t, MakingTurn(t, x, i), i)
  <2> DEFINE more == Instances(t.commands[i], t.params)
             y == AddInstances(x, more)
             bad(j) == \E k \in 1..j : Mismatch(t, k)
             K(j) == Cardinality(Templates(t, j))
  <2>1. /\ x = [commands |-> x.commands, error |-> x.error]
        /\ x.error <=> bad(i - 1)
        /\ x.commands \in Seq({c \in ToSet(x.commands) : IsCommand(c)})
        /\ ~x.error => Len(x.commands) = (i - 1) - K(i - 1) + K(i - 1) * n
    BY <1>1 DEF MakingGood
  <2>2. /\ Len(more) = IF IsTemplate(t.commands[i]) THEN n ELSE 1
        /\ (\E k \in 1..Len(more) : "raised" \in DOMAIN more[k]) <=> Mismatch(t, i)
        /\ ~Mismatch(t, i) => more \in Seq({c \in ToSet(more) : IsCommand(c)})
    BY <1>0, InstancesFit
  <2>3. bad(i) <=> bad(i - 1) \/ Mismatch(t, i)
    <3>1. i \in 1..i /\ \A k \in 1..i : k = i \/ k \in 1..(i - 1) OBVIOUS
    <3>2. \A k \in 1..(i - 1) : k \in 1..i OBVIOUS
    <3> QED BY <3>1, <3>2
  <2>4. K(i - 1) \in Nat /\ K(i) = K(i - 1) + (IF IsTemplate(t.commands[i]) THEN 1 ELSE 0)
    <3>1. i \in Nat \ {0} BY <1>0
    <3> QED BY <3>1, TemplatesCounted
  <2> HIDE DEF more, bad, K, n, m
  <2>5. CASE x.error
    <3>1. y = x BY <2>5 DEF AddInstances
    <3> QED BY <2>1, <2>3, <2>5, <3>1 DEF MakingGood, MakingTurn, bad, more
  <2>6. CASE ~x.error /\ Mismatch(t, i)
    <3>1. y = [x EXCEPT !.error = TRUE] BY <2>2, <2>6 DEF AddInstances
    <3>2. y = [commands |-> x.commands, error |-> TRUE] BY <2>1, <3>1
    <3> HIDE DEF y
    <3>3. y.commands = x.commands /\ y.error = TRUE BY <3>2
    <3> QED BY <2>1, <2>3, <2>6, <3>2, <3>3 DEF MakingGood, MakingTurn, bad, more, y
  <2>7. CASE ~x.error /\ ~Mismatch(t, i)
    <3>1. y = [x EXCEPT !.commands = @ \o more] BY <2>2, <2>7 DEF AddInstances
    <3> DEFINE cs == x.commands \o more
    <3>2. y = [commands |-> cs, error |-> x.error] BY <2>1, <3>1
    <3>3. Len(cs) = Len(x.commands) + Len(more) /\ cs \in Seq({c \in ToSet(cs) : IsCommand(c)})
      <4> DEFINE V == {c \in ToSet(x.commands) \cup ToSet(more) : IsCommand(c)}
                 a == x.commands
      <4>1. a \in Seq(V) /\ more \in Seq(V) BY <2>1, <2>2, <2>7
      <4> HIDE DEF V, a
      <4>2. a \o more \in Seq(V) /\ Len(a \o more) = Len(a) + Len(more) BY <4>1
      <4> DEFINE b == a \o more
      <4>3. \A k \in 1..Len(b) : b[k] \in V /\ b[k] \in ToSet(b)
        <5>1. b \in Seq(V) BY <4>2
        <5> HIDE DEF b
        <5> QED BY <5>1 DEF ToSet
      <4>4. b \in Seq({c \in ToSet(b) : IsCommand(c)})
        <5>1. b \in Seq(V) BY <4>2
        <5> HIDE DEF b
        <5>2. \A k \in 1..Len(b) : b[k] \in {c \in ToSet(b) : IsCommand(c)} BY <4>3 DEF V
        <5> QED BY <5>1, <5>2
      <4> QED BY <4>2, <4>4 DEF a
    <3>4. Len(cs) = i - K(i) + K(i) * n
      <4>1. Len(x.commands) = (i - 1) - K(i - 1) + K(i - 1) * n BY <2>1, <2>7
      <4> DEFINE k == K(i - 1)
      <4>2. k \in Nat /\ n \in Nat /\ i \in Nat BY <1>0, <2>4 DEF m, n
      <4>3. CASE IsTemplate(t.commands[i])
        <5>1. K(i) = k + 1 /\ Len(more) = n BY <2>2, <2>4, <4>3
        <5>2. (k + 1) * n = k * n + n BY <4>2
        <5>3. k * n \in Nat BY <4>2
        <5> HIDE DEF k
        <5> QED BY <3>3, <4>1, <4>2, <5>1, <5>2, <5>3 DEF k
      <4>4. CASE ~IsTemplate(t.commands[i])
        <5>1. K(i) = k /\ Len(more) = 1 BY <2>2, <2>4, <4>2, <4>4
        <5>3. k * n \in Nat BY <4>2
        <5> QED BY <3>3, <4>1, <4>2, <5>1, <5>3
      <4> QED BY <4>3, <4>4
    <3> HIDE DEF y, cs
    <3>5. y.commands = cs /\ y.error = x.error BY <3>2
    <3> QED BY <2>1, <2>3, <2>7, <3>2, <3>3, <3>4, <3>5 DEF MakingGood, MakingTurn, bad, more, y, K, n
  <2> QED BY <2>5, <2>6, <2>7
<1>2. MakingGood(t, MakingStart(t), 0)
  <2>1. Cardinality(Templates(t, 0)) = 0
    <3>1. Templates(t, 0) = {} BY DEF Templates
    <3> QED BY <3>1, FS_EmptySet
  <2>2. 0 * n = 0 BY <1>0
  <2> QED BY <1>0, <2>1, <2>2 DEF MakingGood, MakingStart
<1>3. /\ \E f : MakingLoop!Unrolls(t, f, m)
      /\ \A f : MakingLoop!Unrolls(t, f, m) => \A i \in 0..m : MakingGood(t, f[i], i)
  <2> HIDE DEF m
  <2> QED BY <1>0, <1>1, <1>2, MakingLoop!LoopInvariant
<1>4. \A f : MakingLoop!Unrolls(t, f, m) <=> Equation(f)
  BY DEF MakingLoop!Unrolls, MakingStart, MakingTurn
<1>5. MakingLoop!Unrolls(t, after, m)
  <2> HIDE DEF Equation
  <2> QED BY <1>3, <1>4
<1>6. InitCommands(t.commands, t.params) = after[m] BY DEF InitCommands
<1> HIDE DEF after
<1>7. MakingGood(t, after[m], m) BY <1>0, <1>3, <1>5
<1> QED BY <1>6, <1>7

-----------------------------------------------------------------------------

CommandsIInv ==
    definition \in CommandLists
    /\ (instance = NotSet \/ instance = InitCommands(definition.commands, definition.params))

\* The commands of any test are what _init_commands makes of its class and parameters.
THEOREM CommandsInvariance == CommandsSpec => []CommandsIInv
<1>1. CommandsInit => CommandsIInv BY DEF CommandsInit, CommandsIInv
<1>2. CommandsIInv /\ [MakeCommands]_commandVars => CommandsIInv'
  BY DEF CommandsIInv, MakeCommands, commandVars
<1> QED BY <1>1, <1>2, PTL DEF CommandsSpec

\* AntaCommand.uid: no answer in the cache is one of another request.
THEOREM CachedAnswersFit == CommandsSpec => []CachedAnswerFits
<1>1. CommandsIInv => CachedAnswerFits
  <2> SUFFICES ASSUME CommandsIInv, instance # NotSet PROVE CachedAnswerFits
    BY DEF CachedAnswerFits
  <2> DEFINE t == definition
             m == Len(t.commands)
  <2>1. IsDefinition(t) BY ListsAreDefinitions DEF CommandsIInv
  <2>2. MakingGood(t, instance, m) BY <2>1, TestsAreMade DEF CommandsIInv
  <2>3. DOMAIN t.commands = 1..m BY <2>1 DEF IsDefinition
  <2>4. \A c \in ToSet(instance.commands) : IsCommand(c)
    <3> DEFINE cs == instance.commands
    <3>1. cs \in Seq({c \in ToSet(cs) : IsCommand(c)}) BY <2>2 DEF MakingGood
    <3> HIDE DEF cs
    <3>2. \A k \in DOMAIN cs : IsCommand(cs[k])
      <4> DEFINE W == {c \in ToSet(cs) : IsCommand(c)}
      <4> SUFFICES ASSUME NEW k \in DOMAIN cs PROVE cs[k] \in W OBVIOUS
      <4>1. cs \in Seq(W) BY <3>1
      <4> HIDE DEF W
      <4> QED BY <4>1
    <3> QED BY <3>2 DEF ToSet, cs
  <2>5. \A c \in ToSet(instance.commands), d \in OtherCommands \cup ToSet(instance.commands) :
            Uid(c) = Uid(d) => Asks(c) = Asks(d)
    BY <2>4, UidTellsRequest, CommandsAssumption
  <2>6. instance.error <=> \E i \in DOMAIN t.commands, j \in DOMAIN t.params :
            IsTemplate(t.commands[i]) /\ Parameters(t.commands[i]) # DOMAIN t.params[j]
    BY <2>2, <2>3 DEF MakingGood, Mismatch
  <2>7. ~instance.error =>
            LET templates == {i \in DOMAIN t.commands : IsTemplate(t.commands[i])} IN
            Len(instance.commands) = Len(t.commands) - Cardinality(templates) + Cardinality(templates) * Len(t.params)
    BY <2>2, <2>3 DEF MakingGood, Templates
  <2> QED BY <2>5, <2>6, <2>7 DEF CachedAnswerFits
<1> QED BY <1>1, CommandsInvariance, PTL

-----------------------------------------------------------------------------
(* InputTypes *)

-----------------------------------------------------------------------------
(* Tables *)

\* What a table has at a key is in one of its pairs, beside the key.
LEMMA TableHasPairs ==
    ASSUME NEW pairs
    PROVE  \A k \in DOMAIN Table(pairs) : \E p \in pairs : p[1] = k /\ Table(pairs)[k] = p[2]
<1> SUFFICES ASSUME NEW k \in DOMAIN Table(pairs)
             PROVE  \E p \in pairs : p[1] = k /\ Table(pairs)[k] = p[2]
  OBVIOUS
<1>1. \E p \in pairs : p[1] = k BY DEF Table
<1>2. Table(pairs)[k] = (CHOOSE p \in pairs : p[1] = k)[2] BY DEF Table
<1> QED BY <1>1, <1>2

\* The name an alias stands for stands for itself.
LEMMA FullNamesStay ==
    \A w \in DOMAIN FullName : FullName[w] \in DOMAIN FullName /\ FullName[FullName[w]] = FullName[w]
<1>1. \A w \in {"et", "eth", "ethernet"} : w \in DOMAIN FullName /\ FullName[w] = "ethernet" BY DEF FullName
<1>2. \A w \in {"po", "port-channel", "port-Channel"} : w \in DOMAIN FullName /\ FullName[w] = "port-Channel"
  BY DEF FullName
<1>3. \A w \in {"lo", "loopback"} : w \in DOMAIN FullName /\ FullName[w] = "loopback" BY DEF FullName
<1>4. \A w \in {"vl", "vlan"} : w \in DOMAIN FullName /\ FullName[w] = "vlan" BY DEF FullName
<1>5. \A w \in DOMAIN FullName : \/ w \in {"et", "eth", "ethernet"}
                                 \/ w \in {"po", "port-channel", "port-Channel"}
                                 \/ w \in {"lo", "loopback"} \/ w \in {"vl", "vlan"}
  BY DEF FullName
<1> HIDE DEF FullName
<1> QED BY <1>1, <1>2, <1>3, <1>4, <1>5

LEMMA AfiSafisConverted == \A v \in DOMAIN AfiSafi : AfiSafi[v] \notin DOMAIN AfiSafi
<1> DEFINE pairs == {
      <<"ipv4 unicast", "v4u">>, <<"ipv4 multicast", "v4m">>, <<"ipv6 unicast", "v6u">>,
      <<"ipv6 multicast", "v6m">>}
           texts == {"ipv4 unicast", "ipv4 multicast", "ipv6 unicast", "ipv6 multicast"}
           codes == {"v4u", "v4m", "v6u", "v6m"}
<1>1. AfiSafi = Table(pairs) BY DEF AfiSafi
<1>2. \A p \in pairs : p[1] \in texts /\ p[2] \in codes
  <2> SUFFICES ASSUME NEW p \in pairs PROVE p[1] \in texts /\ p[2] \in codes
    OBVIOUS
  <2>1. CASE p = <<"ipv4 unicast", "v4u">> BY <2>1, Zenon
  <2>2. CASE p = <<"ipv4 multicast", "v4m">> BY <2>2, Zenon
  <2>3. CASE p = <<"ipv6 unicast", "v6u">> BY <2>3, Zenon
  <2>4. CASE p = <<"ipv6 multicast", "v6m">> BY <2>4, Zenon
  <2> QED BY <2>1, <2>2, <2>3, <2>4, Zenon
<1>3. \A v \in codes : v \notin texts OBVIOUS
<1> HIDE DEF pairs, texts, codes
<1> QED BY ONLY <1>1, <1>2, <1>3, TableHasPairs

LEMMA PrefixesConverted == \A v \in DOMAIN V3Prefixed : V3Prefixed[v] \notin DOMAIN V3Prefixed
<1>1. \A v \in DOMAIN V3Prefixed : V3Prefixed[v] \in {"v3Auth", "v3Priv", "v3NoAuth"}
  BY TableHasPairs DEF V3Prefixed
<1>2. DOMAIN V3Prefixed = {"auth", "priv", "noauth"} BY DEF V3Prefixed, Table
<1> QED BY <1>1, <1>2

LEMMA RoutesConverted ==
    \A v \in AcceptedRoutes : v \in DOMAIN RouteTypes => RouteTypes[v] \notin AcceptedRoutes
<1> DEFINE pairs == {
          <<"OSPF inter area", "ospfInterArea">>, <<"OSPF external type 1", "ospfExternalType1">>,
          <<"OSPF external type 2", "ospfExternalType2">>,
          <<"OSPF NSSA external type 1", "ospfNssaExternalType1">>,
          <<"OSPF NSSA external type2", "ospfNssaExternalType2">>, <<"Other BGP Routes", "BGP">>,
          <<"IS-IS level 1", "ISISLevel1">>, <<"IS-IS level 2", "ISISLevel2">>,
          <<"BGP Aggregate", "bgpAggregate">>, <<"OSPF Summary", "ospfSummary">>,
          <<"Nexthop Group Static Route", "nexthopGroupStaticRoute">>, <<"VXLAN Control Service", "vcs">>,
          <<"Martian", "martian">>, <<"DHCP client installed default route", "dhcp">>,
          <<"Dynamic Policy Route", "dynamicPolicy">>, <<"gRIBI", "gribi">>,
          <<"Route Cache Route", "routeCacheConnected">>, <<"CBF Leaked Route", "CBFLeaked">>,
          <<"Drop Route", "dropRoute">>}
           codes == {"ospfInterArea", "ospfExternalType1", "ospfExternalType2", "ospfNssaExternalType1",
                     "ospfNssaExternalType2", "BGP", "ISISLevel1", "ISISLevel2", "bgpAggregate",
                     "ospfSummary", "nexthopGroupStaticRoute", "vcs", "martian", "dhcp", "dynamicPolicy",
                     "gribi", "routeCacheConnected", "CBFLeaked"}
           texts == {"OSPF inter area", "OSPF external type 1", "OSPF external type 2",
                     "OSPF NSSA external type 1", "OSPF NSSA external type2", "Other BGP Routes",
                     "IS-IS level 1", "IS-IS level 2", "BGP Aggregate", "OSPF Summary",
                     "Nexthop Group Static Route", "VXLAN Control Service", "Martian",
                     "DHCP client installed default route", "Dynamic Policy Route", "gRIBI",
                     "Route Cache Route", "CBF Leaked Route"}
           plain == {"connected", "static", "kernel", "OSPF", "iBGP", "eBGP", "RIP", "OSPFv3", "dropRoute"}
<1>1. RouteTypes = Table(pairs) BY DEF RouteTypes
<1>2. \A p \in pairs : p[1] = "Drop Route" \/ (p[1] \in texts /\ p[2] \in codes)
  <2> SUFFICES ASSUME NEW p \in pairs PROVE p[1] = "Drop Route" \/ (p[1] \in texts /\ p[2] \in codes)
    OBVIOUS
  <2>1. CASE p = <<"OSPF inter area", "ospfInterArea">> BY <2>1, Zenon
  <2>2. CASE p = <<"OSPF external type 1", "ospfExternalType1">> BY <2>2, Zenon
  <2>3. CASE p = <<"OSPF external type 2", "ospfExternalType2">> BY <2>3, Zenon
  <2>4. CASE p = <<"OSPF NSSA external type 1", "ospfNssaExternalType1">> BY <2>4, Zenon
  <2>5. CASE p = <<"OSPF NSSA external type2", "ospfNssaExternalType2">> BY <2>5, Zenon
  <2>6. CASE p = <<"Other BGP Routes", "BGP">> BY <2>6, Zenon
  <2>7. CASE p = <<"IS-IS level 1", "ISISLevel1">> BY <2>7, Zenon
  <2>8. CASE p = <<"IS-IS level 2", "ISISLevel2">> BY <2>8, Zenon
  <2>9. CASE p = <<"BGP Aggregate", "bgpAggregate">> BY <2>9, Zenon
  <2>10. CASE p = <<"OSPF Summary", "ospfSummary">> BY <2>10, Zenon
  <2>11. CASE p = <<"Nexthop Group Static Route", "nexthopGroupStaticRoute">> BY <2>11, Zenon
  <2>12. CASE p = <<"VXLAN Control Service", "vcs">> BY <2>12, Zenon
  <2>13. CASE p = <<"Martian", "martian">> BY <2>13, Zenon
  <2>14. CASE p = <<"DHCP client installed default route", "dhcp">> BY <2>14, Zenon
  <2>15. CASE p = <<"Dynamic Policy Route", "dynamicPolicy">> BY <2>15, Zenon
  <2>16. CASE p = <<"gRIBI", "gribi">> BY <2>16, Zenon
  <2>17. CASE p = <<"Route Cache Route", "routeCacheConnected">> BY <2>17, Zenon
  <2>18. CASE p = <<"CBF Leaked Route", "CBFLeaked">> BY <2>18, Zenon
  <2>19. CASE p = <<"Drop Route", "dropRoute">> BY <2>19, Zenon
  <2> QED BY <2>1, <2>2, <2>3, <2>4, <2>5, <2>6, <2>7, <2>8, <2>9, <2>10, <2>11, <2>12,
            <2>13, <2>14, <2>15, <2>16, <2>17, <2>18, <2>19, Zenon
<1>3. "Drop Route" \notin texts \cup plain OBVIOUS
<1>4. \A c \in codes : c \notin texts \cup plain OBVIOUS
<1>5. AcceptedRoutes = (DOMAIN RouteTypes \ {"Drop Route"}) \cup plain BY DEF AcceptedRoutes
<1> HIDE DEF pairs, codes, texts, plain
<1>6. \A v \in DOMAIN RouteTypes : v = "Drop Route" \/ (v \in texts /\ RouteTypes[v] \in codes)
  <2> SUFFICES ASSUME NEW v \in DOMAIN RouteTypes
               PROVE  v = "Drop Route" \/ (v \in texts /\ RouteTypes[v] \in codes)
    OBVIOUS
  <2>1. PICK p \in pairs : p[1] = v /\ RouteTypes[v] = p[2] BY ONLY <1>1, TableHasPairs
  <2> QED BY ONLY <1>2, <2>1
<1> QED BY ONLY <1>3, <1>4, <1>5, <1>6

LEMMA CausesStay == \A v \in ReloadTexts : ToCause(v) = v
BY DEF ToCause

\* No other word for a capability is one.
LEMMA CapabilitiesStay == \A w \in Capabilities : w \notin DOMAIN OtherWords
<1> DEFINE pairs == {
      <<<<"dynamic", "path", "selection">>, <<"dps">>>>,
      <<<<"ipv4", "rt", "membership">>, <<"rt", "membership">>>>,
      <<<<"ipv4", "labeled", "unicast">>, <<"ipv4", "mpls", "labels">>>>,
      <<<<"ipv6", "labeled", "unicast">>, <<"ipv6", "mpls", "labels">>>>}
           second == {"path", "rt", "labeled"}
           single == {<<"dps">>, <<"l2", "vpn", "vpls">>, <<"l2", "vpn", "evpn">>, <<"link", "state">>,
                      <<"rt", "membership">>, <<"ipv4", "mvpn">>}
           tails == {<<"unicast">>, <<"multicast">>, <<"mpls", "labels">>, <<"sr", "te">>,
                     <<"mpls", "vpn">>, <<"flow", "spec">>, <<"flow", "spec", "vpn">>}
<1>1. OtherWords = Table(pairs) BY DEF OtherWords
<1>2. \A p \in pairs : p[1][2] \in second /\ Len(p[1]) = 3 OBVIOUS
<1>3. \A w \in single : Len(w) = 3 => w[2] \notin second OBVIOUS
<1>4. \A c \in tails : c[1] \notin second /\ (<<"ipv4">> \o c)[2] = c[1] /\ (<<"ipv6">> \o c)[2] = c[1]
  <2>1. \A c \in tails : c[1] \notin second OBVIOUS
  <2>2. \A c \in tails : (<<"ipv4">> \o c)[2] = c[1] OBVIOUS
  <2>3. \A c \in tails : (<<"ipv6">> \o c)[2] = c[1] OBVIOUS
  <2> QED BY ONLY <2>1, <2>2, <2>3
<1>6. Capabilities = single \cup {<<v>> \o c : v \in {"ipv4", "ipv6"}, c \in tails} BY DEF Capabilities
<1> HIDE DEF pairs, second, single, tails
<1>7. \A w \in DOMAIN OtherWords : w[2] \in second /\ Len(w) = 3 BY ONLY <1>1, <1>2, TableHasPairs
<1> SUFFICES ASSUME NEW w \in Capabilities, w[2] \in second, Len(w) = 3 PROVE FALSE BY <1>7
<1>8. w \notin single BY <1>3
<1>9. PICK v \in {"ipv4", "ipv6"}, c \in tails : w = <<v>> \o c BY <1>6, <1>8
<1>10. w[2] = c[1] BY <1>4, <1>9
<1> QED BY <1>4, <1>10

-----------------------------------------------------------------------------
(* A value that was kept, read again *)

\* An interface with this word, capital, numbers and mark of a subinterface, and the one
\* with a capital.
Named(w, c, n, s) == [word |-> w, capital |-> c, id |-> n, sub |-> s]
Capital(w, n, s) == Named(w, TRUE, n, s)

LEMMA IsNamed ==
    ASSUME NEW i \in [word : STRING, capital : BOOLEAN, id : Seq(Nat), sub : BOOLEAN]
    PROVE  i = Named(i.word, i.capital, i.id, i.sub)
BY DEF Named

LEMMA CapitalizedNamed ==
    \A w, c, n, s : Capitalized(Named(w, c, n, s)) = Capital(w, n, s)
<1>1. ASSUME NEW w, NEW c, NEW n, NEW s, NEW t, t = TRUE
      PROVE  Capitalized(Named(w, c, n, s)) = Capital(w, n, s)
  <2>1. [Named(w, c, n, s) EXCEPT !.capital = t] = Named(w, t, n, s) BY ONLY DEF Named
  <2>2. Capitalized(Named(w, c, n, s)) = [Named(w, c, n, s) EXCEPT !.capital = t]
    BY <1>1, Zenon DEF Capitalized
  <2>3. Capital(w, n, s) = Named(w, t, n, s) BY <1>1, Zenon DEF Capital
  <2> QED BY ONLY <2>1, <2>2, <2>3
<1> QED BY <1>1, Zenon

LEMMA CapitalStays == \A w, n, s : Capitalized(Capital(w, n, s)) = Capital(w, n, s)
BY CapitalizedNamed, Zenon DEF Capital

LEMMA AutocompleteCapital ==
    \A w, n, s : Autocomplete(Capital(w, n, s)) =
        IF n = <<>> THEN None
        ELSE IF w \in DOMAIN FullName THEN Capital(FullName[w], n, s) ELSE Capital(w, n, s)
<1> SUFFICES ASSUME NEW w, NEW n, NEW s
             PROVE  Autocomplete(Capital(w, n, s)) =
                        IF n = <<>> THEN None
                        ELSE IF w \in DOMAIN FullName THEN Capital(FullName[w], n, s) ELSE Capital(w, n, s)
  OBVIOUS
<1>1. \A t, f : [Named(w, t, n, s) EXCEPT !.word = f] = Named(f, t, n, s) BY DEF Named
<1>2. \A f : Capitalized([Capital(w, n, s) EXCEPT !.word = f]) = Capital(f, n, s)
  <2> TAKE f
  <2>1. PICK t : t = TRUE OBVIOUS
  <2>2. Capital(w, n, s) = Named(w, t, n, s) BY <2>1, Zenon DEF Capital
  <2>3. [Capital(w, n, s) EXCEPT !.word = f] = Named(f, t, n, s) BY ONLY <1>1, <2>2
  <2> QED BY ONLY <2>3, CapitalizedNamed
<1>3. \A t : Named(w, t, n, s).id = n /\ Named(w, t, n, s).word = w BY DEF Named
<1>4. Capital(w, n, s).id = n /\ Capital(w, n, s).word = w BY ONLY <1>3, Zenon DEF Capital
<1> QED BY ONLY <1>2, <1>4 DEF Autocomplete

\* An interface that was completed is complete.
LEMMA CompletedStays ==
    ASSUME NEW i \in [word : STRING, capital : BOOLEAN, id : Seq(Nat), sub : BOOLEAN],
           Autocomplete(Capitalized(i)) # None
    PROVE  Autocomplete(Capitalized(Autocomplete(Capitalized(i)))) = Autocomplete(Capitalized(i))
<1>1. PICK w, c, n, s : i = Named(w, c, n, s) BY IsNamed
<1>2. Capitalized(i) = Capital(w, n, s) BY <1>1, CapitalizedNamed
<1>3. n # <<>> BY <1>2, AutocompleteCapital
<1>4. CASE w \in DOMAIN FullName
  <2>1. FullName[w] \in DOMAIN FullName /\ FullName[FullName[w]] = FullName[w] BY <1>4, FullNamesStay
  <2>2. Autocomplete(Capitalized(i)) = Capital(FullName[w], n, s) BY <1>2, <1>3, <1>4, AutocompleteCapital
  <2>3. Autocomplete(Capitalized(Capital(FullName[w], n, s))) = Capital(FullName[w], n, s)
    BY <1>3, <2>1, CapitalStays, AutocompleteCapital
  <2> QED BY <2>2, <2>3
<1>5. CASE w \notin DOMAIN FullName BY <1>2, <1>3, <1>5, CapitalStays, AutocompleteCapital
<1> QED BY <1>4, <1>5

LEMMA AbbreviatedStays ==
    ASSUME NEW c \in [words : Seq(STRING), eos : BOOLEAN]
    PROVE  Abbreviated(Abbreviated(c)) = Abbreviated(c)
<1> DEFINE words == IF c.words \in DOMAIN OtherWords THEN OtherWords[c.words] ELSE c.words
<1>1. CASE words \in Capabilities
  <2>1. Abbreviated(c) = [words |-> words, eos |-> TRUE] BY <1>1 DEF Abbreviated
  <2>2. words \notin DOMAIN OtherWords BY <1>1, CapabilitiesStay
  <2> HIDE DEF words
  <2>3. Abbreviated([words |-> words, eos |-> TRUE]) = [words |-> words, eos |-> TRUE]
    BY <1>1, <2>2 DEF Abbreviated
  <2> QED BY <2>1, <2>3
<1>2. CASE words \notin Capabilities
  <2>1. Abbreviated(c) = c BY <1>2 DEF Abbreviated
  <2> QED BY <2>1
<1> QED BY <1>1, <1>2

\* What a type makes of a value before its pattern, it makes of that once more.
LEMMA BeforeStays ==
    ASSUME NEW type \in InputTypeNames, NEW v, IsSpelling(type, v), Before(type, v) # None
    PROVE  Before(type, Before(type, v)) = Before(type, v)
<1>1. CASE type \in InterfaceTypes \ {"ManagementInterface", "InterfaceType"}
  <2>1. v \in [word : STRING, capital : BOOLEAN, id : Seq(Nat), sub : BOOLEAN]
    BY <1>1 DEF IsSpelling, InterfaceTypes
  <2>2. \A w : Before(type, w) = Autocomplete(Capitalized(w)) BY <1>1 DEF Before, InterfaceTypes
  <2> QED BY <2>1, <2>2, CompletedStays
<1>2. CASE type \in {"ManagementInterface", "InterfaceType"}
  <2>1. v \in [word : STRING, capital : BOOLEAN, id : Seq(Nat), sub : BOOLEAN]
    BY <1>2 DEF IsSpelling, InterfaceTypes
  <2>2. \A w : Before(type, w) = Capitalized(w) BY <1>2 DEF Before
  <2>3. Capitalized(Capitalized(v)) = Capitalized(v)
    <3>1. PICK w, c, n, s : v = Named(w, c, n, s) BY <2>1, IsNamed
    <3>2. Capitalized(v) = Capital(w, n, s) BY <3>1, CapitalizedNamed
    <3> QED BY <3>2, CapitalStays
  <2> QED BY <2>2, <2>3
<1>3. CASE type = "MultiProtocolCaps"
  <2>1. v \in [words : Seq(STRING), eos : BOOLEAN] BY <1>3 DEF IsSpelling, InterfaceTypes
  <2>2. \A w : Before(type, w) = Abbreviated(w) BY <1>3 DEF Before, InterfaceTypes
  <2> QED BY <2>1, <2>2, AbbreviatedStays
<1>4. CASE type = "RedistributedAfiSafi"
  <2>1. \A w : Before(type, w) = IF w \in DOMAIN AfiSafi THEN AfiSafi[w] ELSE w
    BY <1>4 DEF Before, InterfaceTypes
  <2> QED BY <2>1, AfiSafisConverted
<1>5. CASE type = "ReloadCause"
  <2>1. \A w : Before(type, w) = ToCause(w) BY <1>5 DEF Before, InterfaceTypes
  <2>2. ToCause(v) \in ReloadTexts BY <2>1 DEF ToCause, ReloadTexts
  <2> QED BY <2>1, <2>2, CausesStay
<1>6. CASE type \in ConvertedAfter \cup {"AAAAuthMethod"}
  <2>1. \A w : Before(type, w) = w BY <1>6 DEF Before, ConvertedAfter, InterfaceTypes
  <2> QED BY <2>1
<1> QED BY <1>1, <1>2, <1>3, <1>4, <1>5, <1>6 DEF InputTypeNames

\* A prefixed method is prefixed, a method with a prefix stays as it is.
LEMMA PrefixedStays ==
    ASSUME NEW v \in Seq(STRING) \ {<<>>}
    PROVE  GroupPrefix(GroupPrefix(v)) = GroupPrefix(v)
<1>1. CASE v \in {<<"local">>, <<"none">>, <<"logging">>} \/ (Len(v) > 1 /\ v[1] = "group")
  BY <1>1 DEF GroupPrefix
<1>2. CASE ~(v \in {<<"local">>, <<"none">>, <<"logging">>} \/ (Len(v) > 1 /\ v[1] = "group"))
  <2>1. GroupPrefix(v) = <<"group">> \o v BY <1>2 DEF GroupPrefix
  <2>2. Len(<<"group">> \o v) > 1 /\ (<<"group">> \o v)[1] = "group" BY <1>2
  <2> QED BY <2>1, <2>2 DEF GroupPrefix
<1> QED BY <1>1, <1>2

\* The types that keep what their pattern accepted read it as it is.
LEMMA AcceptedStays ==
    ASSUME NEW type \in InputTypeNames \ (ConvertedAfter \cup {"AAAAuthMethod"}), NEW v, IsSpelling(type, v),
           Validate(type, v) # None
    PROVE  Validate(type, Validate(type, v)) = Validate(type, v)
<1> DEFINE b == Before(type, v)
<1>1. \A w : After(type, w) = w BY DEF After, ConvertedAfter
<1>2. b # None /\ Accepts(type, b) /\ Validate(type, v) = b BY <1>1 DEF Validate
<1>3. Before(type, b) = b BY <1>2, BeforeStays
<1> HIDE DEF b
<1> QED BY <1>1, <1>2, <1>3 DEF Validate

LEMMA MethodStays ==
    ASSUME NEW v, IsSpelling("AAAAuthMethod", v), Validate("AAAAuthMethod", v) # None
    PROVE  Validate("AAAAuthMethod", Validate("AAAAuthMethod", v)) = Validate("AAAAuthMethod", v)
<1>1. v \in Seq(STRING) \ {<<>>} BY DEF IsSpelling, InterfaceTypes
<1>2. \A w : Validate("AAAAuthMethod", w) = IF w = None THEN None ELSE GroupPrefix(w)
  BY DEF Validate, Before, Accepts, After, InterfaceTypes
<1> QED BY <1>1, <1>2, PrefixedStays

\* What a list accepted and the type then converted is refused, as another value; what
\* it did not convert stays.
LEMMA RouteRefused ==
    ASSUME NEW v, Validate("IPv4RouteType", v) # None
    PROVE  LET k == Validate("IPv4RouteType", v) IN
           Validate("IPv4RouteType", k) = k \/ (Validate("IPv4RouteType", k) = None /\ k # v)
<1> DEFINE route(w) == IF w \in DOMAIN RouteTypes THEN RouteTypes[w] ELSE w
<1>1. \A w : Validate("IPv4RouteType", w) =
                IF w = None THEN None ELSE IF w \in AcceptedRoutes THEN route(w) ELSE None
  BY DEF Validate, Before, Accepts, After, InterfaceTypes
<1>2. v \in AcceptedRoutes /\ Validate("IPv4RouteType", v) = route(v) BY <1>1
<1>3. CASE v \in DOMAIN RouteTypes
  <2>1. route(v) \notin AcceptedRoutes BY <1>2, <1>3, RoutesConverted
  <2> HIDE DEF route
  <2> QED BY <1>1, <1>2, <2>1
<1>4. CASE v \notin DOMAIN RouteTypes
  <2>1. route(v) = v BY <1>4
  <2> HIDE DEF route
  <2> QED BY <1>2, <2>1
<1> QED BY <1>3, <1>4

LEMMA ProtocolRefused ==
    ASSUME NEW v, Validate("RedistributedProtocol", v) # None
    PROVE  LET k == Validate("RedistributedProtocol", v) IN
           Validate("RedistributedProtocol", k) = k \/ (Validate("RedistributedProtocol", k) = None /\ k # v)
<1> DEFINE protocol(w) == IF w = "User" THEN "EOS SDK" ELSE w
<1>1. \A w : After("RedistributedProtocol", w) = protocol(w) BY DEF After, InterfaceTypes
<1>2. "EOS SDK" \notin Protocols BY Zenon DEF Protocols
<1>3. protocol(v) = v \/ protocol(v) \notin Protocols BY <1>2
<1> HIDE DEF protocol
<1>4. \A w : (Accepts("RedistributedProtocol", w) <=> w \in Protocols) /\ Before("RedistributedProtocol", w) = w
  BY DEF Accepts, Before, InterfaceTypes
<1>5. \A w : Validate("RedistributedProtocol", w) =
                IF w = None THEN None ELSE IF w \in Protocols THEN protocol(w) ELSE None
  BY <1>1, <1>4 DEF Validate
<1> QED BY <1>3, <1>5

LEMMA PrefixRefused ==
    ASSUME NEW v, Validate("SnmpVersionV3AuthType", v) # None
    PROVE  LET k == Validate("SnmpVersionV3AuthType", v) IN
           Validate("SnmpVersionV3AuthType", k) = None /\ k # v
<1>1. \A w : Validate("SnmpVersionV3AuthType", w) =
                IF w = None THEN None ELSE IF w \in DOMAIN V3Prefixed THEN V3Prefixed[w] ELSE None
  BY DEF Validate, Before, Accepts, After, InterfaceTypes
<1> QED BY <1>1, PrefixesConverted

\* A value that was kept is kept as it is, or refused by a type that converted it.
LEMMA SecondReading ==
    ASSUME NEW in \in Values, Validate(in.type, in.value) # None
    PROVE  LET k == Validate(in.type, in.value) IN
           \/ Validate(in.type, k) = k
           \/ in.type \in ConvertedAfter /\ Validate(in.type, k) = None /\ k # in.value
<1>1. in.type \in InputTypeNames /\ IsSpelling(in.type, in.value) BY ValuesAssumption
<1>2. CASE in.type \notin ConvertedAfter \cup {"AAAAuthMethod"} BY <1>1, <1>2, AcceptedStays
<1>3. CASE in.type = "AAAAuthMethod" BY <1>1, <1>3, MethodStays
<1>4. CASE in.type \in ConvertedAfter
  <2>1. CASE in.type = "IPv4RouteType" BY <1>4, <2>1, RouteRefused
  <2>2. CASE in.type = "RedistributedProtocol" BY <1>4, <2>2, ProtocolRefused
  <2>3. CASE in.type = "SnmpVersionV3AuthType" BY <1>4, <2>3, PrefixRefused
  <2> QED BY <1>4, <2>1, <2>2, <2>3 DEF ConvertedAfter
<1> QED BY <1>2, <1>3, <1>4

\* What a behaviour keeps is the value read once, and what was kept of it read again.
FirstKept == Validate(given.type, given.value)
ValueIInv ==
    /\ given \in Values
    /\ \/ kept = <<>>
       \/ kept = <<FirstKept>>
       \/ FirstKept # None /\ kept = <<FirstKept, Validate(given.type, FirstKept)>>

THEOREM ValueInvariance == ValueSpec => []ValueIInv
<1>1. ValueInit => ValueIInv BY DEF ValueInit, ValueIInv
<1>2. ValueIInv /\ [ValueNext]_valueVars => ValueIInv'
  <2> SUFFICES ASSUME ValueIInv, [ValueNext]_valueVars PROVE ValueIInv' OBVIOUS
  <2>1. CASE ReadValue BY <2>1 DEF ReadValue, ValueIInv, FirstKept
  <2>2. CASE ReadAgain
    <3>1. kept = <<FirstKept>> BY <2>2 DEF ReadAgain, ValueIInv
    <3>2. FirstKept # None /\ kept' = Append(<<FirstKept>>, Validate(given.type, FirstKept))
      BY <2>2, <3>1 DEF ReadAgain
    <3>3. ASSUME NEW x, NEW y PROVE Append(<<x>>, y) = <<x, y>>
      <4>1. <<x>> \in Seq({x, y}) /\ <<x, y>> \in Seq({x, y}) OBVIOUS
      <4>2. Len(Append(<<x>>, y)) = 2 /\ Append(<<x>>, y)[1] = x /\ Append(<<x>>, y)[2] = y
            /\ Append(<<x>>, y) \in Seq({x, y})
        BY <4>1, AppendProperties
      <4>3. \A i \in 1..2 : Append(<<x>>, y)[i] = <<x, y>>[i] BY <4>2
      <4> QED BY <4>1, <4>2, <4>3, SeqEqual
    <3> QED BY <2>2, <3>2, <3>3 DEF ReadAgain, ValueIInv, FirstKept
  <2>3. CASE UNCHANGED valueVars BY <2>3 DEF valueVars, ValueIInv, FirstKept
  <2> QED BY <2>1, <2>2, <2>3 DEF ValueNext
<1> QED BY <1>1, <1>2, PTL DEF ValueSpec

\* A value that a type kept is kept as it is when it is read again, or refused by one of
\* the three types that convert after their list.
THEOREM KeptStays == ValueSpec => []KeptIsKept
<1>1. ValueIInv => KeptIsKept
  <2> SUFFICES ASSUME ValueIInv, Len(kept) = 2
               PROVE  \/ kept[2] = kept[1]
                      \/ given.type \in ConvertedAfter /\ kept[2] = None /\ kept[1] # given.value
    BY DEF KeptIsKept
  <2>1. FirstKept # None /\ kept = <<FirstKept, Validate(given.type, FirstKept)>> BY DEF ValueIInv
  <2>2. given \in Values BY DEF ValueIInv
  <2>3. \/ Validate(given.type, FirstKept) = FirstKept
        \/ given.type \in ConvertedAfter /\ Validate(given.type, FirstKept) = None /\ FirstKept # given.value
    BY <2>1, <2>2, SecondReading DEF FirstKept
  <2> QED BY <2>1, <2>3
<1> QED BY <1>1, ValueInvariance, PTL
=============================================================================
