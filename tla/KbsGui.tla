------------------------------- MODULE KbsGui -------------------------------
(***************************************************************************)
(* The graphical interface (kbs-gui.tcl) over the engine of kbs.tcl.       *)
(*                                                                         *)
(* There is one thread.  A button calls ::kbs::gui::_command, which stays  *)
(* on the stack until the command has ended; Run and Source call _state,   *)
(* whose update handles what the user has done in the meantime, in the     *)
(* middle of a script.  So the user and the engine take turns at every     *)
(* update, and what is shared between them is the array _ of the engine.   *)
(*                                                                         *)
(* Of the engine there are the loop of _init, the sections of a package in *)
(* their order, the makedirs, and what scripts read with Get: _(builddir)  *)
(* and the cached TCL_ values.  KbsBuild has the rest of it.  Left out are *)
(* the options -kit and -bi, and Tk's console (see the README).            *)
(***************************************************************************)
EXTENDS Naturals, SequencesExt

CONSTANTS
  Pkg,       \* the packages of the list box
  Selections,  \* what may be selected in it: packages in the order of the list
  Dirs,      \* the directories that may be chosen for builddir
  Home,      \* the builddir a process starts with
  None,      \* no value
  Script     \* the script of each section of a package, as its operations

Section == {"Source", "Configure", "Make", "Install"}

\* Run of a program; Get of a TCL_ value; and the Run of tcl's make install, which
\* writes lib/tclConfig.sh under the prefix that its makedir was configured with, the
\* builddir of that makedir.  Source calls _state and may fail, as Run does.
Op == {"run", "tcl", "config"}

\* What tclConfig.sh says depends on where, and of which package, it was installed.
Value == Dirs \X Pkg

ASSUME GuiAssumption ==
  /\ Home \in Dirs
  /\ Selections \subseteq Seq(Pkg)
  /\ Script \in [Pkg -> [Section -> Seq(Op)]]
  /\ None \notin Value

Commands == {"sources", "configure", "make", "install"}

\* The sections a command evaluates, in their order.
Used(c) ==
  CASE c = "sources"   -> <<"Source">>
    [] c = "configure" -> <<"Source", "Configure">>
    [] c = "make"      -> <<"Source", "Configure", "Make">>
    [] c = "install"   -> <<"Source", "Configure", "Make", "Install">>

Option == [builddir : Dirs, ignore : BOOLEAN]

(***************************************************************************)
(* A call of _command: "begin" and "end" are the updates of its two calls  *)
(* of _state, "update" that of Run, "box" its last message box; in "loop", *)
(* "sections" and "script" the engine runs.  began is history: the options *)
(* at the start.                                                           *)
(***************************************************************************)
Call ==
  [at : {"begin", "loop", "sections", "script", "update", "box", "end"},
   cmd : Commands, todo : Seq(Pkg), package : Pkg \union {None},
   makedir : Dirs, sections : Seq(Section), script : Seq(Op),
   began : Option]

VARIABLES
  builddir, ignore,   \* _(builddir) and ignore of ::kbs::build
  tcl,        \* the cached TCL_ values of _
  makedirs,   \* the makedirs in each builddir
  config,     \* lib/tclConfig.sh of each builddir
  configured, \* history: the TCL_ values that makedirs have been configured with
  disabled,   \* the state of the widgets in _(widgets)
  dialog,     \* the dialog that holds the grab
  calls       \* the calls of _command, outermost first

options == <<builddir, ignore>>
files   == <<makedirs, config, configured>>
vars    == <<options, tcl, files, disabled, dialog, calls>>

TypeOK ==
  /\ builddir \in Dirs /\ ignore \in BOOLEAN
  /\ tcl \in Value \union {None}
  /\ makedirs \in [Dirs -> SUBSET Pkg]
  /\ config \in [Dirs -> Value \union {None}]
  /\ configured \in [Dirs -> SUBSET Value]
  /\ disabled \in BOOLEAN
  /\ dialog \in {"none", "message", "builddir"}
  /\ calls \in Seq(Call)
  /\ dialog = "builddir" => calls = <<>>

Init ==
  /\ builddir = Home /\ ignore = FALSE
  /\ tcl = None
  /\ makedirs = [d \in Dirs |-> {}]
  /\ config = [d \in Dirs |-> None]
  /\ configured = [d \in Dirs |-> {}]
  /\ disabled = FALSE /\ dialog = "none" /\ calls = <<>>

me == Last(calls)
Becomes(call) == calls' = [calls EXCEPT ![Len(calls)] = call]

\* The event loop runs, and no dialog keeps events from the main window.
Listening ==
  /\ dialog = "none"
  /\ calls # <<>> => me.at \in {"begin", "update", "end"}

-----------------------------------------------------------------------------
(***************************************************************************)
(* What the user does.                                                     *)
(***************************************************************************)
ToggleIgnore ==
  /\ Listening /\ ~disabled
  /\ ignore' = ~ignore
  /\ UNCHANGED <<builddir, tcl, files, disabled, dialog, calls>>

\* Variant: the button of builddir is not in _(widgets).
PressBuilddirAlways ==
  /\ Listening
  /\ dialog' = "builddir"
  /\ UNCHANGED <<options, tcl, files, disabled, calls>>

\* _set_builddir shows a dialog,
PressBuilddir ==
  /\ Listening /\ ~disabled
  /\ dialog' = "builddir"
  /\ UNCHANGED <<options, tcl, files, disabled, calls>>

\* and takes its answer, unless it is cancelled or bin cannot be created.
ChooseBuilddir(d) ==
  /\ dialog = "builddir"
  /\ dialog' = "none"
  /\ builddir' \in {builddir, d}
  /\ UNCHANGED <<ignore, tcl, files, disabled, calls>>

\* _command with the packages selected at this moment, of which there may be none.
PressCommand(c, targets) ==
  /\ Listening /\ ~disabled
  /\ IF targets = <<>>
       THEN dialog' = "message" /\ UNCHANGED <<disabled, calls>>
       ELSE /\ disabled' = TRUE
            /\ calls' = Append(calls,
                 [at |-> "begin", cmd |-> c, todo |-> targets, package |-> None,
                  makedir |-> builddir, sections |-> <<>>, script |-> <<>>,
                  began |-> [builddir |-> builddir, ignore |-> ignore]])
            /\ UNCHANGED dialog
  /\ UNCHANGED <<options, tcl, files>>

\* Variant: _command enables its widgets before its last _state.
AnswerEnables ==
  /\ dialog = "message"
  /\ dialog' = "none" /\ disabled' = FALSE
  /\ IF calls # <<>> /\ me.at = "box" THEN Becomes([me EXCEPT !.at = "end"])
                                      ELSE UNCHANGED calls
  /\ UNCHANGED <<options, tcl, files>>

\* OK in a message box; behind the one of _command comes its last _state.
Answer ==
  /\ dialog = "message"
  /\ dialog' = "none"
  /\ IF calls # <<>> /\ me.at = "box" THEN Becomes([me EXCEPT !.at = "end"])
                                      ELSE UNCHANGED calls
  /\ UNCHANGED <<options, tcl, files, disabled>>

\* The window is closed, which no grab and no disabled widget prevents: exit, in
\* the middle of a command too.  Another process starts.
Close ==
  /\ Listening \/ dialog # "none"
  /\ builddir' = Home /\ ignore' = FALSE /\ tcl' = None
  /\ disabled' = FALSE /\ dialog' = "none" /\ calls' = <<>>
  /\ UNCHANGED files

-----------------------------------------------------------------------------
(***************************************************************************)
(* What the program does.                                                  *)
(***************************************************************************)
At(place) == calls # <<>> /\ me.at = place /\ dialog = "none"

\* _command shows how the command has ended.
Box == Becomes([me EXCEPT !.at = "box"]) /\ dialog' = "message"

\* Variant: _command does not catch the errors of the command.
RaiseUncaught ==
  IF ignore THEN Becomes([me EXCEPT !.at = "loop"]) /\ UNCHANGED dialog
            ELSE calls' = Front(calls) /\ UNCHANGED dialog

\* An error in a script: _init goes on to the next target or raises.
Raise ==
  IF ignore THEN Becomes([me EXCEPT !.at = "loop"]) /\ UNCHANGED dialog
            ELSE Box

\* Variant: _init keeps the values that Get has cached.
BeginKeepsValues ==
  /\ At("begin")
  /\ Becomes([me EXCEPT !.at = "loop"])
  /\ UNCHANGED <<options, tcl, files, disabled, dialog>>

\* _init begins with a clean state.
Begin ==
  /\ At("begin")
  /\ tcl' = None
  /\ Becomes([me EXCEPT !.at = "loop"])
  /\ UNCHANGED <<options, files, disabled, dialog>>

\* _init: the next target, or the end.
NextTarget ==
  /\ At("loop")
  /\ IF me.todo = <<>>
       THEN Box
       ELSE /\ Becomes([me EXCEPT !.at = "sections", !.package = Head(me.todo),
                                  !.todo = Tail(@), !.makedir = builddir,
                                  !.sections = Used(me.cmd)])
            /\ UNCHANGED dialog
  /\ UNCHANGED <<options, tcl, files, disabled>>

PackageDone ==
  /\ At("sections") /\ me.sections = <<>>
  /\ Becomes([me EXCEPT !.at = "loop"])
  /\ UNCHANGED <<options, tcl, files, disabled, dialog>>

HasMakedir == me.package \in makedirs[me.makedir]

\* Configure trusts a makedir that exists; Make and Install need one.
EnterSection ==
  /\ At("sections") /\ me.sections # <<>>
  /\ LET s == Head(me.sections)
         entered == [me EXCEPT !.sections = Tail(@), !.at = "script",
                               !.script = Script[me.package][s]]
     IN  CASE s = "Configure" /\ HasMakedir ->
                Becomes([me EXCEPT !.sections = Tail(@)]) /\ UNCHANGED <<makedirs, dialog>>
           [] s = "Configure" /\ ~HasMakedir ->
                /\ Becomes(entered)
                /\ makedirs' = [makedirs EXCEPT ![me.makedir] = @ \union {me.package}]
                /\ UNCHANGED dialog
           [] s \in {"Make", "Install"} /\ ~HasMakedir -> Raise /\ UNCHANGED makedirs
           [] OTHER -> Becomes(entered) /\ UNCHANGED <<makedirs, dialog>>
  /\ UNCHANGED <<options, tcl, config, configured, disabled>>

ScriptDone ==
  /\ At("script") /\ me.script = <<>>
  /\ Becomes([me EXCEPT !.at = "sections"])
  /\ UNCHANGED <<options, tcl, files, disabled, dialog>>

Operation(op) == At("script") /\ me.script # <<>> /\ Head(me.script) = op
Behind == [me EXCEPT !.script = Tail(@)]

\* Get TCL_...: the file is read when nothing is cached, and has to exist then.
GetTcl ==
  /\ Operation("tcl")
  /\ LET value == IF tcl = None THEN config[builddir] ELSE tcl IN
       IF value = None
         THEN Raise /\ UNCHANGED <<tcl, configured>>
         ELSE /\ tcl' = value
              /\ configured' = [configured EXCEPT ![me.makedir] = @ \union {value}]
              /\ Becomes(Behind) /\ UNCHANGED dialog
  /\ UNCHANGED <<options, makedirs, config, disabled>>

\* Run calls _state before it executes its program,
RunBegin ==
  /\ Operation("run") \/ Operation("config")
  /\ Becomes([me EXCEPT !.at = "update"])
  /\ UNCHANGED <<options, tcl, files, disabled, dialog>>

\* which ends well
RunOk ==
  /\ At("update")
  /\ config' = IF Head(me.script) = "config"
                 THEN [config EXCEPT ![me.makedir] = <<me.makedir, me.package>>] ELSE config
  /\ Becomes([Behind EXCEPT !.at = "script"])
  /\ UNCHANGED <<options, tcl, makedirs, configured, disabled, dialog>>

\* or with an error.
RunFails ==
  /\ At("update")
  /\ Raise
  /\ UNCHANGED <<options, tcl, files, disabled>>

\* _command enables its widgets and returns.
CommandDone ==
  /\ At("end")
  /\ disabled' = FALSE
  /\ calls' = Front(calls)
  /\ UNCHANGED <<options, tcl, files, dialog>>

-----------------------------------------------------------------------------
User ==
  \/ ToggleIgnore \/ PressBuilddir
  \/ \E d \in Dirs : ChooseBuilddir(d)
  \/ \E c \in Commands, targets \in Selections : PressCommand(c, targets)
  \/ Answer \/ Close

Step ==
  \/ Begin \/ NextTarget \/ PackageDone \/ EnterSection \/ ScriptDone
  \/ GetTcl \/ RunBegin \/ RunOk \/ RunFails \/ CommandDone

Next == User \/ Step

Spec == Init /\ [][Next]_vars

\* One thread that goes on as long as it is not in a dialog; the programs it
\* executes end.  Nothing is assumed of the user.
FairSpec == Spec /\ WF_vars(Step)

-----------------------------------------------------------------------------
(***************************************************************************)
(* Properties.                                                             *)
(***************************************************************************)
\* Commands of the interface run one at a time, each with the -builddir and the
\* -ignore it was started with until it ends, although every Run and every _state
\* (kbs-gui.tcl:272) lets the user in.
Session == INSTANCE CommandSession WITH
  Options <- Option,
  options <- [builddir |-> builddir, ignore |-> ignore],
  running <- [i \in 1..Len(calls) |-> calls[i].began]
CommandsOneByOne == Session!Spec

\* No makedir is configured with the TCL_ values of a tcl that was installed in
\* another builddir: neither those cached by an earlier command (kbs.tcl:1252), nor
\* by a change of builddir (kbs-gui.tcl:204) between a package's makedir and its Get.
ConfiguredHere == \A d \in Dirs : \A value \in configured[d] : value[1] = d

\* If every dialog is answered some time, the widgets always come back, whatever
\* the scripts do and however often the user gets in between.
WidgetsReturn == []<>(dialog = "none") => [](disabled => <>~disabled)
=============================================================================
