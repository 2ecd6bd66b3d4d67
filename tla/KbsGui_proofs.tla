--------------------------- MODULE KbsGui_proofs ---------------------------
(***************************************************************************)
(* The interface keeps its commands apart and configures no makedir with   *)
(* what belongs to another builddir, for every set of packages and of      *)
(* directories, every script, and whatever the user does at an update.     *)
(*                                                                         *)
(* The invariant: a call is on the stack only while the widgets are        *)
(* disabled, so that there is one, whose options and builddir are still    *)
(* those it was started with.                                              *)
(***************************************************************************)
EXTENDS KbsGui, StackLemmas

\* What holds of the call c that runs with a builddir, an ignore and a cached value.
Fits(c, dir, flag, value) ==
  /\ c.began = [builddir |-> dir, ignore |-> flag]
  /\ c.makedir = dir
  /\ c.at \in {"sections", "script", "update"} => c.package \in Pkg
  /\ c.at = "update" => c.script # <<>>
  /\ c.at # "begin" /\ value # None => value[1] = dir

Sound(c) == Fits(c, builddir, ignore, tcl)
SoundBehind(c) == Fits(c, builddir', ignore', tcl')

\* A tclConfig.sh tells of the builddir that it is in.
InstalledHere == \A d \in Dirs : config[d] # None => config[d][1] = d

IInv ==
  /\ TypeOK
  /\ calls # <<>> => Len(calls) = 1 /\ disabled /\ Sound(me)
  /\ InstalledHere
  /\ ConfiguredHere

\* The part of the invariant that is not about the calls.
Around ==
  /\ builddir \in Dirs /\ ignore \in BOOLEAN
  /\ tcl \in Value \union {None}
  /\ makedirs \in [Dirs -> SUBSET Pkg]
  /\ config \in [Dirs -> Value \union {None}]
  /\ configured \in [Dirs -> SUBSET Value]
  /\ disabled \in BOOLEAN
  /\ dialog \in {"none", "message", "builddir"}
  /\ InstalledHere /\ ConfiguredHere

LEMMA Split == IInv => Around
  BY DEF IInv, TypeOK, Around

-----------------------------------------------------------------------------
\* The stack of calls is empty or holds the one that runs.
LEMMA OneCall ==
  ASSUME IInv, calls # <<>>
  PROVE  /\ Len(calls) = 1 /\ me = calls[1] /\ me \in Call
         /\ disabled /\ Sound(me) /\ dialog # "builddir"
         /\ Front(calls) = <<>>
<1>1. calls \in Seq(Call) /\ Len(calls) = 1
  BY DEF IInv, TypeOK
<1>2. me = calls[1]
  BY <1>1 DEF me, Last
<1>3. Front(calls) = <<>>
  BY <1>1, DropLast
<1> QED
  BY <1>1, <1>2, <1>3 DEF IInv, TypeOK

\* A call that goes on to c keeps the invariant where c is sound.
LEMMA GoesOn ==
  ASSUME IInv, calls # <<>>, NEW c \in Call, Becomes(c),
         Around', disabled' = disabled, dialog' # "builddir", SoundBehind(c)
  PROVE  IInv'
<1>1. /\ calls \in Seq(Call) /\ Len(calls) = 1 /\ disabled
  BY OneCall DEF IInv, TypeOK
<1>2. /\ calls' \in Seq(Call) /\ Len(calls') = 1 /\ calls'[1] = c /\ calls' # <<>>
  BY <1>1, ReplaceLast DEF Becomes
<1>3. me' = c
  BY <1>2 DEF me, Last
<1> QED
  BY <1>1, <1>2, <1>3 DEF IInv, TypeOK, Around, Sound, SoundBehind

\* A step behind which no command runs.
LEMMA Idle ==
  ASSUME Around', calls' = <<>>
  PROVE  IInv'
  BY DEF IInv, TypeOK, Around

\* Without a command the widgets are enabled, and only then.
LEMMA Enabled ==
  ASSUME IInv, ~disabled \/ dialog = "builddir"
  PROVE  calls = <<>>
  BY DEF IInv, TypeOK

-----------------------------------------------------------------------------
LEMMA InitInv == Init => IInv
<1> SUFFICES ASSUME Init PROVE IInv
  OBVIOUS
<1>1. calls \in Seq(Call) /\ calls = <<>> /\ dialog = "none"
  BY DEF Init
<1>2. config \in [Dirs -> Value \union {None}] /\ \A d \in Dirs : config[d] = None
  BY DEF Init
<1>3. configured \in [Dirs -> SUBSET Value] /\ \A d \in Dirs : configured[d] = {}
  BY DEF Init
<1>4. InstalledHere /\ ConfiguredHere
  BY <1>2, <1>3 DEF InstalledHere, ConfiguredHere
<1>5. TypeOK
  BY <1>1, <1>2, <1>3, GuiAssumption DEF Init, TypeOK
<1> QED
  BY <1>1, <1>4, <1>5 DEF IInv

-----------------------------------------------------------------------------
(***************************************************************************)
(* What the user does.                                                     *)
(***************************************************************************)
LEMMA ToggleIgnoreInv == IInv /\ ToggleIgnore => IInv'
<1> SUFFICES ASSUME IInv, ToggleIgnore PROVE IInv'
  OBVIOUS
<1>1. calls' = <<>>
  BY Enabled DEF ToggleIgnore
<1>2. Around'
  BY Split DEF Around, ToggleIgnore, files, InstalledHere, ConfiguredHere
<1> QED
  BY <1>1, <1>2, Idle

LEMMA PressBuilddirInv == IInv /\ PressBuilddir => IInv'
<1> SUFFICES ASSUME IInv, PressBuilddir PROVE IInv'
  OBVIOUS
<1>1. calls' = <<>>
  BY Enabled DEF PressBuilddir
<1>2. Around'
  BY Split DEF Around, PressBuilddir, options, files, InstalledHere, ConfiguredHere
<1> QED
  BY <1>1, <1>2, Idle

LEMMA ChooseBuilddirInv ==
  ASSUME NEW d \in Dirs, IInv, ChooseBuilddir(d) PROVE IInv'
<1>1. calls' = <<>>
  BY Enabled DEF ChooseBuilddir
<1>2. Around'
  BY Split DEF Around, ChooseBuilddir, files, InstalledHere, ConfiguredHere
<1> QED
  BY <1>1, <1>2, Idle

\* The call that a button starts.
LEMMA PressCommandInv ==
  ASSUME NEW c \in Commands, NEW targets \in Selections, IInv, PressCommand(c, targets)
  PROVE  IInv'
<1>1. calls = <<>>
  BY Enabled DEF PressCommand
<1>2. Around'
  BY Split DEF Around, PressCommand, Listening, options, files, InstalledHere, ConfiguredHere
<1>3. CASE targets = <<>>
  BY <1>1, <1>2, <1>3, Idle DEF PressCommand
<1>4. CASE targets # <<>>
  <2> DEFINE call == [at |-> "begin", cmd |-> c, todo |-> targets, package |-> None,
                      makedir |-> builddir, sections |-> <<>>, script |-> <<>>,
                      began |-> [builddir |-> builddir, ignore |-> ignore]]
  <2>1. targets \in Seq(Pkg)
    BY GuiAssumption
  <2>2. builddir \in Dirs /\ ignore \in BOOLEAN
    BY Split DEF Around
  <2>3. call \in Call
    BY <2>1, <2>2 DEF Call, Option
  <2>4. disabled' /\ dialog' = "none" /\ calls' = Append(calls, call)
        /\ UNCHANGED <<builddir, ignore, tcl>>
    BY <1>4 DEF PressCommand, Listening, options
  <2>5. SoundBehind(call)
    BY <2>4 DEF SoundBehind, Fits
  <2> HIDE DEF call
  <2>6. calls' \in Seq(Call) /\ Len(calls') = 1 /\ calls'[1] = call
    BY <1>1, <2>3, <2>4
  <2>7. me' = call
    BY <2>6 DEF me, Last
  <2> QED
    BY <1>2, <2>4, <2>5, <2>6, <2>7 DEF IInv, TypeOK, Around, Sound, SoundBehind
<1> QED
  BY <1>3, <1>4

LEMMA AnswerInv == IInv /\ Answer => IInv'
<1> SUFFICES ASSUME IInv, Answer PROVE IInv'
  OBVIOUS
<1>1. Around'
  BY Split DEF Around, Answer, options, files, InstalledHere, ConfiguredHere
<1>2. UNCHANGED <<builddir, ignore, tcl, disabled>> /\ dialog' = "none"
  BY DEF Answer, options
<1>3. CASE calls # <<>> /\ me.at = "box"
  <2> DEFINE c == [me EXCEPT !.at = "end"]
  <2>1. c \in Call /\ SoundBehind(c)
    BY <1>2, <1>3, OneCall DEF Call, Sound, SoundBehind, Fits
  <2>2. Becomes(c)
    BY <1>3 DEF Answer
  <2> QED
    BY <1>1, <1>2, <1>3, <2>1, <2>2, GoesOn
<1>4. CASE ~(calls # <<>> /\ me.at = "box")
  <2>1. calls' = calls
    BY <1>4 DEF Answer
  <2>2. me' = me
    BY <2>1 DEF me
  <2> QED
    BY <1>1, <1>2, <2>1, <2>2 DEF IInv, TypeOK, Around, Sound
<1> QED
  BY <1>3, <1>4

LEMMA CloseInv == IInv /\ Close => IInv'
<1> SUFFICES ASSUME IInv, Close PROVE IInv'
  OBVIOUS
<1>1. Around'
  BY Split, GuiAssumption DEF Around, Close, files, InstalledHere, ConfiguredHere
<1> QED
  BY <1>1, Idle DEF Close

-----------------------------------------------------------------------------
(***************************************************************************)
(* What the program does.                                                  *)
(***************************************************************************)
\* How a command ends, and how a script fails.
LEMMA BoxInv ==
  ASSUME IInv, calls # <<>>, me.at # "begin", Box, Around',
         UNCHANGED <<builddir, ignore, tcl, disabled>>
  PROVE  IInv'
<1> DEFINE c == [me EXCEPT !.at = "box"]
<1>1. c \in Call /\ SoundBehind(c)
  BY OneCall DEF Call, Sound, SoundBehind, Fits
<1>2. Becomes(c) /\ dialog' = "message"
  BY DEF Box
<1> HIDE DEF c
<1> QED
  BY <1>1, <1>2, GoesOn

LEMMA RaiseInv ==
  ASSUME IInv, calls # <<>>, me.at # "begin", Raise, Around',
         UNCHANGED <<builddir, ignore, tcl, disabled>>
  PROVE  IInv'
<1>1. CASE ignore
  <2> DEFINE c == [me EXCEPT !.at = "loop"]
  <2>1. c \in Call /\ SoundBehind(c)
    BY OneCall DEF Call, Sound, SoundBehind, Fits
  <2>2. Becomes(c) /\ dialog' = dialog
    BY <1>1 DEF Raise
  <2> HIDE DEF c
  <2> QED
    BY <2>1, <2>2, OneCall, GoesOn
<1>2. CASE ~ignore
  BY <1>2, BoxInv DEF Raise
<1> QED
  BY <1>1, <1>2

LEMMA BeginInv == IInv /\ Begin => IInv'
<1> SUFFICES ASSUME IInv, Begin PROVE IInv'
  OBVIOUS
<1> DEFINE c == [me EXCEPT !.at = "loop"]
<1>1. Around'
  BY Split DEF Around, Begin, options, files, InstalledHere, ConfiguredHere
<1>2. calls # <<>> /\ Becomes(c) /\ UNCHANGED <<builddir, ignore, disabled, dialog>> /\ tcl' = None
  BY DEF Begin, At, options
<1>3. c \in Call /\ SoundBehind(c)
  BY <1>2, OneCall DEF Call, Sound, SoundBehind, Fits
<1> HIDE DEF c
<1> QED
  BY <1>1, <1>2, <1>3, OneCall, GoesOn

LEMMA NextTargetInv == IInv /\ NextTarget => IInv'
<1> SUFFICES ASSUME IInv, NextTarget PROVE IInv'
  OBVIOUS
<1>1. /\ calls # <<>> /\ me.at = "loop" /\ dialog = "none"
      /\ UNCHANGED <<builddir, ignore, tcl, disabled>> /\ dialog' \in {"none", "message"}
  BY DEF NextTarget, At, options, Box
<1>2. Around'
  BY <1>1, Split DEF Around, NextTarget, files, InstalledHere, ConfiguredHere
<1>3. CASE me.todo = <<>>
  BY <1>1, <1>2, <1>3, BoxInv DEF NextTarget
<1>4. CASE me.todo # <<>>
  <2> DEFINE c == [me EXCEPT !.at = "sections", !.package = Head(me.todo),
                             !.todo = Tail(@), !.makedir = builddir,
                             !.sections = Used(me.cmd)]
  <2>1. me \in Call /\ Sound(me)
    BY <1>1, OneCall
  <2>2. Head(me.todo) \in Pkg /\ Tail(me.todo) \in Seq(Pkg)
    BY <1>4, <2>1 DEF Call
  <2>3. Used(me.cmd) \in Seq(Section)
    <3>1. me.cmd \in Commands
      BY <2>1 DEF Call
    <3>2. ASSUME NEW x \in Section, NEW y \in Section, NEW z \in Section, NEW u \in Section
          PROVE  /\ <<x>> \in Seq(Section) /\ <<x, y>> \in Seq(Section)
                 /\ <<x, y, z>> \in Seq(Section) /\ <<x, y, z, u>> \in Seq(Section)
      OBVIOUS
    <3>3. "Source" \in Section /\ "Configure" \in Section /\ "Make" \in Section
          /\ "Install" \in Section
      BY DEF Section
    <3>4. Used(me.cmd) \in {<<"Source">>, <<"Source", "Configure">>,
             <<"Source", "Configure", "Make">>, <<"Source", "Configure", "Make", "Install">>}
      BY <3>1 DEF Commands, Used
    <3> QED
      BY <3>2, <3>3, <3>4
  <2>4. c \in Call
    <3>1. builddir \in Dirs
      BY Split DEF Around
    <3> QED
      BY <2>1, <2>2, <2>3, <3>1 DEF Call
  <2>5. SoundBehind(c)
    BY <1>1, <2>1, <2>2 DEF Call, Sound, SoundBehind, Fits
  <2>6. Becomes(c) /\ dialog' = dialog
    BY <1>4 DEF NextTarget
  <2> HIDE DEF c
  <2> QED
    BY <1>1, <1>2, <2>4, <2>5, <2>6, OneCall, GoesOn
<1> QED
  BY <1>3, <1>4

LEMMA PackageDoneInv == IInv /\ PackageDone => IInv'
<1> SUFFICES ASSUME IInv, PackageDone PROVE IInv'
  OBVIOUS
<1> DEFINE c == [me EXCEPT !.at = "loop"]
<1>1. Around'
  BY Split DEF Around, PackageDone, options, files, InstalledHere, ConfiguredHere
<1>2. calls # <<>> /\ me.at = "sections" /\ Becomes(c)
      /\ UNCHANGED <<builddir, ignore, tcl, disabled, dialog>>
  BY DEF PackageDone, At, options
<1>3. c \in Call /\ SoundBehind(c)
  BY <1>2, OneCall DEF Call, Sound, SoundBehind, Fits
<1> HIDE DEF c
<1> QED
  BY <1>1, <1>2, <1>3, OneCall, GoesOn

\* The three ways of a section: passed by, entered, or an error.
LEMMA EnterSectionInv == IInv /\ EnterSection => IInv'
<1> SUFFICES ASSUME IInv, EnterSection PROVE IInv'
  OBVIOUS
<1> DEFINE s       == Head(me.sections)
           rest    == Tail(me.sections)
           passed  == [me EXCEPT !.sections = Tail(@)]
           entered == [me EXCEPT !.sections = Tail(@), !.at = "script",
                                 !.script = Script[me.package][s]]
<1>1. /\ calls # <<>> /\ me.at = "sections" /\ me.sections # <<>> /\ dialog = "none"
      /\ UNCHANGED <<builddir, ignore, tcl, config, configured, disabled>>
  BY DEF EnterSection, At, options
<1>2. me \in Call /\ Sound(me) /\ me.package \in Pkg /\ me.makedir \in Dirs
  BY <1>1, OneCall DEF Call, Sound, Fits
<1>3. s \in Section /\ rest \in Seq(Section)
  BY <1>1, <1>2 DEF Call
<1>4. Script[me.package][s] \in Seq(Op)
  BY <1>2, <1>3, GuiAssumption
<1>5. passed \in Call /\ SoundBehind(passed)
  BY <1>1, <1>2, <1>3 DEF Call, Sound, SoundBehind, Fits
<1>6. entered \in Call
  BY <1>2, <1>3, <1>4 DEF Call
<1>7. SoundBehind(entered)
  BY <1>1, <1>2 DEF Call, Sound, SoundBehind, Fits
<1>8. ASSUME makedirs' \in [Dirs -> SUBSET Pkg], dialog' \in {"none", "message"}
      PROVE  Around'
  BY <1>1, <1>8, Split DEF Around, InstalledHere, ConfiguredHere
<1>9. makedirs \in [Dirs -> SUBSET Pkg]
  BY Split DEF Around
<1>10. CASE s = "Configure" /\ HasMakedir
  <2>1. Becomes(passed) /\ UNCHANGED <<makedirs, dialog>>
    BY <1>10 DEF EnterSection
  <2> HIDE DEF passed
  <2> QED
    BY <1>1, <1>5, <1>8, <1>9, <2>1, GoesOn
<1>11. CASE s = "Configure" /\ ~HasMakedir
  <2>1. /\ Becomes(entered) /\ dialog' = dialog
        /\ makedirs' = [makedirs EXCEPT ![me.makedir] = @ \union {me.package}]
    BY <1>11 DEF EnterSection
  <2>2. makedirs' \in [Dirs -> SUBSET Pkg]
    BY <1>2, <1>9, <2>1
  <2> HIDE DEF entered
  <2> QED
    BY <1>1, <1>6, <1>7, <1>8, <2>1, <2>2, GoesOn
<1>12. CASE s \in {"Make", "Install"} /\ ~HasMakedir
  <2>1. Raise /\ UNCHANGED makedirs
    BY <1>12 DEF EnterSection
  <2>2. dialog' \in {"none", "message"}
    BY <1>1, <2>1 DEF Raise, Box
  <2> QED
    BY <1>1, <1>8, <1>9, <2>1, <2>2, RaiseInv
<1>13. CASE s = "Source" \/ (s \in {"Make", "Install"} /\ HasMakedir)
  <2>1. Becomes(entered) /\ UNCHANGED <<makedirs, dialog>>
    BY <1>13 DEF EnterSection
  <2> HIDE DEF entered
  <2> QED
    BY <1>1, <1>6, <1>7, <1>8, <1>9, <2>1, GoesOn
<1> QED
  BY <1>3, <1>10, <1>11, <1>12, <1>13 DEF Section

LEMMA ScriptDoneInv == IInv /\ ScriptDone => IInv'
<1> SUFFICES ASSUME IInv, ScriptDone PROVE IInv'
  OBVIOUS
<1> DEFINE c == [me EXCEPT !.at = "sections"]
<1>1. Around'
  BY Split DEF Around, ScriptDone, options, files, InstalledHere, ConfiguredHere
<1>2. calls # <<>> /\ me.at = "script" /\ Becomes(c)
      /\ UNCHANGED <<builddir, ignore, tcl, disabled, dialog>>
  BY DEF ScriptDone, At, options
<1>3. c \in Call /\ SoundBehind(c)
  BY <1>2, OneCall DEF Call, Sound, SoundBehind, Fits
<1> HIDE DEF c
<1> QED
  BY <1>1, <1>2, <1>3, OneCall, GoesOn

\* Get: the cached value and the one in the file are both of this builddir.
LEMMA GetTclInv == IInv /\ GetTcl => IInv'
<1> SUFFICES ASSUME IInv, GetTcl PROVE IInv'
  OBVIOUS
<1> DEFINE value == IF tcl = None THEN config[builddir] ELSE tcl
           c     == [me EXCEPT !.script = Tail(@)]
<1>1. /\ calls # <<>> /\ me.at = "script" /\ me.script # <<>> /\ dialog = "none"
      /\ UNCHANGED <<builddir, ignore, makedirs, config, disabled>>
  BY DEF GetTcl, Operation, At, options
<1>2. me \in Call /\ Sound(me) /\ Around
  BY <1>1, OneCall, Split
<1>3. CASE value = None
  <2>1. Raise /\ UNCHANGED <<tcl, configured>>
    BY <1>3 DEF GetTcl
  <2>2. dialog' \in {"none", "message"}
    BY <1>1, <2>1 DEF Raise, Box
  <2>3. Around'
    BY <1>1, <1>2, <2>1, <2>2 DEF Around, InstalledHere, ConfiguredHere
  <2> QED
    BY <1>1, <2>1, <2>3, RaiseInv
<1>4. CASE value # None
  <2>1. value \in Value /\ value[1] = builddir
    BY <1>1, <1>2, <1>4 DEF Around, InstalledHere, Sound, Fits
  <2>2. /\ tcl' = value /\ Becomes(c) /\ dialog' = dialog
        /\ configured' = [configured EXCEPT ![me.makedir] = @ \union {value}]
    BY <1>4 DEF GetTcl, Behind
  <2>3. Tail(me.script) \in Seq(Op)
    BY <1>1, <1>2 DEF Call
  <2>4. c \in Call
    BY <1>2, <2>3 DEF Call
  <2> HIDE DEF value
  <2>5. SoundBehind(c)
    BY <1>1, <1>2, <2>1, <2>2 DEF Call, Sound, SoundBehind, Fits
  <2>6. me.makedir = builddir /\ builddir \in Dirs
    BY <1>2 DEF Sound, Fits, Around
  <2>7. configured' \in [Dirs -> SUBSET Value] /\ ConfiguredHere'
    BY <1>2, <2>1, <2>2, <2>6 DEF Around, ConfiguredHere
  <2>8. Around'
    BY <1>1, <1>2, <2>1, <2>2, <2>7 DEF Around, InstalledHere
  <2> HIDE DEF c
  <2> QED
    BY <1>1, <2>2, <2>4, <2>5, <2>8, GoesOn
<1> QED
  BY <1>3, <1>4

LEMMA RunBeginInv == IInv /\ RunBegin => IInv'
<1> SUFFICES ASSUME IInv, RunBegin PROVE IInv'
  OBVIOUS
<1> DEFINE c == [me EXCEPT !.at = "update"]
<1>1. Around'
  BY Split DEF Around, RunBegin, options, files, InstalledHere, ConfiguredHere
<1>2. calls # <<>> /\ me.at = "script" /\ me.script # <<>> /\ Becomes(c)
      /\ UNCHANGED <<builddir, ignore, tcl, disabled, dialog>>
  BY DEF RunBegin, Operation, At, options
<1>3. c \in Call /\ SoundBehind(c)
  BY <1>2, OneCall DEF Call, Sound, SoundBehind, Fits
<1> HIDE DEF c
<1> QED
  BY <1>1, <1>2, <1>3, OneCall, GoesOn

\* make install of tcl writes into the builddir of the makedir.
LEMMA RunOkInv == IInv /\ RunOk => IInv'
<1> SUFFICES ASSUME IInv, RunOk PROVE IInv'
  OBVIOUS
<1> DEFINE c == [[me EXCEPT !.script = Tail(@)] EXCEPT !.at = "script"]
<1>1. calls # <<>> /\ me.at = "update" /\ dialog = "none" /\ Becomes(c)
      /\ UNCHANGED <<builddir, ignore, tcl, makedirs, configured, disabled, dialog>>
  BY DEF RunOk, At, options, Behind
<1>2. /\ me \in Call /\ Sound(me) /\ Around
      /\ me.script # <<>> /\ me.package \in Pkg /\ me.makedir \in Dirs
  BY <1>1, OneCall, Split DEF Call, Sound, Fits
<1>3. Tail(me.script) \in Seq(Op)
  BY <1>2 DEF Call
<1>4. c \in Call
  BY <1>2, <1>3 DEF Call
<1>5. SoundBehind(c)
  BY <1>1, <1>2 DEF Call, Sound, SoundBehind, Fits
<1>6. config' \in [Dirs -> Value \union {None}] /\ InstalledHere'
  <2>1. \/ config' = config
        \/ config' = [config EXCEPT ![me.makedir] = <<me.makedir, me.package>>]
    BY DEF RunOk
  <2> DEFINE dir == me.makedir
             written == <<me.makedir, me.package>>
  <2>2. dir \in Dirs /\ written \in Value /\ written[1] = dir
    BY <1>2 DEF Value
  <2>3. config \in [Dirs -> Value \union {None}] /\ InstalledHere
    BY <1>2 DEF Around
  <2>4. config' = config \/ config' = [config EXCEPT ![dir] = written]
    BY <2>1
  <2> HIDE DEF dir, written
  <2>5. config' \in [Dirs -> Value \union {None}]
    BY <2>2, <2>3, <2>4
  <2>6. \A d \in Dirs : config'[d] = config[d] \/ (d = dir /\ config'[d] = written)
    BY <2>2, <2>3, <2>4
  <2>7. InstalledHere'
    BY <2>2, <2>3, <2>6 DEF InstalledHere
  <2> QED
    BY <2>5, <2>7
<1>7. Around'
  BY <1>1, <1>2, <1>6 DEF Around, ConfiguredHere
<1> HIDE DEF c
<1> QED
  BY <1>1, <1>4, <1>5, <1>7, GoesOn

LEMMA RunFailsInv == IInv /\ RunFails => IInv'
<1> SUFFICES ASSUME IInv, RunFails PROVE IInv'
  OBVIOUS
<1>1. /\ calls # <<>> /\ me.at = "update" /\ dialog = "none" /\ Raise
      /\ UNCHANGED <<builddir, ignore, tcl, makedirs, config, configured, disabled>>
  BY DEF RunFails, At, options, files
<1>2. dialog' \in {"none", "message"}
  BY <1>1 DEF Raise, Box
<1>3. Around'
  BY <1>1, <1>2, Split DEF Around, InstalledHere, ConfiguredHere
<1> QED
  BY <1>1, <1>3, RaiseInv

LEMMA CommandDoneInv == IInv /\ CommandDone => IInv'
<1> SUFFICES ASSUME IInv, CommandDone PROVE IInv'
  OBVIOUS
<1>1. calls' = <<>>
  BY OneCall DEF CommandDone, At
<1>2. Around'
  BY Split DEF Around, CommandDone, options, files, InstalledHere, ConfiguredHere
<1> QED
  BY <1>1, <1>2, Idle

LEMMA StutterInv == IInv /\ UNCHANGED vars => IInv'
<1> SUFFICES ASSUME IInv, UNCHANGED vars PROVE IInv'
  OBVIOUS
<1>1. UNCHANGED <<builddir, ignore, tcl, makedirs, config, configured, disabled, dialog, calls>>
  BY DEF vars, options, files
<1>2. me' = me
  BY <1>1 DEF me
<1> QED
  BY <1>1, <1>2 DEF IInv, TypeOK, InstalledHere, ConfiguredHere, Sound

LEMMA StepInv == IInv /\ [Next]_vars => IInv'
  BY ToggleIgnoreInv, PressBuilddirInv, ChooseBuilddirInv, PressCommandInv, AnswerInv,
     CloseInv, BeginInv, NextTargetInv, PackageDoneInv, EnterSectionInv, ScriptDoneInv,
     GetTclInv, RunBeginInv, RunOkInv, RunFailsInv, CommandDoneInv, StutterInv
  DEF Next, User, Step

-----------------------------------------------------------------------------
(***************************************************************************)
(* The theorems.                                                           *)
(***************************************************************************)
(* A command runs only while the widgets are disabled, with the options and *)
(* the builddir it was started with, and what is cached is of that builddir. *)
THEOREM Inductive == Spec => []IInv
  BY InitInv, StepInv, PTL DEF Spec

(* The widgets, dialogs, files and calls have their types; the dialog for   *)
(* builddir is never open while a command runs.                             *)
THEOREM TypeCorrect == Spec => []TypeOK
<1>1. IInv => TypeOK
  BY DEF IInv
<1> QED
  BY <1>1, Inductive, PTL

(* No makedir is configured with the values of a tcl that was installed in  *)
(* another builddir, whatever Get has cached before.                        *)
THEOREM ConfiguredCorrect == Spec => []ConfiguredHere
<1>1. IInv => ConfiguredHere
  BY DEF IInv
<1> QED
  BY <1>1, Inductive, PTL

-----------------------------------------------------------------------------
(***************************************************************************)
(* The refinement.                                                         *)
(***************************************************************************)
\* What the session sees of the calls: the options that each was started with.
running == [i \in 1..Len(calls) |-> calls[i].began]
chosen  == [builddir |-> builddir, ignore |-> ignore]

\* Nothing runs, or one command with the options that are chosen now.
RunsAsChosen ==
  /\ calls = <<>> => running = <<>>
  /\ calls # <<>> => running = <<chosen>>

LEMMA Seen == IInv => RunsAsChosen
<1> SUFFICES ASSUME IInv PROVE RunsAsChosen
  OBVIOUS
<1>1. CASE calls = <<>>
  <2>1. Len(calls) = 0
    BY <1>1
  <2> QED
    BY <1>1, <2>1 DEF running, RunsAsChosen
<1>2. CASE calls # <<>>
  <2>1. Len(calls) = 1 /\ calls[1].began = chosen
    BY <1>2, OneCall DEF Sound, Fits, chosen
  <2>2. running = [i \in 1..1 |-> chosen]
    BY <2>1 DEF running
  <2> QED
    BY <1>2, <2>2 DEF RunsAsChosen
<1> QED
  BY <1>1, <1>2

LEMMA SeenBehind == IInv' => RunsAsChosen'
  BY Seen, PTL

\* Only without a command the options change.
LEMMA OptionsStay ==
  ASSUME IInv, Next \/ UNCHANGED vars
  PROVE  \/ chosen' = chosen
         \/ calls = <<>> /\ calls' = <<>>
         \/ calls' = <<>> /\ Close
<1>1. CASE ToggleIgnore \/ \E d \in Dirs : ChooseBuilddir(d)
  BY <1>1, Enabled DEF ToggleIgnore, ChooseBuilddir
<1>2. CASE Close
  BY <1>2 DEF Close
<1>3. CASE UNCHANGED options
  BY <1>3 DEF options, chosen
<1>4. CASE PressBuilddir \/ Answer \/ \E c \in Commands, targets \in Selections : PressCommand(c, targets)
  BY <1>3, <1>4 DEF PressBuilddir, Answer, PressCommand
<1>5. CASE Step \/ UNCHANGED vars
  BY <1>3, <1>5
  DEF Step, vars, Begin, NextTarget, PackageDone, EnterSection, ScriptDone, GetTcl,
      RunBegin, RunOk, RunFails, CommandDone
<1> QED
  BY <1>1, <1>2, <1>4, <1>5 DEF Next, User

\* A step leaves the session alone or is one of its steps.
LEMMA SessionStep == IInv /\ IInv' /\ [Next]_vars => [Session!Next]_(Session!vars)
<1> SUFFICES ASSUME IInv, IInv', Next \/ UNCHANGED vars
             PROVE  Session!Next \/ UNCHANGED <<chosen, running>>
  BY DEF Session!vars, chosen, running
<1>1. /\ calls = <<>> => running = <<>>
      /\ calls # <<>> => running = <<chosen>>
  BY Seen DEF RunsAsChosen
<1>2. /\ calls' = <<>> => running' = <<>>
      /\ calls' # <<>> => running' = <<chosen'>>
  BY SeenBehind DEF RunsAsChosen
<1>3. chosen \in Option /\ chosen' \in Option
  BY DEF IInv, TypeOK, chosen, Option
<1>4. CASE chosen' = chosen
  <2>1. CASE (calls = <<>>) <=> (calls' = <<>>)
    BY <1>1, <1>2, <1>4, <2>1
  <2>2. CASE calls = <<>> /\ calls' # <<>>
    <3>1. running = <<>> /\ running' = <<chosen>> /\ chosen' = chosen
      BY <1>1, <1>2, <1>4, <2>2
    <3>2. Session!Start
      BY <3>1 DEF Session!Start, chosen, running
    <3> QED
      BY <3>2 DEF Session!Next
  <2>3. CASE calls # <<>> /\ calls' = <<>>
    <3>1. running = <<chosen>> /\ running' = <<>> /\ chosen' = chosen
      BY <1>1, <1>2, <1>4, <2>3
    <3>2. running # <<>>
      BY <3>1
    <3>3. Session!End
      BY <3>1, <3>2 DEF Session!End, chosen, running
    <3> QED
      BY <3>3 DEF Session!Next
  <2> QED
    BY <2>1, <2>2, <2>3
<1>5. CASE calls' = <<>>
  <2>1. CASE calls = <<>> \/ Close
    <3>1. running' = <<>>
      BY <1>2, <1>5
    <3>2. Session!Exit
      BY <1>3, <3>1 DEF Session!Exit, chosen, running
    <3> QED
      BY <3>2 DEF Session!Next
  <2> QED
    BY <1>4, <2>1, OptionsStay
<1> QED
  BY <1>4, <1>5, OptionsStay

(* Commands run one at a time, each with the options it was started with    *)
(* until it ends, as CommandSession promises, whatever the user does while   *)
(* they run.                                                                *)
THEOREM Refinement == Spec => CommandsOneByOne
<1>1. Init => Session!Init
  <2> SUFFICES ASSUME Init PROVE Session!Init
    OBVIOUS
  <2>1. running = <<>>
    BY InitInv, Seen DEF Init, RunsAsChosen
  <2>2. builddir \in Dirs /\ ignore \in BOOLEAN
    BY GuiAssumption DEF Init
  <2> QED
    BY <2>1, <2>2 DEF Session!Init, running, Option
<1> QED
  BY <1>1, SessionStep, Inductive, PTL DEF Spec, CommandsOneByOne, Session!Spec
=============================================================================
