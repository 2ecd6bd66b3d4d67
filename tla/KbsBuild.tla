------------------------------ MODULE KbsBuild ------------------------------
(***************************************************************************)
(* The package evaluation engine of kbs.tcl: the commands ::kbs::require   *)
(* .. ::kbs::distclean, the interpreter loop ::kbs::build::_init, the      *)
(* recursive evaluation of dependencies (Require, Require-Use) and the     *)
(* sections Source, Configure, Make, Install, Clean and Test of a package, *)
(* over the file system they work in.                                      *)
(*                                                                         *)
(* The scripts of a package are opaque: a script ends or fails.  What is   *)
(* kept is every guard, early return and error path of the engine, the     *)
(* namespace variables it shares between nested evaluations (package,      *)
(* _(makedir), _(srcdir), ready) and what survives a killed process.       *)
(***************************************************************************)
EXTENDS Naturals, SequencesExt

CONSTANTS
  Pkg,        \* names with a Package definition
  Undefined,  \* names that occur in a Use call and have no definition
  None,       \* the empty value of package, _(makedir) and _(srcdir)
  Uses,       \* the Use calls of a package's Require script, in order
  Sections,   \* the sections a package's definition has
  SrcOf,      \* whose directory under sources/ a package builds from (Link)
  Staged,     \* packages of which a kill leaves nothing or all, see KbsSource!ArchivesWhole
  Commands,   \* the commands a user may start
  Switches,   \* the [recursive, ignore] settings (-r, -i) a user may start with
  Requests,   \* the argument lists: sequences of matched package sets
  Gui,        \* TRUE: one process serves many commands; FALSE: one per command
  MaxDepth    \* nested evaluations Tcl accepts (interp recursionlimit)

Name == Pkg \union Undefined
Section == {"Require", "Source", "Configure", "Make", "Install", "Clean", "Test"}

ASSUME ConstantsAssumption ==
  /\ Pkg \intersect Undefined = {} /\ None \notin Name
  /\ Uses \in [Pkg -> Seq(Seq(Name))]
  /\ Sections \in [Pkg -> SUBSET Section]
  /\ SrcOf \in [Pkg -> Pkg]
  /\ Staged \subseteq Pkg
  /\ Switches \subseteq [recursive : BOOLEAN, ignore : BOOLEAN]
  /\ Requests \subseteq Seq(SUBSET Pkg)
  /\ Gui \in BOOLEAN
  /\ MaxDepth \in Nat \ {0}

\* Variant: Package stores Require behind Configure.
RankRequireLate == [s \in Section |->
  CASE s = "Source" -> 1 [] s = "Configure" -> 2 [] s = "Require" -> 3
    [] s = "Make" -> 4 [] s = "Install" -> 5 [] s = "Clean" -> 6 [] s = "Test" -> 7]

\* The order in which Package stores, and the interpreter meets, the sections.
Rank == [s \in Section |->
  CASE s = "Require" -> 1 [] s = "Source" -> 2 [] s = "Configure" -> 3
    [] s = "Make" -> 4 [] s = "Install" -> 5 [] s = "Clean" -> 6 [] s = "Test" -> 7]

\* The sections a command enables; the others are void procedures.
Used(c) ==
  CASE c = "require"   -> {"Require"}
    [] c = "sources"   -> {"Require", "Source"}
    [] c = "configure" -> {"Require", "Source", "Configure"}
    [] c = "make"      -> {"Require", "Source", "Configure", "Make"}
    [] c = "install"   -> {"Require", "Source", "Configure", "Make", "Install"}
    [] c = "test"      -> {"Require", "Source", "Make", "Test"}
    [] c = "clean"     -> {"Clean"}
    [] c = "distclean" -> {"Require", "Source"}

Command == {"require", "sources", "configure", "make", "install", "test",
            "clean", "distclean"}
ASSUME CommandsAssumption == Commands \subseteq Command

(***************************************************************************)
(* One frame per evaluation of a package's definition: the package, its    *)
(* sections still to come, and, inside its Require script, the Use calls   *)
(* left, the arguments left of the active one, and that call's myPackage.  *)
(***************************************************************************)
Frame == [own : Pkg, left : SUBSET Section, uses : Seq(Seq(Name)),
          args : Seq(Name), saved : Name \union {None}]

VARIABLES
  src,      \* sources/<package>: "none", "partial" (killed fetch), "full"
  dir,      \* builddir/<package>: "none", "created" (not configured), "configured"
  built,    \* makedirs whose Make script has ended since they were last cleaned
  lib,      \* the package's files in builddir/lib: "none", "partial", "done"
  srcBody,  \* the body of proc Source: "fetch", or "distclean"'s replacement
  oldBody,  \* distclean's local myBody
  package, makedir, srcdir,   \* namespace variables of ::kbs::build
  ready,    \* the list ready, of which only membership matters
  cmd, switch, todo,          \* the running command, -r and -i, targets left
  stack,    \* the nested evaluations, outermost first
  pc,       \* where control is
  goal,     \* every package the running request matches
  loaded,   \* history: packages evaluated without error by this command
  result    \* how the last command ended

fs      == <<src, dir, built, lib>>
body    == <<srcBody, oldBody>>
context == <<package, makedir, srcdir>>
request == <<cmd, switch, goal>>
vars    == <<fs, body, context, ready, request, todo, stack, pc, loaded, result>>

\* "Source" .. "Test": that section's script is being evaluated.
Control == {"idle", "targets", "eval", "Require", "use", "fetch", "raise",
            "Source", "Configure", "Make", "Install", "Clean", "Test"}

TypeOK ==
  /\ src \in [Pkg -> {"none", "partial", "full"}]
  /\ dir \in [Pkg -> {"none", "created", "configured"}]
  /\ built \subseteq Pkg
  /\ lib \in [Pkg -> {"none", "partial", "done"}]
  /\ srcBody \in {"fetch", "distclean"} /\ oldBody \in {"fetch", "distclean"}
  /\ package \in Name \union {None} /\ (package = None => stack = <<>>)
  /\ makedir \in Pkg \union {None} /\ srcdir \in Pkg \union {None}
  /\ ready \subseteq Name
  /\ cmd \in Command /\ switch \in [recursive : BOOLEAN, ignore : BOOLEAN]
  /\ todo \in Seq(SUBSET Pkg) /\ goal \subseteq Pkg
  /\ stack \in Seq(Frame)
  /\ pc \in Control
  /\ loaded \subseteq Pkg
  /\ result \in {"none", "ok", "error"}

(***************************************************************************)
(* A new process: kbs.tcl sources its defaults, nothing is running.        *)
(***************************************************************************)
Init ==
  /\ src = [p \in Pkg |-> "none"]
  /\ dir = [p \in Pkg |-> "none"]
  /\ built = {}
  /\ lib = [p \in Pkg |-> "none"]
  /\ srcBody = "fetch" /\ oldBody = "fetch"
  /\ package = None /\ makedir = None /\ srcdir = None
  /\ ready = {} /\ loaded = {} /\ goal = {}
  /\ cmd = "require" /\ switch = [recursive |-> FALSE, ignore |-> FALSE]
  /\ todo = <<>> /\ stack = <<>>
  /\ pc = "idle" /\ result = "none"

top == Last(stack)   \* the innermost evaluation
WithTop(f) == [stack EXCEPT ![Len(stack)] = f]
NewFrame(p) == [own |-> p, left |-> Sections[p] \intersect Used(cmd),
                uses |-> <<>>, args |-> <<>>, saved |-> None]

\* s is the next section of the innermost evaluation.
AtSection(s) ==
  /\ pc = "eval"
  /\ s \in top.left
  /\ \A t \in top.left : Rank[s] <= Rank[t]

\* The innermost evaluation has met section s.
Leave(s) == stack' = WithTop([top EXCEPT !.left = @ \ {s}])

-----------------------------------------------------------------------------
(***************************************************************************)
(* Commands: ::kbs::distclean replaces the body of Source before _init     *)
(* and restores it behind _init; the others only call _init.  In a GUI     *)
(* session the namespace variables are those the last command left.        *)
(***************************************************************************)
Start(c, sw, req) ==
  /\ pc = "idle"
  /\ LET current == IF Gui THEN srcBody ELSE "fetch" IN
       IF c = "distclean"
         THEN oldBody' = current /\ srcBody' = "distclean"
         ELSE srcBody' = current /\ UNCHANGED oldBody
  /\ IF Gui THEN UNCHANGED context
            ELSE package' = None /\ makedir' = None /\ srcdir' = None
  /\ cmd' = c /\ switch' = sw /\ todo' = req /\ goal' = UNION Range(req)
  /\ ready' = {} /\ loaded' = {}
  /\ stack' = <<>> /\ pc' = "targets" /\ result' = "none"
  /\ UNCHANGED fs

\* _init: the next target of the pattern at hand, in any order of array names.
Target(p) ==
  /\ pc = "targets" /\ todo # <<>> /\ p \in Head(todo)
  /\ todo' = IF Head(todo) = {p} THEN Tail(todo) ELSE [todo EXCEPT ![1] = @ \ {p}]
  /\ package' = p /\ makedir' = p
  /\ stack' = <<NewFrame(p)>> /\ pc' = "eval"
  /\ UNCHANGED <<fs, body, srcdir, ready, request, loaded, result>>

\* _init: "no targets found for pattern".
NoTargets ==
  /\ pc = "targets" /\ todo # <<>> /\ Head(todo) = {}
  /\ pc' = "idle" /\ result' = "error"
  /\ UNCHANGED <<fs, body, context, ready, request, todo, stack, loaded>>

\* _init returns; distclean restores the body it saved.
Finish ==
  /\ pc = "targets" /\ todo = <<>>
  /\ srcBody' = IF cmd = "distclean" THEN oldBody ELSE srcBody
  /\ pc' = "idle" /\ result' = "ok"
  /\ UNCHANGED <<fs, oldBody, context, ready, request, todo, stack, loaded>>

-----------------------------------------------------------------------------
\* Require returns at once without -r, else evaluates its script.
RequireBegin ==
  /\ AtSection("Require")
  /\ IF switch.recursive
       THEN /\ stack' = WithTop([top EXCEPT !.left = @ \ {"Require"}, !.uses = Uses[top.own]])
            /\ pc' = "Require"
       ELSE Leave("Require") /\ UNCHANGED pc
  /\ UNCHANGED <<fs, body, context, ready, request, todo, loaded, result>>

RequireEnd ==
  /\ pc = "Require" /\ top.uses = <<>>
  /\ pc' = "eval"
  /\ UNCHANGED <<fs, body, context, ready, request, todo, stack, loaded, result>>

\* Variant: Require-Use does not save the current package.
UseEnterUnsaved ==
  /\ pc = "Require" /\ top.uses # <<>>
  /\ stack' = WithTop([top EXCEPT !.args = Head(top.uses), !.uses = Tail(@)])
  /\ pc' = "use"
  /\ UNCHANGED <<fs, body, context, ready, request, todo, loaded, result>>

\* A Use call: Require-Use saves the current package.
UseEnter ==
  /\ pc = "Require" /\ top.uses # <<>>
  /\ stack' = WithTop([top EXCEPT !.args = Head(top.uses), !.uses = Tail(@), !.saved = package])
  /\ pc' = "use"
  /\ UNCHANGED <<fs, body, context, ready, request, todo, loaded, result>>

\* foreach package $args: the namespace variable itself is the loop variable.
NextArg(d) ==
  /\ pc = "use" /\ top.args # <<>> /\ d = Head(top.args)
  /\ package' = d

Advanced == WithTop([top EXCEPT !.args = Tail(@)])

\* Require-Use: already loaded.
UseReady(d) ==
  /\ NextArg(d) /\ d \in ready
  /\ stack' = Advanced
  /\ UNCHANGED <<fs, body, makedir, srcdir, ready, request, todo, pc, loaded, result>>

\* Variant: the package is appended to ready before its evaluation.
UseEvalReadyFirst(d) ==
  /\ NextArg(d) /\ d \in Pkg \ ready
  /\ makedir' = d /\ srcdir' = None /\ ready' = ready \union {d}
  /\ stack' = Append(Advanced, NewFrame(d))
  /\ pc' = IF Len(stack) < MaxDepth THEN "eval" ELSE "raise"
  /\ UNCHANGED <<fs, body, request, todo, loaded, result>>

\* Require-Use: evaluate the package; Tcl refuses to nest deeper than MaxDepth.
UseEval(d) ==
  /\ NextArg(d) /\ d \in Pkg \ ready
  /\ makedir' = d /\ srcdir' = None
  /\ stack' = Append(Advanced, NewFrame(d))
  /\ pc' = IF Len(stack) < MaxDepth THEN "eval" ELSE "raise"
  /\ UNCHANGED <<fs, body, ready, request, todo, loaded, result>>

\* Require-Use: nothing found; the loop variable keeps the unknown name.
UseNotFound(d) ==
  /\ NextArg(d) /\ d \in Undefined \ ready
  /\ pc' = "raise"
  /\ UNCHANGED <<fs, body, makedir, srcdir, ready, request, todo, stack, loaded, result>>

\* Variant: only _(makedir) returns, package keeps the loop's last value.
UseLeaveNoPackage ==
  /\ pc = "use" /\ top.args = <<>>
  /\ makedir' = top.saved
  /\ pc' = "Require"
  /\ UNCHANGED <<fs, body, package, srcdir, ready, request, todo, stack, loaded, result>>

\* Require-Use: the loop has ended, the caller's package and makedir return.
UseLeave ==
  /\ pc = "use" /\ top.args = <<>>
  /\ package' = top.saved /\ makedir' = top.saved
  /\ pc' = "Require"
  /\ UNCHANGED <<fs, body, srcdir, ready, request, todo, stack, loaded, result>>

(***************************************************************************)
(* The end of an evaluation, behind the catch of _init or Require-Use.     *)
(***************************************************************************)
MarkReady == ready' = ready \union {package}

EvalDone ==
  /\ pc = "eval" /\ top.left = {}
  /\ loaded' = loaded \union {top.own}
  /\ stack' = Front(stack)
  /\ IF Len(stack) = 1 THEN pc' = "targets" /\ UNCHANGED ready
                       ELSE pc' = "use" /\ MarkReady
  /\ UNCHANGED <<fs, body, context, request, todo, result>>

\* Variant: -i tries a failed dependency again.
CaughtIgnoredRetry ==
  /\ pc = "raise" /\ switch.ignore
  /\ IF Len(stack) = 1
       THEN stack' = <<>> /\ pc' = "targets"
       ELSE /\ stack' = [Front(stack) EXCEPT ![Len(stack) - 1].args = <<top.own>> \o @]
            /\ pc' = "use"
  /\ UNCHANGED <<fs, body, context, ready, request, todo, loaded, result>>

\* An error reaches the catch around the evaluation and -i proceeds.
CaughtIgnored ==
  /\ pc = "raise" /\ switch.ignore
  /\ stack' = Front(stack)
  /\ IF Len(stack) = 1 THEN pc' = "targets" /\ UNCHANGED ready
                       ELSE pc' = "use" /\ MarkReady
  /\ UNCHANGED <<fs, body, context, request, todo, loaded, result>>

\* Variant: Require-Use proceeds without -i too.
CaughtFatalOnlyOutside ==
  /\ pc = "raise" /\ ~switch.ignore
  /\ stack' = Front(stack)
  /\ IF Len(stack) = 1 THEN pc' = "idle" /\ result' = "error" /\ UNCHANGED ready
                       ELSE pc' = "use" /\ MarkReady /\ UNCHANGED result
  /\ UNCHANGED <<fs, body, context, request, todo, loaded>>

\* Without -i the catch raises again, up to the caller of _init.
CaughtFatal ==
  /\ pc = "raise" /\ ~switch.ignore
  /\ stack' = Front(stack)
  /\ IF Len(stack) = 1 THEN pc' = "idle" /\ result' = "error"
                       ELSE UNCHANGED <<pc, result>>
  /\ UNCHANGED <<fs, body, context, ready, request, todo, loaded>>

-----------------------------------------------------------------------------
(***************************************************************************)
(* Source, with the body distclean installs and with its own.              *)
(***************************************************************************)
SourceDistclean ==
  /\ AtSection("Source") /\ srcBody = "distclean"
  /\ dir' = [dir EXCEPT ![makedir] = "none"] /\ built' = built \ {makedir}
  /\ Leave("Source")
  /\ UNCHANGED <<src, lib, body, context, ready, request, todo, pc, loaded, result>>

\* The sources exist, whatever they are worth: they are not fetched again.
SourcePresent ==
  /\ AtSection("Source") /\ srcBody = "fetch" /\ src[SrcOf[package]] # "none"
  /\ srcdir' = SrcOf[package]
  /\ Leave("Source") /\ pc' = "Source"
  /\ UNCHANGED <<fs, body, package, makedir, ready, request, todo, loaded, result>>

\* A fetch fills the directory in place, or a .tmp directory beside it.
SourceFetch ==
  /\ AtSection("Source") /\ srcBody = "fetch" /\ src[SrcOf[package]] = "none"
  /\ srcdir' = None
  /\ src' = [src EXCEPT ![SrcOf[package]] = IF SrcOf[package] \in Staged THEN @ ELSE "partial"]
  /\ Leave("Source") /\ pc' = "fetch"
  /\ UNCHANGED <<dir, built, lib, body, package, makedir, ready, request, todo, loaded, result>>

FetchOk ==
  /\ pc = "fetch"
  /\ src' = [src EXCEPT ![SrcOf[package]] = "full"]
  /\ srcdir' = SrcOf[package] /\ pc' = "Source"
  /\ UNCHANGED <<dir, built, lib, body, package, makedir, ready, request, todo, stack, loaded, result>>

\* The catch around the fetch deletes what there is and goes on.
FetchFail ==
  /\ pc = "fetch"
  /\ src' = [src EXCEPT ![SrcOf[package]] = "none"]
  /\ pc' = "Source"
  /\ UNCHANGED <<dir, built, lib, body, context, ready, request, todo, stack, loaded, result>>

\* Variant: Source does not test _(srcdir).
SourceEndUntested ==
  /\ pc = "Source"
  /\ pc' = "eval"
  /\ UNCHANGED <<fs, body, context, ready, request, todo, stack, loaded, result>>

\* Source's last test: "missing sources of package".
SourceEnd ==
  /\ pc = "Source"
  /\ pc' = IF srcdir = None THEN "raise" ELSE "eval"
  /\ UNCHANGED <<fs, body, context, ready, request, todo, stack, loaded, result>>

-----------------------------------------------------------------------------
\* Configure trusts an existing makedir, else creates it and runs the script.
ConfigureBegin ==
  /\ AtSection("Configure")
  /\ Leave("Configure")
  /\ IF dir[makedir] # "none"
       THEN UNCHANGED <<dir, pc>>
       ELSE dir' = [dir EXCEPT ![makedir] = "created"] /\ pc' = "Configure"
  /\ UNCHANGED <<src, built, lib, body, context, ready, request, todo, loaded, result>>

\* Variant: Make and Install return, as Clean and Test do.
NeedsDirBeginReturns(s) ==
  /\ s \in {"Make", "Install"} /\ AtSection(s)
  /\ Leave(s)
  /\ pc' = IF dir[makedir] = "none" THEN "eval" ELSE s
  /\ UNCHANGED <<fs, body, context, ready, request, todo, loaded, result>>

\* Make and Install need the makedir.
NeedsDirBegin(s) ==
  /\ s \in {"Make", "Install"} /\ AtSection(s)
  /\ Leave(s)
  /\ pc' = IF dir[makedir] = "none" THEN "raise" ELSE s
  /\ UNCHANGED <<fs, body, context, ready, request, todo, loaded, result>>

\* Clean and Test return when there is no makedir.
SkipsNoDirBegin(s) ==
  /\ s \in {"Clean", "Test"} /\ AtSection(s)
  /\ Leave(s)
  /\ pc' = IF dir[makedir] = "none" THEN "eval" ELSE s
  /\ UNCHANGED <<fs, body, context, ready, request, todo, loaded, result>>

\* A section's script ends without an error.
ScriptOk ==
  /\ pc \in {"Configure", "Make", "Install", "Clean", "Test"}
  /\ dir' = IF pc = "Configure" THEN [dir EXCEPT ![makedir] = "configured"] ELSE dir
  /\ built' = CASE pc = "Make" -> built \union {makedir}
                [] pc = "Clean" -> built \ {makedir}
                [] OTHER -> built
  /\ lib' = IF pc = "Install" THEN [lib EXCEPT ![package] = "done"] ELSE lib
  /\ pc' = "eval"
  /\ UNCHANGED <<src, body, context, ready, request, todo, stack, loaded, result>>

\* Variant: a failed configure takes its makedir with it.
ScriptFailTidy ==
  /\ pc \in {"Source", "Configure", "Make", "Install", "Clean", "Test"}
  /\ dir' = IF pc = "Configure" THEN [dir EXCEPT ![makedir] = "none"] ELSE dir
  /\ pc' = "raise"
  /\ UNCHANGED <<src, built, lib, body, context, ready, request, todo, stack, loaded, result>>

\* A command of the script fails: what it did until then stays.
ScriptFail ==
  /\ pc \in {"Source", "Configure", "Make", "Install", "Clean", "Test"}
  /\ lib' \in IF pc = "Install" THEN {lib, [lib EXCEPT ![package] = "partial"]} ELSE {lib}
  /\ pc' = "raise"
  /\ UNCHANGED <<src, dir, built, body, context, ready, request, todo, stack, loaded, result>>

\* The process is killed (or its window closed) and a new one starts.
Kill ==
  /\ pc # "idle"
  /\ srcBody' = "fetch" /\ oldBody' = "fetch"
  /\ package' = None /\ makedir' = None /\ srcdir' = None
  /\ ready' = {} /\ todo' = <<>> /\ stack' = <<>> /\ loaded' = {}
  /\ pc' = "idle" /\ result' = "none"
  /\ UNCHANGED <<fs, request>>

-----------------------------------------------------------------------------
User == \E c \in Commands, sw \in Switches, req \in Requests : Start(c, sw, req)

\* What the running process does by itself.
Step ==
  \/ \E p \in Pkg : Target(p)
  \/ NoTargets \/ Finish
  \/ RequireBegin \/ RequireEnd \/ UseEnter \/ UseLeave
  \/ \E d \in Name : UseReady(d) \/ UseEval(d) \/ UseNotFound(d)
  \/ EvalDone \/ CaughtIgnored \/ CaughtFatal
  \/ SourceDistclean \/ SourcePresent \/ SourceFetch
  \/ FetchOk \/ FetchFail \/ SourceEnd
  \/ ConfigureBegin
  \/ \E s \in Section : NeedsDirBegin(s) \/ SkipsNoDirBegin(s)
  \/ ScriptOk \/ ScriptFail

Next == User \/ Step \/ Kill

Spec == Init /\ [][Next]_vars

\* kbs is one thread that runs until its command ends, and the programs it
\* executes end.
FairSpec == Spec /\ WF_vars(Step)

-----------------------------------------------------------------------------
(***************************************************************************)
(* Properties.                                                             *)
(***************************************************************************)
NamesIn(uses) == UNION {Range(u) : u \in Range(uses)}
Deps(p) == IF "Require" \in Sections[p] THEN NamesIn(Uses[p]) ELSE {}

\* Dependencies are evaluated and no error is passed over.
Strict == switch.recursive /\ ~switch.ignore /\ "Require" \in Used(cmd)

\* Control is in the sections of the innermost evaluation.
InSections == pc \in {"eval", "fetch"} \union Section

\* The packages a request is about: the least set that holds its targets and,
\* with -r, the packages its members use.
Reached ==
  {p \in Pkg : \A S \in SUBSET Pkg :
     /\ goal \subseteq S
     /\ switch.recursive => \A q \in S : Deps(q) \intersect Pkg \subseteq S
     => p \in S}

\* The namespace variables package and _(makedir), which nested evaluations
\* overwrite (kbs.tcl:592-622), name the package whose sections are evaluated,
\* also behind nested evaluations that failed and were passed over.
ContextMatches ==
  InSections => package = top.own /\ makedir = top.own

\* Without -i, what Use skips as already loaded (kbs.tcl:596) has been evaluated
\* without an error by this command.
ReadyMeansLoaded == ~switch.ignore => ready \subseteq loaded

\* Without -i, no section behind Require is evaluated before every package that
\* Require uses has been evaluated without an error by this command.
DepsLoaded ==
  Strict /\ InSections /\ pc # "Require" /\ "Require" \notin top.left
    => Deps(top.own) \subseteq loaded

\* A configure, make, install or test script finds in _(srcdir) the directory
\* of its own package (or the one it links to), which exists and, if it was
\* unpacked beside, is whole: also after kills and failed fetches, and although
\* evaluating its dependencies has overwritten _(srcdir) (kbs.tcl:604).
BuildsOwnSources ==
  /\ pc \in {"Configure", "Make", "Install", "Test"}
  /\ "Source" \in Sections[top.own] \intersect Used(cmd)
  => /\ srcdir = SrcOf[top.own]
     /\ src[srcdir] # "none" /\ (srcdir \in Staged => src[srcdir] = "full")

\* What a command that ended without an error has done to a package.
Served(p) ==
  CASE cmd = "distclean" -> "Source" \in Sections[p] => dir[p] = "none"
    [] cmd = "clean"     -> "Clean" \in Sections[p] => p \notin built
    [] OTHER -> /\ "Source" \in Sections[p] \intersect Used(cmd) => src[SrcOf[p]] # "none"
                /\ "Configure" \in Sections[p] \intersect Used(cmd) => dir[p] # "none"
                /\ "Make" \in Sections[p] \intersect Used(cmd) => p \in built
                /\ "Install" \in Sections[p] \intersect Used(cmd) => lib[p] = "done"

\* A command that ends well without -i has evaluated its targets and, with -r,
\* everything they use, directly or not, and each of these packages still is in
\* the state its own evaluation left: nothing evaluated later undid it.
AllServed ==
  result = "ok" /\ ~switch.ignore
    => /\ goal \subseteq loaded
       /\ Strict => \A p \in loaded : Deps(p) \subseteq loaded
       /\ \A p \in loaded : Served(p)

\* Only distclean removes a makedir: one left by a failed or killed configure
\* stays, and makes the next Configure return at once (kbs.tcl:860).
OnlyDistcleanRemoves ==
  [][\A p \in Pkg : dir[p] # "none" /\ dir'[p] = "none" => cmd = "distclean"]_vars

\* kbs implements the abstract order: a step changes the makedir and the library
\* of one package, one the request reaches, and, without -i, only when all it
\* uses has been loaded.
Files == [p \in Pkg |-> <<dir[p], IF p \in built THEN "built" ELSE "unbuilt", lib[p]>>]
Order == INSTANCE OrderedBuild WITH
  Needs  <- [p \in Pkg |-> Deps(p)],
  State  <- {"none", "created", "configured"} \X {"built", "unbuilt"}
              \X {"none", "partial", "done"},
  strict <- Strict,
  wanted <- Reached,
  state  <- Files
BuildsInOrder == Order!Spec

\* Every command ends, whatever fails and also if packages use each other in a
\* circle, because Tcl bounds the nesting.
Terminates == pc # "idle" ~> pc = "idle"

(***************************************************************************)
(* The inductive invariant behind the proofs: what the frames of nested    *)
(* evaluations say of each other and of the namespace variables.           *)
(***************************************************************************)
\* The names a frame's Require script still has to use.
Pending(f) == Range(f.args) \union NamesIn(f.uses)

\* What is being evaluated on behalf of frame i.
Nested(i) == IF i < Len(stack) THEN {stack[i+1].own} ELSE {}

FramesOK ==
  \A i \in 1..Len(stack) : LET f == stack[i] IN
    /\ f.left \subseteq Sections[f.own] \intersect Used(cmd)
    /\ Pending(f) \subseteq Deps(f.own)
    /\ f.uses # <<>> \/ f.args # <<>> => switch.recursive /\ "Require" \notin f.left
    /\ i < Len(stack) \/ pc = "use" =>
         f.saved = f.own /\ "Require" \notin f.left /\ switch.recursive

ScriptOK ==
  InSections =>
    /\ package = top.own /\ makedir = top.own /\ top.args = <<>>
    /\ pc # "Require" => top.uses = <<>>
    /\ pc # "eval" => "Require" \notin top.left

OrderOK ==
  Strict /\ pc # "raise" =>
    \A i \in 1..Len(stack) : "Require" \notin stack[i].left =>
      Deps(stack[i].own) \subseteq loaded \union Pending(stack[i]) \union Nested(i)

IInv ==
  /\ TypeOK
  /\ (stack = <<>>) <=> (pc \in {"idle", "targets"})
  /\ \A i \in 1..Len(todo) : todo[i] \subseteq goal
  /\ FramesOK
  /\ \A i \in 1..Len(stack) : stack[i].own \in Reached
  /\ ScriptOK
  /\ ReadyMeansLoaded
  /\ OrderOK

(***************************************************************************)
(* What the code's own text says, and the code does not do.                *)
(***************************************************************************)
\* kbs.tcl:321: distclean restores the old body of Source.
BodyRestored == pc # "idle" /\ cmd # "distclean" => srcBody = "fetch"
=============================================================================
