# Verification of the kitgen build system (kbs)

This directory holds TLA+ models of kbs, the TLC configurations that check them
on small instances, and theorems about them whose proofs TLAPS checks.  Every
definition is translated from the source; `PROJECT.json` maps each one to its
lines.

## 1. The system

kbs builds Tcl/Tk, its extensions and single-file interpreters ("kits") from
sources.  A user runs `./kbs.tcl ?options? command package..`, or the command
`gui`, which serves many commands in one process.

| component | source | state it keeps | operations | what is hard |
|---|---|---|---|---|
| package evaluation engine | `kbs.tcl:219-323, 468-624` and the sections of `kbs.tcl:645-1237` | `package`, `_(makedir)`, `_(srcdir)`, `ready`, the body of `Source`, the files under `builddir` | `require` .. `distclean`, `_init`, `Package`, `Require`, `Use`, the seven sections | nested evaluations over shared variables, errors that `-i` passes over, kills, the replaced `Source` |
| fetching sources | `kbs.tcl:645-845` | `sources/<package>`, archives, `.tmp` directories | `Link Script Cvs Svn Git Http Wget Tgz Tbz2 Zip` | atomicity of a fetch, kills, the child process of `Link` |
| option processing | `kbs.tcl:1558-1696`, `kbs-help.tcl` | the array `_`, the switches, the lines of `.kbsrc`, `kbsrc`, `KBSRC` | `_configure`, `kbs_main` | precedence of four places, accumulating and overriding options |
| graphical interface | `kbs-gui.tcl` | the widgets' state, `_` | `_command`, `_state`, `_set_*` | events handled while a command runs (`update`) |
| patching | `kbs.tcl:1306-1524` | a source tree | `Patch`, `PatchFile`, `PatchApply` | partial application, repetition, line arithmetic |
| installation helpers | `kbs.tcl:1051-1173` | `builddir/lib`, `builddir/bin`, both there behind the process | `Install-Libdir`, `-Kit`, `-Tcl`, `-License` | several renames and deletes in a row |
| values of `Get` | `kbs.tcl:1247-1284` | the `TCL_*` and `TK_*` entries of `_` | `Get` | a cache that outlives what it was read from |
| external commands | `kbs.tcl:1533-1552` | none | `Run` | the place where the interface handles events |
| package database | `kbs-pkg-db.tcl`, `extdefs/` | none | definitions only | data: instances of it are the constants of the models |
| reflected channels of a kit | `sources/kbskit0.4/generic/rechan.c` | the masks and the timer of each channel | read, write, seek, watch, close, the timer | callbacks that delete what they run in |
| the part of Tcl that drives them | `sources/tcl8.6/generic/`: `tclIO.c`, `tclTimer.c`, `tclNotify.c`, `tclEvent.c` | channel handlers, reference counts, the timer list, the event queue | `fileevent`, `read`, `close`, `update`, `vwait`, a pass over the timers | handlers that enter the event loop; everything below them may change |
| start-up of a kit | `sources/kbskit0.4/generic/kitInit.c`, `zlib.c` | registered packages, streams | start-up | |
| kit start-up scripts | `sources/kbskit0.4/library` | mounts, `auto_path` | `boot.tcl`, `setupvfs.tcl` | order of mounts |
| vendored code | the rest of `sources/tcl8.6`, and the others | | | not part of this project |

The engine calls the fetching code for every `Source` section and `Run` for every
external command; `Run` calls the interface, which handles its events; the
interface starts commands of the engine in the process it shares with them.  The
engine's instances of itself interact through the namespace variables of
`::kbs::build`, and its processes interact through the file system only.

A kit is another process, of another language: `rechan` makes a channel whose reads
and writes a Tcl command serves.  The driver has no file descriptor and lets a timer
stand for it; the timer notifies the channel core, which calls handler scripts, which
call the driver.

For each component, what makes it correct:

- engine: every package is built behind all it uses and from its own sources; the
  namespace variables name the package whose script runs, also behind errors; a
  command that ends well has served all it was asked for; only `distclean` removes
  a makedir; every command ends.
- fetching: what comes as an archive is whole or not there, wherever kbs is killed; a
  failure deletes what it made and nothing else; a run ends if no `Link` leads back.
- options: the command line wins over the files and `KBSRC`, and the file of `-pkgfile`
  over all of them; a wrong option stops kbs before it creates or runs anything; the kits
  asked for are those built.
- unified patches: a file gets all hunks of a patch or none, each in its place; an
  error in the patch leaves all files alone; a file that cannot be opened leaves itself
  and the files behind it alone.
- interface: one command at a time, with the options it was started with; widgets that
  come back; no makedir configured with what was cached from another builddir.
- line patches: a script that is evaluated again applies each patch once; a file that
  was cut off does not pass for patched.
- installation helpers: an installation that ends has left the whole library and
  nothing else; other packages find it whole or not at all.
- kit runtime: no timer outlives its channel, no channel is freed under a frame that
  uses it; a readable channel is reported to its reader.

## 2. Modules

| module | models | state |
|---|---|---|
| `KbsBuild` | the package evaluation engine | files under `sources/` and `builddir`, namespace variables, one frame per nested evaluation |
| `OrderedBuild` | what the engine promises about the order of the builds | the packages a request concerns, those loaded, what each has in the file system |
| `KbsSource` | `Source` and `Source-` | directories, `.tmp` directories, archives, the chain of kbs processes |
| `KbsConfigure` | `_configure` and the dispatch of `kbs_main` | the four places, `args`, `_`, the build directory |
| `KbsPatchApply` | `PatchApply`, and the repetition of `PatchFile` | the patch, the parser, the hunks of each file, the files |
| `KbsPatch` | the text operations of `Patch` | |
| `KbsInstall` | a Configure script of patches, `Install-Libdir`, `Install-Tcl` | the source file, the directories under `builddir/lib`, the makedir, the step of the section |
| `Installation` | what an Install section promises to the users of the library | the version that is there, the one being installed, the one left |
| `KbsGui` | `_command`, `_state`, `_set_builddir`, `Run`, `Get`, the loop of `_init` | options, widgets, dialogs, makedirs, cached values, the calls of `_command` |
| `CommandSession` | what the interface promises to the commands it starts | the options, those of the command that runs |
| `TclTimers` | the list of timer handlers (`tclTimer.c`) | |
| `Rechan` | the driver (`rechan.c`) | |
| `KitChannels` | the driver, the timers, the channel core and the event loop, composed | channels, instances, timers and frames of the C stack (`kit`), the timer event |
| `FileEvents` | what fileevent(n) promises | open channels, set scripts, running scripts |
| `StackLemmas` | lemmas about `Front`, `Last`, inserted, removed and replaced elements of sequences; `SetInduction` | |
| `<module>_proofs` | the theorems about a module and their proofs | |
| `MC<module>` | instances of a module for TLC | |

`KbsSource` refines one step of `KbsBuild`: `SourceFetch` .. `FetchOk` of the engine
stand for the whole of `Source-`.  What the engine assumes of a fetched directory
(`Staged`: a kill leaves nothing or all of it) is what `ArchivesWhole` of `KbsSource`
shows, for the packages whose scripts download or unpack archives (`Archived`, with the
two exceptions named there).  The
same holds for `Patch`, `PatchApply`, `Libdir` and `Tcl`: for the engine they are
commands of a script that ends or fails.  `KbsInstall` refines one package's `Configure`
and `Install` steps of `KbsBuild`: what the engine takes for a complete `lib` is what
`InstalledWhole` shows.  `KbsBuild` with `Gui = TRUE` starts a command only when none
runs, and with settings that stay: that the interface keeps to this is what the refinement
of `CommandSession` by `KbsGui` shows.

Operators marked `Variant` are plausible slips in the definition below them (a
dropped guard, a swapped order, a missing reset).  No action uses them; put in the
place of that definition each makes one property fail, which shows that the property
can tell the code from code with this slip.

## 3. Models and code

### KbsBuild

| model | code |
|---|---|
| `package`, `makedir`, `srcdir`, `ready` | `package`, `_(makedir)`, `_(srcdir)`, `ready` of `::kbs::build` |
| `srcBody`, `oldBody` | the body of `Source`, `myBody` in `::kbs::distclean` |
| a frame: `own`, `left` | one `$interp eval` of a definition: the package, its sections to come |
| a frame: `uses`, `args`, `saved` | the `Use` calls of its `Require` script, the arguments left of the active one, `myPackage` |
| `pc = "raise"` | a Tcl error on its way out; `CaughtIgnored`, `CaughtFatal` are the catch with and without `-i` |
| `Start`, `Target`, `NoTargets`, `Finish` | `::kbs::require` .. `distclean`, `_init` |
| `RequireBegin`, `RequireEnd`, `UseEnter` .. `UseLeave` | `Require`, `Require-Use` |
| `SourceDistclean`, `SourcePresent`, `SourceFetch`, `FetchOk`, `FetchFail`, `SourceEnd` | `Source`, and the body `distclean` puts in its place |
| `ConfigureBegin`, `NeedsDirBegin`, `SkipsNoDirBegin` | `Configure`; `Make` and `Install`; `Clean` and `Test` |
| `ScriptOk`, `ScriptFail` | a section's script ends, or raises an error with its work half done |
| `Kill` | Ctrl-C, or the window is closed: what is in the file system stays |

`dir` tells a created makedir from a configured one because `Configure` creates it
before the script and later trusts it; `lib` tells half an installation from a whole
one; `src` half a checkout from a whole one.  `loaded` and `goal` are history.

### KbsSource

A process is the package, the command of its script it is at (`at`), its `_(srcdir)`
and the step within `Source-` (`pc`).  `Link` runs `kbs.tcl sources` for another
package and waits; so `procs` is a chain, of which only the last process runs.  The
types of commands that differ only in the program they execute are one: `InPlace` is
`Cvs`, `Svn`, `Script` and the clone of `Git`, `Update` its other operations, `Fetch` is
`Http` and `Wget`, `Unpack` is `Tgz`, `Tbz2` and `Zip`.  A fetched file is `junk` when
the server answered with a page (curl is called without `-f`), and half of what a
killed program wrote is `partial`.

What a catch deletes with `file delete -force` is deleted in two steps (`LinkFailed` or
`TidyFails`, then `Discarded`), so that a kill between them leaves a part of a directory.
`TidyFails` is the second `file delete`, which has no `-force` and fails when the archive
has hidden files beside its directory (`Hidden`): `glob` has not listed them.  `Grounded`
are the packages from which no circle of `Link` is reached, but for the link of a package
to itself, which the code refuses.

### KbsConfigure

The four places are sequences of lines, a line is a sequence of words, and a word is
what the `switch` makes of it: `set` an element of `_`, add kits, a wrong option,
something else.  `Read`, `AddLine` put each option line they find in front of `args`,
so that a later place comes first; `SetOption`, `KitOption`, `WrongOption`, `FirstWord`, `NoWord` are the loop;
`Finish` and `FinishFails` make the directory and complete `_`; `Define`, `SourceFails` and
`Sourced` are the file of `-pkgfile`, of which the constant `PkgFile` says which elements of
`_` and which kits it sets, one after the other, outside of its packages; `CallCommand`,
`NoCommand`, `NotFound`, `Stopped` are `kbs_main`.  `made` is the build directory:
`_configure` makes it in steps, and an error may leave it half made.

### KbsPatchApply

A file is the list of its lines as `split` returns it.  A line of a patch is what the
parser tells apart: a `diff` line with its two headers, the header of a hunk with
the numbers written in it, code lines, junk.  `lines`, `file`, `span`, `inhunk`,
`oldcode`, `newcode` are `patchlines` from `lineidx` on, `fntopatch`, the four numbers and the
variables of these names; `dict` is `patchdict` without the files already done.
Variables that do not exist are `NoFile` and `NoSpan`, and reading them is an error
(`BadCodeLine`, `NothingParsed`).  Tcl counts lines from 0, the model from 1;
`Range1` is `lrange` with its clipping.  The write of a file is two steps because
`open .. w` truncates it; `OpenFails` and `TruncateFails` are the two `open` that may raise an
error, `WriteFails` is a full disk or a kill within the write, behind which the script may
be evaluated again as behind any other error.  A kill between two files leaves what an
`OpenFails` there does.  `Place`, `Replaced` and `AllReplaced` are no code: they say what
a unified diff means, and the properties compare the code with them.

### KbsPatch, KbsInstall

A text is a sequence of tokens, one of which ends a line; `LineStart` is the loop over
`string first`, `Exists` and `Applies` are the two `string compare -length`, `Patched` is
the `append` and the line end that `puts` adds.  `Configure` evaluates a script of
patches: `PatchExists`, `PatchOpens` (`open .. w` empties the file), `PatchWrites`,
`PatchFails`.  It makes the makedir first and trusts it later, so that a Configure that
was killed is evaluated again only behind a `Distclean`.

A directory maps each file of the library to the version it is of; `dirs` holds the three
names of `Install-Libdir`, and `Renamed` is `file rename` with its way to move a directory
into one that exists.  The four kinds of packages are those whose `make install` uses a
name of its own (`Libdir`), that name in another case (`Case`: on Windows both names are
one directory, which the two renames are for), the name of the package (`Named`, `Libdir`
skips), and those copied by `Tcl`.  `MakeCopies` is the external `make install`, a file at
a time.  `Stop` is an error of a step or a kill, `Fetch` gives the package other sources.

### KbsGui

A call of `_command` stays on the stack until the command has ended (`calls`), and each
`update` that it reaches (`at` = "begin", "update", "end") handles what the user does:
`Listening`.  A dialog holds Tk's grab and keeps events from the main window, but not the
closing of it (`Close`, which is `exit` and the start of another process).  `disabled` is the
state of the widgets in `_(widgets)`; `ignore` stands for all options that have their widget
there.  The list box is never disabled, and its selection is read once, when a button is
pressed.

Of the engine there is what commands share with the user and with each other: the loop
of `_init` (`Begin` with its `array unset`, `NextTarget`, `Raise`), the makedirs, and scripts
as sequences of what matters: a `Run`, a `Get` of a `TCL_` value, the `make install` of tcl,
which writes `lib/tclConfig.sh`.  `began` and `configured` are history.

### TclTimers, Rechan, KitChannels

The operators of `Rechan` have the names of the C functions and map the shared state
before a call to the one behind it.  In `KitChannels`:

| model | code |
|---|---|
| `kit.frames` | the C stack: scripts, `update` and `vwait`, `TimerHandlerEventProc` (`pass`), `Tcl_NotifyChannel` (`notify`) |
| `event` of a `notify` frame | `nh.nextHandlerPtr`, which `Tcl_DeleteChannelHandler` corrects in all frames |
| `kit.rc[c]` | `_validMask`, `_watchMask`, `_timer` of `ReflectingChannel` |
| `kit.chan[c]` | `refCount`, the list of handlers, input in the buffer, `CHANNEL_NEED_MORE_DATA`, `timer` |
| `era` of a timer | what the comparison of its token and time with those a pass has read comes to |
| `pending`, `queued` | `timerPending`, the timer events in the queue that have a `proc` |
| `ServiceEvent`, `Fire*`, `PassEnds` | `Tcl_ServiceEvent`, one round of the loop of `TimerHandlerEventProc`, its end |
| `NotifyCalls`, `NotifySkips`, `NotifyEnds` | the loop of `Tcl_NotifyChannel`, and its `UpdateInterest` |
| `HandlerReturns`, `HandlerFails` | the end of `TclChannelEventScriptInvoker` |
| the actions of `Script` | one Tcl command of the innermost script |

Assumed of the surroundings: the command behind a channel does not close its channel
and does not enter the event loop, and a write command takes a byte or fails (a command
that returns 0 makes `FlushChannel` call it for ever); this is so for the commands of
`vfs1.4/library/vfslib.tcl`.  With it output never waits in the background, so the output
state of a channel has no part in the model, and a closed channel has no timer
(`tclIO.c:8606` is not reached).

## 4. Runs

| run | instance | shows |
|---|---|---|
| `install` | a diamond of three packages; install, test, distclean; kills; 446 thousand states | `DepsLoaded`, `BuildsOwnSources`, `AllServed`, `OnlyDistcleanRemoves`, and that the engine implements `OrderedBuild` (`BuildsInOrder`) |
| `session` | one process, many commands, a circle and an undefined name, with and without `-r` and `-i`; 426 thousand states | `ContextMatches`, `ReadyMeansLoaded`, `Terminates` |
| `fetch` | six packages, every type of source command, links to packages that link and in a circle, error pages, an archive with hidden files, kills, also within deletions; 252 thousand states | `ArchivesWhole`, `SrcdirExists`, `LeavesNothingHalf`, `Preserved`, `Terminates` |
| `start` | all contents of the places: up to two lines in `~/.kbsrc`, one in the others, two words on the command line, and a file of `-pkgfile` that sets values and kits; 1.8 million states | `CommandLineWins`, `WrongOptionFirst`, `KitsAddUp` |
| `patch` | patches of all edit scripts of up to three lines, of two-hunk scripts and of malformed lines, on old, new, half fitting, unrelated and missing files, applied twice, where any file may fail to open or be cut off in its write; 615 thousand states | `WholeOrUntouched`, `AppliesWhatFits`, `MatchedBeforeWritten`, `ParsedBeforeTouched` |
| `library` | one package of each kind, two versions of its sources, two patches; failures and kills before every step; 37 thousand states | `InstalledWhole`, `PatchLands`, `AppearsWhole`, and that Install implements `Installation` (`InstallsAsPromised`) |
| `channels` | a channel that is read and written and one that is written only, with handlers that enter the event loop; 123 thousand states | `NoDanglingTimers`, `TimersInOrder`, `NextHandlerLives`, `RefsBalanced`, `InterestArmed`, that handlers are called as `FileEvents` promises (`CallsAsPromised`), and `Served` |
| `gui` | three packages, two directories; programs that fail, dialogs that stay open, a window that is closed; 339 thousand states | `ConfiguredHere`, that commands run as `CommandSession` promises (`CommandsOneByOne`), and `WidgetsReturn` |
| `body` | a session in which a distclean fails | the code bug below |
| `start_kbsrc`, `start_builddir` | as `start` | two disagreements with the documentation |
| `patch_twice` | as `patch` | a patch that is applied again |

The last four must find a violation:

- `body`: `distclean` replaces the body of `Source` and restores it only when `_init`
  returns normally.  After a failed distclean the interface goes on with the wrong body,
  and the next `install` deletes makedirs.
- `start_kbsrc`: `~/.kbsrc` wins over `KBSRC` and earlier lines over later ones, because
  every line is inserted in front; kbs.tcl:382-389 documents the opposite order.
- `start_builddir`: `-builddir` is overwritten by kbs.tcl:1674 and has no effect.
- `patch_twice`: only the old lines decide, so that a hunk whose old lines are still
  found in place, or that has none, is applied again (kbs.tcl:1500).

Other places where the text and the code differ were met on the way and have no run:
`-vq` is not the default kit (kbs-help.tcl:58, kbs.tcl:1678); options without a command
end in "not found" and not in the help (kbs.tcl:120, 1591); `-git` and `-patch` are no
options (kbs-help.tcl:31, kbs.tcl:1665); `clean -r` does not reach dependencies
(kbs.tcl:292, 296); `distclean` keeps the makedir of a package without a `Source` section
(kbs.tcl:300, 311); with `-i` an undefined name is appended to `ready` in place of the
package that uses it (kbs.tcl:614); hunks with a side of one line, which diff writes
without a length, are refused (kbs.tcl:1382, 1430); the widgets of `kit` and `bi` are not in
`_(widgets)`, the "list of widgets to disable if command is running" (kbs-gui.tcl:10, 80-88),
so that a choice made while a command runs is seen by the scripts behind it, and `Install`
can install kits that `Make` has not made; where `console show` works (Windows and macOS),
the interface gives a command the prefix `consoleinterp eval` (kbs-gui.tcl:250), which only
the interpreter of the console knows, so that no package is processed there.

What the code does not protect from, and the properties leave out:

- a circle of two or more `Link`: only a package that links to itself is refused
  (kbs.tcl:691), others start processes for ever.  `Terminates` is about the packages that
  reach none;
- an archive with hidden files beside its one directory is never fetched: the cleanup
  deletes what was unpacked (kbs.tcl:829, 834), and a kill within it leaves a part.  The
  same part is left when a kill meets the deletion of a package whose own commands failed
  behind the unpacking in the child process of a `Link` (kbs.tcl:704).  `Archived` leaves
  both out, and every other package is proved whole or absent;
- a makedir that was left half configured counts as configured until somebody runs
  distclean (kbs.tcl:861): `AllServed` takes it as the code does;
- a file whose write by `PatchApply` is cut off stays cut off: `WholeOrUntouched` leaves out
  the file that is being written, and no other.

What `KbsInstall` and its patches show besides, and a user should know: a `Patch` that was killed
leaves an empty source file, upon which every Configure fails until the sources are
removed and fetched again; a `Patch` whose new text is empty, or begins the old one, is
never applied (its new text is found at once; `PatchesAssumption` excludes it);
`Libdir` with a name that is not there skips and succeeds; `make install` into a
directory of an earlier version leaves the files that the new one has not (only `Tcl`
and the renames of `Libdir` replace the directory: `InstalledWhole` says so for `Tcl`); and
between the delete and the end of the copy or rename the library is not there.

### Bounds

- Three packages: the least number with a diamond and with a circle that is entered
  from outside.  Frames interact with their neighbours only, and the theorems hold
  for any number.
- `MaxDepth = 4`: Tcl's recursion limit is larger, but the circle meets it in the same
  way; a chain of three packages stays below it.
- `MaxProcs = 4`: the longest chain of `Link` that ends is three; in the circle the last
  process waits for ever, as one of them would without a bound when there are no more
  processes.
- Two lines in one file and one in the others show both orders, that of places and
  that of lines; two words let an option stand before and behind a command.
- Scripts of three lines contain every combination of common, removed and added
  lines next to each other; two-hunk scripts have every change of length in both
  hunks; two calls show every repetition, as the second starts from each result of
  the first.  Hunks have context as `diff -ru` writes it: hunks without old lines only
  for empty files.
- Two versions, of which one has a file that the other has not and no `pkgIndex.tcl`:
  every way a mixture can differ from both.  Two patches: the second one counts lines
  that the first one adds.  The theorems hold for any number of each.
- Two directories: what belongs to one can be seen in the other.  One package of each role;
  a fourth would only put more steps between.  Nothing bounds the calls of `_command` but
  the code: with its buttons disabled there is never a second one.
- `MaxLoad = 3` bounds the channels in use and the event loops that are entered at a time:
  a channel with two nested loops, or two channels with one.  `MaxDelay = RcDelay = 1`: the
  timers of the core are due at once, those of the driver later; more ticks only put more
  steps between.  The safety properties are proved without these bounds.

### Fairness

For kbs the only fairness is `WF_vars(Step)`: an enabled step of the running process is taken.
kbs is one thread, has no timeout and waits for nothing but the programs it executes;
that these end (`ScriptOk`, `CurlOk` or a failure) is assumed.  `Start`, `Begin` and `Kill`
are not fair: nobody has to start or to kill a command.

Of the user nothing is assumed: he may leave a dialog open, which `WidgetsReturn` has as its
premise, and he may change options at every `update` without keeping a command from going on.

In a kit, Tcl goes on by itself (`WF_vars(Machine)`), the clock ticks, and the script at
the bottom enters the event loop again and again, as `vwait forever` at the end of an
application does.  No script of a handler has to end, and none has to read: `Served` has as
its first premise that again and again no handler is at work (a handler that stays in an
event loop of its own keeps its channel from being watched, tclIO.c:8468).  The script at
the bottom may wait in `vwait` for ever.  Its second premise is one the code needs: each read of an event's
channel by somebody else restarts the 5 ms of the driver's timer, so that one who polls
the channel can keep its handler waiting for ever.

## 5. Proofs

Assumptions are those on the constants (`ConstantsAssumption`, `CommandsAssumption`,
`VarsAssumption`, `PkgFileAssumption`, `PlacesAssumption`, `PatchAssumption`, `FilesAssumption`,
`TextAssumption`, `ModeAssumption`, `GuiAssumption` and those on delays): types, disjointness of the
special values, and nothing about sizes.  `PatchesAssumption` of `KbsInstall` says
more: that the patches fit the sources and each other, which is what the author of a package
definition has tried out.  `CasesAssumption` of `KbsPatchApply` says what a patch is: one that
`diff` wrote (`FromDiff`), or one of which no hunk can be read (`Unreadable`).  Only `Understood` and
what follows from it need that; that errors come first and that nothing is written before it
has matched holds for any lines.

| theorem | module | argument |
|---|---|---|
| `Inductive`, `TypeCorrect` | all | one step of the proof per action |
| `ContextCorrect`, `ReadyCorrect`, `DependenciesFirst` | `KbsBuild_proofs` | frame i uses the package of frame i+1 and its `saved` is its own package, so that leaving a `Use` restores what the outer script needs; what is behind `Require` in a frame is loaded, pending or nested |
| `Refinement` | `KbsBuild_proofs` | from `DependenciesFirst`: a step that changes a package's files is a step of `Work`, one that loads it of `Load` |
| `BodyPerProcess`, `MakedirStays` | `KbsBuild_proofs` | without a session each process starts with the original body: the bug of `body` needs the interface |
| `OwnSources` | `KbsBuild_proofs` | a frame that still waits for what it uses has not come to its `Source`, so that what a nested evaluation leaves in `_(srcdir)` is replaced before it is used (`SourcesInv`); from `BodyPerProcess` |
| `ServesAll` | `KbsBuild_proofs` | what a frame has behind it has had its effect, what is loaded is served and has loaded what it uses, and so the package of a command that ends well (`ServedInv`).  Its premise is `~Gui`: in a session an earlier distclean may have left the body of `Source` that the run `body` shows |
| `SourcesPreserved`, `SrcdirCorrect` | `KbsSource_proofs` | a process that is at work makes a directory that did not exist when the run began, and that no process up the chain has as its `_(srcdir)` |
| `UnpackingAtomic` | `KbsSource_proofs` | a child that fails has left nothing of an archived package, so that the deletion of `Link` has nothing to do there (`FailsEmpty`): kills may fall within the deletions |
| `NothingHalfLeft` | `KbsSource_proofs` | without kills, what is half there is what the running process is at work on; between two commands there is nothing (`HalfInv`) |
| `CommandLineCorrect`, `WrongOptionsFound` | `KbsConfigure_proofs` | the command line stays the end of `args`, and `_` is what the evaluated part of `args` has made it, and then the definitions of the file of `-pkgfile` (`SetsMore`) |
| `KitsComplete` | `KbsConfigure_proofs` | all kits that the places ask for come into `args`, and each evaluated option adds its own (`KitInv`); a definition of kits in the file of `-pkgfile` replaces them all |
| `WritesWhatMatched`, `ErrorsComeFirst` | `KbsPatchApply_proofs` | no file has two entries (`Distinct`), those that wait are untouched, and so is the one that cannot be opened (`Untouched`), and the hunks taken so far have matched the file as it was (`Loop`) |
| `Understood` | `KbsPatchApply_proofs` | while lines are read, `oldcode` and `newcode` are what the hunk being read has had so far, and the entry of a file lists the hunks read, in their order; a code line behind a complete hunk, like the blank at the end of a braced argument, adds that hunk once more and nothing else (`Repeats`), because its numbers and its code are kept until the next header (`Meaning`); a line of another kind does not come to the test (kbs.tcl:1458) |
| `NeverInPart`, `PatchesWhatFits` | `KbsPatchApply_proofs` | the code replaces from the first hunk on, at lines that earlier ones have moved; `AllReplaced` from the last one, where nothing has moved.  By induction over the hunks taken the result is the same, since hunks stand in order and the lines between them keep their number (`InOrder`), and to take one again changes nothing |
| `InstallsWhole`, `LibdirAtomic` | `KbsInstall_proofs` | for each step of an installation, the name under which the new library is whole and the names that are free, so that no rename meets a directory (`Contents`) |
| `PatchesLand` | `KbsInstall_proofs` | the file has had so many patches or is empty, and the tests of `Patch` tell which (`Tests`) |
| `Refinement` | `KbsInstall_proofs` | writing or deleting one file makes no other version whole, because the index of a version is of that version (`ViewWith`) |
| `ConfiguredCorrect` | `KbsGui_proofs` | the call that runs, the value that is cached and each `tclConfig.sh` are of the builddir that is chosen (`Fits`, `InstalledHere`) |
| `Refinement` | `KbsGui_proofs` | who presses a button finds it disabled while a call is on the stack, so that there is one call and its options stay (`OneCall`, `RunsAsChosen`) |
| `TimersOwned` | `KitChannels_proofs` | a token and its handler come and go together; on `Unique`, which makes the deletion of the one handler the deletion of all |
| `TimersSorted` | `KitChannels_proofs` | insertion behind those due no later, by a pass no older; the lemmas about the list of `TclTimers` come first |
| `NotificationsSafe` | `KitChannels_proofs` | handlers of a channel are distinct, and a deletion corrects each frame that has come to the deleted one |
| `ReferencesBalanced` | `KitChannels_proofs` | counted over the frames and the timer, with lemmas on the sets of frames that use a channel |
| `InterestLookedFor` | `KitChannels_proofs` | who takes an event out of what is watched is in a notification of the channel, or calls `UpdateInterest` behind it |
| `CallsKept` | `KitChannels_proofs` | `KitChannels` implements `FileEvents`: for any channels, loads and nested loops each step is one of the promise or shows nothing (`Shows`: which channels are open, which of their events have a handler, which handlers run).  What the driver, the timers and `UpdateInterest` do is nothing of that (`Alike`, one lemma per function); a frame that is no handler's script adds no call (`PushedCalls`, `PoppedCalls`) |

None of the properties is inductive alone.  `MatchedBeforeWritten`, for example, needs
that `orig` is the file as it was when the call began; that needs that nothing has
written to it before its turn, which needs that it has one entry.

`AllReplaced` and `HandlersOf` are recursive functions, and what they yield for any number of
hunks or of frames is proved by induction.  The library's theorem for that takes an operator, which the provers
cannot instantiate; `SetInduction` of `StackLemmas` says it of sets of numbers instead, and a
property is the set of the numbers that have it.

Only model-checked: liveness (`Terminates`, `WidgetsReturn`, `Served`), which is out of the
prover's reach.

## 6. Not modelled

The table in `PROJECT.json` lists every component.  Left out:

- output and wording, command lines of external programs (opaque steps that end or
  fail), names and versions of packages, two users' processes at the same time (the
  documentation describes one command at a time and nothing locks);
- of the graphical interface: the buttons `test`, `clean` and `distclean`, which take the same
  way into the engine (`KbsBuild` has them), the status lines, `_set_exec`, which is
  `_set_builddir` for a program, the options `-kit` and `-bi`, Tk's console, and nested
  evaluations under the interface;
- of `Get`: the `TK_` values, which are read on each call because their flag is set in a local
  variable (kbs.tcl:1281), and the other elements of `_`;
- the makefile helpers, `Install-Kit`, `Install-License`: they compose words of command
  lines, or are one external program; `Patchexec` reads a variable that does not exist and
  always fails;
- `zlib.c`, which is compiled only for Tcl before 8.6 (kitInit.c:28-34), and the start-up
  scripts `boot.tcl` and `setupvfs.tcl`, whose outcome is up to the file systems of vfs1.4
  and mk4tcl;
- of Tcl: idle handlers, threads, `fcopy`, stacked channels, blocking reads, background
  flushes, the contents of buffers; a write command that takes 0 bytes, which `FlushChannel`
  calls again at once (the model lets it take a byte or fail);
- vendored code.  By lines nearly all of the repository is that: 835 thousand lines of C of
  Tcl, Tk and SQLite, of which `tclIO.c`, `tclTimer.c`, `tclNotify.c` and `tclEvent.c` are
  modelled as far as a reflected channel meets them.  The program of this repository is
  `kbs.tcl`, its interface and database, and 660 lines of C.

## 7. What is left

1. `boot.tcl` and `setupvfs.tcl`: the order of mounts, the files that a kit gets.
2. That `KbsSource` and `KbsInstall` implement the steps of `KbsBuild` that stand for them.
3. Two kbs processes of one user at the same time, if that is ever to be supported: nothing
   locks `sources/` and the makedirs.
