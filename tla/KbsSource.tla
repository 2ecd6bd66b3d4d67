----------------------------- MODULE KbsSource -----------------------------
(***************************************************************************)
(* How kbs.tcl fetches sources: the procedures Source and Source- over the *)
(* directory sources/ that every kbs process shares.                       *)
(*                                                                         *)
(* A Source script is a sequence of commands.  Each one leaves an existing *)
(* directory alone; else it checks out in place, downloads a file, unpacks *)
(* an archive beside the directory and renames it, or, for Link, lets a    *)
(* child kbs process fetch another package's sources while it waits.  Any  *)
(* program may fail, and Ctrl-C may kill all processes between two steps,  *)
(* in the middle of deleting a directory too.  Assumed is that a process   *)
(* may delete what it or its child has made, and that no child is killed   *)
(* alone.                                                                  *)
(***************************************************************************)
EXTENDS Naturals, SequencesExt

CONSTANTS
  Pkg,        \* names with a Package definition
  Undefined,  \* names that occur in a Link and have no definition
  File,       \* the files that Http and Wget download into sources/
  Script,     \* the Source script of each package
  Kind,       \* what the name of a downloaded file says it is
  Hidden,     \* the archives with hidden files beside their directory
  None,       \* the empty value of _(srcdir)
  MaxProcs    \* bound on nested kbs processes

Name == Pkg \union Undefined

\* "InPlace" is Cvs, Svn, Git clone and Script, "Update" is any other Git
\* operation, "Fetch" is Http and Wget, "Unpack" is Tgz, Tbz2 and Zip of a local
\* file, "Other" any other Tcl command of the script (Patch, Run, file ..).
Command ==
  [type : {"InPlace", "Update", "Other"}, arg : {None}]
    \union [type : {"Link"}, arg : Name]
    \union [type : {"Fetch", "Unpack"}, arg : File]

ASSUME ConstantsAssumption ==
  /\ Pkg \intersect Undefined = {} /\ None \notin Name
  /\ Script \in [Pkg -> Seq(Command)]
  /\ Kind \in [File -> {"archive", "kit", "other"}]
  /\ Hidden \subseteq File
  /\ MaxProcs \in Nat \ {0}

VARIABLES
  tree,    \* sources/<name>: "none", "empty", "partial", "junk" or "whole"
  tmp,     \* sources/<name>.tmp: "none", "partial", "whole", or "rest" (renamed out of)
  file,    \* sources/<file>: "none", "partial", "junk" (an error page), "whole"
  procs,   \* the kbs processes, each waiting for the next one
  result,  \* how the last outermost process ended
  killed,  \* history: whether processes have been killed
  before   \* history: the names whose directory existed when the run began

vars == <<tree, tmp, file, procs, result, killed, before>>

Process == [pkg : Pkg, at : Nat \ {0}, srcdir : Name \union {None},
            pc : {"command", "checkout", "curl", "unpack", "rename", "tidy",
                  "discard", "delete", "move", "child", "linked", "failed"}]

TypeOK ==
  /\ tree \in [Name -> {"none", "empty", "partial", "junk", "whole"}]
  /\ tmp \in [Name -> {"none", "partial", "whole", "rest"}]
  /\ file \in [File -> {"none", "partial", "junk", "whole"}]
  /\ procs \in Seq(Process)
  /\ \A i \in 1..Len(procs) :
       /\ procs[i].at <= Len(Script[procs[i].pkg]) + 1
       /\ procs[i].pc # "command" => procs[i].at <= Len(Script[procs[i].pkg])
  /\ result \in {"none", "ok", "error"}
  /\ killed \in BOOLEAN /\ before \subseteq Name

Init ==
  /\ tree = [n \in Name |-> "none"]
  /\ tmp = [n \in Name |-> "none"]
  /\ file = [f \in File |-> "none"]
  /\ procs = <<>> /\ result = "none" /\ killed = FALSE /\ before = {}

me == Last(procs)                                    \* the process that runs
With(p) == [procs EXCEPT ![Len(procs)] = p]
NewProcess(p) == [pkg |-> p, at |-> 1, srcdir |-> None, pc |-> "command"]

\* The command a process is at, and myDir, the directory it is to make.
CommandOf(p) == Script[p.pkg][p.at]
myDirOf(p) == IF CommandOf(p).type = "Link" THEN CommandOf(p).arg ELSE p.pkg
cmd   == CommandOf(me)
myDir == myDirOf(me)

\* The script has another command for the running process.
AtCommand(type) ==
  /\ procs # <<>> /\ me.pc = "command"
  /\ me.at <= Len(Script[me.pkg]) /\ cmd.type = type

AtStep(pc) == procs # <<>> /\ me.pc = pc
Goto(pc) == procs' = With([me EXCEPT !.pc = pc])

NextCommand(srcdir) ==
  procs' = With([pkg |-> me.pkg, at |-> me.at + 1, srcdir |-> srcdir, pc |-> "command"])

\* Variant: Source- does not look whether the directory exists now.
DoneBlindly == NextCommand(myDir)

\* The end of Source-: _(srcdir) is the directory, if there is one now.
Done == NextCommand(IF tree'[myDir] # "none" THEN myDir ELSE me.srcdir)

\* A process ends; the one that waits for it goes on.
Ends(ok) ==
  IF Len(procs) = 1
    THEN procs' = <<>> /\ result' = IF ok THEN "ok" ELSE "error"
    ELSE /\ procs' = [Front(procs) EXCEPT ![Len(procs) - 1].pc = IF ok THEN "linked" ELSE "failed"]
         /\ UNCHANGED result

files == <<tree, tmp, file>>
history == <<killed, before>>
-----------------------------------------------------------------------------
\* A user's process evaluates the Source section of p.
Begin(p) ==
  /\ procs = <<>>
  /\ procs' = <<NewProcess(p)>>
  /\ before' = {n \in Name : tree[n] # "none"}
  /\ UNCHANGED <<files, result, killed>>

\* Source's last test, "missing sources of package".
ScriptEnds ==
  /\ AtStep("command") /\ me.at > Len(Script[me.pkg])
  /\ Ends(me.srcdir # None)
  /\ UNCHANGED <<files, history>>

\* Another command of the script works or raises an error.
Other ==
  /\ AtCommand("Other")
  /\ \/ NextCommand(me.srcdir) /\ UNCHANGED result
     \/ Ends(FALSE)
  /\ UNCHANGED <<files, history>>

\* The directory exists, whatever it is worth: nothing is fetched.
Exists ==
  /\ \E type \in {"Link", "InPlace", "Fetch", "Unpack"} : AtCommand(type)
  /\ cmd.type = "Link" => cmd.arg # me.pkg
  /\ tree[myDir] # "none"
  /\ NextCommand(myDir)
  /\ UNCHANGED <<files, result, history>>

\* Git with an operation: its errors are ignored.
Update ==
  /\ AtCommand("Update")
  /\ NextCommand(IF tree[myDir] # "none" THEN myDir ELSE me.srcdir)
  /\ UNCHANGED <<files, result, history>>

-----------------------------------------------------------------------------
(***************************************************************************)
(* Cvs, Svn, Git clone and Script work in the directory itself.            *)
(***************************************************************************)
Checkout ==
  /\ AtCommand("InPlace") /\ tree[myDir] = "none"
  /\ tree' = [tree EXCEPT ![myDir] = "partial"]
  /\ Goto("checkout")
  /\ UNCHANGED <<tmp, file, result, history>>

\* A Script may also end without having made a directory.
CheckoutOk ==
  /\ AtStep("checkout")
  /\ \E t \in {"whole", "none"} : tree' = [tree EXCEPT ![myDir] = t]
  /\ Done
  /\ UNCHANGED <<tmp, file, result, history>>

CheckoutFail ==
  /\ AtStep("checkout")
  /\ tree' = [tree EXCEPT ![myDir] = "none"]
  /\ Done
  /\ UNCHANGED <<tmp, file, result, history>>

-----------------------------------------------------------------------------
(***************************************************************************)
(* Http and Wget: curl, then what the name of the file asks for.           *)
(***************************************************************************)
Fetch ==
  /\ AtCommand("Fetch") /\ tree[myDir] = "none"
  /\ file' = [file EXCEPT ![cmd.arg] = "partial"]
  /\ Goto("curl")
  /\ UNCHANGED <<tree, tmp, result, history>>

\* curl saves an error page of the server like any other file.
CurlOk ==
  /\ AtStep("curl")
  /\ \E f \in {"junk", "whole"} : file' = [file EXCEPT ![cmd.arg] = f]
  /\ CASE Kind[cmd.arg] = "archive" ->
            /\ tmp' = [tmp EXCEPT ![myDir] = "partial"]
            /\ Goto("unpack") /\ UNCHANGED tree
       [] Kind[cmd.arg] = "kit" ->
            /\ tree' = [tree EXCEPT ![myDir] = "empty"]
            /\ Goto("move") /\ UNCHANGED tmp
       [] Kind[cmd.arg] = "other" -> UNCHANGED <<tree, tmp>> /\ Done
  /\ UNCHANGED <<result, history>>

\* A kit is moved into its directory.
Move ==
  /\ AtStep("move")
  /\ tree' = [tree EXCEPT ![myDir] = file[cmd.arg]]
  /\ file' = [file EXCEPT ![cmd.arg] = "none"]
  /\ Done
  /\ UNCHANGED <<tmp, result, history>>

\* The catch deletes the directory and the file.
FetchFail ==
  /\ AtStep("curl") \/ AtStep("move")
  /\ tree' = [tree EXCEPT ![myDir] = "none"]
  /\ file' = [file EXCEPT ![cmd.arg] = "none"]
  /\ Done
  /\ UNCHANGED <<tmp, result, history>>

-----------------------------------------------------------------------------
(***************************************************************************)
(* Tgz, Tbz2 and Zip, called by the script or by Http and Wget.            *)
(***************************************************************************)
\* Variant: the archive is unpacked in the directory itself.
UnpackHere ==
  /\ AtCommand("Unpack") /\ tree[myDir] = "none"
  /\ tree' = [tree EXCEPT ![myDir] = "partial"]
  /\ Goto("unpack")
  /\ UNCHANGED <<tmp, file, result, history>>

Unpack ==
  /\ AtCommand("Unpack") /\ tree[myDir] = "none"
  /\ tmp' = [tmp EXCEPT ![myDir] = "partial"]
  /\ Goto("unpack")
  /\ UNCHANGED <<tree, file, result, history>>

Unpacked ==
  /\ AtStep("unpack") /\ file[cmd.arg] = "whole"
  /\ tmp' = [tmp EXCEPT ![myDir] = "whole"]
  /\ Goto("rename")
  /\ UNCHANGED <<tree, file, result, history>>

\* Behind the unpacking, Http and Wget delete what they have downloaded.
Unpacks == IF cmd.type = "Fetch" THEN Goto("delete") ELSE Done

\* The one directory in .tmp is moved out, or .tmp itself is renamed.
Rename ==
  /\ AtStep("rename")
  /\ tree' = [tree EXCEPT ![myDir] = "whole"]
  /\ \/ tmp' = [tmp EXCEPT ![myDir] = "rest"] /\ Goto("tidy")
     \/ tmp' = [tmp EXCEPT ![myDir] = "none"] /\ Unpacks
  /\ UNCHANGED <<file, result, history>>

\* What glob has listed was all there was in .tmp.
Tidy ==
  /\ AtStep("tidy") /\ cmd.arg \notin Hidden
  /\ tmp' = [tmp EXCEPT ![myDir] = "none"] /\ UNCHANGED tree
  /\ Unpacks
  /\ UNCHANGED <<file, result, history>>

\* Variant: a failed unpacking leaves .tmp behind.
UnpackFailKeeps ==
  /\ AtStep("unpack") \/ AtStep("rename")
  /\ tree' = [tree EXCEPT ![myDir] = "none"]
  /\ Unpacks
  /\ UNCHANGED <<tmp, file, result, history>>

\* The catch deletes .tmp and the directory, and hides the error.
UnpackFail ==
  /\ AtStep("unpack") \/ AtStep("rename")
  /\ tmp' = [tmp EXCEPT ![myDir] = "none"]
  /\ tree' = [tree EXCEPT ![myDir] = "none"]
  /\ Unpacks
  /\ UNCHANGED <<file, result, history>>

\* A hidden file, which glob * does not list, is left: .tmp cannot be deleted
\* without -force.  The catch deletes it, and begins to delete the directory.
TidyFails ==
  /\ AtStep("tidy") /\ cmd.arg \in Hidden
  /\ tmp' = [tmp EXCEPT ![myDir] = "none"]
  /\ tree' = [tree EXCEPT ![myDir] = "partial"]
  /\ Goto("discard")
  /\ UNCHANGED <<file, result, history>>

\* The last of a directory that a catch deletes.
Discarded ==
  /\ AtStep("discard")
  /\ tree' = [tree EXCEPT ![myDir] = "none"]
  /\ Unpacks
  /\ UNCHANGED <<tmp, file, result, history>>

Delete ==
  /\ AtStep("delete")
  /\ file' = [file EXCEPT ![cmd.arg] = "none"] /\ UNCHANGED tree
  /\ Done
  /\ UNCHANGED <<tmp, result, history>>

-----------------------------------------------------------------------------
(***************************************************************************)
(* Link: a child process runs the command sources for another package.     *)
(***************************************************************************)
LinkSelf ==
  /\ AtCommand("Link") /\ cmd.arg = me.pkg
  /\ Ends(FALSE)
  /\ UNCHANGED <<files, history>>

\* Variant: Link does not compare its argument with the package.
LinkUnchecked ==
  /\ AtCommand("Link") /\ tree[myDir] = "none"
  /\ Goto("child")
  /\ UNCHANGED <<files, result, history>>

Link ==
  /\ AtCommand("Link") /\ cmd.arg # me.pkg /\ tree[myDir] = "none"
  /\ Goto("child")
  /\ UNCHANGED <<files, result, history>>

Spawn ==
  /\ AtStep("child") /\ cmd.arg \in Pkg /\ Len(procs) < MaxProcs
  /\ procs' = Append(procs, NewProcess(cmd.arg))
  /\ UNCHANGED <<files, result, history>>

\* The child finds no package of that name, or fails before it evaluates one.
SpawnFails ==
  /\ AtStep("child") /\ Len(procs) < MaxProcs
  /\ Goto("failed")
  /\ UNCHANGED <<files, result, history>>

Linked ==
  /\ AtStep("linked")
  /\ UNCHANGED tree /\ Done
  /\ UNCHANGED <<tmp, file, result, history>>

\* Variant: the catch deletes the directory of the package that links.
LinkFailedOwn ==
  /\ AtStep("failed")
  /\ tree' = [tree EXCEPT ![me.pkg] = "none"]
  /\ Done
  /\ UNCHANGED <<tmp, file, result, history>>

\* The child has failed: the catch begins to delete what it was to make.
LinkFailed ==
  /\ AtStep("failed")
  /\ tree' = [tree EXCEPT ![myDir] = IF @ = "none" THEN "none" ELSE "partial"]
  /\ Goto("discard")
  /\ UNCHANGED <<tmp, file, result, history>>

\* Ctrl-C ends all processes.
Kill ==
  /\ procs # <<>>
  /\ procs' = <<>> /\ killed' = TRUE /\ result' = "none"
  /\ UNCHANGED <<files, before>>

-----------------------------------------------------------------------------
Step ==
  \/ ScriptEnds \/ Other \/ Exists \/ Update
  \/ Checkout \/ CheckoutOk \/ CheckoutFail
  \/ Fetch \/ CurlOk \/ Move \/ FetchFail
  \/ Unpack \/ Unpacked \/ Rename \/ Tidy \/ TidyFails
  \/ UnpackFail \/ Discarded \/ Delete
  \/ LinkSelf \/ Link \/ Spawn \/ SpawnFails \/ Linked \/ LinkFailed

Next == (\E p \in Pkg : Begin(p)) \/ Step \/ Kill

Spec == Init /\ [][Next]_vars

\* The processes run until they end, and so do the programs they execute.
FairSpec == Spec /\ WF_vars(Step)

-----------------------------------------------------------------------------
(***************************************************************************)
(* Properties.                                                             *)
(***************************************************************************)
\* The packages that the script of q links to.
LinksOf(q) ==
  {p \in Pkg : \E i \in 1..Len(Script[q]) : Script[q][i] = [type |-> "Link", arg |-> p]}

\* The packages whose script only downloads archives or unpacks them.  What the
\* code does not keep whole is left out: an archive with hidden files, whose
\* directory the catch deletes again (kbs.tcl:834), and a package with commands
\* that may fail behind the unpacking if another one links to it, since Link then
\* deletes its directory (kbs.tcl:704).  Killed there, both leave a part.
Archived == {p \in Pkg : \A i \in 1..Len(Script[p]) : LET c == Script[p][i] IN
                \/ c.type = "Unpack" /\ c.arg \notin Hidden
                \/ c.type = "Fetch" /\ Kind[c.arg] # "kit" /\ c.arg \notin Hidden
                \/ c.type = "Other" /\ \A q \in Pkg : p \notin LinksOf(q)}

\* Whenever kbs is killed, in the middle of a deletion too, the directory of such
\* a package is whole or does not exist, so that the next command, which trusts
\* what exists (kbs.tcl:816), builds from whole sources or fetches them again.
\* A Link whose child fails must find nothing of it to delete.  KbsBuild relies on
\* it (Staged).
ArchivesWhole == \A p \in Archived : tree[p] \in {"none", "whole"}

\* Failing commands delete half fetched directories, those of child processes
\* included (kbs.tcl:704), but nothing that existed when the run began.
Preserved == procs # <<>> => \A n \in before : tree[n] # "none"

\* _(srcdir) of a process names an existing directory, also when later commands
\* of its script, or of its children, failed and cleaned up.
SrcdirExists ==
  \A i \in 1..Len(procs) : procs[i].srcdir # None => tree[procs[i].srcdir] # "none"

\* Without kills, half of a directory, an archive or a .tmp directory is left
\* by no command, however it ends.
LeavesNothingHalf ==
  procs = <<>> /\ ~killed =>
    /\ \A n \in Name : tree[n] \notin {"empty", "partial"}
    /\ \A n \in Name : tmp[n] = "none"
    /\ \A f \in File : Kind[f] # "other" => file[f] = "none"

\* The packages from which no circle of Links is reached: the least set with every
\* package that links only to members, or to itself, which is refused.
Grounded == {p \in Pkg : \A S \in SUBSET Pkg :
               (\A q \in Pkg : LinksOf(q) \ {q} \subseteq S => q \in S) => p \in S}

\* A run for such a package ends, however its commands and children fail.  Only a
\* link of a package to itself is refused (kbs.tcl:691): two packages that link to
\* each other start processes without end.
Terminates == (procs # <<>> /\ procs[1].pkg \in Grounded) ~> procs = <<>>

(***************************************************************************)
(* The inductive invariant behind the proofs.                              *)
(***************************************************************************)
\* Between two steps of a command the process is at a command of that type, and
\* only the last process is not waiting.
StepsMatch ==
  \A i \in 1..Len(procs) : LET p == procs[i] IN
    /\ p.pc = "checkout" => CommandOf(p).type = "InPlace"
    /\ p.pc \in {"curl", "move", "delete"} => CommandOf(p).type = "Fetch"
    /\ p.pc = "move" => Kind[CommandOf(p).arg] = "kit"
    /\ p.pc \in {"unpack", "rename", "tidy"} => CommandOf(p).type \in {"Fetch", "Unpack"}
    /\ p.pc \in {"child", "linked", "failed"} => CommandOf(p).type = "Link"
    /\ p.pc = "discard" => CommandOf(p).type \in {"Fetch", "Unpack", "Link"}
    /\ i < Len(procs) => p.pc = "child"

\* A command at work makes a directory that did not exist when the run began,
\* and that no process up to this one has as its _(srcdir).
MakesNew ==
  \A j \in 1..Len(procs) : procs[j].pc # "command" =>
    /\ myDirOf(procs[j]) \notin before
    /\ \A i \in 1..j : procs[i].srcdir # myDirOf(procs[j])

\* A process evaluates the package that the one before it links to.  A child that
\* fails has left nothing of an archived package: while _(srcdir) is empty there
\* is nothing, and the scripts of these packages fail only at their end.
FailsEmpty ==
  /\ \A i \in 2..Len(procs) : procs[i].pkg = CommandOf(procs[i-1]).arg
  /\ procs # <<>> =>
       /\ me.pc = "child" => tree[myDir] = "none"
       /\ me.pc = "failed" /\ myDir \in Archived => tree[myDir] = "none"
       /\ me.pc = "command" /\ me.srcdir = None /\ Len(procs) > 1 /\ me.pkg \in Archived
            => tree[me.pkg] = "none"

IInv ==
  /\ TypeOK
  /\ StepsMatch
  /\ MakesNew
  /\ Preserved
  /\ SrcdirExists
  /\ ArchivesWhole
=============================================================================
