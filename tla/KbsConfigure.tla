---------------------------- MODULE KbsConfigure ----------------------------
(***************************************************************************)
(* The start of kbs: `_configure` (kbs.tcl:1558-1696) collects options     *)
(* from ~/.kbsrc, ./kbsrc, the environment variable KBSRC and the command  *)
(* line, evaluates them from left to right, prepares the build directory   *)
(* and sources the file of -pkgfile, which may set elements of `_` again;  *)
(* `kbs_main` (kbs.tcl:1708-1738) calls the command.                       *)
(*                                                                         *)
(* A line of a file is a sequence of words, the empty sequence being a     *)
(* line that is blank or a comment.  A word is a record:                   *)
(*   "set"    -name=value, --enable-name, -v ..: assigns to `_(var)`       *)
(*   "kit"    -mk, -vq-cli ..: adds `kits` to `_(kit)`                     *)
(*   "dash"   anything else that begins with a dash                        *)
(*   "word"   anything else: a command or its argument                     *)
(***************************************************************************)
EXTENDS Naturals, Sequences

CONSTANTS
  Places,       \* what the four places may hold, see PlacesAssumption
  Vars,         \* names of the elements of `_` that options set
  Values,       \* their values, build directories included
  Default,      \* [Vars -> Values]: the values `_` starts with
  DirOf,        \* [Values -> Values]: the build directory of a target
  Found,        \* [{"kitcli", ..} -> Values]: what glob finds in its bin/
  PkgFile,      \* what a file that -pkgfile names sets, outside its Packages
  Kits,         \* names of kits
  Names,        \* what is no option, and what only looks like one
  Commands      \* names of the commands in ::kbs

\* The elements of `_` with the default found in bin/, kbs.tcl:1679.
Interpreters == {"kitcli", "kitdyn", "kitgui"}

\* kbs.tcl:1678
DefaultKits == {"mk-cli", "mk-dyn", "mk-gui"}

Word == [kind: {"set"}, var: Vars, val: Values]
  \cup [kind: {"kit"}, kits: SUBSET Kits]
  \cup [kind: {"dash"}, name: Names]
  \cup [kind: {"word"}, name: Names]

Line == Seq(Word)

\* `set ::kbs::build::_(CC) g++`, kbs.tcl:390-391.
Definition == [kind: {"set"}, var: Vars \ {"pkgfile"}, val: Values]
  \cup [kind: {"kit"}, kits: SUBSET Kits]

ASSUME VarsAssumption ==
  /\ {"builddir", "target-sys", "pkgfile"} \cup Interpreters \subseteq Vars
  /\ Default \in [Vars -> Values]
  /\ DirOf \in [Values -> Values]
  /\ Found \in [Interpreters -> Values]
  /\ DefaultKits \subseteq Kits
  /\ "none" \in Values
  /\ Commands \cup {"none", "help"} \subseteq Names

ASSUME PkgFileAssumption ==
  /\ PkgFile \in [Values -> Seq(Definition)]
  /\ PkgFile["none"] = <<>>

ASSUME PlacesAssumption ==
  Places \subseteq [home: Seq(Line), local: Seq(Line), env: Seq(Line), cmdline: Line]

VARIABLES
  places,   \* the contents of ~/.kbsrc, ./kbsrc, KBSRC and the command line
  pc,       \* "read", "add", "parse", "finish", "source", "main", "gui", "exit"
  opts,     \* lines of myOpts still to be added to args
  args,     \* args
  index,    \* myIndex + 1
  val,      \* the elements of `_` (and of ignore, recursive, verbose)
  kit,      \* _(kit)
  made,     \* the build directory: "no", "partly" or "yes"
  defined,  \* how many definitions of the file of -pkgfile have been evaluated
  outcome   \* [exit: 0..1, ran: the command that was called, or "none"]

vars == <<places, pc, opts, args, index, val, kit, made, defined, outcome>>

NoOutcome == [exit |-> 0, ran |-> "none"]

Failure == [exit |-> 1, ran |-> "none"]

Init ==
  /\ places \in Places
  /\ pc = "read"
  /\ opts = <<>>
  /\ args = places.cmdline
  /\ index = 1
  /\ val = Default
  /\ kit = {}
  /\ made = "no"
  /\ defined = 0
  /\ outcome = NoOutcome

-----------------------------------------------------------------------------
(* Collecting the options.                                                  *)

\* The two files, then the variable, one after the other into myOpts.
Read ==
  /\ pc = "read"
  /\ opts' = places.home \o places.local \o places.env
  /\ pc' = "add"
  /\ UNCHANGED <<places, args, index, val, kit, made, defined, outcome>>

\* Variant: lines appended as they are read: the last place would win.
VariantAddLine ==
  /\ pc = "add"
  /\ opts # <<>>
  /\ args' = args \o Head(opts)
  /\ opts' = Tail(opts)
  /\ UNCHANGED <<places, pc, index, val, kit, made, defined, outcome>>

\* Each line goes in front of what has been collected so far.
AddLine ==
  /\ pc = "add"
  /\ opts # <<>>
  /\ args' = Head(opts) \o args
  /\ opts' = Tail(opts)
  /\ UNCHANGED <<places, pc, index, val, kit, made, defined, outcome>>

StartParsing ==
  /\ pc = "add"
  /\ opts = <<>>
  /\ pc' = "parse"
  /\ UNCHANGED <<places, opts, args, index, val, kit, made, defined, outcome>>

-----------------------------------------------------------------------------
(* The loop over args.                                                      *)

AtWord(kind) ==
  /\ pc = "parse"
  /\ index \in 1..Len(args)
  /\ args[index].kind = kind

SetOption ==
  /\ AtWord("set")
  /\ val' = [val EXCEPT ![args[index].var] = args[index].val]
  /\ index' = index + 1
  /\ UNCHANGED <<places, pc, opts, args, kit, made, defined, outcome>>

\* Variant: set instead of lappend.
VariantKitOption ==
  /\ AtWord("kit")
  /\ kit' = args[index].kits
  /\ index' = index + 1
  /\ UNCHANGED <<places, pc, opts, args, val, made, defined, outcome>>

KitOption ==
  /\ AtWord("kit")
  /\ kit' = kit \cup args[index].kits
  /\ index' = index + 1
  /\ UNCHANGED <<places, pc, opts, args, val, made, defined, outcome>>

\* Variant: the error of the default branch left to the end of the loop, that is lost.
VariantWrongOption ==
  /\ AtWord("dash")
  /\ index' = index + 1
  /\ UNCHANGED <<places, pc, opts, args, val, kit, made, defined, outcome>>

\* return -code error; kbs_main prints it and exits.
WrongOption ==
  /\ AtWord("dash")
  /\ pc' = "exit"
  /\ outcome' = Failure
  /\ UNCHANGED <<places, opts, args, index, val, kit, made, defined>>

\* The first word that is no option, and what follows it, is the command.
FirstWord ==
  /\ AtWord("word")
  /\ args' = SubSeq(args, index, Len(args))
  /\ pc' = "finish"
  /\ UNCHANGED <<places, opts, index, val, kit, made, defined, outcome>>

\* There are options only: args stays as it is.
NoWord ==
  /\ pc = "parse"
  /\ index = Len(args) + 1
  /\ pc' = "finish"
  /\ UNCHANGED <<places, opts, args, index, val, kit, made, defined, outcome>>

-----------------------------------------------------------------------------
(* Completing the values, and the call of the command.                      *)

\* _(builddir) is computed again from the target; unset values get defaults.
Settled ==
  [v \in Vars |-> IF v = "builddir" THEN DirOf[val["target-sys"]]
                  ELSE IF v \in Interpreters /\ val[v] = "none" THEN Found[v]
                  ELSE val[v]]

\* Variant: the default names an option instead of the kits it stands for.
VariantSettledKits == IF kit = {} THEN {"mk"} ELSE kit

SettledKits == IF kit = {} THEN DefaultKits ELSE kit

Finish ==
  /\ pc = "finish"
  /\ val' = Settled
  /\ kit' = SettledKits
  /\ made' = "yes"
  /\ pc' = "source"
  /\ UNCHANGED <<places, opts, args, index, defined, outcome>>

\* A directory or the link to it cannot be made.
FinishFails ==
  /\ pc = "finish"
  /\ val' = Settled
  /\ kit' = SettledKits
  /\ made' = "partly"
  /\ pc' = "exit"
  /\ outcome' = Failure
  /\ UNCHANGED <<places, opts, args, index, defined>>

-----------------------------------------------------------------------------
(* The file of -pkgfile.                                                    *)

Definitions == PkgFile[val["pkgfile"]]

\* The next definition replaces what the options have set.
Define ==
  /\ pc = "source"
  /\ defined < Len(Definitions)
  /\ LET d == Definitions[defined + 1] IN
       \/ d.kind = "set" /\ val' = [val EXCEPT ![d.var] = d.val] /\ UNCHANGED kit
       \/ d.kind = "kit" /\ kit' = d.kits /\ UNCHANGED val
  /\ defined' = defined + 1
  /\ UNCHANGED <<places, pc, opts, args, index, made, outcome>>

\* The file cannot be read, or raises an error.
SourceFails ==
  /\ pc = "source"
  /\ val["pkgfile"] # "none"
  /\ pc' = "exit"
  /\ outcome' = Failure
  /\ UNCHANGED <<places, opts, args, index, val, kit, made, defined>>

Sourced ==
  /\ pc = "source"
  /\ defined = Len(Definitions)
  /\ pc' = "main"
  /\ UNCHANGED <<places, opts, args, index, val, kit, made, defined, outcome>>

\* The command is found by its name; only gui keeps the process alive.
CallCommand ==
  /\ pc = "main"
  /\ args # <<>>
  /\ args[1].kind = "word"
  /\ args[1].name \in Commands
  /\ \E failed \in BOOLEAN :
       /\ outcome' = [exit |-> IF failed THEN 1 ELSE 0, ran |-> args[1].name]
       /\ pc' = IF ~failed /\ args[1].name = "gui" THEN "gui" ELSE "exit"
  /\ UNCHANGED <<places, opts, args, index, val, kit, made, defined>>

NoCommand ==
  /\ pc = "main"
  /\ args = <<>>
  /\ pc' = "exit"
  /\ outcome' = [exit |-> 0, ran |-> "help"]
  /\ UNCHANGED <<places, opts, args, index, val, kit, made, defined>>

NotFound ==
  /\ pc = "main"
  /\ args # <<>>
  /\ ~(args[1].kind = "word" /\ args[1].name \in Commands)
  /\ pc' = "exit"
  /\ outcome' = Failure
  /\ UNCHANGED <<places, opts, args, index, val, kit, made, defined>>

\* The process has ended, or waits in the event loop of the interface.
Stopped == pc \in {"exit", "gui"} /\ UNCHANGED vars

Step ==
  \/ Read \/ AddLine \/ StartParsing
  \/ SetOption \/ KitOption \/ WrongOption \/ FirstWord \/ NoWord
  \/ Finish \/ FinishFails \/ Define \/ SourceFails \/ Sourced \/ CallCommand \/ NoCommand \/ NotFound

Next == Step \/ Stopped

Spec == Init /\ [][Next]_vars

-----------------------------------------------------------------------------
(* Properties.                                                              *)

TypeOK ==
  /\ places \in Places
  /\ pc \in {"read", "add", "parse", "finish", "source", "main", "gui", "exit"}
  /\ opts \in Seq(Line)
  /\ args \in Line
  /\ index \in Nat \ {0}
  /\ val \in [Vars -> Values]
  /\ kit \subseteq Kits
  /\ made \in {"no", "partly", "yes"}
  /\ defined \in Nat
  /\ outcome \in [exit: 0..1, ran: Names]

Sets(word, v) == word.kind = "set" /\ word.var = v

\* The last of the first n words of s that sets v sets it to x.
SetsLast(s, n, v, x) ==
  \E j \in 1..n : /\ Sets(s[j], v)
                  /\ s[j].val = x
                  /\ \A k \in (j+1)..n : ~Sets(s[k], v)

\* The first n words of s are options, and no more of them are.
OptionsEnd(s, n) ==
  /\ \A j \in 1..n : s[j].kind # "word"
  /\ n < Len(s) => s[n + 1].kind = "word"

NoWords(line) == \A j \in 1..Len(line) : line[j].kind # "word"

OptionsOnly(lines) == \A i \in 1..Len(lines) : NoWords(lines[i])

\* As long as the files and KBSRC hold options only.
OnlyOptionsInPlaces ==
  OptionsOnly(places.home) /\ OptionsOnly(places.local) /\ OptionsOnly(places.env)

\* The options have been evaluated without an error.
Configured == pc = "finish" \/ made # "no"

\* The definitions read so far set v.
Defines(v) == \E j \in 1..defined : Sets(Definitions[j], v)

(* What the command line sets is what holds, whatever the three other       *)
(* places hold and in whatever order they are read, until the file of       *)
(* -pkgfile sets it: then its last definition holds (kbs.tcl:390, 1692).    *)
(* _(builddir) is excepted (kbs.tcl:1674), and a file that names a command  *)
(* hides the command line.                                                  *)
CommandLineWins ==
  Configured /\ OnlyOptionsInPlaces =>
    \A n \in 0..Len(places.cmdline), v \in Vars \ {"builddir"}, x \in Values \ {"none"} :
      OptionsEnd(places.cmdline, n) /\ SetsLast(places.cmdline, n, v, x) =>
        IF Defines(v) THEN SetsLast(Definitions, defined, v, val[v]) ELSE val[v] = x

(* A wrong option anywhere in front of the command, in any of the places,   *)
(* is found before anything is created or executed (kbs.tcl:1665, 1684).    *)
WrongOptionFirst ==
  Configured /\ OnlyOptionsInPlaces =>
    /\ \A n \in 0..Len(places.cmdline) :
         OptionsEnd(places.cmdline, n) =>
           \A j \in 1..n : places.cmdline[j].kind # "dash"
    /\ \A lines \in {places.home, places.local, places.env} :
         \A i \in 1..Len(lines) : \A j \in 1..Len(lines[i]) :
           lines[i][j].kind # "dash"

\* The kits that the first n words of s ask for.
KitsOf(s, n) == UNION {s[j].kits : j \in {k \in 1..n : s[k].kind = "kit"}}

KitsOfLines(lines) == UNION {KitsOf(lines[i], Len(lines[i])) : i \in 1..Len(lines)}

\* The last of the first n words of s that asks for kits asks for x.
KitsLast(s, n, x) ==
  \E j \in 1..n : /\ s[j].kind = "kit"
                  /\ s[j].kits = x
                  /\ \A k \in (j+1)..n : s[k].kind # "kit"

(* The kits add up over the four places, each of them once; the default     *)
(* stands in for none at all, never for a part (kbs.tcl:1643-1664, 1678).   *)
(* Only the file of -pkgfile replaces them.                                 *)
KitsAddUp ==
  made # "no" /\ OnlyOptionsInPlaces =>
    \A n \in 0..Len(places.cmdline) : OptionsEnd(places.cmdline, n) =>
      LET asked == KitsOf(places.cmdline, n) \cup KitsOfLines(places.home)
                   \cup KitsOfLines(places.local) \cup KitsOfLines(places.env)
      IN  \/ KitsLast(Definitions, defined, kit)
          \/ /\ \A j \in 1..defined : Definitions[j].kind # "kit"
             /\ kit = IF asked = {} THEN DefaultKits ELSE asked

-----------------------------------------------------------------------------
(* What the documentation says, and the code does not do.                   *)

LastLineSets(lines, v, x) ==
  /\ lines # <<>>
  /\ LET line == lines[Len(lines)] IN SetsLast(line, Len(line), v, x)

\* kbs.tcl:383-389, "can be done in the following order": files, KBSRC, ..
KbsrcAfterFiles ==
  Configured /\ OnlyOptionsInPlaces =>
    \A v \in Vars \ {"builddir"}, x \in Values \ {"none"} :
      /\ LastLineSets(places.env, v, x)
      /\ \A j \in 1..Len(places.cmdline) : ~Sets(places.cmdline[j], v)
      /\ ~Defines(v)
      => val[v] = x

\* kbs-help.tcl:11, -builddir=?dir? sets the used building directory.
BuilddirIsUsed ==
  made = "yes" /\ ~Defines("builddir") => \A n \in 0..Len(places.cmdline), x \in Values :
            OptionsEnd(places.cmdline, n) /\ SetsLast(places.cmdline, n, "builddir", x)
              => val["builddir"] = x
=============================================================================
