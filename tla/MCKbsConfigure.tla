--------------------------- MODULE MCKbsConfigure ---------------------------
(***************************************************************************)
(* Instances of KbsConfigure.  Every place holds up to two lines, so that  *)
(* the order of places and that of lines within a place both show; the     *)
(* command line has options, a wrong option and a command in all orders.   *)
(* The file of -pkgfile sets two elements of `_` and the kits.             *)
(***************************************************************************)
EXTENDS KbsConfigure

Set(v, x) == [kind |-> "set", var |-> v, val |-> x]
Kit(ks) == [kind |-> "kit", kits |-> ks]
Dash(name) == [kind |-> "dash", name |-> name]
Name(name) == [kind |-> "word", name |-> name]

MCVars == {"builddir", "target-sys", "pkgfile", "kitcli", "kitdyn", "kitgui", "CC"}
MCValues == {"none", "gcc", "cc", "clang", "unix", "win", "buildunix", "buildwin", "mine", "defs.tcl"}
MCDefault ==
  [v \in MCVars |-> CASE v = "CC" -> "gcc"
                      [] v = "target-sys" -> "unix"
                      [] v = "builddir" -> "buildunix"
                      [] OTHER -> "none"]
MCDirOf == [x \in MCValues |-> IF x = "win" THEN "buildwin" ELSE "buildunix"]
MCFound == [v \in Interpreters |-> IF v = "kitcli" THEN "mine" ELSE "none"]
MCPkgFile ==
  [x \in MCValues |-> IF x = "defs.tcl"
                       THEN <<Set("CC", "clang"), Kit({"vq-dyn"}), Set("kitcli", "mine"),
                              Kit({"vq-cli", "vq-dyn"})>>
                       ELSE <<>>]
MCKits == DefaultKits \cup {"vq-cli", "vq-dyn", "vq-gui"}
MCNames == {"install", "gui", "help", "nosuch", "-git", "none"}
MCCommands == {"install", "gui", "help"}

\* A line that is a comment, one option, two options, a command.
Lines ==
  {<<>>, <<Set("CC", "clang")>>, <<Set("CC", "cc"), Kit({"vq-cli"})>>,
   <<Set("kitcli", "cc")>>, <<Name("install")>>}

UpTo(n, S) == UNION {[1..k -> S] : k \in 0..n}

CommandLines ==
  UpTo(2, {Set("CC", "gcc"), Set("CC", "cc"), Kit({"vq-cli"}), Kit({"mk-cli"}),
           Set("builddir", "mine"), Set("target-sys", "win"), Set("pkgfile", "defs.tcl"),
           Dash("-git"), Name("install"), Name("gui"), Name("nosuch")})

MCPlaces ==
  [home: UpTo(2, Lines), local: UpTo(1, Lines \ {<<>>}), env: UpTo(1, Lines),
   cmdline: CommandLines]
=============================================================================
