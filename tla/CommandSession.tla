--------------------------- MODULE CommandSession ---------------------------
(***************************************************************************)
(* What the interface promises to the commands it starts: they run one at  *)
(* a time, and the options of kbs stay what they were at the start until   *)
(* the command ends.  KbsBuild takes both for granted: it starts a command *)
(* only when none runs, with settings that are fixed.                      *)
(***************************************************************************)
EXTENDS Sequences

CONSTANT Options   \* the settings that may be chosen between two commands

VARIABLES
  options,   \* those in force
  running    \* for each command that runs, the options it was started with

vars == <<options, running>>

Init == options \in Options /\ running = <<>>

Choose == running = <<>> /\ options' \in Options /\ UNCHANGED running

Start == running = <<>> /\ running' = <<options>> /\ UNCHANGED options

End == running # <<>> /\ running' = <<>> /\ UNCHANGED options

\* The process exits, and the next one starts with its own options.
Exit == running' = <<>> /\ options' \in Options

Next == Choose \/ Start \/ End \/ Exit

Spec == Init /\ [][Next]_vars
=============================================================================
