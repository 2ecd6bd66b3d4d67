---------------------------- MODULE OrderedBuild ----------------------------
(***************************************************************************)
(* What kbs promises about the order in which packages are built,          *)
(* whatever way it walks through the definitions: a request concerns some  *)
(* packages, and, when it is strict, a package is worked on, and counts as *)
(* loaded, only once everything it uses has been loaded for this request.  *)
(***************************************************************************)
CONSTANTS
  Pkg,    \* the defined packages
  Needs,   \* the names each package uses
  State   \* what a package may have in the file system

VARIABLES
  strict,   \* TRUE if the request must build in the order of the dependencies
  wanted,   \* the packages the request concerns
  loaded,   \* the packages evaluated for this request
  state     \* each package's files

vars == <<strict, wanted, loaded, state>>

Init ==
  /\ strict \in BOOLEAN
  /\ wanted \subseteq Pkg
  /\ loaded = {}
  /\ state \in [Pkg -> State]

\* A new request, or the end of the process that served the last one.
Begin ==
  /\ strict' \in BOOLEAN /\ wanted' \in SUBSET Pkg
  /\ loaded' = {}
  /\ UNCHANGED state

MayTouch(p) == p \in wanted /\ (strict => Needs[p] \subseteq loaded)

Work(p) ==
  /\ MayTouch(p)
  /\ \E s \in State : state' = [state EXCEPT ![p] = s]
  /\ UNCHANGED <<strict, wanted, loaded>>

Load(p) ==
  /\ MayTouch(p)
  /\ loaded' = loaded \union {p}
  /\ UNCHANGED <<strict, wanted, state>>

Next == Begin \/ \E p \in Pkg : Work(p) \/ Load(p)

Spec == Init /\ [][Next]_vars
=============================================================================
