---------------------------- MODULE Installation ----------------------------
(***************************************************************************)
(* What an Install section promises to those who use the library: it is    *)
(* there in one version or not there, only an installation that runs takes *)
(* it away or brings it, in the version it installs, and one that ends     *)
(* without an error leaves that version behind.                            *)
(***************************************************************************)
EXTENDS Naturals

CONSTANT Versions

VARIABLES view,  \* the version that is there, 0 if none is
          asked, \* the version that is being installed, 0 if none is
          done   \* the version that the last installation has left, if any

vars == <<view, asked, done>>

Init == view = 0 /\ asked = 0 /\ done = 0

Begin == /\ asked = 0
         /\ asked' \in Versions
         /\ done' = 0
         /\ UNCHANGED view

Withdraw == /\ asked # 0
            /\ view' = 0
            /\ UNCHANGED <<asked, done>>

Publish == /\ asked # 0
           /\ view' = asked
           /\ UNCHANGED <<asked, done>>

End == /\ asked # 0 /\ view = asked
       /\ asked' = 0
       /\ done' = asked
       /\ UNCHANGED view

Abort == /\ asked # 0
         /\ asked' = 0
         /\ UNCHANGED <<view, done>>

Next == Begin \/ Withdraw \/ Publish \/ End \/ Abort

Spec == Init /\ [][Next]_vars
=============================================================================
