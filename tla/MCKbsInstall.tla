---------------------------- MODULE MCKbsInstall ----------------------------
(***************************************************************************)
(* An instance of KbsInstall for TLC: two versions of a library, the first *)
(* of which has a file that the second has not, and whose second has no    *)
(* pkgIndex.tcl; a source file of four lines, and two patches for it.  The *)
(* new text of the first patch begins with the old one, as that of         *)
(* trofs0.4.6 (kbs-pkg-db.tcl:906) does, and adds a line, so that the      *)
(* second one counts lines behind it.                                      *)
(***************************************************************************)
EXTENDS KbsInstall, TLC

MCFiles   == {"pkgIndex.tcl", "lib", "extra"}
MCShipped == (1 :> MCFiles) @@ (2 :> {"lib"})

MCOriginal == <<"a", "nl", "b", "nl", "c", "nl">>

MCPatches ==
  << [line |-> 2, old |-> <<"b">>,       new |-> <<"b", "d", "nl", "e">>],
     [line |-> 4, old |-> <<"c", "nl">>, new |-> <<"nl">>] >>

MCAfter ==
  [k \in 0 .. 2 |->
     FoldLeft(Patched, MCOriginal, SubSeq(MCPatches, 1, k))]
=============================================================================
