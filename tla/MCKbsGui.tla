------------------------------ MODULE MCKbsGui ------------------------------
(***************************************************************************)
(* An instance of KbsGui for TLC: tcl, whose Install writes tclConfig.sh,  *)
(* zlib, whose Configure reads it (kbs-pkg-db.tcl:1076), and a package     *)
(* that makes and installs kits, with one kit (kbs-pkg-db.tcl:294).        *)
(***************************************************************************)
EXTENDS KbsGui, TLC

MCListed == <<"kit", "tcl", "zlib">>
MCPkg == Range(MCListed)
MCSelections == {SelectSeq(MCListed, LAMBDA p : p \in selected) : selected \in SUBSET MCPkg}

MCScript ==
     "kit"  :> [Source |-> <<"run">>, Configure |-> <<"run">>,
                Make |-> <<"run">>, Install |-> <<"run">>]
  @@ "tcl"  :> [Source |-> <<"run">>, Configure |-> <<"run">>,
                Make |-> <<"run">>, Install |-> <<"config">>]
  @@ "zlib" :> [Source |-> <<"run">>, Configure |-> <<"tcl", "run">>,
                Make |-> <<"run">>, Install |-> <<"run">>]
=============================================================================
