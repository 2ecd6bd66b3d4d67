--------------------------- MODULE MCKitChannels ---------------------------
(***************************************************************************)
(* An instance of KitChannels for TLC: a memory channel (rechan with mode  *)
(* 6, as vfs1.4/library/vfslib.tcl has it) and a channel that is written   *)
(* only (mode 4), which has no input to buffer.                            *)
(***************************************************************************)
EXTENDS KitChannels

MCMode == [c \in Channels |->
             IF c = "rechan1" THEN {"readable", "writable"} ELSE {"writable"}]
=============================================================================
