---------------------------- MODULE MCKbsBuild ----------------------------
(***************************************************************************)
(* Instances of KbsBuild for TLC: excerpts of kbs-pkg-db.tcl.              *)
(***************************************************************************)
EXTENDS KbsBuild

\* A kit uses a tcl and a tk, which uses the tcl too: a diamond.
MCPkg == {"tcl", "tk", "kit"}
MCUses == [tcl |-> <<>>, tk |-> << <<"tcl">> >>, kit |-> << <<"tk">>, <<"tcl">> >>]
MCSections == [tcl |-> {"Source", "Configure", "Make", "Install"},
               tk  |-> {"Require", "Source", "Configure", "Install", "Test"},
               kit |-> {"Require", "Source", "Configure", "Make", "Install"}]
MCSrcOf == [tcl |-> "tcl", tk |-> "tk", kit |-> "tcl"]
MCStaged == {"tcl"}

\* The same with two packages that use each other, and with a Use of a package
\* nobody defines (as iwidgets4.0.2 has, by way of itk3.4), in a nested
\* evaluation and again behind it.
GapUses == [tcl |-> << <<"tk">> >>, tk |-> << <<"tcl", "gone">> >>,
            kit |-> << <<"tk", "tcl">>, <<"gone", "tcl">> >>]
GapSections == [tcl |-> {"Require", "Source", "Configure", "Make", "Clean", "Install"},
                tk  |-> {"Require", "Configure", "Make", "Test"},
                kit |-> {"Require", "Source", "Install"}]

Strictly == {[recursive |-> TRUE, ignore |-> FALSE]}
Anyhow   == [recursive : BOOLEAN, ignore : BOOLEAN]
\* One pattern, a pattern that matches two packages, two patterns, and a second
\* pattern that matches nothing.
AskMany  == {<<{"kit"}>>, <<{"tcl", "kit"}>>, <<{"tk"}, {"tcl"}>>, <<{"tcl"}, {}>>}
=============================================================================
