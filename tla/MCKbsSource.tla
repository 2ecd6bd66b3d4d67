---------------------------- MODULE MCKbsSource ----------------------------
(***************************************************************************)
(* An instance of KbsSource for TLC, after the Source scripts of           *)
(* kbs-pkg-db.tcl.                                                         *)
(***************************************************************************)
EXTENDS KbsSource

Cmd(t) == [type |-> t, arg |-> None]
To(t, a) == [type |-> t, arg |-> a]

\* iwidgets unpacks what an earlier run has left or downloads it.  sdx takes a kit,
\* or patches what it has checked out, like iwidgets4.0.2.  itk downloads an archive
\* under a name without a suffix, like tdom0.8.3, with hidden files in it, and links
\* to a package that does not exist and to iwidgets; loop links to sdx, to itk, so
\* that three processes are in a chain, and to itself; ping and pong to each other.
MCPkg == {"iwidgets", "sdx", "itk", "loop", "ping", "pong"}
MCScript == [
  iwidgets |-> <<To("Unpack", "iwidgets.tgz"), To("Fetch", "iwidgets.tgz")>>,
  sdx      |-> <<To("Fetch", "sdx.kit"), Cmd("InPlace"), Cmd("Update"), Cmd("Other")>>,
  itk      |-> <<To("Fetch", "8667ce5"), To("Unpack", "8667ce5"),
                 To("Link", "gone"), To("Link", "iwidgets")>>,
  loop     |-> <<To("Link", "sdx"), To("Link", "itk"), To("Link", "loop")>>,
  ping     |-> <<To("Link", "pong")>>,
  pong     |-> <<To("Link", "ping")>>]
MCFile == {"iwidgets.tgz", "8667ce5", "sdx.kit"}
MCKind == [f \in MCFile |-> CASE f = "sdx.kit" -> "kit" [] f = "8667ce5" -> "other"
                              [] OTHER -> "archive"]
=============================================================================
