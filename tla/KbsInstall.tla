----------------------------- MODULE KbsInstall -----------------------------
(***************************************************************************)
(* What the sections of a package do to files that outlive the process:    *)
(* Configure patches a source file with Patch, Install brings the library  *)
(* to builddir/lib, with make install and Libdir or with Tcl.  Every step  *)
(* that others can see is an action, and the process may end before any of *)
(* them, killed or with an error of the step; a section is then evaluated  *)
(* again from its beginning, perhaps with other sources.                   *)
(*                                                                         *)
(* A directory is a function from the files of the library to the version  *)
(* they are of, 0 for those that are not there.  A copied file is whole.   *)
(***************************************************************************)
EXTENDS KbsPatch

CONSTANTS Files,       \* the files of all versions of the library
          Index,       \* pkgIndex.tcl
          MaxVersion,  \* bound on the versions of the sources
          Shipped,     \* the files each version of the sources has
          Gone,        \* a directory that does not exist
          Original,    \* the source file as it is fetched
          Patches,     \* what Configure patches, in this order
          After        \* the source file behind so many of the patches

Versions  == 1 .. MaxVersion
Directory == [Files -> 0 .. MaxVersion]
Library(v) == Shipped[v] \cup {Index}

ASSUME FilesAssumption ==
  /\ Index \in Files
  /\ MaxVersion \in Nat \ {0}
  /\ Shipped \in [Versions -> SUBSET Files]
  /\ Gone \notin Directory

ASSUME TextAssumption ==
  /\ Original \in Text
  /\ Patches \in Seq(LinePatch)
  /\ After \in [0 .. Len(Patches) -> Text]

\* The patches of a package are made for its sources and for each other: each is
\* to be found where those before it leave its old text, and its new text is not
\* there before it is applied and stays there behind those that follow.
ASSUME PatchesAssumption ==
  /\ After[0] = Original
  /\ \A k \in 1 .. Len(Patches) :
       LET p == Patches[k]
       IN  /\ At(After[k - 1], p.line, p.old)
           /\ ~At(After[k - 1], p.line, p.new)
           /\ \A j \in k .. Len(Patches) : At(After[j], p.line, p.new)
           /\ After[k] = Patched(After[k - 1], p)
           /\ ~At(<<>>, p.line, p.old) /\ ~At(<<>>, p.line, p.new)

VARIABLES kind,       \* how the package is installed
          version,    \* of the sources
          dirs,       \* builddir/lib: the names the library can have
          left,       \* the files that are yet to be copied
          text,       \* the source file
          held,       \* its new text, while Patch writes it
          at,         \* the patch that Configure comes to
          step,       \* of the section that runs
          makedir,    \* it exists
          configured, \* the last Configure of these sources has ended
          installed   \* what the last Install has left, if it has ended

vars == <<kind, version, dirs, left, text, held, at, step, makedir, configured,
          installed>>

(* Libdir: make installs under a name of its own.  Case: that name differs *)
(* from the one of the package in upper and lower case only, and the file  *)
(* system takes them for one.  Named: make installs under the name of the  *)
(* package, Libdir has nothing to do.  Tcl: the sources are the library.   *)
Kinds == {"Libdir", "Case", "Named", "Tcl"}
Names == {"dirname", "dirname.Libdir", "package"}

Installing == {"make", "clear", "aside", "remove", "rename",
               "delete", "mkdir", "copy", "index", "end"}

\* The directory that is found under the name that make knows.
Dirname == IF kind = "Case" THEN "package" ELSE "dirname"
MakeDir == IF kind = "Libdir" THEN "dirname" ELSE "package"

With(d, f, v) == IF d = Gone THEN [g \in Files |-> IF g = f THEN v ELSE 0]
                             ELSE [d EXCEPT ![f] = v]

\* file rename of a directory: if the new name exists, it moves into that one,
\* where nobody looks for it.
Renamed(ds, from, to) ==
  IF ds[to] = Gone THEN [ds EXCEPT ![to] = ds[from], ![from] = Gone]
                   ELSE [ds EXCEPT ![from] = Gone]

-----------------------------------------------------------------------------
(* Configure, a script of patches.                                         *)

File    == UNCHANGED <<kind, version, dirs, left, installed>>
Current == Patches[at]

\* It trusts a makedir that exists, also that of a Configure that has failed.
Configure ==
  /\ step = "idle" /\ ~makedir
  /\ makedir' = TRUE
  /\ step' = "patch" /\ at' = 1 /\ configured' = FALSE
  /\ UNCHANGED <<text, held>> /\ File

PatchExists ==
  /\ step = "patch" /\ at <= Len(Patches)
  /\ Exists(text, Current)
  /\ at' = at + 1
  /\ UNCHANGED <<text, held, step, makedir, configured>> /\ File

\* open for writing empties the file.
PatchOpens ==
  /\ step = "patch" /\ at <= Len(Patches)
  /\ Applies(text, Current)
  /\ text' = <<>> /\ held' = Patched(text, Current)
  /\ step' = "write"
  /\ UNCHANGED <<at, makedir, configured>> /\ File

PatchWrites ==
  /\ step = "write"
  /\ text' = held /\ held' = <<>>
  /\ at' = at + 1 /\ step' = "patch"
  /\ UNCHANGED <<makedir, configured>> /\ File

(* A slip: a patch that does not fit is passed over.                       *)
VariantPatchFails ==
  /\ step = "patch" /\ at <= Len(Patches)
  /\ ~Exists(text, Current) /\ ~Applies(text, Current)
  /\ at' = at + 1
  /\ UNCHANGED <<text, held, step, makedir, configured>> /\ File

PatchFails ==
  /\ step = "patch" /\ at <= Len(Patches)
  /\ ~Exists(text, Current) /\ ~Applies(text, Current)
  /\ step' = "idle" /\ at' = 1
  /\ UNCHANGED <<text, held, makedir, configured>> /\ File

ConfigureEnds ==
  /\ step = "patch" /\ at = Len(Patches) + 1
  /\ step' = "idle" /\ at' = 1 /\ configured' = TRUE
  /\ UNCHANGED <<text, held, makedir>> /\ File

\* distclean, after which Configure evaluates its script again
Distclean ==
  /\ step = "idle" /\ makedir
  /\ makedir' = FALSE
  /\ UNCHANGED <<text, held, at, step, configured>> /\ File

-----------------------------------------------------------------------------
(* Install.                                                                *)

Lib == UNCHANGED <<kind, version, text, held, at, makedir, configured>>

Install ==
  /\ step = "idle" /\ makedir
  /\ installed' = 0
  /\ IF kind = "Tcl" THEN step' = "delete" /\ UNCHANGED left
                     ELSE step' = "make" /\ left' = Library(version)
  /\ UNCHANGED dirs /\ Lib

\* make install, an external program
MakeCopies(f) ==
  /\ step = "make" /\ f \in left
  /\ dirs' = [dirs EXCEPT ![MakeDir] = With(@, f, version)]
  /\ left' = left \ {f}
  /\ UNCHANGED <<step, installed>> /\ Lib

(* A slip: nobody waits for make to end.                                   *)
VariantLibdir ==
  /\ step = "make"
  /\ step' = IF dirs[Dirname] # Gone THEN "clear" ELSE "end"
  /\ UNCHANGED <<dirs, left, installed>> /\ Lib

Libdir ==
  /\ step = "make" /\ left = {}
  /\ step' = IF dirs[Dirname] # Gone THEN "clear" ELSE "end"
  /\ UNCHANGED <<dirs, left, installed>> /\ Lib

\* file delete -force, a file at a time and then the directory.
Doomed == CASE step = "clear" -> "dirname.Libdir"
            [] step \in {"remove", "delete"} -> "package"
Behind == CASE step = "clear"  -> "aside"
            [] step = "remove" -> "rename"
            [] step = "delete" -> "mkdir"

Deleting == step \in {"clear", "remove", "delete"}

DeleteFile(f) ==
  /\ Deleting
  /\ dirs[Doomed] # Gone /\ dirs[Doomed][f] # 0
  /\ dirs' = [dirs EXCEPT ![Doomed][f] = 0]
  /\ UNCHANGED <<left, step, installed>> /\ Lib

(* A slip: what is in the way is not deleted.                              *)
VariantDeleteEnds ==
  /\ Deleting
  /\ step' = Behind
  /\ UNCHANGED <<dirs, left, installed>> /\ Lib

DeleteEnds ==
  /\ Deleting
  /\ dirs[Doomed] # Gone => \A f \in Files : dirs[Doomed][f] = 0
  /\ dirs' = [dirs EXCEPT ![Doomed] = Gone]
  /\ step' = Behind
  /\ UNCHANGED <<left, installed>> /\ Lib

(* A slip: the file is renamed in one step, its own name is then deleted.  *)
VariantRenameAside ==
  /\ step = "aside"
  /\ dirs' = Renamed(dirs, Dirname, "package")
  /\ step' = "end"
  /\ UNCHANGED <<left, installed>> /\ Lib

RenameAside ==
  /\ step = "aside"
  /\ dirs' = Renamed(dirs, Dirname, "dirname.Libdir")
  /\ step' = "remove"
  /\ UNCHANGED <<left, installed>> /\ Lib

RenameBack ==
  /\ step = "rename"
  /\ dirs' = Renamed(dirs, "dirname.Libdir", "package")
  /\ step' = "end"
  /\ UNCHANGED <<left, installed>> /\ Lib

\* file copy -force of the sources: a directory that exists is copied into.
TclCopy ==
  /\ step = "mkdir"
  /\ IF dirs["package"] = Gone
       THEN /\ dirs' = [dirs EXCEPT !["package"] = [f \in Files |-> 0]]
            /\ left' = Shipped[version]
       ELSE UNCHANGED <<dirs, left>>
  /\ step' = "copy"
  /\ UNCHANGED installed /\ Lib

CopyFile(f) ==
  /\ step = "copy" /\ f \in left
  /\ dirs' = [dirs EXCEPT !["package"][f] = version]
  /\ left' = left \ {f}
  /\ UNCHANGED <<step, installed>> /\ Lib

CopyEnds ==
  /\ step = "copy" /\ left = {}
  /\ step' = IF dirs["package"][Index] # 0 THEN "end" ELSE "index"
  /\ UNCHANGED <<dirs, left, installed>> /\ Lib

WriteIndex ==
  /\ step = "index"
  /\ dirs' = [dirs EXCEPT !["package"][Index] = version]
  /\ step' = "end"
  /\ UNCHANGED <<left, installed>> /\ Lib

InstallEnds ==
  /\ step = "end"
  /\ step' = "idle" /\ installed' = version
  /\ UNCHANGED <<dirs, left>> /\ Lib

-----------------------------------------------------------------------------
\* A step fails, or the process is killed before it.
Stop ==
  /\ step # "idle"
  /\ step' = "idle" /\ left' = {} /\ held' = <<>> /\ at' = 1
  /\ UNCHANGED <<kind, version, dirs, text, makedir, configured, installed>>

\* Source, when the directory of the sources has been removed.
Fetch ==
  /\ step = "idle"
  /\ version' \in version .. MaxVersion
  /\ text' = Original /\ configured' = FALSE
  /\ UNCHANGED <<kind, dirs, left, held, at, step, makedir, installed>>

Init ==
  /\ kind \in Kinds /\ version = 1
  /\ dirs = [n \in Names |-> Gone] /\ left = {}
  /\ text = Original /\ held = <<>> /\ at = 1
  /\ step = "idle" /\ makedir = FALSE /\ configured = FALSE /\ installed = 0

Next ==
  \/ Configure \/ PatchExists \/ PatchOpens \/ PatchWrites \/ PatchFails
  \/ ConfigureEnds \/ Distclean
  \/ Install \/ Libdir \/ RenameAside \/ RenameBack \/ DeleteEnds
  \/ TclCopy \/ CopyEnds \/ WriteIndex \/ InstallEnds
  \/ \E f \in Files : MakeCopies(f) \/ DeleteFile(f) \/ CopyFile(f)
  \/ Stop \/ Fetch

Spec == Init /\ [][Next]_vars

-----------------------------------------------------------------------------
(* The properties.                                                         *)

TypeOK ==
  /\ kind \in Kinds /\ version \in Versions
  /\ dirs \in [Names -> Directory \cup {Gone}]
  /\ left \subseteq Files
  /\ text \in Text /\ held \in Text /\ at \in 1 .. Len(Patches) + 1
  /\ step \in {"idle", "patch", "write"} \cup Installing
  /\ makedir \in BOOLEAN /\ configured \in BOOLEAN /\ installed \in 0 .. MaxVersion
  /\ left # {} => step \in {"make", "copy"}
  /\ held # <<>> => step = "write"

Whole(d, v) == d # Gone /\ \A f \in Library(v) : d[f] = v

(* An Install section that ends without an error leaves the whole library  *)
(* under the name of the package, and nothing under the other names,       *)
(* whatever has been killed or has failed before it (kbs.tcl:1058-1063).   *)
(* One that copies the sources leaves nothing of another version behind.   *)
InstalledWhole ==
  installed # 0 =>
    /\ Whole(dirs["package"], installed)
    /\ dirs["dirname"] = Gone /\ dirs["dirname.Libdir"] = Gone
    /\ kind = "Tcl" => \A f \in Files \ Library(installed) : dirs["package"][f] = 0

(* Libdir brings a library as a whole: when files appear under the name of *)
(* the package, all of them do.                                            *)
Has(d) == IF d = Gone THEN {} ELSE {<<f, d[f]>> : f \in {g \in Files : d[g] # 0}}

AppearsWhole ==
  [][kind = "Libdir" /\ ~ (Has(dirs["package"])' \subseteq Has(dirs["package"]))
       => Whole(dirs["package"], version)']_vars

(* Configure that ends without an error leaves the source file as a first  *)
(* undisturbed Configure does: each patch is applied once (kbs.tcl:1325),  *)
(* and no file that was cut off when a process was killed passes for       *)
(* patched (kbs.tcl:1338).                                                 *)
PatchLands == configured => text = After[Len(Patches)]

(* The library comes and goes as Installation promises.                    *)
View(d) == IF \E v \in Versions : Whole(d, v)
             THEN CHOOSE v \in Versions : Whole(d, v) ELSE 0

Promise == INSTANCE Installation WITH
             view  <- View(dirs["package"]),
             asked <- IF step \in Installing THEN version ELSE 0,
             done  <- installed

InstallsAsPromised == Promise!Spec
=============================================================================
