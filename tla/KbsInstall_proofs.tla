------------------------- MODULE KbsInstall_proofs -------------------------
(***************************************************************************)
(* What Patch, Libdir and Tcl leave behind, for every library, every       *)
(* sequence of versions and every list of patches that fit their sources,  *)
(* wherever the process is killed.                                         *)
(*                                                                         *)
(* The invariant says for each step of an installation under which name    *)
(* the new library is complete and which names are free, and which of the  *)
(* patches the source file has had.                                        *)
(***************************************************************************)
EXTENDS KbsInstall, TLAPS

\* The names and steps that a kind of package uses.
Homes ==
  /\ kind # "Libdir" => dirs["dirname"] = Gone
  /\ kind \in {"Named", "Tcl"} => dirs["dirname.Libdir"] = Gone
  /\ step \in {"delete", "mkdir", "copy", "index"} => kind = "Tcl"
  /\ step = "make" => kind # "Tcl"
  /\ step \in {"clear", "aside", "remove", "rename"} => kind \in {"Libdir", "Case"}

\* What an installation that ends leaves.
Good(v) ==
  /\ Whole(dirs["package"], v)
  /\ dirs["dirname"] = Gone /\ dirs["dirname.Libdir"] = Gone
  /\ kind = "Tcl" => \A f \in Files \ Library(v) : dirs["package"][f] = 0

\* make install: what has been copied is there.
Made ==
  /\ left \subseteq Library(version)
  /\ \A f \in Library(version) \ left :
       dirs[MakeDir] # Gone /\ dirs[MakeDir][f] = version

\* file copy: these files are there, and no others.
Copy(d, s) ==
  d # Gone /\ \A f \in Files : d[f] = IF f \in s THEN version ELSE 0

Copied(s) == Copy(dirs["package"], s)

Contents ==
  /\ step = "make"   => Made
  /\ step = "clear"  => Whole(dirs[Dirname], version)
  /\ step = "aside"  => /\ Whole(dirs[Dirname], version)
                        /\ dirs["dirname.Libdir"] = Gone
  /\ step = "remove" => /\ Whole(dirs["dirname.Libdir"], version)
                        /\ dirs[Dirname] = Gone
  /\ step = "rename" => /\ Whole(dirs["dirname.Libdir"], version)
                        /\ dirs[Dirname] = Gone /\ dirs["package"] = Gone
  /\ step = "mkdir"  => dirs["package"] = Gone
  /\ step = "copy"   => left \subseteq Shipped[version] /\ Copied(Shipped[version] \ left)
  /\ step = "index"  => Copied(Shipped[version])
  /\ step = "end"    => Good(version)

Result ==
  installed # 0 => step \notin Installing /\ Good(installed)

\* The source file has had so many of the patches, or it is cut off.
Applied(n) == \E j \in n .. Len(Patches) : text = After[j]

Texts ==
  /\ Applied(0) \/ (text = <<>> /\ Len(Patches) > 0)
  /\ step = "patch" => Applied(at - 1) \/ (text = <<>> /\ at <= Len(Patches))
  /\ step = "write" => at <= Len(Patches) /\ held = After[at]
  /\ configured => text = After[Len(Patches)] /\ step \notin {"patch", "write"}

IInv == TypeOK /\ Homes /\ Contents /\ Result /\ Texts

Steps == {"idle", "patch", "write"} \cup Installing

-----------------------------------------------------------------------------
(* The values of the constants and of the operators about directories.     *)

LEMMA Constants ==
  /\ \A v \in Versions : Library(v) \subseteq Files /\ Index \in Library(v)
  /\ \A v \in Versions : Shipped[v] \subseteq Files /\ v \in 1 .. MaxVersion
  /\ 0 \in 0 .. MaxVersion /\ 0 \notin Versions
  /\ <<>> \in Text
  /\ Len(Patches) \in Nat
  /\ \A j \in 0 .. Len(Patches) : After[j] \in Text
<1>1. \A v \in Versions : Shipped[v] \subseteq Files
  BY FilesAssumption
<1>2. Index \in Files /\ MaxVersion \in Nat
  BY FilesAssumption
<1>3. \A v \in Versions : Library(v) \subseteq Files /\ Index \in Library(v)
  BY <1>1, <1>2 DEF Library
<1>4. Len(Patches) \in Nat /\ \A j \in 0 .. Len(Patches) : After[j] \in Text
  BY TextAssumption
<1>5. <<>> \in Text
  BY DEF Text
<1>6. QED
  BY <1>1, <1>2, <1>3, <1>4, <1>5 DEF Versions

\* A file that is written changes no other file.
LEMMA WithFile ==
  ASSUME NEW d \in Directory \cup {Gone}, NEW f \in Files, NEW v \in 0 .. MaxVersion
  PROVE  /\ With(d, f, v) \in Directory
         /\ With(d, f, v) # Gone
         /\ With(d, f, v)[f] = v
         /\ \A g \in Files \ {f} : With(d, f, v)[g] = IF d = Gone THEN 0 ELSE d[g]
<1>1. With(d, f, v) \in Directory
  BY Constants DEF With, Directory
<1>2. With(d, f, v)[f] = v
  BY DEF With, Directory
<1>3. \A g \in Files \ {f} : With(d, f, v)[g] = IF d = Gone THEN 0 ELSE d[g]
  BY DEF With, Directory
<1>4. QED
  BY <1>1, <1>2, <1>3, FilesAssumption

\* Directory e is d, made if need be, with version v of file f.
Written(e, d, f, v) ==
  /\ e # Gone
  /\ e[f] = v
  /\ \A g \in Files \ {f} : e[g] = IF d = Gone THEN 0 ELSE d[g]

LEMMA WithWrites ==
  ASSUME NEW d \in Directory \cup {Gone}, NEW f \in Files, NEW v \in 0 .. MaxVersion
  PROVE  Written(With(d, f, v), d, f, v)
<1> DEFINE e == With(d, f, v)
<1>1. /\ e # Gone /\ e[f] = v
      /\ \A g \in Files \ {f} : e[g] = IF d = Gone THEN 0 ELSE d[g]
  BY WithFile
<1> HIDE DEF e
<1>2. Written(e, d, f, v)
  BY <1>1 DEF Written
<1>3. QED
  BY <1>2 DEF e

\* A rename to a free name moves the directory.
LEMMA RenamedFree ==
  ASSUME NEW ds \in [Names -> Directory \cup {Gone}],
         NEW from \in Names, NEW to \in Names, from # to, ds[to] = Gone
  PROVE  /\ Renamed(ds, from, to) \in [Names -> Directory \cup {Gone}]
         /\ Renamed(ds, from, to)[to] = ds[from]
         /\ Renamed(ds, from, to)[from] = Gone
         /\ \A n \in Names \ {from, to} : Renamed(ds, from, to)[n] = ds[n]
BY DEF Renamed

-----------------------------------------------------------------------------
(* Types.                                                                   *)

LEMMA InitType == Init => TypeOK
<1> SUFFICES ASSUME Init PROVE TypeOK
  OBVIOUS
<1>1. version \in Versions
  BY FilesAssumption DEF Init, Versions
<1>2. QED
  BY <1>1, Constants, TextAssumption DEF Init, TypeOK

\* What the proof of each action needs of the types.
LEMMA Typed ==
  ASSUME TypeOK
  PROVE  /\ kind \in Kinds /\ version \in Versions /\ version \in 0 .. MaxVersion
         /\ dirs \in [Names -> Directory \cup {Gone}]
         /\ Dirname \in Names /\ MakeDir \in Names
         /\ Deleting => Doomed \in Names /\ Behind \in Installing
         /\ \A n \in Names, d \in Directory \cup {Gone} :
              [dirs EXCEPT ![n] = d] \in [Names -> Directory \cup {Gone}]
<1>1. /\ kind \in Kinds /\ version \in Versions /\ version \in 0 .. MaxVersion
      /\ dirs \in [Names -> Directory \cup {Gone}]
  BY Constants DEF TypeOK, Versions
<1>2. Dirname \in Names /\ MakeDir \in Names
  BY DEF Dirname, MakeDir, Names
<1>3. Deleting => Doomed \in Names /\ Behind \in Installing
  BY DEF Deleting, Doomed, Behind, Names, Installing
<1>4. \A n \in Names, d \in Directory \cup {Gone} :
         [dirs EXCEPT ![n] = d] \in [Names -> Directory \cup {Gone}]
  BY <1>1
<1>5. QED
  BY <1>1, <1>2, <1>3, <1>4

\* A step that writes one file, or deletes it, is an assignment with With.
LEMMA OneFile ==
  ASSUME TypeOK, NEW n \in Names, NEW f \in Files, NEW v \in 0 .. MaxVersion,
         dirs[n] # Gone, dirs' = [dirs EXCEPT ![n][f] = v]
  PROVE  /\ dirs' = [dirs EXCEPT ![n] = With(dirs[n], f, v)]
         /\ dirs' \in [Names -> Directory \cup {Gone}]
<1>1. dirs \in [Names -> Directory \cup {Gone}]
  BY DEF TypeOK
<1>2. With(dirs[n], f, v) = [dirs[n] EXCEPT ![f] = v]
  BY DEF With
<1>3. dirs' = [dirs EXCEPT ![n] = With(dirs[n], f, v)]
  BY <1>2
<1>4. With(dirs[n], f, v) \in Directory
  BY <1>1, WithFile
<1>5. QED
  BY <1>1, <1>3, <1>4

LEMMA DirsType ==
  ASSUME IInv, Next
  PROVE  dirs' \in [Names -> Directory \cup {Gone}]
<1> USE DEF IInv
<1> Gone \in Directory \cup {Gone}
  OBVIOUS
<1>1. CASE UNCHANGED dirs
  BY <1>1, Typed
<1>2. ASSUME NEW f \in Files, MakeCopies(f)
      PROVE  dirs' \in [Names -> Directory \cup {Gone}]
  <2>1. With(dirs[MakeDir], f, version) \in Directory
    BY Typed, WithFile
  <2>2. dirs' = [dirs EXCEPT ![MakeDir] = With(dirs[MakeDir], f, version)]
    BY <1>2 DEF MakeCopies
  <2>3. QED
    BY <2>1, <2>2, Typed
<1>3. ASSUME NEW f \in Files, DeleteFile(f)
      PROVE  dirs' \in [Names -> Directory \cup {Gone}]
  <2>1. Doomed \in Names /\ dirs[Doomed] # Gone
    BY <1>3, Typed DEF DeleteFile
  <2> DEFINE n == Doomed
  <2>2. n \in Names /\ dirs[n] # Gone /\ dirs' = [dirs EXCEPT ![n][f] = 0]
    BY <2>1, <1>3 DEF DeleteFile
  <2> HIDE DEF n
  <2>3. QED
    BY <2>2, OneFile, Constants
<1>4. CASE DeleteEnds
  BY <1>4, Typed DEF DeleteEnds
<1>5. CASE RenameAside
  <2>1. Dirname # "dirname.Libdir" /\ dirs["dirname.Libdir"] = Gone
    BY <1>5 DEF RenameAside, Dirname, Contents
  <2>2. "dirname.Libdir" \in Names
    BY DEF Names
  <2>3. QED
    BY <1>5, <2>1, <2>2, Typed, RenamedFree DEF RenameAside
<1>6. CASE RenameBack
  <2>1. dirs["package"] = Gone
    BY <1>6 DEF RenameBack, Contents
  <2>2. "dirname.Libdir" \in Names /\ "package" \in Names
    BY DEF Names
  <2>3. QED
    BY <1>6, <2>1, <2>2, Typed, RenamedFree DEF RenameBack
<1>7. CASE TclCopy
  <2>1. [f \in Files |-> 0] \in Directory
    BY Constants DEF Directory
  <2>2. "package" \in Names
    BY DEF Names
  <2>3. QED
    BY <1>7, <2>1, <2>2, Typed DEF TclCopy
<1>8. ASSUME NEW f \in Files, dirs["package"] # Gone,
             dirs' = [dirs EXCEPT !["package"][f] = version]
      PROVE  dirs' \in [Names -> Directory \cup {Gone}]
  <2>1. "package" \in Names
    BY DEF Names
  <2>2. QED
    BY <2>1, <1>8, OneFile, Typed
<1>9. ASSUME NEW f \in Files, CopyFile(f)
      PROVE  dirs' \in [Names -> Directory \cup {Gone}]
  BY <1>8, <1>9 DEF CopyFile, Contents, Copied, Copy
<1>10. CASE WriteIndex
  BY <1>8, <1>10, FilesAssumption DEF WriteIndex, Contents, Copied, Copy
<1>11. QED
  <2>1. CASE Configure \/ PatchExists \/ PatchOpens \/ PatchWrites \/ PatchFails
             \/ ConfigureEnds \/ Distclean
    BY <2>1, <1>1 DEF Configure, PatchExists, PatchOpens, PatchWrites, PatchFails,
                      ConfigureEnds, Distclean, File
  <2>2. CASE Install \/ Libdir \/ CopyEnds \/ InstallEnds \/ Stop \/ Fetch
    BY <2>2, <1>1 DEF Install, Libdir, CopyEnds, InstallEnds, Stop, Fetch
  <2>3. QED
    BY <2>1, <2>2, <1>2, <1>3, <1>4, <1>5, <1>6, <1>7, <1>9, <1>10 DEF Next

-----------------------------------------------------------------------------
(* The source file.                                                         *)

\* What the tests of Patch find out about the file (PatchesAssumption).
LEMMA Tests ==
  ASSUME TypeOK, Texts, step = "patch", at <= Len(Patches)
  PROVE  /\ Exists(text, Current) => Applied(at)
         /\ Applies(text, Current) => Patched(text, Current) = After[at]
<1>1. at \in 1 .. Len(Patches) /\ Len(Patches) \in Nat
  BY Constants DEF TypeOK
<1>2. /\ At(After[at - 1], Current.line, Current.old)
      /\ ~At(After[at - 1], Current.line, Current.new)
      /\ \A j \in at .. Len(Patches) : At(After[j], Current.line, Current.new)
      /\ After[at] = Patched(After[at - 1], Current)
      /\ ~At(<<>>, Current.line, Current.old) /\ ~At(<<>>, Current.line, Current.new)
  BY <1>1, PatchesAssumption DEF Current
<1>3. CASE text = <<>>
  BY <1>2, <1>3 DEF Exists, Applies
<1>4. ASSUME NEW j \in at - 1 .. Len(Patches), text = After[j]
      PROVE  /\ Exists(text, Current) => Applied(at)
             /\ Applies(text, Current) => Patched(text, Current) = After[at]
  <2>1. CASE j = at - 1
    BY <1>2, <1>4, <2>1 DEF Exists, Applies
  <2>2. CASE j \in at .. Len(Patches)
    BY <1>2, <1>4, <2>2 DEF Exists, Applies, Applied
  <2>3. QED
    BY <1>1, <2>1, <2>2
<1>5. QED
  BY <1>3, <1>4 DEF Texts, Applied

\* Only Patch and Fetch touch the source file.
LEMMA SameText ==
  ASSUME Texts, UNCHANGED text, step' \notin {"patch", "write"},
         configured' => configured
  PROVE  Texts'
BY DEF Texts, Applied

LEMMA TextStep ==
  ASSUME IInv, Next
  PROVE  Texts' /\ text' \in Text /\ held' \in Text /\ at' \in 1 .. Len(Patches) + 1
<1> USE DEF IInv
<1>1. /\ Len(Patches) \in Nat /\ <<>> \in Text
      /\ \A j \in 0 .. Len(Patches) : After[j] \in Text
      /\ text \in Text /\ held \in Text /\ at \in 1 .. Len(Patches) + 1
  BY Constants DEF TypeOK
<1>2. CASE Configure
  BY <1>1, <1>2 DEF Configure, Texts, Applied
<1>3. CASE PatchExists
  <2>1. Applied(at)
    BY <1>3, Tests DEF PatchExists
  <2>2. QED
    BY <1>1, <1>3, <2>1 DEF PatchExists, Texts, Applied
<1>4. CASE PatchOpens
  <2>1. held' = After[at] /\ at \in 1 .. Len(Patches)
    BY <1>1, <1>4, Tests DEF PatchOpens
  <2>2. QED
    BY <1>1, <1>4, <2>1 DEF PatchOpens, Texts, Applied
<1>5. CASE PatchWrites
  <2>1. text' = After[at] /\ at' = at + 1 /\ at \in 1 .. Len(Patches)
    BY <1>1, <1>5 DEF PatchWrites, Texts
  <2>2. QED
    BY <1>1, <1>5, <2>1 DEF PatchWrites, Texts, Applied
<1>6. CASE PatchFails
  BY <1>1, <1>6, SameText DEF PatchFails
<1>7. CASE ConfigureEnds
  <2>1. text = After[Len(Patches)]
    BY <1>1, <1>7 DEF ConfigureEnds, Texts, Applied
  <2>2. QED
    BY <1>1, <1>7, <2>1 DEF ConfigureEnds, Texts, Applied
<1>8. CASE Distclean
  BY <1>1, <1>8, SameText DEF Distclean
<1>9. ASSUME UNCHANGED <<text, held, at, configured>>, step' \in Installing \cup {"idle"}
      PROVE  Texts' /\ text' \in Text /\ held' \in Text /\ at' \in 1 .. Len(Patches) + 1
  BY <1>1, <1>9, SameText DEF Installing
<1>10. CASE Install \/ Libdir \/ RenameAside \/ RenameBack \/ DeleteEnds
            \/ TclCopy \/ CopyEnds \/ WriteIndex \/ InstallEnds
            \/ \E f \in Files : MakeCopies(f) \/ DeleteFile(f) \/ CopyFile(f)
  BY <1>9, <1>10, Typed DEF Install, Libdir, RenameAside, RenameBack, DeleteEnds, TclCopy,
       CopyEnds, WriteIndex, InstallEnds, MakeCopies, DeleteFile, CopyFile, Lib,
       Deleting, Installing
<1>11. CASE Stop
  BY <1>1, <1>11, SameText DEF Stop, Texts
<1>12. CASE Fetch
  BY <1>1, <1>12, PatchesAssumption DEF Fetch, Texts, Applied
<1>13. QED
  BY <1>2, <1>3, <1>4, <1>5, <1>6, <1>7, <1>8, <1>10, <1>11, <1>12 DEF Next

LEMMA TypeStep ==
  ASSUME IInv, Next
  PROVE  TypeOK'
<1> USE DEF IInv
<1>1. /\ dirs' \in [Names -> Directory \cup {Gone}]
      /\ text' \in Text /\ held' \in Text /\ at' \in 1 .. Len(Patches) + 1
  BY DirsType, TextStep
<1>2. /\ kind \in Kinds /\ version \in Versions /\ left \subseteq Files
      /\ step \in Steps /\ makedir \in BOOLEAN /\ configured \in BOOLEAN
      /\ installed \in 0 .. MaxVersion
      /\ left # {} => step \in {"make", "copy"}
      /\ held # <<>> => step = "write"
      /\ Library(version) \subseteq Files /\ Shipped[version] \subseteq Files
      /\ version \in 0 .. MaxVersion /\ 0 \in 0 .. MaxVersion
  BY Constants DEF TypeOK, Versions, Steps
<1> DEFINE Rest == /\ kind' \in Kinds /\ version' \in Versions /\ left' \subseteq Files
                   /\ step' \in Steps /\ makedir' \in BOOLEAN /\ configured' \in BOOLEAN
                   /\ installed' \in 0 .. MaxVersion
                   /\ left' # {} => step' \in {"make", "copy"}
                   /\ held' # <<>> => step' = "write"
<1> USE DEF Steps, Installing
<1>3. ASSUME Configure \/ PatchExists \/ PatchOpens \/ PatchWrites \/ PatchFails
           \/ ConfigureEnds \/ Distclean
      PROVE  Rest
  BY <1>2, <1>3 DEF Configure, PatchExists, PatchOpens, PatchWrites, PatchFails,
                    ConfigureEnds, Distclean, File
<1>4. ASSUME Install \/ Libdir \/ RenameAside \/ RenameBack
      PROVE  Rest
  BY <1>2, <1>4 DEF Install, Libdir, RenameAside, RenameBack, Lib
<1>5. ASSUME DeleteEnds
      PROVE  Rest
  BY <1>2, <1>5 DEF DeleteEnds, Deleting, Behind, Lib
<1>6. ASSUME TclCopy \/ CopyEnds \/ WriteIndex \/ InstallEnds
      PROVE  Rest
  BY <1>2, <1>6 DEF TclCopy, CopyEnds, WriteIndex, InstallEnds, Lib
<1>7. ASSUME \E f \in Files : MakeCopies(f) \/ DeleteFile(f) \/ CopyFile(f)
      PROVE  Rest
  BY <1>2, <1>7 DEF MakeCopies, DeleteFile, CopyFile, Lib
<1>8. ASSUME Stop
      PROVE  Rest
  BY <1>2, <1>8 DEF Stop
<1>9. ASSUME Fetch
      PROVE  Rest
  <2>1. version' \in Versions
    BY <1>2, <1>9, FilesAssumption DEF Fetch, Versions
  <2>2. QED
    BY <1>2, <1>9, <2>1 DEF Fetch
<1>10. Rest
  BY <1>3, <1>4, <1>5, <1>6, <1>7, <1>8, <1>9 DEF Next
<1>11. QED
  BY <1>1, <1>10 DEF TypeOK

-----------------------------------------------------------------------------
(* The directories.                                                         *)

Dirs == Homes /\ Contents /\ Result

\* Outside of installations nothing happens to them; one that is killed has
\* left no result.
LEMMA SameDirs ==
  ASSUME Homes, Result, UNCHANGED <<kind, dirs, installed>>, step' \notin Installing
  PROVE  Dirs'
<1>1. Good(installed)' <=> Good(installed)
  BY DEF Good, Whole, Library
<1>2. Result'
  BY <1>1 DEF Result
<1>3. Homes' /\ Contents'
  BY DEF Homes, Contents, Installing
<1>4. QED
  BY <1>2, <1>3 DEF Dirs

LEMMA InstallDirs ==
  ASSUME IInv, Install
  PROVE  Dirs'
<1> USE DEF IInv
<1>1. Homes'
  BY DEF Install, Lib, Homes
<1>2. step' = "make" => Made'
  BY DEF Install, Lib, Made, Library
<1>3. Contents'
  BY <1>2 DEF Install, Lib, Contents
<1>4. Result'
  BY DEF Install, Result
<1>5. QED
  BY <1>1, <1>3, <1>4 DEF Dirs

LEMMA MakeDirs ==
  ASSUME IInv, NEW f \in Files, MakeCopies(f)
  PROVE  Dirs'
<1> USE DEF IInv
<1> DEFINE n == MakeDir
           d == With(dirs[n], f, version)
<1>1. /\ step = "make" /\ step' = "make" /\ f \in left /\ left' = left \ {f}
      /\ dirs' = [dirs EXCEPT ![n] = d] /\ MakeDir' = MakeDir
      /\ UNCHANGED <<kind, version, installed>>
  BY DEF MakeCopies, Lib, MakeDir
<1>2. n \in Names /\ dirs \in [Names -> Directory \cup {Gone}]
  BY Typed
<1>3. Written(d, dirs[n], f, version)
  <2>1. dirs[n] \in Directory \cup {Gone} /\ version \in 0 .. MaxVersion
    BY <1>2, Typed
  <2>2. QED
    BY ONLY <2>1, f \in Files, WithWrites
<1>4. /\ kind # "Tcl"
      /\ left \subseteq Library(version) /\ Library(version) \subseteq Files
      /\ \A g \in Library(version) \ left : dirs[n] # Gone /\ dirs[n][g] = version
  BY <1>1, Typed, Constants DEF Contents, Homes, Made
<1>5. n = "package" \/ (n = "dirname" /\ kind = "Libdir")
  BY DEF MakeDir
<1> HIDE DEF n, d
<1>6. Made'
  <2>1. dirs'[n] = d
    BY <1>1, <1>2
  <2>2. \A g \in Library(version) \ left' : d # Gone /\ d[g] = version
    BY <1>1, <1>3, <1>4 DEF Written
  <2>3. MakeDir' = n
    BY <1>1 DEF n
  <2>4. Library(version)' = Library(version)
    BY <1>1 DEF Library
  <2>5. QED
    BY <1>1, <1>4, <2>1, <2>2, <2>3, <2>4 DEF Made
<1>7. Homes'
  BY <1>1, <1>2, <1>4, <1>5 DEF Homes, Names
<1>8. QED
  BY <1>1, <1>6, <1>7 DEF Dirs, Contents, Result, Installing

LEMMA LibdirDirs ==
  ASSUME IInv, Libdir
  PROVE  Dirs'
<1> USE DEF IInv
<1>1. /\ step = "make" /\ left = {} /\ dirs' = dirs
      /\ UNCHANGED <<kind, version, installed>> /\ Dirname' = Dirname
      /\ step' = IF dirs[Dirname] # Gone THEN "clear" ELSE "end"
  BY DEF Libdir, Lib, Dirname
<1>2. Whole(dirs[MakeDir], version) /\ kind \in Kinds \ {"Tcl"}
  BY <1>1, Typed, Constants DEF Contents, Made, Homes, Whole
<1>3. Whole(dirs[MakeDir], version)' <=> Whole(dirs[MakeDir], version)
  BY <1>1 DEF Whole, Library, MakeDir
<1>4. CASE dirs[Dirname] # Gone
  <2>1. MakeDir = Dirname /\ kind \in {"Libdir", "Case"}
    BY <1>2, <1>4 DEF Homes, MakeDir, Dirname, Kinds
  <2>2. Whole(dirs[Dirname], version)'
    BY <1>1, <1>2, <2>1 DEF Whole, Library
  <2>3. QED
    BY <1>1, <1>2, <1>4, <2>1, <2>2 DEF Dirs, Contents, Homes, Result, Installing
<1>5. CASE dirs[Dirname] = Gone
  <2>1. kind = "Named"
    BY <1>2, <1>5 DEF Kinds, Dirname, MakeDir, Whole
  <2>2. Good(version)
    BY <1>2, <2>1 DEF Good, Homes, MakeDir
  <2>3. Good(version)'
    BY <1>1, <2>2 DEF Good, Whole, Library
  <2>4. QED
    BY <1>1, <1>5, <2>1, <2>3 DEF Dirs, Contents, Homes, Result, Installing
<1>6. QED
  BY <1>4, <1>5

LEMMA DeleteFileDirs ==
  ASSUME IInv, NEW f \in Files, DeleteFile(f)
  PROVE  Dirs'
<1> USE DEF IInv
<1> DEFINE n == Doomed
<1>1. /\ Deleting /\ step' = step
      /\ UNCHANGED <<kind, version, left, installed>> /\ Dirname' = Dirname
      /\ dirs[n] # Gone /\ dirs' = [dirs EXCEPT ![n][f] = 0]
  BY DEF DeleteFile, Lib, Dirname
<1>2. n \in Names /\ dirs \in [Names -> Directory \cup {Gone}]
  BY <1>1, Typed
<1>3. /\ step = "clear" => n = "dirname.Libdir" /\ kind \in {"Libdir", "Case"}
      /\ step = "remove" => n = "package" /\ kind \in {"Libdir", "Case"}
      /\ step = "delete" => n = "package" /\ kind = "Tcl"
  BY DEF Doomed, Homes
<1> HIDE DEF n
<1>4. /\ \A m \in Names \ {n} : dirs'[m] = dirs[m]
  BY <1>1, <1>2
<1>5. installed' = 0
  BY <1>1 DEF Result, Deleting, Installing
<1>6. Homes'
  BY <1>1, <1>3, <1>4 DEF Homes, Names, Deleting
<1>7. CASE step = "clear"
  <2>1. Dirname # n /\ Dirname \in Names
    BY <1>3, <1>7, Typed DEF Dirname
  <2>2. Whole(dirs[Dirname], version)'
    BY <1>1, <1>4, <1>7, <2>1 DEF Contents, Whole, Library
  <2>3. QED
    BY <1>1, <1>5, <1>6, <1>7, <2>2 DEF Dirs, Contents, Result
<1>8. CASE step = "remove"
  <2>1. dirs'["dirname.Libdir"] = dirs["dirname.Libdir"]
    BY <1>3, <1>4, <1>8 DEF Names
  <2>2. Whole(dirs["dirname.Libdir"], version)'
    BY <1>1, <1>8, <2>1 DEF Contents, Whole, Library
  <2>3. dirs'[Dirname] = Gone
    <3>1. Dirname # n /\ Dirname \in Names
      BY <1>1, <1>3, <1>8, Typed DEF Contents
    <3>2. QED
      BY <1>4, <1>8, <3>1 DEF Contents
  <2>4. QED
    BY <1>1, <1>5, <1>6, <1>8, <2>2, <2>3 DEF Dirs, Contents, Result
<1>9. CASE step = "delete"
  BY <1>1, <1>5, <1>6, <1>9 DEF Dirs, Contents, Result
<1>10. QED
  BY <1>1, <1>7, <1>8, <1>9 DEF Deleting

LEMMA DeleteEndsDirs ==
  ASSUME IInv, DeleteEnds
  PROVE  Dirs'
<1> USE DEF IInv
<1> DEFINE n == Doomed
<1>1. /\ Deleting /\ step' = Behind
      /\ UNCHANGED <<kind, version, left, installed>> /\ Dirname' = Dirname
      /\ dirs' = [dirs EXCEPT ![n] = Gone]
  BY DEF DeleteEnds, Lib, Dirname
<1>2. n \in Names /\ dirs \in [Names -> Directory \cup {Gone}]
  BY <1>1, Typed
<1>3. /\ step = "clear" => n = "dirname.Libdir" /\ kind \in {"Libdir", "Case"}
      /\ step = "remove" => n = "package" /\ kind \in {"Libdir", "Case"}
      /\ step = "delete" => n = "package" /\ kind = "Tcl"
      /\ step = "clear" => step' = "aside"
      /\ step = "remove" => step' = "rename"
      /\ step = "delete" => step' = "mkdir"
  BY <1>1 DEF Doomed, Behind, Homes
<1> HIDE DEF n
<1>4. dirs'[n] = Gone /\ \A m \in Names \ {n} : dirs'[m] = dirs[m]
  BY <1>1, <1>2
<1>5. installed' = 0
  BY <1>1 DEF Result, Deleting, Installing
<1>6. Homes'
  BY <1>1, <1>3, <1>4 DEF Homes, Names, Deleting
<1>7. CASE step = "clear"
  <2>1. Dirname # n /\ Dirname \in Names
    BY <1>3, <1>7, Typed DEF Dirname
  <2>2. Whole(dirs[Dirname], version)'
    BY <1>1, <1>4, <1>7, <2>1 DEF Contents, Whole, Library
  <2>3. QED
    BY <1>1, <1>3, <1>4, <1>5, <1>6, <1>7, <2>2 DEF Dirs, Contents, Result
<1>8. CASE step = "remove"
  <2>1. dirs'["dirname.Libdir"] = dirs["dirname.Libdir"]
    BY <1>3, <1>4, <1>8 DEF Names
  <2>2. Whole(dirs["dirname.Libdir"], version)'
    BY <1>1, <1>8, <2>1 DEF Contents, Whole, Library
  <2>3. dirs'[Dirname] = Gone
    BY <1>1, <1>4, <1>8, Typed DEF Contents
  <2>4. QED
    BY <1>1, <1>3, <1>4, <1>5, <1>6, <1>8, <2>2, <2>3 DEF Dirs, Contents, Result
<1>9. CASE step = "delete"
  BY <1>1, <1>3, <1>4, <1>5, <1>6, <1>9 DEF Dirs, Contents, Result
<1>10. QED
  BY <1>1, <1>7, <1>8, <1>9 DEF Deleting

LEMMA AsideDirs ==
  ASSUME IInv, RenameAside
  PROVE  Dirs'
<1> USE DEF IInv
<1> DEFINE n == Dirname
<1>1. /\ step = "aside" /\ step' = "remove" /\ Dirname' = n
      /\ UNCHANGED <<kind, version, left, installed>>
      /\ dirs' = Renamed(dirs, n, "dirname.Libdir")
      /\ Whole(dirs[n], version) /\ dirs["dirname.Libdir"] = Gone
      /\ kind \in {"Libdir", "Case"}
  BY DEF RenameAside, Lib, Dirname, Contents, Homes
<1>2. /\ n \in {"dirname", "package"} /\ n \in Names /\ "dirname.Libdir" \in Names
      /\ dirs \in [Names -> Directory \cup {Gone}]
      /\ kind = "Case" => n = "package"
  BY Typed DEF Dirname, Names
<1> HIDE DEF n
<1>3. /\ dirs'["dirname.Libdir"] = dirs[n] /\ dirs'[n] = Gone
      /\ \A m \in Names \ {n, "dirname.Libdir"} : dirs'[m] = dirs[m]
  <2>1. n # "dirname.Libdir"
    BY <1>2
  <2>2. QED
    BY <1>1, <1>2, <2>1, RenamedFree
<1>4. Whole(dirs["dirname.Libdir"], version)'
  BY <1>1, <1>3 DEF Whole, Library
<1>5. installed' = 0
  BY <1>1 DEF Result, Installing
<1>6. Homes'
  BY <1>1, <1>2, <1>3 DEF Homes, Names
<1>7. QED
  BY <1>1, <1>3, <1>4, <1>5, <1>6 DEF Dirs, Contents, Result

LEMMA BackDirs ==
  ASSUME IInv, RenameBack
  PROVE  Dirs'
<1> USE DEF IInv
<1>1. /\ step = "rename" /\ step' = "end"
      /\ UNCHANGED <<kind, version, left, installed>>
      /\ dirs' = Renamed(dirs, "dirname.Libdir", "package")
      /\ Whole(dirs["dirname.Libdir"], version)
      /\ dirs[Dirname] = Gone /\ dirs["package"] = Gone
      /\ kind \in {"Libdir", "Case"}
  BY DEF RenameBack, Lib, Contents, Homes
<1>2. /\ "package" \in Names /\ "dirname.Libdir" \in Names /\ "dirname" \in Names
      /\ dirs \in [Names -> Directory \cup {Gone}]
      /\ dirs["dirname"] = Gone
  BY <1>1, Typed DEF Dirname, Names, Homes
<1>3. /\ dirs'["package"] = dirs["dirname.Libdir"] /\ dirs'["dirname.Libdir"] = Gone
      /\ dirs'["dirname"] = Gone
  BY <1>1, <1>2, RenamedFree
<1>4. Good(version)'
  BY <1>1, <1>3 DEF Good, Whole, Library
<1>5. installed' = 0
  BY <1>1 DEF Result, Installing
<1>6. QED
  BY <1>1, <1>3, <1>4, <1>5 DEF Dirs, Homes, Contents, Result

\* What the steps of Tcl start from.
LEMMA TclPackage ==
  ASSUME IInv, step \in {"delete", "mkdir", "copy", "index"}
  PROVE  /\ kind = "Tcl" /\ installed = 0
         /\ dirs \in [Names -> Directory \cup {Gone}]
         /\ dirs["dirname"] = Gone /\ dirs["dirname.Libdir"] = Gone
BY Typed DEF IInv, Homes, Result, Installing

\* A file of the copy is written.
Puts(f) ==
  /\ UNCHANGED <<kind, version, installed>>
  /\ dirs' = [dirs EXCEPT !["package"][f] = version]

LEMMA CopyOne ==
  ASSUME IInv, NEW f \in Files, NEW s, step \in {"copy", "index"}, Copied(s), Puts(f)
  PROVE  /\ Copy(dirs'["package"], s \cup {f})
         /\ dirs'["dirname"] = Gone /\ dirs'["dirname.Libdir"] = Gone
<1>1. "package" \in Names /\ "dirname" \in Names /\ "dirname.Libdir" \in Names
  BY DEF Names
<1>2. dirs \in [Names -> Directory \cup {Gone}]
  BY TclPackage
<1> DEFINE d == dirs["package"]
<1>3. d \in Directory /\ d # Gone /\ \A g \in Files : d[g] = IF g \in s THEN version ELSE 0
  BY <1>1, <1>2 DEF Copied, Copy
<1>4. dirs'["package"] = [d EXCEPT ![f] = version]
  BY <1>1, <1>2 DEF Puts
<1>5. /\ dirs'["dirname"] = dirs["dirname"]
      /\ dirs'["dirname.Libdir"] = dirs["dirname.Libdir"]
  BY <1>1, <1>2 DEF Puts
<1> HIDE DEF d
<1> DEFINE e == [d EXCEPT ![f] = version]
<1>6. \A g \in Files : e[g] = IF g \in s \cup {f} THEN version ELSE 0
  BY <1>3 DEF Directory
<1>7. e # Gone
  <2>1. version \in 0 .. MaxVersion
    BY Typed DEF IInv
  <2>2. e \in Directory
    BY <1>3, <2>1 DEF Directory
  <2>3. QED
    BY <2>2, FilesAssumption
<1> HIDE DEF e
<1>8. dirs'["package"] = e
  BY <1>4 DEF e
<1>9. Copy(dirs'["package"], s \cup {f})
  BY <1>6, <1>7, <1>8 DEF Copy, Puts
<1>10. QED
  BY <1>5, <1>9, TclPackage DEF Puts

LEMMA TclCopyDirs ==
  ASSUME IInv, TclCopy
  PROVE  Dirs'
<1> USE DEF IInv
<1>1. /\ step = "mkdir" /\ step' = "copy" /\ dirs["package"] = Gone
      /\ UNCHANGED <<kind, version, installed>>
  BY DEF TclCopy, Lib, Contents
<1>2. /\ kind = "Tcl" /\ installed = 0
      /\ dirs \in [Names -> Directory \cup {Gone}]
      /\ dirs["dirname"] = Gone /\ dirs["dirname.Libdir"] = Gone
  BY <1>1, TclPackage
<1> DEFINE d == [f \in Files |-> 0]
<1>3. d # Gone /\ \A f \in Files : d[f] = 0
  BY FilesAssumption, Constants DEF Directory
<1>4. dirs' = [dirs EXCEPT !["package"] = d] /\ left' = Shipped[version]
  BY <1>1 DEF TclCopy
<1> HIDE DEF d
<1>5. /\ dirs'["package"] = d
      /\ dirs'["dirname"] = Gone /\ dirs'["dirname.Libdir"] = Gone
  BY <1>2, <1>4 DEF Names
<1>6. Copied(Shipped[version] \ left)'
  BY <1>1, <1>3, <1>4, <1>5 DEF Copied, Copy
<1>7. QED
  BY <1>1, <1>2, <1>4, <1>5, <1>6 DEF Dirs, Homes, Contents, Result

LEMMA CopyFileDirs ==
  ASSUME IInv, NEW f \in Files, CopyFile(f)
  PROVE  Dirs'
<1> USE DEF IInv
<1>1. /\ step = "copy" /\ step' = "copy" /\ f \in left /\ left' = left \ {f}
      /\ UNCHANGED <<kind, version, installed>>
      /\ left \subseteq Shipped[version] /\ Copied(Shipped[version] \ left)
      /\ dirs' = [dirs EXCEPT !["package"][f] = version]
  BY DEF CopyFile, Lib, Contents
<1>2. (Shipped[version] \ left) \cup {f} = Shipped[version] \ left'
  BY <1>1
<1>3. /\ Copy(dirs'["package"], (Shipped[version] \ left) \cup {f})
      /\ dirs'["dirname"] = Gone /\ dirs'["dirname.Libdir"] = Gone
  <2> DEFINE s == Shipped[version] \ left
  <2>1. Copied(s) /\ Puts(f) /\ step \in {"copy", "index"}
    BY <1>1 DEF Puts
  <2> HIDE DEF s
  <2>2. /\ Copy(dirs'["package"], s \cup {f})
        /\ dirs'["dirname"] = Gone /\ dirs'["dirname.Libdir"] = Gone
    BY <2>1, CopyOne
  <2>3. QED
    BY <2>2 DEF s
<1>4. Copied(Shipped[version] \ left)'
  BY <1>1, <1>2, <1>3 DEF Copied, Copy
<1>5. QED
  BY <1>1, <1>3, <1>4, TclPackage DEF Dirs, Homes, Contents, Result

\* What is copied, with the index, is the library.
LEMMA CopiedIsGood ==
  ASSUME TypeOK, kind = "Tcl", NEW s, Copied(s), s = Library(version),
         dirs["dirname"] = Gone, dirs["dirname.Libdir"] = Gone
  PROVE  Good(version)
BY Typed, Constants DEF Copied, Copy, Good, Whole

LEMMA CopyEndsDirs ==
  ASSUME IInv, CopyEnds
  PROVE  Dirs'
<1> USE DEF IInv
<1>1. /\ step = "copy" /\ left = {}
      /\ UNCHANGED <<kind, version, left, dirs, installed>>
      /\ Copied(Shipped[version])
      /\ step' = IF dirs["package"][Index] # 0 THEN "end" ELSE "index"
  <2>1. step = "copy" /\ left = {} /\ Copied(Shipped[version] \ left)
    BY DEF CopyEnds, Contents
  <2>2. Shipped[version] \ left = Shipped[version]
    BY <2>1
  <2>3. QED
    BY <2>1, <2>2 DEF CopyEnds, Lib
<1>2. /\ kind = "Tcl" /\ installed = 0
      /\ dirs["dirname"] = Gone /\ dirs["dirname.Libdir"] = Gone
  BY <1>1, TclPackage
<1>3. CASE dirs["package"][Index] # 0
  <2>1. Index \in Shipped[version]
    BY <1>1, <1>3, FilesAssumption DEF Copied, Copy
  <2>2. Good(version)
    BY <1>1, <1>2, <2>1, CopiedIsGood DEF Library
  <2>3. Good(version)'
    BY <1>1, <2>2 DEF Good, Whole, Library
  <2>4. QED
    BY <1>1, <1>2, <1>3, <2>3 DEF Dirs, Homes, Contents, Result
<1>4. CASE dirs["package"][Index] = 0
  <2>1. Copied(Shipped[version])'
    BY <1>1 DEF Copied, Copy
  <2>2. QED
    BY <1>1, <1>2, <1>4, <2>1 DEF Dirs, Homes, Contents, Result
<1>5. QED
  BY <1>3, <1>4

LEMMA WriteIndexDirs ==
  ASSUME IInv, WriteIndex, TypeOK'
  PROVE  Dirs'
<1> USE DEF IInv
<1>1. /\ step = "index" /\ step' = "end"
      /\ UNCHANGED <<kind, version, left, installed>>
      /\ Copied(Shipped[version])
      /\ dirs' = [dirs EXCEPT !["package"][Index] = version]
  BY DEF WriteIndex, Lib, Contents
<1>2. kind = "Tcl" /\ installed = 0
  BY <1>1, TclPackage
<1>3. /\ Copy(dirs'["package"], Library(version))
      /\ dirs'["dirname"] = Gone /\ dirs'["dirname.Libdir"] = Gone
  <2>1. Index \in Files
    BY FilesAssumption
  <2> DEFINE s == Shipped[version]
  <2>2. Copied(s) /\ Puts(Index) /\ step \in {"copy", "index"}
    BY <1>1 DEF Puts
  <2> HIDE DEF s
  <2>3. /\ Copy(dirs'["package"], s \cup {Index})
        /\ dirs'["dirname"] = Gone /\ dirs'["dirname.Libdir"] = Gone
    BY <2>1, <2>2, CopyOne
  <2>4. QED
    BY <2>3 DEF s, Library
<1>4. Good(version)'
  <2>1. dirs'["package"] # Gone
    BY <1>3 DEF Copy
  <2>2. \A f \in Files : dirs'["package"][f] = IF f \in Library(version) THEN version ELSE 0
    BY <1>1, <1>3 DEF Copy
  <2>3. Library(version) \subseteq Files
    BY Typed, Constants
  <2>4. QED
    BY <1>1, <1>3, <2>1, <2>2, <2>3 DEF Good, Whole, Library
<1>5. QED
  BY <1>1, <1>2, <1>3, <1>4 DEF Dirs, Homes, Contents, Result

LEMMA InstallEndsDirs ==
  ASSUME IInv, InstallEnds
  PROVE  Dirs'
<1> USE DEF IInv
<1>1. /\ step = "end" /\ step' = "idle" /\ installed' = version /\ Good(version)
      /\ UNCHANGED <<kind, version, left, dirs>>
  BY DEF InstallEnds, Lib, Contents
<1>2. Good(installed)'
  BY <1>1 DEF Good, Whole, Library
<1>3. QED
  BY <1>1, <1>2 DEF Dirs, Homes, Contents, Result, Installing

LEMMA DirsStep ==
  ASSUME IInv, Next
  PROVE  Dirs'
<1>1. CASE Configure \/ PatchExists \/ PatchOpens \/ PatchWrites \/ PatchFails
           \/ ConfigureEnds \/ Distclean \/ Stop \/ Fetch
  <2>1. UNCHANGED <<kind, dirs, installed>> /\ step' \notin Installing
    BY <1>1 DEF Configure, PatchExists, PatchOpens, PatchWrites, PatchFails,
                ConfigureEnds, Distclean, Stop, Fetch, File, Installing
  <2>2. QED
    BY <2>1, SameDirs DEF IInv
<1>2. CASE Install \/ Libdir \/ RenameAside \/ RenameBack \/ DeleteEnds
           \/ TclCopy \/ CopyEnds \/ WriteIndex \/ InstallEnds
  BY <1>2, InstallDirs, LibdirDirs, AsideDirs, BackDirs, DeleteEndsDirs, TclCopyDirs,
     CopyEndsDirs, WriteIndexDirs, InstallEndsDirs, TypeStep
<1>3. CASE \E f \in Files : MakeCopies(f) \/ DeleteFile(f) \/ CopyFile(f)
  BY <1>3, MakeDirs, DeleteFileDirs, CopyFileDirs
<1>4. QED
  BY <1>1, <1>2, <1>3 DEF Next

-----------------------------------------------------------------------------
(* The inductive invariant.                                                 *)

LEMMA InitIInv == Init => IInv
<1> SUFFICES ASSUME Init PROVE IInv
  OBVIOUS
<1>1. TypeOK
  BY InitType
<1>2. dirs["dirname"] = Gone /\ dirs["dirname.Libdir"] = Gone
  BY DEF Init, Names
<1>3. Homes /\ Contents /\ Result
  BY <1>2 DEF Init, Homes, Contents, Result
<1>4. Texts
  BY PatchesAssumption, Constants DEF Init, Texts, Applied
<1>5. QED
  BY <1>1, <1>3, <1>4 DEF IInv

LEMMA StutterIInv == IInv /\ UNCHANGED vars => IInv'
<1> SUFFICES ASSUME IInv, UNCHANGED vars PROVE IInv'
  OBVIOUS
<1>1. UNCHANGED <<kind, version, dirs, left, text, held, at, step, makedir, configured,
                  installed>>
  BY DEF vars
<1>2. Dirname' = Dirname /\ MakeDir' = MakeDir
  BY <1>1 DEF Dirname, MakeDir
<1>3. TypeOK'
  BY <1>1 DEF IInv, TypeOK
<1>4. Texts'
  BY <1>1 DEF IInv, Texts, Applied
<1>5. Good(version)' <=> Good(version)
  BY <1>1 DEF Good, Whole, Library
<1>6. Good(installed)' <=> Good(installed)
  BY <1>1 DEF Good, Whole, Library
<1>7. Made' <=> Made
  BY <1>1, <1>2 DEF Made, Library
<1>8. /\ Whole(dirs[Dirname], version)' <=> Whole(dirs[Dirname], version)
      /\ Whole(dirs["dirname.Libdir"], version)' <=> Whole(dirs["dirname.Libdir"], version)
  BY <1>1, <1>2 DEF Whole, Library
<1>9. /\ Copied(Shipped[version])' <=> Copied(Shipped[version])
      /\ Copied(Shipped[version] \ left)' <=> Copied(Shipped[version] \ left)
  BY <1>1 DEF Copied, Copy
<1>10. Homes'
  BY <1>1 DEF IInv, Homes
<1>11. Contents'
  BY <1>1, <1>2, <1>5, <1>7, <1>8, <1>9 DEF IInv, Contents
<1>12. Result'
  BY <1>1, <1>6 DEF IInv, Result
<1>13. QED
  BY <1>3, <1>4, <1>10, <1>11, <1>12 DEF IInv

LEMMA NextIInv == IInv /\ [Next]_vars => IInv'
<1> SUFFICES ASSUME IInv, Next PROVE IInv'
  BY StutterIInv
<1>1. TypeOK'
  BY TypeStep
<1>2. Dirs'
  BY DirsStep
<1>3. Texts'
  BY TextStep
<1>4. QED
  BY <1>1, <1>2, <1>3 DEF IInv, Dirs

LEMMA Invariance == Spec => []IInv
BY InitIInv, NextIInv, PTL DEF Spec

-----------------------------------------------------------------------------
(* The theorems.                                                            *)

(* Every variable keeps its type; files wait to be copied only while make  *)
(* or Tcl copies, a text to be written only while Patch writes.            *)
THEOREM TypeCorrect == Spec => []TypeOK
BY Invariance, PTL DEF IInv

(* An Install section that ends leaves the library whole and nothing under *)
(* the other names, for all libraries and wherever those before it were    *)
(* killed.                                                                 *)
THEOREM InstallsWhole == Spec => []InstalledWhole
<1>1. IInv => InstalledWhole
  BY DEF IInv, Result, Good, InstalledWhole
<1>2. QED
  BY <1>1, Invariance, PTL

(* A Configure section that ends leaves the source file with each patch    *)
(* applied once, for all patches that fit their sources.                   *)
THEOREM PatchesLand == Spec => []PatchLands
<1>1. IInv => PatchLands
  BY DEF IInv, Texts, PatchLands
<1>2. QED
  BY <1>1, Invariance, PTL

(* Files appear under the name of the package all at once if Libdir brings *)
(* them.                                                                   *)
THEOREM LibdirAtomic == Spec => AppearsWhole
<1> DEFINE A == kind = "Libdir" /\ ~ (Has(dirs["package"])' \subseteq Has(dirs["package"]))
                  => Whole(dirs["package"], version)'
<1>1. ASSUME IInv, Next, kind = "Libdir"
      PROVE  \/ Has(dirs["package"])' \subseteq Has(dirs["package"])
             \/ Whole(dirs["package"], version)'
  <2> USE DEF IInv
  <2>1. CASE dirs'["package"] = dirs["package"]
    BY <2>1 DEF Has
  <2>2. CASE dirs'["package"] = Gone
    BY <2>2 DEF Has
  <2>3. dirs \in [Names -> Directory \cup {Gone}] /\ "package" \in Names
    BY <1>1, Typed DEF Names
  <2>4. ASSUME NEW f \in Files, MakeCopies(f)
        PROVE  dirs'["package"] = dirs["package"]
    BY <1>1, <2>3, <2>4 DEF MakeCopies, MakeDir
  <2>5. ASSUME NEW f \in Files, DeleteFile(f), dirs'["package"] # dirs["package"]
        PROVE  Has(dirs["package"])' \subseteq Has(dirs["package"])
    <3> DEFINE d == dirs["package"]
    <3>1. Doomed = "package" /\ d # Gone /\ d \in Directory
      BY <2>3, <2>5 DEF DeleteFile
    <3>2. dirs'["package"] = [d EXCEPT ![f] = 0]
      BY <2>3, <2>5, <3>1 DEF DeleteFile
    <3> HIDE DEF d
    <3> DEFINE e == [d EXCEPT ![f] = 0]
    <3>3. \A g \in Files : e[g] = IF g = f THEN 0 ELSE d[g]
      BY <3>1 DEF Directory
    <3> HIDE DEF e
    <3>4. Has(e) \subseteq Has(d)
      BY <3>1, <3>3 DEF Has
    <3>5. Has(dirs["package"])' = Has(e)
      BY <3>2 DEF Has, e
    <3>6. QED
      BY <3>4, <3>5 DEF d
  <2>6. CASE DeleteEnds
    BY <2>1, <2>2, <2>3, <2>6, Typed DEF DeleteEnds
  <2>7. CASE RenameAside
    <3>1. Dirname = "dirname" /\ dirs["dirname.Libdir"] = Gone
      BY <1>1, <2>7 DEF RenameAside, Dirname, Contents
    <3>2. "dirname" \in Names /\ "dirname.Libdir" \in Names
      BY DEF Names
    <3>3. dirs'["package"] = dirs["package"]
      BY <2>3, <2>7, <3>1, <3>2, RenamedFree DEF RenameAside
    <3>4. QED
      BY <2>1, <3>3
  <2>8. CASE RenameBack
    <3>1. dirs["package"] = Gone /\ Whole(dirs["dirname.Libdir"], version)
      BY <1>1, <2>8 DEF RenameBack, Contents
    <3>2. "dirname.Libdir" \in Names
      BY DEF Names
    <3>3. dirs'["package"] = dirs["dirname.Libdir"] /\ version' = version
      BY <2>3, <2>8, <3>1, <3>2, RenamedFree DEF RenameBack, Lib
    <3>4. QED
      BY <3>1, <3>3 DEF Whole, Library
  <2>9. ~TclCopy /\ ~WriteIndex /\ \A f \in Files : ~CopyFile(f)
    BY <1>1 DEF Homes, TclCopy, WriteIndex, CopyFile
  <2>10. CASE UNCHANGED dirs
    BY <2>1, <2>10
  <2>11. QED
    <3>1. CASE Configure \/ PatchExists \/ PatchOpens \/ PatchWrites \/ PatchFails
               \/ ConfigureEnds \/ Distclean
      BY <3>1, <2>10 DEF Configure, PatchExists, PatchOpens, PatchWrites, PatchFails,
                         ConfigureEnds, Distclean, File
    <3>2. CASE Install \/ Libdir \/ CopyEnds \/ InstallEnds \/ Stop \/ Fetch
      BY <3>2, <2>10 DEF Install, Libdir, CopyEnds, InstallEnds, Stop, Fetch
    <3>3. QED
      BY <1>1, <2>1, <2>4, <2>5, <2>6, <2>7, <2>8, <2>9, <3>1, <3>2 DEF Next
<1>2. IInv /\ [Next]_vars => [A]_vars
  BY <1>1
<1>3. QED
  BY <1>2, Invariance, PTL DEF Spec, AppearsWhole

-----------------------------------------------------------------------------
(* The installation implements Installation.                               *)

\* A directory is whole in one version at most, that of its index.
LEMMA ViewWhole ==
  ASSUME NEW d, NEW v \in Versions, Whole(d, v)
  PROVE  View(d) = v
<1>1. \A u \in Versions : Whole(d, u) => d[Index] = u
  BY Constants DEF Whole
<1>2. QED
  BY <1>1 DEF View

LEMMA ViewValue ==
  ASSUME NEW d
  PROVE  \/ View(d) = 0 /\ \A v \in Versions : ~Whole(d, v)
         \/ View(d) \in Versions /\ Whole(d, View(d))
BY DEF View

LEMMA ViewGone == View(Gone) = 0
BY DEF View, Whole

\* A file that is written or deleted makes no other version whole.
LEMMA ViewWith ==
  ASSUME NEW d \in Directory \cup {Gone}, NEW f \in Files, NEW v \in 0 .. MaxVersion
  PROVE  View(With(d, f, v)) \in {View(d), 0, v}
<1> DEFINE e == With(d, f, v)
<1>1. Written(e, d, f, v)
  BY WithWrites
<1> USE DEF Written
<1> HIDE DEF e
<1>2. CASE View(e) = 0
  BY <1>2 DEF e
<1>3. CASE View(e) \in Versions /\ Whole(e, View(e)) /\ View(e) # v
  <2> DEFINE u == View(e)
  <2>1. u \in Versions /\ Library(u) \subseteq Files /\ Index \in Library(u) /\ u # 0
    BY <1>3, Constants
  <2>2. (\A g \in Library(u) : e[g] = u) /\ u # v
    BY <1>3 DEF Whole
  <2> HIDE DEF u
  <2>3. f \notin Library(u)
    BY <1>1, <2>2
  <2>4. d # Gone
    BY <1>1, <2>1, <2>2, <2>3
  <2>5. Whole(d, u)
    BY <1>1, <2>1, <2>2, <2>3, <2>4 DEF Whole
  <2>6. View(d) = u
    BY <2>1, <2>5, ViewWhole
  <2>7. QED
    BY <2>6 DEF u, e
<1>4. CASE View(e) = v
  BY <1>4 DEF e
<1>5. QED
  BY <1>2, <1>3, <1>4, ViewValue

\* What each step of an installation does to the library that is there.
LEMMA ViewStep ==
  ASSUME IInv, Next, step \in Installing
  PROVE  \/ View(dirs'["package"]) = View(dirs["package"])
         \/ View(dirs'["package"]) = 0
         \/ View(dirs'["package"]) = version
<1> USE DEF IInv
<1>1. /\ dirs \in [Names -> Directory \cup {Gone}]
      /\ version \in Versions /\ version \in 0 .. MaxVersion /\ 0 \in 0 .. MaxVersion
      /\ "package" \in Names /\ "dirname" \in Names /\ "dirname.Libdir" \in Names
      /\ dirs["package"] \in Directory \cup {Gone}
  <2>1. dirs \in [Names -> Directory \cup {Gone}] /\ "package" \in Names
    BY Typed DEF Names
  <2>2. dirs["package"] \in Directory \cup {Gone}
    BY <2>1
  <2>3. QED
    BY <2>1, <2>2, Typed, Constants DEF Names
<1>2. CASE dirs'["package"] = dirs["package"]
  BY <1>2
<1>3. CASE dirs'["package"] = Gone
  BY <1>3, ViewGone
<1>4. ASSUME NEW f \in Files, NEW v \in {0, version},
             dirs'["package"] = With(dirs["package"], f, v)
      PROVE  View(dirs'["package"]) \in {View(dirs["package"]), 0, version}
  <2> DEFINE d == dirs["package"]
  <2>1. d \in Directory \cup {Gone} /\ v \in 0 .. MaxVersion
    BY <1>1
  <2> HIDE DEF d
  <2>2. View(With(d, f, v)) \in {View(d), 0, v}
    BY <2>1, ViewWith
  <2>3. QED
    BY <1>4, <2>2 DEF d
<1>5. CASE \E f \in Files : MakeCopies(f)
  <2>1. PICK f \in Files : MakeCopies(f)
    BY <1>5
  <2>2. dirs' = [dirs EXCEPT ![MakeDir] = With(dirs[MakeDir], f, version)]
    BY <2>1 DEF MakeCopies
  <2>3. CASE MakeDir = "package"
    <3>1. dirs'["package"] = With(dirs["package"], f, version)
      BY <1>1, <2>2, <2>3
    <3>2. QED
      BY <3>1, <1>4
  <2>4. CASE MakeDir # "package"
    BY <1>1, <1>2, <2>2, <2>4
  <2>5. QED
    BY <2>3, <2>4
<1>6. CASE \E f \in Files : DeleteFile(f)
  <2>1. PICK f \in Files : DeleteFile(f)
    BY <1>6
  <2>2. dirs[Doomed] # Gone /\ dirs' = [dirs EXCEPT ![Doomed][f] = 0]
    BY <2>1 DEF DeleteFile
  <2>3. CASE Doomed = "package"
    <3>1. dirs'["package"] = [dirs["package"] EXCEPT ![f] = 0] /\ dirs["package"] # Gone
      BY <1>1, <2>2, <2>3
    <3>2. dirs'["package"] = With(dirs["package"], f, 0)
      BY <3>1 DEF With
    <3>3. QED
      BY <3>2, <1>4
  <2>4. CASE Doomed # "package"
    BY <1>1, <1>2, <2>2, <2>4
  <2>5. QED
    BY <2>3, <2>4
<1>7. CASE DeleteEnds
  BY <1>1, <1>2, <1>3, <1>7 DEF DeleteEnds
<1>8. CASE RenameAside
  <2>1. dirs["dirname.Libdir"] = Gone /\ Dirname \in {"dirname", "package"}
    BY <1>8 DEF RenameAside, Dirname, Contents
  <2>2. dirs'["package"] = Gone \/ dirs'["package"] = dirs["package"]
    <3> DEFINE n == Dirname
    <3>1. n \in {"dirname", "package"} /\ dirs' = Renamed(dirs, n, "dirname.Libdir")
      BY <1>8, <2>1 DEF RenameAside
    <3> HIDE DEF n
    <3>2. QED
      BY <1>1, <2>1, <3>1 DEF Renamed
  <2>3. QED
    BY <1>2, <1>3, <2>2
<1>9. CASE RenameBack
  <2>1. dirs["package"] = Gone /\ Whole(dirs["dirname.Libdir"], version)
    BY <1>9 DEF RenameBack, Contents
  <2>2. dirs'["package"] = dirs["dirname.Libdir"]
    BY <1>1, <1>9, <2>1, RenamedFree DEF RenameBack
  <2>3. QED
    BY <1>1, <2>1, <2>2, ViewWhole
<1>10. CASE TclCopy
  <2>1. dirs'["package"] = [f \in Files |-> 0]
    BY <1>1, <1>10 DEF TclCopy, Contents
  <2> DEFINE d == [f \in Files |-> 0]
  <2>2. \A v \in Versions : ~Whole(d, v)
    BY Constants DEF Whole
  <2>3. View(d) = 0
    BY <2>2 DEF View
  <2>4. QED
    BY <2>1, <2>3
<1>11. ASSUME NEW f \in Files, step \in {"copy", "index"},
              dirs' = [dirs EXCEPT !["package"][f] = version]
       PROVE  View(dirs'["package"]) \in {View(dirs["package"]), 0, version}
  <2>1. dirs["package"] # Gone
    BY <1>11 DEF Contents, Copied, Copy
  <2>2. dirs'["package"] = [dirs["package"] EXCEPT ![f] = version]
    BY <1>1, <1>11
  <2>3. dirs'["package"] = With(dirs["package"], f, version)
    BY <2>1, <2>2 DEF With
  <2>4. QED
    BY <2>3, <1>4
<1>12. CASE \E f \in Files : CopyFile(f)
  BY <1>11, <1>12 DEF CopyFile
<1>13. CASE WriteIndex
  BY <1>11, <1>13, FilesAssumption DEF WriteIndex
<1>14. CASE Libdir \/ CopyEnds \/ InstallEnds \/ Stop
  BY <1>2, <1>14 DEF Libdir, CopyEnds, InstallEnds, Stop
<1>15. ~ (Configure \/ PatchExists \/ PatchOpens \/ PatchWrites \/ PatchFails
            \/ ConfigureEnds \/ Distclean \/ Install \/ Fetch)
  BY DEF Configure, PatchExists, PatchOpens, PatchWrites, PatchFails,
         ConfigureEnds, Distclean, Install, Fetch, Installing
<1>16. QED
  BY <1>5, <1>6, <1>7, <1>8, <1>9, <1>10, <1>12, <1>13, <1>14, <1>15 DEF Next

LEMMA PromiseInit == Init => Promise!Init
<1> SUFFICES ASSUME Init PROVE Promise!Init
  OBVIOUS
<1>1. dirs["package"] = Gone /\ step \notin Installing /\ installed = 0
  BY DEF Init, Names, Installing
<1>2. QED
  BY <1>1, ViewGone DEF Promise!Init

LEMMA PromiseStep == IInv /\ IInv' /\ [Next]_vars => [Promise!Next]_(Promise!vars)
<1> SUFFICES ASSUME IInv, IInv', Next \/ UNCHANGED vars
             PROVE  Promise!Next \/ UNCHANGED Promise!vars
  OBVIOUS
<1> DEFINE asked == IF step \in Installing THEN version ELSE 0
           view  == View(dirs["package"])
<1>1. version \in Versions /\ version # 0
  BY Typed, Constants DEF IInv
<1>2. CASE UNCHANGED <<dirs, installed>> /\ asked' = asked
  BY <1>2 DEF Promise!vars
<1>3. CASE Configure \/ PatchExists \/ PatchOpens \/ PatchWrites \/ PatchFails
           \/ ConfigureEnds \/ Distclean \/ Fetch \/ (Stop /\ step \notin Installing)
  <2>1. UNCHANGED <<dirs, installed>> /\ step \notin Installing /\ step' \notin Installing
    BY <1>3 DEF Configure, PatchExists, PatchOpens, PatchWrites, PatchFails,
                ConfigureEnds, Distclean, Fetch, Stop, File, Installing
  <2>2. QED
    BY <1>2, <2>1
<1>4. CASE Install
  <2>1. /\ step \notin Installing /\ step' \in Installing /\ installed' = 0
        /\ UNCHANGED <<dirs, version>>
    BY <1>4 DEF Install, Lib, Installing
  <2>2. asked = 0 /\ asked' \in Versions /\ view' = view
    BY <1>1, <2>1
  <2>3. Promise!Begin
    BY <2>1, <2>2 DEF Promise!Begin
  <2>4. QED
    BY <2>3 DEF Promise!Next
<1>5. CASE Stop /\ step \in Installing
  <2>1. /\ step \in Installing /\ step' \notin Installing
        /\ UNCHANGED <<dirs, installed>>
    BY <1>5 DEF Stop, Installing
  <2>2. asked # 0 /\ asked' = 0 /\ view' = view
    BY <1>1, <2>1
  <2>3. Promise!Abort
    BY <2>1, <2>2 DEF Promise!Abort
  <2>4. QED
    BY <2>3 DEF Promise!Next
<1>6. CASE InstallEnds
  <2>1. /\ step = "end" /\ step' = "idle" /\ installed' = version
        /\ UNCHANGED <<dirs, version>> /\ Whole(dirs["package"], version)
    BY <1>6 DEF InstallEnds, Lib, IInv, Contents, Good
  <2>2. asked = version /\ asked' = 0 /\ view' = view
    BY <2>1 DEF Installing
  <2>3. view = version
    BY <1>1, <2>1, ViewWhole
  <2>4. Promise!End
    BY <1>1, <2>1, <2>2, <2>3 DEF Promise!End
  <2>5. QED
    BY <2>4 DEF Promise!Next
<1>7. ASSUME Next, step \in Installing, step' \in Installing,
             UNCHANGED <<version, installed>>
      PROVE  Promise!Next \/ UNCHANGED Promise!vars
  <2>1. asked = version /\ asked' = asked /\ asked # 0
    BY <1>1, <1>7
  <2>2. view' = view \/ view' = 0 \/ view' = version
    BY <1>7, ViewStep
  <2>3. CASE view' = view
    BY <1>7, <2>1, <2>3 DEF Promise!vars
  <2>4. CASE view' = 0
    BY <1>7, <2>1, <2>4 DEF Promise!Withdraw, Promise!Next
  <2>5. CASE view' = version
    BY <1>7, <2>1, <2>5 DEF Promise!Publish, Promise!Next
  <2>6. QED
    BY <2>2, <2>3, <2>4, <2>5
<1>8. CASE Libdir \/ RenameAside \/ RenameBack \/ DeleteEnds \/ TclCopy \/ CopyEnds
           \/ WriteIndex \/ \E f \in Files : MakeCopies(f) \/ DeleteFile(f) \/ CopyFile(f)
  <2>1. step \in Installing /\ step' \in Installing /\ UNCHANGED <<version, installed>>
    BY <1>8, Typed DEF Libdir, RenameAside, RenameBack, DeleteEnds, TclCopy, CopyEnds,
       WriteIndex, MakeCopies, DeleteFile, CopyFile, Lib, Deleting, Installing, IInv
  <2>2. Next
    BY <1>8 DEF Next
  <2>3. QED
    BY <1>7, <2>1, <2>2
<1>9. CASE UNCHANGED vars
  BY <1>2, <1>9 DEF vars
<1>10. QED
  BY <1>3, <1>4, <1>5, <1>6, <1>8, <1>9 DEF Next

(* Install sections take the library away and bring it as Installation     *)
(* promises: its version changes only to none or to the one that is being  *)
(* installed, and an installation that ends leaves that one.               *)
THEOREM Refinement == Spec => InstallsAsPromised
<1>1. Init => Promise!Init
  BY PromiseInit
<1>2. IInv /\ IInv' /\ [Next]_vars => [Promise!Next]_(Promise!vars)
  BY PromiseStep
<1>3. QED
  BY <1>1, <1>2, Invariance, PTL DEF Spec, InstallsAsPromised, Promise!Spec
=============================================================================
