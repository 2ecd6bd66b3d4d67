-------------------------- MODULE KbsSource_proofs --------------------------
(***************************************************************************)
(* Proofs about KbsSource for every set of packages and Source scripts.    *)
(***************************************************************************)
EXTENDS KbsSource, StackLemmas

\* The running process, and the command it is at.
LEMMA Running ==
  ASSUME TypeOK, procs # <<>>
  PROVE  /\ Len(procs) \in Nat \ {0} /\ me = procs[Len(procs)] /\ me \in Process
         /\ me.pkg \in Pkg /\ Script[me.pkg] \in Seq(Command)
         /\ Len(Script[me.pkg]) \in Nat
         /\ me.at <= Len(Script[me.pkg])
              => cmd \in Command /\ cmd = CommandOf(me) /\ myDir = myDirOf(me) /\ myDir \in Name
         /\ me.pc # "command" => me.at <= Len(Script[me.pkg])
<1>1. Len(procs) \in Nat \ {0} /\ me = procs[Len(procs)] /\ me \in Process
  BY DEF TypeOK, me, Last
<1>2. me.pkg \in Pkg /\ Script[me.pkg] \in Seq(Command) /\ me.at \in Nat \ {0}
  BY <1>1, ConstantsAssumption DEF Process
<1>3. Len(Script[me.pkg]) \in Nat
  BY <1>2
<1>4. ASSUME me.at <= Len(Script[me.pkg])
      PROVE  cmd \in Command /\ cmd = CommandOf(me) /\ myDir = myDirOf(me) /\ myDir \in Name
  <2>1. Script[me.pkg][me.at] \in Command
    BY <1>2, <1>4
  <2>2. cmd.type = "Link" => cmd.arg \in Name
    BY <2>1 DEF Command, cmd, CommandOf
  <2> QED
    BY <1>2, <2>1, <2>2 DEF cmd, CommandOf, myDir, myDirOf, Name
<1>5. me.pc # "command" => me.at <= Len(Script[me.pkg])
  BY <1>1 DEF TypeOK
<1> QED
  BY <1>1, <1>2, <1>3, <1>4, <1>5

\* What the invariant says of a process between two steps of a command c.
Fits(pc, c) ==
  /\ pc = "checkout" => c.type = "InPlace"
  /\ pc \in {"curl", "move", "delete"} => c.type = "Fetch"
  /\ pc = "move" => Kind[c.arg] = "kit"
  /\ pc \in {"unpack", "rename", "tidy"} => c.type \in {"Fetch", "Unpack"}
  /\ pc \in {"child", "linked", "failed"} => c.type = "Link"
  /\ pc = "discard" => c.type \in {"Fetch", "Unpack", "Link"}
Matches(p) == Fits(p.pc, CommandOf(p))

\* StepsMatch process by process.
MatchEach ==
  StepsMatch <=> \A i \in 1..Len(procs) :
                   Matches(procs[i]) /\ (i < Len(procs) => procs[i].pc = "child")

LEMMA MatchesEach == MatchEach
  BY DEF MatchEach, StepsMatch, Matches, Fits, CommandOf

\* A step of the running process that turns it into p preserves the invariant if
\* it removes no other directory than the one its command makes, starts to make
\* only one that does not exist, and ends with an existing one in _(srcdir).
LEMMA OwnStep ==
  ASSUME IInv, procs # <<>>, UNCHANGED <<before, killed>>, result' \in {"none", "ok", "error"},
         tree' \in [Name -> {"none", "empty", "partial", "junk", "whole"}],
         tmp' \in [Name -> {"none", "partial", "whole", "rest"}],
         file' \in [File -> {"none", "partial", "junk", "whole"}],
         NEW p \in Process, procs' = With(p), p.pkg = me.pkg,
         p.at <= Len(Script[me.pkg]) + 1,
         p.pc # "command" =>
           /\ p.at = me.at /\ p.at <= Len(Script[me.pkg]) /\ p.srcdir = me.srcdir
           /\ me.pc # "command" \/ tree[myDir] = "none",
         Matches(p),
         \A n \in Name : tree[n] # "none" /\ tree'[n] = "none"
                           => me.pc # "command" /\ n = myDir,
         p.srcdir # None => tree'[p.srcdir] # "none",
         ArchivesWhole'
  PROVE  IInv'
<1> USE DEF IInv
<1>1. /\ Len(procs) \in Nat \ {0} /\ me = procs[Len(procs)] /\ procs \in Seq(Process)
      /\ \A i \in 1..Len(procs) : i \in 1..Len(procs)-1 \/ i = Len(procs)
  BY Running DEF TypeOK
<1>2. /\ procs' \in Seq(Process) /\ Len(procs') = Len(procs) /\ procs' # <<>>
      /\ procs'[Len(procs)] = p
      /\ \A i \in 1..Len(procs)-1 : procs'[i] = procs[i]
  BY ReplaceLast, <1>1 DEF With
<1>3. \A i \in 1..Len(procs) : i < Len(procs) => procs[i].pc = "child"
  BY DEF StepsMatch
<1>4. TypeOK'
  <2>1. p.pkg = me.pkg /\ p.at <= Len(Script[p.pkg]) + 1
        /\ (p.pc # "command" => p.at <= Len(Script[p.pkg]))
    OBVIOUS
  <2>2. ASSUME NEW i \in 1..Len(procs)
        PROVE  /\ procs'[i].at <= Len(Script[procs'[i].pkg]) + 1
               /\ procs'[i].pc # "command" => procs'[i].at <= Len(Script[procs'[i].pkg])
    <3>1. CASE i = Len(procs)
      BY ONLY <1>2, <2>1, <3>1
    <3>2. CASE i \in 1..Len(procs)-1
      <4>1. procs'[i] = procs[i]
        BY <1>2, <3>2
      <4> QED
        BY <4>1 DEF TypeOK
    <3> QED
      BY ONLY <1>1, <3>1, <3>2
  <2>3. killed' \in BOOLEAN /\ before' \subseteq Name
    BY DEF TypeOK
  <2> QED
    BY <1>2, <2>2, <2>3 DEF TypeOK
<1>5. StepsMatch'
  <2> SUFFICES ASSUME NEW i \in 1..Len(procs)
               PROVE  Matches(procs'[i]) /\ (i < Len(procs) => procs'[i].pc = "child")
    <3>1. MatchEach'
      BY MatchesEach, PTL
    <3> QED
      BY <1>2, <3>1 DEF MatchEach
  <2>1. CASE i = Len(procs)
    BY <1>1, <1>2, <2>1
  <2>2. CASE i \in 1..Len(procs)-1
    <3>1. procs'[i] = procs[i] /\ i \in 1..Len(procs)
      BY <1>2, <2>2
    <3>2. Matches(procs[i])
      BY <3>1, MatchesEach DEF MatchEach
    <3> QED
      BY <1>1, <1>3, <2>2, <3>1, <3>2
  <2> QED
    BY <1>1, <2>1, <2>2
<1>6. me.pc # "command" => /\ myDir \notin before
                           /\ \A i \in 1..Len(procs) : procs[i].srcdir # myDir
  BY <1>1 DEF MakesNew, myDir
<1>7. \A n \in before : n \in Name /\ tree[n] # "none" /\ tree'[n] # "none"
  BY <1>6 DEF Preserved, TypeOK
<1>8. ASSUME NEW i \in 1..Len(procs), procs[i].srcdir # None
      PROVE  tree[procs[i].srcdir] # "none" /\ tree'[procs[i].srcdir] # "none"
  <2>1. procs[i] \in Process /\ tree[procs[i].srcdir] # "none"
    BY <1>1, <1>8 DEF SrcdirExists
  <2>2. procs[i].srcdir \in Name
    BY <1>8, <2>1 DEF Process
  <2> QED
    BY <1>6, <2>1, <2>2
<1>9. Preserved' /\ SrcdirExists'
  <2>1. Preserved'
    BY <1>7 DEF Preserved
  <2>2. ASSUME NEW i \in 1..Len(procs), procs'[i].srcdir # None
        PROVE  tree'[procs'[i].srcdir] # "none"
    <3>1. CASE i = Len(procs)
      BY ONLY <1>2, <2>2, <3>1, p.srcdir # None => tree'[p.srcdir] # "none"
    <3>2. CASE i \in 1..Len(procs)-1
      BY ONLY <1>2, <1>8, <2>2, <3>2
    <3> QED
      BY ONLY <1>1, <3>1, <3>2
  <2> QED
    BY <1>2, <2>1, <2>2 DEF SrcdirExists
<1>10. MakesNew'
  <2> SUFFICES ASSUME NEW j \in 1..Len(procs), procs'[j].pc # "command"
               PROVE  /\ myDirOf(procs'[j]) \notin before
                      /\ \A i \in 1..j : procs'[i].srcdir # myDirOf(procs'[j])
    BY <1>2 DEF MakesNew
  <2>1. CASE j # Len(procs)
    <3>1. j \in 1..Len(procs)-1 /\ \A i \in 1..j : i \in 1..Len(procs)-1
      BY <1>1, <2>1
    <3> QED
      BY <1>2, <3>1 DEF MakesNew
  <2>2. CASE j = Len(procs)
    <3>1. /\ p.pc # "command" /\ p.at = me.at /\ p.srcdir = me.srcdir /\ myDirOf(p) = myDir
      BY <1>2, <2>2 DEF myDirOf, CommandOf, myDir, cmd
    <3>2. \A i \in 1..j : procs'[i].srcdir = procs[i].srcdir
      BY <1>1, <1>2, <2>2, <3>1
    <3>3. CASE me.pc # "command"
      BY <1>2, <1>6, <2>2, <3>1, <3>2, <3>3
    <3>4. CASE tree[myDir] = "none"
      <4>1. myDir \in Name
        BY Running, <3>1
      <4>2. \A i \in 1..Len(procs) : procs[i].srcdir # myDir
        BY <1>8, <3>4, <4>1, ConstantsAssumption
      <4> QED
        BY <1>2, <1>7, <2>2, <3>1, <3>2, <3>4, <4>2
    <3> QED
      BY <3>1, <3>3, <3>4
  <2> QED
    BY <2>1, <2>2
<1> QED
  BY <1>4, <1>5, <1>9, <1>10

\* The end of a command: _(srcdir) is its directory if that exists now.
LEMMA DoneStep ==
  ASSUME IInv, procs # <<>>, me.pc # "command",
         UNCHANGED <<result, history>>,
         tree' \in [Name -> {"none", "empty", "partial", "junk", "whole"}],
         tmp' \in [Name -> {"none", "partial", "whole", "rest"}],
         file' \in [File -> {"none", "partial", "junk", "whole"}],
         \A n \in Name \ {myDir} : tree'[n] = tree[n],
         ArchivesWhole', Done
  PROVE  IInv'
<1>1. /\ me \in Process /\ myDir \in Name /\ me.at <= Len(Script[me.pkg])
      /\ Len(Script[me.pkg]) \in Nat
      /\ Len(procs) \in Nat \ {0} /\ me = procs[Len(procs)]
  BY Running DEF IInv
<1> DEFINE d == IF tree'[myDir] # "none" THEN myDir ELSE me.srcdir
           p == [pkg |-> me.pkg, at |-> me.at + 1, srcdir |-> d, pc |-> "command"]
<1>2. procs' = With(p)
  BY DEF Done, NextCommand
<1>3. p \in Process /\ p.pkg = me.pkg /\ p.at = me.at + 1 /\ p.pc = "command" /\ p.srcdir = d
  <2>1. d \in Name \union {None}
    BY <1>1 DEF Process
  <2> QED
    BY <1>1, <2>1 DEF Process
<1>4. me.srcdir # None => tree[me.srcdir] # "none" /\ me.srcdir \in Name
  BY <1>1 DEF IInv, SrcdirExists, Process
<1>5. d # None => tree'[d] # "none"
  BY <1>1, <1>4 DEF IInv, MakesNew, myDir
<1>6. Matches(p)
  BY <1>3 DEF Matches, Fits
<1>7. result' \in {"none", "ok", "error"} /\ UNCHANGED <<before, killed>>
  BY DEF IInv, TypeOK, history
<1>8. me.pc # "command" /\ \A n \in Name : tree[n] # "none" /\ tree'[n] = "none" => n = myDir
  OBVIOUS
<1>9. p.at <= Len(Script[me.pkg]) + 1
  BY <1>1, <1>3 DEF Process
<1> HIDE DEF p, d
<1> QED
  BY <1>2, <1>3, <1>5, <1>6, <1>7, <1>8, <1>9, OwnStep

\* A step inside a command, which leaves the directories it does not make alone.
LEMMA GotoStep ==
  ASSUME IInv, procs # <<>>, UNCHANGED <<result, history>>,
         tree' \in [Name -> {"none", "empty", "partial", "junk", "whole"}],
         tmp' \in [Name -> {"none", "partial", "whole", "rest"}],
         file' \in [File -> {"none", "partial", "junk", "whole"}],
         me.at <= Len(Script[me.pkg]),
         me.pc # "command" \/ tree[myDir] = "none",
         \A n \in Name \ {myDir} : tree'[n] = tree[n],
         NEW pc \in {"checkout", "curl", "unpack", "rename", "tidy", "discard", "delete",
                     "move", "child", "linked", "failed"},
         Goto(pc), Fits(pc, cmd), ArchivesWhole'
  PROVE  IInv'
<1>1. /\ me \in Process /\ myDir \in Name /\ Len(Script[me.pkg]) \in Nat
      /\ Len(procs) \in Nat \ {0} /\ me = procs[Len(procs)]
  BY Running DEF IInv
<1> DEFINE p == [me EXCEPT !.pc = pc]
<1>2. /\ p \in Process /\ p.pkg = me.pkg /\ p.at = me.at /\ p.srcdir = me.srcdir /\ p.pc = pc
      /\ procs' = With(p)
  BY <1>1 DEF Process, Goto
<1>3. me.srcdir # None => tree[me.srcdir] # "none" /\ me.srcdir \in Name
  BY <1>1 DEF IInv, SrcdirExists, Process
<1>4. me.srcdir # None => me.srcdir # myDir
  BY <1>1, <1>3 DEF IInv, MakesNew, myDir
<1>5. result' \in {"none", "ok", "error"} /\ UNCHANGED <<before, killed>>
  BY DEF IInv, TypeOK, history
<1>6. \A n \in Name : tree[n] # "none" /\ tree'[n] = "none" => me.pc # "command" /\ n = myDir
  OBVIOUS
<1>7. p.srcdir # None => tree'[p.srcdir] # "none"
  BY <1>2, <1>3, <1>4
<1>8. me.at <= Len(Script[me.pkg]) + 1
  BY <1>1 DEF Process
<1>9. Matches(p)
  BY <1>2 DEF Matches, CommandOf, cmd
<1> HIDE DEF p
<1> QED
  BY <1>2, <1>5, <1>6, <1>7, <1>8, <1>9, OwnStep

-----------------------------------------------------------------------------
\* The script of an archived package neither works in place nor moves a kit.
LEMMA ArchivedCommand ==
  ASSUME TypeOK, procs # <<>>, me.at <= Len(Script[me.pkg]), me.pkg \in Archived
  PROVE  \/ cmd.type = "Unpack" /\ cmd.arg \notin Hidden
         \/ cmd.type = "Fetch" /\ Kind[cmd.arg] # "kit" /\ cmd.arg \notin Hidden
         \/ cmd.type = "Other" /\ \A q \in Pkg : me.pkg \notin LinksOf(q)
<1>1. me.at \in 1..Len(Script[me.pkg])
  BY Running DEF Process
<1> QED
  BY <1>1 DEF Archived, cmd, CommandOf

\* A step that leaves whole what it makes keeps archived packages whole, and so
\* does one that makes anything in the directory of another package.
LEMMA WholeStep ==
  ASSUME IInv, \A n \in Name \ {myDir} : tree'[n] = tree[n],
         tree'[myDir] \in {"none", "whole"} \/ myDir \notin Archived
  PROVE  ArchivesWhole'
  BY DEF IInv, ArchivesWhole, Archived, Name

\* The running process ends; the files may not change.
LEMMA EndsStep ==
  ASSUME IInv, procs # <<>>, NEW ok \in BOOLEAN, Ends(ok), UNCHANGED <<files, history>>
  PROVE  IInv'
<1> USE DEF IInv, files, history
<1>1. /\ Len(procs) \in Nat \ {0} /\ procs \in Seq(Process)
  BY Running DEF TypeOK
<1>2. CASE Len(procs) = 1
  BY <1>2 DEF Ends, TypeOK, StepsMatch, MakesNew, Preserved, SrcdirExists, ArchivesWhole
<1>3. CASE Len(procs) # 1
  <2>0. PICK pc \in {"linked", "failed"} :
          /\ procs' = [Front(procs) EXCEPT ![Len(procs) - 1].pc = pc]
          /\ UNCHANGED result
    <3>1. CASE ok
      BY <1>3, <3>1 DEF Ends
    <3>2. CASE ~ok
      BY <1>3, <3>2 DEF Ends
    <3> QED
      BY <3>1, <3>2
  <2> DEFINE k == Len(procs) - 1
             p == [procs[k] EXCEPT !.pc = pc]
  <2>1. k \in 1..Len(procs) /\ k < Len(procs) /\ k \in Nat \ {0} /\ k = Len(procs) - 1
    <3>1. ASSUME NEW n \in Nat \ {0}, n # 1
          PROVE  n - 1 \in 1..n /\ n - 1 < n /\ n - 1 \in Nat \ {0}
      BY ONLY <3>1
    <3> QED
      BY <1>1, <1>3, <3>1
  <2>2. /\ Front(procs) \in Seq(Process) /\ Len(Front(procs)) = k
        /\ \A i \in 1..k : Front(procs)[i] = procs[i]
    BY <1>1, <2>1, DropLast
  <2>3. Front(procs) # <<>> /\ k \in 1..k
    BY <2>1, <2>2
  <2>4. /\ p \in Process /\ p.pc = pc /\ p.pkg = procs[k].pkg /\ p.at = procs[k].at
        /\ p.srcdir = procs[k].srcdir
    <3>1. procs[k] \in Process
      BY <1>1, <2>1
    <3> QED
      BY <3>1 DEF Process
  <2>5. procs' = [Front(procs) EXCEPT ![k] = p] /\ UNCHANGED result
    BY <2>0, <2>2, <2>3
  <2> HIDE DEF p
  <2>6. /\ procs' \in Seq(Process) /\ Len(procs') = k /\ procs' # <<>>
        /\ procs'[k] = p
        /\ \A i \in 1..k-1 : procs'[i] = procs[i]
    BY <2>1, <2>2, <2>3, <2>4, <2>5, ReplaceLast
  <2>7. \A i \in 1..k : i \in 1..Len(procs) /\ (i \in 1..k-1 \/ i = k)
    BY <2>1
  <2>8. \A i \in 1..k : procs[i].pc = "child" /\ CommandOf(procs[i]).type = "Link"
    BY <2>1, <2>7 DEF StepsMatch
  <2>9. \A i \in 1..k : /\ procs'[i].pkg = procs[i].pkg /\ procs'[i].at = procs[i].at
                        /\ procs'[i].srcdir = procs[i].srcdir
                        /\ procs'[i].pc = IF i = k THEN pc ELSE "child"
    BY <2>1, <2>4, <2>6, <2>7, <2>8
  <2>10. \A i \in 1..k : CommandOf(procs'[i]) = CommandOf(procs[i]) /\ myDirOf(procs'[i]) = myDirOf(procs[i])
    BY <2>9 DEF CommandOf, myDirOf
  <2>11. TypeOK'
    <3>1. \A i \in 1..k : procs[i].at <= Len(Script[procs[i].pkg])
                          /\ procs[i].at <= Len(Script[procs[i].pkg]) + 1
      BY <2>7, <2>8 DEF TypeOK
    <3>2. \A i \in 1..k : /\ procs'[i].at <= Len(Script[procs'[i].pkg]) + 1
                          /\ procs'[i].at <= Len(Script[procs'[i].pkg])
      BY <2>9, <3>1
    <3> QED
      BY <2>5, <2>6, <3>2 DEF TypeOK
  <2>12. StepsMatch'
    BY <2>1, <2>6, <2>8, <2>9, <2>10 DEF StepsMatch
  <2>13. MakesNew'
    <3> SUFFICES ASSUME NEW j \in 1..k
                 PROVE  /\ myDirOf(procs'[j]) \notin before
                        /\ \A i \in 1..j : procs'[i].srcdir # myDirOf(procs'[j])
      BY <2>6 DEF MakesNew
    <3>1. j \in 1..Len(procs) /\ procs[j].pc # "command" /\ \A i \in 1..j : i \in 1..k
      BY <2>1, <2>7, <2>8
    <3> QED
      BY <2>9, <2>10, <3>1 DEF MakesNew
  <2>14. Preserved' /\ SrcdirExists' /\ ArchivesWhole'
    BY <2>6, <2>7, <2>9 DEF Preserved, SrcdirExists, ArchivesWhole
  <2> QED
    BY <2>11, <2>12, <2>13, <2>14
<1> QED
  BY <1>2, <1>3

\* Another process starts behind those that wait.
LEMMA PushStep ==
  ASSUME IInv, UNCHANGED <<files, killed, result>>, before' \subseteq Name, NEW q \in Pkg,
         procs' = Append(procs, NewProcess(q)),
         procs # <<>> => me.pc = "child" /\ before' = before,
         procs = <<>> => \A n \in before' : tree[n] # "none"
  PROVE  IInv'
<1> USE DEF IInv, files
<1> DEFINE k == Len(procs)  p == NewProcess(q)
<1>1. /\ p \in Process /\ p.pkg = q /\ p.at = 1 /\ p.srcdir = None /\ p.pc = "command"
      /\ procs' = Append(procs, p)
  BY DEF NewProcess, Process
<1> HIDE DEF p
<1>2. /\ procs \in Seq(Process) /\ k \in Nat
      /\ \A i \in 1..k+1 : i \in 1..k \/ i = k+1
  BY DEF TypeOK
<1>3. /\ procs' \in Seq(Process) /\ Len(procs') = k+1 /\ procs' # <<>>
      /\ procs'[k+1] = p /\ \A i \in 1..k : procs'[i] = procs[i]
  BY <1>1, <1>2, AddLast
<1>4. \A i \in 1..k : procs[i].pc = "child"
  <2>1. k # 0 => procs # <<>> /\ me = procs[k]
    BY <1>2 DEF me, Last
  <2> QED
    BY <1>2, <2>1 DEF StepsMatch
<1>5. 1 <= Len(Script[q]) + 1
  BY ConstantsAssumption
<1>6. TypeOK'
  BY <1>1, <1>2, <1>3, <1>5 DEF TypeOK
<1>7. StepsMatch'
  <2>1. MatchEach'
    BY MatchesEach, PTL
  <2>2. Matches(p)
    BY <1>1 DEF Matches, Fits
  <2>3. \A i \in 1..k : Matches(procs[i])
    BY MatchesEach DEF MatchEach
  <2>4. \A i \in 1..k+1 : Matches(procs'[i]) /\ (i < k+1 => procs'[i].pc = "child")
    BY ONLY <1>2, <1>3, <1>4, <2>2, <2>3
  <2> QED
    BY <1>3, <2>1, <2>4 DEF MatchEach
<1>8. MakesNew'
  <2> SUFFICES ASSUME NEW j \in 1..k+1, procs'[j].pc # "command"
               PROVE  /\ myDirOf(procs'[j]) \notin before'
                      /\ \A i \in 1..j : procs'[i].srcdir # myDirOf(procs'[j])
    BY <1>3 DEF MakesNew
  <2>1. j \in 1..k /\ (\A i \in 1..j : i \in 1..k) /\ procs # <<>>
    BY <1>1, <1>2, <1>3
  <2> QED
    BY <1>3, <2>1 DEF MakesNew
<1>9. Preserved'
  BY <1>3 DEF Preserved
<1>10. SrcdirExists' /\ ArchivesWhole'
  BY <1>1, <1>2, <1>3 DEF SrcdirExists, ArchivesWhole
<1> QED
  BY <1>6, <1>7, <1>8, <1>9, <1>10

-----------------------------------------------------------------------------
(***************************************************************************)
(* The actions.                                                            *)
(***************************************************************************)
\* Between the steps of a command the process is at a command that fits.
LEMMA AtFits ==
  ASSUME IInv, procs # <<>>
  PROVE  Fits(me.pc, cmd) /\ me.pc \in {"command", "checkout", "curl", "unpack", "rename", "tidy",
                                       "discard", "delete", "move", "child", "linked", "failed"}
<1>1. Len(procs) \in 1..Len(procs) /\ me = procs[Len(procs)] /\ me \in Process
  BY Running DEF IInv
<1>2. cmd = CommandOf(me)
  BY DEF cmd
<1> QED
  BY <1>1, <1>2 DEF IInv, StepsMatch, Fits, Process

\* A command of the script that takes no directory, ends well or raises an error.
LEMMA OtherStep == IInv /\ (Other \/ ScriptEnds \/ LinkSelf) => IInv'
<1> SUFFICES ASSUME IInv, Other \/ ScriptEnds \/ LinkSelf  PROVE IInv'
  OBVIOUS
<1>1. procs # <<>> /\ UNCHANGED <<files, history>> /\ me.pc = "command"
  BY DEF Other, ScriptEnds, LinkSelf, AtCommand, AtStep
<1>2. ASSUME NEW ok \in BOOLEAN, Ends(ok)  PROVE IInv'
  BY <1>1, <1>2, EndsStep
<1>3. ASSUME me.at <= Len(Script[me.pkg]), NextCommand(me.srcdir), UNCHANGED result  PROVE IInv'
  <2> DEFINE p == [pkg |-> me.pkg, at |-> me.at + 1, srcdir |-> me.srcdir, pc |-> "command"]
  <2>1. me \in Process /\ Len(Script[me.pkg]) \in Nat /\ me = procs[Len(procs)] /\ Len(procs) \in Nat \ {0}
    BY <1>1, Running DEF IInv
  <2>2. p \in Process /\ p.pkg = me.pkg /\ p.at = me.at + 1 /\ p.pc = "command" /\ p.srcdir = me.srcdir
    BY <2>1 DEF Process
  <2>3. procs' = With(p)
    BY <1>3 DEF NextCommand
  <2>4. p.at <= Len(Script[me.pkg]) + 1
    BY <1>3, <2>1, <2>2 DEF Process
  <2>5. Matches(p)
    BY <2>2 DEF Matches, Fits
  <2>6. me.srcdir # None => tree[me.srcdir] # "none"
    BY <2>1 DEF IInv, SrcdirExists
  <2> HIDE DEF p
  <2> QED
    BY <1>1, <1>3, <2>2, <2>3, <2>4, <2>5, <2>6, OwnStep
       DEF IInv, TypeOK, files, history, ArchivesWhole
<1> QED
  BY <1>2, <1>3 DEF Other, ScriptEnds, LinkSelf, AtCommand

\* A command that finds the directory, or an update.
LEMMA ExistsStep == IInv /\ (Exists \/ Update) => IInv'
<1> SUFFICES ASSUME IInv, Exists \/ Update  PROVE IInv'
  OBVIOUS
<1>1. /\ procs # <<>> /\ UNCHANGED <<files, history, result>> /\ me.pc = "command"
      /\ me.at <= Len(Script[me.pkg])
  BY DEF Exists, Update, AtCommand
<1>2. /\ me \in Process /\ Len(Script[me.pkg]) \in Nat /\ me = procs[Len(procs)]
      /\ Len(procs) \in Nat \ {0} /\ myDir \in Name
  BY <1>1, Running DEF IInv
<1>3. PICK d \in {myDir, me.srcdir} :
        /\ NextCommand(d)
        /\ (d = myDir /\ tree[myDir] # "none") \/ d = me.srcdir
  BY DEF Exists, Update
<1> DEFINE p == [pkg |-> me.pkg, at |-> me.at + 1, srcdir |-> d, pc |-> "command"]
<1>4. /\ p \in Process /\ p.pkg = me.pkg /\ p.at = me.at + 1 /\ p.pc = "command" /\ p.srcdir = d
  <2>1. d \in Name \union {None}
    BY <1>2, <1>3 DEF Process
  <2> QED
    BY <1>2, <2>1 DEF Process
<1>5. procs' = With(p)
  BY <1>3 DEF NextCommand
<1>6. p.at <= Len(Script[me.pkg]) + 1
  BY <1>1, <1>2, <1>4 DEF Process
<1>7. Matches(p)
  BY <1>4 DEF Matches, Fits
<1>8. d # None => tree[d] # "none"
  BY <1>2, <1>3 DEF IInv, SrcdirExists
<1> HIDE DEF p
<1> QED
  BY <1>1, <1>4, <1>5, <1>6, <1>7, <1>8, OwnStep
     DEF IInv, TypeOK, files, history, ArchivesWhole

\* What the running process of any other step is at.
LEMMA AtWork ==
  ASSUME IInv, procs # <<>>, me.at <= Len(Script[me.pkg])
  PROVE  /\ cmd \in Command /\ myDir \in Name
         /\ cmd.type \in {"Fetch", "Unpack"} => cmd.arg \in File
         /\ cmd.type # "Link" => myDir = me.pkg
         /\ me.pkg \in Archived =>
              /\ cmd.type \in {"Fetch", "Unpack", "Other"}
              /\ cmd.type = "Fetch" => Kind[cmd.arg] # "kit"
              /\ cmd.type \in {"Fetch", "Unpack"} => cmd.arg \notin Hidden
<1>1. cmd \in Command /\ myDir \in Name
  BY Running DEF IInv
<1>2. cmd.type \in {"Fetch", "Unpack"} => cmd.arg \in File
  BY <1>1 DEF Command
<1>3. cmd.type # "Link" => myDir = me.pkg
  BY DEF myDir, myDirOf, cmd
<1>4. me.pkg \in Archived =>
        \/ cmd.type = "Unpack" /\ cmd.arg \notin Hidden
        \/ cmd.type = "Fetch" /\ Kind[cmd.arg] # "kit" /\ cmd.arg \notin Hidden
        \/ cmd.type = "Other"
  BY ArchivedCommand DEF IInv
<1> QED
  BY <1>1, <1>2, <1>3, <1>4

\* The steps that start a command and those in the middle of one.
LEMMA InsideSteps ==
  ASSUME IInv, FailsEmpty,
         \/ Checkout \/ Fetch \/ Unpack \/ Link \/ SpawnFails \/ Unpacked
         \/ CurlOk /\ Kind[cmd.arg] # "other"
         \/ TidyFails \/ LinkFailed
         \/ (Rename \/ Tidy \/ UnpackFail \/ Discarded) /\ ~Done
  PROVE  IInv'
<1> DEFINE Steps == {"checkout", "curl", "unpack", "rename", "tidy", "discard", "delete",
                     "move", "child", "linked", "failed"}
<1>1. procs # <<>> /\ UNCHANGED <<result, history>>
  BY DEF Checkout, Fetch, Unpack, Link, SpawnFails, Unpacked, CurlOk, Rename, Tidy,
         TidyFails, LinkFailed, UnpackFail, Discarded, AtCommand, AtStep
<1>2. me.at <= Len(Script[me.pkg])
  <2>1. me.pc # "command" => me.at <= Len(Script[me.pkg])
    BY <1>1, Running DEF IInv
  <2> QED
    BY <2>1 DEF Checkout, Fetch, Unpack, Link, SpawnFails, Unpacked, CurlOk, Rename, Tidy,
       TidyFails, LinkFailed, UnpackFail, Discarded, AtCommand, AtStep
<1>3. /\ cmd \in Command /\ myDir \in Name /\ Fits(me.pc, cmd)
      /\ cmd.type \in {"Fetch", "Unpack"} => cmd.arg \in File
      /\ cmd.type # "Link" => myDir = me.pkg
      /\ me.pkg \in Archived =>
           /\ cmd.type \in {"Fetch", "Unpack", "Other"}
           /\ cmd.type = "Fetch" => Kind[cmd.arg] # "kit"
           /\ cmd.type \in {"Fetch", "Unpack"} => cmd.arg \notin Hidden
  BY <1>1, <1>2, AtWork, AtFits
<1>4. \A f \in File : Kind[f] \in {"archive", "kit", "other"}
  BY ConstantsAssumption
<1>5. /\ tree \in [Name -> {"none", "empty", "partial", "junk", "whole"}]
      /\ tmp \in [Name -> {"none", "partial", "whole", "rest"}]
      /\ file \in [File -> {"none", "partial", "junk", "whole"}]
  BY DEF IInv, TypeOK
<1>6. ASSUME NEW pc \in Steps, Goto(pc), Fits(pc, cmd),
             me.pc # "command" \/ tree[myDir] = "none",
             tree' \in [Name -> {"none", "empty", "partial", "junk", "whole"}],
             tmp' \in [Name -> {"none", "partial", "whole", "rest"}],
             file' \in [File -> {"none", "partial", "junk", "whole"}],
             \A n \in Name \ {myDir} : tree'[n] = tree[n],
             tree'[myDir] \in {"none", "whole"} \/ myDir \notin Archived \/ tree' = tree
      PROVE  IInv'
  <2>1. ArchivesWhole'
    BY <1>6, WholeStep DEF IInv, ArchivesWhole
  <2> QED
    BY <1>1, <1>2, <1>6, <2>1, GotoStep
<1>7. CASE Checkout
  BY <1>3, <1>5, <1>6, <1>7 DEF Checkout, AtCommand, Fits
<1>8. CASE Fetch
  BY <1>3, <1>5, <1>6, <1>8 DEF Fetch, AtCommand, Fits
<1>9. CASE Unpack
  BY <1>3, <1>5, <1>6, <1>9 DEF Unpack, AtCommand, Fits
<1>10. CASE Link \/ SpawnFails
  BY <1>3, <1>5, <1>6, <1>10 DEF Link, SpawnFails, AtCommand, AtStep, Fits, files
<1>11. CASE Unpacked
  BY <1>3, <1>5, <1>6, <1>11 DEF Unpacked, AtStep, Fits
<1>12. CASE CurlOk /\ Kind[cmd.arg] # "other"
  <2>1. cmd.type = "Fetch" /\ cmd.arg \in File
    BY <1>3, <1>12 DEF CurlOk, AtStep, Fits
  <2>2. CASE Kind[cmd.arg] = "archive"
    BY <1>3, <1>5, <1>6, <1>12, <2>1, <2>2 DEF CurlOk, AtStep, Fits
  <2>3. CASE Kind[cmd.arg] = "kit"
    BY <1>3, <1>5, <1>6, <1>12, <2>1, <2>3 DEF CurlOk, AtStep, Fits
  <2> QED
    BY <1>4, <1>12, <2>1, <2>2, <2>3
<1>13. CASE (Rename \/ Tidy \/ UnpackFail \/ Discarded) /\ ~Done
  <2>1. /\ me.pc \in {"unpack", "rename", "tidy", "discard"} /\ UNCHANGED file
        /\ tmp' \in [Name -> {"none", "partial", "whole", "rest"}]
        /\ tree' = tree \/ tree' = [tree EXCEPT ![myDir] = "whole"]
                        \/ tree' = [tree EXCEPT ![myDir] = "none"]
    BY <1>3, <1>5, <1>13 DEF Rename, Tidy, UnpackFail, Discarded, AtStep
  <2>2. \/ Goto("tidy") /\ me.pc = "rename"
        \/ Goto("delete") /\ cmd.type = "Fetch"
    BY <1>13 DEF Rename, Tidy, UnpackFail, Discarded, Unpacks, AtStep
  <2> QED
    BY <1>3, <1>5, <1>6, <2>1, <2>2 DEF Fits
<1>14. CASE TidyFails
  <2>1. /\ me.pc = "tidy" /\ cmd.arg \in Hidden /\ Goto("discard") /\ UNCHANGED file
        /\ tree' = [tree EXCEPT ![myDir] = "partial"] /\ tmp' = [tmp EXCEPT ![myDir] = "none"]
    BY <1>14 DEF TidyFails, AtStep
  <2>2. cmd.type \in {"Fetch", "Unpack"} /\ myDir \notin Archived
    BY <1>3, <2>1 DEF Fits
  <2> QED
    BY <1>3, <1>5, <1>6, <2>1, <2>2 DEF Fits
<1>15. CASE LinkFailed
  <2>1. /\ me.pc = "failed" /\ Goto("discard") /\ UNCHANGED <<tmp, file>>
        /\ tree' = [tree EXCEPT ![myDir] = IF tree[myDir] = "none" THEN "none" ELSE "partial"]
    BY <1>15 DEF LinkFailed, AtStep
  <2>2. cmd.type = "Link" /\ (myDir \in Archived => tree[myDir] = "none")
    BY <1>1, <1>3, <2>1 DEF Fits, FailsEmpty
  <2> QED
    BY <1>3, <1>5, <1>6, <2>1, <2>2 DEF Fits
<1> QED
  BY <1>7, <1>8, <1>9, <1>10, <1>11, <1>12, <1>13, <1>14, <1>15

\* The steps that end a command.
LEMMA DoneSteps ==
  ASSUME IInv, Done,
         \/ CheckoutOk \/ CheckoutFail \/ CurlOk \/ Move \/ FetchFail
         \/ Rename \/ Tidy \/ UnpackFail \/ Discarded \/ Delete \/ Linked
  PROVE  IInv'
<1>1. procs # <<>> /\ UNCHANGED <<result, history>> /\ me.pc # "command"
  BY DEF CheckoutOk, CheckoutFail, CurlOk, Move, FetchFail, Rename, Tidy, UnpackFail, Discarded,
         Delete, Linked, AtStep
<1>2. me.at <= Len(Script[me.pkg])
  BY <1>1, Running DEF IInv
<1>3. /\ cmd \in Command /\ myDir \in Name /\ Fits(me.pc, cmd)
      /\ cmd.type \in {"Fetch", "Unpack"} => cmd.arg \in File
      /\ cmd.type # "Link" => myDir = me.pkg
      /\ me.pkg \in Archived =>
           /\ cmd.type \in {"Fetch", "Unpack", "Other"}
           /\ cmd.type = "Fetch" => Kind[cmd.arg] # "kit"
           /\ cmd.type \in {"Fetch", "Unpack"} => cmd.arg \notin Hidden
  BY <1>1, <1>2, AtWork, AtFits
<1>4. /\ tree \in [Name -> {"none", "empty", "partial", "junk", "whole"}]
      /\ tmp \in [Name -> {"none", "partial", "whole", "rest"}]
      /\ file \in [File -> {"none", "partial", "junk", "whole"}]
  BY DEF IInv, TypeOK
<1>5. ASSUME tree' \in [Name -> {"none", "empty", "partial", "junk", "whole"}],
             tmp' \in [Name -> {"none", "partial", "whole", "rest"}],
             file' \in [File -> {"none", "partial", "junk", "whole"}],
             \A n \in Name \ {myDir} : tree'[n] = tree[n],
             tree'[myDir] \in {"none", "whole"} \/ myDir \notin Archived \/ tree' = tree
      PROVE  IInv'
  <2>1. ArchivesWhole'
    BY <1>5, WholeStep DEF IInv, ArchivesWhole
  <2> QED
    BY <1>1, <1>5, <2>1, DoneStep
<1>6. CASE CheckoutOk \/ CheckoutFail
  BY <1>4, <1>5, <1>3, <1>6 DEF CheckoutOk, CheckoutFail
<1>7. CASE CurlOk
  <2>1. cmd.arg \in File /\ Kind[cmd.arg] \in {"archive", "kit", "other"}
    BY <1>3, <1>7, ConstantsAssumption DEF CurlOk, AtStep, Fits
  <2>2. /\ file' \in [File -> {"none", "partial", "junk", "whole"}]
        /\ tmp' \in [Name -> {"none", "partial", "whole", "rest"}]
    <3>1. \E f \in {"junk", "whole"} : file' = [file EXCEPT ![cmd.arg] = f]
      BY <1>7 DEF CurlOk
    <3>2. tmp' = tmp \/ tmp' = [tmp EXCEPT ![myDir] = "partial"]
      BY <1>7, <2>1 DEF CurlOk
    <3> QED
      BY ONLY <1>3, <1>4, <2>1, <3>1, <3>2
  <2>3. CASE Kind[cmd.arg] # "kit"
    BY <1>3, <1>4, <1>5, <1>7, <2>1, <2>2, <2>3 DEF CurlOk
  <2>4. CASE Kind[cmd.arg] = "kit"
    <3>1. tree' = [tree EXCEPT ![myDir] = "empty"]
      BY <1>7, <2>4 DEF CurlOk
    <3>2. cmd.type = "Fetch"
      BY <1>3, <1>7 DEF CurlOk, AtStep, Fits
    <3> QED
      BY <1>3, <1>4, <1>5, <2>2, <2>4, <3>1, <3>2
  <2> QED
    BY <2>3, <2>4
<1>8. CASE Move
  <2>1. cmd.arg \in File /\ cmd.type = "Fetch" /\ Kind[cmd.arg] = "kit"
    BY <1>3, <1>8 DEF Move, AtStep, Fits
  <2> QED
    BY <1>3, <1>4, <1>5, <1>8, <2>1 DEF Move
<1>9. CASE FetchFail
  BY <1>3, <1>4, <1>5, <1>9 DEF FetchFail, AtStep, Fits
<1>10. CASE Rename \/ Tidy \/ UnpackFail \/ Discarded
  BY <1>3, <1>4, <1>5, <1>10 DEF Rename, Tidy, UnpackFail, Discarded
<1>11. CASE Delete
  BY <1>3, <1>4, <1>5, <1>11 DEF Delete, AtStep, Fits
<1>12. CASE Linked
  BY <1>3, <1>4, <1>5, <1>12 DEF Linked
<1> QED
  BY <1>6, <1>7, <1>8, <1>9, <1>10, <1>11, <1>12

-----------------------------------------------------------------------------
(***************************************************************************)
(* The process that runs after a step.                                     *)
(***************************************************************************)
\* The same, at another step of its command.
LEMMA RunsOn ==
  ASSUME TypeOK, procs # <<>>, NEW pc, Goto(pc)
  PROVE  /\ procs' # <<>> /\ Len(procs') = Len(procs)
         /\ \A i \in 1..Len(procs) : procs'[i].pkg = procs[i].pkg /\ CommandOf(procs'[i]) = CommandOf(procs[i])
         /\ me'.pkg = me.pkg /\ me'.pc = pc /\ cmd' = cmd /\ myDir' = myDir
<1> DEFINE p == [me EXCEPT !.pc = pc]
           S == Process \union {p}
<1>1. procs \in Seq(S) /\ p \in S /\ me \in Process
  BY Running DEF TypeOK
<1>2. procs' = [procs EXCEPT ![Len(procs)] = p]
  BY DEF Goto, With
<1>3. p.pkg = me.pkg /\ p.at = me.at /\ p.pc = pc
  BY <1>1 DEF Process
<1> HIDE DEF p, S
<1>4. /\ procs' # <<>> /\ Len(procs') = Len(procs) /\ procs'[Len(procs)] = p
      /\ \A i \in 1..Len(procs)-1 : procs'[i] = procs[i]
  BY <1>1, <1>2, ReplaceLast
<1>5. me' = p
  BY <1>4 DEF me, Last
<1>6. cmd' = cmd /\ myDir' = myDir /\ me'.pc = pc /\ me'.pkg = me.pkg
  BY <1>3, <1>5 DEF cmd, myDir, CommandOf, myDirOf
<1>7. \A i \in 1..Len(procs) : procs'[i].pkg = procs[i].pkg /\ CommandOf(procs'[i]) = CommandOf(procs[i])
  <2>1. Len(procs) \in Nat \ {0} /\ me = procs[Len(procs)]
    BY Running
  <2>2. \A i \in 1..Len(procs) : i \in 1..Len(procs)-1 \/ i = Len(procs)
    BY <2>1
  <2> QED
    BY <1>3, <1>4, <2>1, <2>2 DEF CommandOf
<1> QED
  BY <1>4, <1>6, <1>7

\* The same, at the next command.
LEMMA RunsNext ==
  ASSUME TypeOK, procs # <<>>, NEW d, NextCommand(d)
  PROVE  /\ procs' # <<>> /\ Len(procs') = Len(procs)
         /\ \A i \in 1..Len(procs) : procs'[i].pkg = procs[i].pkg
         /\ \A i \in 1..Len(procs)-1 : procs'[i] = procs[i]
         /\ me'.pkg = me.pkg /\ me'.pc = "command" /\ me'.srcdir = d
<1> DEFINE p == [pkg |-> me.pkg, at |-> me.at + 1, srcdir |-> d, pc |-> "command"]
           S == Process \union {p}
<1>1. procs \in Seq(S) /\ p \in S /\ p.pc = "command" /\ p.pkg = me.pkg /\ p.srcdir = d
  BY DEF TypeOK
<1>2. procs' = [procs EXCEPT ![Len(procs)] = p]
  BY DEF NextCommand, With
<1> HIDE DEF p, S
<1>3. /\ procs' # <<>> /\ Len(procs') = Len(procs) /\ procs'[Len(procs)] = p
      /\ \A i \in 1..Len(procs)-1 : procs'[i] = procs[i]
  BY <1>1, <1>2, ReplaceLast
<1>4. me' = p
  BY <1>3 DEF me, Last
<1>5. \A i \in 1..Len(procs) : procs'[i].pkg = procs[i].pkg
  <2>1. Len(procs) \in Nat \ {0} /\ me = procs[Len(procs)]
    BY Running
  <2>2. \A i \in 1..Len(procs) : i \in 1..Len(procs)-1 \/ i = Len(procs)
    BY <2>1
  <2> QED
    BY <1>1, <1>3, <2>1, <2>2
<1> QED
  BY <1>1, <1>3, <1>4, <1>5

\* The one that has waited for it.
LEMMA ParentRuns ==
  ASSUME TypeOK, procs # <<>>, NEW ok, Ends(ok), Len(procs) # 1
  PROVE  /\ procs' # <<>> /\ Len(procs') = Len(procs) - 1
         /\ \A i \in 1..Len(procs)-1 : procs'[i].pkg = procs[i].pkg /\ CommandOf(procs'[i]) = CommandOf(procs[i])
         /\ me'.pc = (IF ok THEN "linked" ELSE "failed")
         /\ myDir' = myDirOf(procs[Len(procs)-1])
<1> DEFINE b == Front(procs)
           p == [b[Len(b)] EXCEPT !.pc = IF ok THEN "linked" ELSE "failed"]
           S == Process \union {p}
<1>1. /\ b \in Seq(Process) /\ Len(b) = Len(procs) - 1 /\ b # <<>>
      /\ \A i \in 1..Len(b) : b[i] = procs[i]
      /\ Len(procs) \in Nat \ {0} /\ Len(b) \in 1..Len(b)
  BY DropLast, Running DEF TypeOK
<1>2. procs' = [b EXCEPT ![Len(b)] = p]
  BY <1>1 DEF Ends
<1>3. b[Len(b)] \in Process
  BY <1>1
<1>4. /\ p.pc = (IF ok THEN "linked" ELSE "failed") /\ p.pkg = procs[Len(b)].pkg
      /\ p.at = procs[Len(b)].at
  BY <1>1, <1>3 DEF Process
<1>5. b \in Seq(S) /\ p \in S
  BY <1>1
<1> HIDE DEF b, p, S
<1>6. /\ procs' # <<>> /\ Len(procs') = Len(b) /\ procs'[Len(b)] = p
      /\ \A i \in 1..Len(b)-1 : procs'[i] = b[i]
  BY <1>1, <1>2, <1>5, ReplaceLast
<1>7. me' = p
  BY <1>6 DEF me, Last
<1>8. myDir' = myDirOf(procs[Len(b)])
  BY <1>4, <1>7 DEF myDir, myDirOf, CommandOf
<1>9. \A i \in 1..Len(b) : i \in 1..Len(b)-1 \/ i = Len(b)
  BY <1>1
<1>10. \A i \in 1..Len(b) : procs'[i].pkg = procs[i].pkg /\ CommandOf(procs'[i]) = CommandOf(procs[i])
  BY <1>1, <1>4, <1>6, <1>9 DEF CommandOf
<1> QED
  BY <1>1, <1>4, <1>6, <1>7, <1>8, <1>10

\* A new one.
LEMMA ChildRuns ==
  ASSUME TypeOK, NEW q \in Pkg, procs' = Append(procs, NewProcess(q))
  PROVE  /\ procs' # <<>> /\ Len(procs') = Len(procs) + 1 /\ procs'[Len(procs) + 1].pkg = q
         /\ \A i \in 1..Len(procs) : procs'[i] = procs[i]
         /\ me'.pc = "command" /\ me'.pkg = q
<1> DEFINE n == NewProcess(q)
           S == Process \union {n}
<1>1. procs \in Seq(S) /\ n \in S /\ n.pc = "command" /\ n.pkg = q
  BY DEF TypeOK, NewProcess
<1> HIDE DEF n, S
<1>2. /\ procs' # <<>> /\ Len(procs') = Len(procs) + 1 /\ procs'[Len(procs) + 1] = n
      /\ \A i \in 1..Len(procs) : procs'[i] = procs[i]
  BY <1>1, AddLast DEF n
<1>3. me' = n
  BY <1>2 DEF me, Last
<1> QED
  BY <1>1, <1>2, <1>3

-----------------------------------------------------------------------------
(***************************************************************************)
(* A child that fails has left nothing of an archived package.             *)
(***************************************************************************)
\* What FailsEmpty says of the running process.
Empty(pc, srcdir, inner, pkg, dir, t) ==
  /\ pc = "child" => t[dir] = "none"
  /\ pc = "failed" /\ dir \in Archived => t[dir] = "none"
  /\ pc = "command" /\ srcdir = None /\ inner /\ pkg \in Archived => t[pkg] = "none"

LEMMA EmptyEach ==
  FailsEmpty <=> /\ \A i \in 2..Len(procs) : procs[i].pkg = CommandOf(procs[i-1]).arg
                 /\ procs # <<>> => Empty(me.pc, me.srcdir, Len(procs) > 1, me.pkg, myDir, tree)
  BY DEF FailsEmpty, Empty

\* The package of a child is one that another links to.
LEMMA ChildLinked ==
  ASSUME IInv, FailsEmpty, procs # <<>>, Len(procs) > 1
  PROVE  /\ \E q \in Pkg : me.pkg \in LinksOf(q)
         /\ me.pkg = myDirOf(procs[Len(procs)-1])
<1> DEFINE k == Len(procs) - 1
           p == procs[k]
<1>1. Len(procs) \in Nat \ {0} /\ me = procs[Len(procs)] /\ procs \in Seq(Process) /\ me \in Process
  BY Running DEF IInv, TypeOK
<1>2. k \in 1..Len(procs) /\ k < Len(procs) /\ Len(procs) \in 2..Len(procs)
  BY <1>1
<1>3. p \in Process /\ p.pc = "child" /\ CommandOf(p).type = "Link" /\ p.at <= Len(Script[p.pkg])
  BY <1>1, <1>2 DEF IInv, StepsMatch, TypeOK
<1>4. me.pkg = CommandOf(p).arg
  BY <1>1, <1>2 DEF FailsEmpty
<1>5. p.pkg \in Pkg /\ p.at \in 1..Len(Script[p.pkg]) /\ me.pkg \in Pkg
  <2>1. Len(Script[p.pkg]) \in Nat
    BY <1>3, ConstantsAssumption DEF Process
  <2> QED
    BY <1>1, <1>3, <2>1 DEF Process
<1>6. CommandOf(p) \in Command
  BY <1>5, ConstantsAssumption DEF CommandOf
<1>7. CommandOf(p) = [type |-> "Link", arg |-> me.pkg]
  BY <1>3, <1>4, <1>6 DEF Command
<1>8. me.pkg \in LinksOf(p.pkg)
  BY <1>5, <1>7 DEF LinksOf, CommandOf
<1> QED
  BY <1>3, <1>4, <1>5, <1>8 DEF myDirOf

\* A step inside a command, which ends neither at "child" nor at "failed".
LEMMA EmptyGoto ==
  ASSUME IInv, FailsEmpty, procs # <<>>, NEW pc, Goto(pc), pc # "command",
         pc = "child" => tree'[myDir] = "none",
         pc = "failed" => me.pc = "child" /\ UNCHANGED tree
  PROVE  FailsEmpty'
<1>1. TypeOK /\ Len(procs) \in Nat \ {0}
  BY Running DEF IInv
<1>2. /\ procs' # <<>> /\ Len(procs') = Len(procs) /\ me'.pc = pc /\ myDir' = myDir
      /\ \A i \in 1..Len(procs) : procs'[i].pkg = procs[i].pkg /\ CommandOf(procs'[i]) = CommandOf(procs[i])
  BY <1>1, RunsOn
<1>3. Empty(me'.pc, me'.srcdir, Len(procs') > 1, me'.pkg, myDir', tree')
  BY <1>2 DEF Empty, FailsEmpty
<1>4. \A i \in 2..Len(procs) : i \in 1..Len(procs) /\ i-1 \in 1..Len(procs)
  BY <1>1
<1>5. \A i \in 2..Len(procs') : procs'[i].pkg = CommandOf(procs'[i-1]).arg
  BY <1>2, <1>4 DEF FailsEmpty
<1> QED
  BY <1>2, <1>3, <1>5 DEF FailsEmpty, Empty

\* A step to the next command.
LEMMA EmptyCommand ==
  ASSUME IInv, FailsEmpty, procs # <<>>, NEW d, NextCommand(d),
         d = None /\ Len(procs) > 1 /\ me.pkg \in Archived => tree'[me.pkg] = "none"
  PROVE  FailsEmpty'
<1>1. TypeOK /\ Len(procs) \in Nat \ {0}
  BY Running DEF IInv
<1>2. /\ procs' # <<>> /\ Len(procs') = Len(procs)
      /\ \A i \in 1..Len(procs) : procs'[i].pkg = procs[i].pkg
      /\ \A i \in 1..Len(procs)-1 : procs'[i] = procs[i]
      /\ me'.pkg = me.pkg /\ me'.pc = "command" /\ me'.srcdir = d
  BY <1>1, RunsNext
<1>3. Empty(me'.pc, me'.srcdir, Len(procs') > 1, me'.pkg, myDir', tree')
  BY <1>2 DEF Empty
<1>4. \A i \in 2..Len(procs) : i \in 1..Len(procs) /\ i-1 \in 1..Len(procs)-1
  BY <1>1
<1>5. \A i \in 2..Len(procs') : procs'[i].pkg = CommandOf(procs'[i-1]).arg
  BY <1>2, <1>4 DEF FailsEmpty
<1> QED
  BY <1>2, <1>3, <1>5 DEF FailsEmpty, Empty

\* The end of a command.
LEMMA EmptyDone ==
  ASSUME IInv, FailsEmpty, procs # <<>>, me.pc # "command", Done
  PROVE  FailsEmpty'
<1>1. PICK d \in {myDir, me.srcdir} : NextCommand(d) /\ (tree'[myDir] # "none" => d = myDir)
  BY DEF Done
<1>2. me.at <= Len(Script[me.pkg])
  BY Running DEF IInv
<1>3. me.pkg \in Archived => myDir = me.pkg
  BY <1>2, AtWork
<1>4. myDir # None
  BY <1>2, AtWork, ConstantsAssumption
<1> QED
  BY <1>1, <1>3, <1>4, EmptyCommand

\* The end of a process: a child of an archived package fails only if _(srcdir)
\* is empty at the end of its script.
LEMMA EmptyEnds ==
  ASSUME IInv, FailsEmpty, procs # <<>>, me.pc = "command", NEW ok \in BOOLEAN, Ends(ok),
         UNCHANGED tree,
         ~ok => \/ me.at <= Len(Script[me.pkg]) /\ cmd.type \in {"Other", "Link"}
                \/ me.srcdir = None
  PROVE  FailsEmpty'
<1>1. TypeOK /\ Len(procs) \in Nat \ {0}
  BY Running DEF IInv
<1>2. CASE Len(procs) = 1
  <2>1. procs' = <<>> /\ Len(procs') = 0
    BY <1>2 DEF Ends
  <2> QED
    BY <2>1 DEF FailsEmpty
<1>3. CASE Len(procs) # 1
  <2>1. /\ procs' # <<>> /\ Len(procs') = Len(procs) - 1 /\ myDir' = myDirOf(procs[Len(procs)-1])
        /\ me'.pc = (IF ok THEN "linked" ELSE "failed")
        /\ \A i \in 1..Len(procs)-1 : procs'[i].pkg = procs[i].pkg /\ CommandOf(procs'[i]) = CommandOf(procs[i])
    BY <1>1, <1>3, ParentRuns
  <2>2. Len(procs) > 1
    <3>1. \A n \in Nat \ {0} : n # 1 => n > 1
      OBVIOUS
    <3> QED
      BY ONLY <1>1, <1>3, <3>1
  <2>3. (\E q \in Pkg : me.pkg \in LinksOf(q)) /\ myDir' = me.pkg
    BY <2>1, <2>2, ChildLinked
  <2>4. ASSUME ~ok, me.pkg \in Archived  PROVE tree[me.pkg] = "none"
    <3>1. ~(me.at <= Len(Script[me.pkg]) /\ cmd.type \in {"Other", "Link"})
      BY <1>1, <2>3, <2>4, ArchivedCommand
    <3> QED
      BY <2>2, <2>4, <3>1 DEF FailsEmpty
  <2>5. Empty(me'.pc, me'.srcdir, Len(procs') > 1, me'.pkg, myDir', tree')
    BY <2>1, <2>3, <2>4 DEF Empty
  <2>6. \A i \in 2..Len(procs)-1 : i \in 1..Len(procs)-1 /\ i-1 \in 1..Len(procs)-1 /\ i \in 2..Len(procs)
    BY <1>1
  <2>7. \A i \in 2..Len(procs') : procs'[i].pkg = CommandOf(procs'[i-1]).arg
    BY <2>1, <2>6 DEF FailsEmpty
  <2> QED
    BY <2>1, <2>5, <2>7 DEF FailsEmpty, Empty
<1> QED
  BY <1>2, <1>3

\* The start of a process.
LEMMA EmptyPush ==
  ASSUME IInv, FailsEmpty, NEW q \in Pkg, procs' = Append(procs, NewProcess(q)), UNCHANGED tree,
         procs # <<>> => me.pc = "child" /\ cmd.arg = q
  PROVE  FailsEmpty'
<1>1. TypeOK /\ Len(procs) \in Nat
  BY DEF IInv, TypeOK
<1>2. /\ procs' # <<>> /\ Len(procs') = Len(procs) + 1 /\ procs'[Len(procs) + 1].pkg = q
      /\ \A i \in 1..Len(procs) : procs'[i] = procs[i]
      /\ me'.pc = "command" /\ me'.pkg = q
  BY <1>1, ChildRuns
<1>3. CASE procs = <<>>
  <2>1. Len(procs') = 1 /\ 2..Len(procs') = {}
    BY <1>2, <1>3
  <2> QED
    BY <1>2, <2>1 DEF FailsEmpty
<1>4. CASE procs # <<>>
  <2>1. me = procs[Len(procs)] /\ Len(procs) \in Nat \ {0} /\ cmd.type = "Link"
    BY <1>1, <1>4, Running, AtFits DEF Fits
  <2>2. tree[q] = "none" /\ CommandOf(procs[Len(procs)]).arg = q
    BY <1>4, <2>1 DEF FailsEmpty, myDir, myDirOf, cmd
  <2>3. \A i \in 2..Len(procs)+1 : /\ i-1 \in 1..Len(procs)
                                   /\ \/ i \in 2..Len(procs) /\ i \in 1..Len(procs)
                                      \/ i = Len(procs) + 1
    BY <2>1
  <2>4. \A i \in 2..Len(procs') : procs'[i].pkg = CommandOf(procs'[i-1]).arg
    <3> SUFFICES ASSUME NEW i \in 2..Len(procs)+1  PROVE procs'[i].pkg = CommandOf(procs[i-1]).arg
      BY <1>2, <2>3
    <3>1. CASE i = Len(procs) + 1
      <4>1. i - 1 = Len(procs)
        BY <2>1, <3>1
      <4> QED
        BY <1>2, <2>2, <3>1, <4>1
    <3>2. CASE i \in 2..Len(procs) /\ i \in 1..Len(procs)
      BY <1>2, <3>2 DEF FailsEmpty
    <3> QED
      BY <2>3, <3>1, <3>2
  <2> QED
    BY <1>2, <2>2, <2>4 DEF FailsEmpty
<1> QED
  BY <1>3, <1>4

LEMMA EmptyNext == IInv /\ FailsEmpty /\ [Next]_vars => FailsEmpty'
<1> SUFFICES ASSUME IInv, FailsEmpty, [Next]_vars  PROVE FailsEmpty'
  OBVIOUS
<1>1. CASE UNCHANGED vars
  BY <1>1 DEF vars, FailsEmpty, me, cmd, myDir, CommandOf, myDirOf
<1>2. CASE \E p \in Pkg : Begin(p)
  <2>1. PICK p \in Pkg : Begin(p)
    BY <1>2
  <2>2. procs = <<>> /\ procs' = Append(procs, NewProcess(p)) /\ UNCHANGED tree
    BY <2>1 DEF Begin, files
  <2> QED
    BY <2>2, EmptyPush
<1>3. CASE Kill
  <2>1. procs' = <<>> /\ Len(procs') = 0 /\ 2..0 = {}
    BY <1>3 DEF Kill
  <2> QED
    BY <2>1 DEF FailsEmpty
<1>4. CASE ScriptEnds
  <2>1. PICK ok \in BOOLEAN : ok = (me.srcdir # None) /\ Ends(ok)
    BY <1>4 DEF ScriptEnds
  <2> QED
    BY <1>4, <2>1, EmptyEnds DEF ScriptEnds, AtStep, files
<1>5. CASE Other
  <2>1. /\ procs # <<>> /\ me.pc = "command" /\ me.at <= Len(Script[me.pkg]) /\ cmd.type = "Other"
        /\ UNCHANGED tree
    BY <1>5 DEF Other, AtCommand, files
  <2>2. CASE NextCommand(me.srcdir)
    BY <2>1, <2>2, EmptyCommand DEF FailsEmpty
  <2>3. CASE Ends(FALSE)
    BY <2>1, <2>3, EmptyEnds
  <2> QED
    BY <1>5, <2>2, <2>3 DEF Other
<1>6. CASE LinkSelf
  BY <1>6, EmptyEnds DEF LinkSelf, AtCommand, files
<1>7. CASE Exists
  <2>1. procs # <<>> /\ me.at <= Len(Script[me.pkg]) /\ NextCommand(myDir)
    BY <1>7 DEF Exists, AtCommand
  <2>2. myDir # None
    BY <2>1, AtWork, ConstantsAssumption
  <2> QED
    BY <2>1, <2>2, EmptyCommand
<1>8. CASE Update
  <2>1. /\ procs # <<>> /\ me.at <= Len(Script[me.pkg]) /\ cmd.type = "Update"
        /\ \E d : NextCommand(d)
    BY <1>8 DEF Update, AtCommand
  <2>2. me.pkg \notin Archived
    BY <2>1, AtWork
  <2> QED
    BY <2>1, <2>2, EmptyCommand
<1>9. CASE Spawn
  BY <1>9, EmptyPush DEF Spawn, AtStep, files
<1>10. ASSUME NEW pc \in {"checkout", "curl", "unpack", "rename", "tidy", "discard", "delete", "move"},
              Goto(pc), procs # <<>>
       PROVE  FailsEmpty'
  BY <1>10, EmptyGoto
<1>11. CASE Link \/ SpawnFails
  BY <1>11, EmptyGoto DEF Link, SpawnFails, AtCommand, AtStep, files
<1>12. CASE Checkout \/ Fetch \/ Unpack \/ Unpacked \/ TidyFails \/ LinkFailed
  BY <1>10, <1>12 DEF Checkout, Fetch, Unpack, Unpacked, TidyFails, LinkFailed, AtCommand, AtStep
<1>13. CASE \/ CheckoutOk \/ CheckoutFail \/ CurlOk \/ Move \/ FetchFail
            \/ Rename \/ Tidy \/ UnpackFail \/ Discarded \/ Delete \/ Linked
  <2>1. procs # <<>> /\ me.pc # "command"
    BY <1>13 DEF CheckoutOk, CheckoutFail, CurlOk, Move, FetchFail, Rename, Tidy, UnpackFail,
       Discarded, Delete, Linked, AtStep
  <2>2. CASE Done
    BY <2>1, <2>2, EmptyDone
  <2>3. CASE Unpacks
    BY <1>10, <2>1, <2>2, <2>3 DEF Unpacks
  <2>4. CASE CurlOk
    <3>1. cmd.arg \in File
      <4>1. me.pc = "curl"
        BY <2>4 DEF CurlOk, AtStep
      <4> QED
        BY <2>1, <4>1, AtFits, AtWork, Running DEF Fits, IInv
    <3>2. Kind[cmd.arg] \in {"archive", "kit", "other"}
      BY <3>1, ConstantsAssumption
    <3> QED
      BY <1>10, <2>1, <2>2, <2>4, <3>2 DEF CurlOk
  <2> QED
    BY <1>10, <1>13, <2>1, <2>2, <2>3, <2>4
       DEF CheckoutOk, CheckoutFail, Move, FetchFail, Rename, Tidy, UnpackFail, Discarded, Delete, Linked
<1> QED
  BY <1>1, <1>2, <1>3, <1>4, <1>5, <1>6, <1>7, <1>8, <1>9, <1>11, <1>12, <1>13 DEF Next, Step

-----------------------------------------------------------------------------
\* The invariant holds at first.
LEMMA InvInit == Init => IInv
<1> SUFFICES ASSUME Init PROVE IInv
  OBVIOUS
<1>1. procs \in Seq(Process) /\ Len(procs) = 0 /\ 1..Len(procs) = {}
  BY EmptySeq DEF Init
<1>2. TypeOK
  BY <1>1 DEF Init, TypeOK
<1> QED
  BY <1>1, <1>2 DEF Init, IInv, StepsMatch, MakesNew, Preserved, SrcdirExists, ArchivesWhole,
     Archived, Name

\* Every step preserves it.
LEMMA InvNext == IInv /\ FailsEmpty /\ [Next]_vars => IInv'
<1> SUFFICES ASSUME IInv, FailsEmpty, [Next]_vars PROVE IInv'
  OBVIOUS
<1>1. CASE UNCHANGED vars
  <2>1. UNCHANGED <<tree, tmp, file, procs, result, killed, before>>
    BY <1>1 DEF vars
  <2>2. TypeOK' /\ Preserved' /\ SrcdirExists' /\ ArchivesWhole'
    BY <2>1 DEF IInv, TypeOK, Preserved, SrcdirExists, ArchivesWhole
  <2>3. StepsMatch'
    BY <2>1 DEF IInv, StepsMatch, CommandOf
  <2>4. MakesNew'
    BY <2>1 DEF IInv, MakesNew, myDirOf, CommandOf
  <2> QED
    BY <2>2, <2>3, <2>4 DEF IInv
<1>2. CASE \E p \in Pkg : Begin(p)
  <2>1. PICK p \in Pkg : Begin(p)
    BY <1>2
  <2>2. /\ procs = <<>> /\ procs' = Append(procs, NewProcess(p))
        /\ before' = {n \in Name : tree[n] # "none"} /\ UNCHANGED <<files, result, killed>>
    BY <2>1 DEF Begin
  <2> QED
    BY <2>2, PushStep
<1>3. CASE Kill
  <2>1. procs' = <<>> /\ killed' = TRUE /\ result' = "none" /\ UNCHANGED <<files, before>>
    BY <1>3 DEF Kill
  <2>2. procs' \in Seq(Process) /\ 1..Len(procs') = {}
    BY <2>1, EmptySeq
  <2>3. TypeOK'
    BY <2>1, <2>2 DEF IInv, TypeOK, files
  <2> QED
    BY <2>1, <2>2, <2>3 DEF IInv, StepsMatch, MakesNew, Preserved, SrcdirExists, ArchivesWhole, files
<1>4. CASE ScriptEnds \/ Other \/ LinkSelf
  BY <1>4, OtherStep
<1>5. CASE Exists \/ Update
  BY <1>5, ExistsStep
<1>6. CASE \/ Checkout \/ Fetch \/ Unpack \/ Link \/ SpawnFails \/ Unpacked
           \/ TidyFails \/ LinkFailed
  BY <1>6, InsideSteps
<1>7. CASE CheckoutOk \/ CheckoutFail \/ Move \/ FetchFail \/ Delete \/ Linked
  <2>1. Done
    BY <1>7 DEF CheckoutOk, CheckoutFail, Move, FetchFail, Delete, Linked
  <2> QED
    BY <1>7, <2>1, DoneSteps
<1>8. CASE CurlOk
  <2>1. Done \/ Kind[cmd.arg] # "other"
    BY <1>8 DEF CurlOk
  <2> QED
    BY <1>8, <2>1, DoneSteps, InsideSteps
<1>9. CASE Rename \/ Tidy \/ UnpackFail \/ Discarded
  BY <1>9, DoneSteps, InsideSteps
<1>10. CASE Spawn
  BY <1>10, PushStep DEF Spawn, AtStep, history, IInv, TypeOK
<1> QED
  BY <1>1, <1>2, <1>3, <1>4, <1>5, <1>6, <1>7, <1>8, <1>9, <1>10 DEF Next, Step

-----------------------------------------------------------------------------
\* What is half there belongs to the command at work.

\* Nothing is half there: sources/ is t, its .tmp directories m, its files f.
Clean(t, m, f) ==
  /\ \A n \in Name : t[n] \notin {"empty", "partial"}
  /\ \A n \in Name : m[n] = "none"
  /\ \A x \in File : Kind[x] # "other" => f[x] = "none"

\* Only what the command c makes in dir is, as far as it has come at pc.
Half(t, m, f, pc, dir, c) ==
  /\ \A n \in Name : t[n] \in {"empty", "partial"} =>
       pc \in {"checkout", "move", "discard"} /\ n = dir
  /\ \A n \in Name : m[n] # "none" =>
       pc \in {"unpack", "rename", "tidy"} /\ n = dir
  /\ \A x \in File : Kind[x] # "other" /\ f[x] # "none" =>
       /\ pc \in {"curl", "unpack", "rename", "tidy", "discard", "delete", "move"}
       /\ c.type = "Fetch" /\ x = c.arg
  /\ pc = "move" => f[c.arg] # "partial"

HalfInv ==
  ~killed => IF procs = <<>> THEN Clean(tree, tmp, file)
                             ELSE Half(tree, tmp, file, me.pc, myDir, cmd)

\* Between two commands, and while it waits, a process has nothing half done.
LEMMA Idle ==
  ASSUME NEW t, NEW m, NEW f, NEW dir, NEW c,
         NEW pc \in {"command", "child", "linked", "failed"}
  PROVE  Half(t, m, f, pc, dir, c) <=> Clean(t, m, f)
  BY DEF Half, Clean

\* What each kind of step leaves of the running process.
LEMMA AfterGoto ==
  ASSUME TypeOK, procs # <<>>, NEW pc, Goto(pc), Half(tree', tmp', file', pc, myDir, cmd)
  PROVE  HalfInv'
  BY RunsOn DEF HalfInv

LEMMA AfterCommand ==
  ASSUME TypeOK, procs # <<>>, NEW d, NextCommand(d), Clean(tree', tmp', file')
  PROVE  HalfInv'
<1>1. procs' # <<>> /\ me'.pc = "command"
  BY RunsNext
<1>2. Half(tree', tmp', file', me'.pc, myDir', cmd')
  BY <1>1, Idle
<1> QED
  BY <1>1, <1>2 DEF HalfInv

LEMMA AfterEnd ==
  ASSUME TypeOK, procs # <<>>, NEW ok, Ends(ok), Clean(tree', tmp', file')
  PROVE  HalfInv'
<1>1. CASE Len(procs) = 1
  BY <1>1 DEF Ends, HalfInv
<1>2. CASE Len(procs) # 1
  <2>1. procs' # <<>> /\ me'.pc \in {"linked", "failed"}
    BY <1>2, ParentRuns
  <2>2. Half(tree', tmp', file', me'.pc, myDir', cmd')
    BY <2>1, Idle
  <2> QED
    BY <2>1, <2>2 DEF HalfInv
<1> QED
  BY <1>1, <1>2

LEMMA AfterPush ==
  ASSUME TypeOK, NEW p \in Pkg, procs' = Append(procs, NewProcess(p)),
         Clean(tree', tmp', file')
  PROVE  HalfInv'
<1>1. procs' # <<>> /\ me'.pc = "command"
  BY ChildRuns
<1>2. Half(tree', tmp', file', me'.pc, myDir', cmd')
  BY <1>1, Idle
<1> QED
  BY <1>1, <1>2 DEF HalfInv

LEMMA AfterDone ==
  ASSUME TypeOK, procs # <<>>, Done, Clean(tree', tmp', file')
  PROVE  HalfInv'
<1>1. PICK d : NextCommand(d)
  BY DEF Done
<1> QED
  BY <1>1, AfterCommand

\* Steps of a process that has nothing half done, and makes nothing.
LEMMA IdleSteps ==
  ASSUME IInv, HalfInv, ~killed,
         \/ ScriptEnds \/ Other \/ LinkSelf \/ Exists \/ Update
         \/ Link \/ Spawn \/ SpawnFails \/ Linked
  PROVE  HalfInv'
<1>1. /\ procs # <<>> /\ UNCHANGED files
      /\ me.pc \in {"command", "child", "linked", "failed"}
  BY DEF ScriptEnds, Other, LinkSelf, Exists, Update, Link, Spawn, SpawnFails, Linked,
     AtCommand, AtStep, files
<1>2. Clean(tree', tmp', file')
  BY <1>1, Idle DEF HalfInv, files
<1>3. TypeOK
  BY DEF IInv
<1>4. CASE \E ok : Ends(ok)
  BY <1>1, <1>2, <1>3, <1>4, AfterEnd
<1>5. CASE \E d : NextCommand(d)
  BY <1>1, <1>2, <1>3, <1>5, AfterCommand
<1>6. ASSUME NEW pc \in {"child", "failed"}, Goto(pc)  PROVE HalfInv'
  <2>1. Half(tree', tmp', file', pc, myDir, cmd)
    BY <1>2, Idle
  <2> QED
    BY <1>1, <1>3, <1>6, <2>1, AfterGoto
<1>7. CASE Spawn
  BY <1>2, <1>3, <1>7, AfterPush DEF Spawn
<1> QED
  BY <1>4, <1>5, <1>6, <1>7
     DEF ScriptEnds, Other, LinkSelf, Exists, Update, Link, SpawnFails, Linked, Done

\* Steps that begin something.
LEMMA Beginnings ==
  ASSUME IInv, HalfInv, ~killed, Checkout \/ Fetch \/ Unpack
  PROVE  HalfInv'
<1>1. procs # <<>> /\ me.pc = "command" /\ TypeOK
  BY DEF Checkout, Fetch, Unpack, AtCommand, IInv
<1>2. Clean(tree, tmp, file)
  BY <1>1, Idle DEF HalfInv
<1>3. CASE Checkout
  <2>1. Half(tree', tmp', file', "checkout", myDir, cmd)
    BY <1>1, <1>2, <1>3 DEF Checkout, Clean, Half, TypeOK
  <2> QED
    BY <1>1, <1>3, <2>1, AfterGoto DEF Checkout
<1>4. CASE Fetch
  <2>1. Half(tree', tmp', file', "curl", myDir, cmd)
    BY <1>1, <1>2, <1>4 DEF Fetch, AtCommand, Clean, Half, TypeOK
  <2> QED
    BY <1>1, <1>4, <2>1, AfterGoto DEF Fetch
<1>5. CASE Unpack
  <2>1. Half(tree', tmp', file', "unpack", myDir, cmd)
    BY <1>1, <1>2, <1>5 DEF Unpack, Clean, Half, TypeOK
  <2> QED
    BY <1>1, <1>5, <2>1, AfterGoto DEF Unpack
<1> QED
  BY <1>3, <1>4, <1>5

\* Steps in a command, and its end.
LEMMA CheckoutSteps ==
  ASSUME IInv, HalfInv, ~killed, CheckoutOk \/ CheckoutFail
  PROVE  HalfInv'
<1>1. /\ procs # <<>> /\ me.pc = "checkout" /\ TypeOK /\ Done
      /\ Half(tree, tmp, file, me.pc, myDir, cmd)
  BY DEF CheckoutOk, CheckoutFail, AtStep, IInv, HalfInv
<1>2. PICK t \in {"whole", "none"} : /\ tree' = [tree EXCEPT ![myDir] = t]
                                     /\ UNCHANGED <<tmp, file>>
  BY DEF CheckoutOk, CheckoutFail
<1>3. Clean(tree', tmp', file')
  BY <1>1, <1>2 DEF Half, Clean, TypeOK
<1> QED
  BY <1>1, <1>3, AfterDone

LEMMA FetchSteps ==
  ASSUME IInv, HalfInv, ~killed, CurlOk \/ Move \/ FetchFail \/ Delete
  PROVE  HalfInv'
<1>1. /\ procs # <<>> /\ me.pc \in {"curl", "move", "delete"} /\ TypeOK
      /\ Half(tree, tmp, file, me.pc, myDir, cmd)
  BY DEF CurlOk, Move, FetchFail, Delete, AtStep, IInv, HalfInv
<1>2. /\ cmd.type = "Fetch" /\ cmd.arg \in File /\ myDir \in Name
      /\ me.pc = "move" => Kind[cmd.arg] = "kit"
  <2>1. me.at <= Len(Script[me.pkg])
    BY <1>1, Running
  <2>2. cmd.type = "Fetch" /\ (me.pc = "move" => Kind[cmd.arg] = "kit")
    BY <1>1, AtFits DEF Fits
  <2> QED
    BY <1>1, <2>1, <2>2, AtWork
<1>3. CASE CurlOk
  <2>1. /\ me.pc = "curl"
        /\ \E f \in {"junk", "whole"} : file' = [file EXCEPT ![cmd.arg] = f]
    BY <1>3 DEF CurlOk, AtStep
  <2>2. CASE Kind[cmd.arg] = "archive"
    <3>1. tmp' = [tmp EXCEPT ![myDir] = "partial"] /\ Goto("unpack") /\ UNCHANGED tree
      BY <1>3, <2>2 DEF CurlOk
    <3>2. Half(tree', tmp', file', "unpack", myDir, cmd)
      BY <1>1, <1>2, <2>1, <3>1 DEF Half, TypeOK
    <3> QED
      BY <1>1, <3>1, <3>2, AfterGoto
  <2>3. CASE Kind[cmd.arg] = "kit"
    <3>1. tree' = [tree EXCEPT ![myDir] = "empty"] /\ Goto("move") /\ UNCHANGED tmp
      BY <1>3, <2>3 DEF CurlOk
    <3>2. Half(tree', tmp', file', "move", myDir, cmd)
      BY <1>1, <1>2, <2>1, <3>1 DEF Half, TypeOK
    <3> QED
      BY <1>1, <3>1, <3>2, AfterGoto
  <2>4. CASE Kind[cmd.arg] = "other"
    <3>1. UNCHANGED <<tree, tmp>> /\ Done
      BY <1>3, <2>4 DEF CurlOk
    <3>2. Clean(tree', tmp', file')
      BY <1>1, <1>2, <2>1, <2>4, <3>1 DEF Half, Clean, TypeOK
    <3> QED
      BY <1>1, <3>1, <3>2, AfterDone
  <2> QED
    BY <1>2, <2>2, <2>3, <2>4, ConstantsAssumption
<1>4. CASE Move
  <2>1. /\ me.pc = "move" /\ Done /\ UNCHANGED tmp
        /\ tree' = [tree EXCEPT ![myDir] = file[cmd.arg]]
        /\ file' = [file EXCEPT ![cmd.arg] = "none"]
    BY <1>4 DEF Move, AtStep
  <2>2. file[cmd.arg] \notin {"empty", "partial"}
    BY <1>1, <1>2, <2>1 DEF Half, TypeOK
  <2>3. Clean(tree', tmp', file')
    BY <1>1, <1>2, <2>1, <2>2 DEF Half, Clean, TypeOK
  <2> QED
    BY <1>1, <2>1, <2>3, AfterDone
<1>5. CASE FetchFail \/ Delete
  <2>1. /\ Done /\ UNCHANGED tmp
        /\ \/ tree' = [tree EXCEPT ![myDir] = "none"]
           \/ me.pc = "delete" /\ tree' = tree
        /\ file' = [file EXCEPT ![cmd.arg] = "none"]
    BY <1>5 DEF FetchFail, Delete, AtStep
  <2>2. Clean(tree', tmp', file')
    BY <1>1, <1>2, <2>1 DEF Half, Clean, TypeOK
  <2> QED
    BY <1>1, <2>1, <2>2, AfterDone
<1> QED
  BY <1>3, <1>4, <1>5

LEMMA UnpackSteps ==
  ASSUME IInv, HalfInv, ~killed,
         Unpacked \/ Rename \/ Tidy \/ TidyFails \/ UnpackFail \/ LinkFailed \/ Discarded
  PROVE  HalfInv'
<1>1. /\ procs # <<>> /\ me.pc \in {"unpack", "rename", "tidy", "failed", "discard"}
      /\ TypeOK /\ file' = file
      /\ Half(tree, tmp, file, me.pc, myDir, cmd)
  BY DEF Unpacked, Rename, Tidy, TidyFails, UnpackFail, LinkFailed, Discarded, AtStep, IInv, HalfInv
<1>2. ASSUME Unpacks, tmp' = [tmp EXCEPT ![myDir] = "none"],
             \/ tree' = [tree EXCEPT ![myDir] = "whole"]
             \/ tree' = [tree EXCEPT ![myDir] = "none"]
             \/ tree' = tree /\ me.pc # "discard"
      PROVE  HalfInv'
  <2>1. Half(tree', tmp', file', "delete", myDir, cmd)
    BY <1>1, <1>2 DEF Half, TypeOK
  <2>2. CASE cmd.type = "Fetch"
    BY <1>1, <1>2, <2>1, <2>2, AfterGoto DEF Unpacks
  <2>3. CASE cmd.type # "Fetch"
    <3>1. Clean(tree', tmp', file')
      BY <2>1, <2>3 DEF Half, Clean
    <3> QED
      BY <1>1, <1>2, <2>3, <3>1, AfterDone DEF Unpacks
  <2> QED
    BY <2>2, <2>3
<1>3. CASE Unpacked
  <2>1. Half(tree', tmp', file', "rename", myDir, cmd)
    BY <1>1, <1>3 DEF Unpacked, AtStep, Half, TypeOK
  <2> QED
    BY <1>1, <1>3, <2>1, AfterGoto DEF Unpacked
<1>4. CASE Rename
  <2>1. CASE tmp' = [tmp EXCEPT ![myDir] = "rest"] /\ Goto("tidy")
    <3>1. Half(tree', tmp', file', "tidy", myDir, cmd)
      BY <1>1, <1>4, <2>1 DEF Rename, Half, TypeOK
    <3> QED
      BY <1>1, <2>1, <3>1, AfterGoto
  <2> QED
    BY <1>2, <1>4, <2>1 DEF Rename, AtStep
<1>5. CASE Tidy \/ UnpackFail
  BY <1>2, <1>5 DEF Tidy, UnpackFail, AtStep
<1>6. CASE TidyFails \/ LinkFailed
  <2>1. Half(tree', tmp', file', "discard", myDir, cmd)
    BY <1>1, <1>6 DEF TidyFails, LinkFailed, AtStep, Half, TypeOK
  <2> QED
    BY <1>1, <1>6, <2>1, AfterGoto DEF TidyFails, LinkFailed
<1>7. CASE Discarded
  <2>1. tmp' = [tmp EXCEPT ![myDir] = "none"]
    <3>1. tmp' = tmp /\ \A n \in Name : tmp[n] = "none"
      BY <1>1, <1>7 DEF Discarded, AtStep, Half
    <3>2. tmp \in [Name -> {"none", "partial", "whole", "rest"}]
      BY <1>1 DEF TypeOK
    <3> QED
      BY ONLY <3>1, <3>2
  <2>2. Unpacks /\ tree' = [tree EXCEPT ![myDir] = "none"]
    BY <1>7 DEF Discarded
  <2> QED
    BY <1>2, <2>1, <2>2
<1> QED
  BY <1>3, <1>4, <1>5, <1>6, <1>7

LEMMA HalfNext == IInv /\ HalfInv /\ [Next]_vars => HalfInv'
<1> SUFFICES ASSUME IInv, HalfInv, [Next]_vars, ~killed'  PROVE HalfInv'
  BY DEF HalfInv
<1>1. CASE UNCHANGED vars
  BY <1>1 DEF vars, HalfInv, me, cmd, myDir, CommandOf, myDirOf
<1>2. ~killed
  <2>1. killed' = killed \/ killed'
    BY <1>1 DEF Next, Step, vars, Begin, ScriptEnds, Other, LinkSelf, Exists, Update, Link, Spawn,
       SpawnFails, Linked, LinkFailed, Checkout, CheckoutOk, CheckoutFail, Fetch,
       CurlOk, Move, FetchFail, Unpack, Unpacked, Rename, Tidy, TidyFails, UnpackFail,
       Discarded, Delete, Kill, history
  <2> QED
    BY <2>1
<1>3. CASE \E p \in Pkg : Begin(p)
  <2>1. PICK p \in Pkg : Begin(p)
    BY <1>3
  <2>2. /\ procs' = Append(procs, NewProcess(p)) /\ TypeOK
        /\ Clean(tree', tmp', file')
    BY <1>2, <2>1 DEF Begin, HalfInv, files, IInv
  <2> QED
    BY <2>2, AfterPush
<1> QED
  BY <1>1, <1>2, <1>3, IdleSteps, Beginnings, CheckoutSteps, FetchSteps, UnpackSteps
     DEF Next, Step, Kill

\* The invariant, for every set of packages and every Source script.
THEOREM Inductive == Spec => [](IInv /\ FailsEmpty)
<1>1. Init => FailsEmpty
  BY DEF Init, FailsEmpty
<1> QED
  BY <1>1, InvInit, InvNext, EmptyNext, PTL DEF Spec

\* No failing command, in whatever child process, deletes a directory that
\* existed when the run began.
THEOREM SourcesPreserved == Spec => []Preserved
  BY Inductive, PTL DEF IInv

\* _(srcdir) always names an existing directory.
THEOREM SrcdirCorrect == Spec => []SrcdirExists
  BY Inductive, PTL DEF IInv

\* The directory of a package that comes as an archive is whole or absent, whatever
\* fails or is killed, while anything is unpacked or deleted.
THEOREM UnpackingAtomic == Spec => []ArchivesWhole
  BY Inductive, PTL DEF IInv

\* However commands and their children end, without kills none leaves half of a
\* directory, an archive or a .tmp directory behind.
THEOREM NothingHalfLeft == Spec => []LeavesNothingHalf
<1>1. Init => HalfInv
  BY DEF Init, HalfInv, Clean
<1>2. HalfInv => LeavesNothingHalf
  BY DEF HalfInv, LeavesNothingHalf, Clean
<1> QED
  BY <1>1, <1>2, HalfNext, Inductive, PTL DEF Spec
=============================================================================
