------------------------ MODULE KbsPatchApply_proofs ------------------------
(***************************************************************************)
(* What PatchApply does to files, for every patch, well-formed or not, and *)
(* every source directory.                                                 *)
(*                                                                         *)
(* The files of patchdict are distinct and untouched until their turn      *)
(* comes, and the hunks of the file at hand are those that matched what it *)
(* held at the beginning, followed by those that are left.                 *)
(*                                                                         *)
(* The second half is about patches that diff has written, and what        *)
(* they mean: the dictionary lists the changes of each file, some of them  *)
(* several times, and making them from the first to the last, each in the  *)
(* old lines and at its place among the new ones, comes to what replacing  *)
(* them from the last to the first does.                                   *)
(***************************************************************************)
EXTENDS KbsPatchApply, StackLemmas, SequenceTheorems, FiniteSetTheorems, TLAPS

\* patchdict is a dictionary.
Distinct ==
  \A i, j \in 1..Len(dict) : dict[i].file = dict[j].file => i = j

\* What is still to be patched is as it was.
Untouched ==
  /\ pc = "parse" => tree = start
  /\ \A i \in 1..Len(dict) :
       (pc \in {"write", "cut"} /\ i = 1) \/ tree[dict[i].file] = start[dict[i].file]
  /\ \A f \in Files : tree[f] = Missing <=> start[f] = Missing
  /\ pc = "error" /\ (lines # <<>> \/ dict = <<>>) => tree = start
  /\ pc \in {"open", "hunks", "write"} => lines = <<>>

\* The hunks of the file at hand: the matched ones, then those in left.
Loop ==
  pc \in {"hunks", "write"} =>
    /\ dict # <<>>
    /\ orig = start[dict[1].file]
    /\ start[dict[1].file] # Missing
    /\ LET hunks == dict[1].hunks
           n == Len(hunks) - Len(left)
       IN  /\ n >= 0
           /\ \A j \in 1..Len(left) : left[j] = hunks[n + j]
           /\ \A i \in 1..n : Matches(orig, hunks[i])
    /\ pc = "write" => left = <<>>

IInv == TypeOK /\ Distinct /\ Untouched /\ Loop

-----------------------------------------------------------------------------
(* Types.                                                                   *)

DictEntry == [file: Files, hunks: Seq(Hunk)]

\* The entry of a hunk is new, or that of its file.
LEMMA AddHunkType ==
  ASSUME NEW d \in Seq(DictEntry), NEW f \in Files, NEW h \in Hunk
  PROVE  /\ AddHunk(d, f, h) \in Seq(DictEntry)
         /\ Len(AddHunk(d, f, h)) >= Len(d)
         /\ \A i \in 1..Len(d) : AddHunk(d, f, h)[i].file = d[i].file
         /\ \A i \in 1..Len(AddHunk(d, f, h)) : i \notin 1..Len(d) =>
              AddHunk(d, f, h)[i].file = f /\ \A j \in 1..Len(d) : d[j].file # f
         /\ Len(AddHunk(d, f, h)) <= Len(d) + 1
  <1>1. Len(d) \in Nat /\ \A i \in 1..Len(d) : d[i] \in DictEntry
    OBVIOUS
  <1>2. CASE \E i \in 1..Len(d) : d[i].file = f
    <2> DEFINE e(i) == IF d[i].file = f THEN [file |-> f, hunks |-> Append(d[i].hunks, h)]
                       ELSE d[i]
               r == [i \in 1..Len(d) |-> e(i)]
    <2>1. ASSUME NEW i \in 1..Len(d)
          PROVE  e(i) \in DictEntry /\ e(i).file = d[i].file
      <3>1. d[i].hunks \in Seq(Hunk) /\ d[i].file \in Files
        BY <1>1 DEF DictEntry
      <3>2. Append(d[i].hunks, h) \in Seq(Hunk)
        BY <3>1, AppendProperties
      <3> QED
        BY <1>1, <3>1, <3>2 DEF DictEntry
    <2>2. r \in Seq(DictEntry) /\ Len(r) = Len(d) /\ \A i \in 1..Len(d) : r[i] = e(i)
      BY <1>1, <2>1
    <2>3. AddHunk(d, f, h) = r
      BY <1>2 DEF AddHunk
    <2> HIDE DEF r
    <2>4. \A i \in 1..Len(d) : r[i].file = d[i].file
      BY <2>1, <2>2
    <2> HIDE DEF e
    <2> QED
      BY <1>1, <2>2, <2>3, <2>4
  <1>3. CASE ~\E i \in 1..Len(d) : d[i].file = f
    <2> DEFINE e == [file |-> f, hunks |-> <<h>>]
    <2>1. e \in DictEntry
      <3>1. <<h>> \in Seq(Hunk)
        OBVIOUS
      <3> QED
        BY <3>1 DEF DictEntry
    <2>2. AddHunk(d, f, h) = Append(d, e)
      BY <1>3 DEF AddHunk
    <2> HIDE DEF e
    <2>3. /\ Append(d, e) \in Seq(DictEntry)
          /\ Len(Append(d, e)) = Len(d) + 1
          /\ Append(d, e)[Len(d) + 1] = e
          /\ \A i \in 1..Len(d) : Append(d, e)[i] = d[i]
      BY <1>1, <2>1, AppendProperties
    <2>4. e.file = f
      BY DEF e
    <2>5. \A i \in 1..(Len(d) + 1) : i \notin 1..Len(d) => i = Len(d) + 1
      BY <1>1
    <2> QED
      BY <1>1, <1>3, <2>2, <2>3, <2>4, <2>5
  <1> QED
    BY <1>2, <1>3

\* What the lines of a patch are made of.
LEMMA LineType ==
  ASSUME TypeOK, lines # <<>>
  PROVE  /\ Head(lines) \in PatchLine
         /\ Tail(lines) \in Seq(PatchLine)
         /\ Head(lines).kind = "diff" => Head(lines).file \in Files
         /\ Head(lines).kind = "@" => Head(lines).span \in Span
         /\ Head(lines).kind \in {" ", "-", "+"} => Head(lines).text \in Text
  <1>1. Head(lines) \in PatchLine /\ Tail(lines) \in Seq(PatchLine)
    BY HeadTailProperties DEF TypeOK
  <1>2. Head(lines).kind = "diff" => Head(lines).file \in Files
    BY <1>1 DEF PatchLine
  <1>3. Head(lines).kind = "@" => Head(lines).span \in Span
    BY <1>1 DEF PatchLine
  <1>4. Head(lines).kind \in {" ", "-", "+"} => Head(lines).text \in Text
    BY <1>1 DEF PatchLine
  <1> QED
    BY <1>1, <1>2, <1>3, <1>4

LEMMA WithLineType ==
  ASSUME TypeOK, AtLine({" ", "-", "+"}), NEW code \in Seq(Text), NEW kinds
  PROVE  WithLine(code, kinds) \in Seq(Text)
  BY LineType, AppendProperties DEF WithLine, AtLine

\* The end of the loop over the lines, for a hunk line and for a code line.
LEMMA EndOfLineType ==
  ASSUME TypeOK, NEW s \in Span \cup {NoSpan}, NEW in \in BOOLEAN,
         NEW old \in Seq(Text), NEW new \in Seq(Text),
         ~Unset(s, old, new), EndOfLine(s, in, old, new)
  PROVE  /\ inhunk' \in BOOLEAN
         /\ dict' \in Seq(DictEntry)
         /\ \/ dict' = dict
            \/ file \in Files /\ \E h \in Hunk : dict' = AddHunk(dict, file, h)
  <1>1. CASE Len(old) = s.ol /\ Len(new) = s.nl
    <2> DEFINE h == [os |-> s.os, ns |-> s.ns, old |-> old, new |-> new]
    <2>1. s \in Span /\ file \in Files
      BY <1>1 DEF Unset, TypeOK
    <2>2. h \in Hunk
      BY <2>1 DEF Span, Hunk
    <2>3. dict' = AddHunk(dict, file, h) /\ inhunk' = FALSE
      BY <1>1 DEF EndOfLine
    <2>4. dict \in Seq(DictEntry)
      BY DEF TypeOK, DictEntry
    <2> HIDE DEF h
    <2>5. dict' \in Seq(DictEntry)
      BY <2>1, <2>2, <2>3, <2>4, AddHunkType
    <2> QED
      BY <2>1, <2>2, <2>3, <2>5
  <1>2. CASE ~(Len(old) = s.ol /\ Len(new) = s.nl)
    BY <1>2 DEF EndOfLine, TypeOK, DictEntry
  <1> QED
    BY <1>1, <1>2

\* The file at hand, and what is behind it.
LEMMA HeadOfDict ==
  ASSUME TypeOK, dict # <<>>
  PROVE  /\ Len(dict) \in Nat /\ 1 \in 1..Len(dict)
         /\ Head(dict) = dict[1]
         /\ Head(dict).file \in Files
         /\ Head(dict).hunks \in Seq(Hunk)
         /\ Tail(dict) \in Seq(DictEntry)
         /\ Len(Tail(dict)) = Len(dict) - 1
         /\ \A i \in 1..Len(Tail(dict)) : i + 1 \in 1..Len(dict) /\ Tail(dict)[i] = dict[i + 1]
  <1>1. dict \in Seq(DictEntry)
    BY DEF TypeOK, DictEntry
  <1>2. /\ Head(dict) \in DictEntry
        /\ Tail(dict) \in Seq(DictEntry)
        /\ Len(Tail(dict)) = Len(dict) - 1
        /\ \A i \in 1..Len(Tail(dict)) : Tail(dict)[i] = dict[i + 1]
    BY <1>1, HeadTailProperties
  <1>3. Len(dict) \in Nat /\ Len(dict) # 0 /\ Head(dict) = dict[1]
    BY <1>1, EmptySeq
  <1> QED
    BY <1>2, <1>3 DEF DictEntry

LEMMA FilesOfDict ==
  ASSUME TypeOK
  PROVE  \A i \in 1..Len(dict) : dict[i].file \in Files
  <1>1. dict \in Seq(DictEntry)
    BY DEF TypeOK, DictEntry
  <1>2. \A i \in 1..Len(dict) : dict[i] \in DictEntry
    BY <1>1
  <1> QED
    BY <1>2 DEF DictEntry

\* What lrange returns, and a file with a hunk.
LEMMA RangeType ==
  ASSUME NEW s \in Seq(Text), NEW a \in Int, NEW b \in Int
  PROVE  Range1(s, a, b) \in Seq(Text)
  <1> DEFINE m == IF a < 1 THEN 1 ELSE a
             n == IF b > Len(s) THEN Len(s) ELSE b
  <1>1. Len(s) \in Nat /\ m \in Int /\ n \in Int /\ m >= 1 /\ n <= Len(s)
    OBVIOUS
  <1>2. Range1(s, a, b) = SubSeq(s, m, n)
    BY DEF Range1
  <1> HIDE DEF m, n
  <1>3. SubSeq(s, m, n) \in Seq(Text)
    <2>1. \A i \in m..n : i \in 1..Len(s) /\ s[i] \in Text
      BY <1>1
    <2> QED
      BY <1>1, <2>1, SubSeqProperties
  <1> QED
    BY <1>2, <1>3

LEMMA WithHunkType ==
  ASSUME NEW p \in Seq(Text), NEW s \in Seq(Text), NEW h \in Hunk
  PROVE  WithHunk(p, s, h) \in Seq(Text)
  <1>1. h.ns \in Nat /\ h.os \in Nat /\ h.new \in Seq(Text) /\ h.old \in Seq(Text)
    BY DEF Hunk
  <1>2. Len(h.old) \in Nat /\ Len(s) \in Nat
    BY <1>1
  <1>3. Range1(p, 1, h.ns - 1) \in Seq(Text)
    BY <1>1, RangeType
  <1>4. Range1(s, h.os + Len(h.old), Len(s)) \in Seq(Text)
    BY <1>1, <1>2, RangeType
  <1>5. Range1(p, 1, h.ns - 1) \o h.new \in Seq(Text)
    BY <1>1, <1>3, ConcatProperties
  <1> QED
    BY <1>4, <1>5, ConcatProperties DEF WithHunk

\* A write that fails leaves a part of its file, and the others alone.
LEMMA WritesPart ==
  ASSUME TypeOK, Loop, WriteFails
  PROVE  LET f == Head(dict).file
         IN  /\ f \in Files /\ f = dict[1].file /\ 1 \in 1..Len(dict)
             /\ pc = "write" /\ pc' = "cut" /\ tree' \in [Files -> Content]
             /\ tree'[f] # Missing /\ start[f] # Missing
             /\ \A g \in Files : g # f => tree'[g] = tree[g]
             /\ UNCHANGED <<patch, parsing, dict, applying, start, writes, round>>
  <1> DEFINE f == Head(dict).file
  <1>1. PICK n \in 0..Len(patched) : tree' = [tree EXCEPT ![f] = SubSeq(patched, 1, n)]
    BY DEF WriteFails
  <1>2. /\ pc = "write" /\ pc' = "cut"
        /\ UNCHANGED <<patch, parsing, dict, applying, start, writes, round>>
    BY DEF WriteFails
  <1>3. dict # <<>> /\ start[dict[1].file] # Missing
    BY <1>2 DEF Loop
  <1>4. f = dict[1].file /\ f \in Files /\ 1 \in 1..Len(dict)
    BY <1>3, HeadOfDict
  <1>5. SubSeq(patched, 1, n) \in Seq(Text)
    BY SubSeqProperties DEF TypeOK
  <1>6. SubSeq(patched, 1, n) # Missing /\ SubSeq(patched, 1, n) \in Content
    BY <1>5, PatchAssumption DEF Content
  <1> HIDE DEF f
  <1>7. /\ tree' \in [Files -> Content] /\ tree'[f] # Missing
        /\ \A g \in Files : g # f => tree'[g] = tree[g]
    BY <1>1, <1>4, <1>6 DEF TypeOK
  <1> QED
    BY <1>2, <1>3, <1>4, <1>7 DEF f

LEMMA TypeInit == Init => TypeOK
  <1> SUFFICES ASSUME Init PROVE TypeOK
    OBVIOUS
  <1>1. PICK c \in Cases : patch = c.patch /\ tree = c.tree
    BY DEF Init
  <1>2. c.patch \in Patch /\ c.tree \in [Files -> Content]
    BY PatchAssumption
  <1>3. patch.lines \in Seq(PatchLine)
    BY <1>1, <1>2 DEF Patch
  <1>4. /\ <<>> \in Seq(Text) /\ <<>> \in Seq(Hunk)
        /\ <<>> \in Seq([file: Files, hunks: Seq(Hunk)])
    OBVIOUS
  <1>5. [f \in Files |-> 0] \in [Files -> Nat]
    OBVIOUS
  <1>6. tree \in [Files -> Content] /\ \E d \in Cases : patch = d.patch
    BY <1>1, <1>2
  <1> QED
    BY <1>3, <1>4, <1>5, <1>6 DEF Init, TypeOK

LEMMA TypeStep == TypeOK /\ Loop /\ [Next]_vars => TypeOK'
  <1> SUFFICES ASSUME TypeOK, Loop, [Next]_vars PROVE TypeOK'
    OBVIOUS
  <1> USE DEF parsing, applying
  <1>1. CASE DiffLine
    BY <1>1, LineType DEF DiffLine, AtLine, TypeOK
  <1>2. CASE BadDiffLine
    BY <1>2 DEF BadDiffLine, Fail, TypeOK
  <1>3. CASE JunkLine
    BY <1>3, LineType DEF JunkLine, AtLine, TypeOK
  <1>4. CASE HunkLine
    <2> DEFINE s == Head(lines).span
    <2>1. s \in Span /\ Tail(lines) \in Seq(PatchLine)
      BY <1>4, LineType DEF HunkLine, AtLine
    <2>2. /\ ~Unset(s, <<>>, <<>>)
          /\ EndOfLine(s, TRUE, <<>>, <<>>)
          /\ span' = s /\ oldcode' = <<>> /\ newcode' = <<>>
          /\ lines' = Tail(lines)
          /\ UNCHANGED <<patch, pc, file, applying, tree, start, writes, round>>
      BY <1>4 DEF HunkLine
    <2>3. <<>> \in Seq(Text)
      OBVIOUS
    <2> HIDE DEF s
    <2>4. inhunk' \in BOOLEAN /\ dict' \in Seq(DictEntry)
      BY <2>1, <2>2, <2>3, EndOfLineType
    <2> QED
      BY <2>1, <2>2, <2>3, <2>4 DEF TypeOK, DictEntry
  <1>5. CASE BadHunkLine
    BY <1>5 DEF BadHunkLine, Fail, TypeOK
  <1>6. CASE CodeLine
    <2> DEFINE old == WithLine(oldcode, {" ", "-"})
               new == WithLine(newcode, {" ", "+"})
    <2>1. Tail(lines) \in Seq(PatchLine)
      BY <1>6, LineType DEF CodeLine, AtLine
    <2>2. /\ ~Unset(span, old, new)
          /\ EndOfLine(span, inhunk, old, new)
          /\ oldcode' = old /\ newcode' = new
          /\ lines' = Tail(lines)
          /\ UNCHANGED <<patch, pc, file, span, applying, tree, start, writes, round>>
      BY <1>6 DEF CodeLine
    <2>3. old \in Seq(Text) /\ new \in Seq(Text)
      <3>1. AtLine({" ", "-", "+"}) /\ oldcode \in Seq(Text) /\ newcode \in Seq(Text)
        BY <1>6 DEF CodeLine, TypeOK
      <3> QED
        BY <3>1, WithLineType
    <2> HIDE DEF old, new
    <2>4. span \in Span \cup {NoSpan} /\ inhunk \in BOOLEAN
      BY DEF TypeOK
    <2>5. inhunk' \in BOOLEAN /\ dict' \in Seq(DictEntry)
      BY <2>2, <2>3, <2>4, EndOfLineType
    <2> QED
      BY <2>1, <2>2, <2>3, <2>5 DEF TypeOK, DictEntry
  <1>7. CASE BadCodeLine
    BY <1>7 DEF BadCodeLine, Fail, TypeOK
  <1>8. CASE Parsed
    BY <1>8 DEF Parsed, TypeOK
  <1>9. CASE NothingParsed
    BY <1>9 DEF NothingParsed, Fail, TypeOK
  <1>10. CASE OpenFile
    <2>1. tree[Head(dict).file] \in Seq(Text)
      BY <1>10, HeadOfDict DEF OpenFile, TypeOK, Content
    <2>2. Head(dict).hunks \in Seq(Hunk)
      BY <1>10, HeadOfDict DEF OpenFile
    <2> QED
      BY <1>10, <2>1, <2>2 DEF OpenFile, TypeOK
  <1>11. CASE OpenFails \/ TruncateFails
    BY <1>11 DEF OpenFails, TruncateFails, Fail, TypeOK
  <1>12. CASE ApplyHunk
    <2>1. Head(left) \in Hunk /\ Tail(left) \in Seq(Hunk)
      BY <1>12, HeadTailProperties DEF ApplyHunk, TypeOK
    <2>2. WithHunk(patched, orig, Head(left)) \in Seq(Text)
      BY <2>1, WithHunkType DEF TypeOK
    <2> QED
      BY <1>12, <2>1, <2>2 DEF ApplyHunk, TypeOK
  <1>13. CASE HunkFails
    <2>1. dict # <<>>
      BY <1>13 DEF HunkFails, Loop
    <2> QED
      BY <1>13, <2>1, HeadOfDict DEF HunkFails, TypeOK, DictEntry
  <1>14. CASE Truncate
    <2>1. <<>> \in Content
      BY DEF Content
    <2> QED
      BY <1>14, <2>1 DEF Truncate, TypeOK
  <1>15. CASE Write
    <2>1. dict # <<>>
      BY <1>15 DEF Write, Loop
    <2>2. patched \in Content
      BY DEF TypeOK, Content
    <2>3. Tail(dict) \in Seq([file: Files, hunks: Seq(Hunk)])
      BY <2>1, HeadOfDict DEF DictEntry
    <2>4. tree' \in [Files -> Content]
      BY <1>15, <2>2 DEF Write, TypeOK
    <2>5. writes' \in [Files -> Nat]
      <3> DEFINE f == Head(dict).file
      <3>1. f \in Files /\ writes \in [Files -> Nat]
        BY <2>1, HeadOfDict DEF TypeOK
      <3>2. writes[f] + 1 \in Nat
        BY <3>1
      <3>3. writes' = [writes EXCEPT ![f] = writes[f] + 1]
        BY <1>15 DEF Write
      <3> HIDE DEF f
      <3> QED
        BY <3>1, <3>2, <3>3
    <2> QED
      BY <1>15, <2>3, <2>4, <2>5 DEF Write, TypeOK
  <1>16. CASE Finish
    BY <1>16 DEF Finish, TypeOK
  <1>17. CASE Again
    <2>1. patch.lines \in Seq(PatchLine)
      BY PatchAssumption DEF TypeOK, Patch
    <2>2. <<>> \in Seq(Text) /\ <<>> \in Seq([file: Files, hunks: Seq(Hunk)])
      OBVIOUS
    <2>3. round' \in Nat
      BY <1>17 DEF Again, TypeOK
    <2>4. \E c \in Cases : patch' = c.patch
      BY <1>17 DEF Again, TypeOK
    <2> QED
      BY <1>17, <2>1, <2>2, <2>3, <2>4 DEF Again, TypeOK
  <1>18. CASE UNCHANGED vars
    BY <1>18 DEF vars, TypeOK
  <1>19. CASE WriteFails
    BY <1>19, WritesPart DEF TypeOK
  <1> QED
    BY <1>1, <1>2, <1>3, <1>4, <1>5, <1>6, <1>7, <1>8, <1>9, <1>10, <1>11, <1>12,
       <1>13, <1>14, <1>15, <1>16, <1>17, <1>18, <1>19 DEF Next, Step, Done

-----------------------------------------------------------------------------
(* The dictionary and the files in it.                                      *)

\* While the patch is parsed, a hunk goes to the entry of its file.
LEMMA ParsingKeepsDict ==
  ASSUME TypeOK, HunkLine \/ CodeLine
  PROVE  \/ dict' = dict
         \/ file \in Files /\ \E h \in Hunk : dict' = AddHunk(dict, file, h)
  <1>1. CASE HunkLine
    <2> DEFINE s == Head(lines).span
    <2>1. s \in Span \cup {NoSpan}
      BY <1>1, LineType DEF HunkLine, AtLine
    <2>2. ~Unset(s, <<>>, <<>>) /\ EndOfLine(s, TRUE, <<>>, <<>>)
      BY <1>1 DEF HunkLine
    <2>3. <<>> \in Seq(Text)
      OBVIOUS
    <2> HIDE DEF s
    <2> QED
      BY <2>1, <2>2, <2>3, EndOfLineType
  <1>2. CASE CodeLine
    <2> DEFINE old == WithLine(oldcode, {" ", "-"})
               new == WithLine(newcode, {" ", "+"})
    <2>1. ~Unset(span, old, new) /\ EndOfLine(span, inhunk, old, new)
      BY <1>2 DEF CodeLine
    <2>2. old \in Seq(Text) /\ new \in Seq(Text)
      <3>1. AtLine({" ", "-", "+"}) /\ oldcode \in Seq(Text) /\ newcode \in Seq(Text)
        BY <1>2 DEF CodeLine, TypeOK
      <3> QED
        BY <3>1, WithLineType
    <2>3. span \in Span \cup {NoSpan} /\ inhunk \in BOOLEAN
      BY DEF TypeOK
    <2> HIDE DEF old, new
    <2> QED
      BY <2>1, <2>2, <2>3, EndOfLineType
  <1> QED
    BY <1>1, <1>2

LEMMA DistinctAdd ==
  ASSUME TypeOK, Distinct, HunkLine \/ CodeLine
  PROVE  Distinct'
  <1>1. CASE dict' = dict
    BY <1>1 DEF Distinct
  <1>2. CASE file \in Files /\ \E h \in Hunk : dict' = AddHunk(dict, file, h)
    <2>1. PICK h \in Hunk : dict' = AddHunk(dict, file, h)
      BY <1>2
    <2>2. dict \in Seq(DictEntry)
      BY DEF TypeOK, DictEntry
    <2>3. /\ \A i \in 1..Len(dict) : dict'[i].file = dict[i].file
          /\ \A i \in 1..Len(dict') : i \notin 1..Len(dict) =>
               dict'[i].file = file /\ \A j \in 1..Len(dict) : dict[j].file # file
          /\ Len(dict') <= Len(dict) + 1
          /\ dict' \in Seq(DictEntry)
      <3> DEFINE d == AddHunk(dict, file, h)
      <3>1. /\ \A i \in 1..Len(dict) : d[i].file = dict[i].file
            /\ \A i \in 1..Len(d) : i \notin 1..Len(dict) =>
                 d[i].file = file /\ \A j \in 1..Len(dict) : dict[j].file # file
            /\ Len(d) <= Len(dict) + 1
            /\ d \in Seq(DictEntry)
        <4>1. file \in Files
          BY <1>2
        <4> QED
          BY ONLY <4>1, <2>2, h \in Hunk, AddHunkType
      <3>2. dict' = d
        BY <2>1
      <3> HIDE DEF d
      <3> QED
        BY <3>1, <3>2
    <2>4. SUFFICES ASSUME NEW i \in 1..Len(dict'), NEW j \in 1..Len(dict'),
                          dict'[i].file = dict'[j].file
                   PROVE  i = j
      BY DEF Distinct
    <2>5. Len(dict) \in Nat /\ Len(dict') \in Nat
      BY <2>2, <2>3
    <2>6. CASE i \in 1..Len(dict) /\ j \in 1..Len(dict)
      BY <2>3, <2>4, <2>6 DEF Distinct
    <2>7. CASE i \notin 1..Len(dict) /\ j \notin 1..Len(dict)
      BY <2>3, <2>5, <2>7
    <2>8. CASE i \in 1..Len(dict) /\ j \notin 1..Len(dict)
      BY <2>3, <2>4, <2>8
    <2>9. CASE i \notin 1..Len(dict) /\ j \in 1..Len(dict)
      BY <2>3, <2>4, <2>9
    <2> QED
      BY <2>6, <2>7, <2>8, <2>9
  <1> QED
    BY <1>1, <1>2, ParsingKeepsDict

LEMMA DistinctTail ==
  ASSUME TypeOK, Distinct, dict # <<>>, dict' = Tail(dict)
  PROVE  Distinct'
  <1>1. SUFFICES ASSUME NEW i \in 1..Len(dict'), NEW j \in 1..Len(dict'),
                        dict'[i].file = dict'[j].file
                 PROVE  i = j
    BY DEF Distinct
  <1>2. /\ i + 1 \in 1..Len(dict) /\ j + 1 \in 1..Len(dict)
        /\ dict'[i] = dict[i + 1] /\ dict'[j] = dict[j + 1]
    BY HeadOfDict
  <1>3. i + 1 = j + 1
    BY <1>1, <1>2 DEF Distinct
  <1>4. i \in Int /\ j \in Int
    OBVIOUS
  <1> QED
    BY <1>3, <1>4

LEMMA DistinctStep == TypeOK /\ Distinct /\ Loop /\ [Next]_vars => Distinct'
  <1> SUFFICES ASSUME TypeOK, Distinct, Loop, [Next]_vars PROVE Distinct'
    OBVIOUS
  <1>1. CASE HunkLine \/ CodeLine
    BY <1>1, DistinctAdd
  <1>2. CASE HunkFails \/ Write
    BY <1>2, DistinctTail DEF HunkFails, Write, Loop
  <1>3. CASE Again
    BY <1>3 DEF Again, Distinct
  <1>4. CASE UNCHANGED dict
    BY <1>4 DEF Distinct
  <1>5. CASE \/ DiffLine \/ BadDiffLine \/ JunkLine \/ BadHunkLine \/ BadCodeLine
             \/ Parsed \/ NothingParsed \/ OpenFile \/ OpenFails \/ ApplyHunk
             \/ Truncate \/ TruncateFails \/ WriteFails \/ Finish \/ UNCHANGED vars
    <2>1. UNCHANGED dict
      BY <1>5 DEF DiffLine, BadDiffLine, JunkLine, BadHunkLine, BadCodeLine, Parsed,
         NothingParsed, OpenFile, OpenFails, ApplyHunk, Truncate, TruncateFails, WriteFails,
         Finish, Fail, vars
    <2> QED
      BY <1>4, <2>1
  <1> QED
    BY <1>1, <1>2, <1>3, <1>5 DEF Next, Step, Done

-----------------------------------------------------------------------------
(* The files that wait for their turn, and the hunks of the one at hand.    *)

LEMMA UntouchedStep ==
  TypeOK /\ Distinct /\ Untouched /\ Loop /\ [Next]_vars => Untouched'
  <1> SUFFICES ASSUME TypeOK, Distinct, Untouched, Loop, [Next]_vars PROVE Untouched'
    OBVIOUS
  <1> USE DEF parsing, applying
  <1>0. TypeOK'
    BY TypeStep
  <1>1. CASE HunkLine \/ CodeLine
    <2>1. pc = "parse" /\ pc' = "parse" /\ UNCHANGED <<tree, start>>
      BY <1>1 DEF HunkLine, CodeLine, AtLine
    <2> QED
      BY <2>1 DEF Untouched
  <1>2. CASE DiffLine \/ JunkLine
    <2>1. pc = "parse" /\ pc' = "parse" /\ UNCHANGED <<tree, start>>
      BY <1>2 DEF DiffLine, JunkLine, AtLine
    <2> QED
      BY <2>1 DEF Untouched
  <1>3. CASE BadDiffLine \/ BadHunkLine \/ BadCodeLine \/ NothingParsed
    <2>1. pc = "parse" /\ pc' = "error" /\ UNCHANGED <<tree, start>>
      BY <1>3 DEF BadDiffLine, BadHunkLine, BadCodeLine, NothingParsed, AtLine, Fail
    <2> QED
      BY <2>1 DEF Untouched
  <1>4. CASE Parsed \/ OpenFile \/ ApplyHunk
    <2>1. /\ pc \in {"parse", "open", "hunks"} /\ (pc = "parse" => lines = <<>>)
          /\ pc' \in {"open", "hunks"} /\ UNCHANGED <<lines, tree, start, dict>>
      BY <1>4 DEF Parsed, OpenFile, ApplyHunk
    <2> QED
      BY <2>1 DEF Untouched
  <1>5. CASE OpenFails \/ TruncateFails
    <2>1. /\ pc \in {"open", "hunks"} /\ pc' = "error" /\ dict # <<>>
          /\ UNCHANGED <<lines, tree, start, dict>>
      BY <1>5 DEF OpenFails, TruncateFails, Fail, Loop
    <2> QED
      BY <2>1 DEF Untouched
  <1>6. CASE HunkFails
    <2>1. pc = "hunks" /\ pc' = "open" /\ dict # <<>> /\ dict' = Tail(dict)
          /\ UNCHANGED <<lines, tree, start>>
      BY <1>6 DEF HunkFails, Loop
    <2>2. \A i \in 1..Len(dict') : i + 1 \in 1..Len(dict) /\ dict'[i] = dict[i + 1]
      BY <2>1, HeadOfDict
    <2> QED
      BY <2>1, <2>2 DEF Untouched
  <1>7. CASE Truncate
    <2> DEFINE f == dict[1].file
    <2>1. /\ pc = "hunks" /\ pc' = "write" /\ dict # <<>> /\ dict' = dict /\ start' = start
          /\ start[f] # Missing /\ lines' = lines
      BY <1>7 DEF Truncate, Loop
    <2>2. Head(dict) = dict[1] /\ f \in Files /\ 1 \in 1..Len(dict)
      BY <2>1, HeadOfDict
    <2>3. tree' = [tree EXCEPT ![f] = <<>>] /\ tree \in [Files -> Content]
      BY <1>7, <2>2 DEF Truncate, TypeOK
    <2>4. \A i \in 1..Len(dict) : dict[i].file \in Files
      BY FilesOfDict
    <2>5. \A i \in 1..Len(dict) : i # 1 => dict[i].file # f
      BY <2>2 DEF Distinct
    <2>6. <<>> # Missing
      <3>1. <<>> \in Seq(Text)
        OBVIOUS
      <3> QED
        BY <3>1, PatchAssumption
    <2> HIDE DEF f
    <2>7. tree'[f] # Missing /\ \A g \in Files : g # f => tree'[g] = tree[g]
      BY <2>2, <2>3, <2>6
    <2>8. \A i \in 1..Len(dict) : i = 1 \/ tree'[dict[i].file] = start[dict[i].file]
      BY <2>1, <2>4, <2>5, <2>7 DEF Untouched
    <2>9. \A g \in Files : tree'[g] = Missing <=> start[g] = Missing
      BY <2>1, <2>2, <2>7 DEF Untouched
    <2> QED
      BY <2>1, <2>8, <2>9 DEF Untouched
  <1>8. CASE Write
    <2> DEFINE f == dict[1].file
    <2>1. /\ pc = "write" /\ pc' = "open" /\ dict # <<>> /\ dict' = Tail(dict)
          /\ start' = start /\ start[f] # Missing /\ lines' = lines
      BY <1>8 DEF Write, Loop
    <2>2. Head(dict) = dict[1] /\ f \in Files /\ 1 \in 1..Len(dict)
      BY <2>1, HeadOfDict
    <2>3. tree' = [tree EXCEPT ![f] = patched] /\ tree \in [Files -> Content]
      BY <1>8, <2>2 DEF Write, TypeOK
    <2>4. \A i \in 1..Len(dict) : dict[i].file \in Files
      BY FilesOfDict
    <2>5. \A i \in 1..Len(dict) : i # 1 => dict[i].file # f
      BY <2>2 DEF Distinct
    <2>6. patched # Missing
      BY PatchAssumption DEF TypeOK
    <2> HIDE DEF f
    <2>7. tree'[f] # Missing /\ \A g \in Files : g # f => tree'[g] = tree[g]
      BY <2>2, <2>3, <2>6
    <2>8. \A i \in 1..Len(dict) : i = 1 \/ tree'[dict[i].file] = start[dict[i].file]
      BY <2>1, <2>4, <2>5, <2>7 DEF Untouched
    <2>9. \A g \in Files : tree'[g] = Missing <=> start[g] = Missing
      BY <2>1, <2>2, <2>7 DEF Untouched
    <2>10. \A i \in 1..Len(dict') : i + 1 \in 1..Len(dict) /\ i + 1 # 1
                                    /\ dict'[i] = dict[i + 1]
      BY <2>1, HeadOfDict
    <2>11. \A i \in 1..Len(dict') : tree'[dict'[i].file] = start[dict'[i].file]
      BY <2>8, <2>10
    <2> QED
      BY <2>1, <2>9, <2>11 DEF Untouched
  <1>9. CASE Finish
    <2>1. pc' = "ok" /\ pc = "open" /\ UNCHANGED <<tree, start, dict>>
      BY <1>9 DEF Finish
    <2> QED
      BY <2>1 DEF Untouched
  <1>10. CASE Again
    <2>1. pc' = "parse" /\ dict' = <<>> /\ tree' = tree /\ start' = tree
      BY <1>10 DEF Again
    <2> QED
      BY <2>1 DEF Untouched
  <1>11. CASE UNCHANGED vars
    BY <1>11 DEF vars, Untouched
  <1>12. CASE WriteFails
    <2> DEFINE f == Head(dict).file
    <2>1. /\ f \in Files /\ f = dict[1].file /\ 1 \in 1..Len(dict)
          /\ pc = "write" /\ pc' = "cut" /\ tree'[f] # Missing /\ start[f] # Missing
          /\ \A g \in Files : g # f => tree'[g] = tree[g]
          /\ dict' = dict /\ start' = start
      BY <1>12, WritesPart
    <2>2. \A i \in 1..Len(dict) : dict[i].file \in Files
      BY FilesOfDict
    <2>3. \A i \in 1..Len(dict) : i # 1 => dict[i].file # f
      BY <2>1 DEF Distinct
    <2> HIDE DEF f
    <2>4. \A i \in 1..Len(dict) : i = 1 \/ tree'[dict[i].file] = start[dict[i].file]
      BY <2>1, <2>2, <2>3 DEF Untouched
    <2>5. \A g \in Files : tree'[g] = Missing <=> start[g] = Missing
      BY <2>1 DEF Untouched
    <2> QED
      BY <2>1, <2>4, <2>5 DEF Untouched
  <1> QED
    BY <1>1, <1>2, <1>3, <1>4, <1>5, <1>6, <1>7, <1>8, <1>9, <1>10, <1>11, <1>12
       DEF Next, Step, Done

LEMMA LoopStep == TypeOK /\ Untouched /\ Loop /\ [Next]_vars => Loop'
  <1> SUFFICES ASSUME TypeOK, Untouched, Loop, [Next]_vars PROVE Loop'
    OBVIOUS
  <1> USE DEF parsing, applying
  <1>1. CASE pc' \notin {"hunks", "write"}
    BY <1>1 DEF Loop
  <1>2. CASE OpenFile
    <2>1. /\ dict # <<>> /\ dict' = dict /\ start' = start /\ pc = "open" /\ pc' = "hunks"
          /\ orig' = tree[Head(dict).file] /\ tree[Head(dict).file] # Missing
          /\ left' = Head(dict).hunks
      BY <1>2 DEF OpenFile
    <2>2. Head(dict) = dict[1] /\ 1 \in 1..Len(dict) /\ dict[1].hunks \in Seq(Hunk)
      BY <2>1, HeadOfDict
    <2>3. tree[dict[1].file] = start[dict[1].file]
      BY <2>1, <2>2 DEF Untouched
    <2>4. Len(left') \in Nat /\ left' = dict[1].hunks
      BY <2>1, <2>2
    <2> QED
      BY <2>1, <2>2, <2>3, <2>4 DEF Loop
  <1>3. CASE ApplyHunk
    <2> DEFINE hunks == dict[1].hunks
               n == Len(hunks) - Len(left)
    <2>1. /\ pc = "hunks" /\ pc' = "hunks" /\ left # <<>> /\ left' = Tail(left)
          /\ Matches(orig, Head(left)) /\ UNCHANGED <<dict, start, orig>>
      BY <1>3 DEF ApplyHunk
    <2>2. /\ dict # <<>> /\ orig = start[dict[1].file] /\ start[dict[1].file] # Missing
          /\ n >= 0
          /\ \A j \in 1..Len(left) : left[j] = hunks[n + j]
          /\ \A i \in 1..n : Matches(orig, hunks[i])
      BY <2>1 DEF Loop
    <2>3. /\ Len(left) \in Nat /\ Len(left) >= 1 /\ Head(left) = left[1]
          /\ Len(left') = Len(left) - 1
          /\ \A j \in 1..Len(left') : left'[j] = left[j + 1]
      BY <2>1, HeadTailProperties, EmptySeq DEF TypeOK
    <2>4. Len(hunks) \in Nat
      <3>1. hunks \in Seq(Hunk)
        BY <2>2, HeadOfDict
      <3> QED
        BY <3>1
    <2> HIDE DEF hunks
    <2>5. Len(hunks) - Len(left') = n + 1
      BY <2>3, <2>4
    <2>6. \A j \in 1..Len(left') : left'[j] = hunks[n + 1 + j]
      <3>1. SUFFICES ASSUME NEW j \in 1..Len(left') PROVE left'[j] = hunks[n + 1 + j]
        OBVIOUS
      <3>2. j + 1 \in 1..Len(left) /\ n + (j + 1) = n + 1 + j
        BY <2>3, <2>4
      <3>3. left[j + 1] = hunks[n + (j + 1)]
        BY <2>2, <3>2
      <3> QED
        BY <2>3, <3>2, <3>3
    <2>7. \A i \in 1..(n + 1) : Matches(orig, hunks[i])
      <3>1. SUFFICES ASSUME NEW i \in 1..(n + 1) PROVE Matches(orig, hunks[i])
        OBVIOUS
      <3>2. CASE i \in 1..n
        BY <2>2, <3>2
      <3>3. CASE i = n + 1
        <4>1. 1 \in 1..Len(left)
          BY <2>3
        <4>2. left[1] = hunks[n + 1]
          BY <2>2, <4>1
        <4> QED
          BY <2>1, <2>3, <3>3, <4>2
      <3>4. n \in Int
        BY <2>3, <2>4
      <3> QED
        BY <3>2, <3>3, <3>4
    <2>8. n + 1 >= 0
      BY <2>2, <2>3, <2>4
    <2> HIDE DEF n
    <2>9. hunks' = hunks
      BY <2>1 DEF hunks
    <2>10. /\ Len(hunks) - Len(left') >= 0
           /\ \A j \in 1..Len(left') : left'[j] = hunks[Len(hunks) - Len(left') + j]
           /\ \A i \in 1..(Len(hunks) - Len(left')) : Matches(orig', hunks[i])
      BY <2>1, <2>5, <2>6, <2>7, <2>8
    <2> QED
      BY <2>1, <2>2, <2>10 DEF Loop, hunks
  <1>4. CASE Truncate
    <2>1. /\ pc = "hunks" /\ pc' = "write" /\ left = <<>>
          /\ UNCHANGED <<dict, start, orig, left>>
      BY <1>4 DEF Truncate
    <2> QED
      BY <2>1 DEF Loop
  <1>5. CASE UNCHANGED vars
    BY <1>5 DEF vars, Loop
  <1>6. CASE \/ DiffLine \/ BadDiffLine \/ JunkLine \/ HunkLine \/ BadHunkLine
             \/ CodeLine \/ BadCodeLine
    BY <1>1, <1>6 DEF DiffLine, BadDiffLine, JunkLine, HunkLine, BadHunkLine, CodeLine,
       BadCodeLine, AtLine, Fail
  <1>7. CASE \/ Parsed \/ NothingParsed \/ OpenFails \/ TruncateFails \/ HunkFails
             \/ Write \/ WriteFails \/ Finish \/ Again
    BY <1>1, <1>7 DEF Parsed, NothingParsed, OpenFails, TruncateFails, HunkFails, Write,
       WriteFails, Finish, Again, Fail
  <1> QED
    BY <1>2, <1>3, <1>4, <1>5, <1>6, <1>7 DEF Next, Step, Done

-----------------------------------------------------------------------------
(* Theorems.                                                                *)

(* The inductive invariant.  The conjuncts need each other: a file is       *)
(* emptied only after its hunks have matched what it held at the beginning  *)
(* (Loop), that it still holds this is Untouched, and emptying one file     *)
(* leaves the others alone because no file has two entries (Distinct).      *)
THEOREM Inductive == Spec => []IInv
  <1>1. Init => IInv
    <2> SUFFICES ASSUME Init PROVE IInv
      OBVIOUS
    <2>1. pc = "parse" /\ dict = <<>> /\ tree = start
      BY DEF Init
    <2> QED
      BY <2>1, TypeInit DEF IInv, Distinct, Untouched, Loop
  <1>2. IInv /\ [Next]_vars => IInv'
    BY TypeStep, DistinctStep, UntouchedStep, LoopStep DEF IInv
  <1> QED
    BY <1>1, <1>2, PTL DEF Spec

(* The variables of PatchApply have their types, whatever the lines of the  *)
(* patch are (kbs.tcl:1392-1524).                                           *)
THEOREM TypeCorrect == Spec => []TypeOK
  <1>1. IInv => TypeOK
    BY DEF IInv
  <1> QED
    BY <1>1, Inductive, PTL

(* No file is emptied before every hunk of its entry has been found in what *)
(* the file held when the call began (kbs.tcl:1488-1517).                   *)
THEOREM WritesWhatMatched == Spec => []MatchedBeforeWritten
  <1>1. IInv => MatchedBeforeWritten
    <2> SUFFICES ASSUME IInv, pc = "write"
                 PROVE  LET f == Head(dict).file
                        IN  /\ start[f] # Missing
                            /\ \A i \in 1..Len(Head(dict).hunks) :
                                 Matches(start[f], Head(dict).hunks[i])
      BY DEF MatchedBeforeWritten
    <2>1. /\ dict # <<>> /\ orig = start[dict[1].file] /\ left = <<>>
          /\ start[dict[1].file] # Missing
          /\ \A i \in 1..(Len(dict[1].hunks) - Len(left)) : Matches(orig, dict[1].hunks[i])
      BY DEF IInv, Loop
    <2>2. Head(dict) = dict[1] /\ dict[1].hunks \in Seq(Hunk)
      BY <2>1, HeadOfDict DEF IInv
    <2>3. Len(dict[1].hunks) - Len(left) = Len(dict[1].hunks)
      BY <2>1, <2>2
    <2> QED
      BY <2>1, <2>2, <2>3
  <1> QED
    BY <1>1, Inductive, PTL

(* An error in any line of the patch is found before the first file is      *)
(* opened for writing (kbs.tcl:1398-1477).  One that comes from a file,     *)
(* which cannot be opened, may find other files patched (kbs.tcl:1519); it  *)
(* leaves alone this file and those that follow in patchdict.               *)
THEOREM ErrorsComeFirst == Spec => []ParsedBeforeTouched
  <1>1. IInv => ParsedBeforeTouched
    BY DEF IInv, Untouched, ParsedBeforeTouched
  <1> QED
    BY <1>1, Inductive, PTL

-----------------------------------------------------------------------------
(* What the lines read so far have made of the patch.                       *)

ReadSoFar == Len(patch.lines) - Len(lines)

\* lines is what is left of the patch.
LinesLeft ==
  /\ pc = "parse" => Len(lines) <= Len(patch.lines)
  /\ pc = "parse" =>
       \A k \in 1..Len(lines) : lines[k] = patch.lines[ReadSoFar + k]

\* After r lines fntopatch is the file they are about.
FileAt(ls, r, f) ==
  IF f = NoFile THEN \A k \in 1..r : ls[k].kind # "diff" ELSE About(ls, f, r)

\* The hunk whose header is line i, which is about file f.
HunkOf(p, f, i) == p.changes[f][Cardinality(HeadersOf(p.lines, f, i))]

\* The code of hunk h, which goes from line i to line j: a part of it, or all.
CodeAt(ls, i, j, h, r, in, old, new) ==
  /\ Len(old) = IF in THEN Count(ls, i, r, OldKinds) ELSE Len(h.old)
  /\ Len(new) = IF in THEN Count(ls, i, r, NewKinds) ELSE Len(h.new)
  /\ \A k \in 1..Len(old) : old[k] = h.old[k]
  /\ \A k \in 1..Len(new) : new[k] = h.new[k]
  /\ in => r < j /\ ~(Len(old) = Len(h.old) /\ Len(new) = Len(h.new))

\* oldstart and the other numbers are those of the last header, line i.
HunkAt(p, r, i, f, j, s, in, old, new) ==
  LET ls == p.lines
  IN  /\ i <= j
      /\ ls[i].kind = "@" /\ \A k \in (i + 1)..r : ls[k].kind # "@"
      /\ About(ls, f, i)
      /\ s = ls[i].span
      /\ Says(ls, i, j, HunkOf(p, f, i))
      /\ CodeAt(ls, i, j, HunkOf(p, f, i), r, in, old, new)

SpanAt(p, r, s, in, old, new) ==
  IF s = NoSpan THEN ~in /\ \A k \in 1..r : p.lines[k].kind # "@"
  ELSE \E i \in 1..r, f \in Files, j \in 1..Len(p.lines) :
         HunkAt(p, r, i, f, j, s, in, old, new)

\* How many hunks of file f have been read to their end.
Complete(p, f, r, in, g) ==
  Cardinality(HeadersOf(p.lines, f, r)) - (IF in /\ g = f THEN 1 ELSE 0)

\* m tells of each of the hunks which of the first c changes it is: one after the
\* other, some of them several times.
Maps(m, hunks, changes, c) ==
  /\ m \in [1..Len(hunks) -> 1..c]
  /\ Len(hunks) >= 1 /\ m[1] = 1 /\ m[Len(hunks)] = c
  /\ \A i \in 1..Len(hunks) : hunks[i] = changes[m[i]]
  /\ \A i \in 2..Len(hunks) : m[i] = m[i - 1] \/ m[i] = m[i - 1] + 1

Repeats(hunks, changes, c) == \E m \in [1..Len(hunks) -> 1..c] : Maps(m, hunks, changes, c)

\* The hunks of a file in a dictionary: the first c changes.
Listed(d, f, changes, c) ==
  IF c = 0 THEN \A e \in 1..Len(d) : d[e].file # f
  ELSE \E e \in 1..Len(d) : d[e].file = f /\ Repeats(d[e].hunks, changes, c)

DictAt(p, r, in, g, d) ==
  \A f \in Files : Listed(d, f, p.changes[f], Complete(p, f, r, in, g))

\* The patch is read up to line r.
ReadTo(p, r, f, s, in, old, new, d) ==
  FileAt(p.lines, r, f) /\ SpanAt(p, r, s, in, old, new) /\ DictAt(p, r, in, f, d)

Parsing ==
  pc = "parse" => ReadTo(patch, ReadSoFar, file, span, inhunk, oldcode, newcode, dict)

-----------------------------------------------------------------------------
(* The files of the patch.                                                  *)

\* What waits in patchdict is all that the patch changes in a file.
AllRead ==
  pc \in {"open", "hunks", "write"} =>
    \A e \in 1..Len(dict) :
      LET changes == patch.changes[dict[e].file]
      IN  Repeats(dict[e].hunks, changes, Len(changes))

\* A file that is changed waits, or has been seen to.
AllSeenTo ==
  /\ pc = "ok" => dict = <<>>
  /\ pc \in {"open", "hunks", "write", "ok"} =>
       \A f \in Files :
         \/ patch.changes[f] = <<>>
         \/ \E e \in 1..Len(dict) : dict[e].file = f
         \/ AllFit(start[f], patch.changes[f]) => tree[f] = AllReplaced(start[f], patch.changes[f])

First(hunks, c) == SubSeq(hunks, 1, c)

\* The hunks taken so far are the first c changes, and they have been made.
HunksTaken ==
  pc \in {"hunks", "write"} =>
    LET hunks == dict[1].hunks
        changes == patch.changes[dict[1].file]
        n == Len(hunks) - Len(left)
    IN  \E m \in [1..Len(hunks) -> 1..Len(changes)] :
          /\ Maps(m, hunks, changes, Len(changes))
          /\ LET c == IF n = 0 THEN 0 ELSE m[n]
             IN  /\ AllFit(orig, First(changes, c))
                 /\ patched = AllReplaced(orig, First(changes, c))

\* A patch of which no hunk can be read.
NoFileNamed ==
  \A i \in 1..Len(patch.lines) : patch.lines[i].kind = "diff" => ~patch.lines[i].headers

CodeAhead == \E k \in 1..Len(lines) : IsCode(lines[k]) /\ \A m \in 1..k : lines[m].kind # "@"

NothingRead ==
  /\ dict = <<>>
  /\ pc \in {"parse", "error"}
  /\ pc = "parse" => \/ file = NoFile /\ NoFileNamed
                     \/ span = NoSpan /\ CodeAhead

Meaning ==
  /\ LinesLeft
  /\ \/ Unreadable(patch) /\ NothingRead
     \/ FromDiff(patch) /\ Parsing /\ AllRead /\ AllSeenTo /\ HunksTaken
  /\ WholeOrUntouched

-----------------------------------------------------------------------------
(* One hunk.                                                                *)

\* The part of a sequence from a on, as far as it reaches.
LEMMA PartOf ==
  ASSUME NEW S, NEW s \in Seq(S), NEW a \in Nat, a >= 1, NEW b \in Int, b <= Len(s)
  PROVE  /\ SubSeq(s, a, b) \in Seq(S)
         /\ Len(SubSeq(s, a, b)) = IF a <= b THEN b - a + 1 ELSE 0
         /\ \A i \in 1..(b - a + 1) : SubSeq(s, a, b)[i] = s[a + i - 1]
  <1>1. \A i \in a..b : s[i] \in S
    BY LenProperties
  <1> QED
    BY <1>1, SubSeqProperties

LEMMA Begin ==
  ASSUME NEW S, NEW s \in Seq(S), NEW b \in Nat, b <= Len(s)
  PROVE  /\ SubSeq(s, 1, b) \in Seq(S)
         /\ Len(SubSeq(s, 1, b)) = b
         /\ \A i \in 1..b : SubSeq(s, 1, b)[i] = s[i]
  <1>1. /\ SubSeq(s, 1, b) \in Seq(S)
        /\ Len(SubSeq(s, 1, b)) = IF 1 <= b THEN b - 1 + 1 ELSE 0
        /\ \A i \in 1..(b - 1 + 1) : SubSeq(s, 1, b)[i] = s[1 + i - 1]
    BY PartOf
  <1>2. b - 1 + 1 = b /\ (~(1 <= b) => b = 0) /\ \A i \in 1..b : 1 + i - 1 = i
    OBVIOUS
  <1> QED
    BY <1>1, <1>2

\* Parts of a sequence that consists of two.
LEMMA BeginOfConcat ==
  ASSUME NEW S, NEW x \in Seq(S), NEW t \in Seq(S), NEW b \in Nat, b <= Len(x)
  PROVE  SubSeq(x \o t, 1, b) = SubSeq(x, 1, b)
  <1> DEFINE s == x \o t
             l == SubSeq(s, 1, b)
             r == SubSeq(x, 1, b)
  <1>1. Len(x) \in Nat /\ Len(t) \in Nat
    OBVIOUS
  <1>2. /\ s \in Seq(S) /\ Len(s) = Len(x) + Len(t)
        /\ \A i \in 1..(Len(x) + Len(t)) : s[i] = IF i <= Len(x) THEN x[i] ELSE t[i - Len(x)]
    BY ConcatProperties
  <1> HIDE DEF s
  <1>3. b <= Len(s)
    BY <1>1, <1>2
  <1>4. l \in Seq(S) /\ Len(l) = b /\ \A i \in 1..b : l[i] = s[i]
    BY ONLY <1>2, <1>3, b \in Nat, Begin
  <1>5. r \in Seq(S) /\ Len(r) = b /\ \A i \in 1..b : r[i] = x[i]
    BY Begin
  <1>6. \A i \in 1..b : i \in 1..(Len(x) + Len(t)) /\ i <= Len(x)
    BY <1>1
  <1> HIDE DEF l, r
  <1>7. \A i \in 1..b : l[i] = r[i]
    BY <1>2, <1>4, <1>5, <1>6
  <1>8. l = r
    BY ONLY <1>4, <1>5, <1>7, SeqEqual
  <1> QED
    BY <1>8 DEF l, r, s

LEMMA EndOfConcat ==
  ASSUME NEW S, NEW x \in Seq(S), NEW t \in Seq(S), NEW b \in Nat, b >= 1, b - 1 <= Len(x)
  PROVE  SubSeq(x \o t, b, Len(x \o t)) = SubSeq(x, b, Len(x)) \o t
  <1> DEFINE s == x \o t
             l == SubSeq(s, b, Len(s))
             r == SubSeq(x, b, Len(x))
             n == Len(x) - b + 1
  <1>1. Len(x) \in Nat /\ Len(t) \in Nat
    OBVIOUS
  <1>2. /\ s \in Seq(S) /\ Len(s) = Len(x) + Len(t)
        /\ \A i \in 1..(Len(x) + Len(t)) : s[i] = IF i <= Len(x) THEN x[i] ELSE t[i - Len(x)]
    BY ConcatProperties
  <1> HIDE DEF s
  <1>3. /\ l \in Seq(S) /\ Len(l) = n + Len(t)
        /\ \A i \in 1..(n + Len(t)) : l[i] = s[b + i - 1]
    <2>1. Len(s) \in Int /\ Len(s) <= Len(s) /\ s \in Seq(S)
      BY <1>1, <1>2
    <2>2. /\ l \in Seq(S) /\ Len(l) = IF b <= Len(s) THEN Len(s) - b + 1 ELSE 0
          /\ \A i \in 1..(Len(s) - b + 1) : l[i] = s[b + i - 1]
      BY ONLY <2>1, b \in Nat, b >= 1, PartOf
    <2>3. Len(s) - b + 1 = n + Len(t) /\ (~(b <= Len(s)) => n + Len(t) = 0)
      BY <1>1, <1>2
    <2> QED
      BY <2>2, <2>3
  <1>4. /\ r \in Seq(S) /\ Len(r) = n
        /\ \A i \in 1..n : r[i] = x[b + i - 1]
    <2>1. Len(x) \in Int /\ Len(x) <= Len(x)
      BY <1>1
    <2>2. /\ r \in Seq(S) /\ Len(r) = IF b <= Len(x) THEN Len(x) - b + 1 ELSE 0
          /\ \A i \in 1..(Len(x) - b + 1) : r[i] = x[b + i - 1]
      BY ONLY <2>1, x \in Seq(S), b \in Nat, b >= 1, PartOf
    <2>3. ~(b <= Len(x)) => n = 0
      BY <1>1
    <2> QED
      BY <2>2, <2>3
  <1> HIDE DEF l, r
  <1>5. /\ r \o t \in Seq(S) /\ Len(r \o t) = Len(r) + Len(t)
        /\ \A i \in 1..(Len(r) + Len(t)) : (r \o t)[i] = IF i <= Len(r) THEN r[i] ELSE t[i - Len(r)]
    BY ONLY <1>4, t \in Seq(S), ConcatProperties
  <1>6. ASSUME NEW i \in 1..(n + Len(t)) PROVE l[i] = (r \o t)[i]
    <2>1. /\ b + i - 1 \in 1..(Len(x) + Len(t)) /\ i \in 1..(Len(r) + Len(t))
          /\ i <= n <=> b + i - 1 <= Len(x)
          /\ i <= n => i \in 1..n
          /\ b + i - 1 - Len(x) = i - n
      BY <1>1, <1>4
    <2>2. CASE i <= n
      BY <1>2, <1>3, <1>4, <1>5, <2>1, <2>2
    <2>3. CASE ~(i <= n)
      <3> DEFINE k == b + i - 1
      <3>0. l[i] = s[k]
        BY <1>3
      <3>1. k \in 1..(Len(x) + Len(t)) /\ ~(k <= Len(x)) /\ k - Len(x) = i - n
        BY <2>1, <2>3
      <3> HIDE DEF k
      <3>4. s[k] = t[i - n]
        BY <1>2, <3>1
      <3>2. (r \o t)[i] = t[i - n]
        BY <1>4, <1>5, <2>1, <2>3
      <3> QED
        BY <3>0, <3>4, <3>2
    <2> QED
      BY <2>2, <2>3
  <1>7. l = r \o t
    <2>1. Len(l) = Len(r \o t)
      BY <1>3, <1>4, <1>5
    <2>2. \A i \in 1..Len(l) : l[i] = (r \o t)[i]
      BY <1>3, <1>6
    <2> QED
      BY ONLY <1>3, <1>5, <2>1, <2>2, SeqEqual
  <1> QED
    BY <1>7 DEF l, r, s

LEMMA TwoParts ==
  ASSUME NEW S, NEW s \in Seq(S), NEW b \in Nat, b <= Len(s)
  PROVE  s = SubSeq(s, 1, b) \o SubSeq(s, b + 1, Len(s))
  <1>1. /\ Len(s) \in Nat /\ 1 \in 1..(Len(s) + 1) /\ b \in (1 - 1)..Len(s)
        /\ Len(s) \in b..Len(s)
    OBVIOUS
  <1>2. SubSeq(s, 1, b) \o SubSeq(s, b + 1, Len(s)) = SubSeq(s, 1, Len(s))
    BY <1>1, ConcatAdjacentSubSeq
  <1>3. SubSeq(s, 1, Len(s)) = s
    BY SubSeqFull
  <1> QED
    BY <1>2, <1>3

\* The numbers of a hunk, also of one without lines.
LEMMA HunkNumbers ==
  ASSUME NEW h \in Hunk
  PROVE  /\ h.os \in Nat /\ h.ns \in Nat
         /\ h.old \in Seq(Text) /\ Len(h.old) \in Nat
         /\ h.new \in Seq(Text) /\ Len(h.new) \in Nat
         /\ Place(h) \in Nat /\ Behind(h) \in Nat /\ Behind(h) = Place(h) + Len(h.old)
         /\ NewPlace(h) \in Nat /\ NewBehind(h) \in Nat /\ NewBehind(h) >= 1
         /\ NewBehind(h) = NewPlace(h) + Len(h.new)
         /\ h.old # <<>> => Place(h) = h.os /\ Len(h.old) >= 1
         /\ h.old = <<>> => Place(h) = h.os + 1 /\ Len(h.old) = 0
         /\ h.new # <<>> => NewPlace(h) = h.ns /\ Len(h.new) >= 1
         /\ h.new = <<>> => NewPlace(h) = h.ns + 1 /\ Len(h.new) = 0
  <1>1. h.os \in Nat /\ h.ns \in Nat /\ h.old \in Seq(Text) /\ h.new \in Seq(Text)
    BY DEF Hunk
  <1>2. /\ Len(h.old) \in Nat /\ (h.old # <<>> => Len(h.old) >= 1)
        /\ Len(h.new) \in Nat /\ (h.new # <<>> => Len(h.new) >= 1)
        /\ (h.old = <<>> => Len(h.old) = 0) /\ (h.new = <<>> => Len(h.new) = 0)
    BY <1>1, LenProperties, EmptySeq
  <1> QED
    BY SMTT(30), <1>1, <1>2 DEF Place, Behind, NewPlace, NewBehind

\* A file with a hunk replaced has three parts.
LEMMA ReplacedIs ==
  ASSUME NEW s \in Seq(Text), NEW h \in Hunk, Place(h) >= 1, Behind(h) - 1 <= Len(s)
  PROVE  /\ SubSeq(s, 1, Place(h) - 1) \in Seq(Text)
         /\ Len(SubSeq(s, 1, Place(h) - 1)) = Place(h) - 1
         /\ SubSeq(s, Behind(h), Len(s)) \in Seq(Text)
         /\ Replaced(s, h) = SubSeq(s, 1, Place(h) - 1) \o (h.new \o SubSeq(s, Behind(h), Len(s)))
         /\ Replaced(s, h) \in Seq(Text)
         /\ Len(Replaced(s, h)) = Len(s) - Len(h.old) + Len(h.new)
  <1> DEFINE a == SubSeq(s, 1, Place(h) - 1)
             e == SubSeq(s, Behind(h), Len(s))
             n == h.new
             o == h.old
  <1>1. /\ Place(h) \in Nat /\ Behind(h) = Place(h) + Len(o) /\ Behind(h) \in Nat
        /\ Len(n) \in Nat /\ Len(o) \in Nat /\ Len(s) \in Nat
    BY HunkNumbers, LenProperties
  <1>2. n \in Seq(Text)
    BY HunkNumbers
  <1>3. a \in Seq(Text) /\ Len(a) = Place(h) - 1
    <2>1. Place(h) - 1 \in Nat /\ Place(h) - 1 <= Len(s)
      BY <1>1
    <2> QED
      BY ONLY <2>1, s \in Seq(Text), Begin
  <1>4. e \in Seq(Text) /\ Len(e) = Len(s) - Behind(h) + 1
    <2>1. Behind(h) \in Nat /\ Behind(h) >= 1 /\ Len(s) \in Int /\ Len(s) <= Len(s)
      BY <1>1
    <2>2. e \in Seq(Text) /\ Len(e) = IF Behind(h) <= Len(s) THEN Len(s) - Behind(h) + 1 ELSE 0
      BY ONLY <2>1, s \in Seq(Text), PartOf
    <2> QED
      BY <1>1, <2>2
  <1>5. Replaced(s, h) = (a \o n) \o e
    BY DEF Replaced, Behind
  <1> HIDE DEF a, e, n, o
  <1>6. (a \o n) \o e = a \o (n \o e)
    BY ONLY SMTT(30), <1>2, <1>3, <1>4, ConcatAssociative
  <1>7. n \o e \in Seq(Text) /\ Len(n \o e) = Len(n) + Len(e)
    BY ONLY <1>2, <1>4, ConcatProperties
  <1>8. a \o (n \o e) \in Seq(Text) /\ Len(a \o (n \o e)) = Len(a) + Len(n \o e)
    BY ONLY <1>3, <1>7, ConcatProperties
  <1>9. Len(Replaced(s, h)) = Len(s) - Len(o) + Len(n)
    <2>1. Replaced(s, h) = a \o (n \o e)
      BY ONLY <1>5, <1>6
    <2>2. Len(Replaced(s, h)) = Len(a) + (Len(n) + Len(e))
      BY ONLY <1>7, <1>8, <2>1
    <2>3. /\ Len(a) = Place(h) - 1 /\ Len(e) = Len(s) - Behind(h) + 1
          /\ Behind(h) = Place(h) + Len(o)
      BY <1>1, <1>3, <1>4
    <2> QED
      BY ONLY SMTT(30), <1>1, <2>2, <2>3
  <1> QED
    BY <1>3, <1>4, <1>5, <1>6, <1>8, <1>9 DEF a, e, n, o

\* A hunk leaves what is behind it alone.
LEMMA ReplacedInFront ==
  ASSUME NEW x \in Seq(Text), NEW t \in Seq(Text), NEW h \in Hunk,
         Place(h) >= 1, Behind(h) - 1 <= Len(x)
  PROVE  Replaced(x \o t, h) = Replaced(x, h) \o t
  <1> DEFINE a == SubSeq(x, 1, Place(h) - 1)
             e == SubSeq(x, Behind(h), Len(x))
             s == x \o t
             n == h.new
  <1>1. /\ Place(h) \in Nat /\ Behind(h) = Place(h) + Len(h.old) /\ Behind(h) \in Nat
        /\ Len(h.old) \in Nat /\ Len(x) \in Nat /\ Len(t) \in Nat
    BY HunkNumbers, LenProperties
  <1>2. n \in Seq(Text)
    BY HunkNumbers
  <1>3. s \in Seq(Text) /\ Len(s) = Len(x) + Len(t)
    BY ConcatProperties
  <1>4. SubSeq(s, 1, Place(h) - 1) = a
    <2>1. Place(h) - 1 \in Nat /\ Place(h) - 1 <= Len(x)
      BY <1>1
    <2> QED
      BY ONLY <2>1, x \in Seq(Text), t \in Seq(Text), BeginOfConcat
  <1>5. SubSeq(s, Behind(h), Len(s)) = e \o t
    <2>1. Behind(h) \in Nat /\ Behind(h) >= 1 /\ Behind(h) - 1 <= Len(x)
      BY <1>1
    <2> QED
      BY ONLY <2>1, x \in Seq(Text), t \in Seq(Text), EndOfConcat
  <1>6. /\ a \in Seq(Text) /\ e \in Seq(Text)
        /\ Replaced(x, h) = a \o (n \o e)
    BY ReplacedIs
  <1> HIDE DEF s
  <1>7. Replaced(s, h) = SubSeq(s, 1, Place(h) - 1) \o (n \o SubSeq(s, Behind(h), Len(s)))
    <2>1. Behind(h) - 1 <= Len(s)
      BY <1>1, <1>3
    <2> QED
      BY <1>3, <2>1, ReplacedIs
  <1> HIDE DEF a, e, n
  <1>8. (n \o e) \o t = n \o (e \o t)
    BY ONLY SMTT(30), <1>2, <1>6, t \in Seq(Text), ConcatAssociative
  <1>9. n \o e \in Seq(Text)
    BY ONLY <1>2, <1>6, ConcatProperties
  <1>10. (a \o (n \o e)) \o t = a \o ((n \o e) \o t)
    <2> DEFINE w == n \o e
    <2>1. w \in Seq(Text)
      BY <1>9
    <2> HIDE DEF w
    <2>2. (a \o w) \o t = a \o (w \o t)
      BY ONLY SMTT(30), <1>6, <2>1, t \in Seq(Text), ConcatAssociative
    <2> QED
      BY <2>2 DEF w
  <1> QED
    BY ONLY <1>4, <1>5, <1>6, <1>7, <1>8, <1>10 DEF s, n

-----------------------------------------------------------------------------
(* All hunks: `AllReplaced` goes from the last one to the first, and comes  *)
(* to what the code makes from the first one to the last.                   *)

\* f[i] is s with the last i hunks replaced.
Stage(f, s, hunks, k) ==
  f = [i \in 0..k |-> IF i = 0 THEN s
                      ELSE Replaced(f[i - 1], hunks[Len(hunks) - i + 1])]

LEMMA StagesExist ==
  ASSUME NEW s, NEW hunks, Len(hunks) \in Nat
  PROVE  \A k \in Nat : \E f : Stage(f, s, hunks, k)
  <1> DEFINE S == {k \in Nat : \E f : Stage(f, s, hunks, k)}
             n == Len(hunks)
  <1>1. 0 \in S
    <2>1. Stage([i \in 0..0 |-> s], s, hunks, 0)
      BY DEF Stage
    <2> QED
      BY <2>1
  <1>2. ASSUME NEW k \in Nat, k \in S PROVE k + 1 \in S
    <2>1. PICK f : Stage(f, s, hunks, k)
      BY <1>2
    <2> DEFINE h(i) == hunks[n - i + 1]
               g == [i \in 0..(k + 1) |-> IF i = k + 1 THEN Replaced(f[k], h(k + 1)) ELSE f[i]]
    <2>2. \A i \in 0..k : f[i] = IF i = 0 THEN s ELSE Replaced(f[i - 1], h(i))
      BY <2>1 DEF Stage
    <2>3. \A i \in 0..k : g[i] = f[i]
      OBVIOUS
    <2>4. g[k + 1] = Replaced(g[k], h(k + 1))
      OBVIOUS
    <2> HIDE DEF h
    <2>5. \A i \in 0..(k + 1) : g[i] = IF i = 0 THEN s ELSE Replaced(g[i - 1], h(i))
      <3>1. ASSUME NEW i \in 0..(k + 1)
            PROVE  g[i] = IF i = 0 THEN s ELSE Replaced(g[i - 1], h(i))
        <4>1. CASE i = k + 1
          BY <2>4, <4>1
        <4>2. CASE i = 0
          BY <2>2, <2>3, <4>2
        <4>3. CASE i # 0 /\ i # k + 1
          <5>1. i \in 0..k /\ i - 1 \in 0..k
            BY <4>3
          <5> HIDE DEF g
          <5> QED
            BY <2>2, <2>3, <4>3, <5>1
        <4> QED
          BY <4>1, <4>2, <4>3
      <3> QED
        BY <3>1
    <2>6. g = [i \in 0..(k + 1) |-> g[i]]
      OBVIOUS
    <2> HIDE DEF g
    <2>7. g = [i \in 0..(k + 1) |-> IF i = 0 THEN s ELSE Replaced(g[i - 1], h(i))]
      BY <2>5, <2>6
    <2>8. Stage(g, s, hunks, k + 1)
      BY <2>7 DEF Stage, h
    <2> QED
      BY <2>8
  <1> HIDE DEF S
  <1>3. \A k \in Nat : k \in S
    BY ONLY <1>1, <1>2, SetInduction
  <1> QED
    BY <1>3 DEF S

\* There is one outcome.
LEMMA StagesUnique ==
  ASSUME NEW s, NEW t, NEW hunks, NEW more, NEW n \in Nat, NEW m \in Nat, NEW f, NEW g,
         Len(hunks) = n, Len(more) = m, n <= m,
         Stage(f, s, hunks, n), Stage(g, t, more, m), g[m - n] = s,
         \A i \in 1..n : more[i] = hunks[i]
  PROVE  f[n] = g[m]
  <1> DEFINE S == {k \in Nat : k <= n => f[k] = g[m - n + k]}
  <1>1. /\ \A i \in 0..n : f[i] = IF i = 0 THEN s ELSE Replaced(f[i - 1], hunks[n - i + 1])
        /\ \A i \in 0..m : g[i] = IF i = 0 THEN t ELSE Replaced(g[i - 1], more[m - i + 1])
    BY DEF Stage
  <1>2. 0 \in S
    <2>1. f[0] = s /\ m - n + 0 = m - n
      BY <1>1
    <2> QED
      BY <2>1
  <1>3. ASSUME NEW k \in Nat, k \in S PROVE k + 1 \in S
    <2>1. SUFFICES ASSUME k + 1 <= n PROVE f[k + 1] = g[m - n + (k + 1)]
      OBVIOUS
    <2>2. f[k] = g[m - n + k]
      BY <1>3, <2>1
    <2> DEFINE i == m - n + (k + 1)
    <2>3. /\ k + 1 \in 0..n /\ k + 1 # 0 /\ k + 1 - 1 = k
          /\ i \in 0..m /\ i # 0 /\ i - 1 = m - n + k
          /\ m - i + 1 = n - (k + 1) + 1 /\ n - (k + 1) + 1 \in 1..n
      BY <2>1
    <2> HIDE DEF i
    <2>4. f[k + 1] = Replaced(f[k], hunks[n - (k + 1) + 1])
      BY <1>1, <2>3
    <2>5. g[i] = Replaced(g[m - n + k], more[n - (k + 1) + 1])
      BY <1>1, <2>3
    <2>6. f[k + 1] = g[i]
      BY <2>2, <2>3, <2>4, <2>5
    <2> QED
      BY <2>6 DEF i
  <1> HIDE DEF S
  <1>4. \A k \in Nat : k \in S
    BY ONLY <1>2, <1>3, SetInduction
  <1>5. n \in S /\ m - n + n = m
    BY <1>4
  <1> QED
    BY <1>5 DEF S

LEMMA AllReplacedStage ==
  ASSUME NEW s, NEW hunks, Len(hunks) \in Nat
  PROVE  \E f : Stage(f, s, hunks, Len(hunks)) /\ AllReplaced(s, hunks) = f[Len(hunks)]
  <1> DEFINE P(f) == f = [i \in 0..Len(hunks) |->
                            IF i = 0 THEN s ELSE Replaced(f[i - 1], hunks[Len(hunks) - i + 1])]
  <1>1. \E f : P(f)
    <2>1. \E f : Stage(f, s, hunks, Len(hunks))
      BY StagesExist
    <2> QED
      BY <2>1 DEF Stage
  <1>2. P(CHOOSE f : P(f))
    BY <1>1
  <1>3. AllReplaced(s, hunks) = (CHOOSE f : P(f))[Len(hunks)]
    BY Zenon DEF AllReplaced
  <1> QED
    BY <1>2, <1>3 DEF Stage

LEMMA NoneReplaced ==
  ASSUME NEW s
  PROVE  AllReplaced(s, <<>>) = s
  <1>1. Len(<<>>) = 0
    OBVIOUS
  <1>2. PICK f : Stage(f, s, <<>>, 0) /\ AllReplaced(s, <<>>) = f[0]
    BY <1>1, AllReplacedStage
  <1>3. f[0] = s
    BY <1>2 DEF Stage
  <1> QED
    BY <1>2, <1>3

LEMMA FirstIs ==
  ASSUME NEW hunks \in Seq(Hunk), NEW c \in 0..Len(hunks)
  PROVE  /\ First(hunks, c) \in Seq(Hunk)
         /\ Len(First(hunks, c)) = c
         /\ \A i \in 1..c : First(hunks, c)[i] = hunks[i]
  <1>1. c \in Nat /\ c <= Len(hunks)
    OBVIOUS
  <1> QED
    BY <1>1, Begin DEF First

\* The last one is replaced first.
LEMMA LastReplaced ==
  ASSUME NEW hunks \in Seq(Hunk), NEW c \in 1..Len(hunks), NEW s
  PROVE  AllReplaced(s, First(hunks, c)) =
           AllReplaced(Replaced(s, hunks[c]), First(hunks, c - 1))
  <1> DEFINE more == First(hunks, c)
             less == First(hunks, c - 1)
             r == Replaced(s, hunks[c])
  <1>1. c \in Nat /\ c - 1 \in Nat /\ c - 1 <= c /\ c \in 0..Len(hunks) /\ c - 1 \in 0..Len(hunks)
        /\ c \in 1..c /\ c - (c - 1) = 1 /\ c - 1 + 1 = c
    OBVIOUS
  <1>2. Len(more) = c /\ \A i \in 1..c : more[i] = hunks[i]
    BY <1>1, FirstIs
  <1>3. Len(less) = c - 1 /\ \A i \in 1..(c - 1) : less[i] = hunks[i]
    BY <1>1, FirstIs
  <1> HIDE DEF more, less
  <1>4. PICK g : Stage(g, s, more, c) /\ AllReplaced(s, more) = g[c]
    BY <1>1, <1>2, AllReplacedStage
  <1>5. PICK f : Stage(f, r, less, c - 1) /\ AllReplaced(r, less) = f[c - 1]
    BY <1>1, <1>3, AllReplacedStage
  <1>6. g[1] = r
    <2>1. 0 \in 0..c /\ 1 \in 0..c /\ 1 - 1 = 0 /\ c - 1 + 1 = c
      BY <1>1
    <2>2. g[0] = s
      BY <1>4, <2>1 DEF Stage
    <2>3. g[1] = Replaced(g[0], more[c])
      BY <1>2, <1>4, <2>1 DEF Stage
    <2> QED
      BY <1>1, <1>2, <2>2, <2>3
  <1>7. \A i \in 1..(c - 1) : more[i] = less[i]
    BY <1>1, <1>2, <1>3
  <1> HIDE DEF r
  <1>8. g[c - (c - 1)] = r
    BY <1>1, <1>6
  <1>9. f[c - 1] = g[c]
    BY ONLY <1>1, <1>2, <1>3, <1>4, <1>5, <1>7, <1>8, StagesUnique
  <1> QED
    BY <1>4, <1>5, <1>9 DEF more, less, r

\* The ends of the first c hunks, in the old file and in the new one.
End(hunks, c) == IF c = 0 THEN 0 ELSE Behind(hunks[c]) - 1
NewEnd(hunks, c) == IF c = 0 THEN 0 ELSE NewBehind(hunks[c]) - 1

LEMMA EndsAre ==
  ASSUME NEW hunks \in Seq(Hunk), InOrder(hunks), NEW c \in 1..Len(hunks)
  PROVE  LET h == hunks[c]
         IN  /\ h \in Hunk
             /\ Place(h) >= 1 /\ NewPlace(h) >= 1
             /\ End(hunks, c - 1) \in Nat /\ NewEnd(hunks, c - 1) \in Nat
             /\ End(hunks, c - 1) <= Place(h) - 1
             /\ Place(h) - 1 - End(hunks, c - 1) = NewPlace(h) - 1 - NewEnd(hunks, c - 1)
             /\ End(hunks, c) = Behind(h) - 1 /\ End(hunks, c) \in Nat
             /\ NewEnd(hunks, c) = NewBehind(h) - 1 /\ NewEnd(hunks, c) \in Nat
             /\ h.old = <<>> => h.os = 0
             /\ h.new = <<>> => h.ns = 0
  <1> DEFINE h == hunks[c]
             b == hunks[c - 1]
             from == IF c = 1 THEN 1 ELSE Behind(b)
             newFrom == IF c = 1 THEN 1 ELSE NewBehind(b)
  <1>1. c \in Nat /\ c # 0 /\ c - 1 \in Nat /\ (c - 1 = 0 <=> c = 1) /\ h \in Hunk
    BY ElementOfSeq
  <1>2. /\ from <= Place(h)
        /\ Place(h) - from = NewPlace(h) - newFrom
        /\ h.old = <<>> => h.os = 0
        /\ h.new = <<>> => h.ns = 0
    BY Zenon DEF InOrder
  <1>3. /\ Place(h) \in Nat /\ Behind(h) \in Nat /\ Behind(h) >= Place(h)
        /\ NewPlace(h) \in Nat /\ NewBehind(h) \in Nat /\ NewBehind(h) >= NewPlace(h)
    <2>1. /\ Place(h) \in Nat /\ Behind(h) = Place(h) + Len(h.old) /\ Behind(h) \in Nat
          /\ NewPlace(h) \in Nat /\ NewBehind(h) = NewPlace(h) + Len(h.new) /\ NewBehind(h) \in Nat
          /\ Len(h.old) \in Nat /\ Len(h.new) \in Nat
      BY <1>1, HunkNumbers
    <2> DEFINE lo == Len(h.old)
               ln == Len(h.new)
    <2>2. lo \in Nat /\ ln \in Nat /\ Behind(h) = Place(h) + lo /\ NewBehind(h) = NewPlace(h) + ln
      BY <2>1
    <2> HIDE DEF lo, ln
    <2> QED
      BY <2>1, <2>2
  <1>4. /\ End(hunks, c) = Behind(h) - 1 /\ NewEnd(hunks, c) = NewBehind(h) - 1
        /\ End(hunks, c - 1) = from - 1 /\ NewEnd(hunks, c - 1) = newFrom - 1
    BY <1>1 DEF End, NewEnd
  <1>5. from \in Nat /\ from >= 1 /\ newFrom \in Nat /\ newFrom >= 1
    <2>1. CASE c = 1
      BY <2>1
    <2>2. CASE c # 1
      <3>1. c - 1 \in 1..Len(hunks) /\ b \in Hunk
        <4>1. c - 1 \in 1..Len(hunks)
          BY <2>2
        <4> QED
          BY <4>1, ElementOfSeq
      <3>2. /\ Behind(b) \in Nat /\ NewBehind(b) \in Nat /\ NewBehind(b) >= 1
        BY <3>1, HunkNumbers
      <3>3. Behind(b) >= 1
        <4> DEFINE lo == Len(b.old)
        <4>1. /\ Place(b) \in Nat /\ lo \in Nat /\ Behind(b) = Place(b) + lo
              /\ b.old # <<>> => lo >= 1
              /\ b.old = <<>> => Place(b) = b.os + 1 /\ b.os \in Nat
          BY <3>1, HunkNumbers
        <4> HIDE DEF lo, b
        <4> QED
          BY <4>1
      <3> QED
        BY <2>2, <3>2, <3>3
    <2> QED
      BY <2>1, <2>2
  <1> HIDE DEF h, from, newFrom
  <1>6. Place(h) >= 1 /\ NewPlace(h) >= 1
    BY <1>2, <1>3, <1>5
  <1>7. /\ from - 1 \in Nat /\ newFrom - 1 \in Nat /\ from - 1 <= Place(h) - 1
        /\ Place(h) - 1 - (from - 1) = NewPlace(h) - 1 - (newFrom - 1)
        /\ Behind(h) - 1 \in Nat /\ NewBehind(h) - 1 \in Nat
    BY <1>2, <1>3, <1>5, <1>6
  <1> QED
    BY ONLY <1>1, <1>2, <1>4, <1>6, <1>7 DEF h

\* The first hunks leave what is behind them alone.
LEMMA FrontReplaced ==
  ASSUME NEW hunks \in Seq(Hunk), InOrder(hunks), NEW c \in 0..Len(hunks),
         NEW x \in Seq(Text), NEW t \in Seq(Text), End(hunks, c) <= Len(x)
  PROVE  /\ AllReplaced(x, First(hunks, c)) \in Seq(Text)
         /\ Len(AllReplaced(x, First(hunks, c))) = Len(x) + NewEnd(hunks, c) - End(hunks, c)
         /\ AllReplaced(x \o t, First(hunks, c)) = AllReplaced(x, First(hunks, c)) \o t
  <1> DEFINE A(y, k) == AllReplaced(y, First(hunks, k))
             Holds(k, y, u) ==
               End(hunks, k) <= Len(y) =>
                 /\ A(y, k) \in Seq(Text)
                 /\ Len(A(y, k)) = Len(y) + NewEnd(hunks, k) - End(hunks, k)
                 /\ A(y \o u, k) = A(y, k) \o u
             S == {k \in Nat : k <= Len(hunks) => \A y, u \in Seq(Text) : Holds(k, y, u)}
  <1>1. 0 \in S
    <2>1. First(hunks, 0) = <<>>
      BY SubSeqEmpty DEF First
    <2>2. End(hunks, 0) = 0 /\ NewEnd(hunks, 0) = 0
      BY DEF End, NewEnd
    <2>3. \A y \in Seq(Text) : A(y, 0) = y /\ Len(y) \in Nat
      BY <2>1, NoneReplaced
    <2>4. \A y, u \in Seq(Text) : A(y \o u, 0) = y \o u
      BY <2>1, NoneReplaced
    <2>5. ASSUME NEW y \in Seq(Text), NEW u \in Seq(Text) PROVE Holds(0, y, u)
      <3>1. A(y, 0) = y /\ A(y \o u, 0) = y \o u /\ Len(y) \in Nat
        BY <2>3, <2>4
      <3> HIDE DEF A
      <3>2. Len(y) + NewEnd(hunks, 0) - End(hunks, 0) = Len(y)
        BY <2>2, <3>1
      <3> QED
        BY <3>1, <3>2
    <2> HIDE DEF Holds
    <2> QED
      BY <2>5
  <1>2. ASSUME NEW k \in Nat, k \in S PROVE k + 1 \in S
    <2> DEFINE d == k + 1
               h == hunks[d]
    <2>1. SUFFICES ASSUME d <= Len(hunks), NEW y \in Seq(Text), NEW u \in Seq(Text),
                          End(hunks, d) <= Len(y)
                   PROVE  /\ A(y, d) \in Seq(Text)
                          /\ Len(A(y, d)) = Len(y) + NewEnd(hunks, d) - End(hunks, d)
                          /\ A(y \o u, d) = A(y, d) \o u
      <3>1. k + 1 \in Nat
        OBVIOUS
      <3> HIDE DEF A
      <3> QED
        BY <3>1
    <2>2. d \in 1..Len(hunks) /\ d - 1 = k /\ k <= Len(hunks)
      BY <2>1
    <2>3. /\ h \in Hunk /\ Place(h) >= 1
          /\ End(hunks, k) \in Nat /\ NewEnd(hunks, k) \in Nat
          /\ End(hunks, k) <= Place(h) - 1
          /\ Place(h) - 1 - End(hunks, k) = NewPlace(h) - 1 - NewEnd(hunks, k)
          /\ End(hunks, d) = Behind(h) - 1
          /\ NewEnd(hunks, d) = NewBehind(h) - 1
      BY <2>2, EndsAre
    <2> HIDE DEF h
    <2> DEFINE z == Replaced(y, h)
               lo == Len(h.old)
               ln == Len(h.new)
    <2>4. /\ z \in Seq(Text) /\ Len(z) = Len(y) - lo + ln
      BY <2>1, <2>3, ReplacedIs
    <2>5. Replaced(y \o u, h) = z \o u
      BY <2>1, <2>3, ReplacedInFront
    <2>6. /\ Place(h) \in Nat /\ Behind(h) = Place(h) + lo /\ lo \in Nat /\ ln \in Nat
          /\ NewPlace(h) \in Nat /\ NewBehind(h) = NewPlace(h) + ln
      BY <2>3, HunkNumbers
    <2> HIDE DEF z, lo, ln
    <2>7. A(y, d) = A(z, k) /\ A(y \o u, d) = A(z \o u, k)
      <3>1. \A s : A(s, d) = A(Replaced(s, h), d - 1)
        BY <2>2, LastReplaced DEF h
      <3> HIDE DEF A
      <3> QED
        BY <2>2, <2>5, <3>1 DEF z
    <2>8. Len(y) \in Nat /\ End(hunks, k) <= Len(z)
      <3>1. Len(y) \in Nat
        OBVIOUS
      <3>2. /\ End(hunks, d) <= Len(y)
            /\ Behind(h) - 1 = End(hunks, d) /\ Behind(h) = Place(h) + lo
            /\ End(hunks, k) <= Place(h) - 1 /\ Len(z) = Len(y) - lo + ln
            /\ Place(h) \in Nat /\ lo \in Nat /\ ln \in Nat /\ End(hunks, k) \in Nat
        BY <2>1, <2>3, <2>4, <2>6
      <3> HIDE DEF d
      <3> QED
        BY ONLY <3>1, <3>2
    <2>9. Holds(k, z, u)
      <3> HIDE DEF Holds
      <3> QED
        BY <1>2, <2>2, <2>4
    <2>10. /\ A(z, k) \in Seq(Text)
           /\ Len(A(z, k)) = Len(z) + NewEnd(hunks, k) - End(hunks, k)
           /\ A(z \o u, k) = A(z, k) \o u
      BY <2>8, <2>9
    <2> HIDE DEF A
    <2>11. Len(z) + NewEnd(hunks, k) - End(hunks, k) = Len(y) + NewEnd(hunks, d) - End(hunks, d)
      <3> DEFINE p == Place(h)
                 q == NewPlace(h)
                 e == End(hunks, k)
                 f == NewEnd(hunks, k)
                 ly == Len(y)
      <3>1. /\ p \in Nat /\ lo \in Nat /\ ln \in Nat /\ q \in Nat /\ e \in Nat /\ f \in Nat
            /\ ly \in Nat
        BY <2>3, <2>6, <2>8
      <3>2. End(hunks, d) = Behind(h) - 1 /\ NewEnd(hunks, d) = NewBehind(h) - 1
        BY <2>3
      <3>7. Behind(h) = p + lo /\ NewBehind(h) = q + ln
        BY <2>6
      <3>3. p - 1 - e = q - 1 - f
        BY <2>3
      <3>4. Len(z) = ly - lo + ln
        BY <2>4
      <3> HIDE DEF d, ly, p, q, e, f
      <3>5. (ly - lo + ln) + f - e = ly + (q + ln - 1) - (p + lo - 1)
        BY ONLY <3>1, <3>3
      <3>6. Len(z) + f - e = ly + NewEnd(hunks, d) - End(hunks, d)
        BY ONLY <3>1, <3>2, <3>4, <3>5, <3>7
      <3> QED
        BY ONLY <3>6 DEF ly, f, e
    <2> QED
      BY <2>7, <2>10, <2>11
  <1> HIDE DEF S
  <1>3. \A k \in Nat : k \in S
    BY ONLY <1>1, <1>2, SetInduction
  <1>4. c \in S /\ c \in Nat /\ c <= Len(hunks)
    BY <1>3
  <1>5. Holds(c, x, t)
    <2> HIDE DEF Holds
    <2> QED
      BY <1>4 DEF S
  <1> QED
    BY <1>5

\* The test of the code finds the hunk where it belongs.
LEMMA MatchesFits ==
  ASSUME NEW s \in Seq(Text), NEW h \in Hunk, Place(h) >= 1, h.old = <<>> => h.os = 0
  PROVE  Matches(s, h) <=> Fits(s, h)
  <1> DEFINE o == h.old
             l == Len(o)
             p == Place(h)
             ls == Len(s)
  <1>1. /\ p \in Nat /\ p >= 1 /\ l \in Nat /\ o \in Seq(Text) /\ ls \in Nat
        /\ o # <<>> => p = h.os /\ l >= 1
        /\ o = <<>> => h.os = 0 /\ l = 0 /\ p = 1
    BY HunkNumbers
  <1>2. Fits(s, h) <=> p + l - 1 <= ls /\ SubSeq(s, p, p + l - 1) = o
    BY DEF Fits
  <1>3. Matches(s, h) <=> SubSeq(s, IF h.os < 1 THEN 1 ELSE h.os,
                                 IF h.os + l - 1 > ls THEN ls ELSE h.os + l - 1) = o
    BY DEF Matches, Range1
  <1> HIDE DEF o, l, p, ls
  <1>4. CASE o = <<>>
    <2>1. SubSeq(s, 1, -1) = <<>> /\ SubSeq(s, 1, 0) = <<>>
      BY SubSeqEmpty
    <2>2. /\ (IF h.os < 1 THEN 1 ELSE h.os) = 1
          /\ (IF h.os + l - 1 > ls THEN ls ELSE h.os + l - 1) = -1
          /\ p + l - 1 = 0 /\ 0 <= ls /\ p = 1
      BY <1>1, <1>4
    <2> QED
      BY <1>2, <1>3, <1>4, <2>1, <2>2
  <1>5. CASE o # <<>> /\ p + l - 1 <= ls
    <2>1. /\ (IF h.os < 1 THEN 1 ELSE h.os) = p
          /\ (IF h.os + l - 1 > ls THEN ls ELSE h.os + l - 1) = p + l - 1
      BY <1>1, <1>5
    <2> QED
      BY <1>2, <1>3, <1>5, <2>1
  <1>6. CASE o # <<>> /\ ~(p + l - 1 <= ls)
    <2>1. /\ (IF h.os < 1 THEN 1 ELSE h.os) = p
          /\ (IF h.os + l - 1 > ls THEN ls ELSE h.os + l - 1) = ls
      BY <1>1, <1>6
    <2>2. Len(SubSeq(s, p, ls)) = IF p <= ls THEN ls - p + 1 ELSE 0
      BY <1>1, PartOf DEF ls
    <2>3. (IF p <= ls THEN ls - p + 1 ELSE 0) # l
      BY <1>1, <1>6
    <2>4. SubSeq(s, p, ls) # o
      BY <2>2, <2>3 DEF l
    <2> QED
      BY <1>2, <1>3, <1>6, <2>1, <2>4
  <1> QED
    BY <1>4, <1>5, <1>6

\* The code takes the lines before the hunk from the new file, those behind it
\* from the old one.
LEMMA WithHunkIs ==
  ASSUME NEW s \in Seq(Text), NEW h \in Hunk, Place(h) >= 1, NewPlace(h) >= 1,
         h.old = <<>> => h.os = 0, h.new = <<>> => h.ns = 0,
         Behind(h) - 1 <= Len(s),
         NEW y \in Seq(Text), NEW w \in Seq(Text), Len(y) = NewPlace(h) - 1
  PROVE  WithHunk(y \o w, s, h) = y \o (h.new \o SubSeq(s, Behind(h), Len(s)))
  <1> DEFINE o == h.old
             n == h.new
             l == Len(o)
             p == Place(h)
             q == NewPlace(h)
             ls == Len(s)
             z == y \o w
             e == SubSeq(s, Behind(h), ls)
  <1>1. /\ p \in Nat /\ p >= 1 /\ l \in Nat /\ ls \in Nat
        /\ o # <<>> => p = h.os /\ l >= 1
        /\ o = <<>> => h.os = 0 /\ l = 0 /\ p = 1
        /\ Behind(h) = p + l
    BY HunkNumbers
  <1>2. /\ q \in Nat /\ q >= 1 /\ n \in Seq(Text)
        /\ n # <<>> => q = h.ns
        /\ n = <<>> => h.ns = 0 /\ q = 1
    BY HunkNumbers
  <1>3. Len(y) \in Nat /\ Len(w) \in Nat /\ Len(y) = q - 1
    OBVIOUS
  <1>4. z \in Seq(Text) /\ Len(z) = Len(y) + Len(w)
    BY ConcatProperties
  <1>5. SubSeq(z, 1, Len(y)) = y
    <2>1. Len(y) <= Len(y)
      BY <1>3
    <2>2. SubSeq(z, 1, Len(y)) = SubSeq(y, 1, Len(y))
      BY <1>3, <2>1, BeginOfConcat
    <2> QED
      BY <2>2, SubSeqFull
  <1>6. WithHunk(z, s, h) =
          (SubSeq(z, 1, IF h.ns - 1 > Len(z) THEN Len(z) ELSE h.ns - 1) \o n)
            \o SubSeq(s, IF h.os + l < 1 THEN 1 ELSE h.os + l, IF ls > ls THEN ls ELSE ls)
    BY DEF WithHunk, Range1
  <1>e. e \in Seq(Text)
    <2>1. Behind(h) \in Nat /\ Behind(h) >= 1 /\ ls \in Int /\ ls <= ls
      BY <1>1
    <2> QED
      BY <2>1, PartOf
  <1> HIDE DEF o, l, p, q, ls, z, n
  <1>7. SubSeq(z, 1, IF h.ns - 1 > Len(z) THEN Len(z) ELSE h.ns - 1) = y
    <2>1. CASE n # <<>>
      <3>1. (IF h.ns - 1 > Len(z) THEN Len(z) ELSE h.ns - 1) = Len(y)
        BY <1>2, <1>3, <1>4, <2>1
      <3> QED
        BY <1>5, <3>1
    <2>2. CASE n = <<>>
      <3> DEFINE a == h.ns
                 lz == Len(z)
      <3>3. a = 0 /\ lz \in Nat /\ Len(y) = 0
        <4>1. h.ns = 0 /\ q = 1
          BY <1>2, <2>2
        <4>2. Len(y) = 0
          BY ONLY <1>3, <4>1
        <4>3. Len(z) \in Nat
          BY ONLY <1>4
        <4> QED
          BY <4>1, <4>2, <4>3
      <3> HIDE DEF a, lz
      <3>4. (IF a - 1 > lz THEN lz ELSE a - 1) = -1
        BY ONLY <3>3
      <3>1. (IF h.ns - 1 > Len(z) THEN Len(z) ELSE h.ns - 1) = -1 /\ Len(y) = 0
        BY <3>3, <3>4 DEF a, lz
      <3>2. SubSeq(z, 1, -1) = <<>> /\ y = <<>>
        BY <3>1, SubSeqEmpty, EmptySeq
      <3> QED
        BY <3>1, <3>2
    <2> QED
      BY <2>1, <2>2
  <1>8. /\ (IF h.os + l < 1 THEN 1 ELSE h.os + l) = Behind(h)
        /\ (IF ls > ls THEN ls ELSE ls) = ls
    <2>1. CASE o # <<>>
      BY <1>1, <2>1
    <2>2. CASE o = <<>>
      BY <1>1, <2>2
    <2> QED
      BY <2>1, <2>2
  <1> HIDE DEF e
  <1>9. WithHunk(z, s, h) = (y \o n) \o e
    BY <1>6, <1>7, <1>8 DEF e
  <1>10. (y \o n) \o e = y \o (n \o e)
    BY ONLY SMTT(30), <1>2, <1>e, y \in Seq(Text), ConcatAssociative
  <1> QED
    BY <1>9, <1>10 DEF z, n, e, ls

\* A hunk behind those that have been made is made as it should be, also when it
\* is made again.
LEMMA HunkMade ==
  ASSUME NEW hunks \in Seq(Hunk), InOrder(hunks), NEW c \in 1..Len(hunks),
         NEW s \in Seq(Text), End(hunks, c) <= Len(s)
  PROVE  /\ AllReplaced(s, First(hunks, c)) =
              WithHunk(AllReplaced(s, First(hunks, c - 1)), s, hunks[c])
         /\ AllReplaced(s, First(hunks, c)) =
              WithHunk(AllReplaced(s, First(hunks, c)), s, hunks[c])
  <1> DEFINE h == hunks[c]
             x == SubSeq(s, 1, Place(h) - 1)
             t == SubSeq(s, Place(h), Len(s))
             e == SubSeq(s, Behind(h), Len(s))
             y == AllReplaced(x, First(hunks, c - 1))
             w == h.new \o e
  <1>1. /\ h \in Hunk /\ Place(h) >= 1 /\ NewPlace(h) >= 1
        /\ End(hunks, c - 1) \in Nat /\ NewEnd(hunks, c - 1) \in Nat
        /\ End(hunks, c - 1) <= Place(h) - 1
        /\ Place(h) - 1 - End(hunks, c - 1) = NewPlace(h) - 1 - NewEnd(hunks, c - 1)
        /\ End(hunks, c) = Behind(h) - 1
        /\ h.old = <<>> => h.os = 0
        /\ h.new = <<>> => h.ns = 0
    BY EndsAre
  <1> HIDE DEF h
  <1>2. Behind(h) - 1 <= Len(s)
    BY <1>1
  <1>3. /\ x \in Seq(Text) /\ Len(x) = Place(h) - 1 /\ e \in Seq(Text)
        /\ Replaced(s, h) = x \o w
    BY <1>1, <1>2, ReplacedIs
  <1>4. Place(h) \in Nat /\ NewPlace(h) \in Nat /\ h.new \in Seq(Text) /\ Place(h) <= Behind(h)
    <2> DEFINE l == Len(h.old)
    <2>1. Place(h) \in Nat /\ NewPlace(h) \in Nat /\ h.new \in Seq(Text) /\ l \in Nat
          /\ Behind(h) = Place(h) + l
      BY <1>1, HunkNumbers
    <2> HIDE DEF l
    <2> QED
      BY <2>1
  <1>5. w \in Seq(Text)
    BY <1>3, <1>4, ConcatProperties
  <1>6. t \in Seq(Text) /\ s = x \o t
    <2> DEFINE b == Place(h) - 1
    <2>1. b \in Nat /\ b + 1 = Place(h)
      BY <1>1, <1>4
    <2>2. b <= Len(s)
      <3>1. Behind(h) \in Int
        BY <1>1, HunkNumbers
      <3> QED
        BY <1>2, <1>4, <3>1
    <2>3. Len(s) \in Int /\ Len(s) <= Len(s)
      OBVIOUS
    <2>4. t \in Seq(Text)
      BY ONLY <1>1, <1>4, <2>3, s \in Seq(Text), PartOf
    <2> HIDE DEF b
    <2>5. s = SubSeq(s, 1, b) \o SubSeq(s, b + 1, Len(s))
      BY ONLY <2>1, <2>2, s \in Seq(Text), TwoParts
    <2> QED
      BY <2>1, <2>4, <2>5 DEF b
  <1> HIDE DEF x, t, e
  <1>7. c - 1 \in 0..Len(hunks) /\ End(hunks, c - 1) <= Len(x)
    BY <1>1, <1>3
  <1>8. /\ y \in Seq(Text)
        /\ Len(y) = Len(x) + NewEnd(hunks, c - 1) - End(hunks, c - 1)
    BY <1>3, <1>6, <1>7, FrontReplaced
  <1>9. AllReplaced(x \o t, First(hunks, c - 1)) = y \o t
    BY <1>3, <1>6, <1>7, FrontReplaced
  <1> HIDE DEF w
  <1>10. AllReplaced(x \o w, First(hunks, c - 1)) = y \o w
    BY <1>3, <1>5, <1>7, FrontReplaced
  <1> HIDE DEF y
  <1>11. Len(y) = NewPlace(h) - 1
    <2> DEFINE p == Place(h)
               q == NewPlace(h)
               a == End(hunks, c - 1)
               b == NewEnd(hunks, c - 1)
    <2>1. p \in Nat /\ q \in Nat /\ a \in Nat /\ b \in Nat
      BY <1>1, <1>4
    <2>2. p - 1 - a = q - 1 - b
      BY <1>1
    <2>3. Len(y) = p - 1 + b - a
      BY <1>3, <1>8
    <2> HIDE DEF p, q, a, b
    <2>4. p - 1 + b - a = q - 1
      BY ONLY <2>1, <2>2
    <2> QED
      BY <2>3, <2>4 DEF q
  <1>12. /\ WithHunk(y \o t, s, h) = y \o w
         /\ WithHunk(y \o w, s, h) = y \o w
    BY ZenonT(60), <1>1, <1>2, <1>5, <1>6, <1>8, <1>11, WithHunkIs DEF w, e
  <1>13. AllReplaced(s, First(hunks, c)) = y \o w
    <2>1. AllReplaced(s, First(hunks, c)) = AllReplaced(Replaced(s, h), First(hunks, c - 1))
      BY LastReplaced DEF h
    <2> QED
      BY <1>3, <1>10, <2>1
  <1>14. AllReplaced(s, First(hunks, c - 1)) = y \o t
    BY <1>6, <1>9
  <1> QED
    BY <1>12, <1>13, <1>14 DEF h

-----------------------------------------------------------------------------
(* One line more.                                                           *)

\* A line further, it is about the same file unless it names another one.
LEMMA AboutNext ==
  ASSUME NEW ls, NEW f, NEW i \in Nat
  PROVE  About(ls, f, i + 1) <=> IF ls[i + 1].kind = "diff" THEN ls[i + 1].file = f
                                 ELSE About(ls, f, i)
  <1>1. CASE ls[i + 1].kind = "diff"
    <2>1. ASSUME About(ls, f, i + 1) PROVE ls[i + 1].file = f
      <3>1. PICK d \in 1..(i + 1) : /\ ls[d].kind = "diff" /\ ls[d].file = f
                                    /\ \A m \in (d + 1)..(i + 1) : ls[m].kind # "diff"
        BY <2>1 DEF About
      <3>2. d = i + 1
        <4>1. i + 1 \notin (d + 1)..(i + 1)
          BY <1>1, <3>1
        <4> QED
          BY <4>1
      <3> QED
        BY <3>1, <3>2
    <2>2. ASSUME ls[i + 1].file = f PROVE About(ls, f, i + 1)
      <3>1. i + 1 \in 1..(i + 1) /\ \A m \in (i + 1 + 1)..(i + 1) : ls[m].kind # "diff"
        OBVIOUS
      <3> QED
        BY <1>1, <2>2, <3>1 DEF About
    <2> QED
      BY <1>1, <2>1, <2>2
  <1>2. CASE ls[i + 1].kind # "diff"
    <2>1. ASSUME About(ls, f, i + 1) PROVE About(ls, f, i)
      <3>1. PICK d \in 1..(i + 1) : /\ ls[d].kind = "diff" /\ ls[d].file = f
                                    /\ \A m \in (d + 1)..(i + 1) : ls[m].kind # "diff"
        BY <2>1 DEF About
      <3>2. d # i + 1
        BY <1>2, <3>1
      <3>3. d \in 1..i /\ \A m \in (d + 1)..i : m \in (d + 1)..(i + 1)
        BY <3>2
      <3> QED
        BY <3>1, <3>3 DEF About
    <2>2. ASSUME About(ls, f, i) PROVE About(ls, f, i + 1)
      <3>1. PICK d \in 1..i : /\ ls[d].kind = "diff" /\ ls[d].file = f
                              /\ \A m \in (d + 1)..i : ls[m].kind # "diff"
        BY <2>2 DEF About
      <3>2. d \in 1..(i + 1) /\ \A m \in (d + 1)..(i + 1) : m \in (d + 1)..i \/ m = i + 1
        OBVIOUS
      <3>3. \A m \in (d + 1)..(i + 1) : ls[m].kind # "diff"
        BY <1>2, <3>1, <3>2
      <3> QED
        BY <3>1, <3>2, <3>3 DEF About
    <2> QED
      BY <1>2, <2>1, <2>2
  <1> QED
    BY <1>1, <1>2

\* A line is about one file at most.
LEMMA AboutOne ==
  ASSUME NEW ls, NEW f, NEW g, NEW i \in Nat, About(ls, f, i), About(ls, g, i)
  PROVE  f = g
  <1>1. PICK d \in 1..i : /\ ls[d].kind = "diff" /\ ls[d].file = f
                          /\ \A m \in (d + 1)..i : ls[m].kind # "diff"
    BY DEF About
  <1>2. PICK e \in 1..i : /\ ls[e].kind = "diff" /\ ls[e].file = g
                          /\ \A m \in (e + 1)..i : ls[m].kind # "diff"
    BY DEF About
  <1>3. d \notin (e + 1)..i /\ e \notin (d + 1)..i
    BY <1>1, <1>2
  <1>4. d = e
    BY <1>3
  <1> QED
    BY <1>1, <1>2, <1>4

\* Lines that name no file change nothing of that.
LEMMA AboutLater ==
  ASSUME NEW ls, NEW f, NEW i \in Nat, NEW k \in Nat, i <= k, About(ls, f, i),
         \A m \in (i + 1)..k : ls[m].kind # "diff"
  PROVE  About(ls, f, k)
  <1>1. PICK d \in 1..i : /\ ls[d].kind = "diff" /\ ls[d].file = f
                          /\ \A m \in (d + 1)..i : ls[m].kind # "diff"
    BY DEF About
  <1>2. d \in 1..k /\ \A m \in (d + 1)..k : m \in (d + 1)..i \/ m \in (i + 1)..k
    OBVIOUS
  <1>3. \A m \in (d + 1)..k : ls[m].kind # "diff"
    BY <1>1, <1>2
  <1> QED
    BY <1>1, <1>2, <1>3 DEF About

\* The headers of a file.
LEMMA Headers ==
  ASSUME NEW ls, NEW f, NEW k \in Nat
  PROVE  /\ IsFiniteSet(HeadersOf(ls, f, k))
         /\ Cardinality(HeadersOf(ls, f, k)) \in Nat
  <1>1. IsFiniteSet(1..k)
    BY FS_Interval
  <1>2. HeadersOf(ls, f, k) \subseteq 1..k
    BY DEF HeadersOf
  <1>3. IsFiniteSet(HeadersOf(ls, f, k))
    BY ONLY <1>1, <1>2, FS_Subset
  <1> QED
    BY <1>3, FS_CardinalityType

LEMMA HeadersNone ==
  ASSUME NEW ls, NEW f
  PROVE  Cardinality(HeadersOf(ls, f, 0)) = 0
  <1>1. HeadersOf(ls, f, 0) = {}
    BY DEF HeadersOf
  <1> QED
    BY <1>1, FS_EmptySet

LEMMA HeadersNext ==
  ASSUME NEW ls, NEW f, NEW k \in Nat
  PROVE  Cardinality(HeadersOf(ls, f, k + 1)) =
           Cardinality(HeadersOf(ls, f, k))
             + (IF ls[k + 1].kind = "@" /\ About(ls, f, k + 1) THEN 1 ELSE 0)
  <1> DEFINE H == HeadersOf(ls, f, k)
             G == HeadersOf(ls, f, k + 1)
  <1>1. IsFiniteSet(H) /\ Cardinality(H) \in Nat
    BY Headers
  <1>2. k + 1 \notin H
    BY DEF HeadersOf
  <1>3. \A i : i \in 1..(k + 1) <=> i \in 1..k \/ i = k + 1
    OBVIOUS
  <1>4. CASE ls[k + 1].kind = "@" /\ About(ls, f, k + 1)
    <2>1. G = H \cup {k + 1}
      BY <1>3, <1>4 DEF HeadersOf
    <2> HIDE DEF H, G
    <2>2. Cardinality(G) = Cardinality(H) + 1
      BY <1>1, <1>2, <2>1, FS_AddElement
    <2> QED
      BY <1>4, <2>2 DEF H, G
  <1>5. CASE ~(ls[k + 1].kind = "@" /\ About(ls, f, k + 1))
    <2>1. G = H
      BY <1>3, <1>5 DEF HeadersOf
    <2> HIDE DEF H, G
    <2>2. Cardinality(G) = Cardinality(H) + 0
      BY <1>1, <2>1
    <2> QED
      BY <1>5, <2>2 DEF H, G
  <1> QED
    BY <1>4, <1>5

\* Without another header there are not more.
LEMMA HeadersSame ==
  ASSUME NEW ls, NEW f, NEW i \in Nat, NEW k \in Nat, i <= k,
         \A m \in (i + 1)..k : ls[m].kind # "@"
  PROVE  HeadersOf(ls, f, k) = HeadersOf(ls, f, i)
  <1>1. \A m \in 1..k : m \in 1..i \/ m \in (i + 1)..k
    OBVIOUS
  <1>2. 1..i \subseteq 1..k
    OBVIOUS
  <1> QED
    BY <1>1, <1>2 DEF HeadersOf

LEMMA HeadersMore ==
  ASSUME NEW ls, NEW f, NEW i \in Nat, NEW k \in Nat, i <= k
  PROVE  Cardinality(HeadersOf(ls, f, i)) <= Cardinality(HeadersOf(ls, f, k))
  <1>1. HeadersOf(ls, f, i) \subseteq HeadersOf(ls, f, k)
    <2>1. 1..i \subseteq 1..k
      OBVIOUS
    <2> QED
      BY <2>1 DEF HeadersOf
  <1>2. IsFiniteSet(HeadersOf(ls, f, k))
    BY Headers
  <1> QED
    BY ONLY <1>1, <1>2, FS_Subset

\* The lines of a kind.
LEMMA CountNone ==
  ASSUME NEW ls, NEW i \in Nat, NEW kinds
  PROVE  Count(ls, i, i, kinds) = 0
  <1>1. {m \in (i + 1)..i : ls[m].kind \in kinds} = {}
    OBVIOUS
  <1> QED
    BY <1>1, FS_EmptySet DEF Count

LEMMA CountNext ==
  ASSUME NEW ls, NEW i \in Nat, NEW k \in Nat, i <= k, NEW kinds
  PROVE  /\ Count(ls, i, k, kinds) \in Nat
         /\ Count(ls, i, k + 1, kinds) =
              Count(ls, i, k, kinds) + (IF ls[k + 1].kind \in kinds THEN 1 ELSE 0)
  <1> DEFINE H == {m \in (i + 1)..k : ls[m].kind \in kinds}
             G == {m \in (i + 1)..(k + 1) : ls[m].kind \in kinds}
  <1>1. IsFiniteSet(H)
    <2>1. IsFiniteSet((i + 1)..k)
      BY FS_Interval
    <2>2. H \subseteq (i + 1)..k
      OBVIOUS
    <2> QED
      BY ONLY <2>1, <2>2, FS_Subset
  <1>2. Cardinality(H) \in Nat
    BY <1>1, FS_CardinalityType
  <1>3. k + 1 \notin H
    OBVIOUS
  <1>4. \A m : m \in (i + 1)..(k + 1) <=> m \in (i + 1)..k \/ m = k + 1
    OBVIOUS
  <1>5. Count(ls, i, k, kinds) = Cardinality(H) /\ Count(ls, i, k + 1, kinds) = Cardinality(G)
    BY DEF Count
  <1>6. CASE ls[k + 1].kind \in kinds
    <2>1. G = H \cup {k + 1}
      BY <1>4, <1>6
    <2> HIDE DEF H, G
    <2>2. Cardinality(G) = Cardinality(H) + 1
      BY <1>1, <1>3, <2>1, FS_AddElement
    <2> QED
      BY <1>2, <1>5, <1>6, <2>2
  <1>7. CASE ls[k + 1].kind \notin kinds
    <2>1. G = H
      BY <1>4, <1>7
    <2> HIDE DEF H, G
    <2>2. Cardinality(G) = Cardinality(H) + 0
      BY <1>2, <2>1
    <2> QED
      BY <1>2, <1>5, <1>7, <2>2
  <1> QED
    BY <1>6, <1>7

-----------------------------------------------------------------------------
(* The dictionary.                                                          *)

LEMMA AddedHunk ==
  ASSUME NEW d \in Seq(DictEntry), NEW f \in Files, NEW h \in Hunk
  PROVE  LET a == AddHunk(d, f, h)
         IN  /\ (\E e \in 1..Len(d) : d[e].file = f) =>
                  /\ Len(a) = Len(d)
                  /\ \A e \in 1..Len(d) :
                       /\ a[e].file = d[e].file
                       /\ a[e].hunks = IF d[e].file = f THEN Append(d[e].hunks, h) ELSE d[e].hunks
             /\ ~(\E e \in 1..Len(d) : d[e].file = f) =>
                  /\ Len(a) = Len(d) + 1
                  /\ a[Len(d) + 1] = [file |-> f, hunks |-> <<h>>]
                  /\ \A e \in 1..Len(d) : a[e] = d[e]
  <1> DEFINE a == AddHunk(d, f, h)
             new == [file |-> f, hunks |-> <<h>>]
  <1>0. Len(d) \in Nat
    OBVIOUS
  <1>1. CASE \E e \in 1..Len(d) : d[e].file = f
    <2> DEFINE b(e) == IF d[e].file = f THEN [file |-> f, hunks |-> Append(d[e].hunks, h)]
                       ELSE d[e]
    <2>1. a = [e \in 1..Len(d) |-> b(e)]
      BY <1>1 DEF AddHunk
    <2>2. \A e \in 1..Len(d) : a[e] = b(e)
      BY <2>1
    <2>3. Len(a) = Len(d)
      BY <1>0, <2>1
    <2>4. \A e \in 1..Len(d) :
            /\ b(e).file = d[e].file
            /\ b(e).hunks = IF d[e].file = f THEN Append(d[e].hunks, h) ELSE d[e].hunks
      OBVIOUS
    <2> HIDE DEF a, b
    <2>5. \A e \in 1..Len(d) :
            /\ a[e].file = d[e].file
            /\ a[e].hunks = IF d[e].file = f THEN Append(d[e].hunks, h) ELSE d[e].hunks
      BY <2>2, <2>4
    <2> QED
      BY <1>1, <2>3, <2>5 DEF a
  <1>2. CASE ~\E e \in 1..Len(d) : d[e].file = f
    <2>1. new \in DictEntry
      <3>1. <<h>> \in Seq(Hunk)
        OBVIOUS
      <3> QED
        BY <3>1 DEF DictEntry
    <2>2. a = Append(d, new)
      BY <1>2 DEF AddHunk
    <2> HIDE DEF new
    <2>3. /\ Len(Append(d, new)) = Len(d) + 1
          /\ Append(d, new)[Len(d) + 1] = new
          /\ \A e \in 1..Len(d) : Append(d, new)[e] = d[e]
      BY <2>1, AppendProperties
    <2> QED
      BY <1>2, <2>2, <2>3 DEF new, a
  <1> QED
    BY <1>1, <1>2

\* The next change, or the last one once more.
LEMMA RepeatsMore ==
  ASSUME NEW hunks \in Seq(Hunk), NEW changes, NEW c \in Nat, NEW h \in Hunk, NEW b \in {c, c + 1},
         Repeats(hunks, changes, c), h = changes[b]
  PROVE  Repeats(Append(hunks, h), changes, b)
  <1> DEFINE n == Len(hunks)
             more == Append(hunks, h)
  <1>1. PICK m \in [1..n -> 1..c] : Maps(m, hunks, changes, c)
    BY DEF Repeats
  <1>2. /\ n >= 1 /\ m[1] = 1 /\ m[n] = c
        /\ \A i \in 1..n : hunks[i] = changes[m[i]]
        /\ \A i \in 2..n : m[i] = m[i - 1] \/ m[i] = m[i - 1] + 1
    BY <1>1 DEF Maps
  <1>3. n \in Nat /\ Len(more) = n + 1 /\ more[n + 1] = h /\ \A i \in 1..n : more[i] = hunks[i]
    BY AppendProperties
  <1> HIDE DEF n, more
  <1>4. c \in 1..c
    BY <1>1, <1>2, <1>3
  <1> DEFINE k == [i \in 1..(n + 1) |-> IF i = n + 1 THEN b ELSE m[i]]
  <1>5. k \in [1..(n + 1) -> 1..b]
    <2>1. ASSUME NEW i \in 1..(n + 1) PROVE (IF i = n + 1 THEN b ELSE m[i]) \in 1..b
      <3>1. CASE i = n + 1
        BY <1>4, <3>1
      <3>2. CASE i # n + 1
        <4>1. i \in 1..n
          BY <1>3, <3>2
        <4>2. m[i] \in 1..c
          BY <1>1, <4>1
        <4>3. m[i] \in 1..b
          BY <4>2
        <4> QED
          BY <3>2, <4>3
      <3> QED
        BY <3>1, <3>2
    <2> QED
      BY <2>1
  <1>6. k[n + 1] = b /\ \A i \in 1..n : k[i] = m[i]
    BY <1>3
  <1> HIDE DEF k
  <1>7. \A i \in 1..(n + 1) : more[i] = changes[k[i]]
    <2>1. \A i \in 1..(n + 1) : i \in 1..n \/ i = n + 1
      BY <1>3
    <2> QED
      BY <1>2, <1>3, <1>6, <2>1
  <1>8. \A i \in 2..(n + 1) : k[i] = k[i - 1] \/ k[i] = k[i - 1] + 1
    <2>1. SUFFICES ASSUME NEW i \in 2..(n + 1) PROVE k[i] = k[i - 1] \/ k[i] = k[i - 1] + 1
      OBVIOUS
    <2>2. CASE i = n + 1
      <3>1. i - 1 = n /\ n \in 1..n
        BY <1>2, <1>3, <2>2
      <3>2. k[i] = b /\ k[i - 1] = c
        BY <1>2, <1>6, <2>2, <3>1
      <3> QED
        BY <3>2
    <2>3. CASE i # n + 1
      <3>1. i \in 2..n /\ i \in 1..n /\ i - 1 \in 1..n
        BY <1>3, <2>3
      <3> QED
        BY <1>2, <1>6, <3>1
    <2> QED
      BY <2>2, <2>3
  <1>9. k[1] = 1
    <2>1. 1 \in 1..n
      BY <1>2, <1>3
    <2> QED
      BY <1>2, <1>6, <2>1
  <1>10. n + 1 >= 1
    BY <1>3
  <1>11. Maps(k, more, changes, b)
    BY <1>3, <1>5, <1>6, <1>7, <1>8, <1>9, <1>10 DEF Maps
  <1> QED
    BY <1>3, <1>5, <1>11 DEF Repeats, more

LEMMA RepeatsOne ==
  ASSUME NEW h, NEW changes, h = changes[1]
  PROVE  Repeats(<<h>>, changes, 1)
  <1> DEFINE hunks == <<h>>
             k == [i \in 1..1 |-> 1]
  <1>1. Len(hunks) = 1 /\ hunks[1] = h
    OBVIOUS
  <1> HIDE DEF hunks
  <1>2. k \in [1..1 -> 1..1] /\ k[1] = 1
    OBVIOUS
  <1> HIDE DEF k
  <1>3. /\ \A i \in 1..1 : hunks[i] = changes[k[i]]
        /\ \A i \in 2..1 : k[i] = k[i - 1] \/ k[i] = k[i - 1] + 1
    BY <1>1, <1>2
  <1>4. Maps(k, hunks, changes, 1)
    BY <1>1, <1>2, <1>3 DEF Maps
  <1> QED
    BY <1>1, <1>2, <1>4 DEF Repeats, hunks

LEMMA ListedMore ==
  ASSUME NEW d \in Seq(DictEntry), NEW f \in Files, NEW h \in Hunk, NEW changes, NEW c \in Nat,
         NEW b \in {c, c + 1}, b # 0, Listed(d, f, changes, c), h = changes[b]
  PROVE  Listed(AddHunk(d, f, h), f, changes, b)
  <1> DEFINE a == AddHunk(d, f, h)
  <1>0. Len(d) \in Nat
    OBVIOUS
  <1>1. CASE c = 0
    <2>1. ~\E e \in 1..Len(d) : d[e].file = f
      BY <1>1 DEF Listed
    <2>2. /\ Len(a) = Len(d) + 1 /\ a[Len(d) + 1] = [file |-> f, hunks |-> <<h>>]
      BY <2>1, AddedHunk
    <2>3. b = 1 /\ Repeats(<<h>>, changes, 1)
      BY <1>1, RepeatsOne
    <2>4. Len(d) + 1 \in 1..Len(a)
      BY <1>0, <2>2
    <2> HIDE DEF a
    <2>5. a[Len(d) + 1].file = f /\ a[Len(d) + 1].hunks = <<h>>
      BY <2>2
    <2>6. \E e \in 1..Len(a) : a[e].file = f /\ Repeats(a[e].hunks, changes, b)
      BY <2>3, <2>4, <2>5
    <2> QED
      BY <2>6 DEF Listed, a
  <1>2. CASE c # 0
    <2>1. PICK e \in 1..Len(d) : d[e].file = f /\ Repeats(d[e].hunks, changes, c)
      BY <1>2 DEF Listed
    <2>2. Len(a) = Len(d) /\ a[e].file = f /\ a[e].hunks = Append(d[e].hunks, h)
      <3>1. /\ Len(a) = Len(d)
            /\ \A i \in 1..Len(d) :
                 /\ a[i].file = d[i].file
                 /\ a[i].hunks = IF d[i].file = f THEN Append(d[i].hunks, h) ELSE d[i].hunks
        <4>1. \E i \in 1..Len(d) : d[i].file = f
          BY <2>1
        <4> QED
          BY ZenonT(60), <4>1, AddedHunk
      <3> HIDE DEF a
      <3> QED
        BY <2>1, <3>1
    <2>3. d[e].hunks \in Seq(Hunk)
      <3>1. d[e] \in DictEntry
        BY ElementOfSeq
      <3> QED
        BY <3>1 DEF DictEntry
    <2>4. Repeats(Append(d[e].hunks, h), changes, b)
      <3> DEFINE hunks == d[e].hunks
      <3>1. hunks \in Seq(Hunk) /\ Repeats(hunks, changes, c)
        BY <2>1, <2>3
      <3> HIDE DEF hunks
      <3>2. Repeats(Append(hunks, h), changes, b)
        BY <3>1, RepeatsMore
      <3> QED
        BY <3>2 DEF hunks
    <2> HIDE DEF a
    <2>5. \E i \in 1..Len(a) : a[i].file = f /\ Repeats(a[i].hunks, changes, b)
      BY <2>2, <2>4
    <2> QED
      BY <2>5 DEF Listed, a
  <1> QED
    BY <1>1, <1>2

LEMMA ListedOther ==
  ASSUME NEW d \in Seq(DictEntry), NEW f \in Files, NEW h \in Hunk, NEW changes, NEW c,
         NEW g, g # f, Listed(d, g, changes, c)
  PROVE  Listed(AddHunk(d, f, h), g, changes, c)
  <1> DEFINE a == AddHunk(d, f, h)
  <1>0. Len(d) \in Nat
    OBVIOUS
  <1>1. CASE \E e \in 1..Len(d) : d[e].file = f
    <2>1. /\ Len(a) = Len(d)
          /\ \A e \in 1..Len(d) : a[e].file = d[e].file
          /\ \A e \in 1..Len(d) : d[e].file = g => a[e].hunks = d[e].hunks
      <3>1. /\ Len(a) = Len(d)
            /\ \A i \in 1..Len(d) :
                 /\ a[i].file = d[i].file
                 /\ a[i].hunks = IF d[i].file = f THEN Append(d[i].hunks, h) ELSE d[i].hunks
        BY ZenonT(60), <1>1, AddedHunk
      <3> HIDE DEF a
      <3> QED
        BY <3>1
    <2> HIDE DEF a
    <2>2. Listed(a, g, changes, c)
      BY <2>1 DEF Listed
    <2> QED
      BY <2>2 DEF a
  <1>2. CASE ~\E e \in 1..Len(d) : d[e].file = f
    <2>1. /\ Len(a) = Len(d) + 1
          /\ a[Len(d) + 1] = [file |-> f, hunks |-> <<h>>]
          /\ \A e \in 1..Len(d) : a[e] = d[e]
      BY <1>2, AddedHunk
    <2>2. a[Len(d) + 1].file # g
      BY <2>1
    <2>3. \A e \in 1..Len(a) : e \in 1..Len(d) \/ e = Len(d) + 1
      BY <1>0, <2>1
    <2>4. 1..Len(d) \subseteq 1..Len(a)
      BY <1>0, <2>1
    <2> HIDE DEF a
    <2>5. Listed(a, g, changes, c)
      BY <2>1, <2>2, <2>3, <2>4 DEF Listed
    <2> QED
      BY <2>5 DEF a
  <1> QED
    BY <1>1, <1>2

-----------------------------------------------------------------------------
(* The lines of a patch that diff has written.                              *)

\* The hunk of a header.
LEMMA HeaderRead ==
  ASSUME NEW p \in Patch, FromDiff(p), NEW f \in Files, NEW i \in 1..Len(p.lines),
         p.lines[i].kind = "@", About(p.lines, f, i)
  PROVE  LET c == Cardinality(HeadersOf(p.lines, f, i))
         IN  /\ c \in 1..Len(p.changes[f])
             /\ c = Cardinality(HeadersOf(p.lines, f, i - 1)) + 1
             /\ HunkOf(p, f, i) = p.changes[f][c]
             /\ HunkOf(p, f, i) \in Hunk
             /\ \E j \in i..Len(p.lines) : Says(p.lines, i, j, HunkOf(p, f, i))
  <1> DEFINE ls == p.lines
             H(k) == HeadersOf(ls, f, k)
             c == Cardinality(H(i))
             b == Cardinality(H(i - 1))
             n == Len(ls)
  <1>1. /\ ls \in Seq(PatchLine) /\ p.changes \in [Files -> Seq(Hunk)] /\ n \in Nat
        /\ i \in Nat /\ i - 1 \in Nat /\ i <= n /\ i - 1 + 1 = i
    BY DEF Patch
  <1>2. Len(p.changes[f]) = Cardinality(H(n))
    BY DEF FromDiff
  <1>3. c = b + 1 /\ b \in Nat
    <2>1. b \in Nat
      BY <1>1, Headers
    <2>2. Cardinality(H(i - 1 + 1)) = b + (IF ls[i - 1 + 1].kind = "@" /\ About(ls, f, i - 1 + 1) THEN 1 ELSE 0)
      BY <1>1, HeadersNext
    <2> QED
      BY <1>1, <2>1, <2>2
  <1>4. c <= Cardinality(H(n)) /\ Cardinality(H(n)) \in Nat
    BY <1>1, Headers, HeadersMore
  <1>5. i \in H(n)
    <2>1. i \in 1..n
      BY <1>1
    <2> QED
      BY <2>1 DEF HeadersOf
  <1>6. \E j \in i..n : Says(ls, i, j, p.changes[f][c])
    BY <1>5 DEF FromDiff
  <1>7. HunkOf(p, f, i) = p.changes[f][c]
    BY DEF HunkOf
  <1> HIDE DEF H, c, b, n
  <1>8. c \in 1..Len(p.changes[f])
    BY <1>2, <1>3, <1>4
  <1>9. p.changes[f][c] \in Hunk
    <2> DEFINE hunks == p.changes[f]
    <2>1. hunks \in Seq(Hunk) /\ c \in 1..Len(hunks)
      BY <1>1, <1>8
    <2> HIDE DEF hunks
    <2>2. hunks[c] \in Hunk
      BY <2>1
    <2> QED
      BY <2>2 DEF hunks
  <1> QED
    BY <1>3, <1>6, <1>7, <1>8, <1>9 DEF H, c, b, n

\* fntopatch, in the next line.
LEMMA FileNext ==
  ASSUME NEW ls, NEW r \in Nat, NEW f, FileAt(ls, r, f)
  PROVE  /\ ls[r + 1].kind # "diff" => FileAt(ls, r + 1, f)
         /\ \A g : About(ls, g, r) => f = g /\ f # NoFile
  <1>1. ASSUME ls[r + 1].kind # "diff" PROVE FileAt(ls, r + 1, f)
    <2>1. CASE f = NoFile
      <3>1. \A k \in 1..(r + 1) : k \in 1..r \/ k = r + 1
        OBVIOUS
      <3> QED
        BY <1>1, <2>1, <3>1 DEF FileAt
    <2>2. CASE f # NoFile
      BY <1>1, <2>2, AboutNext DEF FileAt
    <2> QED
      BY <2>1, <2>2
  <1>2. ASSUME NEW g, About(ls, g, r) PROVE f = g /\ f # NoFile
    <2>1. PICK d \in 1..r : ls[d].kind = "diff"
      BY <1>2 DEF About
    <2>2. f # NoFile
      BY <2>1 DEF FileAt
    <2>3. About(ls, f, r)
      BY <2>2 DEF FileAt
    <2> QED
      BY <1>2, <2>2, <2>3, AboutOne
  <1> QED
    BY <1>1, <1>2

\* The code of these kinds behind line i, up to line r, is what is wanted.
Wanted(ls, i, r, kinds, want, code) ==
  /\ code \in Seq(Text)
  /\ Len(code) = Count(ls, i, r, kinds)
  /\ \A k \in 1..Len(code) : code[k] = want[k]

\* The code, with the next line.
LEMMA CodeNext ==
  ASSUME NEW ls, NEW i \in Nat, NEW r \in Nat, i <= r, NEW kinds, NEW code, NEW want,
         Wanted(ls, i, r, kinds, want, code),
         ls[r + 1].kind \in kinds =>
           ls[r + 1].text \in Text /\ ls[r + 1].text = want[Count(ls, i, r + 1, kinds)]
  PROVE  Wanted(ls, i, r + 1, kinds, want,
                IF ls[r + 1].kind \in kinds THEN Append(code, ls[r + 1].text) ELSE code)
  <1> DEFINE t == ls[r + 1].text
             n == Count(ls, i, r, kinds)
             q == Count(ls, i, r + 1, kinds)
  <1>0. /\ code \in Seq(Text) /\ Len(code) = n
        /\ \A k \in 1..Len(code) : code[k] = want[k]
    BY DEF Wanted
  <1>1. n \in Nat /\ q = n + (IF ls[r + 1].kind \in kinds THEN 1 ELSE 0)
    BY CountNext
  <1>2. CASE ls[r + 1].kind \in kinds
    <2>1. q = n + 1 /\ t \in Text /\ t = want[q] /\ Len(code) = n
      BY <1>0, <1>1, <1>2
    <2> HIDE DEF t, n, q
    <2>2. /\ Append(code, t) \in Seq(Text) /\ Len(Append(code, t)) = n + 1
          /\ Append(code, t)[n + 1] = t /\ \A k \in 1..n : Append(code, t)[k] = code[k]
      BY <1>0, <2>1, AppendProperties
    <2>3. \A k \in 1..(n + 1) : k \in 1..n \/ k = n + 1
      BY <1>1
    <2>4. \A k \in 1..(n + 1) : Append(code, t)[k] = want[k]
      BY <1>0, <2>1, <2>2, <2>3
    <2> QED
      BY <1>2, <2>1, <2>2, <2>4 DEF t, q, Wanted
  <1>3. CASE ls[r + 1].kind \notin kinds
    <2>1. q = n
      BY <1>1, <1>3
    <2> QED
      BY <1>0, <1>3, <2>1 DEF Wanted
  <1> QED
    BY <1>2, <1>3

\* Complete code is that of the hunk.
LEMMA CodeIs ==
  ASSUME NEW h \in Hunk, NEW old \in Seq(Text), NEW new \in Seq(Text),
         Len(old) = Len(h.old), Len(new) = Len(h.new),
         \A k \in 1..Len(old) : old[k] = h.old[k], \A k \in 1..Len(new) : new[k] = h.new[k]
  PROVE  h = [os |-> h.os, ns |-> h.ns, old |-> old, new |-> new]
  <1>1. h.old \in Seq(Text) /\ h.new \in Seq(Text)
    BY DEF Hunk
  <1>2. old = h.old
    BY <1>1, SeqEqual
  <1>3. new = h.new
    BY <1>1, SeqEqual
  <1>4. h = [os |-> h.os, ns |-> h.ns, old |-> h.old, new |-> h.new]
    BY DEF Hunk
  <1> QED
    BY <1>2, <1>3, <1>4

\* A line that does not belong to a hunk.
LEMMA ReadDiff ==
  ASSUME NEW p \in Patch, FromDiff(p), NEW r \in Nat, r + 1 <= Len(p.lines),
         NEW f, NEW s, NEW in \in BOOLEAN, NEW old, NEW new, NEW d,
         ReadTo(p, r, f, s, in, old, new, d), p.lines[r + 1].kind = "diff"
  PROVE  ReadTo(p, r + 1, p.lines[r + 1].file, s, FALSE, old, new, d)
  <1> DEFINE ls == p.lines
             g == ls[r + 1].file
  <1>0. ls \in Seq(PatchLine) /\ Len(ls) \in Nat /\ r + 1 \in 1..Len(ls)
    BY DEF Patch
  <1>1. g \in Files
    <2>1. ls[r + 1] \in PatchLine
      BY <1>0
    <2> QED
      BY <2>1 DEF PatchLine
  <1>2. FileAt(ls, r + 1, g)
    <2>1. About(ls, g, r + 1)
      BY AboutNext
    <2> QED
      BY <1>1, <2>1, PatchAssumption DEF FileAt
  <1>3. ~in
    <2> SUFFICES ASSUME in PROVE FALSE
      OBVIOUS
    <2>1. PICK i \in 1..r, e \in Files, j \in 1..Len(ls) : HunkAt(p, r, i, e, j, s, in, old, new)
      BY DEF ReadTo, SpanAt
    <2>2. r < j /\ Says(ls, i, j, HunkOf(p, e, i))
      BY <2>1 DEF HunkAt, CodeAt
    <2>3. r + 1 \in (i + 1)..j
      BY <2>2
    <2>4. IsCode(ls[r + 1]) \/ ls[r + 1].kind = "junk"
      BY <2>2, <2>3 DEF Says
    <2> QED
      BY <2>4 DEF IsCode, OldKinds, NewKinds
  <1>4. \A k \in 1..(r + 1) : k \in 1..r \/ k = r + 1
    OBVIOUS
  <1>5. SpanAt(p, r + 1, s, FALSE, old, new)
    <2>1. CASE s = NoSpan
      BY <1>4, <2>1 DEF ReadTo, SpanAt
    <2>2. CASE s # NoSpan
      <3>1. PICK i \in 1..r, e \in Files, j \in 1..Len(ls) : HunkAt(p, r, i, e, j, s, in, old, new)
        BY <2>2 DEF ReadTo, SpanAt
      <3>2. i \in 1..(r + 1) /\ \A k \in (i + 1)..(r + 1) : k \in (i + 1)..r \/ k = r + 1
        OBVIOUS
      <3>3. \A k \in (i + 1)..(r + 1) : ls[k].kind # "@"
        BY <3>1, <3>2 DEF HunkAt
      <3>4. CodeAt(ls, i, j, HunkOf(p, e, i), r + 1, FALSE, old, new)
        BY <1>3, <3>1 DEF HunkAt, CodeAt
      <3>5. HunkAt(p, r + 1, i, e, j, s, FALSE, old, new)
        BY <3>1, <3>3, <3>4 DEF HunkAt
      <3> QED
        BY <2>2, <3>2, <3>5 DEF SpanAt
    <2> QED
      BY <2>1, <2>2
  <1>6. DictAt(p, r + 1, FALSE, g, d)
    <2>1. ASSUME NEW e \in Files
          PROVE  Complete(p, e, r + 1, FALSE, g) = Complete(p, e, r, in, f)
      <3>1. Cardinality(HeadersOf(ls, e, r)) \in Nat
        BY Headers
      <3>2. Cardinality(HeadersOf(ls, e, r + 1)) = Cardinality(HeadersOf(ls, e, r)) + 0
        BY HeadersNext
      <3> QED
        BY <1>3, <3>1, <3>2 DEF Complete
    <2> QED
      BY <2>1 DEF ReadTo, DictAt
  <1> QED
    BY <1>2, <1>5, <1>6 DEF ReadTo

LEMMA ReadJunk ==
  ASSUME NEW p \in Patch, FromDiff(p), NEW r \in Nat, r + 1 <= Len(p.lines),
         NEW f, NEW s, NEW in \in BOOLEAN, NEW old, NEW new, NEW d,
         ReadTo(p, r, f, s, in, old, new, d), p.lines[r + 1].kind = "junk"
  PROVE  ReadTo(p, r + 1, f, s, in, old, new, d)
  <1> DEFINE ls == p.lines
  <1>1. FileAt(ls, r + 1, f)
    BY FileNext DEF ReadTo
  <1>2. \A k \in 1..(r + 1) : k \in 1..r \/ k = r + 1
    OBVIOUS
  <1>3. SpanAt(p, r + 1, s, in, old, new)
    <2>1. CASE s = NoSpan
      BY <1>2, <2>1 DEF ReadTo, SpanAt
    <2>2. CASE s # NoSpan
      <3>1. PICK i \in 1..r, e \in Files, j \in 1..Len(ls) : HunkAt(p, r, i, e, j, s, in, old, new)
        BY <2>2 DEF ReadTo, SpanAt
      <3>2. i \in 1..(r + 1) /\ \A k \in (i + 1)..(r + 1) : k \in (i + 1)..r \/ k = r + 1
        OBVIOUS
      <3>3. \A k \in (i + 1)..(r + 1) : ls[k].kind # "@"
        BY <3>1, <3>2 DEF HunkAt
      <3> DEFINE h == HunkOf(p, e, i)
      <3>4. Says(ls, i, j, h) /\ CodeAt(ls, i, j, h, r, in, old, new)
        BY <3>1 DEF HunkAt
      <3> HIDE DEF h
      <3>5. /\ Count(ls, i, r + 1, OldKinds) = Count(ls, i, r, OldKinds)
            /\ Count(ls, i, r + 1, NewKinds) = Count(ls, i, r, NewKinds)
        <4>1. i \in Nat /\ i <= r /\ "junk" \notin OldKinds /\ "junk" \notin NewKinds
          BY DEF OldKinds, NewKinds
        <4>2. /\ Count(ls, i, r, OldKinds) \in Nat
              /\ Count(ls, i, r + 1, OldKinds) = Count(ls, i, r, OldKinds) + 0
          BY <4>1, CountNext
        <4>3. /\ Count(ls, i, r, NewKinds) \in Nat
              /\ Count(ls, i, r + 1, NewKinds) = Count(ls, i, r, NewKinds) + 0
          BY <4>1, CountNext
        <4> QED
          BY <4>2, <4>3
      <3>6. in => r + 1 < j
        <4>1. SUFFICES ASSUME in, r + 1 = j PROVE FALSE
          <5>1. in => r < j
            BY <3>4 DEF CodeAt
          <5>2. j \in Int
            OBVIOUS
          <5> QED
            BY <5>1, <5>2
        <4>2. /\ Count(ls, i, r, OldKinds) = Len(h.old) /\ Count(ls, i, r, NewKinds) = Len(h.new)
          BY <3>4, <3>5, <4>1 DEF Says
        <4> QED
          BY <3>4, <4>1, <4>2 DEF CodeAt
      <3>7. CodeAt(ls, i, j, h, r + 1, in, old, new)
        BY <3>4, <3>5, <3>6 DEF CodeAt
      <3>8. HunkAt(p, r + 1, i, e, j, s, in, old, new)
        BY <3>1, <3>3, <3>7 DEF HunkAt, h
      <3> QED
        BY <2>2, <3>2, <3>8 DEF SpanAt
    <2> QED
      BY <2>1, <2>2
  <1>4. DictAt(p, r + 1, in, f, d)
    <2>1. ASSUME NEW e \in Files
          PROVE  Complete(p, e, r + 1, in, f) = Complete(p, e, r, in, f)
      <3>1. Cardinality(HeadersOf(ls, e, r)) \in Nat
        BY Headers
      <3>2. Cardinality(HeadersOf(ls, e, r + 1)) = Cardinality(HeadersOf(ls, e, r)) + 0
        BY HeadersNext
      <3>3. Cardinality(HeadersOf(ls, e, r + 1)) = Cardinality(HeadersOf(ls, e, r))
        BY <3>1, <3>2
      <3> QED
        BY <3>3 DEF Complete
    <2> QED
      BY <2>1 DEF ReadTo, DictAt
  <1> QED
    BY <1>1, <1>3, <1>4 DEF ReadTo

\* Between two hunks of a patch nothing is being read.
LEMMA ReadWhole ==
  ASSUME NEW p \in Patch, NEW r \in Nat, r <= Len(p.lines),
         NEW f, NEW s, NEW in \in BOOLEAN, NEW old, NEW new, NEW d,
         ReadTo(p, r, f, s, in, old, new, d),
         r = Len(p.lines) \/ p.lines[r + 1].kind \in {"diff", "@"}
  PROVE  ~in
  <1> SUFFICES ASSUME in PROVE FALSE
    OBVIOUS
  <1> DEFINE ls == p.lines
  <1>0. Len(ls) \in Nat
    BY DEF Patch
  <1>1. PICK i \in 1..r, e \in Files, j \in 1..Len(ls) : HunkAt(p, r, i, e, j, s, in, old, new)
    BY DEF ReadTo, SpanAt
  <1>2. r < j /\ Says(ls, i, j, HunkOf(p, e, i))
    BY <1>1 DEF HunkAt, CodeAt
  <1>3. r + 1 \in (i + 1)..j /\ r # Len(ls)
    BY <1>0, <1>2
  <1>4. IsCode(ls[r + 1]) \/ ls[r + 1].kind = "junk"
    BY <1>2, <1>3 DEF Says
  <1> QED
    BY <1>3, <1>4 DEF IsCode, OldKinds, NewKinds

\* The header of a hunk; one that has no lines is complete at once.
LEMMA ReadHeader ==
  ASSUME NEW p \in Patch, FromDiff(p), NEW r \in Nat, r + 1 <= Len(p.lines),
         NEW f, NEW s, NEW in \in BOOLEAN, NEW old, NEW new, NEW d \in Seq(DictEntry),
         ReadTo(p, r, f, s, in, old, new, d), p.lines[r + 1].kind = "@"
  PROVE  LET n == p.lines[r + 1].span
         IN  /\ f \in Files
             /\ 0 = n.ol /\ 0 = n.nl =>
                  ReadTo(p, r + 1, f, n, FALSE, <<>>, <<>>,
                         AddHunk(d, f, [os |-> n.os, ns |-> n.ns, old |-> <<>>, new |-> <<>>]))
             /\ ~(0 = n.ol /\ 0 = n.nl) =>
                  ReadTo(p, r + 1, f, n, TRUE, <<>>, <<>>, d)
  <1> DEFINE ls == p.lines
             i == r + 1
             n == ls[i].span
             h == HunkOf(p, f, i)
  <1>0. ls \in Seq(PatchLine) /\ Len(ls) \in Nat /\ i \in 1..Len(ls) /\ i \in Nat /\ i - 1 = r
    <2>1. ls \in Seq(PatchLine)
      BY DEF Patch
    <2>2. Len(ls) \in Nat /\ i <= Len(ls)
      BY <2>1
    <2> HIDE DEF ls
    <2> QED
      BY <2>1, <2>2
  <1>1. ~in
    BY ReadWhole
  <1>2. f \in Files /\ About(ls, f, i)
    <2>1. PICK g \in Files : About(ls, g, i)
      BY <1>0 DEF FromDiff
    <2>2. About(ls, g, r)
      BY <2>1, AboutNext
    <2>3. f = g
      BY <2>2, FileNext DEF ReadTo
    <2> QED
      BY <2>1, <2>3
  <1>3. FileAt(ls, i, f)
    BY FileNext DEF ReadTo
  <1> DEFINE c == Cardinality(HeadersOf(ls, f, i))
             b == Cardinality(HeadersOf(ls, f, r))
  <1>4. c \in 1..Len(p.changes[f]) /\ c = b + 1 /\ h = p.changes[f][c] /\ h \in Hunk
    BY <1>0, <1>2, HeaderRead
  <1>5. PICK j \in i..Len(ls) : Says(ls, i, j, h)
    BY <1>0, <1>2, HeaderRead
  <1>b. b \in Nat
    BY Headers
  <1> HIDE DEF h
  <1>6. n = [os |-> h.os, ol |-> Len(h.old), ns |-> h.ns, nl |-> Len(h.new)]
    BY <1>5 DEF Says
  <1>7. /\ Count(ls, i, i, OldKinds) = 0 /\ Count(ls, i, i, NewKinds) = 0
    BY <1>0, CountNone
  <1>8. n # NoSpan
    <2>1. n.ol = Len(h.old) /\ Len(h.old) \in Nat
      BY <1>4, <1>6, HunkNumbers
    <2> QED
      BY <2>1 DEF NoSpan
  <1>9. ASSUME NEW now \in BOOLEAN, CodeAt(ls, i, j, h, i, now, <<>>, <<>>)
        PROVE  SpanAt(p, i, n, now, <<>>, <<>>)
    <2>1. i \in 1..i /\ j \in 1..Len(ls) /\ i <= j
      BY <1>0
    <2>2. \A k \in (i + 1)..i : ls[k].kind # "@"
      OBVIOUS
    <2>3. HunkAt(p, i, i, f, j, n, now, <<>>, <<>>)
      BY <1>2, <1>5, <1>9, <2>1, <2>2 DEF HunkAt, h
    <2> QED
      BY <1>2, <1>8, <2>1, <2>3 DEF SpanAt
  <1>10. /\ Len(<<>>) = 0
         /\ \A k \in 1..0 : <<>>[k] = h.old[k] /\ <<>>[k] = h.new[k]
    OBVIOUS
  <1>11. ASSUME NEW e \in Files, e # f, NEW now
         PROVE  Listed(d, e, p.changes[e], Complete(p, e, i, now, f))
    <2>1. Listed(d, e, p.changes[e], Complete(p, e, r, in, f))
      BY DEF ReadTo, DictAt
    <2>2. ~About(ls, e, i)
      BY <1>0, <1>2, <1>11, AboutOne
    <2>3. /\ Cardinality(HeadersOf(ls, e, r)) \in Nat
          /\ Cardinality(HeadersOf(ls, e, r + 1)) = Cardinality(HeadersOf(ls, e, r)) + 0
      BY <2>2, Headers, HeadersNext
    <2>4. Complete(p, e, i, now, f) = Complete(p, e, r, in, f)
      BY <1>1, <1>11, <2>3 DEF Complete
    <2> QED
      BY <2>1, <2>4
  <1>12. Listed(d, f, p.changes[f], b)
    <2>1. Complete(p, f, r, in, f) = b
      BY <1>1, <1>b DEF Complete
    <2> QED
      BY <1>2, <2>1 DEF ReadTo, DictAt
  <1>13. Complete(p, f, i, FALSE, f) = c /\ Complete(p, f, i, TRUE, f) = b
    BY <1>4, <1>b DEF Complete
  <1>14. CASE 0 = n.ol /\ 0 = n.nl
    <2> DEFINE g == [os |-> n.os, ns |-> n.ns, old |-> <<>>, new |-> <<>>]
               a == AddHunk(d, f, g)
    <2>1. Len(h.old) = 0 /\ Len(h.new) = 0 /\ n.os = h.os /\ n.ns = h.ns
      BY <1>6, <1>14
    <2>2. g = h
      <3>1. <<>> \in Seq(Text)
        OBVIOUS
      <3> DEFINE none == <<>>
      <3>3. none \in Seq(Text) /\ Len(none) = 0 /\ \A k \in 1..Len(none) : FALSE
        BY <3>1
      <3> HIDE DEF none
      <3>4. h = [os |-> h.os, ns |-> h.ns, old |-> none, new |-> none]
        <4>1. Len(none) = Len(h.old) /\ Len(none) = Len(h.new) /\ h \in Hunk
          BY <1>4, <2>1, <3>3
        <4>2. /\ \A k \in 1..Len(none) : none[k] = h.old[k]
              /\ \A k \in 1..Len(none) : none[k] = h.new[k]
          BY <3>3
        <4> QED
          BY ONLY ZenonT(60), <3>3, <4>1, <4>2, CodeIs
      <3>2. h = [os |-> h.os, ns |-> h.ns, old |-> <<>>, new |-> <<>>]
        BY <3>4 DEF none
      <3> QED
        BY <2>1, <3>2
    <2>3. CodeAt(ls, i, j, h, i, FALSE, <<>>, <<>>)
      BY <1>10, <2>1 DEF CodeAt
    <2>4. SpanAt(p, i, n, FALSE, <<>>, <<>>)
      BY <1>9, <2>3
    <2> HIDE DEF g, n, c, b
    <2>5. Listed(a, f, p.changes[f], c)
      <3>1. c \in {b, b + 1} /\ c # 0
        BY <1>4
      <3> QED
        BY <1>2, <1>4, <1>b, <1>12, <2>2, <3>1, ListedMore
    <2>6. ASSUME NEW e \in Files, e # f
          PROVE  Listed(a, e, p.changes[e], Complete(p, e, i, FALSE, f))
      BY <1>2, <1>4, <1>11, <2>2, <2>6, ListedOther
    <2>7. DictAt(p, i, FALSE, f, a)
      <3> HIDE DEF a
      <3> QED
        BY <1>13, <2>5, <2>6 DEF DictAt
    <2>8. ReadTo(p, i, f, n, FALSE, <<>>, <<>>, a)
      BY <1>3, <2>4, <2>7 DEF ReadTo
    <2> QED
      BY <1>2, <1>14, <2>8 DEF g, n
  <1>15. CASE ~(0 = n.ol /\ 0 = n.nl)
    <2>1. ~(Len(h.old) = 0 /\ Len(h.new) = 0)
      BY <1>6, <1>15
    <2>2. i # j
      <3>1. Count(ls, i, j, OldKinds) = Len(h.old) /\ Count(ls, i, j, NewKinds) = Len(h.new)
        BY <1>5 DEF Says
      <3> QED
        BY <1>7, <2>1, <3>1
    <2>3. i < j
      BY <2>2
    <2>4. CodeAt(ls, i, j, h, i, TRUE, <<>>, <<>>)
      BY <1>7, <1>10, <2>1, <2>3 DEF CodeAt
    <2>5. SpanAt(p, i, n, TRUE, <<>>, <<>>)
      BY <1>9, <2>4
    <2> HIDE DEF n, c, b
    <2>6. DictAt(p, i, TRUE, f, d)
      BY <1>11, <1>12, <1>13 DEF DictAt
    <2> QED
      BY <1>2, <1>3, <1>15, <2>5, <2>6 DEF ReadTo, n
  <1> QED
    BY <1>14, <1>15

\* A line of code: of the hunk that is being read, or text behind one that is
\* complete, which then comes again.
LEMMA ReadCode ==
  ASSUME NEW p \in Patch, FromDiff(p), NEW r \in Nat, r + 1 <= Len(p.lines),
         NEW f, NEW s, s # NoSpan, NEW in \in BOOLEAN,
         NEW old \in Seq(Text), NEW new \in Seq(Text), NEW d \in Seq(DictEntry),
         ReadTo(p, r, f, s, in, old, new, d), IsCode(p.lines[r + 1]),
         NEW old2, old2 = (IF in /\ p.lines[r + 1].kind \in OldKinds
                           THEN Append(old, p.lines[r + 1].text) ELSE old),
         NEW new2, new2 = (IF in /\ p.lines[r + 1].kind \in NewKinds
                           THEN Append(new, p.lines[r + 1].text) ELSE new)
  PROVE  /\ Len(old2) = s.ol /\ Len(new2) = s.nl =>
              ReadTo(p, r + 1, f, s, FALSE, old2, new2,
                     AddHunk(d, f, [os |-> s.os, ns |-> s.ns, old |-> old2, new |-> new2]))
         /\ ~(Len(old2) = s.ol /\ Len(new2) = s.nl) =>
              ReadTo(p, r + 1, f, s, in, old2, new2, d)
  <1> DEFINE ls == p.lines
             l == ls[r + 1]
  <1>0. ls \in Seq(PatchLine) /\ Len(ls) \in Nat /\ r + 1 \in 1..Len(ls)
    <2>1. ls \in Seq(PatchLine)
      BY DEF Patch
    <2>2. Len(ls) \in Nat /\ r + 1 <= Len(ls)
      BY <2>1
    <2> HIDE DEF ls
    <2> QED
      BY <2>1, <2>2
  <1>1. l.text \in Text /\ l.kind # "diff" /\ l.kind # "@"
    <2>1. l \in PatchLine
      BY <1>0
    <2>2. l.kind \in {" ", "-", "+"}
      BY DEF IsCode, OldKinds, NewKinds
    <2> HIDE DEF l
    <2> QED
      BY <2>1, <2>2 DEF PatchLine
  <1>2. PICK i \in 1..r, g \in Files, j \in 1..Len(ls) : HunkAt(p, r, i, g, j, s, in, old, new)
    BY DEF ReadTo, SpanAt
  <1> DEFINE h == HunkOf(p, g, i)
             c == Cardinality(HeadersOf(ls, g, i))
  <1>3. /\ i <= j /\ ls[i].kind = "@" /\ \A k \in (i + 1)..r : ls[k].kind # "@"
        /\ About(ls, g, i) /\ s = ls[i].span /\ Says(ls, i, j, h)
        /\ CodeAt(ls, i, j, h, r, in, old, new)
    BY <1>2 DEF HunkAt
  <1>4. c \in 1..Len(p.changes[g]) /\ h = p.changes[g][c] /\ h \in Hunk
    <2>1. i \in 1..Len(ls)
      BY <1>0
    <2> QED
      BY <1>3, <2>1, HeaderRead
  <1> HIDE DEF h, c
  <1>5. s = [os |-> h.os, ol |-> Len(h.old), ns |-> h.ns, nl |-> Len(h.new)]
    BY <1>3 DEF Says
  <1>6. i \in Nat /\ j \in Nat /\ i <= r /\ r \in Nat /\ r + 1 \in Nat
    OBVIOUS
  <1>7. \A k \in (i + 1)..(r + 1) : ls[k].kind # "diff" /\ ls[k].kind # "@"
    <2>1. ASSUME in, NEW k \in (i + 1)..(r + 1) PROVE ls[k].kind # "diff"
      <3>1. r < j
        BY <1>3, <2>1 DEF CodeAt
      <3>2. k \in (i + 1)..j
        BY <1>6, <3>1
      <3>3. IsCode(ls[k]) \/ ls[k].kind = "junk"
        BY <1>3, <3>2 DEF Says
      <3> QED
        BY <3>3 DEF IsCode, OldKinds, NewKinds
    <2>2. ASSUME ~in, NEW k \in (i + 1)..(r + 1) PROVE ls[k].kind # "diff"
      <3>1. PICK b \in 1..(r + 1) : ls[b].kind = "@" /\ \A m \in b..(r + 1) : ls[m].kind # "diff"
        BY <1>0 DEF FromDiff
      <3>2. b # r + 1 /\ b \notin (i + 1)..r
        BY <1>1, <1>3, <3>1
      <3>3. k \in b..(r + 1)
        BY <1>6, <3>2
      <3> QED
        BY <3>1, <3>3
    <2>3. \A k \in (i + 1)..(r + 1) : k \in (i + 1)..r \/ k = r + 1
      BY <1>6
    <2> QED
      BY <1>1, <1>3, <2>1, <2>2, <2>3
  <1>8. f = g /\ FileAt(ls, r + 1, f)
    <2>1. \A m \in (i + 1)..r : ls[m].kind # "diff"
      BY <1>6, <1>7
    <2>2. About(ls, g, r)
      BY <1>3, <1>6, <2>1, AboutLater
    <2> QED
      BY <1>1, <2>2, FileNext DEF ReadTo
  <1>9. \A k \in (i + 1)..(r + 1) : ls[k].kind # "@"
    BY <1>7
  <1>10. /\ in => /\ Len(old2) = Count(ls, i, r + 1, OldKinds)
                  /\ Len(new2) = Count(ls, i, r + 1, NewKinds)
         /\ ~in => Len(old2) = Len(h.old) /\ Len(new2) = Len(h.new)
         /\ old2 \in Seq(Text) /\ new2 \in Seq(Text)
         /\ \A k \in 1..Len(old2) : old2[k] = h.old[k]
         /\ \A k \in 1..Len(new2) : new2[k] = h.new[k]
    <2>1. CASE ~in
      <3>1. old2 = old /\ new2 = new
        BY <2>1
      <3> QED
        BY <1>3, <2>1, <3>1 DEF CodeAt
    <2>2. CASE in
      <3>1. r < j
        BY <1>3, <2>2 DEF CodeAt
      <3>2. r + 1 \in (i + 1)..j
        BY <1>6, <3>1
      <3>3. /\ l.kind \in OldKinds => l.text = h.old[Count(ls, i, r + 1, OldKinds)]
            /\ l.kind \in NewKinds => l.text = h.new[Count(ls, i, r + 1, NewKinds)]
        BY <1>3, <3>2 DEF Says
      <3>4. /\ Len(old) = Count(ls, i, r, OldKinds) /\ Len(new) = Count(ls, i, r, NewKinds)
            /\ \A k \in 1..Len(old) : old[k] = h.old[k]
            /\ \A k \in 1..Len(new) : new[k] = h.new[k]
        BY <1>3, <2>2 DEF CodeAt
      <3>5. /\ old2 = IF ls[r + 1].kind \in OldKinds THEN Append(old, ls[r + 1].text) ELSE old
            /\ new2 = IF ls[r + 1].kind \in NewKinds THEN Append(new, ls[r + 1].text) ELSE new
        BY <2>2
      <3> HIDE DEF ls
      <3>6. /\ old2 \in Seq(Text)
            /\ Len(old2) = Count(ls, i, r + 1, OldKinds)
            /\ \A k \in 1..Len(old2) : old2[k] = h.old[k]
        <4>1. Wanted(ls, i, r, OldKinds, h.old, old)
          BY <3>4 DEF Wanted
        <4>2. ls[r + 1].kind \in OldKinds =>
                ls[r + 1].text \in Text /\ ls[r + 1].text = h.old[Count(ls, i, r + 1, OldKinds)]
          BY <1>1, <3>3
        <4>3. Wanted(ls, i, r + 1, OldKinds, h.old, old2)
          BY ONLY <1>6, <3>5, <4>1, <4>2, CodeNext
        <4> QED
          BY ONLY <4>3 DEF Wanted
      <3>7. /\ new2 \in Seq(Text)
            /\ Len(new2) = Count(ls, i, r + 1, NewKinds)
            /\ \A k \in 1..Len(new2) : new2[k] = h.new[k]
        <4>1. Wanted(ls, i, r, NewKinds, h.new, new)
          BY <3>4 DEF Wanted
        <4>2. ls[r + 1].kind \in NewKinds =>
                ls[r + 1].text \in Text /\ ls[r + 1].text = h.new[Count(ls, i, r + 1, NewKinds)]
          BY <1>1, <3>3
        <4>3. Wanted(ls, i, r + 1, NewKinds, h.new, new2)
          BY ONLY <1>6, <3>5, <4>1, <4>2, CodeNext
        <4> QED
          BY ONLY <4>3 DEF Wanted
      <3> QED
        BY <2>2, <3>6, <3>7
    <2> QED
      BY <2>1, <2>2
  <1>11. ASSUME NEW now \in BOOLEAN, CodeAt(ls, i, j, h, r + 1, now, old2, new2)
         PROVE  SpanAt(p, r + 1, s, now, old2, new2)
    <2>1. i \in 1..(r + 1)
      BY <1>6
    <2>2. HunkAt(p, r + 1, i, g, j, s, now, old2, new2)
      BY <1>3, <1>9, <1>11 DEF HunkAt, h
    <2> QED
      BY <2>1, <2>2 DEF SpanAt
  <1>12. \A e \in Files : Cardinality(HeadersOf(ls, e, r + 1)) = Cardinality(HeadersOf(ls, e, r))
    <2>1. ASSUME NEW e \in Files
          PROVE  Cardinality(HeadersOf(ls, e, r + 1)) = Cardinality(HeadersOf(ls, e, r))
      <3>1. /\ Cardinality(HeadersOf(ls, e, r)) \in Nat
            /\ Cardinality(HeadersOf(ls, e, r + 1)) = Cardinality(HeadersOf(ls, e, r)) + 0
        BY <1>1, Headers, HeadersNext
      <3> QED
        BY <3>1
    <2> QED
      BY <2>1
  <1>13. Cardinality(HeadersOf(ls, f, r)) = c
    BY <1>3, <1>6, <1>8, HeadersSame DEF c
  <1>14. CASE Len(old2) = s.ol /\ Len(new2) = s.nl
    <2> DEFINE e == [os |-> s.os, ns |-> s.ns, old |-> old2, new |-> new2]
               a == AddHunk(d, f, e)
               b == Complete(p, f, r, in, f)
    <2>1. Len(old2) = Len(h.old) /\ Len(new2) = Len(h.new) /\ s.os = h.os /\ s.ns = h.ns
      BY <1>5, <1>14
    <2>2. e = h
      <3>1. h = [os |-> h.os, ns |-> h.ns, old |-> old2, new |-> new2]
        BY <1>4, <1>10, <2>1, CodeIs
      <3> QED
        BY <2>1, <3>1
    <2>3. CodeAt(ls, i, j, h, r + 1, FALSE, old2, new2)
      BY <1>10, <2>1 DEF CodeAt
    <2>4. SpanAt(p, r + 1, s, FALSE, old2, new2)
      BY <1>11, <2>3
    <2>5. b \in Nat /\ c \in {b, b + 1} /\ c # 0 /\ Complete(p, f, r + 1, FALSE, f) = c
      <3>1. c \in Nat /\ c >= 1
        BY <1>4
      <3>2. b = c - (IF in THEN 1 ELSE 0)
        BY <1>13 DEF Complete
      <3> DEFINE w == Complete(p, f, r + 1, FALSE, f)
      <3>3. w = c - 0
        BY <1>8, <1>12, <1>13 DEF Complete
      <3> HIDE DEF b, w
      <3>4. w = c
        BY ONLY <3>1, <3>3
      <3>5. b \in Nat /\ c \in {b, b + 1} /\ c # 0
        BY ONLY <3>1, <3>2
      <3> QED
        BY <3>4, <3>5 DEF w
    <2> HIDE DEF e, b
    <2>6. Listed(a, f, p.changes[f], c)
      <3>1. Listed(d, f, p.changes[f], b) /\ f \in Files
        BY <1>8 DEF ReadTo, DictAt, b
      <3> QED
        BY <1>4, <1>8, <2>2, <2>5, <3>1, ListedMore
    <2>7. ASSUME NEW q \in Files, q # f
          PROVE  Listed(a, q, p.changes[q], Complete(p, q, r + 1, FALSE, f))
      <3>1. Complete(p, q, r + 1, FALSE, f) = Complete(p, q, r, in, f)
        BY <1>12, <2>7 DEF Complete
      <3>2. Listed(d, q, p.changes[q], Complete(p, q, r, in, f))
        BY DEF ReadTo, DictAt
      <3> QED
        BY <1>4, <1>8, <2>2, <2>7, <3>1, <3>2, ListedOther
    <2>8. DictAt(p, r + 1, FALSE, f, a)
      <3> HIDE DEF a
      <3> QED
        BY <2>5, <2>6, <2>7 DEF DictAt
    <2>9. ReadTo(p, r + 1, f, s, FALSE, old2, new2, a)
      BY <1>8, <2>4, <2>8 DEF ReadTo
    <2> QED
      BY <1>14, <2>9 DEF e
  <1>15. CASE ~(Len(old2) = s.ol /\ Len(new2) = s.nl)
    <2>1. ~(Len(old2) = Len(h.old) /\ Len(new2) = Len(h.new))
      BY <1>5, <1>15
    <2>2. in
      BY <1>10, <2>1
    <2>3. r + 1 # j
      <3>1. Count(ls, i, j, OldKinds) = Len(h.old) /\ Count(ls, i, j, NewKinds) = Len(h.new)
        BY <1>3 DEF Says
      <3> QED
        BY <1>10, <2>1, <2>2, <3>1
    <2>4. r + 1 < j
      <3>1. r < j
        BY <1>3, <2>2 DEF CodeAt
      <3> QED
        BY <1>6, <2>3, <3>1
    <2>5. CodeAt(ls, i, j, h, r + 1, in, old2, new2)
      BY <1>10, <2>1, <2>2, <2>4 DEF CodeAt
    <2>6. SpanAt(p, r + 1, s, in, old2, new2)
      BY <1>11, <2>5
    <2>7. DictAt(p, r + 1, in, f, d)
      <3>1. \A q \in Files : Complete(p, q, r + 1, in, f) = Complete(p, q, r, in, f)
        BY <1>12 DEF Complete
      <3> QED
        BY <3>1 DEF ReadTo, DictAt
    <2>8. ReadTo(p, r + 1, f, s, in, old2, new2, d)
      BY <1>8, <2>6, <2>7 DEF ReadTo
    <2> QED
      BY <1>15, <2>8
  <1> QED
    BY <1>14, <1>15

\* The first line, and the last one.
LEMMA ReadNothing ==
  ASSUME NEW p \in Patch, NEW old, NEW new
  PROVE  ReadTo(p, 0, NoFile, NoSpan, FALSE, old, new, <<>>)
  <1>1. FileAt(p.lines, 0, NoFile)
    BY DEF FileAt
  <1>2. SpanAt(p, 0, NoSpan, FALSE, old, new)
    BY DEF SpanAt
  <1>3. ASSUME NEW f \in Files PROVE Listed(<<>>, f, p.changes[f], Complete(p, f, 0, FALSE, NoFile))
    <2>1. Complete(p, f, 0, FALSE, NoFile) = 0
      BY HeadersNone DEF Complete
    <2> QED
      BY <2>1 DEF Listed
  <1> QED
    BY <1>1, <1>2, <1>3 DEF ReadTo, DictAt

LEMMA ReadAll ==
  ASSUME NEW p \in Patch, FromDiff(p), NEW f, NEW s, NEW in \in BOOLEAN, NEW old, NEW new,
         NEW d \in Seq(DictEntry), ReadTo(p, Len(p.lines), f, s, in, old, new, d),
         NEW g \in Files
  PROVE  Listed(d, g, p.changes[g], Len(p.changes[g]))
  <1>0. Len(p.lines) \in Nat
    BY DEF Patch
  <1>1. ~in
    BY <1>0, ReadWhole
  <1>2. Len(p.changes[g]) = Cardinality(HeadersOf(p.lines, g, Len(p.lines)))
    BY DEF FromDiff
  <1>3. Cardinality(HeadersOf(p.lines, g, Len(p.lines))) \in Nat
    BY <1>0, Headers
  <1>4. Complete(p, g, Len(p.lines), in, f) = Len(p.changes[g])
    BY <1>1, <1>2, <1>3 DEF Complete
  <1> QED
    BY <1>4 DEF ReadTo, DictAt

-----------------------------------------------------------------------------
(* The lines, step by step.                                                 *)

LEMMA PatchOfCase ==
  ASSUME TypeOK
  PROVE  /\ patch \in Patch /\ patch.lines \in Seq(PatchLine) /\ Len(patch.lines) \in Nat
         /\ patch.changes \in [Files -> Seq(Hunk)]
         /\ FromDiff(patch) \/ Unreadable(patch)
  <1>1. patch \in Patch
    BY PatchAssumption DEF TypeOK
  <1>2. FromDiff(patch) \/ Unreadable(patch)
    BY CasesAssumption DEF TypeOK
  <1>3. patch.lines \in Seq(PatchLine) /\ patch.changes \in [Files -> Seq(Hunk)]
    BY <1>1 DEF Patch
  <1> HIDE DEF Patch
  <1>4. Len(patch.lines) \in Nat
    BY <1>3
  <1> QED
    BY <1>1, <1>2, <1>3, <1>4

\* The head of what is left is the next line.
LEMMA NextLine ==
  ASSUME TypeOK, LinesLeft, pc = "parse", lines # <<>>
  PROVE  /\ ReadSoFar \in Nat /\ ReadSoFar + 1 <= Len(patch.lines)
         /\ ReadSoFar + 1 \in 1..Len(patch.lines)
         /\ Head(lines) = patch.lines[ReadSoFar + 1]
         /\ Len(Tail(lines)) = Len(lines) - 1
         /\ \A k \in 1..(Len(lines) - 1) : k + 1 \in 1..Len(lines) /\ Tail(lines)[k] = lines[k + 1]
         /\ Len(lines) \in Nat /\ Len(lines) >= 1 /\ Head(lines) = lines[1]
  <1> DEFINE a == Len(patch.lines)
             b == Len(lines)
  <1>1. lines \in Seq(PatchLine)
    BY DEF TypeOK
  <1>2. /\ Head(lines) = lines[1] /\ Len(Tail(lines)) = b - 1
        /\ \A k \in 1..Len(Tail(lines)) : Tail(lines)[k] = lines[k + 1]
        /\ b \in Nat /\ b # 0
    BY <1>1, HeadTailProperties, EmptySeq
  <1>3. a \in Nat
    BY PatchOfCase
  <1>4. /\ b <= a /\ \A k \in 1..b : lines[k] = patch.lines[ReadSoFar + k]
    BY DEF LinesLeft
  <1>5. ReadSoFar = a - b
    BY DEF ReadSoFar
  <1> HIDE DEF a, b
  <1>6. ReadSoFar \in Nat /\ ReadSoFar + 1 <= a /\ ReadSoFar + 1 \in 1..a /\ 1 \in 1..b /\ b >= 1
    BY <1>2, <1>3, <1>4, <1>5
  <1>7. \A k \in 1..(b - 1) : k + 1 \in 1..b
    BY <1>2
  <1> QED
    BY <1>2, <1>4, <1>6, <1>7 DEF a, b

LEMMA LineRead ==
  ASSUME TypeOK, LinesLeft, pc = "parse", lines # <<>>,
         patch' = patch, lines' = Tail(lines)
  PROVE  /\ ReadSoFar' = ReadSoFar + 1
         /\ LinesLeft'
  <1> DEFINE a == Len(patch.lines)
             b == Len(lines)
             r == ReadSoFar
  <1>1. /\ r \in Nat /\ r + 1 <= a /\ Len(lines') = b - 1 /\ b \in Nat /\ b >= 1
        /\ \A k \in 1..(b - 1) : k + 1 \in 1..b /\ lines'[k] = lines[k + 1]
    BY NextLine
  <1>2. a \in Nat
    BY PatchOfCase
  <1>3. \A k \in 1..b : lines[k] = patch.lines[r + k]
    BY DEF LinesLeft
  <1>4. r = a - b
    BY DEF ReadSoFar
  <1> DEFINE q == ReadSoFar'
  <1>5. q = a - Len(lines')
    BY DEF ReadSoFar
  <1>6. a' = a
    OBVIOUS
  <1> HIDE DEF a, b, r, q
  <1>7. q = r + 1 /\ Len(lines') <= a
    BY <1>1, <1>2, <1>4, <1>5
  <1>8. \A k \in 1..Len(lines') : lines'[k] = patch.lines[q + k]
    <2>1. SUFFICES ASSUME NEW k \in 1..(b - 1) PROVE lines'[k] = patch.lines[q + k]
      BY <1>1
    <2>2. q + k = r + (k + 1)
      BY <1>1, <1>7
    <2> QED
      BY <1>1, <1>3, <2>2
  <1>9. q = r + 1
    BY <1>7
  <1>10. LinesLeft'
    BY <1>6, <1>7, <1>8 DEF LinesLeft, a, q
  <1> QED
    BY <1>9, <1>10 DEF q, r

LEMMA LinesStep == TypeOK /\ LinesLeft /\ [Next]_vars => LinesLeft'
  <1> SUFFICES ASSUME TypeOK, LinesLeft, [Next]_vars PROVE LinesLeft'
    OBVIOUS
  <1> USE DEF parsing, applying
  <1>1. CASE DiffLine \/ JunkLine \/ HunkLine \/ CodeLine
    <2>1. pc = "parse" /\ lines # <<>> /\ patch' = patch /\ lines' = Tail(lines)
      BY <1>1 DEF DiffLine, JunkLine, HunkLine, CodeLine, AtLine
    <2> QED
      BY <2>1, LineRead
  <1>2. CASE pc' # "parse"
    BY <1>2 DEF LinesLeft
  <1>3. CASE Again
    <2>1. patch' = patch /\ lines' = patch.lines
      BY <1>3 DEF Again
    <2>2. Len(patch.lines) \in Nat
      BY PatchOfCase
    <2>3. ReadSoFar' = 0
      BY <2>1, <2>2 DEF ReadSoFar
    <2>4. \A k \in 1..Len(patch.lines) : 0 + k = k
      OBVIOUS
    <2> QED
      BY <2>1, <2>2, <2>3, <2>4 DEF LinesLeft
  <1>4. CASE UNCHANGED vars
    BY <1>4 DEF vars, LinesLeft, ReadSoFar
  <1>5. CASE \/ BadDiffLine \/ BadHunkLine \/ BadCodeLine \/ Parsed \/ NothingParsed
             \/ OpenFile \/ OpenFails \/ ApplyHunk \/ HunkFails \/ Truncate \/ TruncateFails
             \/ Write \/ WriteFails \/ Finish
    <2>1. pc' # "parse"
      BY <1>5 DEF BadDiffLine, BadHunkLine, BadCodeLine, Parsed, NothingParsed, OpenFile,
         OpenFails, ApplyHunk, HunkFails, Truncate, TruncateFails, Write, WriteFails, Finish,
         Fail
    <2> QED
      BY <1>2, <2>1
  <1> QED
    BY <1>1, <1>3, <1>4, <1>5 DEF Next, Step, Done

LEMMA PatchStays == [Next]_vars => patch' = patch
  BY DEF Next, Step, Done, vars, DiffLine, JunkLine, HunkLine, CodeLine, BadDiffLine,
     BadHunkLine, BadCodeLine, Parsed, NothingParsed, OpenFile, OpenFails, ApplyHunk,
     HunkFails, Truncate, TruncateFails, Write, WriteFails, Finish, Again, Fail

\* A line of a patch that cannot be read.
LEMMA NothingStep ==
  TypeOK /\ LinesLeft /\ Unreadable(patch) /\ NothingRead /\ [Next]_vars => NothingRead'
  <1> SUFFICES ASSUME TypeOK, LinesLeft, Unreadable(patch), NothingRead, [Next]_vars
               PROVE  NothingRead'
    OBVIOUS
  <1> USE DEF parsing, applying
  <1>0. patch' = patch
    BY PatchStays
  <1>n. NoFileNamed' <=> NoFileNamed
    BY <1>0 DEF NoFileNamed
  <1>1. ASSUME pc = "parse", lines # <<>>, NoFileNamed PROVE ~DiffLine
    BY <1>1, NextLine DEF NoFileNamed, DiffLine, AtLine
  <1>2. ASSUME pc = "parse", lines # <<>>, lines' = Tail(lines), CodeAhead, ~IsCode(Head(lines))
        PROVE  CodeAhead'
    <2>1. PICK k \in 1..Len(lines) : IsCode(lines[k]) /\ \A m \in 1..k : lines[m].kind # "@"
      BY <1>2 DEF CodeAhead
    <2>2. /\ Len(lines') = Len(lines) - 1 /\ Len(lines) \in Nat /\ Head(lines) = lines[1]
          /\ \A m \in 1..(Len(lines) - 1) : m + 1 \in 1..Len(lines) /\ lines'[m] = lines[m + 1]
      BY <1>2, NextLine
    <2>3. k # 1
      BY <1>2, <2>1, <2>2
    <2> DEFINE n == Len(lines)
    <2>4. n \in Nat /\ k \in 1..n
      BY <2>2
    <2> HIDE DEF n
    <2>5. k - 1 \in 1..(n - 1) /\ k - 1 + 1 = k
      BY <2>3, <2>4
    <2>6. \A m \in 1..(k - 1) : m \in 1..(n - 1) /\ m + 1 \in 1..k
      BY <2>4
    <2>7. lines'[k - 1] = lines[k]
      BY <2>2, <2>5 DEF n
    <2>8. \A m \in 1..(k - 1) : lines'[m].kind # "@"
      <3>1. \A m \in 1..(k - 1) : lines'[m] = lines[m + 1]
        BY <2>2, <2>6 DEF n
      <3> QED
        BY <2>1, <2>6, <3>1
    <2>9. k - 1 \in 1..Len(lines') /\ IsCode(lines'[k - 1])
      BY <2>1, <2>2, <2>5, <2>7 DEF n
    <2> QED
      BY <2>8, <2>9 DEF CodeAhead
  <1>3. CASE DiffLine \/ JunkLine
    <2>1. /\ pc = "parse" /\ pc' = "parse" /\ lines # <<>> /\ lines' = Tail(lines)
          /\ dict' = dict /\ span' = span /\ (JunkLine => file' = file)
          /\ Head(lines).kind \in {"diff", "junk"}
      BY <1>3 DEF DiffLine, JunkLine, AtLine
    <2>2. ~IsCode(Head(lines))
      BY <2>1 DEF IsCode, OldKinds, NewKinds
    <2> QED
      BY <1>n, <1>1, <1>2, <1>3, <2>1, <2>2 DEF NothingRead
  <1>4. CASE HunkLine
    <2> DEFINE s == Head(lines).span
    <2>1. /\ pc = "parse" /\ pc' = "parse" /\ lines # <<>> /\ Head(lines).kind = "@"
          /\ ~Unset(s, <<>>, <<>>) /\ EndOfLine(s, TRUE, <<>>, <<>>) /\ file' = file
      BY <1>4 DEF HunkLine, AtLine
    <2>2. ~CodeAhead
      <3>1. Head(lines) = lines[1] /\ \A k \in 1..Len(lines) : 1 \in 1..k
        BY <2>1, NextLine
      <3> QED
        BY <2>1, <3>1 DEF CodeAhead
    <2>3. file = NoFile /\ NoFileNamed
      BY <2>1, <2>2 DEF NothingRead
    <2> HIDE DEF s
    <2>4. dict' = dict
      BY <2>1, <2>3 DEF Unset, EndOfLine
    <2> QED
      BY <1>n, <2>1, <2>3, <2>4 DEF NothingRead
  <1>5. CASE CodeLine
    <2> DEFINE old == WithLine(oldcode, {" ", "-"})
               new == WithLine(newcode, {" ", "+"})
    <2>1. /\ pc = "parse" /\ pc' = "parse" /\ file' = file
          /\ ~Unset(span, old, new) /\ EndOfLine(span, inhunk, old, new)
      BY <1>5 DEF CodeLine, AtLine
    <2> HIDE DEF old, new
    <2>2. file = NoFile /\ NoFileNamed
      BY <2>1 DEF NothingRead, Unset
    <2>3. dict' = dict
      BY <2>1, <2>2 DEF Unset, EndOfLine
    <2> QED
      BY <1>n, <2>1, <2>2, <2>3 DEF NothingRead
  <1>6. CASE BadDiffLine \/ BadHunkLine \/ BadCodeLine \/ NothingParsed
    BY <1>6 DEF BadDiffLine, BadHunkLine, BadCodeLine, NothingParsed, Fail, NothingRead
  <1>7. CASE Again
    <2>1. pc' = "parse" /\ dict' = <<>> /\ lines' = patch.lines /\ file' = NoFile /\ span' = NoSpan
      BY <1>7 DEF Again
    <2>2. NoFileNamed \/ CodeAhead'
      BY <2>1 DEF Unreadable, NoFileNamed, CodeAhead
    <2> QED
      BY <1>n, <2>1, <2>2 DEF NothingRead
  <1>8. CASE UNCHANGED vars
    BY <1>8, <1>n DEF vars, NothingRead, CodeAhead
  <1>9. ~Parsed
    BY DEF Parsed, NothingRead
  <1>10. CASE \/ OpenFile \/ OpenFails \/ ApplyHunk \/ HunkFails \/ Truncate \/ TruncateFails
              \/ Write \/ WriteFails \/ Finish
    BY <1>10 DEF OpenFile, OpenFails, ApplyHunk, HunkFails, Truncate, TruncateFails, Write,
       WriteFails, Finish, NothingRead
  <1> QED
    BY <1>3, <1>4, <1>5, <1>6, <1>7, <1>8, <1>9, <1>10 DEF Next, Step, Done

\* A line of a patch that diff has written.
LEMMA ParsingStep ==
  TypeOK /\ LinesLeft /\ FromDiff(patch) /\ Parsing /\ [Next]_vars => Parsing'
  <1> SUFFICES ASSUME TypeOK, LinesLeft, FromDiff(patch), Parsing, [Next]_vars PROVE Parsing'
    OBVIOUS
  <1> USE DEF parsing, applying
  <1> DEFINE r == ReadSoFar
             ls == patch.lines
  <1>0. /\ patch \in Patch /\ patch' = patch
        /\ inhunk \in BOOLEAN /\ oldcode \in Seq(Text) /\ newcode \in Seq(Text)
        /\ dict \in Seq(DictEntry)
    BY PatchOfCase, PatchStays DEF TypeOK, DictEntry
  <1>1. ASSUME pc = "parse", lines # <<>>, lines' = Tail(lines)
        PROVE  /\ r \in Nat /\ r + 1 <= Len(ls) /\ ReadSoFar' = r + 1
               /\ Head(lines) = ls[r + 1]
               /\ ReadTo(patch, r, file, span, inhunk, oldcode, newcode, dict)
    BY <1>0, <1>1, NextLine, LineRead DEF Parsing
  <1>2. ASSUME ReadTo(patch, ReadSoFar', file', span', inhunk', oldcode', newcode', dict')
        PROVE  Parsing'
    BY <1>0, <1>2 DEF Parsing
  <1>3. CASE DiffLine
    <2>1. /\ pc = "parse" /\ lines # <<>> /\ lines' = Tail(lines) /\ Head(lines).kind = "diff"
          /\ file' = Head(lines).file /\ inhunk' = FALSE
          /\ UNCHANGED <<span, oldcode, newcode, dict>>
      BY <1>3 DEF DiffLine, AtLine
    <2>2. /\ r \in Nat /\ r + 1 <= Len(ls) /\ ReadSoFar' = r + 1
          /\ Head(lines) = ls[r + 1]
          /\ ReadTo(patch, r, file, span, inhunk, oldcode, newcode, dict)
      BY <1>1, <2>1
    <2> HIDE DEF r
    <2>3. ReadTo(patch, r + 1, ls[r + 1].file, span, FALSE, oldcode, newcode, dict)
      BY <1>0, <2>1, <2>2, ReadDiff
    <2> QED
      BY <1>2, <2>1, <2>2, <2>3
  <1>4. CASE JunkLine
    <2>1. /\ pc = "parse" /\ lines # <<>> /\ lines' = Tail(lines) /\ Head(lines).kind = "junk"
          /\ UNCHANGED <<file, span, inhunk, oldcode, newcode, dict>>
      BY <1>4 DEF JunkLine, AtLine
    <2>2. /\ r \in Nat /\ r + 1 <= Len(ls) /\ ReadSoFar' = r + 1
          /\ Head(lines) = ls[r + 1]
          /\ ReadTo(patch, r, file, span, inhunk, oldcode, newcode, dict)
      BY <1>1, <2>1
    <2> HIDE DEF r
    <2>3. ReadTo(patch, r + 1, file, span, inhunk, oldcode, newcode, dict)
      BY <1>0, <2>1, <2>2, ReadJunk
    <2> QED
      BY <1>2, <2>1, <2>2, <2>3
  <1>5. CASE HunkLine
    <2> DEFINE n == Head(lines).span
    <2>1. /\ pc = "parse" /\ lines # <<>> /\ lines' = Tail(lines) /\ Head(lines).kind = "@"
          /\ EndOfLine(n, TRUE, <<>>, <<>>)
          /\ span' = n /\ oldcode' = <<>> /\ newcode' = <<>> /\ file' = file
      BY <1>5 DEF HunkLine, AtLine
    <2>2. /\ r \in Nat /\ r + 1 <= Len(ls) /\ ReadSoFar' = r + 1
          /\ Head(lines) = ls[r + 1]
          /\ ReadTo(patch, r, file, span, inhunk, oldcode, newcode, dict)
      BY <1>1, <2>1
    <2> HIDE DEF r
    <2> DEFINE k == ls[r + 1].span
    <2>3. /\ 0 = k.ol /\ 0 = k.nl =>
               ReadTo(patch, r + 1, file, k, FALSE, <<>>, <<>>,
                      AddHunk(dict, file, [os |-> k.os, ns |-> k.ns, old |-> <<>>, new |-> <<>>]))
          /\ ~(0 = k.ol /\ 0 = k.nl) =>
               ReadTo(patch, r + 1, file, k, TRUE, <<>>, <<>>, dict)
      BY <1>0, <2>1, <2>2, ReadHeader
    <2>4. n = k
      BY <2>2
    <2> HIDE DEF n, k
    <2>5. Len(<<>>) = 0
      OBVIOUS
    <2>6. CASE 0 = k.ol /\ 0 = k.nl
      <3>1. /\ inhunk' = FALSE
            /\ dict' = AddHunk(dict, file, [os |-> k.os, ns |-> k.ns, old |-> <<>>, new |-> <<>>])
        BY <2>1, <2>4, <2>5, <2>6 DEF EndOfLine
      <3>2. ReadTo(patch, r + 1, file, k, FALSE, <<>>, <<>>, dict')
        BY <2>3, <2>6, <3>1
      <3> QED
        BY <1>2, <2>1, <2>2, <2>4, <3>1, <3>2
    <2>7. CASE ~(0 = k.ol /\ 0 = k.nl)
      <3>1. inhunk' = TRUE /\ dict' = dict
        BY <2>1, <2>4, <2>5, <2>7 DEF EndOfLine
      <3>2. ReadTo(patch, r + 1, file, k, TRUE, <<>>, <<>>, dict')
        BY <2>3, <2>7, <3>1
      <3> QED
        BY <1>2, <2>1, <2>2, <2>4, <3>1, <3>2
    <2> QED
      BY <2>6, <2>7
  <1>6. CASE CodeLine
    <2> DEFINE old == WithLine(oldcode, {" ", "-"})
               new == WithLine(newcode, {" ", "+"})
    <2>1. /\ pc = "parse" /\ lines # <<>> /\ lines' = Tail(lines)
          /\ Head(lines).kind \in {" ", "-", "+"}
          /\ ~Unset(span, old, new) /\ EndOfLine(span, inhunk, old, new)
          /\ oldcode' = old /\ newcode' = new /\ file' = file /\ span' = span
      BY <1>6 DEF CodeLine, AtLine
    <2>2. /\ r \in Nat /\ r + 1 <= Len(ls) /\ ReadSoFar' = r + 1
          /\ Head(lines) = ls[r + 1]
          /\ ReadTo(patch, r, file, span, inhunk, oldcode, newcode, dict)
      BY <1>1, <2>1
    <2> HIDE DEF r
    <2>3. IsCode(ls[r + 1])
      BY <2>1, <2>2 DEF IsCode, OldKinds, NewKinds
    <2>4. span # NoSpan
      BY <2>1 DEF Unset
    <2>5. /\ old = IF inhunk /\ ls[r + 1].kind \in OldKinds
                   THEN Append(oldcode, ls[r + 1].text) ELSE oldcode
          /\ new = IF inhunk /\ ls[r + 1].kind \in NewKinds
                   THEN Append(newcode, ls[r + 1].text) ELSE newcode
      BY <2>2 DEF WithLine, OldKinds, NewKinds
    <2> HIDE DEF old, new
    <2>6. /\ Len(old) = span.ol /\ Len(new) = span.nl =>
               ReadTo(patch, r + 1, file, span, FALSE, old, new,
                      AddHunk(dict, file, [os |-> span.os, ns |-> span.ns, old |-> old, new |-> new]))
          /\ ~(Len(old) = span.ol /\ Len(new) = span.nl) =>
               ReadTo(patch, r + 1, file, span, inhunk, old, new, dict)
      BY ZenonT(60), <1>0, <2>2, <2>3, <2>4, <2>5, ReadCode
    <2>7. ReadTo(patch, r + 1, file, span, inhunk', old, new, dict')
      BY <2>1, <2>6 DEF EndOfLine
    <2> QED
      BY <1>2, <2>1, <2>2, <2>7
  <1>7. CASE Again
    <2>1. /\ pc' = "parse" /\ lines' = patch.lines /\ file' = NoFile /\ span' = NoSpan
          /\ inhunk' = FALSE /\ oldcode' = <<>> /\ newcode' = <<>> /\ dict' = <<>>
      BY <1>7 DEF Again
    <2>2. ReadSoFar' = 0
      <3>1. Len(patch.lines) \in Nat
        BY PatchOfCase
      <3> QED
        BY <1>0, <2>1, <3>1 DEF ReadSoFar
    <2> QED
      BY <1>0, <1>2, <2>1, <2>2, ReadNothing
  <1>8. CASE UNCHANGED vars
    BY <1>8 DEF vars, Parsing, ReadSoFar
  <1>9. CASE \/ BadDiffLine \/ BadHunkLine \/ BadCodeLine \/ Parsed \/ NothingParsed
             \/ OpenFile \/ OpenFails \/ ApplyHunk \/ HunkFails \/ Truncate \/ TruncateFails
             \/ Write \/ WriteFails \/ Finish
    <2>1. pc' # "parse"
      BY <1>9 DEF BadDiffLine, BadHunkLine, BadCodeLine, Parsed, NothingParsed, OpenFile,
         OpenFails, ApplyHunk, HunkFails, Truncate, TruncateFails, Write, WriteFails, Finish,
         Fail
    <2> QED
      BY <2>1 DEF Parsing
  <1> QED
    BY <1>3, <1>4, <1>5, <1>6, <1>7, <1>8, <1>9 DEF Next, Step, Done

-----------------------------------------------------------------------------
(* The files, step by step.                                                 *)

\* The last line.
LEMMA ParsedAll ==
  ASSUME TypeOK, Distinct, FromDiff(patch), Parsing, Parsed
  PROVE  /\ \A e \in 1..Len(dict) :
              LET changes == patch.changes[dict[e].file]
              IN  Repeats(dict[e].hunks, changes, Len(changes))
         /\ \A f \in Files : \/ patch.changes[f] = <<>>
                             \/ \E e \in 1..Len(dict) : dict[e].file = f
  <1>1. /\ patch \in Patch /\ dict \in Seq(DictEntry) /\ inhunk \in BOOLEAN
        /\ Len(patch.lines) \in Nat /\ patch.changes \in [Files -> Seq(Hunk)]
    BY PatchOfCase DEF TypeOK, DictEntry
  <1>2. pc = "parse" /\ lines = <<>>
    BY DEF Parsed
  <1>3. ReadSoFar = Len(patch.lines)
    BY <1>1, <1>2 DEF ReadSoFar
  <1>4. ReadTo(patch, Len(patch.lines), file, span, inhunk, oldcode, newcode, dict)
    BY <1>2, <1>3 DEF Parsing
  <1>5. \A f \in Files : Listed(dict, f, patch.changes[f], Len(patch.changes[f]))
    BY <1>1, <1>4, ReadAll
  <1>6. ASSUME NEW e \in 1..Len(dict)
        PROVE  LET changes == patch.changes[dict[e].file]
               IN  Repeats(dict[e].hunks, changes, Len(changes))
    <2> DEFINE f == dict[e].file
               changes == patch.changes[f]
    <2>1. f \in Files
      BY FilesOfDict
    <2>2. Listed(dict, f, changes, Len(changes))
      BY <1>5, <2>1
    <2>3. Len(changes) # 0
      BY <2>2 DEF Listed
    <2>4. PICK i \in 1..Len(dict) : dict[i].file = f /\ Repeats(dict[i].hunks, changes, Len(changes))
      BY <2>2, <2>3 DEF Listed
    <2>5. i = e
      BY <2>4 DEF Distinct
    <2> QED
      BY <2>4, <2>5
  <1>7. ASSUME NEW f \in Files, patch.changes[f] # <<>>
        PROVE  \E e \in 1..Len(dict) : dict[e].file = f
    <2> DEFINE changes == patch.changes[f]
    <2>1. changes \in Seq(Hunk) /\ changes # <<>>
      BY <1>1, <1>7
    <2>2. Listed(dict, f, changes, Len(changes))
      BY <1>5
    <2> HIDE DEF changes
    <2>3. Len(changes) # 0
      BY <2>1, EmptySeq
    <2> QED
      BY <2>2, <2>3 DEF Listed
  <1> QED
    BY <1>6, <1>7

LEMMA AllReadStep ==
  TypeOK /\ Distinct /\ Loop /\ FromDiff(patch) /\ Parsing /\ AllRead /\ [Next]_vars => AllRead'
  <1> SUFFICES ASSUME TypeOK, Distinct, Loop, FromDiff(patch), Parsing, AllRead, [Next]_vars
               PROVE  AllRead'
    OBVIOUS
  <1> USE DEF parsing, applying
  <1>0. patch' = patch
    BY PatchStays
  <1>1. CASE Parsed
    <2>1. dict' = dict
      BY <1>1 DEF Parsed
    <2> QED
      BY <1>0, <1>1, <2>1, ParsedAll DEF AllRead
  <1>2. CASE OpenFile \/ ApplyHunk \/ Truncate
    <2>1. pc \in {"open", "hunks", "write"} /\ dict' = dict
      BY <1>2 DEF OpenFile, ApplyHunk, Truncate
    <2> QED
      BY <1>0, <2>1 DEF AllRead
  <1>3. CASE HunkFails \/ Write
    <2>1. pc \in {"open", "hunks", "write"} /\ dict # <<>> /\ dict' = Tail(dict)
      BY <1>3 DEF HunkFails, Write, Loop
    <2>2. \A e \in 1..Len(dict') : e + 1 \in 1..Len(dict) /\ dict'[e] = dict[e + 1]
      BY <2>1, HeadOfDict
    <2> QED
      BY <1>0, <2>1, <2>2 DEF AllRead
  <1>4. CASE pc' \notin {"open", "hunks", "write"}
    BY <1>4 DEF AllRead
  <1>5. CASE UNCHANGED vars
    BY <1>5 DEF vars, AllRead
  <1>6. CASE DiffLine \/ JunkLine \/ HunkLine \/ CodeLine
    <2>1. pc' = "parse"
      BY <1>6 DEF DiffLine, JunkLine, HunkLine, CodeLine, AtLine
    <2> QED
      BY <1>4, <2>1
  <1>7. CASE \/ BadDiffLine \/ BadHunkLine \/ BadCodeLine \/ NothingParsed
             \/ OpenFails \/ TruncateFails \/ WriteFails \/ Finish \/ Again
    <2>1. pc' \in {"error", "ok", "parse", "cut"}
      BY <1>7 DEF BadDiffLine, BadHunkLine, BadCodeLine, NothingParsed, OpenFails,
         TruncateFails, WriteFails, Finish, Again, Fail
    <2> QED
      BY <1>4, <2>1
  <1> QED
    BY <1>1, <1>2, <1>3, <1>5, <1>6, <1>7 DEF Next, Step, Done

\* The changes of a file are in order.
LEMMA ChangesInOrder ==
  ASSUME TypeOK, FromDiff(patch), NEW f \in Files
  PROVE  patch.changes[f] \in Seq(Hunk) /\ InOrder(patch.changes[f]) /\ Len(patch.changes[f]) \in Nat
  <1>1. patch.changes[f] \in Seq(Hunk)
    BY PatchOfCase
  <1>2. InOrder(patch.changes[f])
    BY DEF FromDiff
  <1> DEFINE h == patch.changes[f]
  <1>3. h \in Seq(Hunk)
    BY <1>1
  <1> HIDE DEF h
  <1>4. Len(h) \in Nat
    BY <1>3
  <1> QED
    BY <1>1, <1>2, <1>4 DEF h

\* The hunk that is next is the next change, or the last one once more.
LEMMA NextHunk ==
  ASSUME TypeOK, Loop, FromDiff(patch), HunksTaken, pc = "hunks", left # <<>>
  PROVE  LET hunks == dict[1].hunks
             changes == patch.changes[dict[1].file]
             n == Len(hunks) - Len(left)
         IN  \E m \in [1..Len(hunks) -> 1..Len(changes)], c \in 0..Len(changes),
                b \in 1..Len(changes) :
               /\ Maps(m, hunks, changes, Len(changes))
               /\ b = c \/ b = c + 1
               /\ n + 1 \in 1..Len(hunks) /\ n + 1 # 0 /\ b = m[n + 1]
               /\ Head(left) = changes[b]
               /\ Matches(orig, Head(left)) <=> Fits(orig, changes[b])
               /\ AllFit(orig, First(changes, c))
               /\ patched = AllReplaced(orig, First(changes, c))
  <1> DEFINE hunks == dict[1].hunks
             f == dict[1].file
             changes == patch.changes[f]
             n == Len(hunks) - Len(left)
  <1>1. /\ dict # <<>> /\ n >= 0 /\ \A j \in 1..Len(left) : left[j] = hunks[n + j]
    BY DEF Loop
  <1>2. f \in Files /\ hunks \in Seq(Hunk)
    BY <1>1, HeadOfDict
  <1>3. changes \in Seq(Hunk) /\ InOrder(changes) /\ Len(changes) \in Nat
    BY <1>2, ChangesInOrder
  <1>4. PICK m \in [1..Len(hunks) -> 1..Len(changes)] :
          /\ Maps(m, hunks, changes, Len(changes))
          /\ LET c == IF n = 0 THEN 0 ELSE m[n]
             IN  /\ AllFit(orig, First(changes, c))
                 /\ patched = AllReplaced(orig, First(changes, c))
    BY DEF HunksTaken
  <1> DEFINE lh == Len(hunks)
             lc == Len(changes)
             ll == Len(left)
             c == IF n = 0 THEN 0 ELSE m[n]
             b == m[n + 1]
  <1>5. /\ AllFit(orig, First(changes, c)) /\ patched = AllReplaced(orig, First(changes, c))
    BY <1>4
  <1>6. /\ lh >= 1 /\ m[1] = 1
        /\ \A i \in 1..lh : hunks[i] = changes[m[i]]
        /\ \A i \in 2..lh : m[i] = m[i - 1] \/ m[i] = m[i - 1] + 1
        /\ m \in [1..lh -> 1..lc]
    BY <1>4 DEF Maps
  <1>7. lh \in Nat /\ lc \in Nat /\ ll \in Nat /\ ll >= 1 /\ Head(left) = left[1]
    <2>1. left \in Seq(Hunk)
      BY DEF TypeOK
    <2>2. ll \in Nat /\ ll # 0 /\ Head(left) = left[1]
      BY <2>1, EmptySeq
    <2>3. lh \in Nat
      BY <1>2
    <2> QED
      BY <1>3, <2>2, <2>3
  <1>8. n = lh - ll
    OBVIOUS
  <1>9. Head(left) = hunks[n + 1]
    <2> HIDE DEF n
    <2> QED
      BY <1>1, <1>7
  <1> HIDE DEF n, lh, lc, ll, hunks, changes
  <1>10. n \in Nat /\ n + 1 \in 1..lh
    BY <1>1, <1>7, <1>8
  <1>11. b \in 1..lc /\ Head(left) = changes[b]
    BY <1>6, <1>9, <1>10
  <1>12. c \in 0..lc /\ (b = c \/ b = c + 1)
    <2>1. CASE n = 0
      <3>1. c = 0 /\ b = 1
        BY <1>6, <2>1
      <3> QED
        BY <1>7, <3>1
    <2>2. CASE n # 0
      <3>1. n \in 1..lh /\ n + 1 \in 2..lh /\ n + 1 - 1 = n
        BY <1>7, <1>10, <2>2
      <3>2. c = m[n] /\ m[n] \in 1..lc
        BY <1>6, <2>2, <3>1
      <3>3. m[n + 1] = m[n] \/ m[n + 1] = m[n] + 1
        BY <1>6, <3>1
      <3> QED
        BY <3>2, <3>3
    <2> QED
      BY <2>1, <2>2
  <1> HIDE DEF b, c
  <1>13. Matches(orig, Head(left)) <=> Fits(orig, changes[b])
    <2>1. b \in 1..Len(changes) /\ orig \in Seq(Text)
      BY <1>11 DEF lc, TypeOK
    <2>2. /\ changes[b] \in Hunk /\ Place(changes[b]) >= 1
          /\ changes[b].old = <<>> => changes[b].os = 0
      BY <1>3, <2>1, EndsAre
    <2> DEFINE h == changes[b]
    <2>3. h \in Hunk /\ Place(h) >= 1 /\ (h.old = <<>> => h.os = 0) /\ Head(left) = h
      BY <1>11, <2>2
    <2> HIDE DEF h
    <2>4. Matches(orig, h) <=> Fits(orig, h)
      BY ONLY <2>1, <2>3, MatchesFits
    <2> QED
      BY <2>3, <2>4 DEF h
  <1>14. n + 1 # 0
    BY <1>10
  <1> QED
    BY <1>4, <1>5, <1>10, <1>11, <1>12, <1>13, <1>14 DEF n, lh, lc, b, ll, hunks, changes

LEMMA TakenStep ==
  TypeOK /\ Loop /\ FromDiff(patch) /\ AllRead /\ HunksTaken /\ [Next]_vars => HunksTaken'
  <1> SUFFICES ASSUME TypeOK, Loop, FromDiff(patch), AllRead, HunksTaken, [Next]_vars
               PROVE  HunksTaken'
    OBVIOUS
  <1> USE DEF parsing, applying
  <1>0. patch' = patch
    BY PatchStays
  <1>1. CASE OpenFile
    <2> DEFINE hunks == dict[1].hunks
               f == dict[1].file
               changes == patch.changes[f]
    <2>1. /\ pc = "open" /\ dict # <<>> /\ dict' = dict
          /\ left' = Head(dict).hunks /\ orig' = patched'
      BY <1>1 DEF OpenFile
    <2>2. 1 \in 1..Len(dict) /\ Head(dict) = dict[1] /\ f \in Files /\ hunks \in Seq(Hunk)
      BY <2>1, HeadOfDict
    <2>3. Repeats(hunks, changes, Len(changes))
      BY <2>1, <2>2 DEF AllRead
    <2>4. PICK m \in [1..Len(hunks) -> 1..Len(changes)] : Maps(m, hunks, changes, Len(changes))
      BY <2>3 DEF Repeats
    <2>5. Len(hunks) - Len(left') = 0
      BY <2>1, <2>2
    <2>6. changes \in Seq(Hunk) /\ First(changes, 0) = <<>>
      BY <2>2, ChangesInOrder, SubSeqEmpty DEF First
    <2>7. AllFit(orig', First(changes, 0)) /\ patched' = AllReplaced(orig', First(changes, 0))
      <3>1. \A i \in 1..Len(<<>>) : FALSE
        OBVIOUS
      <3>2. AllFit(orig', <<>>)
        BY <3>1 DEF AllFit
      <3> QED
        BY <2>1, <2>6, <3>2, NoneReplaced
    <2> QED
      BY <1>0, <2>1, <2>4, <2>5, <2>7 DEF HunksTaken
  <1>2. CASE ApplyHunk
    <2> DEFINE hunks == dict[1].hunks
               f == dict[1].file
               changes == patch.changes[f]
               n == Len(hunks) - Len(left)
               h == Head(left)
    <2>1. /\ pc = "hunks" /\ left # <<>> /\ Matches(orig, h)
          /\ patched' = WithHunk(patched, orig, h) /\ left' = Tail(left)
          /\ dict' = dict /\ orig' = orig
      BY <1>2 DEF ApplyHunk
    <2>2. PICK m \in [1..Len(hunks) -> 1..Len(changes)], c \in 0..Len(changes),
                b \in 1..Len(changes) :
               /\ Maps(m, hunks, changes, Len(changes))
               /\ b = c \/ b = c + 1
               /\ n + 1 \in 1..Len(hunks) /\ n + 1 # 0 /\ b = m[n + 1]
               /\ h = changes[b]
               /\ Matches(orig, h) <=> Fits(orig, changes[b])
               /\ AllFit(orig, First(changes, c))
               /\ patched = AllReplaced(orig, First(changes, c))
      BY <2>1, NextHunk
    <2>3. f \in Files /\ orig \in Seq(Text) /\ hunks \in Seq(Hunk)
      BY <2>1, HeadOfDict DEF Loop, TypeOK
    <2>4. changes \in Seq(Hunk) /\ InOrder(changes)
      BY <2>3, ChangesInOrder
    <2>5. Len(hunks) - Len(left') = n + 1
      <3>1. left \in Seq(Hunk)
        BY DEF TypeOK
      <3>2. Len(left') = Len(left) - 1 /\ Len(left) \in Nat
        BY <2>1, <3>1, HeadTailProperties
      <3>3. Len(hunks) \in Nat
        BY <2>3
      <3> HIDE DEF hunks
      <3> QED
        BY <3>2, <3>3
    <2> HIDE DEF n, hunks, h, changes
    <2>6. Fits(orig, changes[b]) /\ changes[b] \in Hunk
      BY <2>1, <2>2, <2>4
    <2>7. End(changes, b) <= Len(orig)
      <3>1. End(changes, b) = Behind(changes[b]) - 1
        BY <2>2, <2>4, EndsAre
      <3> DEFINE g == changes[b]
                 p == Place(g)
                 l == Len(g.old)
      <3>2. p \in Nat /\ l \in Nat /\ Behind(g) = p + l
        BY <2>6, HunkNumbers
      <3>3. p + l - 1 <= Len(orig)
        BY <2>6 DEF Fits
      <3> HIDE DEF p, l
      <3>4. Behind(g) - 1 <= Len(orig)
        BY ONLY <3>2, <3>3
      <3> QED
        BY <3>1, <3>4
    <2>8. c \in Nat /\ b \in Nat /\ (b = c \/ c = b - 1)
      <3>1. b \in Nat /\ c \in Nat
        BY <2>4
      <3> QED
        BY <2>2, <3>1
    <2>9. patched' = AllReplaced(orig, First(changes, b))
      <3>1. /\ AllReplaced(orig, First(changes, b)) =
                 WithHunk(AllReplaced(orig, First(changes, b - 1)), orig, changes[b])
            /\ AllReplaced(orig, First(changes, b)) =
                 WithHunk(AllReplaced(orig, First(changes, b)), orig, changes[b])
        BY <2>3, <2>4, <2>7, HunkMade
      <3>2. patched' = WithHunk(AllReplaced(orig, First(changes, c)), orig, changes[b])
        BY <2>1, <2>2
      <3> QED
        BY <2>8, <3>1, <3>2
    <2>10. AllFit(orig, First(changes, b))
      <3>1. /\ Len(First(changes, b)) = b /\ \A i \in 1..b : First(changes, b)[i] = changes[i]
            /\ Len(First(changes, c)) = c /\ \A i \in 1..c : First(changes, c)[i] = changes[i]
        <4>1. b \in 0..Len(changes)
          BY <2>4
        <4> QED
          BY <2>4, <4>1, FirstIs
      <3>2. \A i \in 1..c : Fits(orig, changes[i])
        BY <2>2, <3>1 DEF AllFit
      <3>3. \A i \in 1..b : i \in 1..c \/ i = b
        BY <2>8
      <3>4. \A i \in 1..b : Fits(orig, changes[i])
        BY <2>6, <3>2, <3>3
      <3> QED
        BY <3>1, <3>4 DEF AllFit
    <2> DEFINE k == Len(hunks) - Len(left')
    <2>11. /\ Maps(m, hunks, changes, Len(changes))
           /\ LET d == IF k = 0 THEN 0 ELSE m[k]
              IN  AllFit(orig, First(changes, d)) /\ patched' = AllReplaced(orig, First(changes, d))
      BY <2>2, <2>5, <2>9, <2>10
    <2>12. hunks' = hunks /\ changes' = changes
      BY <1>0, <2>1 DEF hunks, changes
    <2> QED
      BY <1>0, <2>1, <2>11 DEF HunksTaken, hunks, changes
  <1>3. CASE Truncate
    <2>1. pc = "hunks" /\ UNCHANGED <<dict, orig, patched, left>>
      BY <1>3 DEF Truncate
    <2> QED
      BY <1>0, <2>1 DEF HunksTaken
  <1>4. CASE UNCHANGED vars
    BY <1>4 DEF vars, HunksTaken
  <1>5. CASE \/ DiffLine \/ JunkLine \/ HunkLine \/ CodeLine \/ BadDiffLine \/ BadHunkLine
             \/ BadCodeLine
    <2>1. pc' \in {"parse", "error"}
      BY <1>5 DEF DiffLine, JunkLine, HunkLine, CodeLine, BadDiffLine, BadHunkLine,
         BadCodeLine, AtLine, Fail
    <2> QED
      BY <2>1 DEF HunksTaken
  <1>6. CASE \/ Parsed \/ NothingParsed \/ OpenFails \/ TruncateFails \/ HunkFails
             \/ Write \/ WriteFails \/ Finish \/ Again
    <2>1. pc' \notin {"hunks", "write"}
      BY <1>6 DEF Parsed, NothingParsed, OpenFails, TruncateFails, HunkFails, Write,
         WriteFails, Finish, Again, Fail
    <2> QED
      BY <2>1 DEF HunksTaken
  <1> QED
    BY <1>1, <1>2, <1>3, <1>4, <1>5, <1>6 DEF Next, Step, Done

\* What is written is the file with all changes of the patch.
LEMMA WritesAll ==
  ASSUME TypeOK, Loop, FromDiff(patch), HunksTaken, Write
  PROVE  LET f == Head(dict).file
         IN  /\ f \in Files /\ f = dict[1].file /\ dict # <<>> /\ dict' = Tail(dict)
             /\ start[f] # Missing
             /\ AllFit(start[f], patch.changes[f])
             /\ patched = AllReplaced(start[f], patch.changes[f])
             /\ start' = start
             /\ tree'[f] = patched /\ \A g \in Files : g # f => tree'[g] = tree[g]
  <1> DEFINE hunks == dict[1].hunks
             f == dict[1].file
             changes == patch.changes[f]
             n == Len(hunks) - Len(left)
  <1>1. /\ pc = "write" /\ tree' = [tree EXCEPT ![Head(dict).file] = patched]
        /\ start' = start /\ dict' = Tail(dict)
    BY DEF Write
  <1>2. /\ dict # <<>> /\ orig = start[f] /\ start[f] # Missing /\ left = <<>>
    BY <1>1 DEF Loop
  <1>3. Head(dict) = dict[1] /\ f \in Files /\ hunks \in Seq(Hunk)
    BY <1>2, HeadOfDict
  <1>4. changes \in Seq(Hunk)
    BY <1>3, ChangesInOrder
  <1>5. PICK m \in [1..Len(hunks) -> 1..Len(changes)] :
          /\ Maps(m, hunks, changes, Len(changes))
          /\ LET c == IF n = 0 THEN 0 ELSE m[n]
             IN  /\ AllFit(orig, First(changes, c))
                 /\ patched = AllReplaced(orig, First(changes, c))
    BY <1>1 DEF HunksTaken
  <1>6. Len(hunks) >= 1 /\ m[Len(hunks)] = Len(changes)
    BY <1>5 DEF Maps
  <1>7. n = Len(hunks) /\ n # 0
    <2>1. Len(left) = 0 /\ Len(hunks) \in Nat
      BY <1>2, <1>3
    <2> HIDE DEF hunks
    <2> QED
      BY <1>6, <2>1
  <1>8. First(changes, Len(changes)) = changes
    BY <1>4, SubSeqFull DEF First
  <1> HIDE DEF n
  <1>9. AllFit(orig, changes) /\ patched = AllReplaced(orig, changes)
    BY <1>5, <1>6, <1>7, <1>8
  <1>10. tree'[f] = patched /\ \A g \in Files : g # f => tree'[g] = tree[g]
    BY <1>1, <1>3 DEF TypeOK
  <1> QED
    BY <1>1, <1>2, <1>3, <1>9, <1>10

\* Emptying the file at hand leaves the others alone.
LEMMA TruncatesOne ==
  ASSUME TypeOK, Loop, Truncate
  PROVE  LET f == Head(dict).file
         IN  /\ f \in Files /\ f = dict[1].file /\ 1 \in 1..Len(dict)
             /\ pc' = "write" /\ dict' = dict /\ start' = start
             /\ \A g \in Files : g # f => tree'[g] = tree[g]
  <1>1. /\ pc = "hunks" /\ tree' = [tree EXCEPT ![Head(dict).file] = <<>>]
        /\ start' = start /\ dict' = dict /\ pc' = "write"
    BY DEF Truncate
  <1>2. dict # <<>>
    BY <1>1 DEF Loop
  <1>3. Head(dict) = dict[1] /\ Head(dict).file \in Files /\ 1 \in 1..Len(dict)
    BY <1>2, HeadOfDict
  <1>4. \A g \in Files : g # Head(dict).file => tree'[g] = tree[g]
    BY <1>1, <1>3 DEF TypeOK
  <1> QED
    BY <1>1, <1>3, <1>4

LEMMA SeenStep ==
  /\ TypeOK /\ Distinct /\ Loop /\ FromDiff(patch) /\ Parsing /\ HunksTaken /\ AllSeenTo
  /\ [Next]_vars
  => AllSeenTo'
  <1> SUFFICES ASSUME TypeOK, Distinct, Loop, FromDiff(patch), Parsing, HunksTaken, AllSeenTo,
                      [Next]_vars
               PROVE  AllSeenTo'
    OBVIOUS
  <1> USE DEF parsing, applying
  <1>0. patch' = patch
    BY PatchStays
  <1> DEFINE SeenTo(f) ==
               AllFit(start[f], patch.changes[f]) => tree[f] = AllReplaced(start[f], patch.changes[f])
  <1>1. CASE Parsed
    <2>1. pc' = "open" /\ dict' = dict
      BY <1>1 DEF Parsed
    <2> QED
      BY <1>0, <1>1, <2>1, ParsedAll DEF AllSeenTo
  <1>2. CASE OpenFile \/ ApplyHunk
    <2>1. pc \in {"open", "hunks"} /\ pc' = "hunks" /\ UNCHANGED <<dict, tree, start>>
      BY <1>2 DEF OpenFile, ApplyHunk
    <2> QED
      BY <1>0, <2>1 DEF AllSeenTo
  <1>3. ASSUME dict # <<>>, dict' = Tail(dict), NEW e \in 1..Len(dict), e # 1
        PROVE  \E i \in 1..Len(dict') : dict'[i].file = dict[e].file
    <2>1. /\ Len(dict) \in Nat /\ Len(dict') = Len(dict) - 1
          /\ \A i \in 1..Len(dict') : dict'[i] = dict[i + 1]
      BY <1>3, HeadOfDict
    <2>2. e - 1 \in 1..Len(dict') /\ e - 1 + 1 = e
      BY <1>3, <2>1
    <2> QED
      BY <2>1, <2>2
  <1>4. CASE HunkFails
    <2> DEFINE hunks == dict[1].hunks
               f == dict[1].file
               changes == patch.changes[f]
               n == Len(hunks) - Len(left)
    <2>1. /\ pc = "hunks" /\ pc' = "open" /\ left # <<>> /\ ~Matches(orig, Head(left))
          /\ dict' = Tail(dict) /\ UNCHANGED <<tree, start>> /\ dict # <<>> /\ orig = start[f]
      BY <1>4 DEF HunkFails, Loop
    <2>2. \E b \in 1..Len(changes) : ~Fits(orig, changes[b])
      BY <2>1, NextHunk
    <2>3. ~AllFit(start[f], changes)
      BY <2>1, <2>2 DEF AllFit
    <2> HIDE DEF f, changes
    <2>4. SUFFICES ASSUME NEW g \in Files
                   PROVE  \/ patch.changes[g] = <<>>
                          \/ \E e \in 1..Len(dict') : dict'[e].file = g
                          \/ SeenTo(g)
      BY <1>0, <2>1 DEF AllSeenTo
    <2>5. CASE g = f
      BY <2>3, <2>5 DEF changes
    <2>6. CASE g # f
      <3>1. \/ patch.changes[g] = <<>>
            \/ \E e \in 1..Len(dict) : dict[e].file = g
            \/ SeenTo(g)
        BY <2>1 DEF AllSeenTo
      <3>2. \A e \in 1..Len(dict) : dict[e].file = g => e # 1
        BY <2>6 DEF f
      <3> HIDE DEF SeenTo
      <3> QED
        BY <1>3, <2>1, <3>1, <3>2
    <2> QED
      BY <2>5, <2>6
  <1>5. CASE Truncate
    <2> DEFINE f == Head(dict).file
    <2>1. /\ f = dict[1].file /\ 1 \in 1..Len(dict)
          /\ pc' = "write" /\ dict' = dict /\ start' = start
          /\ \A g \in Files : g # f => tree'[g] = tree[g]
      BY <1>5, TruncatesOne
    <2>2. pc = "hunks"
      BY <1>5 DEF Truncate
    <2>3. SUFFICES ASSUME NEW g \in Files
                   PROVE  \/ patch.changes[g] = <<>>
                          \/ \E e \in 1..Len(dict) : dict[e].file = g
                          \/ AllFit(start[g], patch.changes[g]) =>
                               tree'[g] = AllReplaced(start[g], patch.changes[g])
      BY <1>0, <2>1 DEF AllSeenTo
    <2>4. CASE g = f
      BY <2>1, <2>4
    <2>5. CASE g # f
      BY <2>1, <2>2, <2>5 DEF AllSeenTo
    <2> QED
      BY <2>4, <2>5
  <1>6. CASE Write
    <2> DEFINE f == Head(dict).file
    <2>1. /\ f = dict[1].file /\ dict # <<>> /\ dict' = Tail(dict) /\ start' = start
          /\ patched = AllReplaced(start[f], patch.changes[f])
          /\ tree'[f] = patched /\ \A g \in Files : g # f => tree'[g] = tree[g]
      BY <1>6, WritesAll
    <2>2. pc = "write" /\ pc' = "open"
      BY <1>6 DEF Write
    <2> HIDE DEF f
    <2>3. SUFFICES ASSUME NEW g \in Files
                   PROVE  \/ patch.changes[g] = <<>>
                          \/ \E e \in 1..Len(dict') : dict'[e].file = g
                          \/ AllFit(start[g], patch.changes[g]) =>
                               tree'[g] = AllReplaced(start[g], patch.changes[g])
      BY <1>0, <2>1, <2>2 DEF AllSeenTo
    <2>4. CASE g = f
      BY <2>1, <2>4
    <2>5. CASE g # f
      <3>1. \/ patch.changes[g] = <<>>
            \/ \E e \in 1..Len(dict) : dict[e].file = g
            \/ AllFit(start[g], patch.changes[g]) =>
                 tree[g] = AllReplaced(start[g], patch.changes[g])
        BY <2>2 DEF AllSeenTo
      <3>2. \A e \in 1..Len(dict) : dict[e].file = g => e # 1
        BY <2>1, <2>5
      <3>3. tree'[g] = tree[g]
        BY <2>1, <2>5
      <3> QED
        BY <1>3, <2>1, <3>1, <3>2, <3>3
    <2> QED
      BY <2>4, <2>5
  <1>7. CASE Finish
    <2>1. pc = "open" /\ pc' = "ok" /\ dict = <<>> /\ UNCHANGED <<dict, tree, start>>
      BY <1>7 DEF Finish
    <2> QED
      BY <1>0, <2>1 DEF AllSeenTo
  <1>8. CASE UNCHANGED vars
    BY <1>8 DEF vars, AllSeenTo
  <1>9. CASE \/ DiffLine \/ JunkLine \/ HunkLine \/ CodeLine \/ BadDiffLine \/ BadHunkLine
             \/ BadCodeLine \/ NothingParsed \/ OpenFails \/ TruncateFails \/ WriteFails \/ Again
    <2>1. pc' \in {"parse", "error", "cut"}
      BY <1>9 DEF DiffLine, JunkLine, HunkLine, CodeLine, BadDiffLine, BadHunkLine,
         BadCodeLine, AtLine, NothingParsed, OpenFails, TruncateFails, WriteFails, Again, Fail
    <2> QED
      BY <2>1 DEF AllSeenTo
  <1> QED
    BY <1>1, <1>2, <1>4, <1>5, <1>6, <1>7, <1>8, <1>9 DEF Next, Step, Done

LEMMA WholeStep ==
  /\ TypeOK /\ Untouched /\ Loop /\ WholeOrUntouched /\ [Next]_vars
  /\ Write => FromDiff(patch) /\ HunksTaken
  => WholeOrUntouched'
  <1> SUFFICES ASSUME TypeOK, Untouched, Loop, WholeOrUntouched, [Next]_vars,
                      Write => FromDiff(patch) /\ HunksTaken
               PROVE  WholeOrUntouched'
    OBVIOUS
  <1> USE DEF parsing, applying
  <1>0. patch' = patch
    BY PatchStays
  <1>1. CASE pc \notin {"write", "cut"} /\ UNCHANGED <<tree, start>>
    BY <1>0, <1>1 DEF WholeOrUntouched, Writing
  <1>2. CASE Truncate
    <2> DEFINE f == Head(dict).file
    <2>1. /\ pc' = "write" /\ dict' = dict /\ start' = start
          /\ \A g \in Files : g # f => tree'[g] = tree[g]
      BY <1>2, TruncatesOne
    <2>2. pc = "hunks"
      BY <1>2 DEF Truncate
    <2> QED
      BY <1>0, <2>1, <2>2 DEF WholeOrUntouched, Writing
  <1>3. CASE Write
    <2> DEFINE f == Head(dict).file
    <2>1. /\ start[f] # Missing
          /\ AllFit(start[f], patch.changes[f])
          /\ patched = AllReplaced(start[f], patch.changes[f])
          /\ start' = start
          /\ tree'[f] = patched /\ \A g \in Files : g # f => tree'[g] = tree[g]
      BY <1>3, WritesAll
    <2> QED
      BY <1>0, <2>1 DEF WholeOrUntouched, Writing
  <1>4. CASE Again
    <2>1. start' = tree /\ tree' = tree
      BY <1>4 DEF Again
    <2> QED
      BY <2>1 DEF WholeOrUntouched
  <1>5. CASE UNCHANGED vars
    BY <1>5 DEF vars, WholeOrUntouched, Writing
  <1>6. CASE \/ DiffLine \/ JunkLine \/ HunkLine \/ CodeLine \/ BadDiffLine \/ BadHunkLine
             \/ BadCodeLine
    BY <1>1, <1>6 DEF DiffLine, JunkLine, HunkLine, CodeLine, BadDiffLine, BadHunkLine,
         BadCodeLine, AtLine, Fail
  <1>7. CASE \/ Parsed \/ NothingParsed \/ OpenFile \/ OpenFails \/ ApplyHunk \/ HunkFails
             \/ TruncateFails \/ Finish
    BY <1>1, <1>7 DEF Parsed, NothingParsed, OpenFile, OpenFails, ApplyHunk, HunkFails,
         TruncateFails, Finish, Fail
  <1>8. CASE WriteFails
    <2> DEFINE f == Head(dict).file
    <2>1. /\ pc = "write" /\ pc' = "cut" /\ dict' = dict /\ start' = start
          /\ \A g \in Files : g # f => tree'[g] = tree[g]
      BY <1>8, WritesPart
    <2> QED
      BY <1>0, <2>1 DEF WholeOrUntouched, Writing
  <1> QED
    BY <1>2, <1>3, <1>4, <1>5, <1>6, <1>7, <1>8 DEF Next, Step, Done

-----------------------------------------------------------------------------
(* The meaning of the patch.                                                *)

LEMMA MeaningInit == Init => Meaning
  <1> SUFFICES ASSUME Init PROVE Meaning
    OBVIOUS
  <1>1. /\ pc = "parse" /\ lines = patch.lines /\ file = NoFile /\ span = NoSpan /\ inhunk = FALSE
        /\ dict = <<>> /\ start = tree
    BY DEF Init
  <1>2. TypeOK
    BY TypeInit
  <1>3. patch \in Patch /\ Len(patch.lines) \in Nat /\ (FromDiff(patch) \/ Unreadable(patch))
    BY <1>2, PatchOfCase
  <1>4. ReadSoFar = 0
    BY <1>1, <1>3 DEF ReadSoFar
  <1>5. LinesLeft
    <2>1. \A k \in 1..Len(patch.lines) : 0 + k = k
      BY <1>3
    <2> QED
      BY <1>1, <1>3, <1>4, <2>1 DEF LinesLeft
  <1>6. WholeOrUntouched
    BY <1>1 DEF WholeOrUntouched
  <1>7. CASE FromDiff(patch)
    <2>1. Parsing
      BY <1>1, <1>3, <1>4, ReadNothing DEF Parsing
    <2> QED
      BY <1>1, <1>5, <1>6, <1>7, <2>1 DEF Meaning, AllRead, AllSeenTo, HunksTaken
  <1>8. CASE Unreadable(patch)
    <2>1. NoFileNamed \/ CodeAhead
      BY <1>1, <1>8 DEF Unreadable, NoFileNamed, CodeAhead
    <2> QED
      BY <1>1, <1>5, <1>6, <1>8, <2>1 DEF Meaning, NothingRead
  <1> QED
    BY <1>3, <1>7, <1>8

LEMMA MeaningStep == IInv /\ Meaning /\ [Next]_vars => Meaning'
  <1> SUFFICES ASSUME IInv, Meaning, [Next]_vars PROVE Meaning'
    OBVIOUS
  <1>1. TypeOK /\ Distinct /\ Untouched /\ Loop
    BY DEF IInv
  <1>2. LinesLeft' /\ patch' = patch
    BY <1>1, LinesStep, PatchStays DEF Meaning
  <1>3. CASE Unreadable(patch) /\ NothingRead
    <2>1. NothingRead'
      BY <1>1, <1>3, NothingStep DEF Meaning
    <2>2. WholeOrUntouched'
      <3>1. ~Write
        BY <1>3 DEF Write, NothingRead
      <3> QED
        BY <1>1, <3>1, WholeStep DEF Meaning
    <2>3. Unreadable(patch')
      BY <1>2, <1>3
    <2> QED
      BY <1>2, <2>1, <2>2, <2>3 DEF Meaning
  <1>4. CASE FromDiff(patch) /\ Parsing /\ AllRead /\ AllSeenTo /\ HunksTaken
    <2>1. Parsing' /\ AllRead' /\ AllSeenTo' /\ HunksTaken'
      BY <1>1, <1>4, ParsingStep, AllReadStep, SeenStep, TakenStep DEF Meaning
    <2>2. WholeOrUntouched'
      BY <1>1, <1>4, WholeStep DEF Meaning
    <2>3. FromDiff(patch')
      BY <1>2, <1>4
    <2> QED
      BY <1>2, <2>1, <2>2, <2>3 DEF Meaning
  <1> QED
    BY <1>3, <1>4 DEF Meaning

(* The second inductive invariant, on top of the first: the lines read so   *)
(* far make the dictionary list the changes of each file in their order,    *)
(* some of them several times, and the hunks taken have changed the lines   *)
(* as the first of these changes do.                                        *)
THEOREM Understood == Spec => []Meaning
  <1>1. IInv /\ IInv' /\ Meaning /\ [Next]_vars => Meaning'
    BY MeaningStep
  <1> QED
    BY MeaningInit, <1>1, Inductive, PTL DEF Spec

(* Every file is what it was or has all hunks that the patch has for it,    *)
(* wherever the process is killed, but for the file that is being written   *)
(* (kbs.tcl:1491-1517).                                                     *)
THEOREM NeverInPart == Spec => []WholeOrUntouched
  <1>1. Meaning => WholeOrUntouched
    BY DEF Meaning
  <1> QED
    BY <1>1, Understood, PTL

(* A call that returns has patched every file that the patch fits, also the *)
(* files behind one that it does not fit (kbs.tcl:1509).                    *)
THEOREM PatchesWhatFits == Spec => []AppliesWhatFits
  <1>1. TypeOK /\ Meaning => AppliesWhatFits
    <2> SUFFICES ASSUME TypeOK, Meaning, pc = "ok", NEW f \in Files,
                        start[f] # Missing, AllFit(start[f], patch.changes[f])
                 PROVE  tree[f] = AllReplaced(start[f], patch.changes[f])
      BY DEF AppliesWhatFits
    <2>1. AllSeenTo /\ WholeOrUntouched
      BY DEF Meaning, NothingRead
    <2>2. \/ patch.changes[f] = <<>>
          \/ \E e \in 1..Len(dict) : dict[e].file = f
          \/ tree[f] = AllReplaced(start[f], patch.changes[f])
      BY <2>1 DEF AllSeenTo
    <2>3. ~\E e \in 1..Len(dict) : dict[e].file = f
      BY <2>1 DEF AllSeenTo
    <2>4. ASSUME patch.changes[f] = <<>> PROVE tree[f] = AllReplaced(start[f], patch.changes[f])
      BY <2>1, <2>4, NoneReplaced DEF WholeOrUntouched, Writing
    <2> QED
      BY <2>2, <2>3, <2>4
  <1> QED
    BY <1>1, Understood, TypeCorrect, PTL
=============================================================================
