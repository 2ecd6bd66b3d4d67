--------------------------- MODULE KbsPatchApply ---------------------------
(***************************************************************************)
(* `PatchApply` (kbs.tcl:1392-1524): the output of `diff -ru` is parsed    *)
(* line by line into hunks, which are then applied file by file.  A script *)
(* of a package calls it for a source tree that stays where it is, so that *)
(* the same patch meets the same files again: `Rounds` calls are modelled. *)
(* Any file may fail to open or to be written, and a call may be killed in *)
(* the middle of a write.                                                  *)
(*                                                                         *)
(* A file is the list of its lines, as [split .. \n] makes it: a file that *)
(* ends with a newline ends with an empty element.  A line of the patch is *)
(*   "diff"  with its two header lines, which are consumed together        *)
(*   "@"     the header of a hunk, as the numbers that are written in it   *)
(*   " " "-" "+"  code lines, also the blank that ends a braced argument   *)
(*   "junk"  anything else                                                 *)
(***************************************************************************)
EXTENDS Integers, SequencesExt

CONSTANTS
  Files,        \* the files of the source directory
  NoFile,       \* stands for a variable that has no value
  Text,         \* contents of lines
  Missing,      \* the contents of a file that does not exist
  Cases,        \* patches, each with the source directory it is applied to
  Rounds        \* how often the patch is applied

Span == [os: Nat, ol: Nat, ns: Nat, nl: Nat]

Hunk == [os: Nat, ns: Nat, old: Seq(Text), new: Seq(Text)]

PatchLine ==
       [kind: {"diff"}, file: Files, headers: BOOLEAN]
  \cup [kind: {"@"}, span: Span, readable: BOOLEAN]
  \cup [kind: {" ", "-", "+"}, text: Text]
  \cup [kind: {"junk"}]

Content == Seq(Text) \cup {Missing}

\* `changes` is what the patch says, independent of how it is written down.
Patch == [lines: Seq(PatchLine), changes: [Files -> Seq(Hunk)]]

ASSUME PatchAssumption ==
  /\ Missing \notin Seq(Text)
  /\ NoFile \notin Files
  /\ Cases \subseteq [patch: Patch, tree: [Files -> Content]]
  /\ Rounds \in Nat

NoSpan == [os |-> 0, ol |-> -1, ns |-> 0, nl |-> -1]

VARIABLES
  patch,    \* the patch
  pc,       \* "parse", "open", "hunks", "write", "ok", "error", "cut" (in a write)
  lines,    \* the lines still to be parsed
  file,     \* fntopatch, NoFile as long as it does not exist
  span,     \* oldstart, oldlen, newstart, newlen, or NoSpan
  inhunk, oldcode, newcode,
  dict,     \* patchdict, a list of [file, hunks]; its head is being applied
  orig, patched,
  left,     \* the hunks of this file that are left
  tree,     \* the files
  start,    \* the files when this call of PatchApply began
  writes,   \* how often each file has been written
  round

parsing == <<lines, file, span, inhunk, oldcode, newcode>>
applying == <<orig, patched, left>>
vars == <<patch, pc, parsing, dict, applying, tree, start, writes, round>>

Init ==
  /\ \E c \in Cases : patch = c.patch /\ tree = c.tree
  /\ start = tree
  /\ pc = "parse"
  /\ lines = patch.lines
  /\ file = NoFile /\ span = NoSpan
  /\ inhunk = FALSE /\ oldcode = <<>> /\ newcode = <<>>
  /\ dict = <<>>
  /\ orig = <<>> /\ patched = <<>> /\ left = <<>>
  /\ writes = [f \in Files |-> 0]
  /\ round = 1

Fail ==
  /\ pc' = "error"
  /\ UNCHANGED <<patch, parsing, dict, applying, tree, start, writes, round>>

-----------------------------------------------------------------------------
(* Parsing.                                                                 *)

AtLine(kinds) == pc = "parse" /\ lines # <<>> /\ Head(lines).kind \in kinds

\* dict lappend patchdict $fntopatch $hunk
AddHunk(d, f, h) ==
  IF \E i \in 1..Len(d) : d[i].file = f
  THEN [i \in 1..Len(d) |-> IF d[i].file = f
                            THEN [file |-> f, hunks |-> Append(d[i].hunks, h)]
                            ELSE d[i]]
  ELSE Append(d, [file |-> f, hunks |-> <<h>>])

\* Variant: files opened and emptied while the patch is being parsed.
VariantDiffLine ==
  /\ AtLine({"diff"})
  /\ Head(lines).headers
  /\ file' = Head(lines).file
  /\ inhunk' = FALSE
  /\ lines' = Tail(lines)
  /\ tree' = [tree EXCEPT ![Head(lines).file] = IF @ = Missing THEN @ ELSE <<>>]
  /\ UNCHANGED <<patch, pc, span, oldcode, newcode, dict, applying, start, writes, round>>

DiffLine ==
  /\ AtLine({"diff"})
  /\ Head(lines).headers
  /\ file' = Head(lines).file
  /\ inhunk' = FALSE
  /\ lines' = Tail(lines)
  /\ UNCHANGED <<patch, pc, span, oldcode, newcode, dict, applying, tree, start, writes, round>>

BadDiffLine == AtLine({"diff"}) /\ ~Head(lines).headers /\ Fail

JunkLine ==
  /\ AtLine({"junk"})
  /\ lines' = Tail(lines)
  /\ UNCHANGED <<patch, pc, file, span, inhunk, oldcode, newcode, dict, applying,
                 tree, start, writes, round>>

\* The test at the end of the loop: it also runs for lines outside of hunks,
\* where the counters of the last hunk are still complete.
EndOfLine(s, in, old, new) ==
  IF Len(old) = s.ol /\ Len(new) = s.nl
  THEN /\ inhunk' = FALSE
       /\ dict' = AddHunk(dict, file, [os |-> s.os, ns |-> s.ns, old |-> old, new |-> new])
  ELSE /\ inhunk' = in
       /\ dict' = dict

\* Variant: a name of the file set before the loop.
VariantUnset(s, old, new) == s = NoSpan

\* There is no file, or no hunk to compare with: a variable does not exist.
Unset(s, old, new) ==
  \/ s = NoSpan
  \/ file = NoFile /\ Len(old) = s.ol /\ Len(new) = s.nl

HunkLine ==
  /\ AtLine({"@"})
  /\ Head(lines).readable
  /\ ~Unset(Head(lines).span, <<>>, <<>>)
  /\ span' = Head(lines).span
  /\ oldcode' = <<>>
  /\ newcode' = <<>>
  /\ EndOfLine(Head(lines).span, TRUE, <<>>, <<>>)
  /\ lines' = Tail(lines)
  /\ UNCHANGED <<patch, pc, file, applying, tree, start, writes, round>>

\* The regular expression needs both lengths, and diff leaves out a length 1.
BadHunkLine ==
  /\ AtLine({"@"})
  /\ ~Head(lines).readable \/ Unset(Head(lines).span, <<>>, <<>>)
  /\ Fail

\* What the head of the lines adds to the code of the kinds.
WithLine(code, kinds) ==
  IF inhunk /\ Head(lines).kind \in kinds THEN Append(code, Head(lines).text) ELSE code

CodeLine ==
  /\ AtLine({" ", "-", "+"})
  /\ LET old == WithLine(oldcode, {" ", "-"})
         new == WithLine(newcode, {" ", "+"})
     IN  /\ ~Unset(span, old, new)
         /\ oldcode' = old
         /\ newcode' = new
         /\ EndOfLine(span, inhunk, old, new)
  /\ lines' = Tail(lines)
  /\ UNCHANGED <<patch, pc, file, span, applying, tree, start, writes, round>>

BadCodeLine ==
  /\ AtLine({" ", "-", "+"})
  /\ Unset(span, WithLine(oldcode, {" ", "-"}), WithLine(newcode, {" ", "+"}))
  /\ Fail

Parsed ==
  /\ pc = "parse"
  /\ lines = <<>>
  /\ dict # <<>>
  /\ pc' = "open"
  /\ UNCHANGED <<patch, parsing, dict, applying, tree, start, writes, round>>

\* patchdict does not exist.
NothingParsed == pc = "parse" /\ lines = <<>> /\ dict = <<>> /\ Fail

-----------------------------------------------------------------------------
(* Applying, one file after the other.                                      *)

\* [lrange], counted from 1: what is out of range is left out.
Range1(s, a, b) ==
  SubSeq(s, IF a < 1 THEN 1 ELSE a, IF b > Len(s) THEN Len(s) ELSE b)

OpenFile ==
  /\ pc = "open"
  /\ dict # <<>>
  /\ tree[Head(dict).file] # Missing
  /\ orig' = tree[Head(dict).file]
  /\ patched' = tree[Head(dict).file]
  /\ left' = Head(dict).hunks
  /\ pc' = "hunks"
  /\ UNCHANGED <<patch, parsing, dict, tree, start, writes, round>>

\* The file is missing, or may not be read: the failed open leaves its message
\* in fd, which close then rejects.
OpenFails ==
  /\ pc = "open"
  /\ dict # <<>>
  /\ Fail

\* The hunk is where it says it is.
Matches(s, h) == Range1(s, h.os, h.os + Len(h.old) - 1) = h.old

\* Variant: the lines behind the hunk taken where the hunk has moved them to.
VariantWithHunk(p, s, h) ==
  Range1(p, 1, h.ns - 1) \o h.new \o Range1(p, h.os + Len(h.old), Len(p))

\* All up to the hunk from the new lines, what is behind it from the old ones.
WithHunk(p, s, h) ==
  Range1(p, 1, h.ns - 1) \o h.new \o Range1(s, h.os + Len(h.old), Len(s))

ApplyHunk ==
  /\ pc = "hunks"
  /\ left # <<>>
  /\ Matches(orig, Head(left))
  /\ patched' = WithHunk(patched, orig, Head(left))
  /\ left' = Tail(left)
  /\ UNCHANGED <<patch, pc, parsing, dict, orig, tree, start, writes, round>>

\* Variant: the break of a failed hunk taken for the loop over the files.
VariantHunkFails ==
  /\ pc = "hunks"
  /\ left # <<>>
  /\ ~Matches(orig, Head(left))
  /\ dict' = <<>>
  /\ pc' = "open"
  /\ UNCHANGED <<patch, parsing, applying, tree, start, writes, round>>

\* A message, whatever the file holds instead; the next file is taken.
HunkFails ==
  /\ pc = "hunks"
  /\ left # <<>>
  /\ ~Matches(orig, Head(left))
  /\ dict' = Tail(dict)
  /\ pc' = "open"
  /\ UNCHANGED <<patch, parsing, applying, tree, start, writes, round>>

\* Variant: the file opened for writing as soon as its first hunk has matched.
VariantTruncate ==
  /\ pc = "hunks"
  /\ left # Head(dict).hunks
  /\ tree' = [tree EXCEPT ![Head(dict).file] = <<>>]
  /\ pc' = "write"
  /\ UNCHANGED <<patch, parsing, dict, applying, start, writes, round>>

\* open .. w truncates the file ..
Truncate ==
  /\ pc = "hunks"
  /\ left = <<>>
  /\ tree' = [tree EXCEPT ![Head(dict).file] = <<>>]
  /\ pc' = "write"
  /\ UNCHANGED <<patch, parsing, dict, applying, start, writes, round>>

\* The file may not be written.
TruncateFails ==
  /\ pc = "hunks"
  /\ left = <<>>
  /\ Fail

\* .. and puts and close fill it.
Write ==
  /\ pc = "write"
  /\ tree' = [tree EXCEPT ![Head(dict).file] = patched]
  /\ writes' = [writes EXCEPT ![Head(dict).file] = @ + 1]
  /\ dict' = Tail(dict)
  /\ pc' = "open"
  /\ UNCHANGED <<patch, parsing, applying, start, round>>

\* The disk is full, or the process is killed: what is written so far stays.
WriteFails ==
  /\ pc = "write"
  /\ \E n \in 0..Len(patched) :
       tree' = [tree EXCEPT ![Head(dict).file] = SubSeq(patched, 1, n)]
  /\ pc' = "cut"
  /\ UNCHANGED <<patch, parsing, dict, applying, start, writes, round>>

Finish ==
  /\ pc = "open"
  /\ dict = <<>>
  /\ pc' = "ok"
  /\ UNCHANGED <<patch, parsing, dict, applying, tree, start, writes, round>>

\* A later command evaluates the script again.
Again ==
  /\ pc \in {"ok", "error", "cut"}
  /\ round < Rounds
  /\ round' = round + 1
  /\ start' = tree
  /\ pc' = "parse"
  /\ lines' = patch.lines
  /\ file' = NoFile /\ span' = NoSpan
  /\ inhunk' = FALSE /\ oldcode' = <<>> /\ newcode' = <<>>
  /\ dict' = <<>>
  /\ UNCHANGED <<patch, applying, tree, writes>>

Step ==
  \/ DiffLine \/ BadDiffLine \/ JunkLine \/ HunkLine \/ BadHunkLine
  \/ CodeLine \/ BadCodeLine \/ Parsed \/ NothingParsed
  \/ OpenFile \/ OpenFails \/ ApplyHunk \/ HunkFails
  \/ Truncate \/ TruncateFails \/ Write \/ WriteFails \/ Finish \/ Again

Done == pc \in {"ok", "error", "cut"} /\ round = Rounds /\ UNCHANGED vars

Next == Step \/ Done

Spec == Init /\ [][Next]_vars

-----------------------------------------------------------------------------
(* What a patch means: the hunks of a file replace what they find, from the *)
(* last one to the first, so that none moves the place of another.          *)

\* An empty side is counted from the line before it.
Place(h) == IF h.old = <<>> THEN h.os + 1 ELSE h.os

Fits(s, h) ==
  /\ Place(h) + Len(h.old) - 1 <= Len(s)
  /\ SubSeq(s, Place(h), Place(h) + Len(h.old) - 1) = h.old

Replaced(s, h) ==
  SubSeq(s, 1, Place(h) - 1) \o h.new \o SubSeq(s, Place(h) + Len(h.old), Len(s))

AllReplaced(s, hunks) ==
  LET n == Len(hunks)
      last[i \in 0..n] == IF i = 0 THEN s ELSE Replaced(last[i - 1], hunks[n - i + 1])
  IN  last[n]

AllFit(s, hunks) == \A i \in 1..Len(hunks) : Fits(s, hunks[i])

-----------------------------------------------------------------------------
(* What diff writes: `changes`, as lines.                                   *)

OldKinds == {" ", "-"}
NewKinds == {" ", "+"}

\* Line k is code, or text in which nothing is changed.
IsCode(l) == l.kind \in OldKinds \cup NewKinds

\* How many of the lines behind line i, up to line k, are of these kinds.
Count(ls, i, k, kinds) == Cardinality({m \in (i + 1)..k : ls[m].kind \in kinds})

\* Line i is about file f.
About(ls, f, i) ==
  \E d \in 1..i : /\ ls[d].kind = "diff" /\ ls[d].file = f
                 /\ \A m \in (d + 1)..i : ls[m].kind # "diff"

\* The headers of the hunks of f, up to line k.
HeadersOf(ls, f, k) == {i \in 1..k : ls[i].kind = "@" /\ About(ls, f, i)}

\* From line i to line j there is hunk h: a header with its numbers, and its lines.
Says(ls, i, j, h) ==
  /\ ls[i].span = [os |-> h.os, ol |-> Len(h.old), ns |-> h.ns, nl |-> Len(h.new)]
  /\ Count(ls, i, j, OldKinds) = Len(h.old) /\ Count(ls, i, j, NewKinds) = Len(h.new)
  /\ \A k \in (i + 1)..j :
       /\ IsCode(ls[k]) \/ ls[k].kind = "junk"
       /\ ls[k].kind \in OldKinds => ls[k].text = h.old[Count(ls, i, k, OldKinds)]
       /\ ls[k].kind \in NewKinds => ls[k].text = h.new[Count(ls, i, k, NewKinds)]

\* Where a hunk is in the new file, and the lines behind it there and here.
NewPlace(h) == IF h.new = <<>> THEN h.ns + 1 ELSE h.ns
Behind(h) == Place(h) + Len(h.old)
NewBehind(h) == NewPlace(h) + Len(h.new)

\* One behind the other, with as many lines between them in both files.  With
\* its context a hunk has a side without lines only in an empty file.
InOrder(hunks) ==
  \A i \in 1..Len(hunks) :
    LET h == hunks[i]
        from == IF i = 1 THEN 1 ELSE Behind(hunks[i - 1])
        newFrom == IF i = 1 THEN 1 ELSE NewBehind(hunks[i - 1])
    IN  /\ from <= Place(h)
        /\ Place(h) - from = NewPlace(h) - newFrom
        /\ h.old = <<>> => h.os = 0
        /\ h.new = <<>> => h.ns = 0

FromDiff(p) ==
  LET ls == p.lines
  IN  /\ \A i \in 1..Len(ls) :
           /\ ls[i].kind = "@" => \E f \in Files : About(ls, f, i)
           /\ IsCode(ls[i]) => \E h \in 1..i : /\ ls[h].kind = "@"
                                               /\ \A m \in h..i : ls[m].kind # "diff"
      /\ \A f \in Files :
           /\ Len(p.changes[f]) = Cardinality(HeadersOf(ls, f, Len(ls)))
           /\ InOrder(p.changes[f])
           /\ \A i \in HeadersOf(ls, f, Len(ls)) :
                \E j \in i..Len(ls) :
                  Says(ls, i, j, p.changes[f][Cardinality(HeadersOf(ls, f, i))])

\* No hunk can be read: no file has been named, or there is code before any hunk.
Unreadable(p) ==
  \/ \A i \in 1..Len(p.lines) : p.lines[i].kind = "diff" => ~p.lines[i].headers
  \/ \E i \in 1..Len(p.lines) : /\ IsCode(p.lines[i])
                                /\ \A m \in 1..i : p.lines[m].kind # "@"

ASSUME CasesAssumption == \A c \in Cases : FromDiff(c.patch) \/ Unreadable(c.patch)

-----------------------------------------------------------------------------
(* Properties.                                                              *)

TypeOK ==
  /\ \E c \in Cases : patch = c.patch
  /\ pc \in {"parse", "open", "hunks", "write", "ok", "error", "cut"}
  /\ lines \in Seq(PatchLine)
  /\ file \in Files \cup {NoFile}
  /\ span \in Span \cup {NoSpan}
  /\ inhunk \in BOOLEAN
  /\ oldcode \in Seq(Text) /\ newcode \in Seq(Text)
  /\ dict \in Seq([file: Files, hunks: Seq(Hunk)])
  /\ orig \in Seq(Text) /\ patched \in Seq(Text)
  /\ left \in Seq(Hunk)
  /\ tree \in [Files -> Content] /\ start \in [Files -> Content]
  /\ writes \in [Files -> Nat]
  /\ round \in Nat

Writing(f) == pc \in {"write", "cut"} /\ f = Head(dict).file

(* A file is what it was, or it has all the hunks of the patch, each where  *)
(* the patch wants it (kbs.tcl:1491-1517): not part of them, not one of     *)
(* them twice, and not a hunk of another file.  Wherever the process is     *)
(* killed this holds of all files but the one it was writing.               *)
WholeOrUntouched ==
  \A f \in Files :
    \/ tree[f] = start[f]
    \/ Writing(f)
    \/ /\ start[f] # Missing
       /\ AllFit(start[f], patch.changes[f])
       /\ tree[f] = AllReplaced(start[f], patch.changes[f])

(* A call that returns has patched every file that the patch fits, also     *)
(* those behind a file with a hunk that does not (kbs.tcl:1509).            *)
AppliesWhatFits ==
  pc = "ok" =>
    \A f \in Files :
      start[f] # Missing /\ AllFit(start[f], patch.changes[f])
        => tree[f] = AllReplaced(start[f], patch.changes[f])

(* No file is emptied before all of its hunks have been found in what it    *)
(* held when the call began (kbs.tcl:1488, 1517): no hunk is checked against *)
(* what another one has made of the file, and none of another file counts.  *)
MatchedBeforeWritten ==
  pc = "write" =>
    LET f == Head(dict).file
    IN  /\ start[f] # Missing
        /\ \A i \in 1..Len(Head(dict).hunks) : Matches(start[f], Head(dict).hunks[i])

(* The whole patch is parsed before the first file is opened: an error in   *)
(* it, in whatever line, leaves all files alone (kbs.tcl:1398, 1477).  A    *)
(* file that cannot be opened (kbs.tcl:1484, 1519) ends the call behind     *)
(* other files that are patched, and is left alone like all that follow.    *)
ParsedBeforeTouched ==
  /\ pc = "parse" => tree = start
  /\ pc = "error" /\ (lines # <<>> \/ dict = <<>>) => tree = start
  /\ pc = "error" => \A i \in 1..Len(dict) : tree[dict[i].file] = start[dict[i].file]

-----------------------------------------------------------------------------
(* What the comments say, and the code does not do.                         *)

\* kbs.tcl:1500, check if the patch is already applied.
PatchedOnce == \A f \in Files : writes[f] <= 1
=============================================================================
