-------------------------- MODULE MCKbsPatchApply --------------------------
(***************************************************************************)
(* Instances of KbsPatchApply.  A patch of file "f" is made from an edit   *)
(* script, a list of lines marked as in a unified diff, so that the files  *)
(* before and after it are known; file "g" has one simple hunk.            *)
(***************************************************************************)
EXTENDS KbsPatchApply

MCFiles == {"f", "g"}
MCText == {"a", "b", "blank"}

Edit(op, text) == [op |-> op, text |-> text]
Common(t) == Edit(" ", t)
Removed(t) == Edit("-", t)
Added(t) == Edit("+", t)

TextsOf(script, ops) ==
  LET kept == SelectSeq(script, LAMBDA e : e.op \in ops)
  IN  [i \in 1..Len(kept) |-> kept[i].text]
Old(script) == TextsOf(script, {" ", "-"})
New(script) == TextsOf(script, {" ", "+"})

\* The hunk for script[a..b].
HunkFor(script, a, b) ==
  LET part == SubSeq(script, a, b)
      before == SubSeq(script, 1, a - 1)
      from(side, all) == IF side = <<>> THEN Len(all) ELSE Len(all) + 1
  IN  [os |-> from(Old(part), Old(before)), ns |-> from(New(part), New(before)),
       old |-> Old(part), new |-> New(part), part |-> part]

\* diff -u leaves out a length of 1, which the code then cannot read.
LinesFor(h) ==
  << [kind |-> "@",
      span |-> [os |-> h.os, ol |-> Len(h.old), ns |-> h.ns, nl |-> Len(h.new)],
      readable |-> Len(h.old) # 1 /\ Len(h.new) # 1] >>
  \o [i \in 1..Len(h.part) |-> [kind |-> h.part[i].op, text |-> h.part[i].text]]

DiffLineFor(f) == [kind |-> "diff", file |-> f, headers |-> TRUE]

Plain(h) == [os |-> h.os, ns |-> h.ns, old |-> h.old, new |-> h.new]

\* A script, and the hunks it is cut into.
Short ==
  {[script |-> s, cuts |-> << <<1, Len(s)>> >>] :
     s \in UNION {[1..n -> {Edit(op, t) : op \in {" ", "-", "+"}, t \in {"a", "b"}}] :
                    n \in 1..3}}

Edits ==
  {<<Removed("a")>>, <<Added("b")>>, <<Removed("a"), Added("b")>>,
   <<Added("a"), Added("a")>>, <<Removed("b"), Removed("b")>>}

\* Two changes with a line between them that is in no hunk, each with two common
\* lines, so that no side of a hunk is a single line.
Long ==
  {LET first == e1 \o <<Common("a"), Common("b")>>
       second == <<Common("b"), Common("a")>> \o e2
   IN  [script |-> first \o <<Common("b")>> \o second,
        cuts |-> << <<1, Len(first)>>,
                    <<Len(first) + 2, Len(first) + 1 + Len(second)>> >>] :
     e1 \in Edits, e2 \in Edits}

Changing == {s \in Short \cup Long : Old(s.script) # New(s.script)}

\* The file "g", from a line a to a line b.
ScriptOfG == <<Removed("a"), Added("b"), Common("blank")>>
HunkOfG == HunkFor(ScriptOfG, 1, 3)

HunksOf(s) == [i \in 1..Len(s.cuts) |-> HunkFor(s.script, s.cuts[i][1], s.cuts[i][2])]

\* Behind the last hunk: nothing, a message of diff, the end of an argument.
Ends == {<<>>, <<[kind |-> "junk"]>>, <<[kind |-> " ", text |-> "blank"]>>}

PatchOf(s, end) ==
  LET hs == HunksOf(s)
  IN  [lines |-> <<DiffLineFor("f")>> \o FlattenSeq([i \in 1..Len(hs) |-> LinesFor(hs[i])])
                 \o <<DiffLineFor("g")>> \o LinesFor(HunkOfG) \o end,
       changes |-> [f \in MCFiles |-> IF f = "f" THEN [i \in 1..Len(hs) |-> Plain(hs[i])]
                                      ELSE <<Plain(HunkOfG)>>]]

\* A text file ends with the empty element behind its last newline.
TextFile(texts) == IF texts = <<>> THEN <<>> ELSE Append(texts, "blank")

\* A file that the first hunk fits, and no other one.
FirstOnly(s) == TextFile(Old(SubSeq(s.script, 1, s.cuts[1][2])))

TreesOf(s) ==
  [MCFiles -> {Missing}] \cup
  {[f \in MCFiles |-> IF f = "f" THEN x ELSE y] :
     x \in {TextFile(Old(s.script)), TextFile(New(s.script)), FirstOnly(s),
            <<"a", "a", "blank">>},
     y \in {TextFile(Old(ScriptOfG)), TextFile(New(ScriptOfG)), Missing}}

MCCases ==
  UNION {[patch: {PatchOf(s, end) : end \in Ends}, tree: TreesOf(s)] : s \in Changing}

\* Lines that are no output of diff: a bad header, code without a hunk.
BadCases ==
  [patch: {[lines |-> l, changes |-> [f \in MCFiles |-> <<>>]] :
             l \in {<<>>, <<[kind |-> "junk"]>>,
                    <<[kind |-> "diff", file |-> "f", headers |-> FALSE]>>,
                    <<[kind |-> "+", text |-> "a"]>>,
                    LinesFor(HunkOfG),
                    <<DiffLineFor("f"), [kind |-> "-", text |-> "a"]>>}},
   tree: [MCFiles -> {<<"a", "blank">>, Missing}]]

MCAllCases == MCCases \cup BadCases
=============================================================================
