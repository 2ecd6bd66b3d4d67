------------------------------ MODULE KbsPatch ------------------------------
(***************************************************************************)
(* The text that Patch (kbs.tcl:1306-1340) reads and writes: a sequence of *)
(* tokens, of which "nl" is the end of a line.  A patch replaces one text  *)
(* by another one at the beginning of a line.                              *)
(***************************************************************************)
EXTENDS Naturals, Sequences, FiniteSets, SequencesExt

CONSTANT Tokens

ASSUME TokensAssumption == "nl" \in Tokens

Text     == Seq(Tokens)
LinePatch == [line: Nat \ {0}, old: Text, new: Text]

LineEnds(t, i) == Cardinality({j \in 1 .. i : t[j] = "nl"})

\* Patch finds the line, which may be the empty one behind the last line end.
HasLine(t, n) == LineEnds(t, Len(t)) >= n - 1

LineStart(t, n) ==
  CHOOSE i \in 1 .. Len(t) + 1 : /\ LineEnds(t, i - 1) = n - 1
                                 /\ i > 1 => t[i - 1] = "nl"

\* The text from the line on begins with s.
At(t, n, s) ==
  HasLine(t, n) /\ IsPrefix(s, SubSeq(t, LineStart(t, n), Len(t)))

Exists(t, p)  == At(t, p.line, p.new)

Applies(t, p) == ~Exists(t, p) /\ At(t, p.line, p.old)

\* The patched text; puts ends it with another line end.
Patched(t, p) ==
  LET i == LineStart(t, p.line)
  IN  SubSeq(t, 1, i - 1) \o p.new
        \o SubSeq(t, i + Len(p.old), Len(t)) \o <<"nl">>
=============================================================================
