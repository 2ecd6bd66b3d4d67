--------------------------- MODULE KbsBuild_proofs ---------------------------
(***************************************************************************)
(* Proofs about KbsBuild for every value of its constants.                 *)
(***************************************************************************)
EXTENDS KbsBuild, StackLemmas

-----------------------------------------------------------------------------
(***************************************************************************)
(* Lemmas about sequences used as work lists.                              *)
(***************************************************************************)
\* The elements of a sequence are its head and the elements of its tail.
LEMMA RangeHeadTail ==
  ASSUME NEW S, NEW s \in Seq(S), s # <<>>
  PROVE  /\ Head(s) \in S /\ Tail(s) \in Seq(S)
         /\ Range(s) = {Head(s)} \union Range(Tail(s))
<1>1. /\ Head(s) \in S /\ Tail(s) \in Seq(S)
      /\ Len(Tail(s)) = Len(s) - 1 /\ Len(s) \in Nat \ {0}
      /\ \A i \in 1..Len(s)-1 : Tail(s)[i] = s[i+1]
  BY HeadTailProperties
<1>2. Range(s) = {s[i] : i \in 1..Len(s)} /\ Range(Tail(s)) = {Tail(s)[i] : i \in 1..Len(s)-1}
  BY <1>1, LenProperties DEF Range
<1>3. Head(s) = s[1]
  OBVIOUS
<1>4. ASSUME NEW i \in 1..Len(s)  PROVE s[i] \in {Head(s)} \union Range(Tail(s))
  <2>1. CASE i = 1
    BY <1>3, <2>1
  <2>2. CASE i # 1
    <3>1. i - 1 \in 1..Len(s)-1 /\ Tail(s)[i-1] = s[(i-1)+1] /\ (i-1)+1 = i
      BY <1>1, <2>2
    <3> QED
      BY <1>2, <3>1
  <2> QED
    BY <2>1, <2>2
<1>5. ASSUME NEW i \in 1..Len(s)-1  PROVE Tail(s)[i] \in Range(s)
  <2>1. i + 1 \in 1..Len(s) /\ Tail(s)[i] = s[i+1]
    BY <1>1
  <2> QED
    BY <1>2, <2>1
<1>6. Head(s) \in Range(s)
  BY <1>1, <1>2, <1>3
<1> QED
  BY <1>1, <1>2, <1>4, <1>5, <1>6

\* The names in a list of Use calls are those of the first and of the others.
LEMMA NamesHeadTail ==
  ASSUME NEW S, NEW us \in Seq(Seq(S)), us # <<>>
  PROVE  NamesIn(us) = Range(Head(us)) \union NamesIn(Tail(us))
  BY RangeHeadTail, Range(us) = {Head(us)} \union Range(Tail(us)) DEF NamesIn

-----------------------------------------------------------------------------
(***************************************************************************)
(* Lemmas about the packages a request reaches and about frames.           *)
(***************************************************************************)
\* A request reaches its targets.
LEMMA ReachedTargets ==
  ASSUME goal \subseteq Pkg  PROVE goal \subseteq Reached
  BY DEF Reached

\* With -r it reaches what a reached package uses.
LEMMA ReachedUses ==
  ASSUME switch.recursive, NEW p \in Reached, NEW d \in Deps(p) \intersect Pkg
  PROVE  d \in Reached
  BY DEF Reached

\* What a request reaches is settled when it starts.
LEMMA ReachedStable ==
  ASSUME UNCHANGED <<goal, switch>>  PROVE Reached' = Reached
  BY DEF Reached

\* The innermost frame of a nonempty stack.
LEMMA TopFrame ==
  ASSUME TypeOK, stack # <<>>
  PROVE  /\ Len(stack) \in Nat \ {0}
         /\ top = stack[Len(stack)] /\ top \in Frame
  BY DEF TypeOK, top, Last

\* The empty value is no name.
LEMMA NoneApart == None \notin Name /\ Pkg \subseteq Name /\ Undefined \subseteq Name
  BY ConstantsAssumption DEF Name

\* Every section of a definition is one of the seven, and Require is the first.
LEMMA RequireFirst ==
  ASSUME NEW s \in Section, s # "Require", AtSection(s)
  PROVE  "Require" \notin top.left
<1>1. "Require" \in Section /\ Rank["Require"] = 1
  BY DEF Rank, Section
<1>2. Rank[s] \in 2..7
  BY DEF Rank, Section
<1>3. "Require" \in top.left => Rank[s] <= Rank["Require"]
  BY DEF AtSection
<1> QED
  BY <1>1, <1>2, <1>3

\* A new evaluation has a well-formed frame with nothing pending.
LEMMA FreshFrame ==
  ASSUME NEW p \in Pkg
  PROVE  /\ NewFrame(p) \in Frame
         /\ NewFrame(p).own = p
         /\ NewFrame(p).left = Sections[p] \intersect Used(cmd)
         /\ NewFrame(p).uses = <<>> /\ NewFrame(p).args = <<>>
         /\ Pending(NewFrame(p)) = {}
<1>1. Sections[p] \intersect Used(cmd) \in SUBSET Section
  BY ConstantsAssumption
<1>2. <<>> \in Seq(Name) /\ <<>> \in Seq(Seq(Name))
  BY EmptySeq
<1>3. Range(<<>>) = {} /\ NamesIn(<<>>) = {}
  BY EmptySeq DEF Range, NamesIn
<1>4. NewFrame(p) \in Frame
  BY <1>1, <1>2 DEF NewFrame, Frame
<1>5. /\ NewFrame(p).own = p
      /\ NewFrame(p).left = Sections[p] \intersect Used(cmd)
      /\ NewFrame(p).uses = <<>> /\ NewFrame(p).args = <<>>
  BY DEF NewFrame
<1> QED
  BY <1>3, <1>4, <1>5 DEF Pending

-----------------------------------------------------------------------------
(***************************************************************************)
(* The steps inside the innermost evaluation: they replace its frame f.    *)
(***************************************************************************)
\* A step that only replaces the innermost frame, by one in which nothing is
\* lost of what Require has still to use, preserves the inductive invariant.
LEMMA InnermostStep ==
  ASSUME IInv, TypeOK', stack # <<>>, pc # "raise", pc' \notin {"idle", "targets"},
         UNCHANGED <<request, ready, loaded, todo>>,
         NEW f \in Frame, f.own = top.own, f.left \subseteq top.left,
         Len(stack') = Len(stack), stack'[Len(stack)] = f,
         \A i \in 1..Len(stack)-1 : stack'[i] = stack[i],
         Pending(f) \subseteq Deps(f.own),
         f.uses # <<>> \/ f.args # <<>> => switch.recursive /\ "Require" \notin f.left,
         pc' = "use" => f.saved = f.own /\ "Require" \notin f.left /\ switch.recursive,
         InSections' => /\ package' = f.own /\ makedir' = f.own /\ f.args = <<>>
                        /\ pc' # "Require" => f.uses = <<>>
                        /\ pc' # "eval" => "Require" \notin f.left,
         Strict /\ pc' # "raise" /\ "Require" \notin f.left
           => Deps(f.own) \subseteq loaded \union Pending(f)
  PROVE  IInv'
<1>1. Len(stack) \in Nat \ {0} /\ top = stack[Len(stack)] /\ stack \in Seq(Frame)
  BY TopFrame DEF IInv, TypeOK
<1>2. stack' # <<>> /\ top' = f
  BY <1>1 DEF top, Last
<1>3. \A i \in 1..Len(stack) : i \in 1..Len(stack)-1 \/ i = Len(stack)
  BY <1>1
<1>4. UNCHANGED <<cmd, switch, goal, Strict, Reached>>
  BY ReachedStable DEF request, Strict
<1>5. \A i \in 1..Len(stack) : stack'[i].own = stack[i].own
  BY <1>1, <1>3
<1>6. \A i \in 1..Len(stack) : Nested(i)' = Nested(i)
  <2> TAKE i \in 1..Len(stack)
  <2>1. CASE i = Len(stack)
    BY <1>1, <2>1 DEF Nested
  <2>2. CASE i # Len(stack)
    <3>1. i < Len(stack) /\ i + 1 \in 1..Len(stack)
      BY <1>1, <2>2
    <3> QED
      BY <1>5, <3>1 DEF Nested
  <2> QED
    BY <2>1, <2>2
<1>7. FramesOK'
  <2> SUFFICES ASSUME NEW i \in 1..Len(stack)
               PROVE  LET g == stack'[i] IN
                        /\ g.left \subseteq Sections[g.own] \intersect Used(cmd)
                        /\ Pending(g) \subseteq Deps(g.own)
                        /\ g.uses # <<>> \/ g.args # <<>>
                             => switch.recursive /\ "Require" \notin g.left
                        /\ i < Len(stack) \/ pc' = "use" =>
                             g.saved = g.own /\ "Require" \notin g.left /\ switch.recursive
    BY <1>2, <1>4 DEF FramesOK, Pending
  <2>1. CASE i = Len(stack)
    BY <1>1, <1>2, <2>1 DEF IInv, FramesOK
  <2>2. CASE i # Len(stack)
    <3>1. stack'[i] = stack[i] /\ i < Len(stack)
      BY <1>1, <1>3, <2>2
    <3>2. LET g == stack[i] IN
            /\ g.left \subseteq Sections[g.own] \intersect Used(cmd)
            /\ Pending(g) \subseteq Deps(g.own)
            /\ g.uses # <<>> \/ g.args # <<>>
                 => switch.recursive /\ "Require" \notin g.left
            /\ g.saved = g.own /\ "Require" \notin g.left /\ switch.recursive
      BY <3>1 DEF IInv, FramesOK
    <3> QED
      BY <3>1, <3>2
  <2> QED
    BY <2>1, <2>2
<1>8. ScriptOK'
  BY <1>2 DEF ScriptOK
<1>9. OrderOK'
  <2> SUFFICES ASSUME Strict, pc' # "raise", NEW i \in 1..Len(stack), "Require" \notin stack'[i].left
               PROVE  Deps(stack'[i].own)
                        \subseteq loaded \union Pending(stack'[i]) \union Nested(i)
    BY <1>2, <1>4, <1>6 DEF OrderOK, Pending
  <2>1. CASE i = Len(stack)
    BY <1>2, <2>1
  <2>2. CASE i # Len(stack)
    BY <1>1, <1>3, <2>2 DEF IInv, OrderOK
  <2> QED
    BY <2>1, <2>2
<1>10. \A i \in 1..Len(stack') : stack'[i].own \in Reached'
  BY <1>2, <1>4, <1>5 DEF IInv
<1>11. ReadyMeansLoaded'
  BY <1>4 DEF IInv, ReadyMeansLoaded
<1>12. \A i \in 1..Len(todo') : todo'[i] \subseteq goal'
  BY <1>4 DEF IInv
<1> QED
  BY <1>2, <1>7, <1>8, <1>9, <1>10, <1>11, <1>12 DEF IInv

\* A step that ends the innermost evaluation preserves the inductive invariant
\* if what it ends counts as loaded or nothing relies on it any more.
LEMMA EndStep ==
  ASSUME IInv, TypeOK', stack # <<>>, UNCHANGED <<request, todo>>,
         Len(stack') = Len(stack) - 1,
         \A i \in 1..Len(stack') : stack'[i] = stack[i],
         (stack' = <<>>) <=> (Len(stack) = 1),
         Len(stack) = 1 => pc' \in {"idle", "targets"},
         Len(stack) # 1 => pc' \in {"use", "raise"},
         loaded \subseteq loaded', ReadyMeansLoaded',
         Strict /\ pc' # "raise" /\ Len(stack) # 1 => pc # "raise" /\ top.own \in loaded'
  PROVE  IInv'
<1>1. /\ Len(stack) \in Nat \ {0} /\ top = stack[Len(stack)] /\ stack \in Seq(Frame)
      /\ stack' \in Seq(Frame)
  BY TopFrame DEF IInv, TypeOK
<1>2. \A i \in 1..Len(stack') : i \in 1..Len(stack) /\ i < Len(stack) /\ i + 1 \in 1..Len(stack)
  BY <1>1
<1>3. UNCHANGED <<cmd, switch, goal, Strict, Reached>>
  BY ReachedStable DEF request, Strict
<1>4. FramesOK'
  <2> SUFFICES ASSUME NEW i \in 1..Len(stack')
               PROVE  LET g == stack[i] IN
                        /\ g.left \subseteq Sections[g.own] \intersect Used(cmd)
                        /\ Pending(g) \subseteq Deps(g.own)
                        /\ g.uses # <<>> \/ g.args # <<>>
                             => switch.recursive /\ "Require" \notin g.left
                        /\ g.saved = g.own /\ "Require" \notin g.left /\ switch.recursive
    BY <1>3 DEF FramesOK, Pending
  <2> QED
    BY <1>2 DEF IInv, FramesOK
<1>5. ScriptOK'
  BY DEF ScriptOK, InSections, Section
<1>6. OrderOK'
  <2> SUFFICES ASSUME Strict, pc' # "raise",
                      NEW i \in 1..Len(stack'), "Require" \notin stack[i].left
               PROVE  Deps(stack[i].own)
                        \subseteq loaded' \union Pending(stack[i]) \union Nested(i)'
    BY <1>3 DEF OrderOK, Pending
  <2>1. Len(stack) # 1
    BY <1>1
  <2>2. Deps(stack[i].own) \subseteq loaded \union Pending(stack[i]) \union Nested(i)
    BY <1>2, <2>1 DEF IInv, OrderOK
  <2>3. CASE i = Len(stack')
    <3>1. i + 1 = Len(stack)
      BY <1>1, <2>3
    <3>2. Nested(i) \subseteq loaded'
      BY <1>1, <2>1, <3>1 DEF Nested
    <3> QED
      BY <2>2, <3>2
  <2>4. CASE i # Len(stack')
    <3>1. i + 1 \in 1..Len(stack') /\ i < Len(stack') /\ i < Len(stack)
      BY <1>1, <2>4
    <3>2. Nested(i)' = Nested(i)
      BY <3>1 DEF Nested
    <3> QED
      BY <2>2, <3>2
  <2> QED
    BY <2>3, <2>4
<1>7. \A i \in 1..Len(stack') : stack'[i].own \in Reached'
  BY <1>2, <1>3 DEF IInv
<1>8. \A i \in 1..Len(todo') : todo'[i] \subseteq goal'
  BY <1>3 DEF IInv
<1> QED
  BY <1>4, <1>5, <1>6, <1>7, <1>8 DEF IInv

\* A step that leaves no evaluation behind preserves the inductive invariant.
LEMMA IdleStep ==
  ASSUME TypeOK', stack' = <<>>, pc' \in {"idle", "targets"}, ReadyMeansLoaded',
         \A i \in 1..Len(todo') : todo'[i] \subseteq goal'
  PROVE  IInv'
<1>1. Len(stack') = 0 /\ 1..0 = {}
  BY EmptySeq
<1>2. FramesOK' /\ OrderOK' /\ \A i \in 1..Len(stack') : stack'[i].own \in Reached'
  BY <1>1 DEF FramesOK, OrderOK
<1>3. ScriptOK'
  BY DEF ScriptOK, InSections, Section
<1> QED
  BY <1>2, <1>3 DEF IInv

\* Replacing the innermost frame, with the facts InnermostStep asks for.
LEMMA ReplaceTop ==
  ASSUME TypeOK, stack # <<>>, NEW f \in Frame, stack' = [stack EXCEPT ![Len(stack)] = f]
  PROVE  /\ stack' \in Seq(Frame) /\ Len(stack') = Len(stack) /\ stack'[Len(stack)] = f
         /\ \A i \in 1..Len(stack)-1 : stack'[i] = stack[i]
  BY ReplaceLast DEF TypeOK

-----------------------------------------------------------------------------
(***************************************************************************)
(* The sections behind Require.                                            *)
(***************************************************************************)
\* Entering a section behind Require preserves the inductive invariant.
LEMMA LeaveStep ==
  ASSUME IInv, NEW s \in Section, s # "Require", AtSection(s), Leave(s),
         stack' \in Seq(Frame) => TypeOK',
         pc' \in {"eval", "raise", "fetch", "Source", "Configure", "Make", "Install",
                 "Clean", "Test"},
         UNCHANGED <<package, makedir, request, ready, loaded, todo>>
  PROVE  IInv'
<1> DEFINE f == [top EXCEPT !.left = @ \ {s}]
<1>1. pc = "eval" /\ "Require" \notin top.left
  BY RequireFirst DEF AtSection
<1>2. stack # <<>>
  BY <1>1 DEF IInv
<1>3. Len(stack) \in Nat \ {0} /\ top = stack[Len(stack)] /\ top \in Frame
  BY <1>2, TopFrame DEF IInv
<1>4. /\ f \in Frame /\ f.own = top.own /\ f.left \subseteq top.left
      /\ f.args = top.args /\ f.uses = top.uses
  BY <1>3 DEF Frame
<1>5. stack' = [stack EXCEPT ![Len(stack)] = f]
  BY DEF Leave, WithTop
<1> HIDE DEF f
<1>6. /\ stack' \in Seq(Frame) /\ Len(stack') = Len(stack) /\ stack'[Len(stack)] = f
      /\ \A i \in 1..Len(stack)-1 : stack'[i] = stack[i]
  BY <1>2, <1>4, <1>5, ReplaceTop DEF IInv
<1>7. package = top.own /\ makedir = top.own /\ top.args = <<>> /\ top.uses = <<>>
  BY <1>1 DEF IInv, ScriptOK, InSections
<1>8. Pending(f) = Pending(top) /\ Pending(top) \subseteq Deps(top.own)
  BY <1>3, <1>4 DEF Pending, IInv, FramesOK
<1>9. Strict => Deps(top.own) \subseteq loaded \union Pending(top)
  <2>1. Nested(Len(stack)) = {}
    BY <1>3 DEF Nested
  <2> QED
    BY <1>1, <1>3, <2>1 DEF IInv, OrderOK
<1>10. "Require" \notin f.left
  BY <1>1, <1>4
<1> QED
  BY <1>1, <1>2, <1>4, <1>6, <1>7, <1>8, <1>9, <1>10, InnermostStep DEF IInv

\* So does a step of a section's script.
LEMMA ScriptStep ==
  ASSUME IInv, TypeOK',
         pc \in {"fetch", "Source", "Configure", "Make", "Install", "Clean", "Test"},
         pc' \in {"eval", "raise", "Source"},
         UNCHANGED <<stack, package, makedir, request, ready, loaded, todo>>
  PROVE  IInv'
<1>1. InSections /\ pc # "eval" /\ pc # "Require" /\ pc # "raise"
  BY DEF InSections, Section
<1>2. stack # <<>>
  BY DEF IInv
<1>3. Len(stack) \in Nat \ {0} /\ top = stack[Len(stack)] /\ top \in Frame
  BY <1>2, TopFrame DEF IInv
<1>4. /\ package = top.own /\ makedir = top.own /\ top.args = <<>> /\ top.uses = <<>>
      /\ "Require" \notin top.left
  BY <1>1 DEF IInv, ScriptOK
<1>5. Pending(top) \subseteq Deps(top.own)
  BY <1>3 DEF IInv, FramesOK
<1>6. Strict => Deps(top.own) \subseteq loaded \union Pending(top)
  <2>1. Nested(Len(stack)) = {}
    BY <1>3 DEF Nested
  <2> QED
    BY <1>1, <1>3, <1>4, <2>1 DEF IInv, OrderOK
<1>7. /\ Len(stack') = Len(stack) /\ stack'[Len(stack)] = top
      /\ \A i \in 1..Len(stack)-1 : stack'[i] = stack[i]
  BY <1>3
<1> QED
  BY <1>1, <1>2, <1>3, <1>4, <1>5, <1>6, <1>7, InnermostStep

\* The sections Source to Test.
LEMMA SectionSteps ==
  ASSUME IInv,
         \/ SourceDistclean \/ SourcePresent \/ SourceFetch
         \/ FetchOk \/ FetchFail \/ SourceEnd \/ ConfigureBegin
         \/ \E s \in Section : NeedsDirBegin(s) \/ SkipsNoDirBegin(s)
         \/ ScriptOk \/ ScriptFail
  PROVE  IInv'
<1>1. ASSUME pc \in {"eval", "fetch", "Source", "Configure", "Make", "Install", "Clean", "Test"}
      PROVE  package \in Pkg /\ makedir \in Pkg
  <2>1. stack # <<>> /\ InSections
    BY <1>1 DEF IInv, InSections, Section
  <2> QED
    BY <2>1, TopFrame DEF IInv, ScriptOK, Frame
<1>2. SrcOf \in [Pkg -> Pkg]
  BY ConstantsAssumption
<1>3. CASE SourceDistclean
  BY <1>1, <1>3, LeaveStep DEF SourceDistclean, AtSection, Section, IInv, TypeOK, fs, body, context, request
<1>4. CASE SourcePresent
  BY <1>1, <1>2, <1>4, LeaveStep DEF SourcePresent, AtSection, Section, IInv, TypeOK, fs, body, context, request, Control
<1>5. CASE SourceFetch
  BY <1>1, <1>2, <1>5, LeaveStep DEF SourceFetch, AtSection, Section, IInv, TypeOK, fs, body, context, request, Control
<1>6. CASE FetchOk
  BY <1>1, <1>2, <1>6, ScriptStep DEF FetchOk, IInv, TypeOK, fs, body, context, request, Control
<1>7. CASE FetchFail
  BY <1>1, <1>2, <1>7, ScriptStep DEF FetchFail, IInv, TypeOK, fs, body, context, request, Control
<1>8. CASE SourceEnd
  BY <1>8, ScriptStep DEF SourceEnd, IInv, TypeOK, fs, body, context, request, Control
<1>9. CASE ConfigureBegin
  BY <1>1, <1>9, LeaveStep DEF ConfigureBegin, AtSection, Section, IInv, TypeOK, fs, body, context, request, Control
<1>10. ASSUME NEW s \in Section, NeedsDirBegin(s)  PROVE IInv'
  BY <1>10, LeaveStep DEF NeedsDirBegin, AtSection, Section, IInv, TypeOK, fs, body, context, request, Control
<1>11. ASSUME NEW s \in Section, SkipsNoDirBegin(s)  PROVE IInv'
  BY <1>11, LeaveStep DEF SkipsNoDirBegin, AtSection, Section, IInv, TypeOK, fs, body, context, request, Control
<1>12. CASE ScriptOk
  BY <1>1, <1>12, ScriptStep DEF ScriptOk, IInv, TypeOK, fs, body, context, request, Control
<1>13. CASE ScriptFail
  BY <1>1, <1>13, ScriptStep DEF ScriptFail, IInv, TypeOK, fs, body, context, request, Control
<1> QED
  BY <1>3, <1>4, <1>5, <1>6, <1>7, <1>8, <1>9, <1>10, <1>11, <1>12, <1>13

-----------------------------------------------------------------------------
(***************************************************************************)
(* Require and its Use calls.                                              *)
(***************************************************************************)
\* Where control is inside an evaluation.
LEMMA Inside ==
  ASSUME IInv, pc \notin {"idle", "targets"}
  PROVE  /\ stack # <<>> /\ Len(stack) \in Nat \ {0} /\ stack \in Seq(Frame)
         /\ top = stack[Len(stack)] /\ top \in Frame
         /\ Nested(Len(stack)) = {}
         /\ top.left \subseteq Sections[top.own] \intersect Used(cmd)
         /\ Pending(top) \subseteq Deps(top.own)
         /\ top.uses # <<>> \/ top.args # <<>> => switch.recursive /\ "Require" \notin top.left
         /\ pc = "use" =>
              top.saved = top.own /\ "Require" \notin top.left /\ switch.recursive
         /\ top.own \in Reached
         /\ Strict /\ pc # "raise" /\ "Require" \notin top.left
              => Deps(top.own) \subseteq loaded \union Pending(top)
<1>1. /\ stack # <<>> /\ Len(stack) \in Nat \ {0} /\ stack \in Seq(Frame)
      /\ top = stack[Len(stack)] /\ top \in Frame
  BY TopFrame DEF IInv, TypeOK
<1>2. Nested(Len(stack)) = {}
  BY <1>1 DEF Nested
<1>3. Len(stack) \in 1..Len(stack)
  BY <1>1
<1> QED
  BY <1>1, <1>2, <1>3 DEF IInv, FramesOK, OrderOK

\* Require evaluates its script with -r.
LEMMA RequireBeginStep ==
  ASSUME IInv, RequireBegin  PROVE IInv'
<1> DEFINE f == [top EXCEPT !.left = @ \ {"Require"}, !.uses = Uses[top.own]]
           g == [top EXCEPT !.left = @ \ {"Require"}]
<1>1. pc = "eval" /\ "Require" \in top.left
  BY DEF RequireBegin, AtSection
<1>2. InSections /\ pc # "raise"
  BY <1>1 DEF InSections
<1>3. /\ package = top.own /\ makedir = top.own /\ top.args = <<>> /\ top.uses = <<>>
  BY <1>1, <1>2 DEF IInv, ScriptOK
<1>4. top.own \in Pkg /\ Uses[top.own] \in Seq(Seq(Name))
  BY <1>1, Inside, ConstantsAssumption DEF Frame
<1>5. "Require" \in Sections[top.own] /\ Deps(top.own) = NamesIn(Uses[top.own])
  BY <1>1, Inside DEF Deps
<1>6. CASE switch.recursive
  <2>1. /\ f \in Frame /\ f.own = top.own /\ f.left = top.left \ {"Require"}
        /\ f.args = <<>> /\ f.uses = Uses[top.own]
    BY <1>1, <1>3, <1>4, Inside DEF Frame
  <2>2. /\ stack' = [stack EXCEPT ![Len(stack)] = f] /\ pc' = "Require"
        /\ UNCHANGED <<fs, body, context, ready, request, todo, loaded, result>>
    BY <1>6 DEF RequireBegin, WithTop
  <2> HIDE DEF f
  <2>3. /\ stack' \in Seq(Frame) /\ Len(stack') = Len(stack) /\ stack'[Len(stack)] = f
        /\ \A i \in 1..Len(stack)-1 : stack'[i] = stack[i]
    BY <1>1, <2>1, <2>2, Inside, ReplaceTop DEF IInv
  <2>4. TypeOK'
    BY <1>1, <2>2, <2>3, Inside DEF IInv, TypeOK, fs, body, context, request, Control
  <2>5. Pending(f) = Deps(f.own)
    BY <1>5, <2>1, EmptySeq DEF Pending, Range
  <2>6. "Require" \notin f.left /\ f.left \subseteq top.left
    BY <2>1
  <2>7. InSections' => /\ package' = f.own /\ makedir' = f.own /\ f.args = <<>>
                       /\ pc' # "Require" => f.uses = <<>>
                       /\ pc' # "eval" => "Require" \notin f.left
    BY <1>3, <2>1, <2>2, <2>6 DEF context
  <2>8. stack # <<>> /\ pc # "raise" /\ pc' \notin {"idle", "targets"} /\ pc' # "use"
    BY <1>1, <2>2, Inside
  <2> QED
    BY ONLY IInv, <1>6, <2>1, <2>2, <2>3, <2>4, <2>5, <2>6, <2>7, <2>8, InnermostStep
<1>7. CASE ~switch.recursive
  <2>1. /\ g \in Frame /\ g.own = top.own /\ g.left = top.left \ {"Require"}
        /\ g.args = <<>> /\ g.uses = <<>>
    BY <1>1, <1>3, Inside DEF Frame
  <2>2. /\ stack' = [stack EXCEPT ![Len(stack)] = g] /\ pc' = "eval"
        /\ UNCHANGED <<fs, body, context, ready, request, todo, loaded, result>>
    BY <1>1, <1>7 DEF RequireBegin, Leave, WithTop
  <2>3. Pending(g) = Pending(top)
    BY <1>3, <2>1 DEF Pending
  <2> HIDE DEF g
  <2>4. /\ stack' \in Seq(Frame) /\ Len(stack') = Len(stack) /\ stack'[Len(stack)] = g
        /\ \A i \in 1..Len(stack)-1 : stack'[i] = stack[i]
    BY <1>1, <2>1, <2>2, Inside, ReplaceTop DEF IInv
  <2>5. TypeOK'
    BY <1>1, <2>2, <2>4, Inside DEF IInv, TypeOK, fs, body, context, request, Control
  <2>6. ~Strict
    BY <1>7 DEF Strict
  <2> QED
    BY <1>1, <1>3, <1>7, <2>1, <2>2, <2>3, <2>4, <2>5, <2>6, Inside, InnermostStep DEF context
<1> QED
  BY <1>6, <1>7

\* The steps of Require and Use that leave the frames alone.
LEMMA RequireStaySteps ==
  ASSUME IInv, RequireEnd \/ UseLeave \/ \E d \in Name : UseNotFound(d)
  PROVE  IInv'
<1>1. pc \in {"Require", "use"} /\ pc' \in {"eval", "Require", "raise"} /\ stack' = stack
  BY DEF RequireEnd, UseLeave, UseNotFound, NextArg
<1>2. /\ Len(stack') = Len(stack) /\ stack'[Len(stack)] = top
      /\ \A i \in 1..Len(stack)-1 : stack'[i] = stack[i]
  BY <1>1, Inside
<1>3. pc = "Require" => /\ package = top.own /\ makedir = top.own /\ top.args = <<>>
                        /\ "Require" \notin top.left
  BY DEF IInv, ScriptOK, InSections, Section
<1>4. top.own \in Pkg
  BY <1>1, Inside DEF Frame
<1>5. TypeOK' /\ UNCHANGED <<request, ready, loaded, todo>>
  <2>1. CASE RequireEnd
    BY <2>1 DEF RequireEnd, IInv, TypeOK, fs, body, context, request, Control
  <2>2. CASE UseLeave
    BY <1>1, <1>4, <2>2, Inside, NoneApart DEF UseLeave, IInv, TypeOK, fs, body, request, Control, Name
  <2>3. CASE \E d \in Name : UseNotFound(d)
    BY <2>3, NoneApart DEF UseNotFound, NextArg, IInv, TypeOK, fs, body, request, Control, Name
  <2> QED
    BY <2>1, <2>2, <2>3
<1>6. InSections' => /\ package' = top.own /\ makedir' = top.own /\ top.args = <<>>
                     /\ pc' # "Require" => top.uses = <<>>
                     /\ pc' # "eval" => "Require" \notin top.left
  <2>1. CASE RequireEnd
    BY <1>3, <2>1 DEF RequireEnd, context
  <2>2. CASE UseLeave
    BY <1>1, <2>2, Inside DEF UseLeave
  <2>3. CASE \E d \in Name : UseNotFound(d)
    BY <2>3 DEF UseNotFound, InSections, Section
  <2> QED
    BY <2>1, <2>2, <2>3
<1>7. /\ stack # <<>> /\ pc # "raise" /\ pc' \notin {"idle", "targets"} /\ pc' # "use"
      /\ top \in Frame
  BY <1>1, Inside
<1>8. /\ Pending(top) \subseteq Deps(top.own)
      /\ top.uses # <<>> \/ top.args # <<>> => switch.recursive /\ "Require" \notin top.left
      /\ Strict /\ "Require" \notin top.left => Deps(top.own) \subseteq loaded \union Pending(top)
  BY <1>1, Inside
<1> QED
  BY <1>2, <1>5, <1>6, <1>7, <1>8, InnermostStep

\* A Use call moves its names from the script to its own loop.
LEMMA UseEnterStep ==
  ASSUME IInv, UseEnter  PROVE IInv'
<1> DEFINE f == [top EXCEPT !.args = Head(top.uses), !.uses = Tail(@), !.saved = package]
<1>1. /\ pc = "Require" /\ pc' = "use" /\ top.uses # <<>>
      /\ stack' = [stack EXCEPT ![Len(stack)] = f]
      /\ UNCHANGED <<fs, body, context, ready, request, todo, loaded, result>>
  BY DEF UseEnter, WithTop
<1>2. /\ package = top.own /\ top.args = <<>> /\ "Require" \notin top.left
  BY <1>1 DEF IInv, ScriptOK, InSections, Section
<1>3. top.uses \in Seq(Seq(Name)) /\ top.own \in Pkg
  BY <1>1, Inside DEF Frame
<1>4. Head(top.uses) \in Seq(Name) /\ Tail(top.uses) \in Seq(Seq(Name))
  BY <1>1, <1>3
<1>5. /\ f \in Frame /\ f.own = top.own /\ f.left = top.left /\ f.saved = top.own
      /\ f.args = Head(top.uses) /\ f.uses = Tail(top.uses)
  BY <1>1, <1>2, <1>3, <1>4, Inside DEF Frame, Name
<1>6. Range(<<>>) = {}
  BY EmptySeq DEF Range
<1>7. Pending(f) = Pending(top)
  BY <1>1, <1>2, <1>3, <1>5, <1>6, NamesHeadTail DEF Pending
<1> HIDE DEF f
<1>8. /\ stack' \in Seq(Frame) /\ Len(stack') = Len(stack) /\ stack'[Len(stack)] = f
      /\ \A i \in 1..Len(stack)-1 : stack'[i] = stack[i]
  BY <1>1, <1>5, Inside, ReplaceTop DEF IInv
<1>9. TypeOK'
  BY <1>1, <1>8 DEF IInv, TypeOK, fs, body, context, request, Control
<1>10. ~InSections'
  BY <1>1 DEF InSections, Section
<1>11. /\ stack # <<>> /\ pc # "raise" /\ pc' \notin {"idle", "targets"}
       /\ switch.recursive /\ Pending(top) \subseteq Deps(top.own)
       /\ Strict => Deps(top.own) \subseteq loaded \union Pending(top)
  BY <1>1, <1>2, Inside
<1> QED
  BY ONLY IInv, <1>1, <1>2, <1>5, <1>7, <1>8, <1>9, <1>10, <1>11, InnermostStep

\* The frame of a Use call that has taken its next name d.
LEMMA AdvancedFrame ==
  ASSUME IInv, NEW d, NextArg(d)
  PROVE  LET f == [top EXCEPT !.args = Tail(@)] IN
           /\ pc = "use" /\ package' = d /\ d \in Name /\ d \in Deps(top.own)
           /\ f \in Frame /\ f.own = top.own /\ f.left = top.left
           /\ f.saved = top.own /\ f.uses = top.uses
           /\ switch.recursive /\ "Require" \notin top.left
           /\ Pending(f) \subseteq Deps(top.own)
           /\ Pending(top) = {d} \union Pending(f)
           /\ Strict => Deps(top.own) \subseteq loaded \union {d} \union Pending(f)
<1> DEFINE f == [top EXCEPT !.args = Tail(@)]
<1>1. pc = "use" /\ top.args # <<>> /\ d = Head(top.args) /\ package' = d
  BY DEF NextArg
<1>2. top.args \in Seq(Name)
  BY <1>1, Inside DEF Frame
<1>3. Tail(top.args) \in Seq(Name) /\ d \in Name /\ Range(top.args) = {d} \union Range(Tail(top.args))
  BY <1>1, <1>2, RangeHeadTail
<1>4. /\ f \in Frame /\ f.own = top.own /\ f.left = top.left /\ f.saved = top.own
      /\ f.uses = top.uses /\ f.args = Tail(top.args)
  BY <1>1, <1>3, Inside DEF Frame
<1>5. Pending(top) = {d} \union Pending(f)
  BY <1>3, <1>4 DEF Pending
<1> HIDE DEF f
<1>6. /\ Pending(top) \subseteq Deps(top.own)
      /\ switch.recursive /\ "Require" \notin top.left
      /\ Strict => Deps(top.own) \subseteq loaded \union Pending(top)
  BY <1>1, Inside
<1>7. /\ Pending(f) \subseteq Deps(top.own) /\ d \in Deps(top.own)
      /\ Strict => Deps(top.own) \subseteq loaded \union {d} \union Pending(f)
  BY <1>5, <1>6
<1> QED
  BY <1>1, <1>3, <1>4, <1>5, <1>6, <1>7 DEF f

\* Use skips a package that is ready.
LEMMA UseReadyStep ==
  ASSUME IInv, NEW d \in Name, UseReady(d)  PROVE IInv'
<1> DEFINE f == [top EXCEPT !.args = Tail(@)]
<1>1. /\ NextArg(d) /\ d \in ready /\ stack' = [stack EXCEPT ![Len(stack)] = f]
      /\ UNCHANGED <<fs, body, makedir, srcdir, ready, request, todo, pc, loaded, result>>
  BY DEF UseReady, Advanced, WithTop
<1>2. /\ pc = "use" /\ package' = d /\ d \in Name
      /\ f \in Frame /\ f.own = top.own /\ f.left = top.left /\ f.saved = top.own
      /\ switch.recursive /\ "Require" \notin top.left
      /\ Pending(f) \subseteq Deps(top.own)
      /\ Strict => Deps(top.own) \subseteq loaded \union {d} \union Pending(f)
  BY <1>1, AdvancedFrame
<1> HIDE DEF f
<1>3. Strict => d \in loaded
  BY <1>1 DEF Strict, IInv, ReadyMeansLoaded
<1>4. /\ stack' \in Seq(Frame) /\ Len(stack') = Len(stack) /\ stack'[Len(stack)] = f
      /\ \A i \in 1..Len(stack)-1 : stack'[i] = stack[i]
  BY <1>1, <1>2, Inside, ReplaceTop DEF IInv
<1>5. TypeOK'
  BY <1>1, <1>2, <1>4, NoneApart DEF IInv, TypeOK, fs, body, request
<1>6. ~InSections' /\ stack # <<>> /\ pc' = "use"
  BY <1>1, <1>2, Inside DEF InSections, Section
<1>7. Strict => Deps(top.own) \subseteq loaded \union Pending(f)
  BY <1>2, <1>3
<1> QED
  BY ONLY IInv, <1>1, <1>2, <1>4, <1>5, <1>6, <1>7, InnermostStep

\* Use evaluates a package: its frame is put on top of the caller's.
LEMMA UseEvalStep ==
  ASSUME IInv, NEW d \in Name, UseEval(d)  PROVE IInv'
<1> DEFINE f == [top EXCEPT !.args = Tail(@)]
           e == NewFrame(d)
<1>1. /\ NextArg(d) /\ d \in Pkg /\ makedir' = d /\ srcdir' = None
      /\ stack' = Append([stack EXCEPT ![Len(stack)] = f], e)
      /\ pc' \in {"eval", "raise"}
      /\ UNCHANGED <<fs, body, ready, request, todo, loaded, result>>
  BY DEF UseEval, Advanced, WithTop
<1>2. /\ pc = "use" /\ package' = d
      /\ f \in Frame /\ f.own = top.own /\ f.left = top.left /\ f.saved = top.own
      /\ switch.recursive /\ "Require" \notin top.left
      /\ Pending(f) \subseteq Deps(top.own) /\ d \in Deps(top.own)
      /\ Strict => Deps(top.own) \subseteq loaded \union {d} \union Pending(f)
  BY <1>1, AdvancedFrame
<1>3. /\ e \in Frame /\ e.own = d /\ e.left = Sections[d] \intersect Used(cmd)
      /\ e.uses = <<>> /\ e.args = <<>> /\ Pending(e) = {}
  BY <1>1, FreshFrame
<1> HIDE DEF f, e
<1>4. /\ stack # <<>> /\ Len(stack) \in Nat \ {0} /\ stack \in Seq(Frame)
      /\ top = stack[Len(stack)] /\ top.own \in Reached
      /\ top.left \subseteq Sections[top.own] \intersect Used(cmd)
  BY <1>2, Inside
<1> DEFINE s == [stack EXCEPT ![Len(stack)] = f]
<1>5. /\ s \in Seq(Frame) /\ Len(s) = Len(stack) /\ s[Len(stack)] = f
      /\ \A i \in 1..Len(stack)-1 : s[i] = stack[i]
  BY <1>2, <1>4, ReplaceLast
<1> HIDE DEF s
<1>6. stack' = Append(s, e)
  BY <1>1 DEF s
<1>7. /\ stack' \in Seq(Frame) /\ Len(stack') = Len(stack) + 1
      /\ stack'[Len(stack) + 1] = e /\ stack'[Len(stack)] = f
      /\ \A i \in 1..Len(stack)-1 : stack'[i] = stack[i]
  BY <1>3, <1>4, <1>5, <1>6, AppendProperties
<1>8. UNCHANGED <<cmd, switch, goal, Strict, Reached, loaded>>
  BY <1>1, ReachedStable DEF request, Strict
<1>9. \A i \in 1..Len(stack') : i \in 1..Len(stack)-1 \/ i = Len(stack) \/ i = Len(stack) + 1
  BY <1>4, <1>7
<1>10. TypeOK'
  BY <1>1, <1>2, <1>7, NoneApart DEF IInv, TypeOK, fs, body, request, Control, Name
<1>11. FramesOK'
  <2> SUFFICES ASSUME NEW i \in 1..Len(stack')
               PROVE  LET g == stack'[i] IN
                        /\ g.left \subseteq Sections[g.own] \intersect Used(cmd)
                        /\ Pending(g) \subseteq Deps(g.own)
                        /\ g.uses # <<>> \/ g.args # <<>>
                             => switch.recursive /\ "Require" \notin g.left
                        /\ i < Len(stack') =>
                             g.saved = g.own /\ "Require" \notin g.left /\ switch.recursive
    BY <1>1, <1>8 DEF FramesOK, Pending
  <2>1. CASE i \in 1..Len(stack)-1
    <3>1. stack'[i] = stack[i] /\ i < Len(stack) /\ i \in 1..Len(stack)
      BY <1>4, <1>7, <2>1
    <3>2. LET g == stack[i] IN
            /\ g.left \subseteq Sections[g.own] \intersect Used(cmd)
            /\ Pending(g) \subseteq Deps(g.own)
            /\ g.uses # <<>> \/ g.args # <<>>
                 => switch.recursive /\ "Require" \notin g.left
            /\ g.saved = g.own /\ "Require" \notin g.left /\ switch.recursive
      BY <3>1 DEF IInv, FramesOK
    <3> QED
      BY <3>1, <3>2
  <2>2. CASE i = Len(stack)
    BY <1>2, <1>4, <1>7, <2>2
  <2>3. CASE i = Len(stack) + 1
    BY <1>3, <1>4, <1>7, <2>3
  <2> QED
    BY <1>9, <2>1, <2>2, <2>3
<1>12. top' = e
  BY <1>7 DEF top, Last
<1>13. ScriptOK'
  BY <1>1, <1>2, <1>3, <1>12 DEF ScriptOK, InSections, Section
<1>14. OrderOK'
  <2> SUFFICES ASSUME Strict, NEW i \in 1..Len(stack'), "Require" \notin stack'[i].left
               PROVE  Deps(stack'[i].own)
                        \subseteq loaded \union Pending(stack'[i]) \union Nested(i)'
    BY <1>8 DEF OrderOK, Pending
  <2>1. CASE i \in 1..Len(stack)-1
    <3>1. stack'[i] = stack[i] /\ i < Len(stack) /\ i \in 1..Len(stack) /\ i < Len(stack')
      BY <1>4, <1>7, <2>1
    <3>2. Deps(stack[i].own) \subseteq loaded \union Pending(stack[i]) \union Nested(i)
      BY <1>2, <3>1 DEF IInv, OrderOK
    <3>3. stack'[i+1].own = stack[i+1].own
      BY <1>2, <1>4, <1>7, <2>1
    <3>4. Nested(i)' = Nested(i)
      BY <3>1, <3>3 DEF Nested
    <3> QED
      BY <3>1, <3>2, <3>4
  <2>2. CASE i = Len(stack)
    <3>1. Nested(i)' = {d}
      BY <1>3, <1>4, <1>7, <2>2 DEF Nested
    <3> QED
      BY <1>2, <1>7, <2>2, <3>1
  <2>3. CASE i = Len(stack) + 1
    <3>1. "Require" \in Used(cmd)
      BY DEF Strict
    <3>2. "Require" \notin Sections[d]
      BY <1>3, <1>7, <2>3, <3>1
    <3> QED
      BY <1>3, <1>7, <2>3, <3>2 DEF Deps
  <2> QED
    BY <1>9, <2>1, <2>2, <2>3
<1>15. d \in Reached
  BY <1>1, <1>2, <1>4, ReachedUses
<1>16. \A i \in 1..Len(stack') : stack'[i].own \in Reached'
  <2> SUFFICES ASSUME NEW i \in 1..Len(stack')  PROVE stack'[i].own \in Reached
    BY <1>8
  <2>1. CASE i \in 1..Len(stack)-1
    <3>1. stack'[i] = stack[i] /\ i \in 1..Len(stack)
      BY <1>4, <1>7, <2>1
    <3> QED
      BY <3>1 DEF IInv
  <2>2. CASE i = Len(stack)
    BY <1>2, <1>4, <1>7, <2>2
  <2>3. CASE i = Len(stack) + 1
    BY <1>3, <1>7, <1>15, <2>3
  <2> QED
    BY <1>9, <2>1, <2>2, <2>3
<1>17. ReadyMeansLoaded' /\ \A i \in 1..Len(todo') : todo'[i] \subseteq goal'
  BY <1>1, <1>8 DEF IInv, ReadyMeansLoaded
<1>18. stack' # <<>>
  BY <1>4, <1>7
<1> QED
  BY <1>1, <1>10, <1>11, <1>13, <1>14, <1>16, <1>17, <1>18 DEF IInv

-----------------------------------------------------------------------------
(***************************************************************************)
(* The end of evaluations, targets and commands.                           *)
(***************************************************************************)
\* The frame of an ended evaluation goes.
LEMMA Popped ==
  ASSUME IInv, pc \notin {"idle", "targets"}, stack' = Front(stack)
  PROVE  /\ stack' \in Seq(Frame) /\ Len(stack') = Len(stack) - 1
         /\ \A i \in 1..Len(stack') : stack'[i] = stack[i]
         /\ (stack' = <<>>) <=> (Len(stack) = 1)
  BY Inside, DropLast

\* An evaluation that ends well: its package is loaded, and ready for its user.
LEMMA EvalDoneStep ==
  ASSUME IInv, EvalDone  PROVE IInv'
<1>1. /\ pc = "eval" /\ loaded' = loaded \union {top.own} /\ stack' = Front(stack)
      /\ Len(stack) = 1 => pc' = "targets" /\ ready' = ready
      /\ Len(stack) # 1 => pc' = "use" /\ ready' = ready \union {package}
      /\ UNCHANGED <<fs, body, context, request, todo, result>>
  BY DEF EvalDone, MarkReady
<1>2. package = top.own /\ top.own \in Pkg /\ stack # <<>>
  BY <1>1, Inside DEF IInv, ScriptOK, InSections, Frame
<1>3. /\ stack' \in Seq(Frame) /\ Len(stack') = Len(stack) - 1
      /\ \A i \in 1..Len(stack') : stack'[i] = stack[i]
      /\ (stack' = <<>>) <=> (Len(stack) = 1)
  BY <1>1, Popped
<1>4. TypeOK'
  BY <1>1, <1>2, <1>3 DEF IInv, TypeOK, fs, body, context, request, Control, Name
<1>5. ReadyMeansLoaded'
  BY <1>1, <1>2 DEF IInv, ReadyMeansLoaded, request
<1> QED
  BY <1>1, <1>2, <1>3, <1>4, <1>5, EndStep

\* An evaluation that ends with an error.
LEMMA CaughtSteps ==
  ASSUME IInv, CaughtIgnored \/ CaughtFatal  PROVE IInv'
<1>1. /\ pc = "raise" /\ stack' = Front(stack)
      /\ UNCHANGED <<fs, body, context, request, todo, loaded>>
  BY DEF CaughtIgnored, CaughtFatal
<1>2. stack # <<>>
  BY <1>1, Inside
<1>3. /\ stack' \in Seq(Frame) /\ Len(stack') = Len(stack) - 1
      /\ \A i \in 1..Len(stack') : stack'[i] = stack[i]
      /\ (stack' = <<>>) <=> (Len(stack) = 1)
  BY <1>1, Popped
<1>4. CASE CaughtIgnored
  <2>1. /\ switch.ignore /\ result' = result
        /\ Len(stack) = 1 => pc' = "targets" /\ ready' = ready
        /\ Len(stack) # 1 => pc' = "use" /\ ready' = ready \union {package}
    BY <1>4 DEF CaughtIgnored, MarkReady
  <2>2. package \in Name
    BY <1>2 DEF IInv, TypeOK
  <2>3. TypeOK'
    BY <1>1, <1>3, <2>1, <2>2 DEF IInv, TypeOK, fs, body, context, request, Control
  <2>4. ReadyMeansLoaded' /\ ~Strict
    BY <1>1, <2>1 DEF ReadyMeansLoaded, request, Strict
  <2> QED
    BY <1>1, <1>2, <1>3, <2>1, <2>3, <2>4, EndStep
<1>5. CASE CaughtFatal
  <2>1. /\ ready' = ready
        /\ Len(stack) = 1 => pc' = "idle" /\ result' = "error"
        /\ Len(stack) # 1 => pc' = "raise" /\ result' = result
    BY <1>1, <1>5 DEF CaughtFatal
  <2>2. TypeOK'
    BY <1>1, <1>3, <2>1 DEF IInv, TypeOK, fs, body, context, request, Control
  <2>3. ReadyMeansLoaded'
    BY <1>1, <2>1 DEF IInv, ReadyMeansLoaded, request
  <2> QED
    BY <1>1, <1>2, <1>3, <2>1, <2>2, <2>3, EndStep
<1> QED
  BY <1>4, <1>5

\* _init takes the next target.
LEMMA TargetStep ==
  ASSUME IInv, NEW p \in Pkg, Target(p)  PROVE IInv'
<1> DEFINE e == NewFrame(p)
<1>1. /\ pc = "targets" /\ todo # <<>> /\ p \in Head(todo)
      /\ todo' = IF Head(todo) = {p} THEN Tail(todo) ELSE [todo EXCEPT ![1] = @ \ {p}]
      /\ package' = p /\ makedir' = p /\ stack' = <<e>> /\ pc' = "eval"
      /\ UNCHANGED <<fs, body, srcdir, ready, request, loaded, result>>
  BY DEF Target
<1>2. /\ e \in Frame /\ e.own = p /\ e.left = Sections[p] \intersect Used(cmd)
      /\ e.uses = <<>> /\ e.args = <<>> /\ Pending(e) = {}
  BY FreshFrame
<1> HIDE DEF e
<1>3. todo \in Seq(SUBSET Pkg) /\ Len(todo) \in Nat \ {0} /\ Head(todo) = todo[1]
  BY <1>1 DEF IInv, TypeOK
<1>4. todo' \in Seq(SUBSET Pkg) /\ \A i \in 1..Len(todo') : todo'[i] \subseteq goal
  <2>1. CASE Head(todo) = {p}
    <3>1. /\ todo' = Tail(todo) /\ todo' \in Seq(SUBSET Pkg) /\ Len(todo') = Len(todo) - 1
          /\ \A i \in 1..Len(todo') : todo'[i] = todo[i+1]
      BY <1>1, <1>3, <2>1, HeadTailProperties
    <3>2. \A i \in 1..Len(todo') : i + 1 \in 1..Len(todo)
      BY <1>3, <3>1
    <3> QED
      BY <3>1, <3>2 DEF IInv
  <2>2. CASE Head(todo) # {p}
    <3>1. todo' = [todo EXCEPT ![1] = todo[1] \ {p}]
      BY <1>1, <2>2
    <3>2. todo[1] \ {p} \in SUBSET Pkg /\ 1 \in 1..Len(todo)
      BY <1>3
    <3>3. /\ todo' \in Seq(SUBSET Pkg) /\ Len(todo') = Len(todo)
          /\ \A i \in 1..Len(todo) : todo'[i] \subseteq todo[i]
      BY <1>3, <3>1, <3>2
    <3> QED
      BY <3>3 DEF IInv
  <2> QED
    BY <2>1, <2>2
<1>5. stack' \in Seq(Frame) /\ Len(stack') = 1 /\ stack'[1] = e /\ stack' # <<>>
  BY <1>1, <1>2
<1>6. TypeOK'
  BY <1>1, <1>4, <1>5, NoneApart DEF IInv, TypeOK, fs, body, request, Control
<1>7. UNCHANGED <<cmd, switch, goal, Strict, Reached>>
  BY <1>1, ReachedStable DEF request, Strict
<1>8. top' = e
  BY <1>5 DEF top, Last
<1>9. \A i \in 1..Len(stack') : i = 1
  BY <1>5
<1>10. p \in Reached
  <2>1. todo[1] \subseteq goal /\ goal \subseteq Pkg
    BY <1>3 DEF IInv, TypeOK
  <2> QED
    BY <1>1, <1>3, <2>1, ReachedTargets
<1>11. FramesOK'
  BY <1>1, <1>2, <1>5, <1>7, <1>9 DEF FramesOK, Pending
<1>12. ScriptOK'
  BY <1>1, <1>2, <1>8 DEF ScriptOK
<1>13. OrderOK'
  <2>1. Strict /\ "Require" \notin e.left => Deps(p) = {}
    BY <1>2 DEF Strict, Deps
  <2> QED
    BY <1>2, <1>5, <1>7, <1>9, <2>1 DEF OrderOK
<1>14. ReadyMeansLoaded' /\ \A i \in 1..Len(stack') : stack'[i].own \in Reached'
  BY <1>1, <1>2, <1>5, <1>7, <1>9, <1>10 DEF IInv, ReadyMeansLoaded
<1> QED
  BY <1>1, <1>4, <1>5, <1>6, <1>7, <1>11, <1>12, <1>13, <1>14 DEF IInv

\* The steps that begin or end a command.
LEMMA CommandSteps ==
  ASSUME IInv, User \/ NoTargets \/ Finish \/ Kill  PROVE IInv'
<1>1. ASSUME NEW c \in Commands, NEW sw \in Switches, NEW req \in Requests, Start(c, sw, req)
      PROVE  IInv'
  <2>1. /\ req \in Seq(SUBSET Pkg) /\ c \in Command
        /\ sw \in [recursive : BOOLEAN, ignore : BOOLEAN]
    BY ConstantsAssumption, CommandsAssumption
  <2>2. \A i \in 1..Len(req) : req[i] \in Range(req)
    BY <2>1, LenProperties DEF Range
  <2>3. Range(req) \subseteq SUBSET Pkg
    BY <2>1, RangeOfSeq
  <2>4. UNION Range(req) \subseteq Pkg /\ \A i \in 1..Len(req) : req[i] \subseteq UNION Range(req)
    BY <2>2, <2>3
  <2>5. /\ stack' = <<>> /\ pc' = "targets" /\ ready' = {} /\ loaded' = {} /\ todo' = req
        /\ goal' = UNION Range(req) /\ cmd' = c /\ switch' = sw /\ result' = "none"
        /\ UNCHANGED fs
    BY <1>1 DEF Start
  <2>6. srcBody' \in {"fetch", "distclean"} /\ oldBody' \in {"fetch", "distclean"}
    BY <1>1 DEF Start, IInv, TypeOK
  <2>7. /\ package' \in Name \union {None}
        /\ makedir' \in Pkg \union {None} /\ srcdir' \in Pkg \union {None}
    BY <1>1 DEF Start, IInv, TypeOK, context
  <2>8. stack' \in Seq(Frame)
    BY <2>5, EmptySeq
  <2> HIDE DEF Range
  <2>9. TypeOK'
    BY <2>1, <2>4, <2>5, <2>6, <2>7, <2>8 DEF IInv, TypeOK, fs, Control
  <2> QED
    BY <2>4, <2>5, <2>9, IdleStep DEF ReadyMeansLoaded
<1>2. CASE NoTargets
  <2>1. pc = "targets"
    BY <1>2 DEF NoTargets
  <2>2. /\ pc' = "idle" /\ result' = "error" /\ stack' = stack /\ stack = <<>>
        /\ UNCHANGED <<fs, body, context, ready, request, todo, loaded>>
    BY <1>2, <2>1 DEF NoTargets, IInv
  <2>3. TypeOK'
    BY <2>2 DEF IInv, TypeOK, fs, body, context, request, Control
  <2>4. ReadyMeansLoaded' /\ \A i \in 1..Len(todo') : todo'[i] \subseteq goal'
    BY <2>2 DEF IInv, ReadyMeansLoaded, request
  <2> QED
    BY <2>2, <2>3, <2>4, IdleStep
<1>3. CASE Finish
  <2>1. pc = "targets"
    BY <1>3 DEF Finish
  <2>2. /\ pc' = "idle" /\ result' = "ok" /\ stack' = stack /\ stack = <<>>
        /\ srcBody' \in {srcBody, oldBody}
        /\ UNCHANGED <<fs, oldBody, context, ready, request, todo, loaded>>
    BY <1>3, <2>1 DEF Finish, IInv
  <2>3. TypeOK'
    BY <2>2 DEF IInv, TypeOK, fs, context, request, Control
  <2>4. ReadyMeansLoaded' /\ \A i \in 1..Len(todo') : todo'[i] \subseteq goal'
    BY <2>2 DEF IInv, ReadyMeansLoaded, request
  <2> QED
    BY <2>2, <2>3, <2>4, IdleStep
<1>4. CASE Kill
  <2>1. <<>> \in Seq(SUBSET Pkg) /\ <<>> \in Seq(Frame) /\ Len(<<>>) = 0
    BY EmptySeq
  <2>2. TypeOK'
    BY <1>4, <2>1 DEF Kill, IInv, TypeOK, fs, request, Control
  <2>3. ReadyMeansLoaded' /\ \A i \in 1..Len(todo') : todo'[i] \subseteq goal'
    BY <1>4, <2>1 DEF Kill, ReadyMeansLoaded
  <2> QED
    BY <1>4, <2>2, <2>3, IdleStep DEF Kill
<1> QED
  BY <1>1, <1>2, <1>3, <1>4 DEF User

-----------------------------------------------------------------------------
(***************************************************************************)
(* The theorems.                                                           *)
(***************************************************************************)
LEMMA InvInit == Init => IInv
<1> SUFFICES ASSUME Init PROVE IInv
  OBVIOUS
<1>1. /\ <<>> \in Seq(SUBSET Pkg) /\ <<>> \in Seq(Frame) /\ Len(<<>>) = 0 /\ 1..0 = {}
  BY EmptySeq
<1>2. TypeOK
  BY <1>1 DEF Init, TypeOK, Command, Control
<1>3. FramesOK /\ OrderOK /\ ScriptOK /\ ReadyMeansLoaded
  BY <1>1 DEF Init, FramesOK, OrderOK, ScriptOK, InSections, Section, ReadyMeansLoaded
<1> QED
  BY <1>1, <1>2, <1>3 DEF Init, IInv

LEMMA InvStutter == IInv /\ UNCHANGED vars => IInv'
<1> SUFFICES ASSUME IInv, UNCHANGED vars PROVE IInv'
  OBVIOUS
<1> USE DEF vars, fs, body, context, request
<1>1. TypeOK' = TypeOK
  BY DEF TypeOK
<1>2. UNCHANGED <<Reached, FramesOK, ScriptOK, ReadyMeansLoaded, OrderOK>>
  BY ReachedStable DEF FramesOK, Pending, ScriptOK, InSections, top, Last, ReadyMeansLoaded,
     OrderOK, Strict, Nested
<1> QED
  BY <1>1, <1>2 DEF IInv

LEMMA InvNext == IInv /\ Next => IInv'
  BY CommandSteps, TargetStep, RequireBeginStep, RequireStaySteps, UseEnterStep, UseReadyStep,
     UseEvalStep, EvalDoneStep, CaughtSteps, SectionSteps DEF Next, Step

\* The inductive invariant of the evaluation engine holds: the frames of nested
\* evaluations and the namespace variables always agree.
THEOREM Inductive == Spec => []IInv
<1>1. IInv /\ [Next]_vars => IInv'
  BY InvNext, InvStutter
<1> QED
  BY <1>1, InvInit, PTL DEF Spec

\* Every variable keeps its type, and in particular _(makedir) and _(srcdir) never
\* name a package without a definition.
THEOREM TypeCorrect == Spec => []TypeOK
  BY Inductive, PTL DEF IInv

\* The sections of a package are evaluated with its own package and _(makedir),
\* however deep the evaluation nests and whatever errors -i passes over.
THEOREM ContextCorrect == Spec => []ContextMatches
<1>1. IInv => ContextMatches
  BY DEF IInv, ScriptOK, ContextMatches
<1> QED
  BY <1>1, Inductive, PTL

\* Without -i a package that Use skips has been evaluated without an error.
THEOREM ReadyCorrect == Spec => []ReadyMeansLoaded
<1>1. IInv => ReadyMeansLoaded
  BY DEF IInv
<1> QED
  BY <1>1, Inductive, PTL

\* Without -i a package's sections run only when everything its Require script
\* uses has been evaluated without an error by the same command.
LEMMA SectionsAfterDeps == IInv => DepsLoaded
<1> SUFFICES ASSUME IInv, Strict, InSections, pc # "Require", "Require" \notin top.left
             PROVE  Deps(top.own) \subseteq loaded
  BY DEF DepsLoaded
<1>1. pc \notin {"idle", "targets", "raise"}
  BY DEF InSections, Section
<1>2. top.args = <<>> /\ top.uses = <<>>
  BY DEF IInv, ScriptOK
<1>3. Pending(top) = {}
  BY <1>2, EmptySeq DEF Pending, NamesIn, Range
<1> QED
  BY <1>1, <1>3, Inside

THEOREM DependenciesFirst == Spec => []DepsLoaded
  BY Inductive, SectionsAfterDeps, PTL

-----------------------------------------------------------------------------
(***************************************************************************)
(* KbsBuild implements OrderedBuild.                                       *)
(***************************************************************************)
\* What the abstract specification sees of a package's files.
LEMMA FilesType == TypeOK => Files \in [Pkg -> {"none", "created", "configured"}
                                \X {"built", "unbuilt"} \X {"none", "partial", "done"}]
  BY DEF TypeOK, Files

\* A step that sees all dependencies loaded and changes one makedir is a Work step.
LEMMA WorkStep ==
  ASSUME IInv, TypeOK', NEW s \in Section,
         (pc = "eval" /\ s # "Require" /\ AtSection(s))
           \/ (s # "Require" /\ pc = s),
         UNCHANGED <<request, loaded>>,
         \A p \in Pkg \ {makedir} : Files'[p] = Files[p]
  PROVE  Order!Next
<1>1. InSections /\ pc # "Require" /\ pc \notin {"idle", "targets"}
  BY DEF InSections, Section
<1>2. "Require" \notin top.left
  <2>1. CASE pc = "eval" /\ s # "Require" /\ AtSection(s)
    BY <2>1, RequireFirst
  <2>2. CASE s # "Require" /\ pc = s
    <3>1. pc # "eval"
      BY <2>2 DEF Section
    <3> QED
      BY <1>1, <3>1 DEF IInv, ScriptOK
  <2> QED
    BY <2>1, <2>2
<1>3. makedir = top.own /\ top.own \in Pkg /\ top.own \in Reached
  BY <1>1, Inside DEF IInv, ScriptOK, Frame
<1>4. Strict => Deps(top.own) \subseteq loaded
  BY <1>1, <1>2, SectionsAfterDeps DEF DepsLoaded
<1>5. UNCHANGED <<Strict, Reached, loaded>>
  BY ReachedStable DEF request, Strict
<1> DEFINE St == {"none", "created", "configured"} \X {"built", "unbuilt"}
                   \X {"none", "partial", "done"}
<1>6. Files \in [Pkg -> St] /\ Files' \in [Pkg -> St]
  BY FilesType DEF IInv, TypeOK, Files
<1>7. Files' = [Files EXCEPT ![top.own] = Files'[top.own]]
  BY <1>3, <1>6
<1>8. Order!Work(top.own)
  BY <1>3, <1>4, <1>5, <1>6, <1>7 DEF Order!Work, Order!MayTouch
<1> QED
  BY <1>3, <1>8 DEF Order!Next

\* Every step of kbs is a step of the abstract order, or invisible to it.
LEMMA OrderStep == IInv /\ [Next]_vars => [Order!Next]_(Order!vars)
<1> SUFFICES ASSUME IInv, [Next]_vars  PROVE [Order!Next]_(Order!vars)
  OBVIOUS
<1>1. TypeOK'
  BY InvNext, InvStutter DEF IInv
<1>2. ASSUME UNCHANGED <<request, loaded, dir, built, lib>>  PROVE UNCHANGED Order!vars
  <2>1. UNCHANGED <<Strict, Reached, Files>>
    BY <1>2, ReachedStable DEF request, Strict, Files
  <2> QED
    BY <1>2, <2>1 DEF Order!vars
<1>3. ASSUME loaded' = {}, UNCHANGED <<dir, built, lib>>  PROVE Order!Next
  <2>1. Strict' \in BOOLEAN /\ Reached' \in SUBSET Pkg
    BY DEF Strict, Reached
  <2>2. UNCHANGED Files
    BY <1>3 DEF Files
  <2> QED
    BY <1>3, <2>1, <2>2 DEF Order!Next, Order!Begin
<1>4. CASE UNCHANGED vars
  BY <1>2, <1>4 DEF vars, fs
<1>5. CASE User \/ Kill
  BY <1>3, <1>5 DEF User, Start, Kill, fs
<1>6. CASE EvalDone
  <2>1. /\ pc = "eval" /\ top.left = {} /\ loaded' = loaded \union {top.own}
        /\ UNCHANGED <<request, dir, built, lib>>
    BY <1>6 DEF EvalDone, fs
  <2>2. /\ top.own \in Pkg /\ top.own \in Reached
    BY <2>1, Inside DEF Frame
  <2>3. Strict => Deps(top.own) \subseteq loaded
    BY <2>1, SectionsAfterDeps DEF DepsLoaded, InSections
  <2>4. UNCHANGED <<Strict, Reached, Files>>
    BY <2>1, ReachedStable DEF request, Strict, Files
  <2>5. Order!Load(top.own)
    BY <2>1, <2>2, <2>3, <2>4 DEF Order!Load, Order!MayTouch
  <2> QED
    BY <2>2, <2>5 DEF Order!Next
<1>7. CASE SourceDistclean
  <2>1. /\ pc = "eval" /\ AtSection("Source") /\ "Source" \in Section
        /\ UNCHANGED <<request, loaded>>
    BY <1>7 DEF SourceDistclean, AtSection, Section
  <2>2. \A p \in Pkg \ {makedir} : Files'[p] = Files[p]
    BY <1>7 DEF SourceDistclean, Files, IInv, TypeOK
  <2> QED
    BY <1>1, <2>1, <2>2, WorkStep
<1>8. CASE ConfigureBegin
  <2>1. /\ pc = "eval" /\ AtSection("Configure") /\ "Configure" \in Section
        /\ UNCHANGED <<request, loaded>>
    BY <1>8 DEF ConfigureBegin, AtSection, Section
  <2>2. \A p \in Pkg \ {makedir} : Files'[p] = Files[p]
    BY <1>8 DEF ConfigureBegin, Files, IInv, TypeOK
  <2> QED
    BY <1>1, <2>1, <2>2, WorkStep
<1>9. CASE ScriptOk \/ ScriptFail
  <2>1. /\ pc \in Section \ {"Require"} /\ UNCHANGED <<request, loaded>>
    BY <1>9 DEF ScriptOk, ScriptFail, Section
  <2>2. package = makedir
    BY <2>1 DEF IInv, ScriptOK, InSections
  <2>3. \A p \in Pkg \ {makedir} : Files'[p] = Files[p]
    BY <1>9, <2>2 DEF ScriptOk, ScriptFail, Files, IInv, TypeOK
  <2> QED
    BY <1>1, <2>1, <2>3, WorkStep
<1>10. CASE \/ NoTargets \/ Finish \/ \E p \in Pkg : Target(p)
            \/ RequireBegin \/ RequireEnd \/ UseEnter \/ UseLeave
            \/ \E d \in Name : UseReady(d) \/ UseEval(d) \/ UseNotFound(d)
            \/ CaughtIgnored \/ CaughtFatal
            \/ SourcePresent \/ SourceFetch \/ FetchOk \/ FetchFail \/ SourceEnd
            \/ \E s \in Section : NeedsDirBegin(s) \/ SkipsNoDirBegin(s)
  <2>1. UNCHANGED <<request, loaded, dir, built, lib>>
    BY <1>10 DEF NoTargets, Finish, Target, RequireBegin, RequireEnd, UseEnter, UseLeave,
       UseReady, UseEval, UseNotFound, CaughtIgnored, CaughtFatal, SourcePresent, SourceFetch,
       FetchOk, FetchFail, SourceEnd, NeedsDirBegin, SkipsNoDirBegin, fs
  <2> QED
    BY <1>2, <2>1
<1> QED
  BY <1>4, <1>5, <1>6, <1>7, <1>8, <1>9, <1>10 DEF Next, Step

\* kbs builds in the order of the dependencies: it implements OrderedBuild, for
\* every set of packages and every behaviour of their scripts.
THEOREM Refinement == Spec => BuildsInOrder
<1>1. Init => Order!Init
  <2> SUFFICES ASSUME Init PROVE Order!Init
    OBVIOUS
  <2>1. TypeOK
    BY InvInit DEF IInv
  <2>2. Strict \in BOOLEAN /\ Reached \subseteq Pkg /\ loaded = {}
    BY DEF Strict, Reached, Init
  <2> QED
    BY <2>1, <2>2, FilesType DEF Order!Init
<1> QED
  BY <1>1, OrderStep, Inductive, PTL DEF Spec, BuildsInOrder, Order!Spec

-----------------------------------------------------------------------------
(***************************************************************************)
(* The body of Source, when every command has a process of its own.        *)
(***************************************************************************)
LEMMA BodyStep == ~Gui /\ BodyRestored /\ [Next]_vars => BodyRestored'
<1> SUFFICES ASSUME ~Gui, BodyRestored, [Next]_vars  PROVE BodyRestored'
  OBVIOUS
<1> USE DEF BodyRestored
<1>1. CASE User
  BY <1>1 DEF User, Start
<1>2. CASE Kill \/ Finish
  BY <1>2 DEF Kill, Finish
<1>3. ASSUME pc # "idle", UNCHANGED <<body, request>>  PROVE BodyRestored'
  BY <1>3 DEF body, request
<1>4. CASE UNCHANGED vars
  BY <1>4 DEF vars, body, request
<1>5. CASE Step /\ ~Finish
  <2>1. pc # "idle" /\ UNCHANGED <<body, request>>
    BY <1>5 DEF Step, NoTargets, Target, RequireBegin, RequireEnd, UseEnter, UseLeave,
       UseReady, UseEval, UseNotFound, NextArg, EvalDone, CaughtIgnored, CaughtFatal,
       SourceDistclean, SourcePresent, SourceFetch, FetchOk, FetchFail, SourceEnd,
       ConfigureBegin, NeedsDirBegin, SkipsNoDirBegin, ScriptOk, ScriptFail, AtSection
  <2> QED
    BY <1>3, <2>1
<1> QED
  BY <1>1, <1>2, <1>4, <1>5 DEF Next

\* Where a process serves one command, no other command than distclean ever runs
\* distclean's body of Source; a session, where it can, is the run body.
THEOREM BodyPerProcess == ~Gui => (Spec => []BodyRestored)
<1> SUFFICES ASSUME ~Gui PROVE Spec => []BodyRestored
  OBVIOUS
<1>1. Init => BodyRestored
  BY DEF Init, BodyRestored
<1>2. BodyRestored /\ [Next]_vars => BodyRestored'
  BY BodyStep
<1> QED
  BY <1>1, <1>2, PTL DEF Spec

\* There, only distclean removes a makedir.
THEOREM MakedirStays == ~Gui => (Spec => OnlyDistcleanRemoves)
<1>1. IInv /\ BodyRestored /\ [Next]_vars
        => [\A p \in Pkg : dir[p] # "none" /\ dir'[p] = "none" => cmd = "distclean"]_vars
  <2> SUFFICES ASSUME IInv, BodyRestored, Next,
                      NEW p \in Pkg, dir[p] # "none", dir'[p] = "none"
               PROVE  cmd = "distclean"
    OBVIOUS
  <2>1. dir \in [Pkg -> {"none", "created", "configured"}]
    BY DEF IInv, TypeOK
  <2>2. CASE SourceDistclean
    BY <2>2 DEF SourceDistclean, AtSection, BodyRestored
  <2>3. CASE ConfigureBegin
    BY <2>1, <2>3 DEF ConfigureBegin
  <2>4. CASE ScriptOk
    BY <2>1, <2>4 DEF ScriptOk
  <2>5. CASE dir' = dir
    BY <2>5
  <2>6. SourceDistclean \/ ConfigureBegin \/ ScriptOk \/ dir' = dir
    BY DEF Next, User, Start, Kill, Step, NoTargets, Finish, Target, RequireBegin,
       RequireEnd, UseEnter, UseLeave, UseReady, UseEval, UseNotFound, EvalDone,
       CaughtIgnored, CaughtFatal, SourcePresent, SourceFetch, FetchOk, FetchFail,
       SourceEnd, NeedsDirBegin, SkipsNoDirBegin, ScriptFail, fs
  <2> QED
    BY <2>2, <2>3, <2>4, <2>5, <2>6
<1>2. Spec => []IInv /\ (~Gui => []BodyRestored)
  BY Inductive, BodyPerProcess
<1>3. ~Gui => (Spec => [][\A p \in Pkg : dir[p] # "none" /\ dir'[p] = "none"
                                         => cmd = "distclean"]_vars)
  BY <1>1, <1>2, PTL DEF Spec
<1> QED
  BY <1>3 DEF OnlyDistcleanRemoves

-----------------------------------------------------------------------------
(***************************************************************************)
(* The sources that the sections behind Source find in _(srcdir).          *)
(***************************************************************************)
\* A frame whose Require is still to come has all of its sections to come.
Fresh(f) == "Require" \in f.left => f.left = Sections[f.own] \intersect Used(cmd)

\* A frame that waits for what it uses has come to no section but Require.
Waits(f) == Sections[f.own] \intersect Used(cmd) \subseteq f.left \union {"Require"}

FramesWait ==
  \A i \in 1..Len(stack) :
    /\ Fresh(stack[i])
    /\ i < Len(stack) \/ pc \in {"Require", "use"} => Waits(stack[i])

Behind == {"Configure", "Make", "Install", "Clean", "Test"}

Found == srcdir = SrcOf[top.own] /\ src[srcdir] # "none"

\* Source has found the directory by the time it ends.
Fetched ==
  /\ pc = "fetch" => srcdir = None
  /\ pc = "Source" /\ srcdir # None => Found
  /\ pc \in Behind => pc \in Used(cmd) /\ "Source" \notin top.left
  /\ /\ pc \in {"eval"} \union Behind /\ cmd # "distclean"
     /\ "Source" \in Sections[top.own] \intersect Used(cmd)
     /\ "Source" \notin top.left
     => Found

StagedWhole == \A n \in Staged : src[n] # "partial"

SourcesInv == StagedWhole /\ FramesWait /\ Fetched

\* Which sections come before which.
LEMMA SourceFirst ==
  ASSUME NEW s \in Behind, AtSection(s)
  PROVE  /\ s \in Section /\ s # "Require" /\ s # "Source"
         /\ "Require" \notin top.left /\ "Source" \notin top.left
<1>1. s \in Section /\ s # "Require" /\ s # "Source"
  BY DEF Behind, Section
<1>2. Rank["Source"] = 2 /\ Rank["Require"] = 1 /\ Rank[s] \in 3..7
  BY <1>1 DEF Rank, Section
<1>3. \A t \in top.left : Rank[s] <= Rank[t]
  BY DEF AtSection
<1> QED
  BY <1>1, <1>2, <1>3

\* The innermost frame is replaced by f.
LEMMA TopWaits ==
  ASSUME IInv, FramesWait, pc \notin {"idle", "targets"}, cmd' = cmd,
         NEW f \in Frame, stack' = [stack EXCEPT ![Len(stack)] = f],
         Fresh(f), pc' \in {"Require", "use"} => Waits(f)
  PROVE  FramesWait' /\ top' = f
<1>1. stack # <<>> /\ Len(stack) \in Nat \ {0} /\ stack \in Seq(Frame)
  BY Inside
<1>2. /\ stack' # <<>> /\ Len(stack') = Len(stack) /\ stack'[Len(stack)] = f
      /\ \A i \in 1..Len(stack)-1 : stack'[i] = stack[i]
  BY <1>1, ReplaceLast
<1>3. top' = f
  BY <1>2 DEF top, Last
<1>4. ASSUME NEW i \in 1..Len(stack)
      PROVE  /\ Fresh(stack[i])'
             /\ i < Len(stack) \/ pc' \in {"Require", "use"} => Waits(stack[i])'
  <2>1. CASE i = Len(stack)
    <3>1. stack'[i] = f
      BY <1>2, <2>1
    <3>2. ~(i < Len(stack))
      BY <1>1, <2>1
    <3>3. Fresh(f)' /\ (pc' \in {"Require", "use"} => Waits(f)')
      BY DEF Fresh, Waits
    <3> QED
      BY <3>1, <3>2, <3>3 DEF Fresh, Waits
  <2>2. CASE i # Len(stack)
    <3>1. i \in 1..Len(stack)-1 /\ i < Len(stack)
      BY <1>1, <2>2
    <3>2. stack'[i] = stack[i] /\ Fresh(stack[i]) /\ Waits(stack[i])
      BY <1>2, <3>1 DEF FramesWait
    <3> QED
      BY <3>2 DEF Fresh, Waits
  <2> QED
    BY <2>1, <2>2
<1> QED
  BY <1>2, <1>3, <1>4 DEF FramesWait

\* The frames stay.
LEMMA SameWaits ==
  ASSUME IInv, FramesWait, pc \notin {"idle", "targets"}, cmd' = cmd, stack' = stack,
         pc' \in {"Require", "use"} => pc \in {"Require", "use"}
  PROVE  FramesWait' /\ top' = top
  BY DEF FramesWait, Fresh, Waits, top, Last

\* Require and its Use calls.
LEMMA RequireSources ==
  ASSUME IInv, SourcesInv,
         \/ RequireBegin \/ RequireEnd \/ UseEnter \/ UseLeave
         \/ \E d \in Name : UseReady(d) \/ UseNotFound(d)
  PROVE  SourcesInv'
<1>1. /\ pc \in {"eval", "Require", "use"} /\ cmd' = cmd /\ src' = src /\ srcdir' = srcdir
      /\ StagedWhole /\ FramesWait
  BY DEF RequireBegin, RequireEnd, UseEnter, UseLeave, UseReady, UseNotFound, NextArg,
     AtSection, fs, context, request, SourcesInv
<1>2. StagedWhole'
  BY <1>1 DEF StagedWhole
<1>3. /\ top \in Frame /\ Fresh(top)
      /\ pc \in {"Require", "use"} => Waits(top)
      /\ top.left \subseteq Sections[top.own] \intersect Used(cmd)
  <2>1. Len(stack) \in 1..Len(stack) /\ top = stack[Len(stack)]
    BY <1>1, Inside
  <2> QED
    BY <1>1, <2>1, Inside DEF FramesWait
<1>4. CASE RequireBegin
  <2> DEFINE f == [top EXCEPT !.left = @ \ {"Require"}, !.uses = Uses[top.own]]
             g == [top EXCEPT !.left = @ \ {"Require"}]
  <2>1. pc = "eval" /\ "Require" \in top.left
    BY <1>4 DEF RequireBegin, AtSection
  <2>2. top.left = Sections[top.own] \intersect Used(cmd)
    BY <1>3, <2>1 DEF Fresh
  <2>3. top.own \in Pkg /\ Uses[top.own] \in Seq(Seq(Name))
    BY <1>3, ConstantsAssumption DEF Frame
  <2>4. /\ f \in Frame /\ f.own = top.own /\ f.left = top.left \ {"Require"}
        /\ g \in Frame /\ g.own = top.own /\ g.left = top.left \ {"Require"}
    BY <1>3, <2>3 DEF Frame
  <2>5. \/ pc' = "Require" /\ stack' = [stack EXCEPT ![Len(stack)] = f]
        \/ pc' = "eval" /\ stack' = [stack EXCEPT ![Len(stack)] = g]
    BY <1>4, <2>1 DEF RequireBegin, Leave, WithTop
  <2> HIDE DEF f, g
  <2>6. /\ Fresh(f) /\ Waits(f) /\ Fresh(g) /\ Waits(g)
    BY <2>2, <2>4 DEF Fresh, Waits
  <2>7. FramesWait' /\ (top' = f \/ top' = g)
    BY <1>1, <2>1, <2>4, <2>5, <2>6, TopWaits
  <2>8. Fetched'
    BY <1>1, <2>4, <2>5, <2>6, <2>7 DEF Fetched, Waits, Behind
  <2> QED
    BY <1>2, <2>7, <2>8 DEF SourcesInv
<1>5. CASE RequireEnd \/ UseLeave \/ \E d \in Name : UseNotFound(d)
  <2>1. /\ pc \in {"Require", "use"} /\ stack' = stack
        /\ pc' \in {"eval", "Require", "raise"}
    BY <1>5 DEF RequireEnd, UseLeave, UseNotFound, NextArg
  <2>2. FramesWait' /\ top' = top
    BY <1>1, <2>1, SameWaits
  <2>3. Fetched'
    BY <1>1, <1>3, <2>1, <2>2 DEF Fetched, Waits, Behind
  <2> QED
    BY <1>2, <2>2, <2>3 DEF SourcesInv
<1>6. CASE UseEnter
  <2> DEFINE f == [top EXCEPT !.args = Head(top.uses), !.uses = Tail(@), !.saved = package]
  <2>1. pc = "Require" /\ top.uses # <<>> /\ pc' = "use"
        /\ stack' = [stack EXCEPT ![Len(stack)] = f]
    BY <1>6 DEF UseEnter, WithTop
  <2>2. f \in Frame /\ f.own = top.own /\ f.left = top.left
    <3>1. Head(top.uses) \in Seq(Name) /\ Tail(top.uses) \in Seq(Seq(Name))
      BY <1>3, <2>1, RangeHeadTail DEF Frame
    <3>2. package \in Name \union {None}
      BY DEF IInv, TypeOK
    <3> QED
      BY <1>3, <3>1, <3>2 DEF Frame
  <2> HIDE DEF f
  <2>3. Fresh(f) /\ Waits(f)
    BY <1>3, <2>1, <2>2 DEF Fresh, Waits
  <2>4. FramesWait'
    BY <1>1, <2>1, <2>2, <2>3, TopWaits
  <2>5. Fetched'
    BY <2>1 DEF Fetched, Behind
  <2> QED
    BY <1>2, <2>4, <2>5 DEF SourcesInv
<1>7. ASSUME NEW d \in Name, UseReady(d)  PROVE SourcesInv'
  <2> DEFINE f == [top EXCEPT !.args = Tail(@)]
  <2>1. NextArg(d) /\ pc' = pc /\ stack' = [stack EXCEPT ![Len(stack)] = f]
    BY <1>7 DEF UseReady, Advanced, WithTop
  <2>2. pc = "use" /\ f \in Frame /\ f.own = top.own /\ f.left = top.left
    BY <2>1, AdvancedFrame
  <2> HIDE DEF f
  <2>3. Fresh(f) /\ Waits(f)
    BY <1>3, <2>2 DEF Fresh, Waits
  <2>4. FramesWait'
    BY <1>1, <2>1, <2>2, <2>3, TopWaits
  <2>5. Fetched'
    BY <2>1, <2>2 DEF Fetched, Behind
  <2> QED
    BY <1>2, <2>4, <2>5 DEF SourcesInv
<1> QED
  BY <1>4, <1>5, <1>6, <1>7

\* A nested evaluation begins.
LEMMA NestedSources ==
  ASSUME IInv, SourcesInv, NEW d \in Name, UseEval(d)
  PROVE  SourcesInv'
<1> DEFINE f == [top EXCEPT !.args = Tail(@)]
           e == NewFrame(d)
           s == [stack EXCEPT ![Len(stack)] = f]
<1>1. /\ NextArg(d) /\ d \in Pkg /\ stack' = Append(s, e) /\ pc' \in {"eval", "raise"}
      /\ src' = src /\ cmd' = cmd
  BY DEF UseEval, Advanced, WithTop, fs, request
<1>2. /\ pc = "use" /\ f \in Frame /\ f.own = top.own /\ f.left = top.left
      /\ e \in Frame /\ e.own = d /\ e.left = Sections[d] \intersect Used(cmd)
  BY <1>1, AdvancedFrame, FreshFrame
<1>3. /\ stack # <<>> /\ Len(stack) \in Nat \ {0} /\ stack \in Seq(Frame)
      /\ top = stack[Len(stack)]
  BY <1>2, Inside
<1> HIDE DEF f, e
<1>4. /\ s \in Seq(Frame) /\ Len(s) = Len(stack) /\ s[Len(stack)] = f
      /\ \A i \in 1..Len(stack)-1 : s[i] = stack[i]
  BY <1>2, <1>3, ReplaceLast
<1> HIDE DEF s
<1>5. /\ stack' # <<>> /\ Len(stack') = Len(stack) + 1
      /\ stack'[Len(stack) + 1] = e /\ stack'[Len(stack)] = f
      /\ \A i \in 1..Len(stack)-1 : stack'[i] = stack[i]
  BY <1>1, <1>2, <1>3, <1>4, AddLast
<1>6. top' = e
  BY <1>5 DEF top, Last
<1>7. Fresh(top) /\ Waits(top)
  <2>1. Len(stack) \in 1..Len(stack)
    BY <1>3
  <2> QED
    BY <1>2, <1>3, <2>1 DEF SourcesInv, FramesWait
<1>8. ASSUME NEW i \in 1..Len(stack')
      PROVE  Fresh(stack[i])' /\ (i < Len(stack') => Waits(stack[i])')
  <2>1. CASE i = Len(stack) + 1
    BY <1>1, <1>2, <1>5, <2>1 DEF Fresh
  <2>2. CASE i = Len(stack)
    BY <1>1, <1>2, <1>5, <1>7, <2>2 DEF Fresh, Waits
  <2>3. CASE i \in 1..Len(stack)-1
    <3>1. i \in 1..Len(stack) /\ i < Len(stack) /\ stack'[i] = stack[i]
      BY <1>3, <1>5, <2>3
    <3>2. Fresh(stack[i]) /\ Waits(stack[i])
      BY <3>1 DEF SourcesInv, FramesWait
    <3> QED
      BY <1>1, <3>1, <3>2 DEF Fresh, Waits
  <2> QED
    BY <1>3, <1>5, <2>1, <2>2, <2>3
<1>9. FramesWait'
  BY <1>1, <1>8 DEF FramesWait
<1>10. Fetched'
  BY <1>1, <1>2, <1>6 DEF Fetched, Behind
<1> QED
  BY <1>1, <1>9, <1>10 DEF SourcesInv, StagedWhole

\* Evaluations end.
LEMMA EndedSources ==
  ASSUME IInv, SourcesInv, EvalDone \/ CaughtIgnored \/ CaughtFatal
  PROVE  SourcesInv'
<1>1. /\ pc \in {"eval", "raise"} /\ stack' = Front(stack)
      /\ pc' \in {"targets", "use", "raise", "idle"}
      /\ src' = src /\ cmd' = cmd
  BY DEF EvalDone, CaughtIgnored, CaughtFatal, fs, request
<1>2. /\ Len(stack') = Len(stack) - 1 /\ Len(stack) \in Nat \ {0}
      /\ \A i \in 1..Len(stack') : stack'[i] = stack[i]
  BY <1>1, Popped, Inside
<1>3. ASSUME NEW i \in 1..Len(stack')  PROVE Fresh(stack[i])' /\ Waits(stack[i])'
  <2>1. i \in 1..Len(stack) /\ i < Len(stack)
    BY <1>2
  <2>2. Fresh(stack[i]) /\ Waits(stack[i])
    BY <2>1 DEF SourcesInv, FramesWait
  <2> QED
    BY <1>1, <1>2, <2>2 DEF Fresh, Waits
<1>4. FramesWait'
  BY <1>3 DEF FramesWait
<1>5. Fetched'
  BY <1>1 DEF Fetched, Behind
<1> QED
  BY <1>1, <1>4, <1>5 DEF SourcesInv, StagedWhole

\* Source, while it looks for the directory of its package.
LEMMA SourceSources ==
  ASSUME IInv, BodyRestored, SourcesInv,
         SourceDistclean \/ SourcePresent \/ SourceFetch
  PROVE  SourcesInv'
<1> DEFINE f == [top EXCEPT !.left = @ \ {"Source"}]
<1>1. /\ pc = "eval" /\ AtSection("Source") /\ "Source" \in top.left
      /\ stack' = [stack EXCEPT ![Len(stack)] = f] /\ cmd' = cmd
      /\ pc' \in {"eval", "Source", "fetch"}
  BY DEF SourceDistclean, SourcePresent, SourceFetch, AtSection, Leave, WithTop, request
<1>2. /\ top \in Frame /\ package = top.own /\ top.own \in Pkg
      /\ "Require" \notin top.left
  <2>1. "Source" \in Section /\ "Source" # "Require"
    BY DEF Section
  <2> QED
    BY <1>1, <2>1, RequireFirst, Inside DEF IInv, ScriptOK, InSections, Frame
<1>3. f \in Frame /\ f.own = top.own /\ f.left = top.left \ {"Source"}
  BY <1>2 DEF Frame
<1> HIDE DEF f
<1>4. FramesWait' /\ top' = f
  <2>1. Fresh(f)
    BY <1>2, <1>3 DEF Fresh
  <2> QED
    BY <1>1, <1>3, <2>1, TopWaits DEF SourcesInv
<1>5. SrcOf[package] \in Pkg /\ src \in [Pkg -> {"none", "partial", "full"}]
  BY <1>2, ConstantsAssumption DEF IInv, TypeOK
<1>6. StagedWhole'
  <2>1. CASE SourceFetch
    BY <1>5, <2>1 DEF SourceFetch, SourcesInv, StagedWhole
  <2>2. CASE SourceDistclean \/ SourcePresent
    BY <2>2 DEF SourceDistclean, SourcePresent, SourcesInv, StagedWhole, fs
  <2> QED
    BY <2>1, <2>2
<1>7. Fetched'
  <2>1. CASE SourceDistclean
    <3>1. pc' = "eval" /\ cmd' = "distclean"
      BY <1>1, <2>1 DEF SourceDistclean, BodyRestored
    <3> QED
      BY <3>1 DEF Fetched, Behind
  <2>2. CASE SourcePresent
    <3>1. pc' = "Source" /\ srcdir' = SrcOf[package] /\ src[SrcOf[package]] # "none" /\ src' = src
      BY <2>2 DEF SourcePresent, fs
    <3> QED
      BY <1>2, <1>3, <1>4, <3>1 DEF Fetched, Behind, Found
  <2>3. CASE SourceFetch
    <3>1. pc' = "fetch" /\ srcdir' = None
      BY <2>3 DEF SourceFetch
    <3> QED
      BY <3>1 DEF Fetched, Behind
  <2> QED
    BY <2>1, <2>2, <2>3
<1> QED
  BY <1>4, <1>6, <1>7 DEF SourcesInv

\* The end of a fetch, the end of Source, and the end of a script.
LEMMA ScriptSources ==
  ASSUME IInv, SourcesInv, FetchOk \/ FetchFail \/ SourceEnd \/ ScriptOk \/ ScriptFail
  PROVE  SourcesInv'
<1>1. /\ pc \in {"fetch", "Source"} \union Behind /\ pc' \in {"Source", "eval", "raise"}
      /\ stack' = stack /\ cmd' = cmd
  BY DEF FetchOk, FetchFail, SourceEnd, ScriptOk, ScriptFail, Behind, request
<1>2. FramesWait' /\ top' = top
  BY <1>1, SameWaits DEF SourcesInv, Behind
<1>3. /\ package = top.own /\ SrcOf[package] \in Pkg
      /\ src \in [Pkg -> {"none", "partial", "full"}]
  <2>1. InSections
    BY <1>1 DEF InSections, Section, Behind
  <2>2. package = top.own /\ top.own \in Pkg
    BY <1>1, <2>1, Inside DEF IInv, ScriptOK, Frame, Behind
  <2> QED
    BY <2>2, ConstantsAssumption DEF IInv, TypeOK
<1>4. CASE FetchOk
  <2>1. src' = [src EXCEPT ![SrcOf[package]] = "full"] /\ srcdir' = SrcOf[package] /\ pc' = "Source"
    BY <1>4 DEF FetchOk
  <2>2. src'[srcdir'] = "full" /\ StagedWhole'
    BY <1>3, <2>1 DEF SourcesInv, StagedWhole
  <2>3. Fetched'
    BY <1>2, <1>3, <2>1, <2>2 DEF Fetched, Behind, Found
  <2> QED
    BY <1>2, <2>2, <2>3 DEF SourcesInv
<1>5. CASE FetchFail
  <2>1. /\ pc = "fetch" /\ src' = [src EXCEPT ![SrcOf[package]] = "none"]
        /\ srcdir' = srcdir /\ pc' = "Source"
    BY <1>5 DEF FetchFail, context
  <2>2. StagedWhole'
    BY <1>3, <2>1 DEF SourcesInv, StagedWhole
  <2>3. Fetched'
    BY <2>1 DEF SourcesInv, Fetched, Behind
  <2> QED
    BY <1>2, <2>2, <2>3 DEF SourcesInv
<1>6. CASE SourceEnd \/ ScriptOk \/ ScriptFail
  <2>1. /\ src' = src /\ srcdir' = srcdir /\ pc' \in {"eval", "raise"}
        /\ pc' = "eval" => pc \in Behind \/ (pc = "Source" /\ srcdir # None)
    BY <1>6 DEF SourceEnd, ScriptOk, ScriptFail, Behind, fs, context
  <2>2. StagedWhole'
    BY <2>1 DEF SourcesInv, StagedWhole
  <2>3. Fetched'
    BY <1>1, <1>2, <2>1 DEF SourcesInv, Fetched, Behind, Found
  <2> QED
    BY <1>2, <2>2, <2>3 DEF SourcesInv
<1> QED
  BY <1>4, <1>5, <1>6

\* The sections behind Source begin.
LEMMA BehindSources ==
  ASSUME IInv, SourcesInv,
         ConfigureBegin \/ \E s \in Section : NeedsDirBegin(s) \/ SkipsNoDirBegin(s)
  PROVE  SourcesInv'
<1>1. PICK s \in Behind : /\ AtSection(s) /\ Leave(s) /\ pc' \in {"eval", "raise", s}
  BY DEF ConfigureBegin, NeedsDirBegin, SkipsNoDirBegin, Behind, AtSection
<1>2. pc = "eval" /\ s \in top.left /\ src' = src /\ srcdir' = srcdir /\ cmd' = cmd
  BY <1>1 DEF AtSection, ConfigureBegin, NeedsDirBegin, SkipsNoDirBegin, fs, context, request
<1>3. /\ s \in Section /\ s # "Require" /\ s # "Source"
      /\ "Require" \notin top.left /\ "Source" \notin top.left
  BY <1>1, SourceFirst
<1> DEFINE f == [top EXCEPT !.left = @ \ {s}]
<1>4. stack' = [stack EXCEPT ![Len(stack)] = f] /\ top \in Frame /\ s \in Used(cmd)
  BY <1>1, <1>2, Inside DEF Leave, WithTop
<1>5. f \in Frame /\ f.own = top.own /\ f.left = top.left \ {s}
  BY <1>4 DEF Frame
<1> HIDE DEF f
<1>6. FramesWait' /\ top' = f
  <2>1. Fresh(f)
    BY <1>3, <1>5 DEF Fresh
  <2>2. pc' \notin {"Require", "use"}
    BY <1>1, <1>3 DEF Behind
  <2> QED
    BY <1>2, <1>4, <1>5, <2>1, <2>2, TopWaits DEF SourcesInv
<1>7. Fetched'
  <2>1. /\ top'.own = top.own /\ "Source" \notin top'.left
        /\ cmd # "distclean" /\ "Source" \in Sections[top.own] \intersect Used(cmd) => Found
    BY <1>2, <1>3, <1>5, <1>6 DEF SourcesInv, Fetched
  <2> QED
    BY <1>1, <1>2, <1>4, <2>1 DEF Fetched, Behind, Found
<1> QED
  BY <1>2, <1>6, <1>7 DEF SourcesInv, StagedWhole

\* The outermost evaluation begins.
LEMMA TargetSources ==
  ASSUME IInv, SourcesInv, NEW p \in Pkg, Target(p)
  PROVE  SourcesInv'
<1> DEFINE e == NewFrame(p)
<1>1. /\ stack' = <<e>> /\ pc' = "eval" /\ src' = src /\ cmd' = cmd
      /\ e.own = p /\ e.left = Sections[p] \intersect Used(cmd)
  BY FreshFrame DEF Target, fs, request
<1> HIDE DEF e
<1>2. Len(stack') = 1 /\ stack'[1] = e /\ top' = e
  BY <1>1 DEF top, Last
<1>3. FramesWait'
  <2> SUFFICES ASSUME NEW i \in 1..Len(stack')
               PROVE  Fresh(stack[i])' /\ (i < Len(stack') \/ pc' \in {"Require", "use"} => Waits(stack[i])')
    BY DEF FramesWait
  <2>1. stack'[i] = e /\ ~(i < Len(stack')) /\ pc' \notin {"Require", "use"}
    BY <1>1, <1>2
  <2> QED
    BY <1>1, <2>1 DEF Fresh
<1>4. Fetched'
  BY <1>1, <1>2 DEF Fetched, Behind
<1> QED
  BY <1>1, <1>3, <1>4 DEF SourcesInv, StagedWhole

\* Nothing is evaluated behind the step.
LEMMA IdleSources ==
  ASSUME SourcesInv, User \/ NoTargets \/ Finish \/ Kill, IInv
  PROVE  SourcesInv'
<1>1. src' = src /\ pc' \in {"idle", "targets"} /\ stack' = <<>>
  BY DEF User, Start, NoTargets, Finish, Kill, fs, IInv
<1>2. Len(stack') = 0 /\ 1..0 = {}
  BY <1>1, EmptySeq
<1> QED
  BY <1>1, <1>2 DEF SourcesInv, StagedWhole, FramesWait, Fetched, Behind

\* No step takes the sources away from under a package.
LEMMA SourcesStep == IInv /\ BodyRestored /\ SourcesInv /\ [Next]_vars => SourcesInv'
<1> SUFFICES ASSUME IInv, BodyRestored, SourcesInv, [Next]_vars  PROVE SourcesInv'
  OBVIOUS
<1>1. CASE UNCHANGED vars
  BY <1>1 DEF SourcesInv, StagedWhole, FramesWait, Fresh, Waits, Fetched, Found, top, Last,
     vars, fs, body, context, request
<1>2. CASE Next
  BY <1>2, IdleSources, TargetSources, RequireSources, NestedSources, EndedSources,
     SourceSources, ScriptSources, BehindSources DEF Next, Step
<1> QED
  BY <1>1, <1>2

\* The directories and _(srcdir) always agree on what is evaluated.
LEMMA SourcesHold == ~Gui => (Spec => []SourcesInv)
<1>1. Init => SourcesInv
  <2> SUFFICES ASSUME Init PROVE SourcesInv
    OBVIOUS
  <2>1. Len(stack) = 0 /\ 1..0 = {} /\ pc = "idle" /\ \A p \in Pkg : src[p] = "none"
    BY EmptySeq DEF Init
  <2> QED
    BY <2>1, ConstantsAssumption DEF SourcesInv, StagedWhole, FramesWait, Fetched, Behind
<1>2. IInv /\ BodyRestored /\ SourcesInv /\ [Next]_vars => SourcesInv'
  BY SourcesStep
<1>3. Spec => []IInv /\ (~Gui => []BodyRestored)
  BY Inductive, BodyPerProcess
<1> QED
  BY <1>1, <1>2, <1>3, PTL DEF Spec

\* One process per command: a section behind Source finds in _(srcdir) the sources
\* of its own package, whatever its dependencies, and kills and failed fetches
\* before it, have done to _(srcdir) and to the directories.
THEOREM OwnSources == ~Gui => (Spec => []BuildsOwnSources)
<1>1. IInv /\ SourcesInv => BuildsOwnSources
  <2> SUFFICES ASSUME IInv, SourcesInv, pc \in {"Configure", "Make", "Install", "Test"},
                      "Source" \in Sections[top.own] \intersect Used(cmd)
               PROVE  /\ srcdir = SrcOf[top.own]
                      /\ src[srcdir] # "none" /\ (srcdir \in Staged => src[srcdir] = "full")
    BY DEF BuildsOwnSources
  <2>1. pc \in Used(cmd) /\ "Source" \notin top.left
    BY DEF SourcesInv, Fetched, Behind
  <2>2. cmd # "distclean"
    BY <2>1 DEF Used
  <2>3. Found
    BY <2>1, <2>2 DEF SourcesInv, Fetched, Behind
  <2>4. top.own \in Pkg
    BY Inside DEF Frame
  <2> QED
    BY <2>3, <2>4, ConstantsAssumption DEF Found, SourcesInv, StagedWhole, IInv, TypeOK
<1> QED
  BY <1>1, Inductive, SourcesHold, PTL

-----------------------------------------------------------------------------
(***************************************************************************)
(* What a command that ends without an error has done, and left, to the    *)
(* packages it loaded.                                                     *)
(***************************************************************************)
\* The effect of section s of package p on the files is there.
Did(p, s) ==
  CASE s = "Source" -> IF cmd = "distclean" THEN dir[p] = "none" ELSE src[SrcOf[p]] # "none"
    [] s = "Configure" -> dir[p] # "none"
    [] s = "Make" -> p \in built
    [] s = "Install" -> lib[p] = "done"
    [] s = "Clean" -> p \notin built
    [] OTHER -> TRUE

\* A command without -i is running and has not met an error: Source without a
\* directory is on its way to one.
Unfailed ==
  /\ ~switch.ignore
  /\ pc \notin {"idle", "raise"} /\ ~(pc = "Source" /\ srcdir = None)

\* What was made has its makedir, and so has a script that is evaluated in it.
BuiltThere ==
  /\ \A p \in built : dir[p] # "none"
  /\ pc \in Behind => dir[makedir] # "none"

\* The body of Source is the running command's, and so is the one evaluated.
BodyOfCommand ==
  /\ pc # "idle" => (srcBody = "distclean" <=> cmd = "distclean")
  /\ pc \in {"fetch", "Source"} => cmd # "distclean"

\* A package the request matches is evaluated, or is still to be.
GoalMet ==
  Unfailed =>
    \A p \in goal : \/ p \in loaded
                    \/ \E i \in 1..Len(todo) : p \in todo[i]
                    \/ stack # <<>> /\ p = stack[1].own

\* The innermost evaluation has done what the sections it has met are for.
TopServed ==
  Unfailed /\ stack # <<>> =>
    \A s \in (Sections[top.own] \intersect Used(cmd)) \ top.left :
      pc = s \/ (s = "Source" /\ pc = "fetch") \/ Did(top.own, s)

LoadedServed == Unfailed => \A p \in loaded : Served(p)

\* With what a package uses, everything that uses is loaded.
LoadedClosed == Strict => \A p \in loaded : Deps(p) \subseteq loaded

EndsIdle == result = "ok" => pc = "idle"

ServedInv ==
  /\ BuiltThere /\ BodyOfCommand
  /\ GoalMet /\ TopServed /\ LoadedServed /\ LoadedClosed
  /\ EndsIdle /\ AllServed

\* A package is served when each of its sections has had its effect.
ServedByEach ==
  \A p \in Pkg : Served(p) <=> \A s \in Sections[p] \intersect Used(cmd) : Did(p, s)

LEMMA ServedMeans == TypeOK => ServedByEach
<1> SUFFICES ASSUME TypeOK, NEW p \in Pkg
             PROVE  Served(p) <=> \A s \in Sections[p] \intersect Used(cmd) : Did(p, s)
  BY DEF ServedByEach
<1>1. CASE cmd = "distclean"
  BY <1>1 DEF Served, Did, Used
<1>2. CASE cmd = "clean"
  BY <1>2 DEF Served, Did, Used
<1>3. CASE cmd \in Command \ {"clean", "distclean"}
  <2>1. cmd # "clean" /\ cmd # "distclean" /\ "Clean" \notin Used(cmd)
    BY <1>3 DEF Command, Used
  <2> QED
    BY <2>1 DEF Served, Did
<1> QED
  BY <1>1, <1>2, <1>3 DEF TypeOK

\* What a section has done stays, unless the command fails.
LEMMA DidStays ==
  ASSUME IInv, BodyOfCommand, Fetched, Step, Unfailed', NEW p \in Pkg, NEW s \in Used(cmd), Did(p, s)
  PROVE  Did(p, s)'
<1>1. pc # "idle" /\ UNCHANGED request
  BY DEF Step, NoTargets, Finish, Target, RequireBegin, RequireEnd, UseEnter, UseLeave,
     UseReady, UseEval, UseNotFound, NextArg, EvalDone, CaughtIgnored, CaughtFatal,
     SourceDistclean, SourcePresent, SourceFetch, FetchOk, FetchFail, SourceEnd,
     ConfigureBegin, NeedsDirBegin, SkipsNoDirBegin, ScriptOk, ScriptFail, AtSection
<1>2. cmd' = cmd /\ cmd \in Command
  BY <1>1 DEF request, IInv, TypeOK
<1>3. \/ UNCHANGED fs
      \/ SourceDistclean \/ SourceFetch \/ FetchOk \/ ConfigureBegin \/ ScriptOk
  <2>1. ~FetchFail
    BY DEF FetchFail, Unfailed, Fetched, context
  <2>2. ~ScriptFail
    BY DEF ScriptFail, Unfailed
  <2> QED
    BY <2>1, <2>2 DEF Step, NoTargets, Finish, Target, RequireBegin, RequireEnd, UseEnter,
       UseLeave, UseReady, UseEval, UseNotFound, EvalDone, CaughtIgnored, CaughtFatal,
       SourcePresent, SourceEnd, NeedsDirBegin, SkipsNoDirBegin
<1>4. /\ dir \in [Pkg -> {"none", "created", "configured"}]
      /\ src \in [Pkg -> {"none", "partial", "full"}]
      /\ lib \in [Pkg -> {"none", "partial", "done"}]
      /\ SrcOf[p] \in Pkg
  BY ConstantsAssumption DEF IInv, TypeOK
<1>5. CASE UNCHANGED fs
  BY <1>2, <1>5 DEF Did, fs
<1>6. CASE SourceDistclean
  <2>1. cmd = "distclean" /\ s \in {"Require", "Source"}
    BY <1>1, <1>6 DEF SourceDistclean, BodyOfCommand, Used
  <2>2. dir' = [dir EXCEPT ![makedir] = "none"]
    BY <1>6 DEF SourceDistclean
  <2> QED
    BY <1>2, <1>4, <2>1, <2>2 DEF Did
<1>7. CASE SourceFetch
  <2>1. /\ src[SrcOf[package]] = "none"
        /\ src' = [src EXCEPT ![SrcOf[package]] =
                     IF SrcOf[package] \in Staged THEN @ ELSE "partial"]
        /\ UNCHANGED <<dir, built, lib>>
    BY <1>7 DEF SourceFetch
  <2>2. src[SrcOf[p]] # "none" => src'[SrcOf[p]] = src[SrcOf[p]]
    BY <1>4, <2>1
  <2> QED
    BY <1>2, <2>1, <2>2 DEF Did
<1>8. CASE FetchOk
  <2>1. src' = [src EXCEPT ![SrcOf[package]] = "full"] /\ UNCHANGED <<dir, built, lib>>
    BY <1>8 DEF FetchOk
  <2>2. src[SrcOf[p]] # "none" => src'[SrcOf[p]] # "none"
    BY <1>4, <2>1
  <2> QED
    BY <1>2, <2>1, <2>2 DEF Did
<1>9. CASE ConfigureBegin
  <2>1. "Configure" \in top.left /\ top.left \subseteq Used(cmd)
    BY <1>9, Inside DEF ConfigureBegin, AtSection
  <2>2. cmd # "distclean"
    BY <2>1 DEF Used
  <2>3. /\ dir' = dir \/ dir' = [dir EXCEPT ![makedir] = "created"]
        /\ UNCHANGED <<src, built, lib>>
    BY <1>9 DEF ConfigureBegin
  <2>4. dir[p] # "none" => dir'[p] # "none"
    BY <1>4, <2>3
  <2> QED
    BY <1>2, <2>2, <2>3, <2>4 DEF Did
<1>10. CASE ScriptOk
  <2>1. pc \in Behind /\ pc \in Used(cmd)
    BY <1>10 DEF ScriptOk, Fetched, Behind
  <2>2. cmd # "distclean"
    BY <2>1 DEF Used, Behind
  <2>3. /\ dir' = dir \/ dir' = [dir EXCEPT ![makedir] = "configured"]
        /\ lib' = lib \/ lib' = [lib EXCEPT ![package] = "done"]
        /\ src' = src
    BY <1>10 DEF ScriptOk
  <2>4. /\ dir[p] # "none" => dir'[p] # "none"
        /\ lib[p] = "done" => lib'[p] = "done"
    BY <1>4, <2>3
  <2>5. CASE s \notin {"Make", "Clean"}
    BY <1>2, <2>2, <2>3, <2>4, <2>5 DEF Did
  <2>6. CASE s = "Make"
    <3>1. pc # "Clean"
      BY <1>2, <2>1, <2>6 DEF Used, Command
    <3>2. built \subseteq built'
      BY <1>10, <3>1 DEF ScriptOk
    <3> QED
      BY <2>6, <3>2 DEF Did
  <2>7. CASE s = "Clean"
    <3>1. pc # "Make"
      BY <1>2, <2>1, <2>7 DEF Used, Command
    <3>2. built' \subseteq built
      BY <1>10, <3>1 DEF ScriptOk
    <3> QED
      BY <2>7, <3>2 DEF Did
  <2> QED
    BY <2>5, <2>6, <2>7
<1> QED
  BY <1>3, <1>5, <1>6, <1>7, <1>8, <1>9, <1>10

\* A step inside the evaluations of a command, or one that begins another, keeps
\* what holds of its targets and of the packages it has loaded.
LEMMA KeepServing ==
  ASSUME IInv, BodyOfCommand, Fetched, ServedInv, Step,
         pc' # "idle", stack # <<>>, stack' # <<>>, stack'[1].own = stack[1].own,
         Unfailed' => Unfailed, TypeOK',
         UNCHANGED <<request, loaded, todo, result>>
  PROVE  GoalMet' /\ LoadedServed' /\ LoadedClosed' /\ EndsIdle' /\ AllServed'
<1>1. pc # "idle" /\ loaded \subseteq Pkg /\ Sections \in [Pkg -> SUBSET Section]
  BY ConstantsAssumption DEF IInv, TypeOK
<1>2. result' # "ok"
  BY <1>1 DEF ServedInv, EndsIdle
<1>3. EndsIdle' /\ AllServed'
  BY <1>2 DEF EndsIdle, AllServed
<1>4. GoalMet'
  BY DEF ServedInv, GoalMet, request
<1>5. LoadedClosed'
  BY DEF ServedInv, LoadedClosed, Strict, request
<1>6. LoadedServed'
  <2> SUFFICES ASSUME Unfailed', NEW p \in loaded  PROVE Served(p)'
    BY DEF LoadedServed
  <2>1. p \in Pkg /\ ServedByEach /\ ServedByEach'
    <3>1. TypeOK
      BY DEF IInv
    <3>2. ServedByEach /\ ServedByEach'
      BY <3>1, ServedMeans, PTL
    <3> QED
      BY <1>1, <3>2
  <2>2. \A s \in Sections[p] \intersect Used(cmd) : Did(p, s)
    BY <2>1 DEF ServedInv, LoadedServed, ServedByEach
  <2>3. \A s \in Sections[p] \intersect Used(cmd) : Did(p, s)'
    BY <2>1, <2>2, DidStays
  <2> QED
    BY <2>1, <2>3 DEF ServedByEach, request
<1> QED
  BY <1>3, <1>4, <1>5, <1>6

\* The makedirs stay under what is made and evaluated.
LEMMA ThereStays ==
  ASSUME IInv, BuiltThere, [Next]_vars
  PROVE  BuiltThere'
<1>1. dir \in [Pkg -> {"none", "created", "configured"}] /\ built \subseteq Pkg
  BY DEF IInv, TypeOK
<1>2. pc \in Behind \union {"eval"} => makedir \in Pkg
  BY Inside DEF IInv, ScriptOK, InSections, Section, Behind, Frame
<1>3. CASE SourceDistclean
  BY <1>1, <1>3 DEF SourceDistclean, AtSection, BuiltThere, Behind
<1>4. CASE ConfigureBegin
  <2>1. /\ \/ dir' = dir /\ pc' = "eval"
           \/ dir' = [dir EXCEPT ![makedir] = "created"] /\ pc' = "Configure"
        /\ UNCHANGED <<built, makedir>> /\ pc = "eval"
    BY <1>4 DEF ConfigureBegin, AtSection, context
  <2>2. \A q \in built : dir'[q] # "none"
    BY <1>1, <2>1 DEF BuiltThere
  <2>3. pc' \in Behind => dir'[makedir'] # "none"
    BY <1>1, <1>2, <2>1 DEF Behind
  <2> QED
    BY <2>1, <2>2, <2>3 DEF BuiltThere
<1>5. CASE \E s \in Section : NeedsDirBegin(s) \/ SkipsNoDirBegin(s)
  BY <1>5 DEF NeedsDirBegin, SkipsNoDirBegin, BuiltThere, Behind, fs, context
<1>6. CASE ScriptOk
  <2>1. /\ dir' = dir \/ dir' = [dir EXCEPT ![makedir] = "configured"]
        /\ built' \subseteq built \union {makedir} /\ pc' = "eval"
        /\ pc \in Behind
    BY <1>6 DEF ScriptOk, Behind
  <2> QED
    BY <1>1, <1>2, <2>1 DEF BuiltThere, Behind
<1>7. CASE ScriptFail
  BY <1>7 DEF ScriptFail, BuiltThere, Behind
<1>8. CASE UNCHANGED <<dir, built>> /\ pc' \notin Behind
  BY <1>8 DEF BuiltThere
<1>9. CASE UNCHANGED vars
  BY <1>9 DEF BuiltThere, vars, fs, context
<1>10. ASSUME Next
       PROVE  \/ SourceDistclean \/ ConfigureBegin \/ ScriptOk \/ ScriptFail
              \/ \E s \in Section : NeedsDirBegin(s) \/ SkipsNoDirBegin(s)
              \/ UNCHANGED <<dir, built>> /\ pc' \notin Behind
  BY <1>10 DEF Next, User, Start, Kill, Step, NoTargets, Finish, Target, RequireBegin,
     RequireEnd, UseEnter, UseLeave, UseReady, UseEval, UseNotFound, NextArg, EvalDone,
     CaughtIgnored, CaughtFatal, SourcePresent, SourceFetch, FetchOk, FetchFail, SourceEnd,
     AtSection, Behind, fs
<1> QED
  BY <1>3, <1>4, <1>5, <1>6, <1>7, <1>8, <1>9, <1>10

\* Where every command has a process of its own.
LEMMA BodyOfCommandStep ==
  ASSUME ~Gui, BodyOfCommand, [Next]_vars
  PROVE  BodyOfCommand'
<1>1. CASE User
  BY <1>1 DEF User, Start, BodyOfCommand
<1>2. CASE Kill \/ Finish
  BY <1>2 DEF Kill, Finish, BodyOfCommand
<1>3. CASE UNCHANGED vars
  BY <1>3 DEF vars, body, request, BodyOfCommand
<1>4. CASE Step /\ ~Finish
  <2>1. pc # "idle" /\ UNCHANGED <<srcBody, cmd>>
    BY <1>4 DEF Step, NoTargets, Target, RequireBegin, RequireEnd, UseEnter, UseLeave,
       UseReady, UseEval, UseNotFound, NextArg, EvalDone, CaughtIgnored, CaughtFatal,
       SourceDistclean, SourcePresent, SourceFetch, FetchOk, FetchFail, SourceEnd,
       ConfigureBegin, NeedsDirBegin, SkipsNoDirBegin, ScriptOk, ScriptFail, AtSection,
       body, request
  <2>2. pc' \in {"fetch", "Source"} => srcBody = "fetch" \/ pc = "fetch"
    BY <1>4 DEF Step, NoTargets, Target, RequireBegin, RequireEnd, UseEnter, UseLeave,
       UseReady, UseEval, UseNotFound, NextArg, EvalDone, CaughtIgnored, CaughtFatal,
       SourceDistclean, SourcePresent, SourceFetch, FetchOk, FetchFail, SourceEnd,
       ConfigureBegin, NeedsDirBegin, SkipsNoDirBegin, ScriptOk, ScriptFail, AtSection
  <2> QED
    BY <2>1, <2>2 DEF BodyOfCommand
<1> QED
  BY <1>1, <1>2, <1>3, <1>4 DEF Next

\* A command starts, or ends by being killed or with an error.
LEMMA BoundaryServed ==
  ASSUME IInv, ServedInv, User \/ Kill \/ NoTargets
  PROVE  GoalMet' /\ TopServed' /\ LoadedServed' /\ LoadedClosed' /\ EndsIdle' /\ AllServed'
<1>1. CASE User
  <2>1. PICK c \in Commands, sw \in Switches, req \in Requests : Start(c, sw, req)
    BY <1>1 DEF User
  <2>2. /\ stack' = <<>> /\ loaded' = {} /\ result' = "none"
        /\ todo' = req /\ goal' = UNION Range(req)
    BY <2>1 DEF Start
  <2>3. req \in Seq(SUBSET Pkg)
    BY ConstantsAssumption
  <2>4. Range(req) = {req[i] : i \in 1..Len(req)}
    BY <2>3, LenProperties DEF Range
  <2>5. GoalMet'
    BY <2>2, <2>4 DEF GoalMet
  <2> QED
    BY <2>2, <2>5 DEF TopServed, LoadedServed, LoadedClosed, EndsIdle, AllServed
<1>2. CASE Kill
  BY <1>2 DEF Kill, GoalMet, TopServed, LoadedServed, LoadedClosed, EndsIdle, AllServed, Unfailed
<1>3. CASE NoTargets
  BY <1>3 DEF NoTargets, GoalMet, TopServed, LoadedServed, LoadedClosed, EndsIdle, AllServed,
     Unfailed, ServedInv, Strict, request
<1> QED
  BY <1>1, <1>2, <1>3

\* A command ends without an error.
LEMMA FinishServed ==
  ASSUME IInv, ServedInv, Finish
  PROVE  GoalMet' /\ TopServed' /\ LoadedServed' /\ LoadedClosed' /\ EndsIdle' /\ AllServed'
<1>1. /\ pc = "targets" /\ todo = <<>> /\ pc' = "idle" /\ result' = "ok"
      /\ UNCHANGED <<fs, request, loaded>>
  BY DEF Finish
<1>2. stack = <<>> /\ Len(todo) = 0 /\ 1..0 = {}
  BY <1>1, EmptySeq DEF IInv
<1>3. ~switch.ignore => goal \subseteq loaded /\ \A p \in loaded : Served(p)
  BY <1>1, <1>2 DEF ServedInv, GoalMet, LoadedServed, Unfailed
<1>4. AllServed'
  BY <1>1, <1>3 DEF AllServed, ServedInv, LoadedClosed, Served, Strict, request, fs
<1> QED
  BY <1>1, <1>4 DEF GoalMet, TopServed, LoadedServed, LoadedClosed, EndsIdle, Unfailed,
     ServedInv, Strict, request

\* The outermost evaluation begins.
LEMMA TargetServed ==
  ASSUME IInv, ServedInv, NEW p \in Pkg, Target(p)
  PROVE  GoalMet' /\ TopServed' /\ LoadedServed' /\ LoadedClosed' /\ EndsIdle' /\ AllServed'
<1> DEFINE e == NewFrame(p)
<1>1. /\ pc = "targets" /\ todo # <<>> /\ p \in Head(todo)
      /\ todo' = IF Head(todo) = {p} THEN Tail(todo) ELSE [todo EXCEPT ![1] = @ \ {p}]
      /\ stack' = <<e>> /\ pc' = "eval"
      /\ UNCHANGED <<fs, request, loaded, result>>
  BY DEF Target
<1>2. e.own = p /\ e.left = Sections[p] \intersect Used(cmd)
  BY FreshFrame
<1> HIDE DEF e
<1>3. /\ stack' # <<>> /\ top' = e /\ stack'[1] = e /\ stack = <<>>
  BY <1>1 DEF top, Last, IInv
<1>4. todo \in Seq(SUBSET Pkg) /\ Len(todo) \in Nat \ {0} /\ Head(todo) = todo[1]
  BY <1>1 DEF IInv, TypeOK
<1>5. GoalMet'
  <2> SUFFICES ASSUME Unfailed', NEW q \in goal, q \notin loaded, q # p
               PROVE  \E i \in 1..Len(todo') : q \in todo'[i]
    BY <1>1, <1>2, <1>3 DEF GoalMet, request
  <2>1. Unfailed
    BY <1>1 DEF Unfailed, request
  <2>2. PICK i \in 1..Len(todo) : q \in todo[i]
    BY <1>3, <2>1 DEF ServedInv, GoalMet
  <2>3. CASE Head(todo) = {p}
    <3>1. i # 1
      BY <1>4, <2>2, <2>3
    <3>2. /\ todo' = Tail(todo) /\ Len(todo') = Len(todo) - 1
          /\ \A j \in 1..Len(todo') : todo'[j] = todo[j+1]
      BY <1>1, <1>4, <2>3, HeadTailProperties
    <3>3. i - 1 \in 1..Len(todo') /\ (i - 1) + 1 = i
      BY <1>4, <2>2, <3>1, <3>2
    <3>4. todo'[i - 1] = todo[i]
      BY <3>2, <3>3
    <3> QED
      BY <2>2, <3>3, <3>4
  <2>4. CASE Head(todo) # {p}
    <3>1. todo' = [todo EXCEPT ![1] = todo[1] \ {p}]
      BY <1>1, <2>4
    <3>2. Len(todo') = Len(todo) /\ todo'[i] \in {todo[i], todo[i] \ {p}}
      BY <1>4, <2>2, <3>1
    <3> QED
      BY <2>2, <3>2
  <2> QED
    BY <2>3, <2>4
<1>6. TopServed'
  BY <1>1, <1>2, <1>3 DEF TopServed, request
<1>7. LoadedServed'
  <2>1. Unfailed' => Unfailed
    BY <1>1 DEF Unfailed, request
  <2> QED
    BY <1>1, <2>1 DEF ServedInv, LoadedServed, Served, request, fs
<1>8. result' # "ok" /\ LoadedClosed'
  BY <1>1 DEF ServedInv, EndsIdle, LoadedClosed, Strict, request
<1> QED
  BY <1>5, <1>6, <1>7, <1>8 DEF EndsIdle, AllServed

\* The outermost evaluation is the innermost one, or it waits.
LEMMA FirstOrLast ==
  ASSUME NEW n \in Nat \ {0}  PROVE 1 \in 1..n-1 \/ 1 = n
  OBVIOUS

\* Require and its Use calls, which leave the number of evaluations alone.
LEMMA RequireServed ==
  ASSUME IInv, BodyOfCommand, SourcesInv, ServedInv, TypeOK',
         RequireBegin \/ RequireEnd \/ UseEnter \/ UseLeave
         \/ \E d \in Name : UseReady(d) \/ UseNotFound(d)
  PROVE  GoalMet' /\ TopServed' /\ LoadedServed' /\ LoadedClosed' /\ EndsIdle' /\ AllServed'
<1>1. /\ pc \in {"eval", "Require", "use"} /\ pc' \in {"eval", "Require", "use", "raise"}
      /\ UNCHANGED <<fs, request, todo, loaded, result>> /\ Step
  BY DEF RequireBegin, RequireEnd, UseEnter, UseLeave, UseReady, UseNotFound, NextArg,
     AtSection, Step
<1>2. /\ stack # <<>> /\ Len(stack) \in Nat \ {0} /\ stack \in Seq(Frame)
      /\ top = stack[Len(stack)] /\ top \in Frame
  BY <1>1, Inside
<1>3. \E f \in Frame : /\ f.own = top.own /\ top.left \subseteq f.left \union {"Require"}
                       /\ stack' = [stack EXCEPT ![Len(stack)] = f]
  <2>1. CASE RequireBegin
    <3> DEFINE f == [top EXCEPT !.left = @ \ {"Require"}, !.uses = Uses[top.own]]
               g == [top EXCEPT !.left = @ \ {"Require"}]
    <3>1. top.own \in Pkg /\ Uses[top.own] \in Seq(Seq(Name))
      BY <1>2, ConstantsAssumption DEF Frame
    <3>2. /\ f \in Frame /\ f.own = top.own /\ f.left = top.left \ {"Require"}
          /\ g \in Frame /\ g.own = top.own /\ g.left = top.left \ {"Require"}
      BY <1>2, <3>1 DEF Frame
    <3>3. \/ stack' = [stack EXCEPT ![Len(stack)] = f]
          \/ stack' = [stack EXCEPT ![Len(stack)] = g]
      BY <2>1 DEF RequireBegin, Leave, WithTop
    <3> HIDE DEF f, g
    <3> QED
      BY <3>2, <3>3
  <2>2. CASE RequireEnd \/ UseLeave \/ \E d \in Name : UseNotFound(d)
    <3>1. stack' = stack
      BY <2>2 DEF RequireEnd, UseLeave, UseNotFound
    <3>2. stack = [stack EXCEPT ![Len(stack)] = top]
      BY <1>2
    <3> QED
      BY <1>2, <3>1, <3>2
  <2>3. CASE UseEnter
    <3> DEFINE f == [top EXCEPT !.args = Head(top.uses), !.uses = Tail(@), !.saved = package]
    <3>1. top.uses # <<>> /\ stack' = [stack EXCEPT ![Len(stack)] = f]
      BY <2>3 DEF UseEnter, WithTop
    <3>2. Head(top.uses) \in Seq(Name) /\ Tail(top.uses) \in Seq(Seq(Name))
      BY <1>2, <3>1, RangeHeadTail DEF Frame
    <3>3. package \in Name \union {None}
      BY DEF IInv, TypeOK
    <3>4. f \in Frame /\ f.own = top.own /\ f.left = top.left
      BY <1>2, <3>2, <3>3 DEF Frame
    <3> HIDE DEF f
    <3> QED
      BY <3>1, <3>4
  <2>4. ASSUME NEW d \in Name, UseReady(d)
        PROVE  \E f \in Frame : /\ f.own = top.own
                                /\ top.left \subseteq f.left \union {"Require"}
                                /\ stack' = [stack EXCEPT ![Len(stack)] = f]
    <3> DEFINE f == [top EXCEPT !.args = Tail(@)]
    <3>1. NextArg(d) /\ stack' = [stack EXCEPT ![Len(stack)] = f]
      BY <2>4 DEF UseReady, Advanced, WithTop
    <3>2. f \in Frame /\ f.own = top.own /\ f.left = top.left
      BY <3>1, AdvancedFrame
    <3> HIDE DEF f
    <3> QED
      BY <3>1, <3>2
  <2> QED
    BY <2>1, <2>2, <2>3, <2>4
<1>4. PICK f \in Frame : /\ f.own = top.own /\ top.left \subseteq f.left \union {"Require"}
                         /\ stack' = [stack EXCEPT ![Len(stack)] = f]
  BY <1>3
<1>5. /\ stack' \in Seq(Frame) /\ Len(stack') = Len(stack) /\ stack'[Len(stack)] = f
      /\ \A i \in 1..Len(stack)-1 : stack'[i] = stack[i]
  BY <1>2, <1>4, ReplaceLast
<1>6. stack' # <<>> /\ top' = f
  BY <1>2, <1>5 DEF top, Last
<1>7. stack'[1].own = stack[1].own
  <2>1. 1 \in 1..Len(stack)-1 \/ 1 = Len(stack)
    BY <1>2, FirstOrLast
  <2> QED
    BY <1>2, <1>4, <1>5, <2>1
<1>8. Unfailed' => Unfailed
  BY <1>1 DEF Unfailed, request
<1>9. GoalMet' /\ LoadedServed' /\ LoadedClosed' /\ EndsIdle' /\ AllServed'
  BY <1>1, <1>2, <1>6, <1>7, <1>8, KeepServing DEF SourcesInv
<1>10. TopServed'
  <2> SUFFICES ASSUME Unfailed',
                      NEW s \in (Sections[top.own] \intersect Used(cmd)) \ f.left,
                      s # "Require"
               PROVE  Did(top.own, s)'
    BY <1>1, <1>4, <1>6 DEF TopServed, Did, request
  <2>1. pc = s \/ (s = "Source" /\ pc = "fetch") \/ Did(top.own, s)
    BY <1>2, <1>4, <1>8 DEF ServedInv, TopServed
  <2>2. top.own \in Pkg /\ pc # "fetch"
    BY <1>1, <1>2 DEF Frame
  <2>3. s \in Section
    BY <2>2, ConstantsAssumption
  <2>4. Did(top.own, s)
    BY <1>1, <2>1, <2>2, <2>3 DEF Section
  <2>5. \A p : Did(p, s)' = Did(p, s)
    BY <1>1 DEF Did, fs, request
  <2> QED
    BY <1>4, <1>6, <2>4, <2>5
<1> QED
  BY <1>9, <1>10

\* A nested evaluation begins.
LEMMA NestedServed ==
  ASSUME IInv, BodyOfCommand, SourcesInv, ServedInv, TypeOK', NEW d \in Name, UseEval(d)
  PROVE  GoalMet' /\ TopServed' /\ LoadedServed' /\ LoadedClosed' /\ EndsIdle' /\ AllServed'
<1> DEFINE f == [top EXCEPT !.args = Tail(@)]
           e == NewFrame(d)
           s == [stack EXCEPT ![Len(stack)] = f]
<1>1. /\ NextArg(d) /\ d \in Pkg /\ stack' = Append(s, e) /\ pc' \in {"eval", "raise"}
      /\ UNCHANGED <<fs, request, todo, loaded, result>> /\ Step
  BY DEF UseEval, Advanced, WithTop, Step
<1>2. /\ pc = "use" /\ f \in Frame /\ f.own = top.own
      /\ e \in Frame /\ e.own = d /\ e.left = Sections[d] \intersect Used(cmd)
  BY <1>1, AdvancedFrame, FreshFrame
<1>3. /\ stack # <<>> /\ Len(stack) \in Nat \ {0} /\ stack \in Seq(Frame)
      /\ top = stack[Len(stack)]
  BY <1>2, Inside
<1> HIDE DEF f, e
<1>4. /\ s \in Seq(Frame) /\ Len(s) = Len(stack) /\ s[Len(stack)] = f
      /\ \A i \in 1..Len(stack)-1 : s[i] = stack[i]
  BY <1>2, <1>3, ReplaceLast
<1> HIDE DEF s
<1>5. /\ stack' # <<>> /\ Len(stack') = Len(stack) + 1
      /\ stack'[Len(stack) + 1] = e /\ stack'[Len(stack)] = f
      /\ \A i \in 1..Len(stack)-1 : stack'[i] = stack[i]
  BY <1>1, <1>2, <1>3, <1>4, AddLast
<1>6. top' = e
  BY <1>5 DEF top, Last
<1>7. stack'[1].own = stack[1].own
  <2>1. 1 \in 1..Len(stack)-1 \/ 1 = Len(stack)
    BY <1>3, FirstOrLast
  <2> QED
    BY <1>2, <1>3, <1>5, <2>1
<1>8. Unfailed' => Unfailed
  BY <1>1, <1>2 DEF Unfailed, request
<1>9. GoalMet' /\ LoadedServed' /\ LoadedClosed' /\ EndsIdle' /\ AllServed'
  BY <1>1, <1>3, <1>5, <1>7, <1>8, KeepServing DEF SourcesInv
<1>10. TopServed'
  BY <1>1, <1>2, <1>6 DEF TopServed, request
<1> QED
  BY <1>9, <1>10

\* Evaluations end.
LEMMA EndedServed ==
  ASSUME IInv, BodyOfCommand, SourcesInv, ServedInv, TypeOK',
         EvalDone \/ CaughtIgnored \/ CaughtFatal
  PROVE  GoalMet' /\ TopServed' /\ LoadedServed' /\ LoadedClosed' /\ EndsIdle' /\ AllServed'
<1>1. /\ pc \in {"eval", "raise"} /\ stack' = Front(stack)
      /\ pc' \in {"targets", "use", "raise", "idle"}
      /\ UNCHANGED <<fs, request, todo>>
  BY DEF EvalDone, CaughtIgnored, CaughtFatal
<1>2. /\ stack' \in Seq(Frame) /\ Len(stack') = Len(stack) - 1
      /\ \A i \in 1..Len(stack') : stack'[i] = stack[i]
      /\ (stack' = <<>>) <=> (Len(stack) = 1)
  BY <1>1, Popped
<1>3. /\ stack # <<>> /\ Len(stack) \in Nat \ {0} /\ stack \in Seq(Frame)
      /\ top = stack[Len(stack)] /\ top \in Frame
  BY <1>1, Inside
<1>4. result # "ok" /\ loaded \subseteq Pkg
  BY <1>1 DEF ServedInv, EndsIdle, IInv, TypeOK
<1>5. CASE CaughtIgnored \/ CaughtFatal
  <2>1. pc = "raise" /\ loaded' = loaded /\ result' # "ok" /\ ~Unfailed'
    BY <1>4, <1>5 DEF CaughtIgnored, CaughtFatal, Unfailed, request
  <2> QED
    BY <1>1, <2>1 DEF GoalMet, TopServed, LoadedServed, LoadedClosed, EndsIdle, AllServed,
       ServedInv, Strict, request
<1>6. CASE EvalDone
  <2>1. /\ pc = "eval" /\ top.left = {} /\ loaded' = loaded \union {top.own}
        /\ pc' \in {"targets", "use"} /\ result' = result
    BY <1>6 DEF EvalDone
  <2>2. top.own \in Pkg /\ top.args = <<>> /\ top.uses = <<>>
    BY <1>3, <2>1 DEF Frame, IInv, ScriptOK, InSections
  <2>3. Unfailed' => Unfailed
    BY <1>1, <2>1 DEF Unfailed, request
  <2>4. GoalMet'
    <3> SUFFICES ASSUME Unfailed', NEW p \in goal, p \notin loaded, p # top.own,
                        \A i \in 1..Len(todo) : p \notin todo[i]
                 PROVE  stack' # <<>> /\ p = stack'[1].own
      BY <1>1, <2>1 DEF GoalMet, request
    <3>1. p = stack[1].own
      BY <2>3 DEF ServedInv, GoalMet
    <3>2. Len(stack) # 1
      BY <1>3, <3>1
    <3>3. 1 \in 1..Len(stack') /\ stack' # <<>>
      BY <1>2, <1>3, <3>2, FirstOrLast
    <3> QED
      BY <1>2, <3>1, <3>3
  <2>5. TopServed'
    <3> SUFFICES ASSUME Unfailed', stack' # <<>>,
                        NEW s \in (Sections[top'.own] \intersect Used(cmd)) \ top'.left
                 PROVE  Did(top.own, s)'
      BY <1>1 DEF TopServed, request
    <3>1. /\ Len(stack') \in Nat \ {0} /\ top' = stack'[Len(stack')]
          /\ Len(stack') \in 1..Len(stack) /\ Len(stack') < Len(stack)
      BY <1>2, <1>3 DEF top, Last
    <3>2. top' = stack[Len(stack')]
      BY <1>2, <3>1
    <3>3. Waits(stack[Len(stack')])
      BY <3>1 DEF SourcesInv, FramesWait
    <3>4. s = "Require"
      BY <3>2, <3>3 DEF Waits
    <3> QED
      BY <3>4 DEF Did
  <2>6. LoadedServed'
    <3> SUFFICES ASSUME Unfailed', NEW p \in loaded \union {top.own}  PROVE Served(p)'
      BY <2>1 DEF LoadedServed
    <3>1. Served(p)' = Served(p)
      BY <1>1 DEF Served, fs, request
    <3>2. CASE p \in loaded
      BY <2>3, <3>1, <3>2 DEF ServedInv, LoadedServed
    <3>3. CASE p = top.own
      <4>1. ServedByEach
        BY ServedMeans DEF IInv
      <4>2. Sections[top.own] \subseteq Section /\ "eval" \notin Section
        BY <2>2, ConstantsAssumption DEF Section
      <4>3. \A s \in Sections[top.own] \intersect Used(cmd) : Did(top.own, s)
        BY <1>3, <2>1, <2>3, <4>2 DEF ServedInv, TopServed
      <4> QED
        BY <2>2, <3>1, <3>3, <4>1, <4>3 DEF ServedByEach
    <3> QED
      BY <3>2, <3>3
  <2>7. LoadedClosed'
    <3> SUFFICES ASSUME Strict  PROVE \A p \in loaded' : Deps(p) \subseteq loaded'
      BY <1>1 DEF LoadedClosed, Strict, request
    <3>1. DepsLoaded
      BY SectionsAfterDeps
    <3>2. Deps(top.own) \subseteq loaded
      BY <2>1, <3>1 DEF DepsLoaded, InSections
    <3> QED
      BY <2>1, <3>2 DEF ServedInv, LoadedClosed
  <2>8. EndsIdle' /\ AllServed'
    BY <1>4, <2>1 DEF EndsIdle, AllServed
  <2> QED
    BY <2>4, <2>5, <2>6, <2>7, <2>8
<1> QED
  BY <1>5, <1>6

\* What one section of the innermost evaluation needs to have done for the rest.
LEMMA TopKept ==
  ASSUME IInv, BodyOfCommand, SourcesInv, ServedInv, Step, stack # <<>>,
         Unfailed' => Unfailed, UNCHANGED request, NEW z \in Section,
         top'.own = top.own, top.left \subseteq top'.left \union {z},
         pc = "eval" \/ pc = z \/ (pc = "fetch" /\ z = "Source"),
         Unfailed' => pc' = z \/ (z = "Source" /\ pc' = "fetch") \/ Did(top.own, z)'
  PROVE  TopServed'
<1> SUFFICES ASSUME Unfailed',
                    NEW s \in (Sections[top.own] \intersect Used(cmd)) \ top'.left, s # z
             PROVE  Did(top.own, s)'
  BY DEF TopServed, request
<1>1. s \in (Sections[top.own] \intersect Used(cmd)) \ top.left
  OBVIOUS
<1>2. top.own \in Pkg
  BY TopFrame DEF IInv, Frame
<1>3. s \in Section
  BY <1>2, ConstantsAssumption
<1>4. pc # s /\ ~(s = "Source" /\ pc = "fetch")
  BY <1>3 DEF Section
<1>5. Did(top.own, s)
  BY <1>1, <1>4 DEF ServedInv, TopServed
<1>6. ASSUME NEW p \in Pkg, p = top.own  PROVE Did(p, s)'
  BY <1>1, <1>5, <1>6, DidStays DEF SourcesInv
<1>7. ASSUME NEW p \in Pkg, p = top.own  PROVE p = top'.own
  BY <1>7
<1> QED
  BY <1>2, <1>6, <1>7

\* The sections Source to Test begin.
LEMMA EnteredServed ==
  ASSUME IInv, BodyOfCommand, SourcesInv, ServedInv, TypeOK', BuiltThere',
         NEW s \in Section, AtSection(s), Leave(s), Step,
         UNCHANGED <<request, todo, loaded, result>>,
         pc' \in {"eval", "raise", "fetch", s},
         pc' = "fetch" => s = "Source",
         pc' = "Source" => s = "Source" /\ srcdir' # None,
         pc' = "eval" => Did(top.own, s)'
  PROVE  GoalMet' /\ TopServed' /\ LoadedServed' /\ LoadedClosed' /\ EndsIdle' /\ AllServed'
<1> DEFINE f == [top EXCEPT !.left = @ \ {s}]
<1>1. pc = "eval" /\ stack' = [stack EXCEPT ![Len(stack)] = f]
  BY DEF AtSection, Leave, WithTop
<1>2. /\ stack # <<>> /\ Len(stack) \in Nat \ {0} /\ stack \in Seq(Frame)
      /\ top = stack[Len(stack)] /\ top \in Frame
  BY <1>1, Inside
<1>3. f \in Frame /\ f.own = top.own /\ f.left = top.left \ {s}
  BY <1>2 DEF Frame
<1> HIDE DEF f
<1>4. /\ stack' \in Seq(Frame) /\ Len(stack') = Len(stack) /\ stack'[Len(stack)] = f
      /\ \A i \in 1..Len(stack)-1 : stack'[i] = stack[i]
  BY <1>1, <1>2, <1>3, ReplaceLast
<1>5. stack' # <<>> /\ top' = f
  BY <1>2, <1>4 DEF top, Last
<1>6. stack'[1].own = stack[1].own
  <2>1. 1 \in 1..Len(stack)-1 \/ 1 = Len(stack)
    BY <1>2, FirstOrLast
  <2> QED
    BY <1>2, <1>3, <1>4, <2>1
<1>7. (Unfailed' => Unfailed) /\ pc' # "idle"
  BY <1>1 DEF Unfailed, request, Section
<1>8. GoalMet' /\ LoadedServed' /\ LoadedClosed' /\ EndsIdle' /\ AllServed'
  BY <1>2, <1>5, <1>6, <1>7, KeepServing DEF SourcesInv
<1>9. TopServed'
  <2>1. Unfailed' => pc' = s \/ (s = "Source" /\ pc' = "fetch") \/ Did(top.own, s)'
    BY DEF Unfailed
  <2>2. top'.own = top.own /\ top.left \subseteq top'.left \union {s}
    BY <1>3, <1>5
  <2> QED
    BY <1>1, <1>2, <1>7, <2>1, <2>2, TopKept
<1> QED
  BY <1>8, <1>9

\* Where the innermost evaluation works: on the files of its own package.
LEMMA OwnContext ==
  ASSUME IInv, pc \in {"eval", "fetch", "Source"} \union Behind
  PROVE  /\ stack # <<>> /\ package = top.own /\ makedir = top.own /\ top.own \in Pkg
         /\ SrcOf[top.own] \in Pkg /\ top.left \subseteq Sections[top.own] \intersect Used(cmd)
<1>1. InSections /\ pc \notin {"idle", "targets"}
  BY DEF InSections, Section, Behind
<1> QED
  BY <1>1, Inside, ConstantsAssumption DEF IInv, ScriptOK, Frame

\* Source and the sections behind it begin.
LEMMA SectionServed ==
  ASSUME IInv, BodyOfCommand, SourcesInv, ServedInv, TypeOK', BuiltThere',
         \/ SourceDistclean \/ SourcePresent \/ SourceFetch \/ ConfigureBegin
         \/ \E s \in Section : NeedsDirBegin(s) \/ SkipsNoDirBegin(s)
  PROVE  GoalMet' /\ TopServed' /\ LoadedServed' /\ LoadedClosed' /\ EndsIdle' /\ AllServed'
<1>1. pc = "eval"
  BY DEF SourceDistclean, SourcePresent, SourceFetch, ConfigureBegin, NeedsDirBegin,
     SkipsNoDirBegin, AtSection
<1>2. /\ stack # <<>> /\ package = top.own /\ makedir = top.own /\ top.own \in Pkg
      /\ SrcOf[top.own] \in Pkg
  BY <1>1, OwnContext
<1>3. /\ dir \in [Pkg -> {"none", "created", "configured"}]
      /\ UNCHANGED <<request, todo, loaded, result, package, makedir>> /\ Step
      /\ None \notin Pkg
  BY NoneApart DEF SourceDistclean, SourcePresent, SourceFetch, ConfigureBegin, NeedsDirBegin,
     SkipsNoDirBegin, Step, context, IInv, TypeOK
<1>4. ASSUME NEW s \in Section, Leave(s)  PROVE top'.own = top.own
  <2> DEFINE f == [top EXCEPT !.left = @ \ {s}]
  <2>1. /\ stack' = [stack EXCEPT ![Len(stack)] = f]
        /\ top \in Frame /\ Len(stack) \in Nat \ {0} /\ stack \in Seq(Frame)
    BY <1>1, <1>4, Inside DEF Leave, WithTop
  <2>2. f \in Frame /\ f.own = top.own
    BY <2>1 DEF Frame
  <2> HIDE DEF f
  <2>3. Len(stack') = Len(stack) /\ stack'[Len(stack)] = f
    BY <1>2, <2>1, <2>2, ReplaceLast
  <2> QED
    BY <2>2, <2>3 DEF top, Last
<1>5. CASE SourceDistclean
  <2>1. /\ AtSection("Source") /\ Leave("Source") /\ pc' = "eval" /\ cmd' = "distclean"
        /\ dir' = [dir EXCEPT ![makedir] = "none"] /\ "Source" \in Section
    BY <1>1, <1>3, <1>5 DEF SourceDistclean, BodyOfCommand, request, Section
  <2>2. Did(top.own, "Source")'
    BY <1>2, <1>3, <1>4, <2>1 DEF Did
  <2> QED
    BY <1>3, <2>1, <2>2, EnteredServed
<1>6. CASE SourcePresent
  <2>1. /\ AtSection("Source") /\ Leave("Source") /\ pc' = "Source" /\ "Source" \in Section
        /\ srcdir' # None
    BY <1>2, <1>3, <1>6 DEF SourcePresent, Section
  <2> QED
    BY <1>3, <2>1, EnteredServed
<1>7. CASE SourceFetch
  <2>1. AtSection("Source") /\ Leave("Source") /\ pc' = "fetch" /\ "Source" \in Section
    BY <1>7 DEF SourceFetch, Section
  <2> QED
    BY <1>3, <2>1, EnteredServed
<1>8. CASE ConfigureBegin
  <2>1. /\ AtSection("Configure") /\ Leave("Configure") /\ "Configure" \in Section
        /\ \/ pc' = "Configure"
           \/ pc' = "eval" /\ dir' = dir /\ dir[makedir] # "none"
    BY <1>1, <1>8 DEF ConfigureBegin, Section
  <2>2. pc' = "eval" => Did(top.own, "Configure")'
    BY <1>2, <1>4, <2>1 DEF Did
  <2> QED
    BY <1>3, <2>1, <2>2, EnteredServed
<1>9. ASSUME NEW s \in Section, NeedsDirBegin(s)
      PROVE  GoalMet' /\ TopServed' /\ LoadedServed' /\ LoadedClosed' /\ EndsIdle' /\ AllServed'
  <2>1. s \in {"Make", "Install"} /\ AtSection(s) /\ Leave(s) /\ pc' \in {"raise", s}
    BY <1>9 DEF NeedsDirBegin
  <2> QED
    BY <1>3, <2>1, EnteredServed
<1>10. ASSUME NEW s \in Section, SkipsNoDirBegin(s)
       PROVE  GoalMet' /\ TopServed' /\ LoadedServed' /\ LoadedClosed' /\ EndsIdle' /\ AllServed'
  <2>1. /\ s \in {"Clean", "Test"} /\ AtSection(s) /\ Leave(s)
        /\ \/ pc' = s
           \/ pc' = "eval" /\ dir[makedir] = "none"
        /\ dir' = dir
    BY <1>10 DEF SkipsNoDirBegin, fs
  <2>2. pc' = "eval" => Did(top.own, s)'
    BY <1>2, <1>4, <2>1 DEF Did, BuiltThere
  <2> QED
    BY <1>3, <2>1, <2>2, EnteredServed
<1> QED
  BY <1>5, <1>6, <1>7, <1>8, <1>9, <1>10

\* Fetches, Source and scripts end.
LEMMA ScriptServed ==
  ASSUME IInv, BodyOfCommand, SourcesInv, ServedInv, TypeOK',
         FetchOk \/ FetchFail \/ SourceEnd \/ ScriptOk \/ ScriptFail
  PROVE  GoalMet' /\ TopServed' /\ LoadedServed' /\ LoadedClosed' /\ EndsIdle' /\ AllServed'
<1>1. /\ pc \in {"fetch", "Source"} \union Behind /\ pc' \in {"Source", "eval", "raise"}
      /\ stack' = stack /\ UNCHANGED <<request, todo, loaded, result>> /\ Step
  BY DEF FetchOk, FetchFail, SourceEnd, ScriptOk, ScriptFail, Behind, Step
<1>2. /\ stack # <<>> /\ package = top.own /\ makedir = top.own /\ top.own \in Pkg
      /\ SrcOf[top.own] \in Pkg /\ top' = top
  BY <1>1, OwnContext DEF top
<1>3. Unfailed' => Unfailed
  <2>1. CASE pc = "Source"
    BY <1>1, <2>1 DEF FetchOk, FetchFail, SourceEnd, ScriptOk, ScriptFail, Unfailed, request
  <2>2. CASE pc # "Source"
    BY <1>1, <2>2 DEF Unfailed, Behind, request
  <2> QED
    BY <2>1, <2>2
<1>4. GoalMet' /\ LoadedServed' /\ LoadedClosed' /\ EndsIdle' /\ AllServed'
  BY <1>1, <1>2, <1>3, KeepServing DEF SourcesInv
<1>5. PICK z \in Section : IF pc = "fetch" THEN z = "Source" ELSE z = pc
  BY <1>1 DEF Section, Behind
<1>6. Unfailed' => pc' = z \/ Did(top.own, z)'
  <2>1. CASE FetchOk \/ FetchFail
    BY <1>5, <2>1 DEF FetchOk, FetchFail
  <2>2. CASE SourceEnd
    <3>1. pc = "Source" /\ (Unfailed' => srcdir # None) /\ UNCHANGED <<fs, cmd>>
      BY <2>2 DEF SourceEnd, Unfailed, request
    <3>2. Unfailed' => src[SrcOf[top.own]] # "none"
      BY <3>1 DEF SourcesInv, Fetched, Found
    <3>3. cmd # "distclean"
      BY <3>1 DEF BodyOfCommand
    <3> QED
      BY <1>2, <1>5, <3>1, <3>2, <3>3 DEF Did, fs
  <2>3. CASE ScriptOk
    <3>1. /\ dir \in [Pkg -> {"none", "created", "configured"}]
          /\ lib \in [Pkg -> {"none", "partial", "done"}]
      BY DEF IInv, TypeOK
    <3>2. pc \in Behind /\ z = pc
      BY <1>5, <2>3 DEF ScriptOk, Behind
    <3>3. CASE pc = "Configure"
      BY <1>2, <2>3, <3>1, <3>2, <3>3 DEF ScriptOk, Did
    <3>4. CASE pc = "Make"
      BY <1>2, <2>3, <3>2, <3>4 DEF ScriptOk, Did
    <3>5. CASE pc = "Install"
      BY <1>2, <2>3, <3>1, <3>2, <3>5 DEF ScriptOk, Did
    <3>6. CASE pc = "Clean"
      BY <1>2, <2>3, <3>2, <3>6 DEF ScriptOk, Did
    <3>7. CASE pc = "Test"
      BY <3>2, <3>7 DEF Did
    <3> QED
      BY <3>2, <3>3, <3>4, <3>5, <3>6, <3>7 DEF Behind
  <2>4. CASE ScriptFail
    BY <2>4 DEF ScriptFail, Unfailed
  <2> QED
    BY <2>1, <2>2, <2>3, <2>4
<1>7. TopServed'
  BY <1>1, <1>2, <1>3, <1>5, <1>6, TopKept
<1> QED
  BY <1>4, <1>7

\* No step undoes what the running command has done to a package it loaded.
LEMMA ServedStep ==
  ~Gui /\ IInv /\ SourcesInv /\ ServedInv /\ IInv' /\ [Next]_vars => ServedInv'
<1> SUFFICES ASSUME ~Gui, IInv, SourcesInv, ServedInv, IInv', [Next]_vars  PROVE ServedInv'
  OBVIOUS
<1>1. BodyOfCommand' /\ BuiltThere'
  BY BodyOfCommandStep, ThereStays DEF ServedInv
<1>2. BodyOfCommand /\ TypeOK'
  BY DEF ServedInv, IInv
<1>3. CASE UNCHANGED vars
  BY <1>1, <1>3 DEF vars, fs, body, context, request, ServedInv, GoalMet, TopServed, Did, top,
     Last, LoadedServed, LoadedClosed, EndsIdle, AllServed, Unfailed, Served, Strict
<1>4. CASE Next
  <2>1. CASE User \/ Kill \/ NoTargets
    BY <1>1, <2>1, BoundaryServed DEF ServedInv
  <2>2. CASE Finish
    BY <1>1, <2>2, FinishServed DEF ServedInv
  <2>3. ASSUME NEW p \in Pkg, Target(p)  PROVE ServedInv'
    BY <1>1, <2>3, TargetServed DEF ServedInv
  <2>4. CASE \/ RequireBegin \/ RequireEnd \/ UseEnter \/ UseLeave
             \/ \E d \in Name : UseReady(d) \/ UseNotFound(d)
    BY <1>1, <1>2, <2>4, RequireServed DEF ServedInv
  <2>5. ASSUME NEW d \in Name, UseEval(d)  PROVE ServedInv'
    BY <1>1, <1>2, <2>5, NestedServed DEF ServedInv
  <2>6. CASE EvalDone \/ CaughtIgnored \/ CaughtFatal
    BY <1>1, <1>2, <2>6, EndedServed DEF ServedInv
  <2>7. CASE \/ SourceDistclean \/ SourcePresent \/ SourceFetch \/ ConfigureBegin
             \/ \E s \in Section : NeedsDirBegin(s) \/ SkipsNoDirBegin(s)
    BY <1>1, <1>2, <2>7, SectionServed DEF ServedInv
  <2>8. CASE FetchOk \/ FetchFail \/ SourceEnd \/ ScriptOk \/ ScriptFail
    BY <1>1, <1>2, <2>8, ScriptServed DEF ServedInv
  <2> QED
    BY <1>4, <2>1, <2>2, <2>3, <2>4, <2>5, <2>6, <2>7, <2>8 DEF Next, Step
<1> QED
  BY <1>3, <1>4

\* One process per command: a command that ends without an error has evaluated
\* its targets and all they use, and each of these packages is, when it ends, in
\* the state that command is for, whatever was evaluated after it.
THEOREM ServesAll == ~Gui => (Spec => []AllServed)
<1> SUFFICES ASSUME ~Gui PROVE Spec => []AllServed
  OBVIOUS
<1>1. Init => ServedInv
  <2> SUFFICES ASSUME Init PROVE ServedInv
    OBVIOUS
  <2>1. /\ pc = "idle" /\ built = {} /\ loaded = {} /\ result = "none" /\ stack = <<>>
    BY DEF Init
  <2> QED
    BY <2>1 DEF ServedInv, BuiltThere, BodyOfCommand, GoalMet, TopServed, LoadedServed,
       LoadedClosed, EndsIdle, AllServed, Unfailed, Behind
<1>2. IInv /\ SourcesInv /\ ServedInv /\ IInv' /\ [Next]_vars => ServedInv'
  BY ServedStep
<1>3. ServedInv => AllServed
  BY DEF ServedInv
<1>4. Spec => []IInv /\ []SourcesInv
  BY Inductive, SourcesHold
<1> QED
  BY <1>1, <1>2, <1>3, <1>4, PTL DEF Spec

=============================================================================
