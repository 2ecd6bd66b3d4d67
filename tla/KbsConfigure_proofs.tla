------------------------- MODULE KbsConfigure_proofs -------------------------
(***************************************************************************)
(* The command line wins over the three other places, and no wrong option  *)
(* gets past _configure, whatever the places hold.                         *)
(*                                                                         *)
(* What is inductive is that the command line stays the end of args while  *)
(* lines are put in front of it, and that the elements of `_` are what the *)
(* last option of the evaluated part of args made them, and then the last  *)
(* definition of the file of -pkgfile.                                     *)
(***************************************************************************)
EXTENDS KbsConfigure, SequenceTheorems, TLAPS

\* The number of words in front of those of the command line.
Front == Len(args) - Len(places.cmdline)

\* The command line is the end of args.
IsSuffix ==
  /\ Len(places.cmdline) <= Len(args)
  /\ \A j \in 1..Len(places.cmdline) : args[Front + j] = places.cmdline[j]

InOpts(w) == \E i \in 1..Len(opts) : \E j \in 1..Len(opts[i]) : opts[i][j] = w

InFront(w) == \E j \in 1..Front : args[j] = w

\* No word of a file or of KBSRC gets lost.
Kept ==
  \A lines \in {places.home, places.local, places.env} :
    \A i \in 1..Len(lines) : \A j \in 1..Len(lines[i]) :
      InOpts(lines[i][j]) \/ InFront(lines[i][j])

\* The words that have been evaluated, and what they did.
Evaluated ==
  /\ index <= Len(args) + 1
  /\ \A j \in 1..(index - 1) : args[j].kind \notin {"word", "dash"}
  /\ \A v \in Vars, x \in Values : SetsLast(args, index - 1, v, x) => val[v] = x

Collecting ==
  /\ pc = "read" => args = places.cmdline
  /\ pc \in {"read", "add"} => index = 1
  /\ pc \in {"read", "add", "parse", "finish"} => made = "no"
  /\ made = "no" => defined = 0
  /\ pc = "source" => made = "yes"
  /\ pc \in {"read", "add", "parse"} => IsSuffix
  /\ pc \in {"add", "parse"} => Kept
  /\ pc = "parse" => opts = <<>>

OnlyOptions ==
  OnlyOptionsInPlaces =>
    /\ pc = "add" => OptionsOnly(opts)
    /\ pc \in {"add", "parse"} => \A j \in 1..Front : args[j].kind # "word"

IInv ==
  /\ TypeOK
  /\ Collecting
  /\ OnlyOptions
  /\ pc = "parse" => Evaluated
  /\ defined <= Len(Definitions)
  /\ CommandLineWins
  /\ WrongOptionFirst

-----------------------------------------------------------------------------
(* Types.                                                                   *)

LEMMA PlacesType ==
  ASSUME TypeOK
  PROVE  /\ places.home \in Seq(Line)
         /\ places.local \in Seq(Line)
         /\ places.env \in Seq(Line)
         /\ places.cmdline \in Seq(Word)
  BY PlacesAssumption DEF TypeOK, Line

LEMMA WordType ==
  ASSUME TypeOK, NEW i \in 1..Len(args)
  PROVE  /\ args[i] \in Word
         /\ args[i].kind = "set" => args[i].var \in Vars /\ args[i].val \in Values
         /\ args[i].kind = "kit" => args[i].kits \subseteq Kits
  <1>1. args[i] \in Word
    BY DEF TypeOK, Line
  <1>2. args[i].kind = "set" => args[i].var \in Vars /\ args[i].val \in Values
    BY <1>1 DEF Word
  <1>3. args[i].kind = "kit" => args[i].kits \subseteq Kits
    BY <1>1 DEF Word
  <1> QED
    BY <1>1, <1>2, <1>3

LEMMA OutcomeType ==
  /\ NoOutcome \in [exit: 0..1, ran: Names]
  /\ Failure \in [exit: 0..1, ran: Names]
  /\ [exit |-> 0, ran |-> "help"] \in [exit: 0..1, ran: Names]
  <1>1. 0 \in 0..1 /\ 1 \in 0..1
    OBVIOUS
  <1>2. "none" \in Names /\ "help" \in Names
    BY VarsAssumption
  <1> QED
    BY <1>1, <1>2 DEF NoOutcome, Failure

\* A definition sets an element of `_`, but not the file it is in, or the kits.
LEMMA DefinitionType ==
  ASSUME TypeOK
  PROVE  /\ Definitions \in Seq(Definition) /\ Len(Definitions) \in Nat
         /\ \A j \in 1..Len(Definitions) :
              /\ Definitions[j].kind \in {"set", "kit"}
              /\ Definitions[j].kind = "set" =>
                   /\ Definitions[j].var \in Vars \ {"pkgfile"}
                   /\ Definitions[j].val \in Values
              /\ Definitions[j].kind = "kit" => Definitions[j].kits \subseteq Kits
  <1>1. val["pkgfile"] \in Values
    BY VarsAssumption DEF TypeOK
  <1>2. Definitions \in Seq(Definition) /\ Len(Definitions) \in Nat
    BY <1>1, PkgFileAssumption DEF Definitions
  <1>3. ASSUME NEW j \in 1..Len(Definitions)
        PROVE  /\ Definitions[j].kind \in {"set", "kit"}
               /\ Definitions[j].kind = "set" =>
                    /\ Definitions[j].var \in Vars \ {"pkgfile"}
                    /\ Definitions[j].val \in Values
               /\ Definitions[j].kind = "kit" => Definitions[j].kits \subseteq Kits
    <2>1. Definitions[j] \in Definition
      BY <1>2
    <2> HIDE DEF Definitions
    <2> QED
      BY <2>1 DEF Definition
  <1> QED
    BY <1>2, <1>3

\* Init and every action keep the types.
LEMMA TypeInit == Init => TypeOK
  <1> SUFFICES ASSUME Init PROVE TypeOK
    OBVIOUS
  <1>1. places.cmdline \in Line
    BY PlacesAssumption DEF Init
  <1> QED
    BY <1>1, VarsAssumption, OutcomeType DEF Init, TypeOK

LEMMA TypeStep == TypeOK /\ [Next]_vars => TypeOK'
  <1> SUFFICES ASSUME TypeOK, [Next]_vars PROVE TypeOK'
    OBVIOUS
  <1> USE DEF TypeOK
  <1>1. CASE Read
    <2>1. opts' \in Seq(Line)
      BY <1>1, PlacesType, ConcatProperties DEF Read
    <2> QED
      BY <1>1, <2>1 DEF Read
  <1>2. CASE AddLine
    <2>1. Head(opts) \in Line /\ Tail(opts) \in Seq(Line)
      BY <1>2, HeadTailProperties DEF AddLine
    <2>2. args' \in Line
      BY <1>2, <2>1, ConcatProperties DEF AddLine, Line
    <2> QED
      BY <1>2, <2>1, <2>2 DEF AddLine
  <1>3. CASE StartParsing
    BY <1>3 DEF StartParsing
  <1>4. CASE SetOption
    <2>1. args[index].var \in Vars /\ args[index].val \in Values
      BY <1>4, WordType DEF SetOption, AtWord
    <2> QED
      BY <1>4, <2>1 DEF SetOption, AtWord
  <1>5. CASE KitOption
    <2>1. args[index].kits \subseteq Kits
      BY <1>5, WordType DEF KitOption, AtWord
    <2> QED
      BY <1>5, <2>1 DEF KitOption, AtWord
  <1>6. CASE WrongOption
    BY <1>6, OutcomeType DEF WrongOption, AtWord
  <1>7. CASE FirstWord
    <2>1. args' \in Line
      BY <1>7, SubSeqProperties DEF FirstWord, AtWord, Line
    <2> QED
      BY <1>7, <2>1 DEF FirstWord, AtWord
  <1>8. CASE NoWord
    BY <1>8 DEF NoWord
  <1>9. CASE Finish \/ FinishFails
    <2>1. Settled \in [Vars -> Values]
      BY VarsAssumption DEF Settled
    <2>2. SettledKits \subseteq Kits
      BY VarsAssumption DEF SettledKits
    <2> QED
      BY <1>9, <2>1, <2>2, OutcomeType DEF Finish, FinishFails
  <1>13. CASE Define
    <2>1. defined + 1 \in 1..Len(Definitions)
      BY <1>13, DefinitionType DEF Define
    <2>2. CASE Definitions[defined + 1].kind = "set"
      BY <1>13, <2>1, <2>2, DefinitionType DEF Define
    <2>3. CASE Definitions[defined + 1].kind = "kit"
      BY <1>13, <2>1, <2>3, DefinitionType DEF Define
    <2> QED
      BY <2>1, <2>2, <2>3, DefinitionType
  <1>14. CASE SourceFails \/ Sourced
    BY <1>14, OutcomeType DEF SourceFails, Sourced
  <1>10. CASE CallCommand
    <2>1. args[1].name \in Names
      BY <1>10, VarsAssumption DEF CallCommand
    <2> QED
      BY <1>10, <2>1 DEF CallCommand
  <1>11. CASE NoCommand \/ NotFound
    BY <1>11, OutcomeType DEF NoCommand, NotFound
  <1>12. CASE Stopped \/ UNCHANGED vars
    BY <1>12 DEF Stopped, vars
  <1> QED
    BY <1>1, <1>2, <1>3, <1>4, <1>5, <1>6, <1>7, <1>8, <1>9, <1>10, <1>11, <1>12,
       <1>13, <1>14
    DEF Next, Step

-----------------------------------------------------------------------------
(* Lines go in front.                                                       *)

\* Where the elements of two sequences are after their concatenation.
LEMMA InFrontOf ==
  ASSUME NEW S, NEW s \in Seq(S), NEW rest \in Seq(S)
  PROVE  /\ s \o rest \in Seq(S)
         /\ Len(s \o rest) = Len(s) + Len(rest)
         /\ \A j \in 1..Len(s) : (s \o rest)[j] = s[j]
         /\ \A j \in 1..Len(rest) : (s \o rest)[Len(s) + j] = rest[j]
  <1>1. /\ s \o rest \in Seq(S)
        /\ Len(s \o rest) = Len(s) + Len(rest)
        /\ \A i \in 1..(Len(s) + Len(rest)) :
             (s \o rest)[i] = IF i <= Len(s) THEN s[i] ELSE rest[i - Len(s)]
    BY ConcatProperties
  <1>2. Len(s) \in Nat /\ Len(rest) \in Nat
    OBVIOUS
  <1>3. ASSUME NEW j \in 1..Len(rest)
        PROVE  (s \o rest)[Len(s) + j] = rest[j]
    <2>1. Len(s) + j \in 1..(Len(s) + Len(rest)) /\ ~(Len(s) + j <= Len(s))
      BY <1>2
    <2>2. (Len(s) + j) - Len(s) = j
      BY <1>2
    <2> QED
      BY <1>1, <2>1, <2>2
  <1> QED
    BY <1>1, <1>2, <1>3

\* What AddLine does to the parts of args that the invariant speaks about.
LEMMA AddLineShifts ==
  ASSUME TypeOK, IsSuffix, AddLine
  PROVE  /\ Head(opts) \in Seq(Word)
         /\ Front \in Nat
         /\ Front' = Len(Head(opts)) + Front
         /\ IsSuffix'
         /\ \A j \in 1..Len(Head(opts)) : args'[j] = Head(opts)[j]
         /\ \A j \in 1..Front : args'[Len(Head(opts)) + j] = args[j]
  <1> DEFINE line == Head(opts)
  <1>1. line \in Seq(Word) /\ args \in Seq(Word) /\ places.cmdline \in Seq(Word)
    BY PlacesType, HeadTailProperties DEF TypeOK, AddLine, Line
  <1>2. /\ Len(line) \in Nat /\ Len(args) \in Nat /\ Len(places.cmdline) \in Nat
        /\ places' = places /\ args' = line \o args
    BY <1>1 DEF AddLine
  <1>3. /\ Len(args') = Len(line) + Len(args)
        /\ \A j \in 1..Len(line) : args'[j] = line[j]
        /\ \A j \in 1..Len(args) : args'[Len(line) + j] = args[j]
    BY <1>1, <1>2, InFrontOf
  <1> HIDE DEF line
  <1>4. Front \in Nat /\ Front' = Len(line) + Front
    BY <1>2, <1>3 DEF Front, IsSuffix
  <1>5. \A j \in 1..Front : args'[Len(line) + j] = args[j]
    BY <1>2, <1>3, <1>4 DEF Front, IsSuffix
  <1>6. ASSUME NEW j \in 1..Len(places.cmdline)
        PROVE  args'[Front' + j] = places.cmdline[j]
    <2>1. Front + j \in 1..Len(args) /\ Front' + j = Len(line) + (Front + j)
      BY <1>2, <1>4 DEF Front
    <2>2. args[Front + j] = places.cmdline[j]
      BY DEF IsSuffix
    <2> QED
      BY <1>3, <2>1, <2>2
  <1>7. IsSuffix'
    <2>1. Len(places'.cmdline) <= Len(args')
      BY <1>2, <1>3 DEF IsSuffix
    <2> QED
      BY <1>2, <1>6, <2>1 DEF IsSuffix
  <1> QED
    BY <1>1, <1>3, <1>4, <1>5, <1>7 DEF line

\* Before the build directory is made no definition has been evaluated.
LEMMA NoneDefined ==
  ASSUME TypeOK, made = "no", defined = 0
  PROVE  /\ defined <= Len(Definitions)
         /\ \A v : ~Defines(v)
         /\ \A j \in 1..defined : Definitions[j].kind # "kit"
  <1>1. Len(Definitions) \in Nat /\ 1..defined = {}
    BY DefinitionType
  <1> QED
    BY <1>1 DEF Defines

NoneYet == TypeOK /\ made = "no" /\ defined = 0 =>
             defined <= Len(Definitions) /\ \A v : ~Defines(v)

LEMMA NoneYetHolds == NoneYet
  BY NoneDefined DEF NoneYet

LEMMA NoneYetNext == NoneYet'
  BY NoneYetHolds, PTL

-----------------------------------------------------------------------------
(* Collecting the lines.                                                    *)

LEMMA InitInv == Init => IInv
  <1> SUFFICES ASSUME Init PROVE IInv
    OBVIOUS
  <1>1. TypeOK
    BY TypeInit
  <1>2. pc = "read" /\ args = places.cmdline /\ index = 1 /\ made = "no" /\ defined = 0
    BY DEF Init
  <1>3. IsSuffix
    <2>1. Len(args) \in Nat
      BY <1>1 DEF TypeOK, Line
    <2> QED
      BY <1>2, <2>1 DEF IsSuffix, Front
  <1> QED
    BY <1>1, <1>2, <1>3, NoneDefined
    DEF IInv, Collecting, OnlyOptions, CommandLineWins, WrongOptionFirst, Configured

\* The lines of the two files and of KBSRC are all in myOpts.
LEMMA ReadInv == IInv /\ Read => IInv'
  <1> SUFFICES ASSUME IInv, Read PROVE IInv'
    OBVIOUS
  <1>1. TypeOK'
    BY TypeStep DEF IInv, Next, Step
  <1>2. /\ pc = "read" /\ pc' = "add" /\ args' = args /\ places' = places
        /\ index' = index /\ made' = made /\ defined' = defined /\ args = places.cmdline
        /\ made = "no" /\ defined = 0
        /\ opts' = places.home \o places.local \o places.env
    BY DEF Read, IInv, Collecting
  <1>3. /\ places.home \in Seq(Line) /\ places.local \in Seq(Line) /\ places.env \in Seq(Line)
        /\ args \in Seq(Word)
    BY PlacesType DEF IInv, TypeOK, Line
  <1> DEFINE h == places.home  l == places.local  e == places.env
  <1>4. /\ h \in Seq(Line) /\ l \in Seq(Line) /\ e \in Seq(Line) /\ h \o l \in Seq(Line)
        /\ Len(h) \in Nat /\ Len(l) \in Nat /\ Len(e) \in Nat
    BY <1>3, ConcatProperties
  <1> HIDE DEF h, l, e
  <1>5. /\ Len(h \o l) = Len(h) + Len(l)
        /\ \A i \in 1..Len(h) : (h \o l)[i] = h[i]
        /\ \A i \in 1..Len(l) : (h \o l)[Len(h) + i] = l[i]
    BY <1>4, InFrontOf
  <1>6. /\ Len(h \o l \o e) = Len(h \o l) + Len(e)
        /\ \A i \in 1..Len(h \o l) : (h \o l \o e)[i] = (h \o l)[i]
        /\ \A i \in 1..Len(e) : (h \o l \o e)[Len(h \o l) + i] = e[i]
    BY <1>4, InFrontOf
  <1>7. \A lines \in {h, l, e} : \A i \in 1..Len(lines) :
          \E k \in 1..Len(opts') : opts'[k] = lines[i]
    <2>1. opts' = h \o l \o e
      BY <1>2 DEF h, l, e
    <2>2. ASSUME NEW i \in 1..Len(h) PROVE \E k \in 1..Len(opts') : opts'[k] = h[i]
      <3>1. i \in 1..Len(h \o l) /\ i \in 1..Len(h \o l \o e)
        BY <1>4, <1>5, <1>6
      <3> QED
        BY <1>5, <1>6, <2>1, <3>1
    <2>3. ASSUME NEW i \in 1..Len(l) PROVE \E k \in 1..Len(opts') : opts'[k] = l[i]
      <3>1. Len(h) + i \in 1..Len(h \o l) /\ Len(h) + i \in 1..Len(h \o l \o e)
        BY <1>4, <1>5, <1>6
      <3> QED
        BY <1>5, <1>6, <2>1, <3>1
    <2>4. ASSUME NEW i \in 1..Len(e) PROVE \E k \in 1..Len(opts') : opts'[k] = e[i]
      <3>1. Len(h \o l) + i \in 1..Len(h \o l \o e)
        BY <1>4, <1>5, <1>6
      <3> QED
        BY <1>6, <2>1, <3>1
    <2> QED
      BY <2>2, <2>3, <2>4
  <1>8. Kept'
    <2>1. SUFFICES ASSUME NEW lines \in {h, l, e}, NEW i \in 1..Len(lines),
                          NEW j \in 1..Len(lines[i])
                   PROVE  InOpts(lines[i][j])'
      BY <1>2 DEF Kept, h, l, e
    <2>2. PICK k \in 1..Len(opts') : opts'[k] = lines[i]
      BY <1>7
    <2> QED
      BY <2>2 DEF InOpts
  <1>9. OnlyOptionsInPlaces => OptionsOnly(opts')
    <2>1. SUFFICES ASSUME OnlyOptionsInPlaces, NEW k \in 1..Len(opts')
                   PROVE  NoWords(opts'[k])
      BY DEF OptionsOnly
    <2>2. opts' = h \o l \o e
      BY <1>2 DEF h, l, e
    <2>3. CASE k <= Len(h)
      <3>1. k \in 1..Len(h) /\ k \in 1..Len(h \o l)
        BY <1>4, <1>5, <2>3
      <3> QED
        BY <1>5, <1>6, <2>1, <2>2, <3>1 DEF OnlyOptionsInPlaces, OptionsOnly, h
    <2>4. CASE k > Len(h) /\ k <= Len(h) + Len(l)
      <3>1. /\ k - Len(h) \in 1..Len(l) /\ Len(h) + (k - Len(h)) = k
            /\ k \in 1..Len(h \o l)
        BY <1>4, <1>5, <2>4
      <3> QED
        BY <1>5, <1>6, <2>1, <2>2, <3>1 DEF OnlyOptionsInPlaces, OptionsOnly, l
    <2>5. CASE k > Len(h) + Len(l)
      <3>1. /\ k - Len(h \o l) \in 1..Len(e) /\ Len(h \o l) + (k - Len(h \o l)) = k
        BY <1>4, <1>5, <1>6, <2>2, <2>5
      <3> QED
        BY <1>6, <2>1, <2>2, <3>1 DEF OnlyOptionsInPlaces, OptionsOnly, e
    <2> QED
      BY <1>4, <2>3, <2>4, <2>5
  <1>10. IsSuffix' /\ Front' = 0
    <2>1. Len(args) \in Nat
      BY <1>3
    <2> QED
      BY <1>2, <2>1 DEF IsSuffix, Front
  <1>11. Collecting'
    BY <1>2, <1>8, <1>10 DEF Collecting, IInv
  <1>12. OnlyOptions'
    BY <1>2, <1>9, <1>10 DEF OnlyOptions, OnlyOptionsInPlaces
  <1>13. ~Configured'
    BY <1>2 DEF Configured, IInv, Collecting
  <1>14. (defined <= Len(Definitions))'
    BY <1>1, <1>2, NoneYetNext DEF NoneYet
  <1> QED
    BY <1>1, <1>2, <1>11, <1>12, <1>13, <1>14 DEF IInv, CommandLineWins, WrongOptionFirst

LEMMA AddLineInv == IInv /\ AddLine => IInv'
  <1> SUFFICES ASSUME IInv, AddLine PROVE IInv'
    OBVIOUS
  <1> DEFINE line == Head(opts)
  <1>1. TypeOK'
    BY TypeStep DEF IInv, Next, Step
  <1>2. /\ pc = "add" /\ pc' = "add" /\ places' = places /\ index' = index /\ index = 1
        /\ made' = made /\ made = "no" /\ defined' = defined /\ defined = 0
        /\ opts # <<>> /\ opts' = Tail(opts)
    BY DEF AddLine, IInv, Collecting
  <1>3. /\ line \in Seq(Word)
        /\ Front \in Nat
        /\ Front' = Len(line) + Front
        /\ IsSuffix'
        /\ \A j \in 1..Len(line) : args'[j] = line[j]
        /\ \A j \in 1..Front : args'[Len(line) + j] = args[j]
    <2>1. TypeOK /\ IsSuffix
      BY <1>2 DEF IInv, Collecting
    <2> QED
      BY <2>1, AddLineShifts
  <1>4. /\ Len(line) \in Nat
        /\ line = opts[1]
        /\ Len(opts) \in Nat \ {0}
        /\ Len(Tail(opts)) = Len(opts) - 1
        /\ \A i \in 1..Len(Tail(opts)) : Tail(opts)[i] = opts[i + 1]
    BY <1>2, <1>3, HeadTailProperties, EmptySeq DEF IInv, TypeOK
  <1> HIDE DEF line
  <1>5. ASSUME NEW w, InOpts(w) PROVE InOpts(w)' \/ InFront(w)'
    <2>1. PICK i \in 1..Len(opts) : \E j \in 1..Len(opts[i]) : opts[i][j] = w
      BY <1>5 DEF InOpts
    <2>2. PICK j \in 1..Len(opts[i]) : opts[i][j] = w
      BY <2>1
    <2>3. CASE i = 1
      <3>1. j \in 1..Len(line) /\ line[j] = w
        BY <1>4, <2>2, <2>3
      <3>2. j \in 1..Front' /\ args'[j] = w
        BY <1>3, <1>4, <3>1
      <3> QED
        BY <3>2 DEF InFront
    <2>4. CASE i # 1
      <3>1. /\ i - 1 \in 1..Len(Tail(opts))
            /\ Tail(opts)[i - 1] = opts[(i - 1) + 1]
            /\ (i - 1) + 1 = i
        BY <1>4, <2>4
      <3>2. opts'[i - 1] = opts[i] /\ i - 1 \in 1..Len(opts')
        BY <1>2, <3>1
      <3> QED
        BY <2>2, <3>2 DEF InOpts
    <2> QED
      BY <2>3, <2>4
  <1>6. ASSUME NEW w, InFront(w) PROVE InFront(w)'
    <2>1. PICK j \in 1..Front : args[j] = w
      BY <1>6 DEF InFront
    <2>2. Len(line) + j \in 1..Front' /\ args'[Len(line) + j] = w
      BY <1>3, <1>4, <2>1
    <2> QED
      BY <2>2 DEF InFront
  <1>7. Kept'
    <2>1. Kept
      BY <1>2 DEF IInv, Collecting
    <2>2. SUFFICES ASSUME NEW lines \in {places.home, places.local, places.env},
                          NEW i \in 1..Len(lines), NEW j \in 1..Len(lines[i])
                   PROVE  InOpts(lines[i][j])' \/ InFront(lines[i][j])'
      BY <1>2 DEF Kept
    <2>3. InOpts(lines[i][j]) \/ InFront(lines[i][j])
      BY <2>1 DEF Kept
    <2> QED
      BY <1>5, <1>6, <2>3
  <1>8. Collecting'
    BY <1>2, <1>3, <1>7 DEF Collecting
  <1>9. ASSUME OnlyOptionsInPlaces
        PROVE  /\ OptionsOnly(opts')
               /\ \A j \in 1..Front' : args'[j].kind # "word"
    <2>1. OptionsOnly(opts) /\ \A j \in 1..Front : args[j].kind # "word"
      BY <1>2, <1>9 DEF IInv, OnlyOptions
    <2>2. OptionsOnly(opts')
      <3>1. \A i \in 1..Len(Tail(opts)) : i + 1 \in 1..Len(opts)
        BY <1>4
      <3> QED
        BY <1>2, <1>4, <2>1, <3>1 DEF OptionsOnly
    <2>3. ASSUME NEW j \in 1..Front' PROVE args'[j].kind # "word"
      <3>1. CASE j <= Len(line)
        <4>1. NoWords(line) /\ 1 \in 1..Len(opts)
          BY <1>4, <2>1 DEF OptionsOnly
        <4>2. j \in 1..Len(line)
          BY <1>4, <3>1
        <4> QED
          BY <1>3, <4>1, <4>2 DEF NoWords
      <3>2. CASE j > Len(line)
        <4>1. j - Len(line) \in 1..Front /\ Len(line) + (j - Len(line)) = j
          BY <1>3, <1>4, <3>2
        <4> QED
          BY <1>3, <2>1, <4>1
      <3> QED
        BY <1>3, <1>4, <3>1, <3>2
    <2> QED
      BY <2>2, <2>3
  <1>10. OnlyOptions'
    BY <1>2, <1>9 DEF OnlyOptions, OnlyOptionsInPlaces
  <1>11. ~Configured'
    BY <1>2 DEF Configured
  <1>12. (defined <= Len(Definitions))'
    BY <1>1, <1>2, NoneYetNext DEF NoneYet
  <1> QED
    BY <1>1, <1>2, <1>8, <1>10, <1>11, <1>12 DEF IInv, CommandLineWins, WrongOptionFirst

\* What depends on these variables only.
LEMMA SameWords ==
  ASSUME UNCHANGED <<places, opts, args>>
  PROVE  /\ Front' = Front
         /\ IsSuffix => IsSuffix'
         /\ Kept => Kept'
  <1>1. places' = places /\ opts' = opts /\ args' = args
    OBVIOUS
  <1>2. Front' = Front
    BY <1>1 DEF Front
  <1>3. IsSuffix => IsSuffix'
    BY <1>1, <1>2 DEF IsSuffix
  <1>4. Kept => Kept'
    <2>1. SUFFICES ASSUME Kept,
                          NEW lines \in {places.home, places.local, places.env},
                          NEW i \in 1..Len(lines), NEW j \in 1..Len(lines[i])
                   PROVE  InOpts(lines[i][j])' \/ InFront(lines[i][j])'
      BY <1>1 DEF Kept
    <2>2. InOpts(lines[i][j]) \/ InFront(lines[i][j])
      BY <2>1 DEF Kept
    <2>3. InOpts(lines[i][j]) => InOpts(lines[i][j])'
      BY <1>1 DEF InOpts
    <2>4. InFront(lines[i][j]) => InFront(lines[i][j])'
      BY <1>1, <1>2 DEF InFront
    <2> QED
      BY <2>2, <2>3, <2>4
  <1> QED
    BY <1>2, <1>3, <1>4

LEMMA StartParsingInv == IInv /\ StartParsing => IInv'
  <1> SUFFICES ASSUME IInv, StartParsing PROVE IInv'
    OBVIOUS
  <1>1. TypeOK'
    BY TypeStep DEF IInv, Next, Step
  <1>2. /\ pc = "add" /\ pc' = "parse" /\ opts = <<>> /\ index = 1 /\ made = "no"
        /\ defined = 0
        /\ <<places, opts, args, index, val, kit, made, defined>>'
             = <<places, opts, args, index, val, kit, made, defined>>
    BY DEF StartParsing, IInv, Collecting
  <1>3. IsSuffix' /\ Kept' /\ Front' = Front
    BY <1>2, SameWords DEF IInv, Collecting
  <1>4. Evaluated'
    <2>1. index' - 1 = 0 /\ Len(args) \in Nat /\ 1..0 = {}
      BY <1>2 DEF IInv, TypeOK, Line
    <2> QED
      BY <1>2, <2>1 DEF Evaluated, SetsLast
  <1>5. Collecting' /\ OnlyOptions'
    BY <1>2, <1>3 DEF IInv, Collecting, OnlyOptions, OnlyOptionsInPlaces
  <1>6. ~Configured'
    BY <1>2 DEF Configured
  <1>7. (defined <= Len(Definitions))'
    BY <1>1, <1>2, NoneYetNext DEF NoneYet
  <1> QED
    BY <1>1, <1>4, <1>5, <1>6, <1>7 DEF IInv, CommandLineWins, WrongOptionFirst

-----------------------------------------------------------------------------
(* Evaluating the options.                                                  *)

LEMMA OptionInv == IInv /\ (SetOption \/ KitOption) => IInv'
  <1> SUFFICES ASSUME IInv, SetOption \/ KitOption PROVE IInv'
    OBVIOUS
  <1>1. TypeOK'
    BY TypeStep DEF IInv, Next, Step
  <1>2. /\ pc = "parse" /\ pc' = "parse" /\ made = "no" /\ index' = index + 1
        /\ index \in 1..Len(args)
        /\ <<places, opts, args, made, defined>>' = <<places, opts, args, made, defined>>
        /\ args[index].kind \in {"set", "kit"} /\ defined = 0
    BY DEF SetOption, KitOption, AtWord, IInv, Collecting
  <1>3. IsSuffix' /\ Kept' /\ Front' = Front
    BY <1>2, SameWords DEF IInv, Collecting
  <1>4. index \in Nat \ {0} /\ Len(args) \in Nat /\ index' - 1 = index /\ Evaluated
    BY <1>2 DEF IInv, TypeOK, Line
  <1>5. ASSUME NEW v \in Vars, NEW x \in Values, SetsLast(args, index, v, x)
        PROVE  val'[v] = x
    <2>1. PICK j \in 1..index : /\ Sets(args[j], v)
                                /\ args[j].val = x
                                /\ \A k \in (j+1)..index : ~Sets(args[k], v)
      BY <1>5 DEF SetsLast
    <2>2. CASE j = index
      <3>1. SetOption /\ args[index].var = v
        BY <2>1, <2>2 DEF KitOption, AtWord, Sets
      <3> QED
        BY <2>1, <2>2, <3>1 DEF SetOption, IInv, TypeOK
    <2>3. CASE j # index
      <3>1. j \in 1..(index - 1) /\ index \in (j+1)..index
        BY <1>4, <2>3
      <3>2. \A k \in (j+1)..(index - 1) : k \in (j+1)..index
        BY <1>4
      <3>3. SetsLast(args, index - 1, v, x)
        BY <2>1, <3>1, <3>2 DEF SetsLast
      <3>4. val[v] = x
        BY <1>4, <3>3 DEF Evaluated
      <3>5. ~Sets(args[index], v)
        BY <2>1, <3>1
      <3> QED
        BY <3>4, <3>5 DEF SetOption, KitOption, AtWord, Sets, IInv, TypeOK
    <2> QED
      BY <2>2, <2>3
  <1>6. Evaluated'
    <2>1. index' <= Len(args') + 1
      BY <1>2, <1>4
    <2>2. ASSUME NEW j \in 1..index PROVE args'[j].kind \notin {"word", "dash"}
      <3>1. j = index \/ j \in 1..(index - 1)
        BY <1>4
      <3> QED
        BY <1>2, <1>4, <3>1 DEF Evaluated
    <2> QED
      BY <1>2, <1>4, <1>5, <2>1, <2>2 DEF Evaluated
  <1>7. Collecting' /\ OnlyOptions'
    BY <1>2, <1>3 DEF IInv, Collecting, OnlyOptions, OnlyOptionsInPlaces
  <1>8. ~Configured'
    BY <1>2 DEF Configured
  <1>9. (defined <= Len(Definitions))'
    BY <1>1, <1>2, NoneYetNext DEF NoneYet
  <1> QED
    BY <1>1, <1>6, <1>7, <1>8, <1>9 DEF IInv, CommandLineWins, WrongOptionFirst

LEMMA WrongOptionInv == IInv /\ WrongOption => IInv'
  <1> SUFFICES ASSUME IInv, WrongOption PROVE IInv'
    OBVIOUS
  <1>1. TypeOK'
    BY TypeStep DEF IInv, Next, Step
  <1>2. pc' = "exit" /\ made' = "no" /\ defined' = 0
    BY DEF WrongOption, AtWord, IInv, Collecting
  <1>3. (defined <= Len(Definitions))'
    BY <1>1, <1>2, NoneYetNext DEF NoneYet
  <1> QED
    BY <1>1, <1>2, <1>3
    DEF IInv, Collecting, OnlyOptions, CommandLineWins, WrongOptionFirst, Configured

\* When the loop ends it has evaluated the options of the command line, all
\* of them and nothing behind them.
LEMMA LoopEnds ==
  ASSUME IInv, OnlyOptionsInPlaces, FirstWord \/ NoWord,
         NEW n \in 0..Len(places.cmdline), OptionsEnd(places.cmdline, n)
  PROVE  /\ index - 1 = Front + n
         /\ Front \in Nat
  <1> DEFINE m == index - 1 - Front
  <1>1. /\ IsSuffix /\ Evaluated /\ Len(args) \in Nat /\ Len(places.cmdline) \in Nat
        /\ index \in Nat \ {0}
        /\ \A j \in 1..Front : args[j].kind # "word"
    <2>1. pc = "parse" /\ TypeOK
      BY DEF IInv, FirstWord, NoWord, AtWord
    <2>2. IsSuffix /\ Evaluated /\ \A j \in 1..Front : args[j].kind # "word"
      BY <2>1 DEF IInv, Collecting, OnlyOptions
    <2>3. index \in Nat \ {0} /\ args \in Seq(Word) /\ places.cmdline \in Seq(Word)
      BY <2>1, PlacesType DEF TypeOK, Line
    <2> QED
      BY <2>2, <2>3
  <1>2. Front \in Nat /\ Front + Len(places.cmdline) = Len(args)
    BY <1>1 DEF Front, IsSuffix
  <1>3. index <= Len(args) => args[index].kind = "word"
    BY <1>1 DEF FirstWord, NoWord, AtWord
  <1>4. m \in 0..Len(places.cmdline)
    BY <1>1, <1>2, <1>3 DEF Evaluated
  <1>5. ~(n < m)
    <2>1. SUFFICES ASSUME n < m PROVE FALSE
      OBVIOUS
    <2>2. n + 1 \in 1..Len(places.cmdline) /\ n < Len(places.cmdline)
      BY <1>1, <1>4, <2>1
    <2>3. args[Front + (n + 1)].kind = "word"
      BY <1>1, <2>2 DEF IsSuffix, OptionsEnd
    <2>4. Front + (n + 1) \in 1..(index - 1)
      BY <1>1, <1>2, <2>1
    <2> QED
      BY <1>1, <2>3, <2>4 DEF Evaluated
  <1>6. ~(m < n)
    <2>1. SUFFICES ASSUME m < n PROVE FALSE
      OBVIOUS
    <2>2. m + 1 \in 1..n /\ m + 1 \in 1..Len(places.cmdline) /\ Front + (m + 1) = index
      BY <1>1, <1>2, <1>4, <2>1
    <2>3. index <= Len(args)
      BY <1>1, <1>2, <2>2
    <2>4. args[index] = places.cmdline[m + 1]
      BY <1>1, <2>2 DEF IsSuffix
    <2> QED
      BY <1>3, <2>2, <2>3, <2>4 DEF OptionsEnd
  <1> QED
    BY <1>1, <1>2, <1>4, <1>5, <1>6

LEMMA LoopEndsInv == IInv /\ (FirstWord \/ NoWord) => IInv'
  <1> SUFFICES ASSUME IInv, FirstWord \/ NoWord PROVE IInv'
    OBVIOUS
  <1>1. TypeOK'
    BY TypeStep DEF IInv, Next, Step
  <1>2. /\ pc = "parse" /\ pc' = "finish" /\ made = "no" /\ opts = <<>> /\ defined = 0
        /\ <<places, val, made, defined>>' = <<places, val, made, defined>>
        /\ IsSuffix /\ Kept /\ Evaluated
    BY DEF FirstWord, NoWord, AtWord, IInv, Collecting
  <1>3. /\ Len(places.cmdline) \in Nat /\ Len(args) \in Nat /\ index \in Nat \ {0}
    BY PlacesType DEF IInv, TypeOK, Line
  <1>4. CommandLineWins'
    <2>1. SUFFICES ASSUME OnlyOptionsInPlaces,
                          NEW n \in 0..Len(places.cmdline), NEW v \in Vars, NEW x \in Values,
                          OptionsEnd(places.cmdline, n), SetsLast(places.cmdline, n, v, x)
                   PROVE  val[v] = x
      <3>1. \A v \in Vars : ~Defines(v)'
        BY <1>1, <1>2, NoneYetNext DEF NoneYet
      <3> QED
        BY <1>2, <3>1 DEF CommandLineWins, OnlyOptionsInPlaces
    <2>2. index - 1 = Front + n /\ Front \in Nat
      BY <2>1, LoopEnds
    <2>3. PICK j \in 1..n : /\ Sets(places.cmdline[j], v)
                            /\ places.cmdline[j].val = x
                            /\ \A k \in (j+1)..n : ~Sets(places.cmdline[k], v)
      BY <2>1 DEF SetsLast
    <2>4. Front + j \in 1..(index - 1) /\ args[Front + j] = places.cmdline[j]
      BY <1>2, <1>3, <2>2 DEF IsSuffix
    <2>5. ASSUME NEW k \in (Front + j + 1)..(index - 1) PROVE ~Sets(args[k], v)
      <3>1. k - Front \in (j+1)..n /\ k - Front \in 1..Len(places.cmdline) /\ Front + (k - Front) = k
        BY <1>3, <2>2
      <3>2. args[k] = places.cmdline[k - Front]
        BY <1>2, <3>1 DEF IsSuffix
      <3> QED
        BY <2>3, <3>1, <3>2
    <2>6. SetsLast(args, index - 1, v, x)
      BY <2>3, <2>4, <2>5 DEF SetsLast
    <2> QED
      BY <1>2, <2>6 DEF Evaluated
  <1>5. WrongOptionFirst'
    <2>1. SUFFICES ASSUME OnlyOptionsInPlaces
                   PROVE  /\ \A n \in 0..Len(places.cmdline) :
                               OptionsEnd(places.cmdline, n) =>
                                 \A j \in 1..n : places.cmdline[j].kind # "dash"
                          /\ \A lines \in {places.home, places.local, places.env} :
                               \A i \in 1..Len(lines) : \A j \in 1..Len(lines[i]) :
                                 lines[i][j].kind # "dash"
      BY <1>2 DEF WrongOptionFirst, OnlyOptionsInPlaces
    <2>2. ASSUME NEW n \in 0..Len(places.cmdline), OptionsEnd(places.cmdline, n),
                 NEW j \in 1..n
          PROVE  places.cmdline[j].kind # "dash"
      <3>1. index - 1 = Front + n /\ Front \in Nat
        BY <2>1, <2>2, LoopEnds
      <3>2. Front + j \in 1..(index - 1) /\ args[Front + j] = places.cmdline[j]
        BY <1>2, <1>3, <3>1 DEF IsSuffix
      <3> QED
        BY <1>2, <3>2 DEF Evaluated
    <2>3. Front \in Nat /\ Front <= index - 1
      <3>1. Front \in Nat /\ Front + Len(places.cmdline) = Len(args)
        BY <1>2, <1>3 DEF Front, IsSuffix
      <3>2. CASE NoWord
        BY <1>3, <3>1, <3>2 DEF NoWord
      <3>3. CASE FirstWord
        <4>1. args[index].kind = "word" /\ \A j \in 1..Front : args[j].kind # "word"
          BY <2>1, <3>3 DEF FirstWord, AtWord, IInv, OnlyOptions
        <4> QED
          BY <1>3, <3>1, <4>1
      <3> QED
        BY <3>2, <3>3
    <2>4. ASSUME NEW lines \in {places.home, places.local, places.env},
                 NEW i \in 1..Len(lines), NEW j \in 1..Len(lines[i])
          PROVE  lines[i][j].kind # "dash"
      <3>1. InFront(lines[i][j])
        BY <1>2, EmptySeq DEF Kept, InOpts
      <3>2. PICK k \in 1..Front : args[k] = lines[i][j]
        BY <3>1 DEF InFront
      <3>3. k \in 1..(index - 1)
        BY <1>3, <2>3
      <3> QED
        BY <1>2, <3>2, <3>3 DEF Evaluated
    <2> QED
      BY <2>2, <2>4
  <1>6. (defined <= Len(Definitions))'
    BY <1>1, <1>2, NoneYetNext DEF NoneYet
  <1> QED
    BY <1>1, <1>2, <1>4, <1>5, <1>6 DEF IInv, Collecting, OnlyOptions

-----------------------------------------------------------------------------
(* Behind the loop.                                                         *)

LEMMA FinishInv == IInv /\ (Finish \/ FinishFails) => IInv'
  <1> SUFFICES ASSUME IInv, Finish \/ FinishFails PROVE IInv'
    OBVIOUS
  <1>1. TypeOK'
    BY TypeStep DEF IInv, Next, Step
  <1>2. /\ pc = "finish" /\ places' = places /\ val' = Settled
        /\ \/ pc' = "source" /\ made' = "yes"
           \/ pc' = "exit" /\ made' = "partly"
        /\ made = "no" /\ defined = 0 /\ defined' = 0
    BY DEF Finish, FinishFails, IInv, Collecting
  <1>3. Configured /\ Configured' /\ (OnlyOptionsInPlaces' <=> OnlyOptionsInPlaces)
    BY <1>2 DEF Configured, OnlyOptionsInPlaces
  <1>4. CommandLineWins'
    <2>1. SUFFICES ASSUME OnlyOptionsInPlaces, NEW n \in 0..Len(places.cmdline),
                          NEW v \in Vars \ {"builddir"}, NEW x \in Values \ {"none"},
                          OptionsEnd(places.cmdline, n), SetsLast(places.cmdline, n, v, x)
                   PROVE  val'[v] = x
      <3>1. \A v \in Vars : ~Defines(v)'
        BY <1>2 DEF Defines
      <3> QED
        BY <1>2, <1>3, <3>1 DEF CommandLineWins
    <2>2. val[v] = x
      <3>1. ~Defines(v)
        BY <1>2 DEF Defines
      <3> QED
        BY <1>3, <2>1, <3>1 DEF IInv, CommandLineWins
    <2> QED
      BY <1>2, <2>2 DEF Settled
  <1>5. WrongOptionFirst'
    BY <1>2, <1>3 DEF IInv, WrongOptionFirst
  <1>6. (defined <= Len(Definitions))'
    <2>1. (TypeOK => Len(Definitions) \in Nat)'
      BY DefinitionType, PTL
    <2> QED
      BY <1>1, <1>2, <2>1
  <1> QED
    BY <1>1, <1>2, <1>4, <1>5, <1>6 DEF IInv, Collecting, OnlyOptions

\* A definition is the last so far for what it sets, and for nothing else.
LEMMA SetsMore ==
  ASSUME NEW s, NEW n \in Nat, NEW v
  PROVE  /\ \A x : SetsLast(s, n, v, x) /\ ~Sets(s[n + 1], v) => SetsLast(s, n + 1, v, x)
         /\ Sets(s[n + 1], v) => SetsLast(s, n + 1, v, s[n + 1].val)
  <1>1. ASSUME NEW x, SetsLast(s, n, v, x), ~Sets(s[n + 1], v)
        PROVE  SetsLast(s, n + 1, v, x)
    <2>1. PICK j \in 1..n : Sets(s[j], v) /\ s[j].val = x /\ \A k \in (j+1)..n : ~Sets(s[k], v)
      BY <1>1 DEF SetsLast
    <2>2. j \in 1..(n + 1) /\ \A k \in (j+1)..(n + 1) : k \in (j+1)..n \/ k = n + 1
      OBVIOUS
    <2> QED
      BY <1>1, <2>1, <2>2 DEF SetsLast
  <1>2. ASSUME Sets(s[n + 1], v)
        PROVE  SetsLast(s, n + 1, v, s[n + 1].val)
    <2>1. n + 1 \in 1..(n + 1) /\ ((n + 1) + 1)..(n + 1) = {}
      OBVIOUS
    <2> QED
      BY <1>2, <2>1 DEF SetsLast
  <1> QED
    BY <1>1, <1>2

\* What a definition changes.
LEMMA Defining ==
  ASSUME TypeOK, Define
  PROVE  /\ pc = "source" /\ pc' = "source" /\ defined' = defined + 1
         /\ <<places, opts, args, index, made>>' = <<places, opts, args, index, made>>
         /\ defined \in Nat /\ defined + 1 \in 1..Len(Definitions)
         /\ Definitions' = Definitions
         /\ \A v \in Vars : val'[v] = IF Sets(Definitions[defined + 1], v)
                                     THEN Definitions[defined + 1].val ELSE val[v]
         /\ kit' = IF Definitions[defined + 1].kind = "kit"
                    THEN Definitions[defined + 1].kits ELSE kit
  <1> DEFINE d == Definitions[defined + 1]
  <1>1. /\ pc = "source" /\ pc' = "source" /\ defined' = defined + 1
        /\ <<places, opts, args, index, made>>' = <<places, opts, args, index, made>>
        /\ \/ d.kind = "set" /\ val' = [val EXCEPT ![d.var] = d.val] /\ kit' = kit
           \/ d.kind = "kit" /\ kit' = d.kits /\ val' = val
    BY DEF Define
  <1>2. defined \in Nat /\ defined + 1 \in 1..Len(Definitions)
    BY DefinitionType DEF Define, TypeOK
  <1>3. d.kind = "set" => d.var \in Vars \ {"pkgfile"}
    BY <1>2, DefinitionType
  <1> HIDE DEF d
  <1>4. \A v \in Vars : val'[v] = IF Sets(d, v) THEN d.val ELSE val[v]
    BY <1>1, <1>3 DEF Sets, TypeOK
  <1>5. val'["pkgfile"] = val["pkgfile"]
    BY <1>3, <1>4, VarsAssumption DEF Sets
  <1>6. Definitions' = Definitions
    BY <1>5 DEF Definitions
  <1>7. kit' = IF d.kind = "kit" THEN d.kits ELSE kit
    BY <1>1
  <1> QED
    BY <1>1, <1>2, <1>4, <1>6, <1>7 DEF d

LEMMA DefineInv == IInv /\ Define => IInv'
  <1> SUFFICES ASSUME IInv, Define PROVE IInv'
    OBVIOUS
  <1> DEFINE d == Definitions[defined + 1]
  <1>1. TypeOK'
    BY TypeStep DEF IInv, Next, Step
  <1>2. /\ pc = "source" /\ pc' = "source" /\ defined' = defined + 1 /\ made = "yes"
        /\ <<places, opts, args, index, made>>' = <<places, opts, args, index, made>>
        /\ defined \in Nat /\ defined + 1 \in 1..Len(Definitions)
        /\ Definitions' = Definitions
        /\ \A v \in Vars : val'[v] = IF Sets(d, v) THEN d.val ELSE val[v]
    BY Defining DEF IInv, Collecting
  <1>3. Configured /\ Configured' /\ (OnlyOptionsInPlaces' <=> OnlyOptionsInPlaces)
    BY <1>2 DEF Configured, OnlyOptionsInPlaces
  <1>4. Len(Definitions) \in Nat
    BY DefinitionType DEF IInv
  <1> HIDE DEF d
  <1>5. CommandLineWins'
    <2>1. SUFFICES ASSUME OnlyOptionsInPlaces, NEW n \in 0..Len(places.cmdline),
                          NEW v \in Vars \ {"builddir"}, NEW x \in Values \ {"none"},
                          OptionsEnd(places.cmdline, n), SetsLast(places.cmdline, n, v, x)
                   PROVE  IF Defines(v)' THEN SetsLast(Definitions, defined + 1, v, val'[v])
                                         ELSE val'[v] = x
      BY <1>2, <1>3 DEF CommandLineWins
    <2>2. IF Defines(v) THEN SetsLast(Definitions, defined, v, val[v]) ELSE val[v] = x
      BY <1>3, <2>1 DEF IInv, CommandLineWins
    <2>3. Defines(v)' <=> Defines(v) \/ Sets(d, v)
      <3>1. \A j \in 1..(defined + 1) : j \in 1..defined \/ j = defined + 1
        BY <1>2
      <3>2. defined + 1 \in 1..(defined + 1) /\ \A j \in 1..defined : j \in 1..(defined + 1)
        BY <1>2
      <3> QED
        BY <1>2, <3>1, <3>2 DEF Defines, d
    <2>4. CASE Sets(d, v)
      <3>1. SetsLast(Definitions, defined + 1, v, d.val)
        BY <1>2, <2>4, SetsMore DEF d
      <3> QED
        BY <1>2, <2>3, <2>4, <3>1
    <2>5. CASE ~Sets(d, v)
      <3>1. val'[v] = val[v]
        BY <1>2, <2>5
      <3>2. SetsLast(Definitions, defined, v, val[v]) => SetsLast(Definitions, defined + 1, v, val[v])
        BY <1>2, <2>5, SetsMore DEF d
      <3> QED
        BY <2>2, <2>3, <2>5, <3>1, <3>2
    <2> QED
      BY <2>4, <2>5
  <1>6. WrongOptionFirst'
    BY <1>2, <1>3 DEF IInv, WrongOptionFirst
  <1>7. (defined <= Len(Definitions))'
    BY <1>2, <1>4
  <1> QED
    BY <1>1, <1>2, <1>5, <1>6, <1>7 DEF IInv, Collecting, OnlyOptions

LEMMA CallInv ==
  ASSUME IInv,
         \/ SourceFails \/ Sourced \/ CallCommand \/ NoCommand \/ NotFound
         \/ Stopped \/ UNCHANGED vars
  PROVE  IInv'
  <1>1. TypeOK'
    BY TypeStep DEF IInv, Next, Step
  <1>2. CASE UNCHANGED vars
    <2>1. /\ UNCHANGED <<places, pc, opts, args, index>>
          /\ UNCHANGED <<val, made, defined>>
      BY <1>2 DEF vars
    <2>2. Kept => Kept'
      BY <2>1, SameWords
    <2>3. CommandLineWins' /\ WrongOptionFirst' /\ (defined <= Len(Definitions))'
      BY <2>1
      DEF IInv, CommandLineWins, WrongOptionFirst, Configured, OnlyOptionsInPlaces,
          Definitions, Defines
    <2>4. Collecting'
      BY <2>1, <2>2 DEF IInv, Collecting, IsSuffix, Front
    <2>5. OnlyOptions' /\ (pc = "parse" => Evaluated)'
      BY <2>1 DEF IInv, OnlyOptions, OnlyOptionsInPlaces, Evaluated, Front
    <2> QED
      BY <1>1, <2>3, <2>4, <2>5 DEF IInv
  <1>3. CASE SourceFails \/ Sourced \/ CallCommand \/ NoCommand \/ NotFound
    <2>1. /\ pc \in {"source", "main"} /\ pc' \in {"main", "gui", "exit"}
          /\ <<places, val, made, defined>>' = <<places, val, made, defined>>
      BY <1>3 DEF SourceFails, Sourced, CallCommand, NoCommand, NotFound
    <2>2. CommandLineWins' /\ WrongOptionFirst' /\ (defined <= Len(Definitions))'
      BY <2>1
      DEF IInv, CommandLineWins, WrongOptionFirst, Configured, OnlyOptionsInPlaces,
          Definitions, Defines
    <2> QED
      BY <1>1, <2>1, <2>2 DEF IInv, Collecting, OnlyOptions
  <1> QED
    BY <1>2, <1>3 DEF Stopped

-----------------------------------------------------------------------------
(* The kits.                                                                *)

\* The kits that the files and KBSRC ask for.
KitsOfPlaces ==
  KitsOfLines(places.home) \cup KitsOfLines(places.local) \cup KitsOfLines(places.env)

\* None gets lost on the way into args, and each evaluated option adds its own.
KitInv ==
  /\ pc \in {"read", "add"} => kit = {}
  /\ pc = "add" => KitsOfPlaces = KitsOfLines(opts) \cup KitsOf(args, Front)
  /\ pc = "parse" => /\ KitsOfPlaces = KitsOf(args, Front)
                     /\ kit = KitsOf(args, index - 1)
  /\ pc = "finish" /\ OnlyOptionsInPlaces =>
       \A n \in 0..Len(places.cmdline) : OptionsEnd(places.cmdline, n) =>
         kit = KitsOf(places.cmdline, n) \cup KitsOfPlaces
  /\ KitsAddUp

LEMMA InKits ==
  ASSUME NEW s, NEW n, NEW k
  PROVE  k \in KitsOf(s, n) <=> \E j \in 1..n : s[j].kind = "kit" /\ k \in s[j].kits
  BY DEF KitsOf

LEMMA InKitsOfLines ==
  ASSUME NEW lines, NEW k
  PROVE  k \in KitsOfLines(lines)
           <=> \E i \in 1..Len(lines) : k \in KitsOf(lines[i], Len(lines[i]))
  BY DEF KitsOfLines

\* The kits of words that stand behind others.
LEMMA KitsBehind ==
  ASSUME NEW s, NEW t, NEW a \in Nat, NEW b \in Nat,
         \A j \in 1..b : s[a + j] = t[j]
  PROVE  KitsOf(s, a + b) = KitsOf(s, a) \cup KitsOf(t, b)
  <1>1. ASSUME NEW k, k \in KitsOf(s, a + b)
        PROVE  k \in KitsOf(s, a) \cup KitsOf(t, b)
    <2>1. PICK j \in 1..(a + b) : s[j].kind = "kit" /\ k \in s[j].kits
      BY <1>1, InKits
    <2>2. CASE j <= a
      <3>1. j \in 1..a
        BY <2>2
      <3> QED
        BY <2>1, <3>1, InKits
    <2>3. CASE j > a
      <3>1. j - a \in 1..b /\ a + (j - a) = j
        BY <2>3
      <3>2. s[j] = t[j - a]
        BY <3>1
      <3> QED
        BY <2>1, <3>1, <3>2, InKits
    <2> QED
      BY <2>2, <2>3
  <1>2. ASSUME NEW k, k \in KitsOf(s, a)
        PROVE  k \in KitsOf(s, a + b)
    <2>1. PICK j \in 1..a : s[j].kind = "kit" /\ k \in s[j].kits
      BY <1>2, InKits
    <2>2. j \in 1..(a + b)
      OBVIOUS
    <2> QED
      BY <2>1, <2>2, InKits
  <1>3. ASSUME NEW k, k \in KitsOf(t, b)
        PROVE  k \in KitsOf(s, a + b)
    <2>1. PICK j \in 1..b : t[j].kind = "kit" /\ k \in t[j].kits
      BY <1>3, InKits
    <2>2. a + j \in 1..(a + b) /\ s[a + j] = t[j]
      OBVIOUS
    <2> QED
      BY <2>1, <2>2, InKits
  <1> QED
    BY <1>1, <1>2, <1>3

LEMMA SameKits ==
  ASSUME NEW s, NEW t, NEW n, \A j \in 1..n : s[j] = t[j]
  PROVE  KitsOf(s, n) = KitsOf(t, n)
  BY DEF KitsOf

LEMMA NoKits ==
  /\ \A s : KitsOf(s, 0) = {}
  /\ KitsOfLines(<< >>) = {}
  <1>1. \A i \in 1..0 : FALSE
    OBVIOUS
  <1> QED
    BY <1>1, Zenon DEF KitsOf, KitsOfLines

LEMMA KitsOfMore ==
  ASSUME NEW x \in Seq(Line), NEW y \in Seq(Line)
  PROVE  KitsOfLines(x \o y) = KitsOfLines(x) \cup KitsOfLines(y)
  <1> DEFINE z == x \o y
  <1>1. /\ z \in Seq(Line) /\ Len(z) = Len(x) + Len(y)
        /\ \A i \in 1..Len(x) : z[i] = x[i]
        /\ \A i \in 1..Len(y) : z[Len(x) + i] = y[i]
    BY InFrontOf
  <1>2. Len(x) \in Nat /\ Len(y) \in Nat
    OBVIOUS
  <1> HIDE DEF z
  <1>3. ASSUME NEW k, k \in KitsOfLines(z)
        PROVE  k \in KitsOfLines(x) \cup KitsOfLines(y)
    <2>1. PICK i \in 1..Len(z) : k \in KitsOf(z[i], Len(z[i]))
      BY <1>3, InKitsOfLines
    <2>2. CASE i \in 1..Len(x)
      BY <1>1, <2>1, <2>2, InKitsOfLines
    <2>3. CASE i \notin 1..Len(x)
      <3>1. i - Len(x) \in 1..Len(y) /\ Len(x) + (i - Len(x)) = i
        BY <1>1, <1>2, <2>3
      <3>2. z[i] = y[i - Len(x)]
        BY <1>1, <3>1
      <3> QED
        BY <2>1, <3>1, <3>2, InKitsOfLines
    <2> QED
      BY <2>2, <2>3
  <1>4. ASSUME NEW k, k \in KitsOfLines(x)
        PROVE  k \in KitsOfLines(z)
    <2>1. PICK i \in 1..Len(x) : k \in KitsOf(x[i], Len(x[i]))
      BY <1>4, InKitsOfLines
    <2>2. i \in 1..Len(z) /\ z[i] = x[i]
      BY <1>1, <1>2
    <2> QED
      BY <2>1, <2>2, InKitsOfLines
  <1>5. ASSUME NEW k, k \in KitsOfLines(y)
        PROVE  k \in KitsOfLines(z)
    <2>1. PICK i \in 1..Len(y) : k \in KitsOf(y[i], Len(y[i]))
      BY <1>5, InKitsOfLines
    <2>2. Len(x) + i \in 1..Len(z) /\ z[Len(x) + i] = y[i]
      BY <1>1, <1>2
    <2> QED
      BY <2>1, <2>2, InKitsOfLines
  <1> QED
    BY <1>3, <1>4, <1>5 DEF z

LEMMA KitsOfFirst ==
  ASSUME NEW lines \in Seq(Line), lines # << >>
  PROVE  KitsOfLines(lines)
           = KitsOf(Head(lines), Len(Head(lines))) \cup KitsOfLines(Tail(lines))
  <1> DEFINE one == <<Head(lines)>>
  <1>1. /\ one \in Seq(Line) /\ Tail(lines) \in Seq(Line)
        /\ Len(one) = 1 /\ one[1] = Head(lines)
        /\ Head(lines) \in Line /\ lines[1] = Head(lines)
    BY HeadTailProperties
  <1>2. one \o Tail(lines) = lines
    <2>1. Len(lines) \in Nat \ {0}
      BY EmptySeq
    <2>2. one \o Tail(lines) \in Seq(Line) /\ Len(one \o Tail(lines)) = Len(lines)
      BY <1>1, <2>1
    <2>3. \A i \in 1..Len(lines) : (one \o Tail(lines))[i] = lines[i]
      BY <1>1, <2>1
    <2> QED
      BY <2>1, <2>2, <2>3, SeqEqual
  <1> HIDE DEF one
  <1>3. KitsOfLines(one) = KitsOf(Head(lines), Len(Head(lines)))
    <2>1. 1..Len(one) = {1}
      BY <1>1
    <2> QED
      BY <1>1, <2>1 DEF KitsOfLines
  <1> QED
    BY <1>1, <1>2, <1>3, KitsOfMore

LEMMA KitInit == Init => KitInv
  BY DEF Init, KitInv, KitsAddUp

\* The three places become one list.
LEMMA KitRead == IInv /\ KitInv /\ Read => KitInv'
  <1> SUFFICES ASSUME IInv, KitInv, Read PROVE KitInv'
    OBVIOUS
  <1>1. /\ pc = "read" /\ pc' = "add" /\ args = places.cmdline /\ kit = {} /\ made = "no"
        /\ opts' = places.home \o places.local \o places.env
        /\ <<places, args, kit, made>>' = <<places, args, kit, made>>
    BY DEF Read, IInv, Collecting, KitInv
  <1>2. /\ places.home \in Seq(Line) /\ places.local \in Seq(Line)
        /\ places.env \in Seq(Line) /\ Len(args) \in Nat
    BY PlacesType DEF IInv, TypeOK, Line
  <1>3. places.home \o places.local \in Seq(Line)
    BY <1>2, ConcatProperties
  <1>4. KitsOfLines(opts') = KitsOfPlaces
    <2>1. KitsOfLines(places.home \o places.local)
            = KitsOfLines(places.home) \cup KitsOfLines(places.local)
      BY <1>2, KitsOfMore
    <2>2. KitsOfLines(opts')
            = KitsOfLines(places.home \o places.local) \cup KitsOfLines(places.env)
      BY <1>1, <1>2, <1>3, KitsOfMore
    <2> QED
      BY <2>1, <2>2 DEF KitsOfPlaces
  <1>5. KitsOfPlaces' = KitsOfPlaces
    BY <1>1 DEF KitsOfPlaces
  <1>6. Front' = 0
    BY <1>1, <1>2 DEF Front
  <1>7. KitsOf(args', Front') = {}
    BY <1>6, NoKits
  <1> QED
    BY <1>1, <1>4, <1>5, <1>7 DEF KitInv, KitsAddUp

\* The kits of a line go from the list to args.
LEMMA KitAddLine == IInv /\ KitInv /\ AddLine => KitInv'
  <1> SUFFICES ASSUME IInv, KitInv, AddLine PROVE KitInv'
    OBVIOUS
  <1> DEFINE line == Head(opts)
  <1>1. /\ pc = "add" /\ pc' = "add" /\ kit = {} /\ made = "no"
        /\ opts # << >> /\ opts' = Tail(opts) /\ opts \in Seq(Line)
        /\ <<places, kit, made>>' = <<places, kit, made>>
        /\ TypeOK /\ IsSuffix
        /\ KitsOfPlaces = KitsOfLines(opts) \cup KitsOf(args, Front)
    BY DEF AddLine, IInv, Collecting, KitInv, TypeOK
  <1>2. /\ line \in Seq(Word) /\ Front \in Nat /\ Front' = Len(line) + Front
        /\ \A j \in 1..Len(line) : args'[j] = line[j]
        /\ \A j \in 1..Front : args'[Len(line) + j] = args[j]
    BY <1>1, AddLineShifts
  <1>3. KitsOfLines(opts) = KitsOf(line, Len(line)) \cup KitsOfLines(opts')
    BY <1>1, KitsOfFirst
  <1> HIDE DEF line
  <1>4. KitsOf(args', Front') = KitsOf(args', Len(line)) \cup KitsOf(args, Front)
    <2>1. Len(line) \in Nat
      BY <1>2
    <2>2. KitsOf(args', Len(line) + Front)
            = KitsOf(args', Len(line)) \cup KitsOf(args, Front)
      <3>1. \A a \in Nat, b \in Nat :
              (\A j \in 1..b : args'[a + j] = args[j]) =>
                KitsOf(args', a + b) = KitsOf(args', a) \cup KitsOf(args, b)
        BY ONLY KitsBehind
      <3> QED
        BY ONLY <1>2, <2>1, <3>1
    <2> QED
      BY <1>2, <2>2
  <1>5. KitsOf(args', Len(line)) = KitsOf(line, Len(line))
    BY ONLY <1>2, SameKits
  <1>6. KitsOfPlaces' = KitsOfPlaces
    BY <1>1 DEF KitsOfPlaces
  <1> QED
    BY <1>1, <1>3, <1>4, <1>5, <1>6 DEF KitInv, KitsAddUp

LEMMA KitStartParsing == IInv /\ KitInv /\ StartParsing => KitInv'
  <1> SUFFICES ASSUME IInv, KitInv, StartParsing PROVE KitInv'
    OBVIOUS
  <1>1. /\ pc = "add" /\ pc' = "parse" /\ opts = << >> /\ index = 1 /\ made = "no"
        /\ kit = {} /\ KitsOfPlaces = KitsOfLines(opts) \cup KitsOf(args, Front)
        /\ <<places, args, index, kit, made>>' = <<places, args, index, kit, made>>
    BY DEF StartParsing, IInv, Collecting, KitInv
  <1>2. KitsOfPlaces = KitsOf(args, Front) /\ KitsOf(args, 0) = {}
    BY <1>1, NoKits
  <1>3. KitsOfPlaces' = KitsOfPlaces /\ Front' = Front /\ index' - 1 = 0
    BY <1>1 DEF KitsOfPlaces, Front
  <1> QED
    BY <1>1, <1>2, <1>3 DEF KitInv, KitsAddUp

\* An option adds what it asks for.
LEMMA KitOptions == IInv /\ KitInv /\ (SetOption \/ KitOption) => KitInv'
  <1> SUFFICES ASSUME IInv, KitInv, SetOption \/ KitOption PROVE KitInv'
    OBVIOUS
  <1>1. /\ pc = "parse" /\ pc' = "parse" /\ made = "no" /\ index' = index + 1
        /\ index \in Nat \ {0}
        /\ <<places, opts, args, made>>' = <<places, opts, args, made>>
        /\ KitsOfPlaces = KitsOf(args, Front) /\ kit = KitsOf(args, index - 1)
    BY DEF SetOption, KitOption, AtWord, IInv, TypeOK, Collecting, KitInv
  <1> DEFINE own == IF args[index].kind = "kit" THEN args[index].kits ELSE {}
  <1>2. kit' = kit \cup own
    BY DEF SetOption, KitOption, AtWord
  <1>3. KitsOf(args, index) = KitsOf(args, index - 1) \cup KitsOf(<<args[index]>>, 1)
    <2>1. index - 1 \in Nat /\ (index - 1) + 1 = index
      BY <1>1
    <2>2. \A j \in 1..1 : args[(index - 1) + j] = <<args[index]>>[j]
      BY <2>1
    <2> QED
      BY ONLY <2>1, <2>2, KitsBehind
  <1>4. KitsOf(<<args[index]>>, 1) = own
    BY Z3 DEF KitsOf
  <1>5. index' - 1 = index /\ args' = args
    BY <1>1
  <1>6. KitsOfPlaces' = KitsOfPlaces /\ Front' = Front
    BY <1>1 DEF KitsOfPlaces, Front
  <1> HIDE DEF own
  <1>7. kit' = KitsOf(args', index' - 1)
    BY <1>1, <1>2, <1>3, <1>4, <1>5
  <1> QED
    BY <1>1, <1>6, <1>7 DEF KitInv, KitsAddUp

\* The loop has been through the options of all four places.
LEMMA KitLoopEnds == IInv /\ KitInv /\ (FirstWord \/ NoWord) => KitInv'
  <1> SUFFICES ASSUME IInv, KitInv, FirstWord \/ NoWord PROVE KitInv'
    OBVIOUS
  <1>1. /\ pc = "parse" /\ pc' = "finish" /\ made = "no" /\ IsSuffix
        /\ <<places, kit, made>>' = <<places, kit, made>>
        /\ KitsOfPlaces = KitsOf(args, Front) /\ kit = KitsOf(args, index - 1)
    BY DEF FirstWord, NoWord, AtWord, IInv, Collecting, KitInv
  <1>2. \A a \in Nat, b \in Nat :
          (\A j \in 1..b : args[a + j] = places.cmdline[j]) =>
            KitsOf(args, a + b) = KitsOf(args, a) \cup KitsOf(places.cmdline, b)
    BY ONLY KitsBehind
  <1>3. ASSUME OnlyOptionsInPlaces, NEW n \in 0..Len(places.cmdline),
               OptionsEnd(places.cmdline, n)
        PROVE  kit = KitsOf(places.cmdline, n) \cup KitsOfPlaces
    <2>1. index - 1 = Front + n /\ Front \in Nat
      BY <1>3, LoopEnds
    <2>2. n \in Nat /\ \A j \in 1..n : args[Front + j] = places.cmdline[j]
      BY <1>1 DEF IsSuffix
    <2>3. KitsOf(args, Front + n) = KitsOf(args, Front) \cup KitsOf(places.cmdline, n)
      BY ONLY <1>2, <2>1, <2>2
    <2> QED
      BY <1>1, <2>1, <2>3
  <1>4. KitsOfPlaces' = KitsOfPlaces /\ (OnlyOptionsInPlaces' <=> OnlyOptionsInPlaces)
    BY <1>1 DEF KitsOfPlaces, OnlyOptionsInPlaces
  <1> QED
    BY <1>1, <1>3, <1>4 DEF KitInv, KitsAddUp

\* The default stands in for none.
LEMMA KitFinish == IInv /\ KitInv /\ (Finish \/ FinishFails) => KitInv'
  <1> SUFFICES ASSUME IInv, KitInv, Finish \/ FinishFails PROVE KitInv'
    OBVIOUS
  <1>1. /\ pc = "finish" /\ pc' \in {"source", "exit"} /\ places' = places
        /\ kit' = IF kit = {} THEN DefaultKits ELSE kit
        /\ defined' = 0
    BY DEF Finish, FinishFails, SettledKits, IInv, Collecting
  <1>2. ASSUME OnlyOptionsInPlaces, NEW n \in 0..Len(places.cmdline),
               OptionsEnd(places.cmdline, n)
        PROVE  kit = KitsOf(places.cmdline, n) \cup KitsOfLines(places.home)
                     \cup KitsOfLines(places.local) \cup KitsOfLines(places.env)
    <2>1. kit = KitsOf(places.cmdline, n) \cup KitsOfPlaces
      BY <1>1, <1>2 DEF KitInv
    <2> QED
      BY <2>1 DEF KitsOfPlaces
  <1>3. KitsAddUp'
    <2>1. \A j \in 1..defined' : FALSE
      BY <1>1
    <2> QED
      BY <1>1, <1>2, <2>1 DEF KitsAddUp, OnlyOptionsInPlaces
  <1> QED
    BY <1>1, <1>3 DEF KitInv

\* The last definition of kits replaces them.
LEMMA KitDefine == IInv /\ KitInv /\ Define => KitInv'
  <1> SUFFICES ASSUME IInv, KitInv, Define PROVE KitInv'
    OBVIOUS
  <1> DEFINE d == Definitions[defined + 1]
  <1>1. /\ pc' = "source" /\ defined' = defined + 1 /\ made = "yes"
        /\ <<places, made>>' = <<places, made>>
        /\ defined \in Nat /\ Definitions' = Definitions
        /\ kit' = IF d.kind = "kit" THEN d.kits ELSE kit
    BY Defining DEF IInv, Collecting
  <1>2. \A j \in 1..(defined + 1) : j \in 1..defined \/ j = defined + 1
    BY <1>1
  <1>3. defined + 1 \in 1..(defined + 1) /\ \A j \in 1..defined : j \in 1..(defined + 1)
    BY <1>1
  <1> HIDE DEF d
  <1>4. CASE d.kind = "kit"
    <2>1. ((defined + 1) + 1)..(defined + 1) = {}
      BY <1>1
    <2>2. KitsLast(Definitions, defined + 1, kit')
      BY <1>1, <1>3, <1>4, <2>1 DEF KitsLast, d
    <2> QED
      BY <1>1, <2>2 DEF KitInv, KitsAddUp
  <1>5. CASE d.kind # "kit"
    <2>1. ASSUME KitsLast(Definitions, defined, kit)
          PROVE  KitsLast(Definitions, defined + 1, kit)
      <3>1. PICK j \in 1..defined : /\ Definitions[j].kind = "kit" /\ Definitions[j].kits = kit
                                    /\ \A k \in (j+1)..defined : Definitions[k].kind # "kit"
        BY <2>1 DEF KitsLast
      <3>2. j \in 1..(defined + 1) /\ \A k \in (j+1)..(defined + 1) : k \in (j+1)..defined \/ k = defined + 1
        BY <1>1
      <3> QED
        BY <1>5, <3>1, <3>2 DEF KitsLast, d
    <2>2. (\A j \in 1..defined : Definitions[j].kind # "kit") =>
             \A j \in 1..(defined + 1) : Definitions[j].kind # "kit"
      BY <1>2, <1>5 DEF d
    <2>3. kit' = kit /\ (OnlyOptionsInPlaces' <=> OnlyOptionsInPlaces)
      BY <1>1, <1>5 DEF OnlyOptionsInPlaces
    <2> QED
      BY <1>1, <2>1, <2>2, <2>3 DEF KitInv, KitsAddUp
  <1> QED
    BY <1>4, <1>5

LEMMA KitCall ==
  ASSUME IInv, KitInv,
         WrongOption \/ SourceFails \/ Sourced \/ CallCommand \/ NoCommand \/ NotFound
  PROVE  KitInv'
  <1>1. /\ pc' \in {"main", "gui", "exit"}
        /\ <<places, val, kit, made, defined>>' = <<places, val, kit, made, defined>>
    BY DEF WrongOption, SourceFails, Sourced, CallCommand, NoCommand, NotFound
  <1> QED
    BY <1>1 DEF KitInv, KitsAddUp, OnlyOptionsInPlaces, Definitions

LEMMA KitStutter == KitInv /\ UNCHANGED vars => KitInv'
  <1> SUFFICES ASSUME KitInv, UNCHANGED vars PROVE KitInv'
    OBVIOUS
  <1>1. <<places, pc, opts, args, index, val, kit, made, defined>>'
          = <<places, pc, opts, args, index, val, kit, made, defined>>
    BY DEF vars
  <1>2. KitsOfPlaces' = KitsOfPlaces /\ Front' = Front
    BY <1>1 DEF KitsOfPlaces, Front
  <1> QED
    BY <1>1, <1>2 DEF KitInv, KitsAddUp, OnlyOptionsInPlaces, Definitions

-----------------------------------------------------------------------------

(* The inductive invariant holds in every reachable state, for all contents *)
(* of the four places.                                                      *)
THEOREM Inductive == Spec => []IInv
  <1>1. Init => IInv
    BY InitInv
  <1>2. IInv /\ [Next]_vars => IInv'
    BY ReadInv, AddLineInv, StartParsingInv, OptionInv, WrongOptionInv, LoopEndsInv,
       FinishInv, DefineInv, CallInv
    DEF Next, Step
  <1> QED
    BY <1>1, <1>2, PTL DEF Spec

(* Every variable of the start keeps its type.                              *)
THEOREM TypeCorrect == Spec => []TypeOK
  <1>1. IInv => TypeOK
    BY DEF IInv
  <1> QED
    BY <1>1, Inductive, PTL

(* What the command line sets is what holds, whatever ~/.kbsrc, ./kbsrc and *)
(* KBSRC set: _configure puts their lines in front of it.  Where the file   *)
(* of -pkgfile sets the same, its last definition holds instead.            *)
THEOREM CommandLineCorrect == Spec => []CommandLineWins
  <1>1. IInv => CommandLineWins
    BY DEF IInv
  <1> QED
    BY <1>1, Inductive, PTL

(* No wrong option of any place is overlooked before kbs creates or runs    *)
(* something.                                                               *)
THEOREM WrongOptionsFound == Spec => []WrongOptionFirst
  <1>1. IInv => WrongOptionFirst
    BY DEF IInv
  <1> QED
    BY <1>1, Inductive, PTL

(* The kits of the four places add up, and the default stands in for none   *)
(* at all: no place replaces what another one asks for, only the definition *)
(* of kits in the file of -pkgfile does.                                    *)
THEOREM KitsComplete == Spec => []KitsAddUp
  <1>1. Init => KitInv
    BY KitInit
  <1>2. IInv /\ KitInv /\ [Next]_vars => KitInv'
    BY KitRead, KitAddLine, KitStartParsing, KitOptions, KitLoopEnds, KitFinish,
       KitDefine, KitCall, KitStutter
    DEF Next, Step, Stopped
  <1>3. KitInv => KitsAddUp
    BY DEF KitInv
  <1> QED
    BY <1>1, <1>2, <1>3, Inductive, PTL DEF Spec
=============================================================================
