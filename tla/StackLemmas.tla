---------------------------- MODULE StackLemmas ----------------------------
(***************************************************************************)
(* Sequences used as stacks (nested evaluations, nested processes, nested  *)
(* calls) and as lists (timers, handlers of a channel), and induction over *)
(* numbers.                                                                *)
(***************************************************************************)
EXTENDS Naturals, SequencesExt, SequenceTheorems, WellFoundedInduction, TLAPS

\* Replacing the last element of a sequence, as every step of the innermost
\* evaluation (KbsBuild) or of the running process (KbsSource) does.
LEMMA ReplaceLast ==
  ASSUME NEW S, NEW s \in Seq(S), s # <<>>, NEW e \in S
  PROVE  LET t == [s EXCEPT ![Len(s)] = e] IN
           /\ t \in Seq(S) /\ Len(t) = Len(s) /\ t # <<>>
           /\ t[Len(s)] = e
           /\ \A i \in 1..Len(s)-1 : t[i] = s[i]
  OBVIOUS

\* Dropping the last element, as the end of an evaluation or of a process does.
LEMMA DropLast ==
  ASSUME NEW S, NEW s \in Seq(S), s # <<>>
  PROVE  /\ Front(s) \in Seq(S) /\ Len(Front(s)) = Len(s) - 1
         /\ \A i \in 1..Len(Front(s)) : Front(s)[i] = s[i]
         /\ (Front(s) = <<>>) <=> (Len(s) = 1)
<1>1. Len(s) \in Nat \ {0} /\ \A i \in 1..Len(s)-1 : s[i] \in S
  OBVIOUS
<1>2. /\ SubSeq(s, 1, Len(s)-1) \in Seq(S)
      /\ Len(SubSeq(s, 1, Len(s)-1)) = Len(s) - 1
      /\ \A i \in 1..Len(s)-1 : SubSeq(s, 1, Len(s)-1)[i] = s[i]
  <2>1. 1 \in Int /\ Len(s)-1 \in Int
    BY <1>1
  <2>2. /\ SubSeq(s, 1, Len(s)-1) \in Seq(S)
        /\ Len(SubSeq(s, 1, Len(s)-1)) = IF 1 <= Len(s)-1 THEN Len(s)-1 - 1 + 1 ELSE 0
        /\ \A i \in 1..(Len(s)-1 - 1 + 1) : SubSeq(s, 1, Len(s)-1)[i] = s[1 + i - 1]
    BY ONLY <1>1, <2>1, SubSeqProperties
  <2>3. Len(s)-1 - 1 + 1 = Len(s)-1 /\ \A i \in 1..Len(s)-1 : 1 + i - 1 = i
    BY <1>1
  <2> QED
    BY <1>1, <2>2, <2>3
<1>3. ASSUME NEW t \in Seq(S), Len(t) = Len(s) - 1
      PROVE  (t = <<>>) <=> (Len(s) = 1)
  BY <1>1, <1>3, EmptySeq
<1>4. (SubSeq(s, 1, Len(s)-1) = <<>>) <=> (Len(s) = 1)
  BY ONLY <1>2, <1>3
<1> QED
  BY ONLY <1>2, <1>4 DEF Front

\* Adding an element, as the start of a nested evaluation or process does.
LEMMA AddLast ==
  ASSUME NEW S, NEW s \in Seq(S), NEW e \in S
  PROVE  /\ Append(s, e) \in Seq(S) /\ Len(Append(s, e)) = Len(s) + 1
         /\ Append(s, e) # <<>>
         /\ Append(s, e)[Len(s) + 1] = e
         /\ \A i \in 1..Len(s) : Append(s, e)[i] = s[i]
  OBVIOUS

\* A list into which an element was inserted.
LEMMA InsertElement ==
  ASSUME NEW S, NEW s \in Seq(S), NEW e \in S, NEW k \in 1 .. Len(s) + 1
  PROVE  LET t == InsertAt(s, k, e) IN
           /\ t \in Seq(S) /\ Len(t) = Len(s) + 1
           /\ \A i \in 1 .. k - 1 : t[i] = s[i]
           /\ t[k] = e
           /\ \A i \in k + 1 .. Len(s) + 1 : t[i] = s[i - 1]
<1> DEFINE a == SubSeq(s, 1, k - 1)
           b == SubSeq(s, k, Len(s))
<1>1. Len(s) \in Nat /\ k \in Nat /\ 1 <= k /\ k <= Len(s) + 1
      /\ \A i \in 1 .. Len(s) : s[i] \in S
  OBVIOUS
<1>2. a \in Seq(S) /\ Len(a) = k - 1 /\ \A i \in 1 .. k - 1 : a[i] = s[i]
  <2>1. \A i \in 1 .. k - 1 : s[i] \in S
    BY <1>1
  <2>2. 1 \in Int /\ k - 1 \in Int
    BY <1>1
  <2>3. /\ a \in Seq(S)
        /\ Len(a) = IF 1 <= k - 1 THEN k - 1 - 1 + 1 ELSE 0
        /\ \A i \in 1 .. (k - 1 - 1 + 1) : a[i] = s[1 + i - 1]
    BY ONLY <2>1, <2>2, SubSeqProperties, s \in Seq(S)
  <2>4. k - 1 - 1 + 1 = k - 1 /\ \A i \in 1 .. k - 1 : 1 + i - 1 = i
    BY <1>1
  <2> QED
    BY <1>1, <2>3, <2>4
<1>3. b \in Seq(S) /\ Len(b) = Len(s) - k + 1
      /\ \A i \in 1 .. Len(s) - k + 1 : b[i] = s[k + i - 1]
  <2>1. \A i \in k .. Len(s) : s[i] \in S
    BY <1>1
  <2>2. k \in Int /\ Len(s) \in Int
    BY <1>1
  <2>3. /\ b \in Seq(S)
        /\ Len(b) = IF k <= Len(s) THEN Len(s) - k + 1 ELSE 0
        /\ \A i \in 1 .. (Len(s) - k + 1) : b[i] = s[k + i - 1]
    BY ONLY <1>1, <2>1, <2>2, SubSeqProperties, s \in Seq(S)
  <2> HIDE DEF b
  <2>4. Len(b) = Len(s) - k + 1
    BY <1>1, <2>3
  <2> QED
    BY <2>3, <2>4
<1>4. <<e>> \in Seq(S) /\ Len(<<e>>) = 1 /\ <<e>>[1] = e
  OBVIOUS
<1> HIDE DEF a, b
<1> DEFINE u == a \o <<e>>
<1>5. u \in Seq(S) /\ Len(u) = k /\ u[k] = e /\ \A i \in 1 .. k - 1 : u[i] = s[i]
  BY <1>1, <1>2, <1>4
<1> HIDE DEF u
<1>6. /\ u \o b \in Seq(S) /\ Len(u \o b) = Len(s) + 1
      /\ \A i \in 1 .. k : (u \o b)[i] = u[i]
      /\ \A i \in k + 1 .. Len(s) + 1 : (u \o b)[i] = b[i - k]
  <2>1. Len(u \o b) = Len(u) + Len(b) /\ u \o b \in Seq(S)
        /\ \A i \in 1 .. Len(u) + Len(b) :
             (u \o b)[i] = IF i <= Len(u) THEN u[i] ELSE b[i - Len(u)]
    BY <1>3, <1>5, ConcatProperties
  <2>2. Len(u) + Len(b) = Len(s) + 1
    BY <1>1, <1>3, <1>5
  <2> QED
    BY <1>1, <1>5, <2>1, <2>2
<1>7. \A i \in k + 1 .. Len(s) + 1 :
        i - k \in 1 .. Len(s) - k + 1 /\ k + (i - k) - 1 = i - 1
  BY <1>1
<1>8. InsertAt(s, k, e) = u \o b
  BY Zenon DEF InsertAt, u, a, b
<1>9. \A i \in k + 1 .. Len(s) + 1 : (u \o b)[i] = s[i - 1]
  BY <1>3, <1>6, <1>7
<1>10. /\ \A i \in 1 .. k - 1 : (u \o b)[i] = s[i]
       /\ (u \o b)[k] = e
  BY <1>1, <1>5, <1>6
<1> QED
  BY <1>6, <1>8, <1>9, <1>10

\* A list from which an element was removed.
LEMMA RemoveElement ==
  ASSUME NEW S, NEW s \in Seq(S), NEW n \in 1 .. Len(s)
  PROVE  LET t == RemoveAt(s, n) IN
           /\ t \in Seq(S) /\ Len(t) = Len(s) - 1
           /\ \A i \in 1 .. n - 1 : t[i] = s[i]
           /\ \A i \in n .. Len(s) - 1 : t[i] = s[i + 1]
<1> DEFINE a == SubSeq(s, 1, n - 1)
           b == SubSeq(s, n + 1, Len(s))
<1>1. Len(s) \in Nat /\ n \in Nat /\ 1 <= n /\ n <= Len(s)
      /\ \A i \in 1 .. Len(s) : s[i] \in S
  OBVIOUS
<1>2. a \in Seq(S) /\ Len(a) = n - 1 /\ \A i \in 1 .. n - 1 : a[i] = s[i]
  <2>1. \A i \in 1 .. n - 1 : s[i] \in S
    BY <1>1
  <2>2. 1 \in Int /\ n - 1 \in Int
    BY <1>1
  <2>3. /\ a \in Seq(S)
        /\ Len(a) = IF 1 <= n - 1 THEN n - 1 - 1 + 1 ELSE 0
        /\ \A i \in 1 .. (n - 1 - 1 + 1) : a[i] = s[1 + i - 1]
    BY ONLY <2>1, <2>2, SubSeqProperties, s \in Seq(S)
  <2>4. n - 1 - 1 + 1 = n - 1 /\ \A i \in 1 .. n - 1 : 1 + i - 1 = i
    BY <1>1
  <2> QED
    BY <1>1, <2>3, <2>4
<1>3. b \in Seq(S) /\ Len(b) = Len(s) - n /\ \A i \in 1 .. Len(s) - n : b[i] = s[n + i]
  <2>1. \A i \in n + 1 .. Len(s) : s[i] \in S
    BY <1>1
  <2>2. n + 1 \in Int /\ Len(s) \in Int
    BY <1>1
  <2>3. /\ b \in Seq(S)
        /\ Len(b) = IF n + 1 <= Len(s) THEN Len(s) - (n + 1) + 1 ELSE 0
        /\ \A i \in 1 .. (Len(s) - (n + 1) + 1) : b[i] = s[n + 1 + i - 1]
    BY ONLY <1>1, <2>1, <2>2, SubSeqProperties, s \in Seq(S)
  <2>4. Len(s) - (n + 1) + 1 = Len(s) - n /\ \A i \in 1 .. Len(s) - n : n + 1 + i - 1 = n + i
    BY <1>1
  <2>5. Len(b) = Len(s) - n
    BY <1>1, <2>3
  <2> HIDE DEF b
  <2> QED
    BY <2>3, <2>4, <2>5
<1> HIDE DEF a, b
<1>4. /\ a \o b \in Seq(S) /\ Len(a \o b) = Len(s) - 1
      /\ \A i \in 1 .. n - 1 : (a \o b)[i] = a[i]
      /\ \A i \in n .. Len(s) - 1 : (a \o b)[i] = b[i - (n - 1)]
  <2>1. Len(a \o b) = Len(a) + Len(b) /\ a \o b \in Seq(S)
        /\ \A i \in 1 .. Len(a) + Len(b) :
             (a \o b)[i] = IF i <= Len(a) THEN a[i] ELSE b[i - Len(a)]
    BY <1>2, <1>3, ConcatProperties
  <2>2. Len(a) + Len(b) = Len(s) - 1
    BY <1>1, <1>2, <1>3
  <2> QED
    BY <1>1, <1>2, <1>3, <2>1, <2>2
<1>5. \A i \in n .. Len(s) - 1 :
        i - (n - 1) \in 1 .. Len(s) - n /\ n + (i - (n - 1)) = i + 1
  BY <1>1
<1>6. \A i \in n .. Len(s) - 1 : (a \o b)[i] = s[i + 1]
  BY <1>3, <1>4, <1>5
<1>7. RemoveAt(s, n) = a \o b
  BY DEF RemoveAt, a, b
<1> QED
  BY <1>2, <1>4, <1>6, <1>7

\* A function on an initial segment of the numbers is a sequence.
LEMMA SequenceOf ==
  ASSUME NEW S, NEW n \in Nat, NEW f \in [1 .. n -> S]
  PROVE  f \in Seq(S) /\ Len(f) = n /\ DOMAIN f = 1 .. n
  OBVIOUS
\* Induction over the numbers, for what can be said as membership of a set.
LEMMA SetInduction ==
  ASSUME NEW S, 0 \in S, \A n \in Nat : n \in S => n + 1 \in S
  PROVE  \A n \in Nat : n \in S
<1> DEFINE T == Nat \ S
           R == OpToRel(<, Nat)
<1>1. SUFFICES ASSUME T # {} PROVE FALSE
  OBVIOUS
<1>2. \E x \in T : \A y \in T : ~ (<<y, x>> \in R)
  <2>1. IsWellFoundedOn(R, Nat)
    BY NatLessThanWellFounded
  <2>2. T \subseteq Nat
    OBVIOUS
  <2> HIDE DEF T, R
  <2> QED
    BY <2>1, <2>2, <1>1, WFMin
<1>3. PICK x \in T : \A y \in T : ~ (<<y, x>> \in R)
  BY <1>2
<1>4. x \in Nat /\ x \notin S /\ x # 0
  BY <1>3
<1>5. x - 1 \in Nat
  BY <1>4
<1>6. <<x - 1, x>> \in R
  BY <1>4, <1>5 DEF OpToRel
<1>7. x - 1 \in S
  BY <1>3, <1>5, <1>6
<1> QED
  BY <1>4, <1>5, <1>7
=============================================================================
