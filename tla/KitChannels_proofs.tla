------------------------- MODULE KitChannels_proofs -------------------------
(***************************************************************************)
(* The channels, their timers and the stack of a kit agree whatever the    *)
(* scripts do, for every set of channels, every mode and every depth of    *)
(* the stack.  The invariant is stated of the record s that the operators  *)
(* of the model work on, and each of them is shown to keep what it can     *)
(* disturb; one lemma for each action follows.  The last part shows that   *)
(* each action is a step of FileEvents or shows nothing to the scripts.    *)
(***************************************************************************)
EXTENDS KitChannels, StackLemmas, FiniteSetTheorems, WellFoundedInduction

-----------------------------------------------------------------------------
(***************************************************************************)
(* What the operations on the list of timer handlers (TclTimers) do to its *)
(* order and to what is in it, for every list.                             *)
(***************************************************************************)
\* A list in order, without doubles, whose handlers are of generations up to p.
Good(ts, p) ==
  /\ ts \in Seq(TimerHandler)
  /\ Ordered(ts)
  /\ Unique(ts)
  /\ \A i \in DOMAIN ts : ts[i].era <= p

\* Every set of numbers has a least one.
LEMMA Least ==
  ASSUME NEW T, T \subseteq Nat, T # {}
  PROVE  \E x \in T : \A y \in T : x <= y
<1> DEFINE R == {r \in Nat \X Nat : r[1] < r[2]}
<1>1. IsWellFoundedOn(R, Nat)
  BY NatLessThanWellFounded DEF OpToRel
<1>2. PICK x \in T : \A y \in T : ~ (<<y, x>> \in R)
  BY <1>1, WFMin
<1>3. ASSUME NEW y \in T
      PROVE  x <= y
  <2>1. <<y, x>> \in Nat \X Nat /\ <<y, x>>[1] = y /\ <<y, x>>[2] = x
    OBVIOUS
  <2> QED
    BY <1>2, <2>1
<1> QED
  BY <1>3

-----------------------------------------------------------------------------
\* A handler of a good list.
LEMMA GoodElements ==
  ASSUME NEW p \in Nat, NEW ts, Good(ts, p)
  PROVE  /\ Len(ts) \in Nat /\ DOMAIN ts = 1 .. Len(ts)
         /\ \A i \in 1 .. Len(ts) :
              /\ ts[i] \in TimerHandler
              /\ ts[i].due \in Nat /\ ts[i].era \in Nat /\ ts[i].era <= p
  <1>1. ts \in Seq(TimerHandler) /\ \A i \in DOMAIN ts : ts[i].era <= p
    BY DEF Good
  <1>2. Len(ts) \in Nat /\ DOMAIN ts = 1 .. Len(ts)
        /\ \A i \in 1 .. Len(ts) : ts[i] \in TimerHandler
    BY <1>1
  <1>3. ASSUME NEW h \in TimerHandler
        PROVE  h.due \in Nat /\ h.era \in Nat
    BY MaxDelayAssumption DEF TimerHandler
  <1> QED
    BY <1>1, <1>2, <1>3

\* The place of a new handler exists.
LEMMA FirstLaterPlace ==
  ASSUME NEW p \in Nat, NEW ts, Good(ts, p), NEW d \in 0 .. MaxDelay
  PROVE  LET n == FirstLater(ts, d) IN
           /\ n \in 0 .. Len(ts)
           /\ \A i \in 1 .. n : ts[i].due <= d
           /\ \A i \in n + 1 .. Len(ts) : d < ts[i].due
<1> DEFINE Place(n) == /\ \A i \in 1 .. n : ts[i].due <= d
                       /\ n < Len(ts) => d < ts[n + 1].due
           Later == {i \in 1 .. Len(ts) : d < ts[i].due}
<1>1. MaxDelay \in Nat /\ d \in Nat
  BY MaxDelayAssumption
<1>2. Len(ts) \in Nat /\ DOMAIN ts = 1 .. Len(ts)
      /\ \A i \in 1 .. Len(ts) : ts[i].due \in Nat
  BY GoodElements
<1>3. \E n \in 0 .. Len(ts) : Place(n)
  <2>1. CASE Later = {}
    <3>1. Len(ts) \in 0 .. Len(ts) /\ Place(Len(ts))
      BY <1>1, <1>2, <2>1
    <3> QED
      BY <3>1
  <2>2. CASE Later # {}
    <3>1. PICK m \in Later : \A y \in Later : m <= y
      <4>1. Later \subseteq Nat
        BY <1>2
      <4> HIDE DEF Later
      <4> QED
        BY <2>2, <4>1, Least
    <3>2. m - 1 \in 0 .. Len(ts) /\ Place(m - 1)
      BY <1>1, <1>2, <3>1
    <3> QED
      BY <3>2
  <2> QED
    BY <2>1, <2>2
<1>4. FirstLater(ts, d) \in 0 .. Len(ts) /\ Place(FirstLater(ts, d))
  BY <1>3 DEF FirstLater
<1> DEFINE n == FirstLater(ts, d)
<1> HIDE DEF n
<1>5. n \in 0 .. Len(ts) /\ Place(n)
  BY <1>4 DEF n
<1>6. ASSUME NEW i \in n + 1 .. Len(ts)
      PROVE  d < ts[i].due
  <2>1. n < Len(ts) /\ n + 1 \in 1 .. Len(ts) /\ i \in 1 .. Len(ts)
    BY <1>2, <1>5
  <2>2. ts[n + 1].due <= ts[i].due
    <3>1. CASE i = n + 1
      BY <1>2, <2>1, <3>1
    <3>2. CASE n + 1 < i
      BY <1>2, <2>1, <3>2 DEF Good, Ordered
    <3> QED
      BY <1>2, <1>5, <2>1, <3>1, <3>2
  <2> QED
    BY <1>1, <1>2, <1>5, <2>1, <2>2
<1> QED
  BY <1>5, <1>6 DEF n

\* A handler that is created by one of p passes, or within them, where there is
\* none for its procedure and channel.
LEMMA CreatedGood ==
  ASSUME NEW p \in Nat, NEW ts, Good(ts, p),
         NEW h \in TimerHandler, h.era = p, ~Listed(ts, h.proc, h.chan)
  PROVE  /\ Good(Created(ts, h), p)
         /\ \A proc, c : Listed(Created(ts, h), proc, c)
              <=> Listed(ts, proc, c) \/ Is(h, proc, c)
<1> DEFINE n == FirstLater(ts, h.due)
           r == InsertAt(ts, n + 1, h)
<1>1. /\ Len(ts) \in Nat /\ DOMAIN ts = 1 .. Len(ts)
      /\ \A i \in 1 .. Len(ts) :
           /\ ts[i] \in TimerHandler
           /\ ts[i].due \in Nat /\ ts[i].era \in Nat /\ ts[i].era <= p
  BY GoodElements
<1>2. h.due \in 0 .. MaxDelay /\ h.due \in Nat /\ MaxDelay \in Nat
  BY MaxDelayAssumption DEF TimerHandler
<1>3. /\ n \in 0 .. Len(ts)
      /\ \A i \in 1 .. n : ts[i].due <= h.due
      /\ \A i \in n + 1 .. Len(ts) : h.due < ts[i].due
  BY <1>2, FirstLaterPlace
<1> HIDE DEF n
<1>4. /\ r \in Seq(TimerHandler) /\ Len(r) = Len(ts) + 1
      /\ \A i \in 1 .. n : r[i] = ts[i]
      /\ r[n + 1] = h
      /\ \A i \in n + 2 .. Len(ts) + 1 : r[i] = ts[i - 1]
  <2>1. ts \in Seq(TimerHandler)
    BY DEF Good
  <2> HIDE DEF r
  <2>2. n + 1 \in 1 .. Len(ts) + 1
    BY <1>1, <1>3
  <2> DEFINE k == n + 1
  <2> HIDE DEF k
  <2>3. k - 1 = n /\ k + 1 = n + 2 /\ k \in 1 .. Len(ts) + 1
    BY <1>1, <1>3, <2>2 DEF k
  <2>4. LET t == InsertAt(ts, k, h) IN
          /\ t \in Seq(TimerHandler) /\ Len(t) = Len(ts) + 1
          /\ \A i \in 1 .. k - 1 : t[i] = ts[i]
          /\ t[k] = h
          /\ \A i \in k + 1 .. Len(ts) + 1 : t[i] = ts[i - 1]
    BY ONLY <2>1, <2>3, h \in TimerHandler, InsertElement
  <2>5. r = InsertAt(ts, k, h)
    BY Zenon DEF r, k
  <2> QED
    BY <2>3, <2>4, <2>5 DEF k
<1> HIDE DEF r
<1>5. Created(ts, h) = r
  BY DEF Created, r, n
<1>6. DOMAIN r = 1 .. Len(ts) + 1
  BY <1>4
\* Where an element of the new list was, or is it the new one?
<1> DEFINE From(i) == IF i <= n THEN i ELSE i - 1
<1>7. ASSUME NEW i \in 1 .. Len(ts) + 1, i # n + 1
      PROVE  From(i) \in 1 .. Len(ts) /\ r[i] = ts[From(i)]
  <2>1. CASE i \in 1 .. n
    BY <1>1, <1>3, <1>4, <2>1
  <2>2. CASE i \in n + 2 .. Len(ts) + 1
    BY <1>1, <1>3, <1>4, <2>2
  <2> QED
    BY <1>1, <1>3, <1>7, <2>1, <2>2
<1>8. ASSUME NEW i \in 1 .. Len(ts) + 1, NEW j \in 1 .. Len(ts) + 1, i < j
      PROVE  r[i].due <= r[j].due /\ (r[j].due = 0 => r[i].era <= r[j].era)
  <2>1. CASE i = n + 1
    <3>1. j # n + 1 /\ From(j) \in n + 1 .. Len(ts)
      BY <1>1, <1>3, <1>8, <2>1
    <3>2. r[i] = h /\ r[j] = ts[From(j)] /\ h.due < ts[From(j)].due
      BY <1>3, <1>4, <1>7, <2>1, <3>1
    <3> HIDE DEF From
    <3>3. From(j) \in 1 .. Len(ts)
      BY <1>1, <1>3, <3>1
    <3> QED
      BY <1>1, <1>2, <3>2, <3>3
  <2>2. CASE j = n + 1
    <3>1. i \in 1 .. n /\ i \in 1 .. Len(ts)
      BY <1>1, <1>3, <1>8, <2>2
    <3>2. r[i] = ts[i] /\ r[j] = h
      BY <1>4, <2>2, <3>1
    <3> QED
      BY <1>1, <1>2, <1>3, <3>1, <3>2
  <2>3. CASE i # n + 1 /\ j # n + 1
    <3>1. From(i) < From(j)
      BY <1>1, <1>3, <1>8, <2>3
    <3>2. /\ From(i) \in 1 .. Len(ts) /\ r[i] = ts[From(i)]
          /\ From(j) \in 1 .. Len(ts) /\ r[j] = ts[From(j)]
      BY <1>7, <2>3
    <3> HIDE DEF From
    <3> QED
      BY <1>1, <3>1, <3>2 DEF Good, Ordered
  <2> QED
    BY <2>1, <2>2, <2>3
<1>9. Ordered(r)
  BY <1>6, <1>8 DEF Ordered
<1>10. ASSUME NEW i \in 1 .. Len(ts) + 1, NEW j \in 1 .. Len(ts) + 1,
              Is(r[i], r[j].proc, r[j].chan)
       PROVE  i = j
  <2>1. CASE i = n + 1 /\ j # n + 1
    <3>1. From(j) \in 1 .. Len(ts) /\ r[j] = ts[From(j)] /\ r[i] = h
      BY <1>4, <1>7, <2>1
    <3> HIDE DEF From
    <3> QED
      BY <1>1, <1>10, <3>1 DEF Is, Listed
  <2>2. CASE i # n + 1 /\ j = n + 1
    <3>1. From(i) \in 1 .. Len(ts) /\ r[i] = ts[From(i)] /\ r[j] = h
      BY <1>4, <1>7, <2>2
    <3> HIDE DEF From
    <3> QED
      BY <1>1, <1>10, <3>1 DEF Is, Listed
  <2>3. CASE i # n + 1 /\ j # n + 1
    <3>1. /\ From(i) \in 1 .. Len(ts) /\ r[i] = ts[From(i)]
          /\ From(j) \in 1 .. Len(ts) /\ r[j] = ts[From(j)]
      BY <1>7, <2>3
    <3>2. From(i) = From(j)
      <4> HIDE DEF From
      <4> QED
        BY <1>1, <1>10, <3>1 DEF Good, Unique
    <3> QED
      BY <1>1, <1>3, <2>3, <3>2
  <2> QED
    BY <2>1, <2>2, <2>3
<1>11. Unique(r)
  BY <1>6, <1>10 DEF Unique
<1>12. ASSUME NEW i \in 1 .. Len(ts) + 1
       PROVE  r[i].era <= p
  <2>1. CASE i = n + 1
    BY <1>4, <2>1
  <2>2. CASE i # n + 1
    <3>1. From(i) \in 1 .. Len(ts) /\ r[i] = ts[From(i)]
      BY <1>7, <2>2
    <3> HIDE DEF From
    <3> QED
      BY <1>1, <3>1
  <2> QED
    BY <2>1, <2>2
<1>13. ASSUME NEW proc, NEW c
       PROVE  Listed(r, proc, c) <=> Listed(ts, proc, c) \/ Is(h, proc, c)
  <2>1. ASSUME NEW i \in 1 .. Len(ts) + 1, Is(r[i], proc, c)
        PROVE  Listed(ts, proc, c) \/ Is(h, proc, c)
    <3>1. CASE i = n + 1
      BY <1>4, <2>1, <3>1
    <3>2. CASE i # n + 1
      <4>1. From(i) \in 1 .. Len(ts) /\ r[i] = ts[From(i)]
        BY <1>7, <3>2
      <4> HIDE DEF From
      <4> QED
        BY <1>1, <2>1, <4>1 DEF Listed
    <3> QED
      BY <3>1, <3>2
  <2>2. ASSUME Is(h, proc, c)
        PROVE  Listed(r, proc, c)
    <3>1. n + 1 \in DOMAIN r
      BY <1>1, <1>3, <1>6
    <3> QED
      BY <1>4, <2>2, <3>1 DEF Listed
  <2>3. ASSUME NEW i \in 1 .. Len(ts), Is(ts[i], proc, c)
        PROVE  Listed(r, proc, c)
    <3>1. CASE i <= n
      <4>0. i \in 1 .. n /\ i \in 1 .. Len(ts) + 1
        BY <1>1, <1>3, <3>1
      <4>1. i \in DOMAIN r /\ r[i] = ts[i]
        BY <1>4, <1>6, <4>0
      <4> QED
        BY <2>3, <4>1 DEF Listed
    <3>2. CASE n < i
      <4>1. i + 1 \in DOMAIN r /\ i + 1 \in n + 2 .. Len(ts) + 1 /\ i + 1 - 1 = i
        BY <1>1, <1>3, <1>6, <3>2
      <4>2. r[i + 1] = ts[i]
        BY <1>4, <4>1
      <4> QED
        BY <2>3, <4>1, <4>2 DEF Listed
    <3> QED
      BY <1>1, <1>3, <3>1, <3>2
  <2> QED
    BY <1>1, <1>6, <2>1, <2>2, <2>3 DEF Listed
<1> QED
  BY <1>4, <1>5, <1>6, <1>9, <1>11, <1>12, <1>13 DEF Good

\* Without the handler of proc and c the list is as good, and all others are
\* still in it.
LEMMA DeletedGood ==
  ASSUME NEW p \in Nat, NEW ts, Good(ts, p), NEW proc, NEW c
  PROVE  /\ Good(Deleted(ts, proc, c), p)
         /\ \A q, d : Listed(Deleted(ts, proc, c), q, d)
              <=> Listed(ts, q, d) /\ ~ (q = proc /\ d = c)
<1>1. CASE ~Listed(ts, proc, c)
  BY <1>1 DEF Deleted
<1>2. CASE Listed(ts, proc, c)
  <2> DEFINE k == CHOOSE i \in DOMAIN ts : Is(ts[i], proc, c)
             r == RemoveAt(ts, k)
  <2>1. /\ Len(ts) \in Nat /\ DOMAIN ts = 1 .. Len(ts)
        /\ \A i \in 1 .. Len(ts) :
             /\ ts[i] \in TimerHandler
             /\ ts[i].due \in Nat /\ ts[i].era \in Nat /\ ts[i].era <= p
    BY GoodElements
  <2>2. k \in 1 .. Len(ts) /\ Is(ts[k], proc, c)
    BY <1>2, <2>1 DEF Listed
  <2> HIDE DEF k
  <2>3. Deleted(ts, proc, c) = r
    BY <1>2 DEF Deleted, k
  <2>4. /\ r \in Seq(TimerHandler) /\ Len(r) = Len(ts) - 1
        /\ \A i \in 1 .. k - 1 : r[i] = ts[i]
        /\ \A i \in k .. Len(ts) - 1 : r[i] = ts[i + 1]
    <3>1. ts \in Seq(TimerHandler)
      BY DEF Good
    <3> QED
      BY ONLY <2>2, <3>1, RemoveElement
  <2> HIDE DEF r
  <2>5. DOMAIN r = 1 .. Len(ts) - 1
    BY <2>4
  <2> DEFINE From(i) == IF i < k THEN i ELSE i + 1
  <2>6. ASSUME NEW i \in 1 .. Len(ts) - 1
        PROVE  From(i) \in 1 .. Len(ts) /\ From(i) # k /\ r[i] = ts[From(i)]
    <3>1. CASE i \in 1 .. k - 1
      BY <2>1, <2>2, <2>4, <3>1
    <3>2. CASE i \in k .. Len(ts) - 1
      BY <2>1, <2>2, <2>4, <3>2
    <3> QED
      BY <2>1, <2>2, <2>6, <3>1, <3>2
  <2>7. \A i, j \in 1 .. Len(ts) - 1 :
          /\ i < j => From(i) < From(j)
          /\ From(i) = From(j) => i = j
    BY <2>1, <2>2
  <2>8. \A j \in 1 .. Len(ts) : j # k => \E i \in 1 .. Len(ts) - 1 : From(i) = j
    <3>1. ASSUME NEW j \in 1 .. Len(ts), j # k
          PROVE  \E i \in 1 .. Len(ts) - 1 : From(i) = j
      <4>1. CASE j < k
        <5>1. j \in 1 .. Len(ts) - 1 /\ From(j) = j
          BY <2>1, <2>2, <4>1
        <5> QED
          BY <5>1
      <4>2. CASE k < j
        <5>1. j - 1 \in 1 .. Len(ts) - 1 /\ From(j - 1) = j
          BY <2>1, <2>2, <4>2
        <5> QED
          BY <5>1
      <4>3. j < k \/ k < j
        BY <2>1, <2>2, <3>1
      <4> HIDE DEF From
      <4> QED
        BY <4>1, <4>2, <4>3
    <3> QED
      BY <3>1
  <2> HIDE DEF From
  <2>9. Ordered(r)
    <3>1. ASSUME NEW i \in 1 .. Len(ts) - 1, NEW j \in 1 .. Len(ts) - 1, i < j
          PROVE  r[i].due <= r[j].due /\ (r[j].due = 0 => r[i].era <= r[j].era)
      <4>1. /\ From(i) \in DOMAIN ts /\ From(j) \in DOMAIN ts /\ From(i) < From(j)
            /\ r[i] = ts[From(i)] /\ r[j] = ts[From(j)]
        BY <2>1, <2>6, <2>7, <3>1
      <4> QED
        BY <4>1 DEF Good, Ordered
    <3> QED
      BY <2>5, <3>1 DEF Ordered
  <2>10. Unique(r)
    <3>1. ASSUME NEW i \in 1 .. Len(ts) - 1, NEW j \in 1 .. Len(ts) - 1,
                 Is(r[i], r[j].proc, r[j].chan)
          PROVE  i = j
      <4>1. /\ From(i) \in DOMAIN ts /\ From(j) \in DOMAIN ts
            /\ r[i] = ts[From(i)] /\ r[j] = ts[From(j)]
        BY <2>1, <2>6
      <4>2. From(i) = From(j)
        BY <3>1, <4>1 DEF Good, Unique
      <4> QED
        BY <2>7, <4>2
    <3> QED
      BY <2>5, <3>1 DEF Unique
  <2>11. \A i \in DOMAIN r : r[i].era <= p
    BY <2>1, <2>5, <2>6
  <2>12. ASSUME NEW q, NEW d
         PROVE  Listed(r, q, d) <=> Listed(ts, q, d) /\ ~ (q = proc /\ d = c)
    <3>1. ASSUME NEW i \in 1 .. Len(ts) - 1, Is(r[i], q, d)
          PROVE  Listed(ts, q, d) /\ ~ (q = proc /\ d = c)
      <4>1. From(i) \in DOMAIN ts /\ From(i) # k /\ Is(ts[From(i)], q, d)
        BY <2>1, <2>6, <3>1
      <4>2. ~ Is(ts[From(i)], ts[k].proc, ts[k].chan)
        BY <2>1, <2>2, <4>1 DEF Good, Unique
      <4> QED
        BY <2>2, <4>1, <4>2 DEF Is, Listed
    <3>2. ASSUME NEW j \in 1 .. Len(ts), Is(ts[j], q, d), ~ (q = proc /\ d = c)
          PROVE  Listed(r, q, d)
      <4>1. j # k
        BY <2>2, <3>2 DEF Is
      <4>2. PICK i \in 1 .. Len(ts) - 1 : From(i) = j
        BY <2>8, <4>1
      <4> QED
        BY <2>5, <2>6, <3>2, <4>2 DEF Listed
    <3> QED
      BY <2>1, <2>5, <3>1, <3>2 DEF Listed
  <2> QED
    BY <2>3, <2>4, <2>9, <2>10, <2>11, <2>12 DEF Good
<1> QED
  BY <1>1, <1>2


\* Without its first handler the list is as good.
LEMMA TailGood ==
  ASSUME NEW p \in Nat, NEW ts, Good(ts, p), ts # <<>>
  PROVE  /\ Head(ts) \in TimerHandler /\ Head(ts).era <= p
         /\ Listed(ts, Head(ts).proc, Head(ts).chan)
         /\ Good(Tail(ts), p)
         /\ \A q, d : Listed(Tail(ts), q, d)
              <=> Listed(ts, q, d) /\ ~ Is(Head(ts), q, d)
<1> DEFINE r == Tail(ts)
<1>1. /\ Len(ts) \in Nat /\ DOMAIN ts = 1 .. Len(ts)
      /\ \A i \in 1 .. Len(ts) :
           /\ ts[i] \in TimerHandler
           /\ ts[i].due \in Nat /\ ts[i].era \in Nat /\ ts[i].era <= p
  BY GoodElements
<1>2. /\ Len(ts) # 0 /\ Head(ts) = ts[1]
      /\ r \in Seq(TimerHandler) /\ Len(r) = Len(ts) - 1
      /\ \A i \in 1 .. Len(ts) - 1 : r[i] = ts[i + 1]
  BY EmptySeq, HeadTailProperties DEF Good
<1>3. DOMAIN r = 1 .. Len(ts) - 1 /\ 1 \in 1 .. Len(ts)
      /\ \A i \in 1 .. Len(ts) - 1 : i + 1 \in 1 .. Len(ts) /\ i + 1 # 1
  BY <1>1, <1>2
<1> HIDE DEF r
<1>4. Ordered(r)
  <2>1. ASSUME NEW i \in 1 .. Len(ts) - 1, NEW j \in 1 .. Len(ts) - 1, i < j
        PROVE  r[i].due <= r[j].due /\ (r[j].due = 0 => r[i].era <= r[j].era)
    <3>1. i + 1 \in DOMAIN ts /\ j + 1 \in DOMAIN ts /\ i + 1 < j + 1
      BY <1>1, <1>3, <2>1
    <3>2. r[i] = ts[i + 1] /\ r[j] = ts[j + 1]
      BY <1>2
    <3> QED
      BY <3>1, <3>2 DEF Good, Ordered
  <2> QED
    BY <1>3, <2>1 DEF Ordered
<1>5. Unique(r)
  <2>1. ASSUME NEW i \in 1 .. Len(ts) - 1, NEW j \in 1 .. Len(ts) - 1,
               Is(r[i], r[j].proc, r[j].chan)
        PROVE  i = j
    <3>1. i + 1 \in DOMAIN ts /\ j + 1 \in DOMAIN ts
      BY <1>1, <1>3
    <3>2. r[i] = ts[i + 1] /\ r[j] = ts[j + 1]
      BY <1>2
    <3>3. i + 1 = j + 1
      BY <2>1, <3>1, <3>2 DEF Good, Unique
    <3> QED
      BY <1>1, <3>3
  <2> QED
    BY <1>3, <2>1 DEF Unique
<1>6. \A i \in DOMAIN r : r[i].era <= p
  BY <1>1, <1>2, <1>3
<1>7. ASSUME NEW q, NEW d
      PROVE  Listed(r, q, d) <=> Listed(ts, q, d) /\ ~ Is(Head(ts), q, d)
  <2>1. ASSUME NEW i \in 1 .. Len(ts) - 1, Is(r[i], q, d)
        PROVE  Listed(ts, q, d) /\ ~ Is(Head(ts), q, d)
    <3>1. i + 1 \in DOMAIN ts /\ 1 \in DOMAIN ts /\ i + 1 # 1 /\ Is(ts[i + 1], q, d)
      BY <1>1, <1>2, <1>3, <2>1
    <3>2. ~ Is(ts[1], ts[i + 1].proc, ts[i + 1].chan)
      BY <3>1 DEF Good, Unique
    <3> QED
      BY <1>2, <3>1, <3>2 DEF Is, Listed
  <2>2. ASSUME NEW j \in 1 .. Len(ts), Is(ts[j], q, d), ~ Is(Head(ts), q, d)
        PROVE  Listed(r, q, d)
    <3>1. j - 1 \in 1 .. Len(ts) - 1 /\ j - 1 + 1 = j
      BY <1>1, <1>2, <2>2
    <3>2. r[j - 1] = ts[j]
      BY <1>2, <3>1
    <3> QED
      BY <1>3, <2>2, <3>1, <3>2 DEF Listed
  <2> QED
    BY <1>1, <1>3, <2>1, <2>2 DEF Listed
<1>8. Head(ts) \in TimerHandler /\ Head(ts).era <= p
      /\ Listed(ts, Head(ts).proc, Head(ts).chan)
  BY <1>1, <1>2, <1>3 DEF Listed, Is
<1> QED
  BY <1>2, <1>4, <1>5, <1>6, <1>7, <1>8 DEF Good, r

\* A list whose handlers are, one by one, for the same procedures and channels.
LEMMA SameListed ==
  ASSUME NEW ts, NEW r, DOMAIN r = DOMAIN ts,
         \A i \in DOMAIN ts : r[i].proc = ts[i].proc /\ r[i].chan = ts[i].chan
  PROVE  /\ Unique(ts) => Unique(r)
         /\ \A q, d : Listed(r, q, d) <=> Listed(ts, q, d)
  BY DEF Unique, Listed, Is

\* The clock keeps the order.
LEMMA TickedGood ==
  ASSUME NEW p \in Nat, NEW ts, Good(ts, p)
  PROVE  /\ Good(Ticked(ts, p), p)
         /\ \A q, d : Listed(Ticked(ts, p), q, d) <=> Listed(ts, q, d)
<1> DEFINE r == Ticked(ts, p)
<1>1. /\ Len(ts) \in Nat /\ DOMAIN ts = 1 .. Len(ts)
      /\ \A i \in 1 .. Len(ts) :
           /\ ts[i] \in TimerHandler
           /\ ts[i].due \in Nat /\ ts[i].era \in Nat /\ ts[i].era <= p
  BY GoodElements
<1>2. ASSUME NEW i \in 1 .. Len(ts)
      PROVE  /\ r[i] \in TimerHandler
             /\ r[i].proc = ts[i].proc /\ r[i].chan = ts[i].chan
             /\ ts[i].due = 0 => r[i] = ts[i]
             /\ ts[i].due = 1 => r[i].due = 0 /\ r[i].era = p
             /\ ts[i].due > 1 => r[i].due = ts[i].due - 1 /\ r[i].era = ts[i].era
  <2>1. ts[i] \in TimerHandler /\ ts[i].due \in Nat
    BY <1>1
  <2>2. /\ ts[i].due = 0 => r[i] = ts[i]
        /\ ts[i].due = 1 => r[i] = [ts[i] EXCEPT !.due = 0, !.era = p]
        /\ ts[i].due > 1 => r[i] = [ts[i] EXCEPT !.due = ts[i].due - 1]
    BY <1>1, <2>1 DEF Ticked
  <2> HIDE DEF r
  <2>3. CASE ts[i].due = 0
    BY <2>1, <2>2, <2>3
  <2>4. CASE ts[i].due = 1
    <3>1. r[i] = [ts[i] EXCEPT !.due = 0, !.era = p] /\ 0 \in 0 .. MaxDelay
      BY <2>2, <2>4, MaxDelayAssumption
    <3>2. /\ r[i] \in TimerHandler /\ r[i].due = 0 /\ r[i].era = p
          /\ r[i].proc = ts[i].proc /\ r[i].chan = ts[i].chan
      BY <2>1, <3>1 DEF TimerHandler
    <3> QED
      BY <2>4, <3>2
  <2>5. CASE ts[i].due > 1
    <3> DEFINE d == ts[i].due - 1
    <3>1. d \in 0 .. MaxDelay
      BY <2>1, <2>5, MaxDelayAssumption DEF TimerHandler
    <3>2. r[i] = [ts[i] EXCEPT !.due = d]
      BY <2>2, <2>5
    <3> HIDE DEF d
    <3>3. /\ r[i] \in TimerHandler /\ r[i].due = d /\ r[i].era = ts[i].era
          /\ r[i].proc = ts[i].proc /\ r[i].chan = ts[i].chan
      BY <2>1, <3>1, <3>2 DEF TimerHandler
    <3> QED
      BY <2>5, <3>3 DEF d
  <2> QED
    BY <2>1, <2>3, <2>4, <2>5
<1>3. DOMAIN r = 1 .. Len(ts) /\ r \in Seq(TimerHandler)
  <2>1. DOMAIN r = 1 .. Len(ts)
    BY <1>1 DEF Ticked
  <2>2. r = [i \in 1 .. Len(ts) |-> r[i]]
    BY <1>1 DEF Ticked
  <2> HIDE DEF r
  <2> QED
    BY <1>1, <1>2, <2>1, <2>2
<1> HIDE DEF r
<1>4. ASSUME NEW i \in 1 .. Len(ts), NEW j \in 1 .. Len(ts), i < j
      PROVE  r[i].due <= r[j].due /\ (r[j].due = 0 => r[i].era <= r[j].era)
  <2>1. ts[i].due <= ts[j].due /\ (ts[j].due = 0 => ts[i].era <= ts[j].era)
    BY <1>1, <1>4 DEF Good, Ordered
  <2>2. ts[i].due \in Nat /\ ts[j].due \in Nat
    BY <1>1
  <2>3. CASE ts[j].due = 0
    BY <1>2, <2>1, <2>2, <2>3
  <2>4. CASE ts[j].due = 1
    <3>1. r[j].due = 0 /\ r[j].era = p
      BY <1>2, <2>4
    <3>2. r[i].due = 0 /\ r[i].era <= p /\ r[i].era \in Nat
      BY <1>1, <1>2, <2>1, <2>2, <2>4
    <3> QED
      BY <3>1, <3>2
  <2>5. CASE ts[j].due > 1
    <3>1. r[j].due = ts[j].due - 1
      BY <1>2, <2>5
    <3>2. r[i].due = 0 \/ r[i].due = ts[i].due - 1
      BY <1>2, <2>2
    <3> QED
      BY <2>1, <2>2, <2>5, <3>1, <3>2
  <2> QED
    BY <2>2, <2>3, <2>4, <2>5
<1>5. \A i \in 1 .. Len(ts) : r[i].era <= p
  BY <1>1, <1>2
<1>6. DOMAIN r = DOMAIN ts
      /\ \A i \in DOMAIN ts : r[i].proc = ts[i].proc /\ r[i].chan = ts[i].chan
  BY <1>1, <1>2, <1>3
<1>7. Unique(r) /\ \A q, d : Listed(r, q, d) <=> Listed(ts, q, d)
  BY <1>6, SameListed DEF Good
<1> QED
  BY <1>3, <1>4, <1>5, <1>7 DEF Good, Ordered, r

\* So does the end of a pass, behind which there is one pass less.
LEMMA EndedGood ==
  ASSUME NEW p \in Nat \ {0}, NEW ts, Good(ts, p)
  PROVE  /\ Good(Ended(ts, p), p - 1)
         /\ \A q, d : Listed(Ended(ts, p), q, d) <=> Listed(ts, q, d)
<1> DEFINE r == Ended(ts, p)
<1>1. /\ Len(ts) \in Nat /\ DOMAIN ts = 1 .. Len(ts)
      /\ \A i \in 1 .. Len(ts) :
           /\ ts[i] \in TimerHandler
           /\ ts[i].due \in Nat /\ ts[i].era \in Nat /\ ts[i].era <= p
  BY GoodElements
<1>2. ASSUME NEW i \in 1 .. Len(ts)
      PROVE  /\ r[i] \in TimerHandler
             /\ r[i].proc = ts[i].proc /\ r[i].chan = ts[i].chan
             /\ r[i].due = ts[i].due
             /\ r[i].era = IF ts[i].era >= p THEN p - 1 ELSE ts[i].era
  <2>1. ts[i] \in TimerHandler /\ ts[i].era \in Nat
    BY <1>1
  <2>2. r[i] = IF ts[i].era >= p THEN [ts[i] EXCEPT !.era = p - 1] ELSE ts[i]
    BY <1>1 DEF Ended
  <2> QED
    BY <2>1, <2>2 DEF TimerHandler
<1>3. DOMAIN r = 1 .. Len(ts) /\ r \in Seq(TimerHandler)
  <2>1. DOMAIN r = 1 .. Len(ts)
    BY <1>1 DEF Ended
  <2>2. r = [i \in 1 .. Len(ts) |-> r[i]]
    BY <1>1 DEF Ended
  <2> HIDE DEF r
  <2> QED
    BY <1>1, <1>2, <2>1, <2>2
<1> HIDE DEF r
<1>4. ASSUME NEW i \in 1 .. Len(ts), NEW j \in 1 .. Len(ts), i < j
      PROVE  r[i].due <= r[j].due /\ (r[j].due = 0 => r[i].era <= r[j].era)
  <2>1. ts[i].due <= ts[j].due /\ (ts[j].due = 0 => ts[i].era <= ts[j].era)
    BY <1>1, <1>4 DEF Good, Ordered
  <2> QED
    BY <1>1, <1>2, <2>1
<1>5. \A i \in 1 .. Len(ts) : r[i].era <= p - 1
  BY <1>1, <1>2
<1>6. DOMAIN r = DOMAIN ts
      /\ \A i \in DOMAIN ts : r[i].proc = ts[i].proc /\ r[i].chan = ts[i].chan
  BY <1>1, <1>2, <1>3
<1>7. Unique(r) /\ \A q, d : Listed(r, q, d) <=> Listed(ts, q, d)
  BY <1>6, SameListed DEF Good
<1> QED
  BY <1>3, <1>4, <1>5, <1>7 DEF Good, Ordered, r

-----------------------------------------------------------------------------
(***************************************************************************)
(* The channels, their timers and the stack.                               *)
(***************************************************************************)

KitType == [chan: [Channels -> Channel], rc: [Channels -> Instance],
            timers: Seq(TimerHandler), passes: Nat, frames: Seq(Frame)]

\* The handlers of a channel, each set once and for an event of its mode.
HandlersSound(s, c) ==
  LET hs == s.chan[c].handlers
  IN  /\ \A i, j \in DOMAIN hs : hs[i] = hs[j] => i = j
      /\ \A i \in DOMAIN hs : hs[i] \in s.rc[c].validMask

\* Only an open channel has handlers and timers, and the timers are in the list.
ChannelSound(s, c) ==
  /\ HandlersSound(s, c)
  /\ s.chan[c].handlers # <<>> => Opened(s, c)
  /\ s.rc[c].timer \/ s.chan[c].timer => Opened(s, c)
  /\ s.rc[c].timer <=> Listed(s.timers, "rcTimerProc", c)
  /\ s.chan[c].timer <=> Listed(s.timers, "ChannelTimerProc", c)

Sound(s) ==
  /\ s \in KitType
  /\ Good(s.timers, s.passes)
  /\ \A c \in Channels : ChannelSound(s, c)

\* A frame is the application's script at the bottom, or above it; only scripts
\* and notifications use a channel, and a notification comes to a living handler.
FrameSound(s, f) ==
  /\ f.chan # None => f.kind \in {"script", "notify"}
  /\ f.kind = "notify" => /\ f.chan # None
                          /\ f.event \in Interest(s, f.chan) \cup {None}

Stack(s) ==
  /\ s.frames # <<>>
  /\ s.frames[1].kind = "script" /\ s.frames[1].chan = None
  /\ \A i \in DOMAIN s.frames : FrameSound(s, s.frames[i])
  /\ s.passes = Cardinality(PassesOf(s.frames))

\* The references to a channel, with k that nobody holds.
Held(s, c, k) ==
  s.chan[c].refCount =
    Cardinality(Uses(s.frames, c)) + (IF s.chan[c].timer THEN 1 ELSE 0) + k

Used(s, c) ==
  /\ s.chan[c].life = "closed" => Uses(s.frames, c) # {}
  /\ s.chan[c].life = "none"   => Uses(s.frames, c) = {}

ArmedFor(s, c) == \A e \in Interest(s, c) : Armed(s, c, e)

Quiet(s, c) == \A i \in Uses(s.frames, c) : s.frames[i].kind # "notify"

KInv(s) ==
  /\ Sound(s)
  /\ Stack(s)
  /\ \A c \in Channels : Held(s, c, 0) /\ Used(s, c)
  /\ \A c \in Channels : Quiet(s, c) => ArmedFor(s, c)

\* The inductive invariant.
IInv ==
  /\ KInv(kit)
  /\ pending \in BOOLEAN /\ queued = IF pending THEN 1 ELSE 0

-----------------------------------------------------------------------------
\* The stack.

LEMMA UsesCounted ==
  ASSUME NEW fs \in Seq(Frame), NEW c
  PROVE  /\ IsFiniteSet(Uses(fs, c)) /\ Cardinality(Uses(fs, c)) \in Nat
         /\ IsFiniteSet(PassesOf(fs)) /\ Cardinality(PassesOf(fs)) \in Nat
<1>1. IsFiniteSet(1 .. Len(fs)) /\ DOMAIN fs = 1 .. Len(fs)
  BY FS_Interval
<1>2. Uses(fs, c) \subseteq 1 .. Len(fs) /\ PassesOf(fs) \subseteq 1 .. Len(fs)
  BY <1>1 DEF Uses, PassesOf
<1>3. IsFiniteSet(Uses(fs, c)) /\ IsFiniteSet(PassesOf(fs))
  BY <1>1, <1>2, FS_Subset
<1> QED
  BY <1>3, FS_CardinalityType

\* A frame is put on the stack.
LEMMA Pushed ==
  ASSUME NEW fs \in Seq(Frame), NEW f \in Frame
  PROVE  LET gs == Append(fs, f) IN
           /\ gs \in Seq(Frame) /\ gs # <<>> /\ DOMAIN gs = DOMAIN fs \cup {Len(fs) + 1}
           /\ Len(fs) + 1 \notin DOMAIN fs
           /\ gs[Len(fs) + 1] = f /\ \A i \in DOMAIN fs : gs[i] = fs[i]
           /\ \A c : Uses(gs, c) = Uses(fs, c)
                       \cup (IF f.chan = c THEN {Len(fs) + 1} ELSE {})
           /\ \A c : Cardinality(Uses(gs, c)) =
                       Cardinality(Uses(fs, c)) + (IF f.chan = c THEN 1 ELSE 0)
           /\ Cardinality(PassesOf(gs)) =
                Cardinality(PassesOf(fs)) + (IF f.kind = "pass" THEN 1 ELSE 0)
<1> DEFINE gs == Append(fs, f)
           n  == Len(fs) + 1
<1>1. /\ gs \in Seq(Frame) /\ Len(gs) = n /\ n \in Nat \ {0} /\ DOMAIN fs = 1 .. n - 1
      /\ gs[n] = f /\ \A i \in DOMAIN fs : gs[i] = fs[i]
  OBVIOUS
<1>2. DOMAIN gs = DOMAIN fs \cup {n} /\ n \notin DOMAIN fs /\ gs # <<>>
  BY <1>1
<1> HIDE DEF gs, n
<1>3. /\ \A c : Uses(gs, c) = Uses(fs, c) \cup (IF f.chan = c THEN {n} ELSE {})
      /\ PassesOf(gs) = PassesOf(fs) \cup (IF f.kind = "pass" THEN {n} ELSE {})
  BY <1>1, <1>2 DEF Uses, PassesOf
<1>4. \A c : n \notin Uses(fs, c) /\ n \notin PassesOf(fs)
  BY <1>2 DEF Uses, PassesOf
<1>5. ASSUME NEW c
      PROVE  Cardinality(Uses(gs, c)) =
               Cardinality(Uses(fs, c)) + (IF f.chan = c THEN 1 ELSE 0)
  <2>1. IsFiniteSet(Uses(fs, c)) /\ Cardinality(Uses(fs, c)) \in Nat
    BY UsesCounted
  <2>2. CASE f.chan = c
    BY <1>3, <1>4, <2>1, <2>2, FS_AddElement
  <2>3. CASE f.chan # c
    <3>1. Uses(gs, c) = Uses(fs, c)
      BY <1>3, <2>3
    <3> QED
      BY <2>1, <2>3, <3>1
  <2> QED
    BY <2>2, <2>3
<1>6. Cardinality(PassesOf(gs)) =
        Cardinality(PassesOf(fs)) + (IF f.kind = "pass" THEN 1 ELSE 0)
  <2>1. IsFiniteSet(PassesOf(fs)) /\ Cardinality(PassesOf(fs)) \in Nat
    BY UsesCounted
  <2>2. CASE f.kind = "pass"
    BY <1>3, <1>4, <2>1, <2>2, FS_AddElement
  <2>3. CASE f.kind # "pass"
    <3>1. PassesOf(gs) = PassesOf(fs)
      BY <1>3, <2>3
    <3> QED
      BY <2>1, <2>3, <3>1
  <2> QED
    BY <2>2, <2>3
<1> QED
  BY <1>1, <1>2, <1>3, <1>5, <1>6 DEF gs, n

\* The frame on top of the stack is taken from it.
LEMMA Popped ==
  ASSUME NEW fs \in Seq(Frame), fs # <<>>
  PROVE  LET gs == Front(fs)
             f  == Last(fs)
         IN  /\ gs \in Seq(Frame) /\ Len(gs) = Len(fs) - 1
             /\ Len(fs) \in Nat \ {0} /\ f = fs[Len(fs)] /\ f \in Frame
             /\ DOMAIN gs = 1 .. Len(fs) - 1 /\ DOMAIN fs = 1 .. Len(fs)
             /\ \A i \in DOMAIN gs : gs[i] = fs[i]
             /\ \A c : Uses(gs, c) = Uses(fs, c) \ {Len(fs)}
             /\ \A c : Cardinality(Uses(fs, c)) =
                         Cardinality(Uses(gs, c)) + (IF f.chan = c THEN 1 ELSE 0)
             /\ Cardinality(PassesOf(fs)) =
                  Cardinality(PassesOf(gs)) + (IF f.kind = "pass" THEN 1 ELSE 0)
<1> DEFINE gs == Front(fs)
           n  == Len(fs)
           f  == Last(fs)
<1>1. n \in Nat \ {0} /\ DOMAIN fs = 1 .. n /\ f = fs[n] /\ fs[n] \in Frame
  BY EmptySeq DEF Last
<1>2. gs \in Seq(Frame) /\ Len(gs) = n - 1 /\ \A i \in 1 .. n - 1 : gs[i] = fs[i]
  BY DropLast
<1>3. DOMAIN gs = 1 .. n - 1
  BY <1>2
<1> HIDE DEF gs, n, f
<1>4. DOMAIN gs = DOMAIN fs \ {n} /\ \A i \in DOMAIN gs : gs[i] = fs[i]
  BY <1>1, <1>2, <1>3
<1>5. /\ \A c : Uses(gs, c) = Uses(fs, c) \ {n}
      /\ PassesOf(gs) = PassesOf(fs) \ {n}
  BY <1>4 DEF Uses, PassesOf
<1>6. /\ \A c : n \in Uses(fs, c) <=> f.chan = c
      /\ n \in PassesOf(fs) <=> f.kind = "pass"
  BY <1>1 DEF Uses, PassesOf
<1>7. ASSUME NEW c
      PROVE  Cardinality(Uses(fs, c)) =
               Cardinality(Uses(gs, c)) + (IF f.chan = c THEN 1 ELSE 0)
  <2>1. IsFiniteSet(Uses(fs, c)) /\ Cardinality(Uses(fs, c)) \in Nat
    BY UsesCounted
  <2>2. CASE f.chan = c
    <3>1. Cardinality(Uses(gs, c)) = Cardinality(Uses(fs, c)) - 1
      BY <1>5, <1>6, <2>1, <2>2, FS_RemoveElement
    <3> QED
      BY <2>1, <2>2, <3>1
  <2>3. CASE f.chan # c
    <3>1. Uses(gs, c) = Uses(fs, c)
      BY <1>5, <1>6, <2>3
    <3> QED
      BY <2>1, <2>3, <3>1
  <2> QED
    BY <2>2, <2>3
<1>8. Cardinality(PassesOf(fs)) =
        Cardinality(PassesOf(gs)) + (IF f.kind = "pass" THEN 1 ELSE 0)
  <2>1. IsFiniteSet(PassesOf(fs)) /\ Cardinality(PassesOf(fs)) \in Nat
    BY UsesCounted
  <2>2. CASE f.kind = "pass"
    <3>1. Cardinality(PassesOf(gs)) = Cardinality(PassesOf(fs)) - 1
      BY <1>5, <1>6, <2>1, <2>2, FS_RemoveElement
    <3> QED
      BY <2>1, <2>2, <3>1
  <2>3. CASE f.kind # "pass"
    <3>1. PassesOf(gs) = PassesOf(fs)
      BY <1>5, <1>6, <2>3
    <3> QED
      BY <2>1, <2>3, <3>1
  <2> QED
    BY <2>2, <2>3
<1> QED
  BY <1>1, <1>2, <1>3, <1>4, <1>5, <1>7, <1>8 DEF gs, n, f

-----------------------------------------------------------------------------
\* The driver.

LEMMA TimerFacts ==
  ASSUME NEW s, Sound(s), NEW c \in Channels
  PROVE  /\ s \in KitType /\ s.passes \in Nat /\ Good(s.timers, s.passes)
         /\ s.rc[c] \in Instance /\ s.chan[c] \in Channel
         /\ s.rc[c].timer \in BOOLEAN /\ s.chan[c].timer \in BOOLEAN
         /\ ChannelSound(s, c)
  BY DEF Sound, KitType, Instance, Channel

\* Tcl_DeleteTimerHandler alone leaves the flag behind.
LEMMA TimerDeleted ==
  ASSUME NEW s, s \in KitType, Good(s.timers, s.passes), NEW proc, NEW c
  PROVE  LET t == Tcl_DeleteTimerHandler(s, proc, c) IN
           /\ t \in KitType /\ Good(t.timers, t.passes)
           /\ t.chan = s.chan /\ t.rc = s.rc /\ t.passes = s.passes
           /\ t.frames = s.frames
           /\ \A q, d : Listed(t.timers, q, d)
                <=> Listed(s.timers, q, d) /\ ~ (q = proc /\ d = c)
<1>1. s.passes \in Nat
  BY DEF KitType
<1>2. /\ Good(Deleted(s.timers, proc, c), s.passes)
      /\ \A q, d : Listed(Deleted(s.timers, proc, c), q, d)
           <=> Listed(s.timers, q, d) /\ ~ (q = proc /\ d = c)
  BY <1>1, DeletedGood
<1>3. Deleted(s.timers, proc, c) \in Seq(TimerHandler)
  BY <1>2 DEF Good
<1> DEFINE t == Tcl_DeleteTimerHandler(s, proc, c)
<1>4. /\ t \in KitType /\ t.timers = Deleted(s.timers, proc, c)
      /\ t.chan = s.chan /\ t.rc = s.rc /\ t.passes = s.passes
      /\ t.frames = s.frames
  BY <1>3 DEF KitType, Tcl_DeleteTimerHandler
<1> HIDE DEF t
<1> QED
  BY <1>2, <1>4 DEF t

LEMMA TimerCreated ==
  ASSUME NEW s, s \in KitType, Good(s.timers, s.passes),
         NEW proc \in {"rcTimerProc", "ChannelTimerProc"}, NEW c \in Channels,
         NEW delay \in 0 .. MaxDelay, ~Listed(s.timers, proc, c)
  PROVE  LET t == Tcl_CreateTimerHandler(s, delay, proc, c) IN
           /\ t \in KitType /\ Good(t.timers, t.passes)
           /\ t.chan = s.chan /\ t.rc = s.rc /\ t.passes = s.passes
           /\ t.frames = s.frames
           /\ \A q, d : Listed(t.timers, q, d)
                <=> Listed(s.timers, q, d) \/ (q = proc /\ d = c)
<1> DEFINE h == [proc |-> proc, chan |-> c, due |-> delay, era |-> s.passes]
<1>1. s.passes \in Nat
  BY DEF KitType
<1>2. /\ h \in TimerHandler /\ h.era = s.passes /\ h.proc = proc /\ h.chan = c
      /\ \A q, d : Is(h, q, d) <=> q = proc /\ d = c
  BY <1>1 DEF TimerHandler, Is
<1> HIDE DEF h
<1>3. /\ Good(Created(s.timers, h), s.passes)
      /\ \A q, d : Listed(Created(s.timers, h), q, d)
           <=> Listed(s.timers, q, d) \/ Is(h, q, d)
  BY <1>1, <1>2, CreatedGood
<1>4. Created(s.timers, h) \in Seq(TimerHandler)
  BY <1>3 DEF Good
<1> DEFINE t == [s EXCEPT !.timers = Created(s.timers, h)]
<1>5. /\ t \in KitType /\ t.timers = Created(s.timers, h)
      /\ t.chan = s.chan /\ t.rc = s.rc /\ t.passes = s.passes
      /\ t.frames = s.frames
  BY <1>4 DEF KitType
<1>6. Tcl_CreateTimerHandler(s, delay, proc, c) = t
  BY Zenon DEF Tcl_CreateTimerHandler, h
<1> HIDE DEF t
<1> QED
  BY <1>2, <1>3, <1>5, <1>6

\* An instance changes its masks or forgets its timer.
LEMMA InstanceChanged ==
  ASSUME NEW s, s \in KitType, NEW c \in Channels, NEW x \in Instance
  PROVE  LET t == [s EXCEPT !.rc[c] = x] IN
           /\ t \in KitType
           /\ t.chan = s.chan /\ t.passes = s.passes /\ t.frames = s.frames
           /\ t.timers = s.timers /\ t.rc = [s.rc EXCEPT ![c] = x]
  BY DEF KitType

\* The state behind a change of the timers and of one instance is sound again.
LEMMA SoundAgain ==
  ASSUME NEW s, Sound(s), NEW t, t \in KitType, Good(t.timers, t.passes),
         NEW c \in Channels, ChannelSound(t, c),
         \A d \in Channels \ {c} :
           /\ t.chan[d] = s.chan[d] /\ t.rc[d] = s.rc[d]
           /\ \A q : Listed(t.timers, q, d) <=> Listed(s.timers, q, d)
  PROVE  Sound(t)
<1>1. ASSUME NEW d \in Channels, d # c
      PROVE  ChannelSound(t, d)
  <2>1. t.chan[d] = s.chan[d] /\ t.rc[d] = s.rc[d]
        /\ \A q : Listed(t.timers, q, d) <=> Listed(s.timers, q, d)
    BY <1>1
  <2>2. ChannelSound(s, d)
    BY DEF Sound
  <2> QED
    BY <2>1, <2>2 DEF ChannelSound, HandlersSound, Opened
<1> QED
  BY <1>1 DEF Sound

LEMMA DropTimerKeeps ==
  ASSUME NEW s, Sound(s), NEW c \in Channels
  PROVE  LET t == DropTimer(s, c) IN
           /\ Sound(t)
           /\ t.chan = s.chan /\ t.passes = s.passes /\ t.frames = s.frames
           /\ t.rc = [s.rc EXCEPT ![c] = [s.rc[c] EXCEPT !.timer = FALSE]]
<1> DEFINE x == [s.rc[c] EXCEPT !.timer = FALSE]
           t == DropTimer(s, c)
<1>1. /\ s \in KitType /\ s.passes \in Nat /\ Good(s.timers, s.passes)
      /\ s.rc[c] \in Instance /\ s.chan[c] \in Channel
      /\ s.rc[c].timer \in BOOLEAN /\ ChannelSound(s, c)
  BY TimerFacts
<1>2. /\ x \in Instance /\ x.timer = FALSE /\ x.validMask = s.rc[c].validMask
      /\ ~s.rc[c].timer => x = s.rc[c]
  BY <1>1 DEF Instance
<1> HIDE DEF x
<1>3. CASE ~s.rc[c].timer
  <2>1. t = s
    BY <1>3 DEF DropTimer
  <2>2. s.rc = [s.rc EXCEPT ![c] = x]
    BY <1>1, <1>2, <1>3 DEF KitType
  <2> QED
    BY <2>1, <2>2 DEF x
<1>4. CASE s.rc[c].timer
  <2> DEFINE r == Tcl_DeleteTimerHandler(s, "rcTimerProc", c)
  <2>1. /\ r \in KitType /\ Good(r.timers, r.passes)
        /\ r.chan = s.chan /\ r.rc = s.rc /\ r.passes = s.passes
        /\ r.frames = s.frames
        /\ \A q, d : Listed(r.timers, q, d)
             <=> Listed(s.timers, q, d) /\ ~ (q = "rcTimerProc" /\ d = c)
    BY <1>1, TimerDeleted
  <2> HIDE DEF r
  <2>2. t = [r EXCEPT !.rc[c] = x]
    <3>1. t = [r EXCEPT !.rc[c].timer = FALSE]
      BY <1>4 DEF DropTimer, r
    <3> QED
      BY <2>1, <3>1 DEF x, KitType
  <2> HIDE DEF t
  <2>3. /\ t \in KitType /\ t.timers = r.timers
        /\ t.chan = s.chan /\ t.passes = s.passes /\ t.frames = s.frames
        /\ t.rc = [s.rc EXCEPT ![c] = x]
    BY <1>2, <2>1, <2>2, InstanceChanged
  <2>4. t.rc[c] = x /\ \A d \in Channels \ {c} : t.rc[d] = s.rc[d]
    BY <1>1, <2>3 DEF KitType
  <2>5. ChannelSound(t, c)
    BY <1>1, <1>2, <2>1, <2>3, <2>4 DEF ChannelSound, HandlersSound, Opened
  <2>6. Good(t.timers, t.passes)
    BY <2>1, <2>3
  <2>7. \A d \in Channels \ {c} :
          /\ t.chan[d] = s.chan[d] /\ t.rc[d] = s.rc[d]
          /\ \A q : Listed(t.timers, q, d) <=> Listed(s.timers, q, d)
    BY <2>1, <2>3, <2>4
  <2>8. Sound(t)
    BY <2>3, <2>5, <2>6, <2>7, SoundAgain
  <2> QED
    BY <2>3, <2>8 DEF t, x
<1> QED
  BY <1>3, <1>4

\* What the driver and UpdateInterest leave of a state.
Around(s, t, c) ==
  /\ t.passes = s.passes /\ t.frames = s.frames
  /\ t.rc[c].validMask = s.rc[c].validMask
  /\ \A d \in Channels \ {c} : t.chan[d] = s.chan[d] /\ t.rc[d] = s.rc[d]

LEMMA rcWatchChannelKeeps ==
  ASSUME NEW s, Sound(s), NEW c \in Channels, Opened(s, c), NEW mask \in SUBSET Events
  PROVE  LET t == rcWatchChannel(s, c, mask) IN
           /\ Sound(t) /\ Around(s, t, c) /\ t.chan = s.chan
           /\ \A e \in mask \cap s.rc[c].validMask :
                t.rc[c].timer /\ e \in t.rc[c].watchMask
<1> DEFINE watch == mask \cap s.rc[c].validMask
           x  == [s.rc[c] EXCEPT !.watchMask = watch]
           s1 == [s EXCEPT !.rc[c] = x]
           t  == rcWatchChannel(s, c, mask)
<1>1. /\ s \in KitType /\ s.passes \in Nat /\ Good(s.timers, s.passes)
      /\ s.rc[c] \in Instance /\ s.chan[c] \in Channel
      /\ s.rc[c].timer \in BOOLEAN /\ ChannelSound(s, c)
  BY TimerFacts
<1>2. /\ x \in Instance /\ x.timer = s.rc[c].timer
      /\ x.validMask = s.rc[c].validMask /\ x.watchMask = watch
  BY <1>1 DEF Instance
<1>3. /\ mask = {} => t = DropTimer(s, c)
      /\ mask # {} /\ watch # {} /\ ~s.rc[c].timer =>
           t = [Tcl_CreateTimerHandler(s1, RcDelay, "rcTimerProc", c)
                  EXCEPT !.rc[c].timer = TRUE]
      /\ mask # {} /\ ~ (watch # {} /\ ~s.rc[c].timer) => t = s1
  BY DEF rcWatchChannel
<1> HIDE DEF t, x
<1>4. /\ s1 \in KitType /\ s1.timers = s.timers
      /\ s1.chan = s.chan /\ s1.passes = s.passes /\ s1.frames = s.frames
      /\ s1.rc = [s.rc EXCEPT ![c] = x]
  BY <1>1, <1>2, InstanceChanged
<1> HIDE DEF s1
<1>5. s1.rc[c] = x /\ \A d \in Channels \ {c} : s1.rc[d] = s.rc[d]
  BY <1>1, <1>4 DEF KitType
<1>6. Sound(s1)
  <2>1. ChannelSound(s1, c)
    BY <1>1, <1>2, <1>4, <1>5 DEF ChannelSound, HandlersSound, Opened
  <2> QED
    BY <1>1, <1>4, <1>5, <2>1, SoundAgain
<1>7. CASE mask = {}
  <2>1. /\ Sound(t)
        /\ t.chan = s.chan /\ t.passes = s.passes /\ t.frames = s.frames
        /\ t.rc = [s.rc EXCEPT ![c] = [s.rc[c] EXCEPT !.timer = FALSE]]
    BY <1>3, <1>7, DropTimerKeeps
  <2>2. /\ t.rc[c].validMask = s.rc[c].validMask
        /\ \A d \in Channels \ {c} : t.rc[d] = s.rc[d]
    BY <1>1, <2>1 DEF KitType, Instance
  <2> QED
    BY <1>7, <2>1, <2>2 DEF Around, t
<1>8. CASE mask # {} /\ ~ (watch # {} /\ ~s.rc[c].timer)
  <2>1. t = s1
    BY <1>3, <1>8
  <2>2. Around(s, t, c)
    BY <1>2, <1>4, <1>5, <2>1 DEF Around
  <2> QED
    BY <1>2, <1>4, <1>5, <1>6, <1>8, <2>1, <2>2 DEF t
<1>9. CASE mask # {} /\ watch # {} /\ ~s.rc[c].timer
  <2> DEFINE r == Tcl_CreateTimerHandler(s1, RcDelay, "rcTimerProc", c)
             y == [x EXCEPT !.timer = TRUE]
  <2>1. Good(s1.timers, s1.passes) /\ ~Listed(s1.timers, "rcTimerProc", c)
    BY <1>1, <1>4, <1>9 DEF ChannelSound
  <2>2. /\ r \in KitType /\ Good(r.timers, r.passes)
        /\ r.chan = s1.chan /\ r.rc = s1.rc /\ r.passes = s1.passes
        /\ r.frames = s1.frames
        /\ \A q, d : Listed(r.timers, q, d)
             <=> Listed(s1.timers, q, d) \/ (q = "rcTimerProc" /\ d = c)
    BY <1>4, <2>1, RcDelayAssumption, TimerCreated
  <2>3. /\ y \in Instance /\ y.timer = TRUE
        /\ y.validMask = s.rc[c].validMask /\ y.watchMask = watch
    BY <1>2 DEF Instance
  <2>4. t = [r EXCEPT !.rc[c] = y]
    <3>1. t = [r EXCEPT !.rc[c].timer = TRUE]
      BY <1>3, <1>9
    <3> HIDE DEF r
    <3> QED
      BY <1>5, <2>2, <3>1 DEF KitType
  <2> HIDE DEF r, y
  <2>5. /\ t \in KitType /\ t.timers = r.timers
        /\ t.chan = r.chan /\ t.passes = r.passes /\ t.frames = r.frames
        /\ t.rc = [r.rc EXCEPT ![c] = y]
    BY <2>2, <2>3, <2>4, InstanceChanged
  <2>6. t.rc[c] = y /\ \A d \in Channels \ {c} : t.rc[d] = s.rc[d]
    BY <1>4, <1>5, <2>2, <2>5 DEF KitType
  <2>7. ChannelSound(t, c)
    BY <1>1, <1>4, <2>2, <2>3, <2>5, <2>6 DEF ChannelSound, HandlersSound, Opened
  <2>8. Sound(t)
    BY <1>4, <2>2, <2>5, <2>6, <2>7, SoundAgain
  <2>9. Around(s, t, c) /\ t.chan = s.chan
    BY <1>4, <2>2, <2>3, <2>5, <2>6 DEF Around
  <2> QED
    BY <2>3, <2>6, <2>8, <2>9 DEF t
<1> QED
  BY <1>7, <1>8, <1>9

-----------------------------------------------------------------------------
\* The channels of the core.

\* A channel changes.
LEMMA ChannelChanged ==
  ASSUME NEW s, s \in KitType, NEW c \in Channels, NEW x \in Channel
  PROVE  LET t == [s EXCEPT !.chan[c] = x] IN
           /\ t \in KitType /\ t.chan = [s.chan EXCEPT ![c] = x]
           /\ t.chan[c] = x /\ \A d \in Channels \ {c} : t.chan[d] = s.chan[d]
           /\ t.rc = s.rc /\ t.timers = s.timers
           /\ t.passes = s.passes /\ t.frames = s.frames
  BY DEF KitType

\* The timer of the core is created.  Its reference is the caller's.
LEMMA StartTimerKeeps ==
  ASSUME NEW s, s \in KitType, Good(s.timers, s.passes), NEW c \in Channels,
         ~Listed(s.timers, "ChannelTimerProc", c)
  PROVE  LET t == StartTimer(s, c) IN
           /\ t \in KitType /\ Good(t.timers, t.passes)
           /\ t.chan[c] = [s.chan[c] EXCEPT !.timer = TRUE]
           /\ \A d \in Channels \ {c} : t.chan[d] = s.chan[d]
           /\ t.rc = s.rc /\ t.passes = s.passes /\ t.frames = s.frames
           /\ \A q, d : Listed(t.timers, q, d)
                <=> Listed(s.timers, q, d) \/ (q = "ChannelTimerProc" /\ d = c)
<1> DEFINE r == Tcl_CreateTimerHandler(s, 0, "ChannelTimerProc", c)
           x == [s.chan[c] EXCEPT !.timer = TRUE]
           t == StartTimer(s, c)
<1>1. x \in Channel
  BY DEF KitType, Channel
<1>2. /\ r \in KitType /\ Good(r.timers, r.passes)
      /\ r.chan = s.chan /\ r.rc = s.rc /\ r.passes = s.passes
      /\ r.frames = s.frames
      /\ \A q, d : Listed(r.timers, q, d)
           <=> Listed(s.timers, q, d) \/ (q = "ChannelTimerProc" /\ d = c)
  <2>1. 0 \in 0 .. MaxDelay
    BY MaxDelayAssumption
  <2> QED
    BY <2>1, TimerCreated
<1>3. t = [r EXCEPT !.chan[c] = x]
  <2>1. t = [r EXCEPT !.chan[c].timer = TRUE]
    BY DEF StartTimer
  <2> HIDE DEF r, t
  <2> QED
    BY <1>2, <2>1 DEF KitType
<1> HIDE DEF r, x, t
<1>4. /\ t \in KitType
      /\ t.chan[c] = x /\ \A d \in Channels \ {c} : t.chan[d] = r.chan[d]
      /\ t.rc = r.rc /\ t.timers = r.timers
      /\ t.passes = r.passes /\ t.frames = r.frames
  BY <1>1, <1>2, <1>3, ChannelChanged
<1> QED
  BY <1>2, <1>4 DEF t, x

LEMMA InterestOf ==
  ASSUME NEW s, Sound(s), NEW c \in Channels
  PROVE  /\ Interest(s, c) \subseteq Events
         /\ Interest(s, c) \subseteq s.rc[c].validMask
         /\ s.chan[c].handlers = <<>> <=> Interest(s, c) = {}
         /\ Interest(s, c) # {} => Opened(s, c)
<1>1. s.chan[c].handlers \in Seq(Events) /\ ChannelSound(s, c)
  BY TimerFacts DEF Channel
<1>2. /\ Interest(s, c) \subseteq Events /\ Interest(s, c) \subseteq s.rc[c].validMask
      /\ s.chan[c].handlers = <<>> => Interest(s, c) = {}
  BY <1>1 DEF Interest, ToSet, ChannelSound, HandlersSound
<1>3. ASSUME s.chan[c].handlers # <<>>
      PROVE  s.chan[c].handlers[1] \in Interest(s, c)
  BY <1>1, <1>3 DEF Interest, ToSet
<1> QED
  BY <1>1, <1>2, <1>3 DEF ChannelSound

\* UpdateInterest sees to it that the interest is looked for.
LEMMA UpdateInterestKeeps ==
  ASSUME NEW s, Sound(s), NEW c \in Channels
  PROVE  LET t == UpdateInterest(s, c) IN
           /\ Sound(t) /\ Around(s, t, c)
           /\ t.chan[c].life = s.chan[c].life
           /\ t.chan[c].handlers = s.chan[c].handlers
           /\ \A k \in Nat : Held(s, c, k) => Held(t, c, k)
           /\ ArmedFor(t, c)
<1> DEFINE t == UpdateInterest(s, c)
           A == "readable" \in Interest(s, c) /\ ReadyInput(s, c)
<1>1. /\ s \in KitType /\ s.passes \in Nat /\ Good(s.timers, s.passes)
      /\ s.rc[c] \in Instance /\ s.chan[c] \in Channel
      /\ s.chan[c].timer \in BOOLEAN /\ ChannelSound(s, c)
  BY TimerFacts
<1>2. /\ Interest(s, c) \subseteq Events
      /\ Interest(s, c) \subseteq s.rc[c].validMask
      /\ Interest(s, c) # {} => Opened(s, c)
  BY InterestOf
<1>3. CASE ~Opened(s, c)
  <2>1. t = s
    BY <1>3 DEF UpdateInterest
  <2>2. ArmedFor(s, c)
    BY <1>2, <1>3 DEF ArmedFor
  <2> QED
    BY <2>1, <2>2 DEF Around
<1>4. CASE Opened(s, c) /\ ~A
  <2>1. t = rcWatchChannel(s, c, Interest(s, c))
    BY <1>4 DEF UpdateInterest
  <2> HIDE DEF t
  <2>2. /\ Sound(t) /\ Around(s, t, c) /\ t.chan = s.chan
        /\ \A e \in Interest(s, c) \cap s.rc[c].validMask :
             t.rc[c].timer /\ e \in t.rc[c].watchMask
    BY <1>2, <1>4, <2>1, rcWatchChannelKeeps
  <2>3. ArmedFor(t, c)
    BY <1>2, <2>2 DEF ArmedFor, Armed, Interest
  <2>4. \A k \in Nat : Held(s, c, k) => Held(t, c, k)
    BY <2>2 DEF Held, Around
  <2> QED
    BY <2>2, <2>3, <2>4 DEF t
<1>5. CASE Opened(s, c) /\ A
  <2> DEFINE x == [s.chan[c] EXCEPT !.refCount = @ + 1]
             s1 == TclChannelPreserve(s, c)
             s2 == IF s.chan[c].timer THEN s ELSE StartTimer(s1, c)
  <2>1. t = rcWatchChannel(s2, c, Interest(s, c) \ {"readable"})
    BY <1>5 DEF UpdateInterest
  <2>2. /\ Sound(s2) /\ Around(s, s2, c) /\ s2.rc = s.rc
        /\ s2.chan[c].life = s.chan[c].life
        /\ s2.chan[c].handlers = s.chan[c].handlers
        /\ s2.chan[c].timer
        /\ \A k \in Nat : Held(s, c, k) => Held(s2, c, k)
    <3>1. CASE s.chan[c].timer
      BY <1>1, <3>1 DEF Around
    <3>2. CASE ~s.chan[c].timer
      <4>1. /\ x \in Channel /\ x.refCount = s.chan[c].refCount + 1
            /\ x.life = s.chan[c].life /\ x.handlers = s.chan[c].handlers
        BY <1>1 DEF Channel
      <4>2. s1 = [s EXCEPT !.chan[c] = x]
        BY DEF TclChannelPreserve
      <4> HIDE DEF x, s1
      <4>3. /\ s1 \in KitType /\ s1.chan[c] = x
            /\ \A d \in Channels \ {c} : s1.chan[d] = s.chan[d]
            /\ s1.rc = s.rc /\ s1.timers = s.timers
            /\ s1.passes = s.passes /\ s1.frames = s.frames
        BY <1>1, <4>1, <4>2, ChannelChanged
      <4> DEFINE r == StartTimer(s1, c)
      <4>4. /\ r \in KitType /\ Good(r.timers, r.passes)
            /\ r.chan[c] = [s1.chan[c] EXCEPT !.timer = TRUE]
            /\ \A d \in Channels \ {c} : r.chan[d] = s1.chan[d]
            /\ r.rc = s1.rc /\ r.passes = s1.passes /\ r.frames = s1.frames
            /\ \A q, d : Listed(r.timers, q, d)
                 <=> Listed(s1.timers, q, d) \/ (q = "ChannelTimerProc" /\ d = c)
        <5>1. Good(s1.timers, s1.passes) /\ ~Listed(s1.timers, "ChannelTimerProc", c)
          BY <1>1, <3>2, <4>3 DEF ChannelSound
        <5> QED
          BY <4>3, <5>1, StartTimerKeeps
      <4> HIDE DEF r
      <4>5. /\ r.chan[c].timer = TRUE /\ r.chan[c].refCount = s.chan[c].refCount + 1
            /\ r.chan[c].life = s.chan[c].life
            /\ r.chan[c].handlers = s.chan[c].handlers
        BY <4>1, <4>3, <4>4 DEF Channel
      <4>6. ChannelSound(r, c)
        BY <1>1, <1>5, <4>3, <4>4, <4>5 DEF ChannelSound, HandlersSound, Opened
      <4>7. Sound(r)
        BY <4>3, <4>4, <4>6, SoundAgain
      <4>8. ASSUME NEW k \in Nat, Held(s, c, k)
            PROVE  Held(r, c, k)
        <5> DEFINE n == Cardinality(Uses(s.frames, c))
        <5>1. s.chan[c].refCount = n + 0 + k
          BY <3>2, <4>8 DEF Held
        <5>2. r.frames = s.frames
          BY <4>3, <4>4
        <5>3. n + 0 + k + 1 = n + 1 + k
          <6>1. n \in Nat
            BY <1>1, UsesCounted DEF KitType
          <6> HIDE DEF n
          <6> QED
            BY <6>1
        <5> QED
          BY <4>5, <5>1, <5>2, <5>3 DEF Held
      <4>9. r = s2
        BY <3>2 DEF r
      <4>10. Around(s, r, c)
        BY <4>3, <4>4 DEF Around
      <4> HIDE DEF s2
      <4> QED
        BY <4>3, <4>4, <4>5, <4>7, <4>8, <4>9, <4>10
    <3> QED
      BY <1>1, <3>1, <3>2
  <2> HIDE DEF s2, t
  <2>3. /\ Sound(t) /\ Around(s2, t, c) /\ t.chan = s2.chan
        /\ \A e \in (Interest(s, c) \ {"readable"}) \cap s2.rc[c].validMask :
             t.rc[c].timer /\ e \in t.rc[c].watchMask
    <3>1. Interest(s, c) \ {"readable"} \in SUBSET Events /\ Opened(s2, c)
      BY <1>2, <1>5, <2>2 DEF Opened
    <3> QED
      BY <2>1, <2>2, <3>1, rcWatchChannelKeeps
  <2>4. ArmedFor(t, c)
    BY <1>2, <2>2, <2>3 DEF ArmedFor, Armed, Interest
  <2>5. Around(s, t, c)
    BY <2>2, <2>3 DEF Around
  <2>6. \A k \in Nat : Held(s2, c, k) => Held(t, c, k)
    BY <2>3 DEF Held, Around
  <2> QED
    BY <2>2, <2>3, <2>4, <2>5, <2>6 DEF t
<1> QED
  BY <1>3, <1>4, <1>5

-----------------------------------------------------------------------------
\* The invariant without what it says of one channel's interest, and with k
\* references to that channel that nobody holds.
KInvBut(s, c, k) ==
  /\ Sound(s) /\ Stack(s)
  /\ Held(s, c, k) /\ Used(s, c)
  /\ \A d \in Channels \ {c} :
       Held(s, d, 0) /\ Used(s, d) /\ (Quiet(s, d) => ArmedFor(s, d))

LEMMA KInvParts ==
  ASSUME NEW s, NEW c \in Channels
  PROVE  KInv(s) <=> KInvBut(s, c, 0) /\ (Quiet(s, c) => ArmedFor(s, c))
  BY DEF KInv, KInvBut

LEMMA KInvFacts ==
  ASSUME NEW s, KInv(s), NEW c \in Channels
  PROVE  /\ KInvBut(s, c, 0) /\ Sound(s) /\ ChannelSound(s, c) /\ s \in KitType
         /\ Good(s.timers, s.passes) /\ Held(s, c, 0) /\ Used(s, c)
         /\ s.chan[c] \in Channel /\ s.chan[c].handlers \in Seq(Events)
         /\ s.rc[c] \in Instance
         /\ \A i \in DOMAIN s.frames : FrameSound(s, s.frames[i])
         /\ Quiet(s, c) => ArmedFor(s, c)
<1>1. Sound(s) /\ KInvBut(s, c, 0) /\ (Quiet(s, c) => ArmedFor(s, c))
  BY KInvParts DEF KInvBut
<1>2. /\ s \in KitType /\ s.rc[c] \in Instance /\ s.chan[c] \in Channel
      /\ Good(s.timers, s.passes) /\ ChannelSound(s, c)
  BY <1>1, TimerFacts
<1>3. s.chan[c].handlers \in Seq(Events)
  BY <1>2 DEF Channel
<1> QED
  BY <1>1, <1>2, <1>3 DEF KInvBut, Stack

\* The notifications of t are those of s, and come to the same handlers but for
\* those of c.
SameFrames(s, t, c) ==
  /\ DOMAIN t.frames = DOMAIN s.frames
  /\ t.frames # <<>>
  /\ \A i \in DOMAIN s.frames :
       /\ t.frames[i].kind = s.frames[i].kind
       /\ t.frames[i].chan = s.frames[i].chan
       /\ t.frames[i].chan # c => t.frames[i] = s.frames[i]

SameUses(s, t) ==
  /\ \A d : Uses(t.frames, d) = Uses(s.frames, d)
  /\ PassesOf(t.frames) = PassesOf(s.frames)
  /\ \A d : Quiet(t, d) <=> Quiet(s, d)

LEMMA SameFramesUses ==
  ASSUME NEW s, NEW t, NEW c, SameFrames(s, t, c)
  PROVE  SameUses(s, t)
<1>1. \A d : Uses(t.frames, d) = Uses(s.frames, d)
  BY DEF SameFrames, Uses
<1>2. PassesOf(t.frames) = PassesOf(s.frames)
  BY DEF SameFrames, PassesOf
<1>3. \A d : Quiet(t, d) <=> Quiet(s, d)
  BY <1>1 DEF SameFrames, Quiet, Uses
<1> QED
  BY <1>1, <1>2, <1>3 DEF SameUses

\* What is said of the other channels stays when one channel changes.
LEMMA OthersStay ==
  ASSUME NEW s, NEW c \in Channels, NEW k, KInvBut(s, c, k),
         NEW t, Sound(t), t.passes = s.passes, SameFrames(s, t, c),
         \A d \in Channels \ {c} : t.chan[d] = s.chan[d] /\ t.rc[d] = s.rc[d],
         \A i \in DOMAIN t.frames :
           t.frames[i].kind = "notify" /\ t.frames[i].chan = c
             => t.frames[i].event \in Interest(t, c) \cup {None},
         NEW n, Held(t, c, n), Used(t, c)
  PROVE  KInvBut(t, c, n)
<1>1. SameUses(s, t)
  BY SameFramesUses
<1>2. ASSUME NEW d \in Channels \ {c}
      PROVE  Held(t, d, 0) /\ Used(t, d) /\ (Quiet(t, d) => ArmedFor(t, d))
  <2>1. t.chan[d] = s.chan[d] /\ t.rc[d] = s.rc[d]
        /\ Uses(t.frames, d) = Uses(s.frames, d) /\ (Quiet(t, d) <=> Quiet(s, d))
    BY <1>1 DEF SameUses
  <2>2. Held(s, d, 0) /\ Used(s, d) /\ (Quiet(s, d) => ArmedFor(s, d))
    BY DEF KInvBut
  <2>3. Held(t, d, 0) /\ Used(t, d)
    BY <2>1, <2>2 DEF Held, Used
  <2>4. Quiet(t, d) => ArmedFor(t, d)
    BY <2>1, <2>2 DEF ArmedFor, Armed, Interest
  <2> QED
    BY <2>3, <2>4
<1>3. s.frames # <<>> /\ s.frames \in Seq(Frame) /\ t.frames \in Seq(Frame)
      /\ s.frames[1].kind = "script" /\ s.frames[1].chan = None
  BY DEF KInvBut, Stack, Sound, KitType
<1>4. 1 \in DOMAIN s.frames
  BY <1>3
<1>5. t.frames[1].kind = "script" /\ t.frames[1].chan = None
  BY <1>3, <1>4 DEF SameFrames
<1>6. ASSUME NEW i \in DOMAIN t.frames
      PROVE  FrameSound(t, t.frames[i])
  <2>1. /\ i \in DOMAIN s.frames /\ FrameSound(s, s.frames[i])
        /\ t.frames[i].kind = s.frames[i].kind
        /\ t.frames[i].chan = s.frames[i].chan
        /\ t.frames[i].chan # c => t.frames[i] = s.frames[i]
    BY DEF KInvBut, Stack, SameFrames
  <2>2. t.frames[i].chan \in Channels \cup {None}
    <3>1. t.frames[i] \in Frame
      BY <1>3
    <3> QED
      BY <3>1 DEF Frame
  <2>3. CASE t.frames[i].chan = c
    BY <2>1, <2>3 DEF FrameSound
  <2>4. CASE t.frames[i].chan = None
    BY <2>1, <2>4 DEF FrameSound
  <2>5. CASE t.frames[i].chan \in Channels \ {c}
    <3>1. Interest(t, t.frames[i].chan) = Interest(s, t.frames[i].chan)
      BY <2>5 DEF Interest
    <3> QED
      BY <2>1, <2>5, <3>1 DEF FrameSound
  <2> QED
    BY <2>2, <2>3, <2>4, <2>5
<1>7. t.passes = Cardinality(PassesOf(t.frames))
  BY <1>1 DEF KInvBut, Stack, SameUses
<1> QED
  BY <1>2, <1>5, <1>6, <1>7 DEF KInvBut, Stack, SameFrames

\* UpdateInterest makes the invariant whole again.
LEMMA UpdateInterestRestores ==
  ASSUME NEW s, NEW c \in Channels, NEW k \in Nat, KInvBut(s, c, k)
  PROVE  LET t == UpdateInterest(s, c) IN
           /\ KInvBut(t, c, k) /\ ArmedFor(t, c)
           /\ t.frames = s.frames /\ t.passes = s.passes
           /\ t.chan[c].life = s.chan[c].life
           /\ t.chan[c].handlers = s.chan[c].handlers
<1> DEFINE t == UpdateInterest(s, c)
<1>1. /\ Sound(t) /\ Around(s, t, c)
      /\ t.chan[c].life = s.chan[c].life
      /\ t.chan[c].handlers = s.chan[c].handlers
      /\ Held(t, c, k)
      /\ ArmedFor(t, c)
  BY UpdateInterestKeeps DEF KInvBut
<1> HIDE DEF t
<1>2. SameFrames(s, t, c) /\ Used(t, c)
  BY <1>1 DEF SameFrames, Around, KInvBut, Stack, Used
<1>3. \A i \in DOMAIN t.frames :
        t.frames[i].kind = "notify" /\ t.frames[i].chan = c
          => t.frames[i].event \in Interest(t, c) \cup {None}
  <2>1. \A i \in DOMAIN s.frames : FrameSound(s, s.frames[i])
    BY DEF KInvBut, Stack
  <2> QED
    BY <1>1, <2>1 DEF Around, FrameSound, Interest
<1>4. KInvBut(t, c, k)
  BY <1>1, <1>2, <1>3, OthersStay DEF Around
<1> QED
  BY <1>1, <1>4 DEF t, Around

-----------------------------------------------------------------------------
\* The commands of the scripts.

LEMMA AbsentType ==
  /\ Absent \in Channel /\ Absent.life = "none" /\ Absent.refCount = 0
  /\ Absent.handlers = <<>> /\ Absent.timer = FALSE
<1>1. <<>> \in Seq(Events)
  OBVIOUS
<1> QED
  BY <1>1 DEF Absent, Channel

\* A step that changes no more than the buffer of c and its watch mask.
Mild(s, t, c) ==
  /\ t \in KitType
  /\ t.timers = s.timers /\ t.passes = s.passes /\ t.frames = s.frames
  /\ \A d \in Channels \ {c} : t.chan[d] = s.chan[d] /\ t.rc[d] = s.rc[d]
  /\ t.chan[c].life = s.chan[c].life /\ t.chan[c].handlers = s.chan[c].handlers
  /\ t.chan[c].timer = s.chan[c].timer /\ t.chan[c].refCount = s.chan[c].refCount
  /\ t.rc[c].timer = s.rc[c].timer /\ t.rc[c].validMask = s.rc[c].validMask

LEMMA MildKeeps ==
  ASSUME NEW s, NEW c \in Channels, NEW k, KInvBut(s, c, k), NEW t, Mild(s, t, c)
  PROVE  KInvBut(t, c, k)
<1>1. Sound(s) /\ ChannelSound(s, c) /\ Held(s, c, k) /\ Used(s, c)
      /\ \A i \in DOMAIN s.frames : FrameSound(s, s.frames[i])
  BY DEF KInvBut, Sound, Stack
<1>2. ChannelSound(t, c)
  BY <1>1 DEF Mild, ChannelSound, HandlersSound, Opened
<1>3. Good(t.timers, t.passes)
  BY <1>1 DEF Mild, Sound
<1>4. Sound(t)
  BY <1>1, <1>2, <1>3, SoundAgain DEF Mild
<1>5. SameFrames(s, t, c) /\ Held(t, c, k) /\ Used(t, c)
  BY <1>1 DEF Mild, SameFrames, Held, Used, KInvBut, Stack
<1>6. \A i \in DOMAIN t.frames :
        t.frames[i].kind = "notify" /\ t.frames[i].chan = c
          => t.frames[i].event \in Interest(t, c) \cup {None}
  BY <1>1 DEF Mild, FrameSound, Interest
<1> QED
  BY <1>4, <1>5, <1>6, OthersStay DEF Mild

LEMMA cmd_rechanKeeps ==
  ASSUME NEW s, KInv(s), NEW c \in Channels, s.chan[c].life = "none"
  PROVE  KInv([s EXCEPT !.chan[c] = [Absent EXCEPT !.life = "open"],
                        !.rc[c] = rcCreate(Mode[c])])
<1> DEFINE x == [Absent EXCEPT !.life = "open"]
           y == rcCreate(Mode[c])
           t == [s EXCEPT !.chan[c] = x, !.rc[c] = y]
<1>1. /\ x \in Channel /\ x.life = "open" /\ x.refCount = 0 /\ x.handlers = <<>>
      /\ x.timer = FALSE
  <2>1. Absent \in Channel /\ Absent.refCount = 0 /\ Absent.handlers = <<>>
        /\ Absent.timer = FALSE
    BY AbsentType
  <2> QED
    BY <2>1 DEF Channel
<1>2. y \in Instance /\ y.timer = FALSE
  BY ModeAssumption DEF rcCreate, Instance
<1>3. KInvBut(s, c, 0) /\ Sound(s) /\ ChannelSound(s, c) /\ s \in KitType
      /\ Good(s.timers, s.passes) /\ Used(s, c)
      /\ \A i \in DOMAIN s.frames : FrameSound(s, s.frames[i])
  BY KInvParts DEF KInvBut, Sound, Stack
<1> HIDE DEF x, y
<1>4. /\ t \in KitType
      /\ t.chan[c] = x /\ \A d \in Channels \ {c} : t.chan[d] = s.chan[d]
      /\ t.rc[c] = y /\ \A d \in Channels \ {c} : t.rc[d] = s.rc[d]
      /\ t.timers = s.timers /\ t.passes = s.passes /\ t.frames = s.frames
  BY <1>1, <1>2, <1>3 DEF KitType
<1> HIDE DEF t
<1>5. ~s.rc[c].timer /\ ~s.chan[c].timer /\ s.chan[c].handlers = <<>>
  BY <1>3 DEF ChannelSound, Opened
<1>6. ChannelSound(t, c)
  BY <1>1, <1>2, <1>3, <1>4, <1>5 DEF ChannelSound, HandlersSound, Opened
<1>7. Sound(t)
  BY <1>3, <1>4, <1>6, SoundAgain
<1>8. SameFrames(s, t, c)
  BY <1>3, <1>4 DEF SameFrames, KInvBut, Stack
<1>9. Uses(s.frames, c) = {}
  BY <1>3 DEF Used
<1>10. Held(t, c, 0) /\ Used(t, c)
  BY <1>1, <1>4, <1>9, FS_EmptySet DEF Held, Used
<1>11. \A i \in DOMAIN t.frames : t.frames[i].chan # c
  BY <1>4, <1>9 DEF Uses
<1>12. KInvBut(t, c, 0)
  BY <1>3, <1>4, <1>7, <1>8, <1>10, <1>11, OthersStay
<1>13. ArmedFor(t, c)
  BY <1>1, <1>4, <1>7, InterestOf DEF ArmedFor
<1> QED
  BY <1>12, <1>13, KInvParts DEF t, x, y

\* What fileevent does to the list of handlers.
LEMMA HandlerAdded ==
  ASSUME NEW hs \in Seq(Events), NEW e \in Events, e \notin ToSet(hs),
         \A i, j \in DOMAIN hs : hs[i] = hs[j] => i = j
  PROVE  LET gs == <<e>> \o hs IN
           /\ gs \in Seq(Events) /\ ToSet(gs) = ToSet(hs) \cup {e}
           /\ \A i, j \in DOMAIN gs : gs[i] = gs[j] => i = j
<1> DEFINE gs == <<e>> \o hs
           n  == Len(hs)
<1>1. /\ gs \in Seq(Events) /\ n \in Nat /\ Len(gs) = n + 1 /\ DOMAIN gs = 1 .. n + 1
      /\ gs[1] = e /\ \A i \in 2 .. n + 1 : gs[i] = hs[i - 1] /\ i - 1 \in DOMAIN hs
      /\ DOMAIN hs = 1 .. n
  OBVIOUS
<1> HIDE DEF gs, n
<1>2. \A i \in DOMAIN hs : hs[i] # e
  BY DEF ToSet
<1>3. ASSUME NEW i \in DOMAIN gs, NEW j \in DOMAIN gs, gs[i] = gs[j]
      PROVE  i = j
  <2>1. i \in Nat /\ j \in Nat /\ (i = 1 \/ i \in 2 .. n + 1)
        /\ (j = 1 \/ j \in 2 .. n + 1)
    BY <1>1
  <2>2. CASE i \in 2 .. n + 1 /\ j \in 2 .. n + 1
    <3>1. i - 1 = j - 1
      BY <1>1, <1>3, <2>2
    <3> QED
      BY <2>1, <3>1
  <2> QED
    BY <1>1, <1>2, <1>3, <2>1, <2>2
<1>4. ToSet(gs) = ToSet(hs) \cup {e}
  <2>1. ASSUME NEW i \in DOMAIN gs
        PROVE  gs[i] \in ToSet(hs) \cup {e}
    <3>1. i = 1 \/ i \in 2 .. n + 1
      BY <1>1
    <3> QED
      BY <1>1, <3>1 DEF ToSet
  <2>2. ASSUME NEW i \in DOMAIN hs
        PROVE  hs[i] \in ToSet(gs)
    <3>1. i + 1 \in 2 .. n + 1 /\ i + 1 - 1 = i /\ i + 1 \in DOMAIN gs
      BY <1>1
    <3>2. gs[i + 1] = hs[i]
      BY <1>1, <3>1
    <3> QED
      BY <3>1, <3>2 DEF ToSet
  <2>3. e \in ToSet(gs)
    <3>1. 1 \in DOMAIN gs
      BY <1>1
    <3> QED
      BY <1>1, <3>1 DEF ToSet
  <2> QED
    BY <2>1, <2>2, <2>3 DEF ToSet
<1> QED
  BY <1>1, <1>3, <1>4 DEF gs

LEMMA SetHandlerKeeps ==
  ASSUME NEW s, KInv(s), NEW c \in Channels, NEW e \in Events,
         Opened(s, c), e \in s.rc[c].validMask
  PROVE  KInv(Tcl_CreateChannelHandler(s, c, e))
<1>1. CASE e \in Interest(s, c)
  BY <1>1 DEF Tcl_CreateChannelHandler
<1>2. CASE e \notin Interest(s, c)
  <2> DEFINE hs == s.chan[c].handlers
             gs == <<e>> \o hs
             x  == [s.chan[c] EXCEPT !.handlers = gs]
             t  == [s EXCEPT !.chan[c] = x]
  <2>1. KInvBut(s, c, 0) /\ Sound(s) /\ ChannelSound(s, c) /\ s \in KitType
        /\ Good(s.timers, s.passes) /\ Held(s, c, 0) /\ Used(s, c)
        /\ s.chan[c] \in Channel /\ hs \in Seq(Events)
        /\ \A i \in DOMAIN s.frames : FrameSound(s, s.frames[i])
    BY KInvFacts
  <2>2. \A i, j \in DOMAIN hs : hs[i] = hs[j] => i = j
    BY <2>1 DEF ChannelSound, HandlersSound
  <2>3. /\ gs \in Seq(Events) /\ ToSet(gs) = ToSet(hs) \cup {e}
        /\ \A i, j \in DOMAIN gs : gs[i] = gs[j] => i = j
    BY <1>2, <2>1, <2>2, HandlerAdded DEF Interest
  <2> HIDE DEF gs
  <2>4. /\ x \in Channel /\ x.life = s.chan[c].life /\ x.handlers = gs
        /\ x.timer = s.chan[c].timer /\ x.refCount = s.chan[c].refCount
    BY <2>1, <2>3 DEF Channel
  <2> HIDE DEF x
  <2>5. /\ t \in KitType /\ t.chan[c] = x
        /\ \A d \in Channels \ {c} : t.chan[d] = s.chan[d]
        /\ t.rc = s.rc /\ t.timers = s.timers
        /\ t.passes = s.passes /\ t.frames = s.frames
    BY <2>1, <2>4, ChannelChanged
  <2> HIDE DEF t
  <2>6. \A i \in DOMAIN gs : gs[i] \in s.rc[c].validMask
    <3>1. \A i \in DOMAIN gs : gs[i] \in ToSet(hs) \cup {e}
      BY <2>3 DEF ToSet
    <3>2. ToSet(hs) \subseteq s.rc[c].validMask
      BY <2>1 DEF ChannelSound, HandlersSound, ToSet
    <3> QED
      BY <3>1, <3>2
  <2>7. ChannelSound(t, c)
    BY <2>1, <2>3, <2>4, <2>5, <2>6 DEF ChannelSound, HandlersSound, Opened
  <2>8. Sound(t)
    BY <2>1, <2>5, <2>7, SoundAgain
  <2>9. SameFrames(s, t, c) /\ Held(t, c, 0) /\ Used(t, c)
    BY <2>1, <2>4, <2>5 DEF SameFrames, Held, Used, KInvBut, Stack
  <2>10. Interest(s, c) \subseteq Interest(t, c)
    BY <2>3, <2>4, <2>5 DEF Interest
  <2>11. \A i \in DOMAIN t.frames :
           t.frames[i].kind = "notify" /\ t.frames[i].chan = c
             => t.frames[i].event \in Interest(t, c) \cup {None}
    BY <2>1, <2>5, <2>10 DEF FrameSound
  <2>12. KInvBut(t, c, 0)
    BY <2>1, <2>5, <2>8, <2>9, <2>11, OthersStay
  <2>13. KInv(UpdateInterest(t, c))
    BY <2>12, UpdateInterestRestores, KInvParts
  <2>14. Tcl_CreateChannelHandler(s, c, e) = UpdateInterest(t, c)
    BY <1>2 DEF Tcl_CreateChannelHandler, t, x, gs
  <2> QED
    BY <2>13, <2>14
<1> QED
  BY <1>1, <1>2

LEMMA HandlerRemoved ==
  ASSUME NEW hs \in Seq(Events), NEW e \in ToSet(hs),
         \A i, j \in DOMAIN hs : hs[i] = hs[j] => i = j
  PROVE  LET gs == RemoveAt(hs, CHOOSE i \in DOMAIN hs : hs[i] = e) IN
           /\ gs \in Seq(Events) /\ ToSet(gs) = ToSet(hs) \ {e}
           /\ \A i, j \in DOMAIN gs : gs[i] = gs[j] => i = j
           /\ Successor(hs, e) \in ToSet(gs) \cup {None}
<1> DEFINE k  == CHOOSE i \in DOMAIN hs : hs[i] = e
           n  == Len(hs)
           gs == RemoveAt(hs, k)
<1>1. /\ n \in Nat /\ DOMAIN hs = 1 .. n /\ k \in 1 .. n /\ hs[k] = e
  BY DEF ToSet
<1> HIDE DEF k
<1>2. /\ gs \in Seq(Events) /\ Len(gs) = n - 1
      /\ \A i \in 1 .. k - 1 : gs[i] = hs[i]
      /\ \A i \in k .. n - 1 : gs[i] = hs[i + 1]
  BY ONLY <1>1, hs \in Seq(Events), RemoveElement
<1>3. DOMAIN gs = 1 .. n - 1
  BY <1>2
<1> HIDE DEF n, gs
<1> DEFINE From(i) == IF i < k THEN i ELSE i + 1
<1>4. ASSUME NEW i \in 1 .. n - 1
      PROVE  From(i) \in 1 .. n /\ From(i) # k /\ gs[i] = hs[From(i)]
  <2>1. CASE i \in 1 .. k - 1
    BY <1>1, <1>2, <2>1
  <2>2. CASE i \in k .. n - 1
    BY <1>1, <1>2, <2>2
  <2> QED
    BY <1>1, <1>4, <2>1, <2>2
<1>5. \A i, j \in 1 .. n - 1 : From(i) = From(j) => i = j
  BY <1>1
<1>6. ASSUME NEW j \in 1 .. n, j # k
      PROVE  hs[j] \in ToSet(gs)
  <2>1. CASE j < k
    <3>1. j \in DOMAIN gs /\ gs[j] = hs[j]
      BY <1>1, <1>2, <1>3, <2>1
    <3> QED
      BY <3>1 DEF ToSet
  <2>2. CASE k < j
    <3>1. j - 1 \in DOMAIN gs /\ j - 1 \in k .. n - 1 /\ j - 1 + 1 = j
      BY <1>1, <1>3, <2>2
    <3>2. gs[j - 1] = hs[j]
      BY <1>2, <3>1
    <3> QED
      BY <3>1, <3>2 DEF ToSet
  <2>3. j < k \/ k < j
    BY <1>1, <1>6
  <2> QED
    BY <2>1, <2>2, <2>3
<1> HIDE DEF From
<1>7. \A i, j \in DOMAIN gs : gs[i] = gs[j] => i = j
  BY <1>1, <1>3, <1>4, <1>5
<1>8. ToSet(gs) = ToSet(hs) \ {e}
  <2>1. ASSUME NEW i \in DOMAIN gs
        PROVE  gs[i] \in ToSet(hs) \ {e}
    <3>1. From(i) \in DOMAIN hs /\ From(i) # k /\ gs[i] = hs[From(i)]
      BY <1>1, <1>3, <1>4
    <3> QED
      BY <1>1, <3>1 DEF ToSet
  <2>2. ASSUME NEW j \in DOMAIN hs, hs[j] # e
        PROVE  hs[j] \in ToSet(gs)
    BY <1>1, <1>6, <2>2
  <2> QED
    BY <2>1, <2>2 DEF ToSet
<1>9. Successor(hs, e) \in ToSet(gs) \cup {None}
  <2>1. CASE \E i \in 1 .. n - 1 : hs[i] = e
    <3> DEFINE m == CHOOSE i \in 1 .. n - 1 : hs[i] = e
    <3>1. m \in 1 .. n - 1 /\ hs[m] = e
      BY <2>1
    <3>2. Successor(hs, e) = hs[1 + m]
      BY <2>1 DEF Successor, n
    <3> HIDE DEF m
    <3>3. m = k
      BY <1>1, <3>1
    <3>4. 1 + m \in 1 .. n /\ 1 + m # k
      BY <1>1, <3>1, <3>3
    <3> QED
      BY <1>6, <3>2, <3>4
  <2>2. CASE ~ \E i \in 1 .. n - 1 : hs[i] = e
    BY <2>2 DEF Successor, n
  <2> QED
    BY <2>1, <2>2
<1> QED
  BY <1>2, <1>7, <1>8, <1>9 DEF gs, k

LEMMA UnsetHandlerKeeps ==
  ASSUME NEW s, NEW c \in Channels, NEW k \in Nat, KInvBut(s, c, k),
         Quiet(s, c) => ArmedFor(s, c), NEW e
  PROVE  LET t == Tcl_DeleteChannelHandler(s, c, e) IN
           /\ KInvBut(t, c, k) /\ (Quiet(t, c) => ArmedFor(t, c))
           /\ t.chan[c].life = s.chan[c].life
           /\ SameFrames(s, t, c)
<1>0. /\ Sound(s) /\ Stack(s) /\ Held(s, c, k) /\ Used(s, c)
      /\ s \in KitType /\ Good(s.timers, s.passes) /\ s.chan[c] \in Channel
      /\ ChannelSound(s, c)
      /\ \A i \in DOMAIN s.frames : FrameSound(s, s.frames[i])
  BY TimerFacts DEF KInvBut, Stack
<1>1. CASE e \notin Interest(s, c)
  BY <1>0, <1>1 DEF Tcl_DeleteChannelHandler, SameFrames, Stack
<1>2. CASE e \in Interest(s, c)
  <2> DEFINE hs == s.chan[c].handlers
             gs == RemoveAt(hs, CHOOSE i \in DOMAIN hs : hs[i] = e)
             x  == [s.chan[c] EXCEPT !.handlers = gs]
             next == Successor(hs, e)
             Comes(f) == f.kind = "notify" /\ f.chan = c /\ f.event = e
             fs == [i \in DOMAIN s.frames |->
                      IF Comes(s.frames[i]) THEN [s.frames[i] EXCEPT !.event = next]
                                            ELSE s.frames[i]]
             u  == [s EXCEPT !.chan[c] = x, !.frames = fs]
  <2>1. hs \in Seq(Events) /\ e \in ToSet(hs)
        /\ \A i, j \in DOMAIN hs : hs[i] = hs[j] => i = j
    BY <1>0, <1>2 DEF Interest, ChannelSound, HandlersSound, Channel
  <2>2. /\ gs \in Seq(Events) /\ ToSet(gs) = ToSet(hs) \ {e}
        /\ \A i, j \in DOMAIN gs : gs[i] = gs[j] => i = j
        /\ next \in ToSet(gs) \cup {None}
    BY <2>1, HandlerRemoved
  <2> HIDE DEF gs, next
  <2>3. /\ x \in Channel /\ x.life = s.chan[c].life /\ x.handlers = gs
        /\ x.timer = s.chan[c].timer /\ x.refCount = s.chan[c].refCount
    BY <1>0, <2>2 DEF Channel
  <2>4. next \in Events \cup {None}
    BY <2>2 DEF ToSet
  <2>5. /\ DOMAIN s.frames = 1 .. Len(s.frames) /\ Len(s.frames) \in Nat
        /\ \A i \in DOMAIN s.frames : s.frames[i] \in Frame
    BY <1>0 DEF KitType
  <2>6. ASSUME NEW i \in DOMAIN s.frames
        PROVE  /\ fs[i] \in Frame
               /\ fs[i].kind = s.frames[i].kind /\ fs[i].chan = s.frames[i].chan
               /\ fs[i].chan # c => fs[i] = s.frames[i]
               /\ Comes(s.frames[i]) => fs[i].event = next
               /\ ~Comes(s.frames[i]) => fs[i] = s.frames[i]
    <3>1. s.frames[i] \in Frame
      BY <2>5
    <3>2. CASE Comes(s.frames[i])
      <4>1. fs[i] = [s.frames[i] EXCEPT !.event = next]
        BY <3>2
      <4>2. s.frames[i].chan = c
        BY <3>2
      <4> HIDE DEF fs
      <4> QED
        BY <2>4, <3>1, <3>2, <4>1, <4>2 DEF Frame
    <3>3. CASE ~Comes(s.frames[i])
      BY <3>1, <3>3
    <3> QED
      BY <3>2, <3>3
  <2>7. fs \in Seq(Frame) /\ DOMAIN fs = DOMAIN s.frames
    <3>1. \A i \in DOMAIN s.frames : fs[i] \in Frame
      BY <2>6
    <3>2. fs \in [1 .. Len(s.frames) -> Frame]
      BY <2>5, <3>1
    <3> HIDE DEF fs
    <3> QED
      BY <2>5, <3>2, SequenceOf
  <2> HIDE DEF x, fs
  <2>8. /\ u \in KitType /\ u.chan[c] = x
        /\ \A d \in Channels \ {c} : u.chan[d] = s.chan[d]
        /\ u.rc = s.rc /\ u.timers = s.timers /\ u.passes = s.passes
        /\ u.frames = fs
    BY <1>0, <2>3, <2>7 DEF KitType
  <2> HIDE DEF u
  <2>9. \A i \in DOMAIN gs : gs[i] \in s.rc[c].validMask
    <3>1. \A i \in DOMAIN gs : gs[i] \in ToSet(hs)
      BY <2>2 DEF ToSet
    <3>2. ToSet(hs) \subseteq s.rc[c].validMask
      BY <1>0 DEF ChannelSound, HandlersSound, ToSet
    <3> QED
      BY <3>1, <3>2
  <2>10. hs # <<>>
    BY <2>1 DEF ToSet
  <2>11. ChannelSound(u, c)
    BY <1>0, <2>2, <2>3, <2>8, <2>9, <2>10 DEF ChannelSound, HandlersSound, Opened
  <2>12. Sound(u)
    BY <1>0, <2>8, <2>11, SoundAgain
  <2>13. SameFrames(s, u, c)
    BY <1>0, <2>5, <2>6, <2>7, <2>8 DEF SameFrames, Stack
  <2>14. Held(u, c, k) /\ Used(u, c)
    <3>1. SameUses(s, u)
      BY <2>13, SameFramesUses
    <3> QED
      BY <1>0, <2>3, <2>8, <3>1 DEF Held, Used, SameUses
  <2>15. ASSUME NEW i \in DOMAIN u.frames,
                u.frames[i].kind = "notify", u.frames[i].chan = c
         PROVE  u.frames[i].event \in Interest(u, c) \cup {None}
    <3>1. Interest(u, c) = ToSet(gs) /\ Interest(s, c) = ToSet(hs)
      BY <2>3, <2>8 DEF Interest
    <3>2. i \in DOMAIN s.frames /\ u.frames[i] = fs[i] /\ FrameSound(s, s.frames[i])
      BY <1>0, <2>7, <2>8
    <3>3. s.frames[i].kind = "notify" /\ s.frames[i].chan = c
      BY <2>6, <2>15, <3>2
    <3>4. s.frames[i].event \in ToSet(hs) \cup {None}
      BY <3>1, <3>2, <3>3 DEF FrameSound
    <3>5. CASE Comes(s.frames[i])
      BY <2>2, <2>6, <3>1, <3>2, <3>5
    <3>6. CASE ~Comes(s.frames[i])
      BY <2>2, <2>6, <3>1, <3>2, <3>3, <3>4, <3>6
    <3> QED
      BY <3>5, <3>6
  <2>16. KInvBut(u, c, k)
    BY <2>8, <2>12, <2>13, <2>14, <2>15, OthersStay
  <2>17. Tcl_DeleteChannelHandler(s, c, e) = UpdateInterest(u, c)
    BY <1>2 DEF Tcl_DeleteChannelHandler, u, x, gs, fs, next
  <2> DEFINE t == UpdateInterest(u, c)
  <2>18. /\ KInvBut(t, c, k) /\ ArmedFor(t, c)
         /\ t.frames = u.frames /\ t.chan[c].life = u.chan[c].life
    BY <2>16, UpdateInterestRestores
  <2> HIDE DEF t
  <2>19. SameFrames(s, t, c)
    BY <2>13, <2>18 DEF SameFrames
  <2> QED
    BY <2>3, <2>8, <2>17, <2>18, <2>19 DEF t
<1> QED
  BY <1>1, <1>2

\* The timer of the core is deleted, and with it its reference.
LEMMA TimerCleared ==
  ASSUME NEW s, Sound(s), NEW c \in Channels, Opened(s, c), NEW n \in Nat,
         n = Cardinality(Uses(s.frames, c)), Held(s, c, 0)
  PROVE  LET t == IF s.chan[c].timer
                    THEN TclChannelRelease(
                           [Tcl_DeleteTimerHandler(s, "ChannelTimerProc", c)
                              EXCEPT !.chan[c].timer = FALSE], c)
                    ELSE s
         IN  /\ Sound(t) /\ Opened(t, c) /\ t.rc = s.rc
             /\ t.passes = s.passes /\ t.frames = s.frames
             /\ \A d \in Channels \ {c} : t.chan[d] = s.chan[d]
             /\ t.chan[c].timer = FALSE /\ t.chan[c].refCount = n
<1> DEFINE x == [s.chan[c] EXCEPT !.timer = FALSE]
           y == [x EXCEPT !.refCount = n]
           r == Tcl_DeleteTimerHandler(s, "ChannelTimerProc", c)
           u == [r EXCEPT !.chan[c] = x]
           t == TclChannelRelease(u, c)
<1>1. /\ s \in KitType /\ Good(s.timers, s.passes) /\ s.chan[c] \in Channel
      /\ ChannelSound(s, c) /\ s.chan[c].timer \in BOOLEAN
  BY TimerFacts
<1>2. CASE ~s.chan[c].timer
  <2>1. s.chan[c].timer = FALSE /\ s.chan[c].refCount = n
    BY <1>1, <1>2 DEF Held
  <2> QED
    BY <1>2, <2>1
<1>3. CASE s.chan[c].timer
  <2>1. /\ x \in Channel /\ x.timer = FALSE /\ x.life = "open"
        /\ x.handlers = s.chan[c].handlers /\ x.refCount = n + 1
    <3>1. s.chan[c].refCount = n + 1
      BY <1>3 DEF Held
    <3>2. s.chan[c].life = "open"
      BY DEF Opened
    <3> QED
      BY <1>1, <3>1, <3>2 DEF Channel
  <2>2. /\ y \in Channel /\ y.timer = FALSE /\ y.life = "open"
        /\ y.handlers = s.chan[c].handlers /\ y.refCount = n
    BY <2>1 DEF Channel
  <2>3. /\ r \in KitType /\ Good(r.timers, r.passes)
        /\ r.chan = s.chan /\ r.rc = s.rc /\ r.passes = s.passes
        /\ r.frames = s.frames
        /\ \A q, d : Listed(r.timers, q, d)
             <=> Listed(s.timers, q, d) /\ ~ (q = "ChannelTimerProc" /\ d = c)
    BY <1>1, TimerDeleted
  <2>4. [r EXCEPT !.chan[c].timer = FALSE] = u
    <3> HIDE DEF r
    <3> QED
      BY <2>3 DEF x, KitType
  <2> HIDE DEF r, x
  <2>5. /\ u \in KitType /\ u.chan[c] = x
        /\ \A d \in Channels \ {c} : u.chan[d] = r.chan[d]
        /\ u.rc = r.rc /\ u.timers = r.timers
        /\ u.passes = r.passes /\ u.frames = r.frames
    BY <2>1, <2>3, ChannelChanged
  <2> HIDE DEF u
  <2>6. t = [u EXCEPT !.chan[c] = y]
    <3>1. t = [u EXCEPT !.chan[c].refCount = u.chan[c].refCount - 1]
      BY <2>1, <2>5 DEF TclChannelRelease
    <3>2. u.chan[c].refCount - 1 = n
      BY <2>1, <2>5
    <3> QED
      BY <2>5, <3>1, <3>2 DEF KitType
  <2> HIDE DEF y, t
  <2>7. /\ t \in KitType /\ t.chan[c] = y
        /\ \A d \in Channels \ {c} : t.chan[d] = u.chan[d]
        /\ t.rc = u.rc /\ t.timers = u.timers
        /\ t.passes = u.passes /\ t.frames = u.frames
    BY <2>2, <2>5, <2>6, ChannelChanged
  <2>8. ChannelSound(t, c)
    BY <1>1, <2>2, <2>3, <2>5, <2>7 DEF ChannelSound, HandlersSound, Opened
  <2>9. Sound(t)
    BY <2>3, <2>5, <2>7, <2>8, SoundAgain
  <2>10. /\ Sound(t) /\ Opened(t, c) /\ t.rc = s.rc
         /\ t.passes = s.passes /\ t.frames = s.frames
         /\ \A d \in Channels \ {c} : t.chan[d] = s.chan[d]
         /\ t.chan[c].timer = FALSE /\ t.chan[c].refCount = n
    BY <2>2, <2>3, <2>5, <2>7, <2>9 DEF Opened
  <2>11. t = TclChannelRelease([Tcl_DeleteTimerHandler(s, "ChannelTimerProc", c)
                                  EXCEPT !.chan[c].timer = FALSE], c)
    BY <2>4 DEF t, r
  <2> QED
    BY ONLY <1>3, <2>10, <2>11
<1> QED
  BY <1>1, <1>2, <1>3

LEMMA CloseKeeps ==
  ASSUME NEW s, KInv(s), NEW c \in Channels, Opened(s, c)
  PROVE  KInv(Closed(s, c))
<1> DEFINE n  == Cardinality(Uses(s.frames, c))
           s1 == IF s.chan[c].timer
                   THEN TclChannelRelease(
                          [Tcl_DeleteTimerHandler(s, "ChannelTimerProc", c)
                             EXCEPT !.chan[c].timer = FALSE], c)
                   ELSE s
           Comes(f) == f.kind = "notify" /\ f.chan = c
           fs == [i \in DOMAIN s.frames |->
                    IF Comes(s.frames[i]) THEN [s.frames[i] EXCEPT !.event = None]
                                          ELSE s.frames[i]]
           x  == [s1.chan[c] EXCEPT !.handlers = <<>>]
           s2 == [s1 EXCEPT !.chan[c] = x, !.frames = fs]
           s3 == DropTimer(s2, c)
           s4 == [s3 EXCEPT !.rc[c] = Freed]
           z  == IF n = 0 THEN Absent
                 ELSE [Absent EXCEPT !.life = "closed", !.refCount = n]
           t  == [s4 EXCEPT !.chan[c] = z]
<1>1. /\ KInvBut(s, c, 0) /\ Sound(s) /\ ChannelSound(s, c) /\ s \in KitType
      /\ Good(s.timers, s.passes) /\ Held(s, c, 0) /\ Used(s, c)
      /\ s.chan[c] \in Channel
      /\ \A i \in DOMAIN s.frames : FrameSound(s, s.frames[i])
  BY KInvFacts
<1>2. s.frames \in Seq(Frame) /\ IsFiniteSet(Uses(s.frames, c)) /\ n \in Nat
  BY <1>1, UsesCounted DEF KitType
<1> HIDE DEF n
<1>3. /\ Sound(s1) /\ Opened(s1, c) /\ s1.rc = s.rc
      /\ s1.passes = s.passes /\ s1.frames = s.frames
      /\ \A d \in Channels \ {c} : s1.chan[d] = s.chan[d]
      /\ s1.chan[c].timer = FALSE /\ s1.chan[c].refCount = n
  <2>1. n = Cardinality(Uses(s.frames, c))
    BY DEF n
  <2> QED
    BY <1>1, <1>2, <2>1, TimerCleared
<1> HIDE DEF s1
<1>4. /\ s1 \in KitType /\ s1.chan[c] \in Channel /\ ChannelSound(s1, c)
      /\ Good(s1.timers, s1.passes)
  BY <1>3, TimerFacts
<1>5. /\ x \in Channel /\ x.handlers = <<>> /\ x.life = "open"
      /\ x.timer = FALSE /\ x.refCount = n
  <2>1. /\ s1.chan[c] \in Channel /\ s1.chan[c].timer = FALSE
        /\ s1.chan[c].refCount = n /\ s1.chan[c].life = "open"
    BY <1>3, <1>4 DEF Opened
  <2>2. <<>> \in Seq(Events)
    OBVIOUS
  <2> QED
    BY <2>1, <2>2 DEF Channel
<1>6. ASSUME NEW i \in DOMAIN s.frames
      PROVE  /\ fs[i] \in Frame
             /\ fs[i].kind = s.frames[i].kind /\ fs[i].chan = s.frames[i].chan
             /\ fs[i].chan # c => fs[i] = s.frames[i]
             /\ fs[i].kind = "notify" /\ fs[i].chan = c => fs[i].event = None
  <2>1. s.frames[i] \in Frame
    BY <1>2
  <2>2. CASE Comes(s.frames[i])
    <3>1. fs[i] = [s.frames[i] EXCEPT !.event = None] /\ s.frames[i].chan = c
      BY <2>2
    <3> HIDE DEF fs
    <3> QED
      BY <2>1, <3>1 DEF Frame
  <2>3. CASE ~Comes(s.frames[i])
    BY <2>1, <2>3
  <2> QED
    BY <2>2, <2>3
<1>7. fs \in Seq(Frame) /\ DOMAIN fs = DOMAIN s.frames
  <2>1. DOMAIN s.frames = 1 .. Len(s.frames) /\ Len(s.frames) \in Nat
    BY <1>2
  <2>2. fs \in [1 .. Len(s.frames) -> Frame]
    BY <1>6, <2>1
  <2> HIDE DEF fs
  <2> QED
    BY <2>1, <2>2, SequenceOf
<1> HIDE DEF x, fs
<1>8. /\ s2 \in KitType /\ s2.chan[c] = x
      /\ \A d \in Channels \ {c} : s2.chan[d] = s1.chan[d]
      /\ s2.rc = s1.rc /\ s2.timers = s1.timers /\ s2.passes = s1.passes
      /\ s2.frames = fs
  BY <1>4, <1>5, <1>7 DEF KitType
<1>9. Tcl_ClearChannelHandlers(s, c) = s2
  <2>1. Tcl_ClearChannelHandlers(s, c) =
          [s1 EXCEPT !.chan[c].handlers = <<>>,
                     !.frames = [i \in DOMAIN s1.frames |->
                       IF s1.frames[i].kind = "notify" /\ s1.frames[i].chan = c
                         THEN [s1.frames[i] EXCEPT !.event = None]
                         ELSE s1.frames[i]]]
    BY DEF Tcl_ClearChannelHandlers, s1
  <2>2. fs = [i \in DOMAIN s1.frames |->
                IF s1.frames[i].kind = "notify" /\ s1.frames[i].chan = c
                  THEN [s1.frames[i] EXCEPT !.event = None]
                  ELSE s1.frames[i]]
    BY <1>3 DEF fs
  <2>3. Tcl_ClearChannelHandlers(s, c) =
          [s1 EXCEPT !.chan[c].handlers = <<>>, !.frames = fs]
    BY ONLY <2>1, <2>2
  <2> QED
    BY <1>4, <2>3 DEF x, KitType
<1> HIDE DEF s2
<1>10. Good(s2.timers, s2.passes) /\ ChannelSound(s2, c)
  BY <1>3, <1>4, <1>5, <1>8 DEF ChannelSound, HandlersSound, Opened
<1>11. Sound(s2)
  BY <1>3, <1>8, <1>10, SoundAgain
<1>12. /\ Sound(s3) /\ s3.chan = s2.chan /\ s3.passes = s2.passes
       /\ s3.frames = s2.frames
       /\ s3.rc = [s2.rc EXCEPT ![c] = [s2.rc[c] EXCEPT !.timer = FALSE]]
  BY <1>11, DropTimerKeeps
<1>13. /\ s3 \in KitType /\ s2.rc[c] \in Instance /\ ChannelSound(s3, c)
       /\ Good(s3.timers, s3.passes)
  BY <1>8, <1>12, TimerFacts DEF KitType
<1>14. s3.rc[c].timer = FALSE /\ \A d \in Channels \ {c} : s3.rc[d] = s2.rc[d]
  BY <1>8, <1>12, <1>13 DEF KitType, Instance
<1> HIDE DEF s3
<1>15. Freed \in Instance /\ Freed.timer = FALSE
  BY DEF Freed, rcCreate, Instance
<1>16. /\ s4 \in KitType /\ s4.rc[c] = Freed
       /\ \A d \in Channels \ {c} : s4.rc[d] = s3.rc[d]
       /\ s4.chan = s3.chan /\ s4.timers = s3.timers /\ s4.passes = s3.passes
       /\ s4.frames = s3.frames
  BY <1>13, <1>15 DEF KitType
<1>17. rcClose(Tcl_ClearChannelHandlers(s, c), c) = s4
  BY <1>9 DEF rcClose, s4, s3
<1> HIDE DEF s4
<1>18. z \in Channel /\ z.handlers = <<>> /\ z.timer = FALSE /\ z.refCount = n
       /\ z.life = IF n = 0 THEN "none" ELSE "closed"
  BY <1>2, AbsentType DEF Channel
<1>19. Closed(s, c) = t
  <2>1. s4.chan[c].refCount = n
    BY <1>5, <1>8, <1>12, <1>16
  <2> QED
    BY <1>17, <2>1 DEF Closed, ChannelFree
<1> HIDE DEF z
<1>20. /\ t \in KitType /\ t.chan[c] = z
       /\ \A d \in Channels \ {c} : t.chan[d] = s4.chan[d]
       /\ t.rc = s4.rc /\ t.timers = s4.timers /\ t.passes = s4.passes
       /\ t.frames = s4.frames
  <2>1. s4 \in KitType /\ z \in Channel
    BY ONLY <1>16, <1>18
  <2> QED
    BY ONLY <2>1, ChannelChanged, c \in Channels
<1> HIDE DEF t
<1>21. ChannelSound(t, c)
  BY <1>5, <1>8, <1>12, <1>13, <1>14, <1>15, <1>16, <1>18, <1>20
     DEF ChannelSound, HandlersSound, Opened
<1>22. Sound(t)
  <2>1. Sound(s3) /\ t \in KitType /\ Good(t.timers, t.passes)
    BY <1>12, <1>13, <1>16, <1>20
  <2>2. \A d \in Channels \ {c} :
          /\ t.chan[d] = s3.chan[d] /\ t.rc[d] = s3.rc[d]
          /\ \A q : Listed(t.timers, q, d) <=> Listed(s3.timers, q, d)
    BY <1>16, <1>20
  <2> QED
    BY ONLY <1>21, <2>1, <2>2, SoundAgain, c \in Channels
<1>23. /\ t.passes = s.passes /\ t.frames = fs
       /\ \A d \in Channels \ {c} : t.chan[d] = s.chan[d] /\ t.rc[d] = s.rc[d]
  BY <1>3, <1>8, <1>12, <1>14, <1>16, <1>20
<1>24. SameFrames(s, t, c)
  BY <1>1, <1>2, <1>6, <1>7, <1>23 DEF SameFrames, KInvBut, Stack
<1>25. Held(t, c, 0) /\ Used(t, c)
  <2>1. Uses(t.frames, c) = Uses(s.frames, c)
    BY <1>24, SameFramesUses DEF SameUses
  <2>2. n = 0 <=> Uses(s.frames, c) = {}
    BY <1>2, FS_EmptySet DEF n
  <2>3. Cardinality(Uses(t.frames, c)) = n
    BY <2>1 DEF n
  <2> QED
    BY <1>2, <1>18, <1>20, <2>1, <2>2, <2>3 DEF Held, Used
<1>26. \A i \in DOMAIN t.frames :
         t.frames[i].kind = "notify" /\ t.frames[i].chan = c
           => t.frames[i].event \in Interest(t, c) \cup {None}
  BY <1>6, <1>7, <1>23
<1>27. KInvBut(t, c, 0)
  BY <1>1, <1>22, <1>23, <1>24, <1>25, <1>26, OthersStay
<1>28. ArmedFor(t, c)
  BY <1>18, <1>20, <1>22, InterestOf DEF ArmedFor
<1> QED
  BY <1>19, <1>27, <1>28, KInvParts

-----------------------------------------------------------------------------
\* The stack grows and shrinks.

\* A frame f is put on top, with a reference to the channel it uses.
Grows(s, t, f) ==
  /\ t \in KitType /\ f \in Frame
  /\ t.rc = s.rc /\ t.timers = s.timers
  /\ t.passes = s.passes + (IF f.kind = "pass" THEN 1 ELSE 0)
  /\ t.frames = Append(s.frames, f)
  /\ FrameSound(s, f)
  /\ \A d \in Channels : IF f.chan = d
       THEN /\ s.chan[d].life # "none"
            /\ t.chan[d] = [s.chan[d] EXCEPT !.refCount = s.chan[d].refCount + 1]
       ELSE t.chan[d] = s.chan[d]

LEMMA GrowsKeeps ==
  ASSUME NEW s, Sound(s), Stack(s), NEW f, NEW t, Grows(s, t, f)
  PROVE  /\ Sound(t) /\ Stack(t)
         /\ \A d \in Channels :
              /\ Held(s, d, 0) => Held(t, d, 0)
              /\ Used(s, d) => Used(t, d)
              /\ ArmedFor(s, d) => ArmedFor(t, d)
              /\ Quiet(t, d) => Quiet(s, d) /\ ~ (f.chan = d /\ f.kind = "notify")
<1>1. /\ s \in KitType /\ s.frames \in Seq(Frame) /\ s.passes \in Nat
      /\ Good(s.timers, s.passes) /\ t \in KitType /\ f \in Frame
  BY DEF Sound, KitType, Grows
<1> DEFINE n == Len(s.frames) + 1
<1>2. /\ t.frames # <<>> /\ DOMAIN t.frames = DOMAIN s.frames \cup {n}
      /\ n \notin DOMAIN s.frames
      /\ t.frames[n] = f /\ \A i \in DOMAIN s.frames : t.frames[i] = s.frames[i]
      /\ \A c : Uses(t.frames, c) = Uses(s.frames, c)
                  \cup (IF f.chan = c THEN {n} ELSE {})
      /\ \A c : Cardinality(Uses(t.frames, c)) =
                  Cardinality(Uses(s.frames, c)) + (IF f.chan = c THEN 1 ELSE 0)
      /\ Cardinality(PassesOf(t.frames)) =
           Cardinality(PassesOf(s.frames)) + (IF f.kind = "pass" THEN 1 ELSE 0)
  BY <1>1, Pushed DEF Grows
<1> HIDE DEF n
<1>3. ASSUME NEW d \in Channels
      PROVE  /\ t.chan[d].life = s.chan[d].life /\ t.chan[d].timer = s.chan[d].timer
             /\ t.chan[d].handlers = s.chan[d].handlers
             /\ t.chan[d].refCount = s.chan[d].refCount + (IF f.chan = d THEN 1 ELSE 0)
             /\ f.chan = d => s.chan[d].life # "none"
             /\ s.chan[d].refCount \in Nat
  <2>1. s.chan[d] \in Channel
    BY <1>1 DEF KitType
  <2>2. CASE f.chan = d
    BY <2>1, <2>2 DEF Grows, Channel
  <2>3. CASE f.chan # d
    <3>1. t.chan[d] = s.chan[d] /\ s.chan[d].refCount \in Nat
      BY <2>1, <2>3 DEF Grows, Channel
    <3> QED
      BY <2>3, <3>1
  <2> QED
    BY <2>2, <2>3
<1>4. Sound(t)
  <2>1. \A d \in Channels : ChannelSound(t, d)
    BY <1>3 DEF Sound, Grows, ChannelSound, HandlersSound, Opened
  <2>2. Good(t.timers, t.passes)
    <3>1. /\ DOMAIN s.timers = 1 .. Len(s.timers)
          /\ \A i \in 1 .. Len(s.timers) :
               s.timers[i].era \in Nat /\ s.timers[i].era <= s.passes
      BY <1>1, GoodElements
    <3>2. t.timers = s.timers /\ t.passes \in Nat /\ s.passes <= t.passes
      BY <1>1 DEF Grows
    <3>3. \A i \in DOMAIN t.timers : t.timers[i].era <= t.passes
      BY <1>1, <3>1, <3>2
    <3> QED
      BY <1>1, <3>2, <3>3 DEF Good
  <2> QED
    BY <1>1, <2>1, <2>2 DEF Sound
<1>5. \A c \in Channels : Interest(t, c) = Interest(s, c)
  BY <1>3 DEF Interest
<1>6. Stack(t)
  <2>1. 1 \in DOMAIN s.frames
    BY <1>1 DEF Stack
  <2>2. t.frames[1] = s.frames[1]
    BY <1>2, <2>1
  <2>3. ASSUME NEW g \in Frame, FrameSound(s, g)
        PROVE  FrameSound(t, g)
    BY <1>5, <2>3 DEF FrameSound, Frame
  <2>4. \A i \in DOMAIN s.frames : s.frames[i] \in Frame
    BY <1>1
  <2>5. \A i \in DOMAIN t.frames : FrameSound(t, t.frames[i])
    BY <1>1, <1>2, <2>3, <2>4 DEF Stack, Grows
  <2>6. t.passes = Cardinality(PassesOf(t.frames))
    BY <1>2 DEF Stack, Grows
  <2> QED
    BY <1>2, <2>2, <2>5, <2>6 DEF Stack
<1>7. ASSUME NEW d \in Channels
      PROVE  /\ Held(s, d, 0) => Held(t, d, 0)
             /\ Used(s, d) => Used(t, d)
             /\ ArmedFor(s, d) => ArmedFor(t, d)
             /\ Quiet(t, d) => Quiet(s, d) /\ ~ (f.chan = d /\ f.kind = "notify")
  <2>1. Held(s, d, 0) => Held(t, d, 0)
    <3>1. Cardinality(Uses(s.frames, d)) \in Nat
      BY <1>1, UsesCounted
    <3>2. CASE f.chan = d
      BY <1>2, <1>3, <3>1, <3>2 DEF Held
    <3>3. CASE f.chan # d
      BY <1>2, <1>3, <3>1, <3>3 DEF Held
    <3> QED
      BY <3>2, <3>3
  <2>2. Used(s, d) => Used(t, d)
    BY <1>2, <1>3 DEF Used
  <2>3. ArmedFor(s, d) => ArmedFor(t, d)
    BY <1>3, <1>5 DEF ArmedFor, Armed, Grows
  <2>4. Quiet(t, d) => Quiet(s, d) /\ ~ (f.chan = d /\ f.kind = "notify")
    <3>1. \A i \in Uses(s.frames, d) : i \in Uses(t.frames, d) /\ t.frames[i] = s.frames[i]
      BY <1>2 DEF Uses
    <3>2. f.chan = d => n \in Uses(t.frames, d)
      BY <1>2
    <3> QED
      BY <1>2, <3>1, <3>2 DEF Quiet
  <2> QED
    BY <2>1, <2>2, <2>3, <2>4
<1> QED
  BY <1>4, <1>6, <1>7

\* The frame on top goes, and the channel it has used is released.
Shrinks(s, t, f) ==
  /\ t \in KitType /\ f = Last(s.frames)
  /\ f.kind = "script" => f.chan # None
  /\ t.rc = s.rc /\ Good(t.timers, t.passes)
  /\ \A q, d : Listed(t.timers, q, d) <=> Listed(s.timers, q, d)
  /\ s.passes = t.passes + (IF f.kind = "pass" THEN 1 ELSE 0)
  /\ t.frames = Front(s.frames)
  /\ \A d \in Channels : t.chan[d] =
       IF f.chan # d THEN s.chan[d]
       ELSE IF s.chan[d].refCount = 1 /\ s.chan[d].life = "closed" THEN Absent
       ELSE [s.chan[d] EXCEPT !.refCount = s.chan[d].refCount - 1]

LEMMA ShrinksKeeps ==
  ASSUME NEW s, Sound(s), Stack(s), \A d \in Channels : Held(s, d, 0) /\ Used(s, d),
         NEW f, NEW t, Shrinks(s, t, f)
  PROVE  /\ Sound(t) /\ Stack(t)
         /\ \A d \in Channels :
              /\ Held(t, d, 0) /\ Used(t, d)
              /\ ArmedFor(s, d) => ArmedFor(t, d)
              /\ Quiet(t, d) => Quiet(s, d) \/ (f.chan = d /\ f.kind = "notify")
<1>1. /\ s \in KitType /\ s.frames \in Seq(Frame) /\ s.frames # <<>>
      /\ Good(s.timers, s.passes) /\ t \in KitType
  BY DEF Sound, KitType, Stack, Shrinks
<1> DEFINE n == Len(s.frames)
<1>2. /\ n \in Nat \ {0} /\ f = s.frames[n] /\ f \in Frame
      /\ DOMAIN t.frames = 1 .. n - 1 /\ DOMAIN s.frames = 1 .. n
      /\ \A i \in DOMAIN t.frames : t.frames[i] = s.frames[i]
      /\ \A c : Uses(t.frames, c) = Uses(s.frames, c) \ {n}
      /\ \A c : Cardinality(Uses(s.frames, c)) =
                  Cardinality(Uses(t.frames, c)) + (IF f.chan = c THEN 1 ELSE 0)
      /\ Cardinality(PassesOf(s.frames)) =
           Cardinality(PassesOf(t.frames)) + (IF f.kind = "pass" THEN 1 ELSE 0)
      /\ t.frames \in Seq(Frame)
  BY <1>1, Popped DEF Shrinks
<1> HIDE DEF n
<1>3. n # 1 /\ 1 \in DOMAIN t.frames
  <2>1. n # 1
    BY <1>2 DEF Shrinks, Stack
  <2> QED
    BY <1>2, <2>1
<1>4. ASSUME NEW d \in Channels
      PROVE  /\ Cardinality(Uses(s.frames, d)) \in Nat
             /\ Cardinality(Uses(t.frames, d)) \in Nat
             /\ Cardinality(Uses(t.frames, d)) = 0 <=> Uses(t.frames, d) = {}
             /\ s.chan[d] \in Channel /\ ChannelSound(s, d)
  <2>1. IsFiniteSet(Uses(t.frames, d))
    BY <1>2, UsesCounted
  <2> QED
    BY <1>1, <1>2, <2>1, UsesCounted, FS_EmptySet DEF Sound, KitType
\* The last reference to a closed channel is that of the frame.
<1>5. ASSUME NEW d \in Channels, f.chan = d
      PROVE  IF s.chan[d].life = "closed" /\ Uses(t.frames, d) = {}
               THEN t.chan[d] = Absent /\ s.chan[d].handlers = <<>> /\ ~s.chan[d].timer
                    /\ ~s.rc[d].timer
               ELSE t.chan[d] = [s.chan[d] EXCEPT !.refCount = s.chan[d].refCount - 1]
  <2>1. CASE s.chan[d].life = "closed"
    <3>1. s.chan[d].handlers = <<>> /\ ~s.chan[d].timer /\ ~s.rc[d].timer
      BY <1>4, <2>1 DEF ChannelSound, Opened
    <3>2. s.chan[d].refCount = Cardinality(Uses(s.frames, d))
      BY <1>4, <3>1 DEF Held
    <3>3. s.chan[d].refCount = 1 <=> Uses(t.frames, d) = {}
      BY <1>2, <1>4, <1>5, <3>2
    <3> QED
      BY <1>5, <2>1, <3>1, <3>3 DEF Shrinks
  <2>2. CASE s.chan[d].life # "closed"
    BY <1>5, <2>2 DEF Shrinks
  <2> QED
    BY <2>1, <2>2
<1>6. ASSUME NEW d \in Channels
      PROVE  /\ t.chan[d].timer = s.chan[d].timer
             /\ t.chan[d].handlers = s.chan[d].handlers
             /\ \/ t.chan[d].life = s.chan[d].life
                \/ t.chan[d].life = "none" /\ s.chan[d].life = "closed"
             /\ Held(t, d, 0) /\ Used(t, d)
  <2>1. CASE f.chan # d
    <3>1. t.chan[d] = s.chan[d]
      BY <2>1 DEF Shrinks
    <3>2. Uses(t.frames, d) = Uses(s.frames, d)
      BY <1>2, <2>1 DEF Uses
    <3> QED
      BY <3>1, <3>2 DEF Held, Used
  <2>2. CASE f.chan = d /\ s.chan[d].life = "closed" /\ Uses(t.frames, d) = {}
    <3>1. t.chan[d] = Absent /\ s.chan[d].handlers = <<>> /\ s.chan[d].timer = FALSE
      BY <1>4, <1>5, <2>2 DEF Channel
    <3>2. Cardinality(Uses(t.frames, d)) = 0
      BY <1>4, <2>2
    <3>3. /\ t.chan[d].timer = FALSE /\ t.chan[d].handlers = <<>>
          /\ t.chan[d].life = "none" /\ t.chan[d].refCount = 0
      BY <3>1, AbsentType
    <3>4. Held(t, d, 0)
      BY <3>2, <3>3 DEF Held
    <3>5. Used(t, d)
      BY <2>2, <3>3 DEF Used
    <3> QED
      BY <2>2, <3>1, <3>3, <3>4, <3>5
  <2>3. CASE f.chan = d /\ ~ (s.chan[d].life = "closed" /\ Uses(t.frames, d) = {})
    <3>1. t.chan[d] = [s.chan[d] EXCEPT !.refCount = s.chan[d].refCount - 1]
      BY <1>5, <2>3
    <3>2. /\ t.chan[d].timer = s.chan[d].timer /\ t.chan[d].life = s.chan[d].life
          /\ t.chan[d].handlers = s.chan[d].handlers
          /\ t.chan[d].refCount = s.chan[d].refCount - 1
      BY <1>4, <3>1 DEF Channel
    <3>3. Held(t, d, 0)
      BY <1>2, <1>4, <2>3, <3>2 DEF Held
    <3>4. n \in Uses(s.frames, d)
      BY <1>2, <2>3 DEF Uses
    <3>5. Used(t, d)
      BY <2>3, <3>2, <3>4 DEF Used
    <3> QED
      BY <3>2, <3>3, <3>5
  <2> QED
    BY <2>1, <2>2, <2>3
<1>7. Sound(t)
  <2>1. ASSUME NEW d \in Channels
        PROVE  ChannelSound(t, d)
    BY <1>4, <1>6 DEF Shrinks, ChannelSound, HandlersSound, Opened
  <2> QED
    BY <1>1, <2>1 DEF Sound, Shrinks
<1>8. \A c \in Channels : Interest(t, c) = Interest(s, c)
  BY <1>6 DEF Interest
<1>9. Stack(t)
  <2>1. t.frames # <<>> /\ t.frames[1] = s.frames[1]
    BY <1>2, <1>3
  <2>2. \A i \in DOMAIN t.frames : i \in DOMAIN s.frames /\ s.frames[i] \in Frame
    BY <1>1, <1>2
  <2>3. ASSUME NEW g \in Frame, FrameSound(s, g)
        PROVE  FrameSound(t, g)
    BY <1>8, <2>3 DEF FrameSound, Frame
  <2>4. \A i \in DOMAIN t.frames : FrameSound(t, t.frames[i])
    BY <1>2, <2>2, <2>3 DEF Stack
  <2>5. t.passes = Cardinality(PassesOf(t.frames))
    <3>1. t.passes \in Nat /\ Cardinality(PassesOf(t.frames)) \in Nat
      BY <1>1, <1>2, UsesCounted DEF KitType
    <3>2. s.passes = Cardinality(PassesOf(s.frames))
      BY DEF Stack
    <3>3. CASE f.kind = "pass"
      BY <1>2, <3>1, <3>2, <3>3 DEF Shrinks
    <3>4. CASE f.kind # "pass"
      BY <1>2, <3>1, <3>2, <3>4 DEF Shrinks
    <3> QED
      BY <3>3, <3>4
  <2> QED
    BY <2>1, <2>4, <2>5 DEF Stack
<1>10. ASSUME NEW d \in Channels
       PROVE  /\ ArmedFor(s, d) => ArmedFor(t, d)
              /\ Quiet(t, d) => Quiet(s, d) \/ (f.chan = d /\ f.kind = "notify")
  <2>1. ArmedFor(s, d) => ArmedFor(t, d)
    BY <1>6, <1>8 DEF ArmedFor, Armed, Shrinks
  <2>2. Quiet(t, d) => Quiet(s, d) \/ (f.chan = d /\ f.kind = "notify")
    <3>1. \A i \in Uses(s.frames, d) :
            i = n \/ (i \in Uses(t.frames, d) /\ t.frames[i] = s.frames[i])
      BY <1>2 DEF Uses
    <3>2. n \in Uses(s.frames, d) => f.chan = d
      BY <1>2 DEF Uses
    <3> QED
      BY <1>2, <3>1, <3>2 DEF Quiet
  <2> QED
    BY <2>1, <2>2
<1> QED
  BY <1>6, <1>7, <1>9, <1>10

LEMMA ReleaseShrinks ==
  ASSUME NEW s, NEW c \in Channels, KInvBut(s, c, 0), Last(s.frames).chan = c
  PROVE  Shrinks(s, Pop(TclChannelRelease(s, c)), Last(s.frames))
<1> DEFINE f == Last(s.frames)
           x == IF s.chan[c].refCount = 1 /\ s.chan[c].life = "closed" THEN Absent
                ELSE [s.chan[c] EXCEPT !.refCount = s.chan[c].refCount - 1]
           u == TclChannelRelease(s, c)
           t == Pop(u)
<1>1. /\ s \in KitType /\ Good(s.timers, s.passes) /\ s.passes \in Nat
      /\ s.frames \in Seq(Frame) /\ s.frames # <<>> /\ s.chan[c] \in Channel
      /\ s.chan[c].timer \in BOOLEAN /\ Held(s, c, 0)
  BY DEF KInvBut, Sound, Stack, KitType, Channel
<1>2. /\ Front(s.frames) \in Seq(Frame) /\ Len(s.frames) \in Nat \ {0}
      /\ f = s.frames[Len(s.frames)] /\ DOMAIN s.frames = 1 .. Len(s.frames)
      /\ f \in Frame
      /\ Cardinality(Uses(s.frames, c)) = Cardinality(Uses(Front(s.frames), c)) + 1
  BY <1>1, Popped
<1>3. s.chan[c].refCount \in Nat \ {0}
  <2>1. Cardinality(Uses(Front(s.frames), c)) \in Nat
    BY <1>2, UsesCounted
  <2> QED
    BY <1>1, <1>2, <2>1 DEF Held
<1>4. x \in Channel
  BY <1>1, <1>3, AbsentType DEF Channel
<1>5. u = [s EXCEPT !.chan[c] = x]
  <2>1. CASE s.chan[c].refCount = 1 /\ s.chan[c].life = "closed"
    BY <2>1 DEF TclChannelRelease
  <2>2. CASE ~ (s.chan[c].refCount = 1 /\ s.chan[c].life = "closed")
    BY <1>1, <2>2 DEF TclChannelRelease, KitType
  <2> QED
    BY <2>1, <2>2
<1> HIDE DEF u
<1>6. /\ u \in KitType /\ u.chan[c] = x
      /\ \A d \in Channels \ {c} : u.chan[d] = s.chan[d]
      /\ u.rc = s.rc /\ u.timers = s.timers /\ u.passes = s.passes
      /\ u.frames = s.frames
  <2> HIDE DEF x
  <2> QED
    BY <1>1, <1>4, <1>5, ChannelChanged
<1>7. t = [u EXCEPT !.frames = Front(s.frames)]
  BY <1>6 DEF Pop
<1> HIDE DEF t
<1>8. /\ t \in KitType /\ t.chan = u.chan /\ t.rc = u.rc /\ t.timers = u.timers
      /\ t.passes = u.passes /\ t.frames = Front(s.frames)
  BY <1>2, <1>6, <1>7 DEF KitType
<1>9. f.chan # None /\ f.kind # "pass"
  <2>1. f.chan # None
    BY NoneAssumption
  <2>2. FrameSound(s, f)
    BY <1>2 DEF KInvBut, Stack
  <2> QED
    BY <2>1, <2>2 DEF FrameSound
<1>10. \A d \in Channels : t.chan[d] =
         IF f.chan # d THEN s.chan[d]
         ELSE IF s.chan[d].refCount = 1 /\ s.chan[d].life = "closed" THEN Absent
         ELSE [s.chan[d] EXCEPT !.refCount = s.chan[d].refCount - 1]
  <2>1. \A d \in Channels : t.chan[d] = IF f.chan # d THEN s.chan[d] ELSE x
    <3> HIDE DEF x, f
    <3> QED
      BY <1>6, <1>8 DEF f
  <2> QED
    BY <2>1
<1>11. s.passes = t.passes + (IF f.kind = "pass" THEN 1 ELSE 0)
  BY <1>1, <1>6, <1>8, <1>9
<1>12. Good(t.timers, t.passes) /\ t.rc = s.rc
       /\ \A q, d : Listed(t.timers, q, d) <=> Listed(s.timers, q, d)
  BY <1>1, <1>6, <1>8
<1> HIDE DEF f
<1> QED
  BY <1>8, <1>9, <1>10, <1>11, <1>12 DEF Shrinks, t, u, f

\* A script that handles an event, or a notification whose channel is armed, ends.
LEMMA ReleaseKeeps ==
  ASSUME NEW s, NEW c \in Channels, KInvBut(s, c, 0), Last(s.frames).chan = c,
         \/ Last(s.frames).kind = "script" /\ (Quiet(s, c) => ArmedFor(s, c))
         \/ ArmedFor(s, c)
  PROVE  KInv(Pop(TclChannelRelease(s, c)))
<1> DEFINE f == Last(s.frames)
           t == Pop(TclChannelRelease(s, c))
<1>1. Shrinks(s, t, f)
  BY ReleaseShrinks
<1>2. Sound(s) /\ Stack(s) /\ \A d \in Channels : Held(s, d, 0) /\ Used(s, d)
  BY DEF KInvBut
<1> HIDE DEF t
<1>3. /\ Sound(t) /\ Stack(t)
      /\ \A d \in Channels :
           /\ Held(t, d, 0) /\ Used(t, d)
           /\ ArmedFor(s, d) => ArmedFor(t, d)
           /\ Quiet(t, d) => Quiet(s, d) \/ (f.chan = d /\ f.kind = "notify")
  BY <1>1, <1>2, ShrinksKeeps
<1>4. \A d \in Channels : Quiet(t, d) => ArmedFor(t, d)
  BY <1>3 DEF KInvBut
<1> QED
  BY <1>3, <1>4 DEF KInv, t

\* A loop or a pass ends: t is s without the frame on top.
LEMMA PlainPopKeeps ==
  ASSUME NEW s, KInv(s), NEW t, t \in KitType, t.chan = s.chan, t.rc = s.rc,
         Last(s.frames).kind \in {"update", "vwait", "pass"},
         t.frames = Front(s.frames), Good(t.timers, t.passes),
         \A q, d : Listed(t.timers, q, d) <=> Listed(s.timers, q, d),
         s.passes = t.passes + (IF Last(s.frames).kind = "pass" THEN 1 ELSE 0)
  PROVE  KInv(t)
<1> DEFINE f == Last(s.frames)
<1>1. Sound(s) /\ Stack(s) /\ \A d \in Channels : Held(s, d, 0) /\ Used(s, d)
  BY DEF KInv
<1>2. f.chan = None
  <2>1. s.frames \in Seq(Frame) /\ s.frames # <<>>
    BY <1>1 DEF Sound, Stack, KitType
  <2>2. f = s.frames[Len(s.frames)] /\ Len(s.frames) \in DOMAIN s.frames
    BY <2>1, Popped
  <2>3. FrameSound(s, f)
    BY <1>1, <2>2 DEF Stack
  <2> QED
    BY <2>3 DEF FrameSound
<1> HIDE DEF f
<1>3. Shrinks(s, t, f)
  BY <1>2, NoneAssumption DEF Shrinks, f
<1>4. /\ Sound(t) /\ Stack(t)
      /\ \A d \in Channels :
           /\ Held(t, d, 0) /\ Used(t, d)
           /\ ArmedFor(s, d) => ArmedFor(t, d)
           /\ Quiet(t, d) => Quiet(s, d) \/ (f.chan = d /\ f.kind = "notify")
  BY <1>1, <1>3, ShrinksKeeps
<1>5. \A d \in Channels : Quiet(t, d) => ArmedFor(t, d)
  BY <1>2, <1>4, NoneAssumption DEF KInv
<1> QED
  BY <1>4, <1>5 DEF KInv

LEMMA UpdateEndsKeeps ==
  ASSUME NEW s, KInv(s), Last(s.frames).kind \in {"update", "vwait"}
  PROVE  KInv(Pop(s))
<1> DEFINE t == Pop(s)
<1>1. s \in KitType /\ Good(s.timers, s.passes) /\ s.frames # <<>> /\ s.passes \in Nat
      /\ s.frames \in Seq(Frame)
  BY DEF KInv, Sound, Stack, KitType
<1>2. Front(s.frames) \in Seq(Frame)
  BY <1>1, Popped
<1>3. /\ t \in KitType /\ t.chan = s.chan /\ t.rc = s.rc /\ t.timers = s.timers
      /\ t.passes = s.passes /\ t.frames = Front(s.frames)
  BY <1>1, <1>2 DEF Pop, KitType
<1> HIDE DEF t
<1>4. s.passes = t.passes + (IF Last(s.frames).kind = "pass" THEN 1 ELSE 0)
  BY <1>1, <1>3
<1> QED
  BY <1>1, <1>3, <1>4, PlainPopKeeps DEF t

LEMMA PassEndsKeeps ==
  ASSUME NEW s, KInv(s), Last(s.frames).kind = "pass"
  PROVE  KInv([Pop(s) EXCEPT !.timers = Ended(@, s.passes), !.passes = @ - 1])
<1> DEFINE t == [Pop(s) EXCEPT !.timers = Ended(@, s.passes), !.passes = @ - 1]
           ts == Ended(s.timers, s.passes)
<1>1. s \in KitType /\ Good(s.timers, s.passes) /\ s.frames # <<>> /\ s.passes \in Nat
      /\ s.frames \in Seq(Frame) /\ s.passes = Cardinality(PassesOf(s.frames))
  BY DEF KInv, Sound, Stack, KitType
<1>2. Front(s.frames) \in Seq(Frame)
      /\ Cardinality(PassesOf(s.frames)) = Cardinality(PassesOf(Front(s.frames))) + 1
  BY <1>1, Popped
<1>3. s.passes \in Nat \ {0}
  <2>1. Cardinality(PassesOf(Front(s.frames))) \in Nat
    BY <1>2, UsesCounted
  <2> QED
    BY <1>1, <1>2, <2>1
<1>4. /\ Good(ts, s.passes - 1)
      /\ \A q, d : Listed(ts, q, d) <=> Listed(s.timers, q, d)
  BY <1>1, <1>3, EndedGood
<1>5. ts \in Seq(TimerHandler) /\ s.passes - 1 \in Nat
  BY <1>3, <1>4 DEF Good
<1>6. t = [s EXCEPT !.frames = Front(s.frames), !.timers = ts, !.passes = s.passes - 1]
  BY <1>1 DEF Pop, KitType
<1> HIDE DEF ts, t
<1>7. /\ t \in KitType /\ t.chan = s.chan /\ t.rc = s.rc /\ t.timers = ts
      /\ t.passes = s.passes - 1 /\ t.frames = Front(s.frames)
  BY <1>1, <1>2, <1>5, <1>6 DEF KitType
<1>8. s.passes = t.passes + (IF Last(s.frames).kind = "pass" THEN 1 ELSE 0)
  BY <1>3, <1>7
<1> QED
  BY <1>4, <1>7, <1>8, PlainPopKeeps DEF t

-----------------------------------------------------------------------------
\* The commands that read, write and configure.

LEMMA ReadKeeps ==
  ASSUME NEW s, KInv(s), NEW c \in Channels, NEW got,
         NEW left \in BOOLEAN, NEW more \in BOOLEAN
  PROVE  KInv(UpdateInterest([rcInput(s, c, got)
                                EXCEPT !.chan[c].buffered = left,
                                       !.chan[c].needMore = more], c))
<1> DEFINE x == [s.chan[c] EXCEPT !.buffered = left, !.needMore = more]
           w == IF got = "none" THEN s.rc[c].watchMask \ {"readable"}
                                ELSE s.rc[c].watchMask
           y == [s.rc[c] EXCEPT !.watchMask = w]
           u == [s EXCEPT !.chan[c] = x, !.rc[c] = y]
<1>1. /\ KInvBut(s, c, 0) /\ s \in KitType
      /\ s.chan[c] \in Channel /\ s.rc[c] \in Instance
  BY KInvFacts
<1>2. /\ x \in Channel /\ x.life = s.chan[c].life
      /\ x.handlers = s.chan[c].handlers
      /\ x.timer = s.chan[c].timer /\ x.refCount = s.chan[c].refCount
  BY <1>1 DEF Channel
<1>3. y \in Instance /\ y.timer = s.rc[c].timer /\ y.validMask = s.rc[c].validMask
  BY <1>1 DEF Instance
<1>4. [rcInput(s, c, got) EXCEPT !.chan[c].buffered = left,
                                 !.chan[c].needMore = more] = u
  <2>1. CASE got = "none"
    <3>1. rcInput(s, c, got) = [s EXCEPT !.rc[c] = y]
      BY <1>1, <2>1 DEF rcInput, KitType
    <3>2. s = [chan |-> s.chan, rc |-> s.rc, timers |-> s.timers,
               passes |-> s.passes, frames |-> s.frames]
      BY <1>1 DEF KitType
    <3> HIDE DEF y
    <3> QED
      BY <1>1, <3>1, <3>2 DEF KitType
  <2>2. CASE got # "none"
    <3>1. y = s.rc[c]
      BY <1>1, <2>2 DEF Instance
    <3>2. s.rc = [s.rc EXCEPT ![c] = y]
      BY <1>1, <3>1 DEF KitType
    <3> HIDE DEF y
    <3>3. [s EXCEPT !.chan[c].buffered = left, !.chan[c].needMore = more]
            = [s EXCEPT !.chan[c] = x]
      BY <1>1 DEF KitType
    <3> HIDE DEF x
    <3>4. [s EXCEPT !.chan[c] = x] = u
      BY <1>1, <3>2 DEF KitType
    <3>5. rcInput(s, c, got) = s
      BY <2>2 DEF rcInput
    <3> HIDE DEF u
    <3> QED
      BY ONLY <3>3, <3>4, <3>5
  <2> QED
    BY <2>1, <2>2
<1> HIDE DEF x, y
<1>5. Mild(s, u, c)
  <2>1. /\ u \in KitType /\ u.chan[c] = x /\ u.rc[c] = y
        /\ u.timers = s.timers /\ u.passes = s.passes /\ u.frames = s.frames
        /\ \A d \in Channels \ {c} : u.chan[d] = s.chan[d] /\ u.rc[d] = s.rc[d]
    BY <1>1, <1>2, <1>3 DEF KitType
  <2> HIDE DEF u
  <2> QED
    BY <1>2, <1>3, <2>1 DEF Mild
<1> HIDE DEF u
<1>6. KInvBut(u, c, 0)
  BY <1>1, <1>5, MildKeeps
<1> QED
  BY <1>4, <1>6, UpdateInterestRestores, KInvParts

\* fconfigure
LEMMA ReconfigureKeeps ==
  ASSUME NEW s, KInv(s), NEW c \in Channels
  PROVE  KInv(UpdateInterest([s EXCEPT !.chan[c].needMore = FALSE], c))
<1> DEFINE x == [s.chan[c] EXCEPT !.needMore = FALSE]
           y == s.rc[c]
           u == [s EXCEPT !.chan[c] = x, !.rc[c] = y]
<1>1. /\ KInvBut(s, c, 0) /\ s \in KitType
      /\ s.chan[c] \in Channel /\ s.rc[c] \in Instance
  BY KInvFacts
<1>2. /\ x \in Channel /\ x.life = s.chan[c].life
      /\ x.handlers = s.chan[c].handlers
      /\ x.timer = s.chan[c].timer /\ x.refCount = s.chan[c].refCount
  BY <1>1 DEF Channel
<1>3. [s EXCEPT !.chan[c].needMore = FALSE] = u
  BY <1>1 DEF KitType
<1> HIDE DEF x, y
<1>4. Mild(s, u, c)
  <2>1. /\ u \in KitType /\ u.chan[c] = x /\ u.rc[c] = s.rc[c]
        /\ u.timers = s.timers /\ u.passes = s.passes /\ u.frames = s.frames
        /\ \A d \in Channels \ {c} : u.chan[d] = s.chan[d] /\ u.rc[d] = s.rc[d]
    BY <1>1, <1>2 DEF KitType, y
  <2> HIDE DEF u
  <2> QED
    BY <1>2, <2>1 DEF Mild
<1> HIDE DEF u
<1>5. KInvBut(u, c, 0)
  BY <1>1, <1>4, MildKeeps
<1> QED
  BY <1>3, <1>5, UpdateInterestRestores, KInvParts

\* A seek or a write: the watch mask is opened wide, or nothing changes for it.
LEMMA OutputKeeps ==
  ASSUME NEW s, KInv(s), NEW c \in Channels
  PROVE  LET u == [s EXCEPT !.chan[c].buffered = FALSE] IN
           /\ KInv(u) /\ KInv(rcSeek(u, c)) /\ KInv(rcOutput(u, c))
<1> DEFINE x == [s.chan[c] EXCEPT !.buffered = FALSE]
           y == s.rc[c]
           z == [s.rc[c] EXCEPT !.watchMask = s.rc[c].validMask]
           u == [s EXCEPT !.chan[c] = x, !.rc[c] = y]
           t == [s EXCEPT !.chan[c] = x, !.rc[c] = z]
<1>1. /\ KInvBut(s, c, 0) /\ s \in KitType /\ Sound(s)
      /\ s.chan[c] \in Channel /\ s.rc[c] \in Instance
      /\ Quiet(s, c) => ArmedFor(s, c)
  BY KInvFacts
<1>2. /\ x \in Channel /\ x.life = s.chan[c].life
      /\ x.handlers = s.chan[c].handlers
      /\ x.timer = s.chan[c].timer /\ x.refCount = s.chan[c].refCount
  BY <1>1 DEF Channel
<1>3. /\ z \in Instance /\ z.timer = s.rc[c].timer /\ z.validMask = s.rc[c].validMask
      /\ z.watchMask = z.validMask
  BY <1>1 DEF Instance
<1>4. [s EXCEPT !.chan[c].buffered = FALSE] = u
  BY <1>1 DEF KitType
<1>5. rcSeek(u, c) = t /\ rcOutput(u, c) = t
  BY <1>1 DEF rcSeek, rcOutput, KitType
<1> HIDE DEF x, z
<1>6. /\ Mild(s, u, c) /\ u.chan[c] = x /\ u.rc[c] = s.rc[c]
      /\ Mild(s, t, c) /\ t.chan[c] = x /\ t.rc[c] = z
  <2>1. /\ u \in KitType /\ u.chan[c] = x /\ u.rc[c] = s.rc[c]
        /\ u.timers = s.timers /\ u.passes = s.passes /\ u.frames = s.frames
        /\ \A d \in Channels \ {c} : u.chan[d] = s.chan[d] /\ u.rc[d] = s.rc[d]
    BY <1>1, <1>2 DEF KitType
  <2>2. /\ t \in KitType /\ t.chan[c] = x /\ t.rc[c] = z
        /\ t.timers = s.timers /\ t.passes = s.passes /\ t.frames = s.frames
        /\ \A d \in Channels \ {c} : t.chan[d] = s.chan[d] /\ t.rc[d] = s.rc[d]
    BY <1>1, <1>2, <1>3 DEF KitType
  <2> HIDE DEF u, t
  <2> QED
    BY <1>2, <1>3, <2>1, <2>2 DEF Mild
<1> HIDE DEF u, t
<1>7. KInvBut(u, c, 0) /\ KInvBut(t, c, 0)
  BY <1>1, <1>6, MildKeeps
<1>8. Interest(u, c) = Interest(s, c) /\ Interest(t, c) = Interest(s, c)
  BY <1>2, <1>6 DEF Interest
<1>9. Interest(s, c) \subseteq s.rc[c].validMask
  BY <1>1, InterestOf
<1>10. /\ Quiet(u, c) => Quiet(s, c)
       /\ Quiet(t, c) => Quiet(s, c)
  BY <1>6 DEF Mild, Quiet
<1>11. ArmedFor(s, c) => ArmedFor(u, c)
  BY <1>2, <1>6, <1>8 DEF ArmedFor, Armed
<1>12. ArmedFor(s, c) => ArmedFor(t, c)
  BY <1>2, <1>3, <1>6, <1>8, <1>9 DEF ArmedFor, Armed
<1>13. KInv(u) /\ KInv(t)
  BY <1>1, <1>7, <1>10, <1>11, <1>12, KInvParts
<1> QED
  BY <1>4, <1>5, <1>13

-----------------------------------------------------------------------------
\* The loops, the passes and the handlers.

LEMMA NewFrameKeeps ==
  ASSUME NEW s, KInv(s), NEW f, NEW t, Grows(s, t, f),
         \A d \in Channels : Quiet(t, d) /\ Quiet(s, d) => ArmedFor(s, d)
  PROVE  KInv(t)
<1>1. Sound(s) /\ Stack(s) /\ \A d \in Channels : Held(s, d, 0) /\ Used(s, d)
  BY DEF KInv
<1>2. /\ Sound(t) /\ Stack(t)
      /\ \A d \in Channels :
           /\ Held(s, d, 0) => Held(t, d, 0)
           /\ Used(s, d) => Used(t, d)
           /\ ArmedFor(s, d) => ArmedFor(t, d)
           /\ Quiet(t, d) => Quiet(s, d) /\ ~ (f.chan = d /\ f.kind = "notify")
  BY <1>1, GrowsKeeps
<1> QED
  BY <1>1, <1>2 DEF KInv

LEMMA PlainFrameType ==
  ASSUME NEW s, NEW kind \in {"update", "vwait", "pass"}
  PROVE  LET f == PlainFrame(kind) IN
           f \in Frame /\ f.kind = kind /\ f.chan = None /\ FrameSound(s, f)
BY DEF PlainFrame, Frame, FrameSound

LEMMA EnterLoopKeeps ==
  ASSUME NEW s, KInv(s), NEW kind \in {"update", "vwait"}
  PROVE  KInv(Push(s, PlainFrame(kind)))
<1> DEFINE f == PlainFrame(kind)
           fs == Append(s.frames, f)
           t == Push(s, f)
<1>1. s \in KitType /\ s.passes \in Nat /\ s.frames \in Seq(Frame)
  BY DEF KInv, Sound, KitType
<1>2. f \in Frame /\ f.kind = kind /\ f.chan = None /\ FrameSound(s, f)
  BY PlainFrameType
<1> HIDE DEF f
<1>3. /\ t \in KitType /\ t.chan = s.chan /\ t.rc = s.rc /\ t.timers = s.timers
      /\ t.passes = s.passes /\ t.frames = fs
  <2>1. t = [s EXCEPT !.frames = fs] /\ fs \in Seq(Frame)
    BY <1>1, <1>2 DEF Push
  <2> HIDE DEF fs, t
  <2> QED
    BY <1>1, <2>1 DEF KitType
<1> HIDE DEF t
<1>4. Grows(s, t, f)
  BY <1>1, <1>2, <1>3, NoneAssumption DEF Grows
<1>5. \A d \in Channels : Quiet(s, d) => ArmedFor(s, d)
  BY DEF KInv
<1> QED
  BY <1>4, <1>5, NewFrameKeeps DEF t, f

LEMMA ServiceEventKeeps ==
  ASSUME NEW s, KInv(s)
  PROVE  KInv(Push([s EXCEPT !.passes = @ + 1], PlainFrame("pass")))
<1> DEFINE f == PlainFrame("pass")
           fs == Append(s.frames, f)
           t == Push([s EXCEPT !.passes = @ + 1], f)
<1>1. s \in KitType /\ s.passes \in Nat /\ s.frames \in Seq(Frame)
  BY DEF KInv, Sound, KitType
<1>2. f \in Frame /\ f.kind = "pass" /\ f.chan = None /\ FrameSound(s, f)
  BY PlainFrameType
<1> HIDE DEF f
<1>3. /\ t \in KitType /\ t.chan = s.chan /\ t.rc = s.rc /\ t.timers = s.timers
      /\ t.passes = s.passes + 1 /\ t.frames = fs
  <2>1. /\ t = [s EXCEPT !.passes = s.passes + 1, !.frames = fs]
        /\ fs \in Seq(Frame) /\ s.passes + 1 \in Nat
    BY <1>1, <1>2 DEF Push, KitType
  <2> HIDE DEF fs, t
  <2> QED
    BY <1>1, <2>1 DEF KitType
<1> HIDE DEF t
<1>4. Grows(s, t, f)
  BY <1>1, <1>2, <1>3, NoneAssumption DEF Grows
<1>5. \A d \in Channels : Quiet(s, d) => ArmedFor(s, d)
  BY DEF KInv
<1> QED
  BY <1>4, <1>5, NewFrameKeeps DEF t, f

\* The frame on top.
LEMMA TopFrame ==
  ASSUME NEW s, Sound(s), Stack(s)
  PROVE  LET n == Len(s.frames)
             f == Last(s.frames)
         IN  /\ s.frames \in Seq(Frame) /\ n \in Nat \ {0}
             /\ DOMAIN s.frames = 1 .. n
             /\ n \in DOMAIN s.frames /\ f = s.frames[n] /\ f \in Frame
             /\ FrameSound(s, f)
             /\ f.chan \in Channels => n \in Uses(s.frames, f.chan)
<1>1. s.frames \in Seq(Frame) /\ s.frames # <<>>
  BY DEF Sound, Stack, KitType
<1>2. /\ Len(s.frames) \in Nat \ {0} /\ DOMAIN s.frames = 1 .. Len(s.frames)
      /\ Last(s.frames) = s.frames[Len(s.frames)] /\ Last(s.frames) \in Frame
  BY <1>1, Popped
<1>3. Len(s.frames) \in DOMAIN s.frames
  BY <1>2
<1> QED
  BY <1>1, <1>2, <1>3 DEF Stack, Uses

LEMMA HandlerReturnsKeeps ==
  ASSUME NEW s, KInv(s), NEW c \in Channels,
         Last(s.frames).kind = "script", Last(s.frames).chan = c
  PROVE  KInv(Pop(TclChannelRelease(s, c)))
BY KInvFacts, ReleaseKeeps

LEMMA HandlerFailsKeeps ==
  ASSUME NEW s, KInv(s), NEW c \in Channels, NEW e,
         Last(s.frames).kind = "script", Last(s.frames).chan = c
  PROVE  KInv(Pop(TclChannelRelease(Tcl_DeleteChannelHandler(s, c, e), c)))
<1> DEFINE t == Tcl_DeleteChannelHandler(s, c, e)
<1>1. KInvBut(s, c, 0) /\ (Quiet(s, c) => ArmedFor(s, c)) /\ Sound(s) /\ Stack(s)
  BY KInvFacts DEF KInv
<1>2. /\ KInvBut(t, c, 0) /\ (Quiet(t, c) => ArmedFor(t, c))
      /\ SameFrames(s, t, c)
  BY <1>1, UnsetHandlerKeeps
<1> HIDE DEF t
<1>3. Sound(t) /\ Stack(t)
  BY <1>2 DEF KInvBut
<1>4. Last(t.frames).kind = "script" /\ Last(t.frames).chan = c
  <2>1. /\ Len(s.frames) \in Nat \ {0} /\ DOMAIN s.frames = 1 .. Len(s.frames)
        /\ Len(s.frames) \in DOMAIN s.frames
        /\ Last(s.frames) = s.frames[Len(s.frames)]
    BY <1>1, TopFrame
  <2>2. /\ Len(t.frames) \in Nat \ {0} /\ DOMAIN t.frames = 1 .. Len(t.frames)
        /\ Last(t.frames) = t.frames[Len(t.frames)]
    BY <1>3, TopFrame
  <2>3. DOMAIN s.frames = DOMAIN t.frames
    BY <1>2 DEF SameFrames
  <2>4. Len(t.frames) = Len(s.frames)
    BY <2>1, <2>2, <2>3
  <2> QED
    BY <1>2, <2>1, <2>2, <2>4 DEF SameFrames
<1> QED
  BY <1>2, <1>4, ReleaseKeeps DEF t

LEMMA NotifyEndsKeeps ==
  ASSUME NEW s, KInv(s), NEW c \in Channels,
         Last(s.frames).kind = "notify", Last(s.frames).chan = c
  PROVE  KInv(Pop(TclChannelRelease(UpdateInterest(s, c), c)))
<1> DEFINE t == UpdateInterest(s, c)
<1>1. KInvBut(s, c, 0)
  BY KInvFacts
<1>2. KInvBut(t, c, 0) /\ ArmedFor(t, c) /\ t.frames = s.frames
  BY <1>1, UpdateInterestRestores
<1> HIDE DEF t
<1>3. Last(t.frames).chan = c
  BY <1>2
<1> QED
  BY <1>2, <1>3, ReleaseKeeps DEF t

\* A notification goes on to its next handler.
LEMMA SuccessorType ==
  ASSUME NEW hs \in Seq(Events), NEW e
  PROVE  Successor(hs, e) \in ToSet(hs) \cup {None}
<1>1. Len(hs) \in Nat /\ DOMAIN hs = 1 .. Len(hs)
  OBVIOUS
<1>2. CASE \E i \in 1 .. Len(hs) - 1 : hs[i] = e
  <2> DEFINE k == CHOOSE i \in 1 .. Len(hs) - 1 : hs[i] = e
  <2>1. k \in 1 .. Len(hs) - 1
    BY <1>2
  <2>2. Successor(hs, e) = hs[1 + k]
    BY <1>2 DEF Successor
  <2> HIDE DEF k
  <2>3. 1 + k \in DOMAIN hs
    BY <1>1, <2>1
  <2> QED
    BY <2>2, <2>3 DEF ToSet
<1>3. CASE ~ \E i \in 1 .. Len(hs) - 1 : hs[i] = e
  BY <1>3 DEF Successor
<1> QED
  BY <1>2, <1>3

LEMMA NotifySkipsKeeps ==
  ASSUME NEW s, KInv(s), NEW c \in Channels,
         Last(s.frames).kind = "notify", Last(s.frames).chan = c, NEW e
  PROVE  LET t == [s EXCEPT !.frames[Len(s.frames)].event =
                              Successor(s.chan[c].handlers, e)]
         IN  /\ KInv(t) /\ t.chan = s.chan /\ t.rc = s.rc /\ t.timers = s.timers
             /\ t.passes = s.passes /\ ~Quiet(t, c)
<1> DEFINE n == Len(s.frames)
           g == Successor(s.chan[c].handlers, e)
           f == [Last(s.frames) EXCEPT !.event = g]
           fs == [s.frames EXCEPT ![n] = f]
           t == [s EXCEPT !.frames = fs]
<1>1. /\ KInvBut(s, c, 0) /\ Sound(s) /\ Stack(s) /\ s \in KitType
      /\ Held(s, c, 0) /\ Used(s, c) /\ s.chan[c].handlers \in Seq(Events)
      /\ \A i \in DOMAIN s.frames : FrameSound(s, s.frames[i])
      /\ Good(s.timers, s.passes)
  BY KInvFacts DEF KInv
<1>2. /\ s.frames \in Seq(Frame) /\ n \in Nat \ {0} /\ DOMAIN s.frames = 1 .. n
      /\ n \in DOMAIN s.frames /\ Last(s.frames) = s.frames[n]
      /\ Last(s.frames) \in Frame
  BY <1>1, TopFrame
<1>3. g \in Interest(s, c) \cup {None} /\ g \in Events \cup {None}
  <2>1. g \in ToSet(s.chan[c].handlers) \cup {None}
    BY <1>1, SuccessorType
  <2>2. Interest(s, c) \subseteq Events
    BY <1>1, InterestOf
  <2> QED
    BY <2>1, <2>2 DEF Interest
<1> HIDE DEF g
<1>4. f \in Frame /\ f.kind = "notify" /\ f.chan = c /\ f.event = g
  BY <1>2, <1>3 DEF Frame
<1>5. [s EXCEPT !.frames[n].event = g] = t
  BY <1>1, <1>2 DEF KitType
<1> HIDE DEF f, n
<1>6. /\ fs \in Seq(Frame) /\ DOMAIN fs = DOMAIN s.frames /\ fs[n] = f
      /\ \A i \in DOMAIN s.frames \ {n} : fs[i] = s.frames[i]
  BY <1>2, <1>4
<1> HIDE DEF fs
<1>7. /\ t \in KitType /\ t.chan = s.chan /\ t.rc = s.rc /\ t.timers = s.timers
      /\ t.passes = s.passes /\ t.frames = fs
  BY <1>1, <1>6 DEF KitType
<1> HIDE DEF t
<1>8. SameFrames(s, t, c)
  <2>1. fs # <<>>
    BY <1>2, <1>6
  <2>2. s.frames[n].kind = "notify" /\ s.frames[n].chan = c
    BY <1>2
  <2> QED
    BY <1>4, <1>6, <1>7, <2>1, <2>2 DEF SameFrames
<1>9. Sound(t)
  <2>1. \A d \in Channels : ChannelSound(t, d)
    BY <1>1, <1>7 DEF Sound, ChannelSound, HandlersSound, Opened
  <2> QED
    BY <1>1, <1>7, <2>1 DEF Sound
<1>10. SameUses(s, t)
  BY <1>8, SameFramesUses
<1>11. Held(t, c, 0) /\ Used(t, c)
  BY <1>1, <1>7, <1>10 DEF Held, Used, SameUses
<1>12. ASSUME NEW i \in DOMAIN t.frames,
              t.frames[i].kind = "notify", t.frames[i].chan = c
       PROVE  t.frames[i].event \in Interest(t, c) \cup {None}
  <2>1. Interest(t, c) = Interest(s, c)
    BY <1>7 DEF Interest
  <2>2. CASE i = n
    BY <1>3, <1>4, <1>6, <1>7, <2>1, <2>2
  <2>3. CASE i # n
    <3>1. t.frames[i] = s.frames[i] /\ FrameSound(s, s.frames[i])
      BY <1>1, <1>6, <1>7, <2>3
    <3> QED
      BY <1>12, <2>1, <3>1 DEF FrameSound
  <2> QED
    BY <2>2, <2>3
<1>13. KInvBut(t, c, 0)
  BY <1>1, <1>7, <1>8, <1>9, <1>11, <1>12, OthersStay
<1>14. ~Quiet(t, c)
  <2>1. n \in Uses(t.frames, c) /\ t.frames[n].kind = "notify"
    BY <1>2, <1>4, <1>6, <1>7 DEF Uses
  <2> QED
    BY <2>1 DEF Quiet
<1>15. KInv(t)
  BY <1>13, <1>14, KInvParts
<1> QED
  BY <1>5, <1>7, <1>14, <1>15 DEF n, g

LEMMA PreservedPushed ==
  ASSUME NEW s, s \in KitType, NEW c \in Channels, s.chan[c].life # "none",
         NEW f \in Frame, f.chan = c, f.kind # "pass", FrameSound(s, f)
  PROVE  Grows(s, Push(TclChannelPreserve(s, c), f), f)
<1> DEFINE x == [s.chan[c] EXCEPT !.refCount = s.chan[c].refCount + 1]
           u == TclChannelPreserve(s, c)
           fs == Append(s.frames, f)
           t == Push(u, f)
<1>1. s.chan[c] \in Channel /\ s.passes \in Nat /\ s.frames \in Seq(Frame)
  BY DEF KitType
<1>2. x \in Channel
  BY <1>1 DEF Channel
<1>3. u = [s EXCEPT !.chan[c] = x]
  BY DEF TclChannelPreserve, KitType
<1> HIDE DEF u
<1>4. /\ u \in KitType /\ u.chan[c] = x
      /\ \A d \in Channels \ {c} : u.chan[d] = s.chan[d]
      /\ u.rc = s.rc /\ u.timers = s.timers
      /\ u.passes = s.passes /\ u.frames = s.frames
  <2> HIDE DEF x
  <2> QED
    BY <1>2, <1>3, ChannelChanged
<1>5. t = [u EXCEPT !.frames = fs] /\ fs \in Seq(Frame)
  BY <1>1, <1>4 DEF Push
<1> HIDE DEF fs, t
<1>6. /\ t \in KitType /\ t.chan = u.chan /\ t.rc = u.rc /\ t.timers = u.timers
      /\ t.passes = u.passes /\ t.frames = fs
  BY <1>4, <1>5 DEF KitType
<1>7. s.passes = s.passes + (IF f.kind = "pass" THEN 1 ELSE 0)
  BY <1>1
<1>8. \A d \in Channels : IF f.chan = d
        THEN /\ s.chan[d].life # "none"
             /\ t.chan[d] = [s.chan[d] EXCEPT !.refCount = s.chan[d].refCount + 1]
        ELSE t.chan[d] = s.chan[d]
  BY <1>4, <1>6
<1> HIDE DEF x
<1> QED
  BY <1>4, <1>6, <1>7, <1>8 DEF Grows, fs, t, u

LEMMA NotifyCallsKeeps ==
  ASSUME NEW s, KInv(s), NEW c \in Channels,
         Last(s.frames).kind = "notify", Last(s.frames).chan = c,
         NEW e \in Events
  PROVE  KInv(Push([TclChannelPreserve(s, c) EXCEPT
                      !.frames[Len(s.frames)].event =
                         Successor(s.chan[c].handlers, e)], ScriptFrame(c, e)))
<1> DEFINE n == Len(s.frames)
           g == Successor(s.chan[c].handlers, e)
           u == [s EXCEPT !.frames[n].event = g]
           f == ScriptFrame(c, e)
           t == Push(TclChannelPreserve(u, c), f)
<1>1. s \in KitType /\ Sound(s) /\ Stack(s) /\ Used(s, c)
  BY KInvFacts DEF KInv
<1>2. /\ KInv(u) /\ u.chan = s.chan /\ ~Quiet(u, c)
  BY NotifySkipsKeeps
<1>3. [TclChannelPreserve(s, c) EXCEPT !.frames[n].event = g]
        = TclChannelPreserve(u, c)
  BY <1>1 DEF TclChannelPreserve, KitType
<1> HIDE DEF u
<1>4. u \in KitType /\ u.chan[c].life # "none"
  <2>1. u \in KitType /\ Used(u, c)
    BY <1>2, KInvFacts
  <2>2. Uses(u.frames, c) # {}
    BY <1>2 DEF Quiet
  <2> QED
    BY <2>1, <2>2 DEF Used
<1>5. /\ f \in Frame /\ f.kind = "script" /\ f.chan = c
      /\ FrameSound(u, f)
  BY DEF ScriptFrame, Frame, FrameSound
<1> HIDE DEF f
<1>6. Grows(u, t, f)
  BY <1>4, <1>5, PreservedPushed
<1> HIDE DEF t
<1>7. \A d \in Channels : Quiet(u, d) => ArmedFor(u, d)
  BY <1>2 DEF KInv
<1>8. KInv(t)
  BY <1>2, <1>6, <1>7, NewFrameKeeps
<1> QED
  BY <1>3, <1>8 DEF t, f, n, g

\* A timer handler notifies its channel.
LEMMA NotifiedKeeps ==
  ASSUME NEW s, NEW c \in Channels, KInvBut(s, c, 0), Opened(s, c),
         NEW mask \in SUBSET Events,
         mask = {} => (Quiet(s, c) => ArmedFor(s, c))
  PROVE  KInv(Notified(s, c, mask))
<1>1. CASE mask = {}
  BY <1>1, KInvParts DEF Notified
<1>2. CASE mask # {}
  <2> DEFINE hs == s.chan[c].handlers
             e == IF hs = <<>> THEN None ELSE Head(hs)
             f == NotifyFrame(c, e, mask)
             t == Push(TclChannelPreserve(s, c), f)
  <2>1. /\ Sound(s) /\ Stack(s) /\ s \in KitType /\ hs \in Seq(Events)
        /\ \A d \in Channels : Held(s, d, 0) /\ Used(s, d)
    BY DEF KInvBut, Sound, KitType, Channel
  <2>2. e \in Interest(s, c) \cup {None} /\ e \in Events \cup {None}
    <3>1. CASE hs = <<>>
      BY <3>1
    <3>2. CASE hs # <<>>
      <4>1. e = hs[1] /\ 1 \in DOMAIN hs /\ e \in Events
        BY <2>1, <3>2
      <4> QED
        BY <4>1 DEF Interest, ToSet
    <3> QED
      BY <3>1, <3>2
  <2> HIDE DEF e
  <2>3. f \in Frame /\ f.kind = "notify" /\ f.chan = c /\ f.event = e
    BY <2>2 DEF NotifyFrame, Frame
  <2> HIDE DEF f
  <2>4. FrameSound(s, f)
    <3>1. c # None
      BY NoneAssumption
    <3> QED
      BY <2>2, <2>3, <3>1 DEF FrameSound
  <2>5. s.chan[c].life # "none"
    BY DEF Opened
  <2>6. Grows(s, t, f)
    BY <2>1, <2>3, <2>4, <2>5, PreservedPushed
  <2> HIDE DEF t
  <2>7. /\ Sound(t) /\ Stack(t)
        /\ \A d \in Channels :
             /\ Held(s, d, 0) => Held(t, d, 0)
             /\ Used(s, d) => Used(t, d)
             /\ ArmedFor(s, d) => ArmedFor(t, d)
             /\ Quiet(t, d) => Quiet(s, d) /\ ~ (f.chan = d /\ f.kind = "notify")
    BY <2>1, <2>6, GrowsKeeps
  <2>8. \A d \in Channels : Quiet(t, d) => ArmedFor(t, d)
    BY <2>3, <2>7 DEF KInvBut
  <2>9. KInv(t)
    BY <2>1, <2>7, <2>8 DEF KInv
  <2>10. Notified(s, c, mask) = t
    BY <1>2 DEF Notified, t, f, e
  <2> QED
    BY <2>9, <2>10
<1> QED
  BY <1>1, <1>2

-----------------------------------------------------------------------------
\* The timers fire.

\* The handler at the head of the list is taken from it.
Unlists(s, u, proc, c) ==
  /\ s.timers # <<>> /\ Head(s.timers).proc = proc /\ Head(s.timers).chan = c
  /\ u = [s EXCEPT !.timers = Tail(@)]

LEMMA UnlistedFacts ==
  ASSUME NEW s, KInv(s), NEW u, NEW proc, NEW c, Unlists(s, u, proc, c)
  PROVE  /\ c \in Channels /\ Listed(s.timers, proc, c)
         /\ u \in KitType /\ Good(u.timers, u.passes)
         /\ u.chan = s.chan /\ u.rc = s.rc /\ u.passes = s.passes
         /\ u.frames = s.frames
         /\ \A q, d : Listed(u.timers, q, d)
              <=> Listed(s.timers, q, d) /\ ~ (q = proc /\ d = c)
<1> DEFINE h == Head(s.timers)
<1>1. s \in KitType /\ Good(s.timers, s.passes) /\ s.passes \in Nat
  BY DEF KInv, Sound, KitType
<1>2. /\ h \in TimerHandler
      /\ Listed(s.timers, h.proc, h.chan)
      /\ Good(Tail(s.timers), s.passes)
      /\ \A q, d : Listed(Tail(s.timers), q, d)
           <=> Listed(s.timers, q, d) /\ ~ Is(h, q, d)
  BY <1>1, TailGood DEF Unlists
<1>3. Tail(s.timers) \in Seq(TimerHandler)
  BY <1>2 DEF Good
<1>4. /\ u \in KitType /\ u.timers = Tail(s.timers)
      /\ u.chan = s.chan /\ u.rc = s.rc /\ u.passes = s.passes
      /\ u.frames = s.frames
  BY <1>1, <1>3 DEF KitType, Unlists
<1>5. h.proc = proc /\ h.chan = c
  BY DEF Unlists
<1> HIDE DEF h
<1>6. c \in Channels
  BY <1>2, <1>5 DEF TimerHandler
<1>7. \A q, d : Is(h, q, d) <=> q = proc /\ d = c
  BY <1>5 DEF Is
<1> QED
  BY <1>2, <1>4, <1>5, <1>6, <1>7

LEMMA FireRechanKeeps ==
  ASSUME NEW s, KInv(s), NEW u, NEW c, Unlists(s, u, "rcTimerProc", c)
  PROVE  LET t == rcTimerProc(u, c) IN KInv(Notified(t, c, t.rc[c].watchMask))
<1> DEFINE r == Tcl_DeleteTimerHandler(u, "rcTimerProc", c)
           x == [s.rc[c] EXCEPT !.timer = FALSE]
           t == rcTimerProc(u, c)
<1>1. /\ c \in Channels /\ Listed(s.timers, "rcTimerProc", c)
      /\ u \in KitType /\ Good(u.timers, u.passes)
      /\ u.chan = s.chan /\ u.rc = s.rc /\ u.passes = s.passes
      /\ u.frames = s.frames
      /\ \A q, d : Listed(u.timers, q, d)
           <=> Listed(s.timers, q, d) /\ ~ (q = "rcTimerProc" /\ d = c)
  BY UnlistedFacts
<1>2. /\ KInvBut(s, c, 0) /\ Sound(s) /\ ChannelSound(s, c) /\ s \in KitType
      /\ Held(s, c, 0) /\ Used(s, c) /\ s.rc[c] \in Instance
      /\ Quiet(s, c) => ArmedFor(s, c)
  BY <1>1, KInvFacts
<1>3. s.rc[c].timer /\ Opened(s, c) /\ Stack(s)
  BY <1>1, <1>2 DEF ChannelSound, KInvBut
<1>4. /\ r \in KitType /\ Good(r.timers, r.passes)
      /\ r.chan = u.chan /\ r.rc = u.rc /\ r.passes = u.passes
      /\ r.frames = u.frames
      /\ \A q, d : Listed(r.timers, q, d)
           <=> Listed(u.timers, q, d) /\ ~ (q = "rcTimerProc" /\ d = c)
  BY <1>1, TimerDeleted
<1>5. /\ x \in Instance /\ x.timer = FALSE /\ x.validMask = s.rc[c].validMask
      /\ x.watchMask = s.rc[c].watchMask /\ x.watchMask \in SUBSET Events
  BY <1>2 DEF Instance
<1>6. t = [r EXCEPT !.rc[c] = x]
  <2>1. t = [r EXCEPT !.rc[c].timer = FALSE]
    BY <1>1, <1>3 DEF rcTimerProc, DropTimer
  <2> HIDE DEF r
  <2> QED
    BY <1>1, <1>4, <2>1 DEF KitType
<1> HIDE DEF r, x, t
<1>7. /\ t \in KitType
      /\ t.chan = r.chan /\ t.passes = r.passes /\ t.frames = r.frames
      /\ t.timers = r.timers /\ t.rc = [r.rc EXCEPT ![c] = x]
  BY <1>1, <1>4, <1>5, <1>6, InstanceChanged
<1>8. t.rc[c] = x /\ \A d \in Channels \ {c} : t.rc[d] = s.rc[d]
  BY <1>1, <1>2, <1>4, <1>7 DEF KitType
<1>9. t.chan = s.chan /\ t.frames = s.frames /\ t.passes = s.passes
      /\ Good(t.timers, t.passes)
      /\ \A q, d : Listed(t.timers, q, d)
           <=> Listed(s.timers, q, d) /\ ~ (q = "rcTimerProc" /\ d = c)
  BY <1>1, <1>4, <1>7
<1>10. ChannelSound(t, c)
  <2>1. HandlersSound(t, c)
    BY <1>2, <1>5, <1>8, <1>9 DEF ChannelSound, HandlersSound
  <2>2. /\ ~Listed(t.timers, "rcTimerProc", c)
        /\ Listed(t.timers, "ChannelTimerProc", c)
             <=> Listed(s.timers, "ChannelTimerProc", c)
    BY <1>9
  <2>3. ~t.rc[c].timer /\ Opened(t, c) /\ t.chan[c] = s.chan[c]
    BY <1>3, <1>5, <1>8, <1>9 DEF Opened
  <2> QED
    BY <1>2, <2>1, <2>2, <2>3 DEF ChannelSound
<1>11. Sound(t)
  BY <1>1, <1>2, <1>7, <1>8, <1>9, <1>10, SoundAgain
<1>12. SameFrames(s, t, c)
  BY <1>3, <1>9 DEF SameFrames, Stack
<1>13. Held(t, c, 0) /\ Used(t, c)
  BY <1>2, <1>9 DEF Held, Used
<1>14. \A i \in DOMAIN t.frames :
         t.frames[i].kind = "notify" /\ t.frames[i].chan = c
           => t.frames[i].event \in Interest(t, c) \cup {None}
  BY <1>3, <1>9 DEF Stack, FrameSound, Interest
<1>15. KInvBut(t, c, 0)
  BY <1>1, <1>2, <1>8, <1>9, <1>11, <1>12, <1>13, <1>14, OthersStay
<1>16. t.rc[c].watchMask = {} => (Quiet(t, c) => ArmedFor(t, c))
  BY <1>2, <1>5, <1>8, <1>9 DEF Quiet, ArmedFor, Armed, Interest
<1>17. Opened(t, c) /\ t.rc[c].watchMask \in SUBSET Events
  BY <1>3, <1>5, <1>8, <1>9 DEF Opened
<1> QED
  BY <1>1, <1>15, <1>16, <1>17, NotifiedKeeps DEF t

\* ChannelTimerProc starts its timer again, and tells of the input.
LEMMA TimerRestarted ==
  ASSUME NEW s, KInv(s), NEW u, NEW c, Unlists(s, u, "ChannelTimerProc", c)
  PROVE  KInv(Notified(StartTimer(u, c), c, {"readable"}))
<1> DEFINE t == StartTimer(u, c)
<1>1. /\ c \in Channels /\ Listed(s.timers, "ChannelTimerProc", c)
      /\ u \in KitType /\ Good(u.timers, u.passes)
      /\ u.chan = s.chan /\ u.rc = s.rc /\ u.passes = s.passes
      /\ u.frames = s.frames
      /\ \A q, d : Listed(u.timers, q, d)
           <=> Listed(s.timers, q, d) /\ ~ (q = "ChannelTimerProc" /\ d = c)
  BY UnlistedFacts
<1>2. /\ KInvBut(s, c, 0) /\ Sound(s) /\ ChannelSound(s, c) /\ s \in KitType
      /\ Held(s, c, 0) /\ Used(s, c) /\ s.chan[c] \in Channel
  BY <1>1, KInvFacts
<1>3. s.chan[c].timer /\ Opened(s, c) /\ Stack(s)
  BY <1>1, <1>2 DEF ChannelSound, KInvBut
<1>4. ~Listed(u.timers, "ChannelTimerProc", c)
  BY <1>1
<1>5. /\ t \in KitType /\ Good(t.timers, t.passes)
      /\ t.chan[c] = [u.chan[c] EXCEPT !.timer = TRUE]
      /\ \A d \in Channels \ {c} : t.chan[d] = u.chan[d]
      /\ t.rc = u.rc /\ t.passes = u.passes /\ t.frames = u.frames
      /\ \A q, d : Listed(t.timers, q, d)
           <=> Listed(u.timers, q, d) \/ (q = "ChannelTimerProc" /\ d = c)
  BY <1>1, <1>4, StartTimerKeeps
<1> HIDE DEF t
<1>6. /\ t.chan[c] = s.chan[c] /\ t.rc = s.rc /\ t.passes = s.passes
      /\ t.frames = s.frames
      /\ \A d \in Channels \ {c} : t.chan[d] = s.chan[d] /\ t.rc[d] = s.rc[d]
      /\ \A q, d : Listed(t.timers, q, d) <=> Listed(s.timers, q, d)
  <2>1. [s.chan[c] EXCEPT !.timer = TRUE] = s.chan[c]
    BY <1>2, <1>3 DEF Channel
  <2>2. \A q, d : Listed(t.timers, q, d) <=> Listed(s.timers, q, d)
    BY <1>1, <1>5
  <2> QED
    BY <1>1, <1>5, <2>1, <2>2
<1>7. ChannelSound(t, c)
  BY <1>2, <1>6 DEF ChannelSound, HandlersSound, Opened
<1>8. Sound(t)
  BY <1>1, <1>2, <1>5, <1>6, <1>7, SoundAgain
<1>9. SameFrames(s, t, c)
  BY <1>3, <1>6 DEF SameFrames, Stack
<1>10. Held(t, c, 0) /\ Used(t, c)
  BY <1>2, <1>6 DEF Held, Used
<1>11. \A i \in DOMAIN t.frames :
         t.frames[i].kind = "notify" /\ t.frames[i].chan = c
           => t.frames[i].event \in Interest(t, c) \cup {None}
  BY <1>3, <1>6 DEF Stack, FrameSound, Interest
<1>12. KInvBut(t, c, 0)
  BY <1>1, <1>2, <1>6, <1>8, <1>9, <1>10, <1>11, OthersStay
<1>13. Opened(t, c) /\ {"readable"} # {} /\ {"readable"} \in SUBSET Events
  BY <1>3, <1>6 DEF Opened, Events
<1> QED
  BY <1>1, <1>12, <1>13, NotifiedKeeps DEF t

\* A reference to an open channel goes.
LEMMA ReferenceGone ==
  ASSUME NEW s, NEW c \in Channels, KInvBut(s, c, 1), Opened(s, c), ArmedFor(s, c)
  PROVE  KInv(TclChannelRelease(s, c))
<1> DEFINE m == Cardinality(Uses(s.frames, c)) + (IF s.chan[c].timer THEN 1 ELSE 0)
           x == [s.chan[c] EXCEPT !.refCount = m]
           t == TclChannelRelease(s, c)
<1>1. /\ s \in KitType /\ Sound(s) /\ ChannelSound(s, c) /\ Held(s, c, 1) /\ Used(s, c)
      /\ Good(s.timers, s.passes) /\ s.frames \in Seq(Frame) /\ s.chan[c] \in Channel
      /\ Stack(s)
  BY DEF KInvBut, Sound, KitType
<1>2. m \in Nat /\ s.chan[c].refCount = m + 1
  <2>1. Cardinality(Uses(s.frames, c)) \in Nat
    BY <1>1, UsesCounted
  <2>2. (IF s.chan[c].timer THEN 1 ELSE 0) \in Nat
    OBVIOUS
  <2>3. m \in Nat
    BY <2>1, <2>2
  <2>4. s.chan[c].refCount = m + 1
    BY <1>1 DEF Held
  <2> QED
    BY <2>3, <2>4
<1>3. s.chan[c].life = "open" /\ s.chan[c].refCount - 1 = m
  <2> HIDE DEF m
  <2> QED
    BY <1>2 DEF Opened
<1>4. /\ x \in Channel /\ x.life = s.chan[c].life /\ x.timer = s.chan[c].timer
      /\ x.handlers = s.chan[c].handlers /\ x.refCount = m
  <2> HIDE DEF m
  <2> QED
    BY <1>1, <1>2 DEF Channel
<1>5. t = [s EXCEPT !.chan[c] = x]
  <2> HIDE DEF m
  <2>1. t = [s EXCEPT !.chan[c].refCount = s.chan[c].refCount - 1]
    BY <1>1, <1>3 DEF TclChannelRelease, KitType
  <2> QED
    BY <1>1, <1>3, <2>1 DEF KitType
<1> HIDE DEF x, t, m
<1>6. /\ t \in KitType /\ t.chan[c] = x
      /\ \A d \in Channels \ {c} : t.chan[d] = s.chan[d]
      /\ t.rc = s.rc /\ t.timers = s.timers
      /\ t.passes = s.passes /\ t.frames = s.frames
  BY <1>1, <1>4, <1>5 DEF KitType
<1>7. ChannelSound(t, c)
  BY <1>1, <1>4, <1>6 DEF ChannelSound, HandlersSound, Opened
<1>8. Sound(t)
  BY <1>1, <1>6, <1>7, SoundAgain
<1>9. SameFrames(s, t, c)
  BY <1>1, <1>6 DEF SameFrames, Stack
<1>10. Held(t, c, 0)
  <2>1. t.chan[c].refCount = m
    BY <1>4, <1>6
  <2>2. m = m + 0
    BY <1>2
  <2> QED
    BY <1>4, <1>6, <2>1, <2>2 DEF Held, m
<1>11. Used(t, c)
  BY <1>1, <1>4, <1>6 DEF Used
<1>12. \A i \in DOMAIN t.frames :
         t.frames[i].kind = "notify" /\ t.frames[i].chan = c
           => t.frames[i].event \in Interest(t, c) \cup {None}
  BY <1>1, <1>4, <1>6 DEF Stack, FrameSound, Interest
<1>13. KInvBut(t, c, 0)
  BY <1>6, <1>8, <1>9, <1>10, <1>11, <1>12, OthersStay
<1>14. ArmedFor(t, c)
  BY <1>4, <1>6 DEF ArmedFor, Armed, Interest
<1> QED
  BY <1>13, <1>14, KInvParts DEF t

\* ChannelTimerProc has no input to tell of, and gives its timer up.
LEMMA TimerGivenUp ==
  ASSUME NEW s, KInv(s), NEW u, NEW c, Unlists(s, u, "ChannelTimerProc", c)
  PROVE  KInv(TclChannelRelease(
                UpdateInterest([u EXCEPT !.chan[c].timer = FALSE], c), c))
<1> DEFINE x == [s.chan[c] EXCEPT !.timer = FALSE]
           v == [u EXCEPT !.chan[c] = x]
           w == UpdateInterest(v, c)
<1>1. /\ c \in Channels /\ Listed(s.timers, "ChannelTimerProc", c)
      /\ u \in KitType /\ Good(u.timers, u.passes)
      /\ u.chan = s.chan /\ u.rc = s.rc /\ u.passes = s.passes
      /\ u.frames = s.frames
      /\ \A q, d : Listed(u.timers, q, d)
           <=> Listed(s.timers, q, d) /\ ~ (q = "ChannelTimerProc" /\ d = c)
  BY UnlistedFacts
<1>2. /\ KInvBut(s, c, 0) /\ Sound(s) /\ ChannelSound(s, c) /\ s \in KitType
      /\ Held(s, c, 0) /\ Used(s, c) /\ s.chan[c] \in Channel
  BY <1>1, KInvFacts
<1>3. s.chan[c].timer /\ Opened(s, c) /\ Stack(s)
  BY <1>1, <1>2 DEF ChannelSound, KInvBut
<1>4. /\ x \in Channel /\ x.life = s.chan[c].life /\ x.timer = FALSE
      /\ x.handlers = s.chan[c].handlers /\ x.refCount = s.chan[c].refCount
  BY <1>2 DEF Channel
<1>5. [u EXCEPT !.chan[c].timer = FALSE] = v
  BY <1>1 DEF KitType
<1> HIDE DEF x, v
<1>6. /\ v \in KitType /\ v.chan[c] = x
      /\ \A d \in Channels \ {c} : v.chan[d] = u.chan[d]
      /\ v.rc = u.rc /\ v.timers = u.timers
      /\ v.passes = u.passes /\ v.frames = u.frames
  BY <1>1, <1>4, ChannelChanged DEF v
<1>7. ChannelSound(v, c)
  <2>1. HandlersSound(v, c)
    BY <1>1, <1>2, <1>4, <1>6 DEF ChannelSound, HandlersSound
  <2>2. /\ ~Listed(v.timers, "ChannelTimerProc", c)
        /\ Listed(v.timers, "rcTimerProc", c) <=> Listed(s.timers, "rcTimerProc", c)
    BY <1>1, <1>6
  <2>3. ~v.chan[c].timer /\ Opened(v, c) /\ v.rc = s.rc
    BY <1>1, <1>3, <1>4, <1>6 DEF Opened
  <2> QED
    BY <1>2, <2>1, <2>2, <2>3 DEF ChannelSound
<1>8. Sound(v)
  <2>1. Good(v.timers, v.passes)
    BY <1>1, <1>6
  <2>2. \A d \in Channels \ {c} :
          /\ v.chan[d] = s.chan[d] /\ v.rc[d] = s.rc[d]
          /\ \A q : Listed(v.timers, q, d) <=> Listed(s.timers, q, d)
    BY <1>1, <1>6
  <2> QED
    BY <1>1, <1>2, <1>6, <1>7, <2>1, <2>2, SoundAgain
<1>9. SameFrames(s, v, c)
  BY <1>1, <1>3, <1>6 DEF SameFrames, Stack
<1>10. Held(v, c, 1)
  <2>1. Cardinality(Uses(s.frames, c)) \in Nat
    BY <1>2, UsesCounted DEF KitType
  <2>2. s.chan[c].refCount = Cardinality(Uses(s.frames, c)) + 1
    BY <1>2, <1>3, <2>1 DEF Held
  <2>3. v.chan[c].refCount = s.chan[c].refCount /\ ~v.chan[c].timer
        /\ v.frames = s.frames
    BY <1>1, <1>4, <1>6
  <2> QED
    BY <2>1, <2>2, <2>3 DEF Held
<1>11. Used(v, c)
  BY <1>1, <1>2, <1>4, <1>6 DEF Used
<1>12. \A i \in DOMAIN v.frames :
         v.frames[i].kind = "notify" /\ v.frames[i].chan = c
           => v.frames[i].event \in Interest(v, c) \cup {None}
  BY <1>1, <1>3, <1>4, <1>6 DEF Stack, FrameSound, Interest
<1>13. v.passes = s.passes
       /\ \A d \in Channels \ {c} : v.chan[d] = s.chan[d] /\ v.rc[d] = s.rc[d]
  BY <1>1, <1>6
<1>14. KInvBut(v, c, 1)
  BY <1>1, <1>2, <1>8, <1>9, <1>10, <1>11, <1>12, <1>13, OthersStay
<1>15. KInvBut(w, c, 1) /\ ArmedFor(w, c) /\ w.chan[c].life = v.chan[c].life
  BY <1>1, <1>14, UpdateInterestRestores
<1> HIDE DEF w
<1>16. Opened(w, c)
  BY <1>3, <1>4, <1>6, <1>15 DEF Opened
<1> QED
  BY <1>1, <1>5, <1>15, <1>16, ReferenceGone DEF w

\* The clock.
LEMMA TickKeeps ==
  ASSUME NEW s, KInv(s)
  PROVE  KInv([s EXCEPT !.timers = Ticked(@, s.passes)])
<1> DEFINE ts == Ticked(s.timers, s.passes)
           t == [s EXCEPT !.timers = ts]
<1>1. /\ s \in KitType /\ Good(s.timers, s.passes) /\ s.passes \in Nat
      /\ Sound(s) /\ Stack(s)
  BY DEF KInv, Sound, KitType
<1>2. /\ Good(ts, s.passes)
      /\ \A q, d : Listed(ts, q, d) <=> Listed(s.timers, q, d)
  BY <1>1, TickedGood
<1>3. ts \in Seq(TimerHandler)
  BY <1>2 DEF Good
<1> HIDE DEF ts
<1>4. /\ t \in KitType /\ t.timers = ts /\ t.chan = s.chan /\ t.rc = s.rc
      /\ t.passes = s.passes /\ t.frames = s.frames
  BY <1>1, <1>3 DEF KitType
<1> HIDE DEF t
<1>5. Sound(t)
  <2>1. \A d \in Channels : ChannelSound(t, d)
    BY <1>1, <1>2, <1>4 DEF Sound, ChannelSound, HandlersSound, Opened
  <2> QED
    BY <1>2, <1>4, <2>1 DEF Sound
<1>6. Stack(t)
  BY <1>1, <1>4 DEF Stack, FrameSound, Interest
<1>7. \A d \in Channels :
        /\ Held(t, d, 0) /\ Used(t, d)
        /\ Quiet(t, d) => ArmedFor(t, d)
  BY <1>4 DEF KInv, Held, Used, Quiet, ArmedFor, Armed, Interest
<1> QED
  BY <1>5, <1>6, <1>7 DEF KInv, t, ts

-----------------------------------------------------------------------------
\* The invariant holds.

LEMMA InitIInv == Init => IInv
<1> SUFFICES ASSUME Init PROVE IInv
  OBVIOUS
<1> DEFINE f == ScriptFrame(None, None)
<1>1. /\ kit = [chan   |-> [c \in Channels |-> Absent],
                rc     |-> [c \in Channels |-> Freed],
                timers |-> <<>>, passes |-> 0, frames |-> <<f>>]
      /\ pending = FALSE /\ queued = 0
  BY DEF Init
<1>2. /\ f \in Frame /\ f.kind = "script" /\ f.chan = None
  BY DEF ScriptFrame, Frame
<1>3. Freed \in Instance /\ Freed.timer = FALSE
  BY DEF Freed, rcCreate, Instance
<1> HIDE DEF f
<1>4. /\ kit \in KitType /\ kit.passes = 0 /\ kit.timers = <<>>
      /\ kit.frames = <<f>>
      /\ \A c \in Channels : kit.chan[c] = Absent /\ kit.rc[c] = Freed
  <2>1. <<>> \in Seq(TimerHandler) /\ <<f>> \in Seq(Frame)
    BY <1>2
  <2> QED
    BY <1>1, <1>3, <2>1, AbsentType DEF KitType
<1>5. DOMAIN kit.frames = {1} /\ kit.frames[1] = f /\ kit.frames # <<>>
  BY <1>4
<1>6. /\ \A c \in Channels : Uses(kit.frames, c) = {}
      /\ PassesOf(kit.frames) = {}
  BY <1>2, <1>5, NoneAssumption DEF Uses, PassesOf
<1>7. Good(kit.timers, kit.passes) /\ \A q, d : ~Listed(kit.timers, q, d)
  <2>1. <<>> \in Seq(TimerHandler) /\ DOMAIN <<>> = {}
    OBVIOUS
  <2> QED
    BY <1>4, <2>1 DEF Good, Unique, Ordered, Listed
<1>8. Sound(kit)
  <2>1. ASSUME NEW c \in Channels
        PROVE  ChannelSound(kit, c)
    <3>1. kit.chan[c].handlers = <<>> /\ kit.chan[c].timer = FALSE
          /\ kit.rc[c].timer = FALSE
      BY <1>3, <1>4, AbsentType
    <3>2. HandlersSound(kit, c)
      BY <3>1 DEF HandlersSound
    <3> QED
      BY <1>7, <3>1, <3>2 DEF ChannelSound
  <2> QED
    BY <1>4, <1>7, <2>1 DEF Sound
<1>9. Cardinality({}) = 0
  BY FS_EmptySet
<1>10. Stack(kit)
  <2>1. FrameSound(kit, f)
    BY <1>2 DEF FrameSound
  <2> QED
    BY <1>2, <1>4, <1>5, <1>6, <1>9, <2>1 DEF Stack
<1>11. ASSUME NEW c \in Channels
       PROVE  Held(kit, c, 0) /\ Used(kit, c) /\ ArmedFor(kit, c)
  <2>1. /\ kit.chan[c].refCount = 0 /\ kit.chan[c].timer = FALSE
        /\ kit.chan[c].life = "none" /\ kit.chan[c].handlers = <<>>
    BY <1>4, AbsentType
  <2>2. Interest(kit, c) = {}
    BY <1>8, <2>1, InterestOf
  <2> QED
    <3>1. Cardinality(Uses(kit.frames, c)) = 0 /\ Uses(kit.frames, c) = {}
      BY <1>6, <1>9
    <3>2. Held(kit, c, 0)
      BY <2>1, <3>1 DEF Held
    <3> QED
      BY <2>1, <2>2, <3>1, <3>2 DEF Used, ArmedFor
<1> QED
  BY <1>1, <1>8, <1>10, <1>11 DEF IInv, KInv

LEMMA ScriptKeeps ==
  ASSUME KInv(kit), Script
  PROVE  KInv(kit')
<1>1. ASSUME NEW c \in Channels, cmd_rechan(c)
      PROVE  KInv(kit')
  BY <1>1, cmd_rechanKeeps DEF cmd_rechan
<1>2. ASSUME NEW c \in Channels, Reconfigure(c)
      PROVE  KInv(kit')
  BY <1>2, ReconfigureKeeps DEF Reconfigure
<1>3. ASSUME NEW c \in Channels, Close(c)
      PROVE  KInv(kit')
  BY <1>3, CloseKeeps DEF Close
<1>4. ASSUME NEW c \in Channels, NEW e \in Events, SetHandler(c, e)
      PROVE  KInv(kit')
  BY <1>4, SetHandlerKeeps DEF SetHandler, CanUse
<1>5. ASSUME NEW c \in Channels, NEW e \in Events, UnsetHandler(c, e)
      PROVE  KInv(kit')
  <2> DEFINE t == Tcl_DeleteChannelHandler(kit, c, e)
  <2>1. KInvBut(kit, c, 0) /\ (Quiet(kit, c) => ArmedFor(kit, c))
    BY <1>5, KInvParts
  <2>2. KInvBut(t, c, 0) /\ (Quiet(t, c) => ArmedFor(t, c))
    BY <2>1, UnsetHandlerKeeps
  <2>3. kit' = t
    BY <1>5 DEF UnsetHandler
  <2> QED
    BY <2>2, <2>3, KInvParts
<1>6. ASSUME NEW c \in Channels, NEW got, NEW left \in BOOLEAN,
             NEW more \in BOOLEAN, Read(c, got, left, more)
      PROVE  KInv(kit')
  BY <1>6, ReadKeeps DEF Read
<1>7. ASSUME NEW c \in Channels, NEW accepted \in BOOLEAN, Seek(c, accepted)
      PROVE  KInv(kit')
  <2> DEFINE u == [kit EXCEPT !.chan[c].buffered = FALSE]
  <2>1. KInv(u) /\ KInv(rcSeek(u, c))
    BY OutputKeeps
  <2>2. kit' = IF accepted THEN rcSeek(u, c) ELSE u
    BY <1>7 DEF Seek
  <2> HIDE DEF u
  <2> QED
    BY <2>1, <2>2
<1>8. ASSUME NEW c \in Channels, NEW accepted \in BOOLEAN, Write(c, accepted)
      PROVE  KInv(kit')
  <2> DEFINE u == [kit EXCEPT !.chan[c].buffered = FALSE]
  <2>1. KInv(u) /\ KInv(rcOutput(u, c))
    BY OutputKeeps
  <2>2. kit' = IF accepted THEN rcOutput(u, c) ELSE u
    BY <1>8 DEF Write
  <2> HIDE DEF u
  <2> QED
    BY <2>1, <2>2
<1>9. ASSUME NEW kind \in {"update", "vwait"}, EnterLoop(kind)
      PROVE  KInv(kit')
  BY <1>9, EnterLoopKeeps DEF EnterLoop
<1> QED
  BY <1>1, <1>2, <1>3, <1>4, <1>5, <1>6, <1>7, <1>8, <1>9 DEF Script

\* What is on top of the stack.
LEMMA TopFacts ==
  ASSUME KInv(kit)
  PROVE  /\ Top \in Frame
         /\ Top.chan # None => Top.chan \in Channels
         /\ Top.kind = "notify" => Top.chan \in Channels
<1>1. Sound(kit) /\ Stack(kit)
  BY DEF KInv
<1>2. Top \in Frame /\ FrameSound(kit, Top)
  BY <1>1, TopFrame DEF Top
<1> QED
  BY <1>2 DEF Frame, FrameSound

LEMMA HandlersKeep ==
  ASSUME KInv(kit), HandlerReturns \/ HandlerFails
  PROVE  KInv(kit')
<1>1. Top.kind = "script" /\ Top.chan \in Channels
  BY TopFacts DEF HandlerReturns, HandlerFails, Command, Running
<1>2. KInv(Pop(TclChannelRelease(kit, Top.chan)))
  BY <1>1, HandlerReturnsKeeps DEF Top
<1>3. KInv(Pop(TclChannelRelease(
             Tcl_DeleteChannelHandler(kit, Top.chan, Top.event), Top.chan)))
  BY <1>1, HandlerFailsKeeps DEF Top
<1>4. CASE HandlerReturns
  BY <1>2, <1>4 DEF HandlerReturns
<1>5. CASE HandlerFails
  BY <1>2, <1>3, <1>5 DEF HandlerFails
<1> QED
  BY <1>4, <1>5

LEMMA MachineKeeps ==
  ASSUME KInv(kit), Machine
  PROVE  KInv(kit')
<1>1. CASE ServiceEvent
  BY <1>1, ServiceEventKeeps DEF ServiceEvent
<1>2. CASE TimerCheckProc
  BY <1>2 DEF TimerCheckProc
<1>3. CASE UpdateEnds
  BY <1>3, UpdateEndsKeeps DEF UpdateEnds, Looping, IsLoop, Top
<1>4. CASE FireRechan
  <2> DEFINE c == Head(kit.timers).chan
  <2>1. Unlists(kit, Unlisted, "rcTimerProc", c)
    BY <1>4 DEF FireRechan, Fire, Runnable, Due, Unlists, Unlisted
  <2> HIDE DEF c
  <2> DEFINE t == rcTimerProc(Unlisted, c)
  <2>2. KInv(Notified(t, c, t.rc[c].watchMask))
    BY <2>1, FireRechanKeeps
  <2>3. kit' = Notified(t, c, t.rc[c].watchMask)
    BY <1>4 DEF FireRechan, c
  <2> QED
    BY <2>2, <2>3
<1>5. CASE FireChannel
  <2> DEFINE c == Head(kit.timers).chan
  <2>1. Unlists(kit, Unlisted, "ChannelTimerProc", c)
    BY <1>5 DEF FireChannel, Fire, Runnable, Due, Unlists, Unlisted
  <2> HIDE DEF c
  <2>2. /\ KInv(Notified(StartTimer(Unlisted, c), c, {"readable"}))
        /\ KInv(TclChannelRelease(
                  UpdateInterest([Unlisted EXCEPT !.chan[c].timer = FALSE], c), c))
    BY <2>1, TimerRestarted, TimerGivenUp
  <2>3. \/ kit' = Notified(StartTimer(Unlisted, c), c, {"readable"})
        \/ kit' = TclChannelRelease(
                    UpdateInterest([Unlisted EXCEPT !.chan[c].timer = FALSE], c), c)
    BY <1>5 DEF FireChannel, c
  <2> QED
    BY <2>2, <2>3
<1>6. ASSUME NEW done \in BOOLEAN, PassEnds(done)
      PROVE  KInv(kit')
  <2> DEFINE s == [Pop(kit) EXCEPT !.timers = Ended(@, kit.passes),
                                   !.passes = @ - 1]
  <2>1. KInv(s)
    BY <1>6, PassEndsKeeps DEF PassEnds, Running, Top
  <2>2. /\ done => Last(s.frames).kind = "vwait"
        /\ kit' = IF done THEN Pop(s) ELSE s
    BY <1>6 DEF PassEnds
  <2> HIDE DEF s
  <2>3. Last(s.frames).kind = "vwait" => KInv(Pop(s))
    BY <2>1, UpdateEndsKeeps
  <2> QED
    BY <2>1, <2>2, <2>3
<1>7. CASE NotifyCalls
  <2>1. /\ Top.kind = "notify" /\ Top.chan \in Channels /\ Top.event \in Events
        /\ Top = Last(kit.frames)
    BY <1>7, TopFacts DEF NotifyCalls, Running, Frame, Top
  <2> QED
    BY <1>7, <2>1, NotifyCallsKeeps DEF NotifyCalls, Hs
<1>8. CASE NotifySkips
  <2>1. /\ Top.kind = "notify" /\ Top.chan \in Channels
        /\ Top = Last(kit.frames)
    BY <1>8, TopFacts DEF NotifySkips, Running, Top
  <2> QED
    BY <1>8, <2>1, NotifySkipsKeeps DEF NotifySkips, Hs
<1>9. CASE NotifyEnds
  <2>1. /\ Top.kind = "notify" /\ Top.chan \in Channels
        /\ Top = Last(kit.frames)
    BY <1>9, TopFacts DEF NotifyEnds, Running, Top
  <2> QED
    BY <1>9, <2>1, NotifyEndsKeeps DEF NotifyEnds
<1> QED
  BY <1>1, <1>2, <1>3, <1>4, <1>5, <1>6, <1>7, <1>8, <1>9 DEF Machine

\* The flag says whether a timer event is in the queue.
LEMMA FlagKeeps ==
  ASSUME pending \in BOOLEAN, queued = IF pending THEN 1 ELSE 0, [Next]_vars
  PROVE  pending' \in BOOLEAN /\ queued' = IF pending' THEN 1 ELSE 0
<1>1. ASSUME UNCHANGED <<pending, queued>>
      PROVE  pending' \in BOOLEAN /\ queued' = IF pending' THEN 1 ELSE 0
  BY <1>1
<1>2. CASE Script
  <2>1. Command
    <3>1. ASSUME NEW c \in Channels, cmd_rechan(c) \/ Reconfigure(c) \/ Close(c)
          PROVE  Command
      BY <3>1 DEF cmd_rechan, Reconfigure, Close
    <3>2. ASSUME NEW c \in Channels, NEW e \in Events, SetHandler(c, e) \/ UnsetHandler(c, e)
          PROVE  Command
      BY <3>2 DEF SetHandler, UnsetHandler
    <3>3. ASSUME NEW c \in Channels, NEW got, NEW left, NEW more, Read(c, got, left, more)
          PROVE  Command
      BY <3>3 DEF Read
    <3>4. ASSUME NEW c \in Channels, NEW accepted, Seek(c, accepted) \/ Write(c, accepted)
          PROVE  Command
      BY <3>4 DEF Seek, Write
    <3>5. ASSUME NEW k, EnterLoop(k)  PROVE Command
      BY <3>5 DEF EnterLoop
    <3> QED
      BY <1>2, <3>1, <3>2, <3>3, <3>4, <3>5 DEF Script
  <2>2. UNCHANGED <<pending, queued>>
    BY <2>1 DEF Command
  <2> QED
    BY <1>1, <2>2
<1>3. CASE HandlerReturns \/ HandlerFails
  BY <1>1, <1>3 DEF HandlerReturns, HandlerFails, Command
<1>4. CASE ServiceEvent
  <2>1. queued > 0 /\ queued' = queued - 1 /\ pending' = FALSE
    BY <1>4 DEF ServiceEvent
  <2>2. queued = 1
    BY <2>1
  <2>3. queued' = 0
    BY <2>1, <2>2
  <2>4. pending' \in BOOLEAN /\ ~pending'
    BY <2>1
  <2> QED
    BY <2>3, <2>4
<1>5. CASE TimerCheckProc
  BY <1>5 DEF TimerCheckProc
<1>6. CASE Machine /\ ~ServiceEvent /\ ~TimerCheckProc
  BY <1>1, <1>6 DEF Machine, UpdateEnds, FireRechan, FireChannel, Fire, PassEnds,
                    NotifyCalls, NotifySkips, NotifyEnds
<1>7. CASE Tick \/ UNCHANGED vars
  BY <1>1, <1>7 DEF Tick, vars
<1> QED
  BY <1>2, <1>3, <1>4, <1>5, <1>6, <1>7 DEF Next

LEMMA NextIInv == IInv /\ [Next]_vars => IInv'
<1> SUFFICES ASSUME IInv, [Next]_vars PROVE IInv'
  OBVIOUS
<1>1. KInv(kit) /\ pending \in BOOLEAN /\ queued = IF pending THEN 1 ELSE 0
  BY DEF IInv
<1>2. pending' \in BOOLEAN /\ queued' = IF pending' THEN 1 ELSE 0
  BY <1>1, FlagKeeps
<1>3. KInv(kit')
  <2>1. CASE Script
    BY <1>1, <2>1, ScriptKeeps
  <2>2. CASE HandlerReturns \/ HandlerFails
    BY <1>1, <2>2, HandlersKeep
  <2>3. CASE Machine
    BY <1>1, <2>3, MachineKeeps
  <2>4. CASE Tick
    BY <1>1, <2>4, TickKeeps DEF Tick
  <2>5. CASE UNCHANGED vars
    BY <1>1, <2>5 DEF vars
  <2> QED
    BY <2>1, <2>2, <2>3, <2>4, <2>5 DEF Next
<1>4. KInv(kit)'
  BY <1>3
<1> QED
  BY <1>2, <1>4 DEF IInv

LEMMA Invariance == Spec => []IInv
BY InitIInv, NextIInv, PTL DEF Spec

-----------------------------------------------------------------------------
\* The properties.

\* The state of the driver, the channels, the timer list and the stack is
\* well-formed, and the passes counted are the passes that run.
THEOREM TypeCorrect == Spec => []TypeOK
<1>1. IInv => TypeOK
  BY DEF IInv, KInv, Sound, Stack, KitType, TypeOK
<1> QED
  BY <1>1, Invariance, PTL

\* A timer is in the list if and only if its owner believes so, once, and never
\* for a channel that is gone (rechan.c:208-233, tclIO.c:8496-8635).
THEOREM TimersOwned == Spec => []NoDanglingTimers
<1>1. IInv => NoDanglingTimers
  BY DEF IInv, KInv, Sound, ChannelSound, Good, NoDanglingTimers
<1> QED
  BY <1>1, Invariance, PTL

\* The list of timers stays in order through insertions, deletions, passes that
\* nest and the clock, and there is an event in the queue when the flag says so
\* (tclTimer.c:292-340, 458-610).
THEOREM TimersSorted == Spec => []TimersInOrder
<1>1. IInv => TimersInOrder
  BY DEF IInv, KInv, Sound, Good, TimersInOrder
<1> QED
  BY <1>1, Invariance, PTL

\* A notification that goes on after a script goes on to a handler that the
\* channel has (nestedHandlerPtr, tclIO.c:8339-8476 and 8733-8802).
THEOREM NotificationsSafe == Spec => []NextHandlerLives
<1>1. IInv => NextHandlerLives
  BY DEF IInv, KInv, Stack, FrameSound, NextHandlerLives
<1> QED
  BY <1>1, Invariance, PTL

\* The references to a channel are those of its timer and of the frames that use
\* it: a closed channel is freed with the last of them and not before
\* (tclIO.c:1965-2010).
THEOREM ReferencesBalanced == Spec => []RefsBalanced
<1>1. IInv => RefsBalanced
  <2> SUFFICES ASSUME IInv, NEW c \in Channels
               PROVE  LET uses == Uses(kit.frames, c)
                      IN  /\ kit.chan[c].refCount =
                               Cardinality(uses) + (IF kit.chan[c].timer THEN 1 ELSE 0)
                          /\ kit.chan[c].life = "closed" => uses # {}
                          /\ kit.chan[c].life = "none"   => uses = {}
    BY DEF RefsBalanced
  <2>1. Held(kit, c, 0) /\ Used(kit, c) /\ kit.frames \in Seq(Frame)
    BY DEF IInv, KInv, Sound, KitType
  <2>2. Cardinality(Uses(kit.frames, c)) \in Nat
    BY <2>1, UsesCounted
  <2>3. kit.chan[c].refCount =
          Cardinality(Uses(kit.frames, c)) + (IF kit.chan[c].timer THEN 1 ELSE 0)
    BY <2>1, <2>2 DEF Held
  <2> QED
    BY <2>1, <2>3 DEF Used
<1> QED
  BY <1>1, Invariance, PTL

\* What a handler is set for is looked for, by the driver's timer or the core's,
\* unless the channel is being notified (rechan.c:134, tclIO.c:8496-8575).
THEOREM InterestLookedFor == Spec => []InterestArmed
<1>1. IInv => InterestArmed
  BY DEF IInv, KInv, Quiet, ArmedFor, InterestArmed
<1> QED
  BY <1>1, Invariance, PTL

-----------------------------------------------------------------------------
(***************************************************************************)
(* The handlers are called as FileEvents promises.  First what HandlersOf  *)
(* makes of a stack that grows, shrinks, or changes in its notifications.  *)
(***************************************************************************)
\* g[i] are the calls among the first i frames.
CallStage(g, fs, n) ==
  g = [i \in 0 .. n |-> IF i = 0 THEN <<>> ELSE WithCall(g[i - 1], fs[i])]

LEMMA CallStagesExist ==
  ASSUME NEW fs
  PROVE  \A n \in Nat : \E g : CallStage(g, fs, n)
<1> DEFINE S == {n \in Nat : \E g : CallStage(g, fs, n)}
<1>1. 0 \in S
  <2>1. CallStage([i \in 0 .. 0 |-> <<>>], fs, 0)
    BY DEF CallStage
  <2> QED
    BY <2>1
<1>2. ASSUME NEW n \in Nat, n \in S
      PROVE  n + 1 \in S
  <2>1. PICK f : CallStage(f, fs, n)
    BY <1>2
  <2> DEFINE more == WithCall(f[n], fs[n + 1])
             g == [i \in 0 .. n + 1 |-> IF i = n + 1 THEN more ELSE f[i]]
  <2>2. \A i \in 0 .. n : f[i] = IF i = 0 THEN <<>> ELSE WithCall(f[i - 1], fs[i])
    BY <2>1 DEF CallStage
  <2>3. /\ \A i \in 0 .. n : g[i] = f[i]
        /\ g[n + 1] = more
        /\ g = [i \in 0 .. n + 1 |-> g[i]]
    <3> HIDE DEF more
    <3> QED
      OBVIOUS
  <2>4. more = WithCall(g[n], fs[n + 1])
    BY <2>3
  <2> HIDE DEF g, more
  <2>5. ASSUME NEW i \in 0 .. n + 1
        PROVE  g[i] = IF i = 0 THEN <<>> ELSE WithCall(g[i - 1], fs[i])
    <3>1. CASE i = n + 1
      BY <2>3, <2>4, <3>1
    <3>2. CASE i = 0
      <4>1. 0 \in 0 .. n
        OBVIOUS
      <4>2. f[0] = <<>> /\ g[0] = f[0]
        BY <2>2, <2>3, <4>1
      <4> QED
        BY <3>2, <4>2
    <3>3. CASE i # 0 /\ i # n + 1
      <4>1. i \in 0 .. n /\ i - 1 \in 0 .. n
        BY <3>3
      <4> QED
        BY <2>2, <2>3, <3>3, <4>1
    <3> QED
      BY <3>1, <3>2, <3>3
  <2>6. CallStage(g, fs, n + 1)
    BY <2>3, <2>5 DEF CallStage
  <2> QED
    BY <2>6
<1> HIDE DEF S
<1>3. \A n \in Nat : n \in S
  BY ONLY <1>1, <1>2, SetInduction
<1> QED
  BY <1>3 DEF S

LEMMA HandlersStage ==
  ASSUME NEW fs, Len(fs) \in Nat
  PROVE  \E g : CallStage(g, fs, Len(fs)) /\ HandlersOf(fs) = g[Len(fs)]
<1> DEFINE P(g) == g = [i \in 0 .. Len(fs) |->
                          IF i = 0 THEN <<>> ELSE WithCall(g[i - 1], fs[i])]
<1>1. \E g : P(g)
  <2>1. \E g : CallStage(g, fs, Len(fs))
    BY CallStagesExist
  <2> QED
    BY <2>1 DEF CallStage
<1>2. P(CHOOSE g : P(g))
  BY <1>1
<1>3. HandlersOf(fs) = (CHOOSE g : P(g))[Len(fs)]
  BY Zenon DEF HandlersOf
<1> QED
  BY <1>2, <1>3 DEF CallStage

\* Frames that stand for the same calls.
SameCall(f, h) ==
  /\ IsHandler(f) <=> IsHandler(h)
  /\ IsHandler(f) => f.chan = h.chan /\ f.event = h.event

SameFirst(fs, hs, n) == \A i \in 1 .. n : SameCall(fs[i], hs[i])

LEMMA StagesAgree ==
  ASSUME NEW fs, NEW hs, NEW n \in Nat, NEW m \in Nat, n <= m, NEW g, NEW h,
         CallStage(g, fs, n), CallStage(h, hs, m), SameFirst(fs, hs, n)
  PROVE  g[n] = h[n]
<1>0. \A i \in 1 .. n : SameCall(fs[i], hs[i])
  BY DEF SameFirst
<1> DEFINE S == {k \in Nat : k <= n => g[k] = h[k]}
<1>1. /\ \A i \in 0 .. n : g[i] = IF i = 0 THEN <<>> ELSE WithCall(g[i - 1], fs[i])
      /\ \A i \in 0 .. m : h[i] = IF i = 0 THEN <<>> ELSE WithCall(h[i - 1], hs[i])
  BY DEF CallStage
<1>2. 0 \in S
  BY <1>1
<1>3. ASSUME NEW k \in Nat, k \in S
      PROVE  k + 1 \in S
  <2> SUFFICES ASSUME k + 1 <= n PROVE g[k + 1] = h[k + 1]
    OBVIOUS
  <2>1. /\ g[k] = h[k] /\ SameCall(fs[k + 1], hs[k + 1])
        /\ k + 1 \in 0 .. n /\ k + 1 \in 0 .. m /\ k + 1 # 0 /\ k + 1 - 1 = k
    BY <1>0, <1>3
  <2>2. g[k + 1] = WithCall(g[k], fs[k + 1]) /\ h[k + 1] = WithCall(h[k], hs[k + 1])
    BY <1>1, <2>1
  <2> QED
    BY <2>1, <2>2 DEF WithCall, SameCall
<1> HIDE DEF S
<1>4. \A k \in Nat : k \in S
  BY ONLY <1>2, <1>3, SetInduction
<1> QED
  BY <1>4 DEF S

\* The same calls.
LEMMA HandlersSame ==
  ASSUME NEW fs, NEW hs, Len(fs) \in Nat, Len(hs) = Len(fs),
         \A i \in 1 .. Len(fs) : SameCall(fs[i], hs[i])
  PROVE  HandlersOf(hs) = HandlersOf(fs)
<1>1. PICK g : CallStage(g, fs, Len(fs)) /\ HandlersOf(fs) = g[Len(fs)]
  BY HandlersStage
<1>2. PICK h : CallStage(h, hs, Len(hs)) /\ HandlersOf(hs) = h[Len(hs)]
  BY HandlersStage
<1>3. Len(fs) <= Len(fs) /\ SameFirst(fs, hs, Len(fs))
  BY DEF SameFirst
<1> QED
  BY <1>1, <1>2, <1>3, StagesAgree

\* One frame more.
LEMMA HandlersMore ==
  ASSUME NEW fs, NEW hs, Len(fs) \in Nat, Len(hs) = Len(fs) + 1,
         \A i \in 1 .. Len(fs) : SameCall(fs[i], hs[i])
  PROVE  HandlersOf(hs) = WithCall(HandlersOf(fs), hs[Len(hs)])
<1> DEFINE n == Len(fs)
<1>0. n \in Nat /\ Len(hs) = n + 1 /\ SameFirst(fs, hs, n)
  BY DEF SameFirst
<1>1. PICK g : CallStage(g, fs, n) /\ HandlersOf(fs) = g[n]
  BY HandlersStage
<1>2. n + 1 \in Nat /\ n <= n + 1 /\ n + 1 \in 0 .. n + 1 /\ n + 1 # 0 /\ n + 1 - 1 = n
  OBVIOUS
<1>3. PICK h : CallStage(h, hs, n + 1) /\ HandlersOf(hs) = h[n + 1]
  BY <1>2, HandlersStage
<1> HIDE DEF n
<1>4. g[n] = h[n]
  <2> DEFINE m == n + 1
  <2>1. m \in Nat /\ n <= m /\ CallStage(h, hs, m) /\ h[n] = h[n]
    BY <1>2, <1>3
  <2> HIDE DEF m
  <2> QED
    BY ONLY <1>0, <1>1, <2>1, StagesAgree
<1>5. h[n + 1] = WithCall(h[n], hs[n + 1])
  <2>1. \A i \in 0 .. n + 1 : h[i] = IF i = 0 THEN <<>> ELSE WithCall(h[i - 1], hs[i])
    BY <1>3 DEF CallStage
  <2> QED
    BY <1>0, <1>2, <2>1
<1> QED
  BY <1>0, <1>1, <1>3, <1>4, <1>5

Calls == Seq((Channels \cup {None}) \X (Events \cup {None}))

LEMMA HandlersType ==
  ASSUME NEW fs \in Seq(Frame)
  PROVE  HandlersOf(fs) \in Calls
<1> DEFINE n == Len(fs)
<1>0. n \in Nat
  OBVIOUS
<1>1. PICK g : CallStage(g, fs, n) /\ HandlersOf(fs) = g[n]
  BY <1>0, HandlersStage
<1>2. \A i \in 0 .. n : g[i] = IF i = 0 THEN <<>> ELSE WithCall(g[i - 1], fs[i])
  BY <1>1 DEF CallStage
<1> DEFINE T == {k \in Nat : k <= n => g[k] \in Calls}
<1>3. 0 \in T
  <2>1. g[0] = <<>>
    BY <1>0, <1>2
  <2>2. <<>> \in Calls
    BY DEF Calls
  <2> QED
    BY <2>1, <2>2
<1>4. ASSUME NEW k \in Nat, k \in T
      PROVE  k + 1 \in T
  <2> SUFFICES ASSUME k + 1 <= n PROVE g[k + 1] \in Calls
    OBVIOUS
  <2>1. /\ g[k] \in Calls /\ fs[k + 1] \in Frame
        /\ k + 1 \in 0 .. n /\ k + 1 # 0 /\ k + 1 - 1 = k
    BY <1>0, <1>4
  <2>2. g[k + 1] = WithCall(g[k], fs[k + 1])
    BY <1>2, <2>1
  <2>3. <<fs[k + 1].chan, fs[k + 1].event>> \in (Channels \cup {None}) \X (Events \cup {None})
    BY <2>1 DEF Frame
  <2> HIDE DEF n
  <2> QED
    BY <2>1, <2>2, <2>3 DEF WithCall, Calls
<1> HIDE DEF T
<1>5. \A k \in Nat : k \in T
  BY ONLY <1>3, <1>4, SetInduction
<1> QED
  BY <1>0, <1>1, <1>5 DEF T

-----------------------------------------------------------------------------
\* Then what each operator leaves of what the scripts see: the channels that are
\* open, their handlers, and the frames.

Fields(x) ==
  x = [life |-> x.life, refCount |-> x.refCount, handlers |-> x.handlers,
       buffered |-> x.buffered, needMore |-> x.needMore, timer |-> x.timer]

Shape(s) ==
  /\ s = [chan |-> s.chan, rc |-> s.rc, timers |-> s.timers,
          passes |-> s.passes, frames |-> s.frames]
  /\ s.chan = [d \in Channels |-> s.chan[d]]
  /\ \A d \in Channels : Fields(s.chan[d])
  /\ \A d \in Channels : ~Opened(s, d) => s.chan[d].handlers = <<>>

\* t has the frames of s, and its channels but for those in C.
AlikeBut(s, t, C) ==
  /\ Shape(t)
  /\ t.frames = s.frames
  /\ \A d \in Channels \ C : /\ Opened(t, d) <=> Opened(s, d)
                             /\ t.chan[d].handlers = s.chan[d].handlers

Alike(s, t) == AlikeBut(s, t, {})

LEMMA KitShape ==
  ASSUME NEW s, Sound(s)
  PROVE  Shape(s)
<1>1. /\ s \in KitType
      /\ \A d \in Channels : s.chan[d] \in Channel /\ ChannelSound(s, d)
  BY DEF Sound, KitType
<1>2. s = [chan |-> s.chan, rc |-> s.rc, timers |-> s.timers,
           passes |-> s.passes, frames |-> s.frames]
  BY <1>1 DEF KitType
<1>3. s.chan = [d \in Channels |-> s.chan[d]]
  BY <1>1 DEF KitType
<1>4. \A d \in Channels : Fields(s.chan[d])
  BY <1>1 DEF Channel, Fields
<1>5. \A d \in Channels : ~Opened(s, d) => s.chan[d].handlers = <<>>
  BY <1>1 DEF ChannelSound
<1> QED
  BY <1>2, <1>3, <1>4, <1>5 DEF Shape

LEMMA AlikeTrans ==
  ASSUME NEW s, NEW t, NEW u, NEW C, AlikeBut(s, t, C), AlikeBut(t, u, C)
  PROVE  AlikeBut(s, u, C)
BY DEF AlikeBut

\* A channel is given other fields.
LEMMA FieldsChanged ==
  ASSUME NEW s, Shape(s), NEW c \in Channels, NEW x, Fields(x),
         x.life # "open" => x.handlers = <<>>
  PROVE  LET t == [s EXCEPT !.chan[c] = x] IN
           /\ AlikeBut(s, t, {c}) /\ t.chan[c] = x
           /\ (x.life = "open" <=> Opened(s, c)) /\ x.handlers = s.chan[c].handlers
                => Alike(s, t)
<1> DEFINE t == [s EXCEPT !.chan[c] = x]
           ch == [s.chan EXCEPT ![c] = x]
<1>1. /\ s = [chan |-> s.chan, rc |-> s.rc, timers |-> s.timers,
              passes |-> s.passes, frames |-> s.frames]
      /\ s.chan = [d \in Channels |-> s.chan[d]]
      /\ \A d \in Channels : Fields(s.chan[d])
      /\ \A d \in Channels : ~Opened(s, d) => s.chan[d].handlers = <<>>
  BY DEF Shape
<1>2. ch = [d \in Channels |-> IF d = c THEN x ELSE s.chan[d]]
  BY ONLY <1>1
<1> HIDE DEF ch
<1>3. t = [chan |-> ch, rc |-> s.rc, timers |-> s.timers,
           passes |-> s.passes, frames |-> s.frames]
  BY ONLY <1>1 DEF ch
<1> HIDE DEF t
<1>4. /\ t = [chan |-> t.chan, rc |-> t.rc, timers |-> t.timers,
              passes |-> t.passes, frames |-> t.frames]
      /\ t.chan = ch /\ t.frames = s.frames
  BY ONLY <1>3
<1>5. t.chan[c] = x /\ \A d \in Channels \ {c} : t.chan[d] = s.chan[d]
  BY <1>2, <1>4
<1>6. t.chan = [d \in Channels |-> t.chan[d]]
  BY ONLY <1>2, <1>4
<1>7. \A d \in Channels : Fields(t.chan[d])
  <2>1. \A d \in Channels : t.chan[d] = x \/ t.chan[d] = s.chan[d]
    BY <1>5
  <2> QED
    BY <1>1, <2>1
<1>8. \A d \in Channels : ~Opened(t, d) => t.chan[d].handlers = <<>>
  <2>1. \A d \in Channels \ {c} : ~Opened(t, d) => t.chan[d].handlers = <<>>
    BY <1>1, <1>5 DEF Opened
  <2>2. ~Opened(t, c) => t.chan[c].handlers = <<>>
    BY <1>5 DEF Opened
  <2> QED
    BY <2>1, <2>2
<1>9. Shape(t)
  BY <1>4, <1>6, <1>7, <1>8 DEF Shape
<1>10. AlikeBut(s, t, {c})
  BY <1>4, <1>5, <1>9 DEF AlikeBut, Opened
<1>11. ASSUME x.life = "open" <=> Opened(s, c), x.handlers = s.chan[c].handlers
       PROVE  Alike(s, t)
  <2>1. (Opened(t, c) <=> Opened(s, c)) /\ t.chan[c].handlers = s.chan[c].handlers
    BY <1>5, <1>11 DEF Opened
  <2> QED
    BY <1>10, <2>1 DEF AlikeBut, Alike
<1> QED
  BY <1>5, <1>10, <1>11 DEF t

\* t is s with the fields x, which are no channel's handlers unless it is open.
ChannelGiven(s, c, x, t) ==
  /\ Fields(x) /\ (x.life # "open" => x.handlers = <<>>)
  /\ t = [s EXCEPT !.chan[c] = x]

LEMMA FieldsGiven ==
  ASSUME NEW s, Shape(s), NEW c \in Channels, NEW x, NEW t, ChannelGiven(s, c, x, t)
  PROVE  AlikeBut(s, t, {c}) /\ t.chan[c] = x
<1>1. t = [s EXCEPT !.chan[c] = x]
  BY DEF ChannelGiven
<1>2. Fields(x) /\ (x.life # "open" => x.handlers = <<>>)
  BY DEF ChannelGiven
<1>3. /\ AlikeBut(s, [s EXCEPT !.chan[c] = x], {c})
      /\ [s EXCEPT !.chan[c] = x].chan[c] = x
  BY ONLY <1>2, Shape(s), c \in Channels, FieldsChanged
<1> QED
  BY ONLY <1>1, <1>3

\* What is no channel changes.
LEMMA OtherFieldChanged ==
  ASSUME NEW s, Shape(s), NEW t, t.chan = s.chan, t.frames = s.frames,
         t = [chan |-> t.chan, rc |-> t.rc, timers |-> t.timers,
              passes |-> t.passes, frames |-> t.frames]
  PROVE  Alike(s, t)
<1>1. Shape(t)
  BY DEF Shape, Opened
<1> QED
  BY <1>1 DEF Alike, AlikeBut, Opened

LEMMA TimersAlike ==
  ASSUME NEW s, Shape(s), NEW ts
  PROVE  Alike(s, [s EXCEPT !.timers = ts])
<1> DEFINE t == [s EXCEPT !.timers = ts]
<1>1. t = [chan |-> s.chan, rc |-> s.rc, timers |-> ts,
           passes |-> s.passes, frames |-> s.frames]
  BY DEF Shape
<1> HIDE DEF t
<1>2. /\ t.chan = s.chan /\ t.frames = s.frames
      /\ t = [chan |-> t.chan, rc |-> t.rc, timers |-> t.timers,
              passes |-> t.passes, frames |-> t.frames]
  BY ONLY <1>1
<1> QED
  BY <1>2, OtherFieldChanged DEF t

LEMMA RcAlike ==
  ASSUME NEW s, Shape(s), NEW rc
  PROVE  Alike(s, [s EXCEPT !.rc = rc])
<1> DEFINE t == [s EXCEPT !.rc = rc]
<1>1. t = [chan |-> s.chan, rc |-> rc, timers |-> s.timers,
           passes |-> s.passes, frames |-> s.frames]
  BY DEF Shape
<1> HIDE DEF t
<1>2. /\ t.chan = s.chan /\ t.frames = s.frames
      /\ t = [chan |-> t.chan, rc |-> t.rc, timers |-> t.timers,
              passes |-> t.passes, frames |-> t.frames]
  BY ONLY <1>1
<1> QED
  BY <1>2, OtherFieldChanged DEF t

\* A channel is given other fields that the scripts do not see.
LEMMA FieldsAlike ==
  ASSUME NEW s, Shape(s), NEW c \in Channels, NEW x, Fields(x),
         x.life = s.chan[c].life, x.handlers = s.chan[c].handlers
  PROVE  Alike(s, [s EXCEPT !.chan[c] = x])
<1>1. /\ x.life = "open" <=> Opened(s, c)
      /\ x.life # "open" => x.handlers = <<>>
  BY DEF Opened, Shape
<1> QED
  BY <1>1, FieldsChanged

LEMMA ShapeAlike ==
  ASSUME NEW s, NEW t, Alike(s, t)
  PROVE  Shape(t)
BY DEF Alike, AlikeBut

LEMMA Unchanged ==
  ASSUME NEW s, Shape(s)
  PROVE  Alike(s, s)
BY DEF Alike, AlikeBut

LEMMA Chain ==
  ASSUME NEW s, NEW t, NEW u, Alike(s, t), Alike(t, u)
  PROVE  Alike(s, u)
BY AlikeTrans DEF Alike

LEMMA PreserveAlike ==
  ASSUME NEW s, Shape(s), NEW c \in Channels
  PROVE  Alike(s, TclChannelPreserve(s, c))
<1> DEFINE x == [s.chan[c] EXCEPT !.refCount = @ + 1]
<1>1. Fields(s.chan[c])
  BY DEF Shape
<1>2. Fields(x) /\ x.life = s.chan[c].life /\ x.handlers = s.chan[c].handlers
  BY <1>1 DEF Fields
<1>3. TclChannelPreserve(s, c) = [s EXCEPT !.chan[c] = x]
  BY DEF TclChannelPreserve
<1> HIDE DEF x
<1> QED
  BY <1>2, <1>3, FieldsAlike

LEMMA ReleaseAlike ==
  ASSUME NEW s, Shape(s), NEW c \in Channels
  PROVE  Alike(s, TclChannelRelease(s, c))
<1>1. CASE s.chan[c].refCount = 1 /\ s.chan[c].life = "closed"
  <2>1. Fields(Absent) /\ Absent.life = "none" /\ Absent.handlers = <<>>
    BY DEF Absent, Fields
  <2>2. ~Opened(s, c) /\ s.chan[c].handlers = <<>>
    BY <1>1 DEF Opened, Shape
  <2>3. TclChannelRelease(s, c) = [s EXCEPT !.chan[c] = Absent]
    BY <1>1 DEF TclChannelRelease
  <2>4. \A x : x = Absent =>
          /\ Fields(x) /\ x.life # "open" /\ x.handlers = s.chan[c].handlers
          /\ x.life # "open" => x.handlers = <<>>
    BY <2>1, <2>2
  <2>5. \A x : x = Absent => Alike(s, [s EXCEPT !.chan[c] = x])
    BY <2>2, <2>4, FieldsChanged
  <2> QED
    BY <2>3, <2>5
<1>2. CASE ~(s.chan[c].refCount = 1 /\ s.chan[c].life = "closed")
  <2> DEFINE x == [s.chan[c] EXCEPT !.refCount = @ - 1]
  <2>1. Fields(s.chan[c])
    BY DEF Shape
  <2>2. Fields(x) /\ x.life = s.chan[c].life /\ x.handlers = s.chan[c].handlers
    BY <2>1 DEF Fields
  <2>3. TclChannelRelease(s, c) = [s EXCEPT !.chan[c] = x]
    BY <1>2 DEF TclChannelRelease
  <2> HIDE DEF x
  <2> QED
    BY <2>2, <2>3, FieldsAlike
<1> QED
  BY <1>1, <1>2

LEMMA TimerFlagAlike ==
  ASSUME NEW s, Shape(s), NEW c \in Channels, NEW b
  PROVE  Alike(s, [s EXCEPT !.chan[c].timer = b])
<1> DEFINE x == [s.chan[c] EXCEPT !.timer = b]
<1>1. Fields(s.chan[c])
  BY DEF Shape
<1>2. Fields(x) /\ x.life = s.chan[c].life /\ x.handlers = s.chan[c].handlers
  BY <1>1 DEF Fields
<1>3. [s EXCEPT !.chan[c].timer = b] = [s EXCEPT !.chan[c] = x]
  OBVIOUS
<1> HIDE DEF x
<1> QED
  BY <1>2, <1>3, FieldsAlike

\* A read, a write, a seek and fconfigure change these.
LEMMA BufferAlike ==
  ASSUME NEW s, Shape(s), NEW c \in Channels, NEW b, NEW m
  PROVE  /\ Alike(s, [s EXCEPT !.chan[c].buffered = b])
         /\ Alike(s, [s EXCEPT !.chan[c].needMore = m])
         /\ Alike(s, [s EXCEPT !.chan[c].buffered = b, !.chan[c].needMore = m])
<1> DEFINE x == [s.chan[c] EXCEPT !.buffered = b]
           y == [s.chan[c] EXCEPT !.needMore = m]
<1>1. Fields(s.chan[c])
  BY DEF Shape
<1>2. /\ Fields(x) /\ x.life = s.chan[c].life /\ x.handlers = s.chan[c].handlers
      /\ Fields(y) /\ y.life = s.chan[c].life /\ y.handlers = s.chan[c].handlers
  BY <1>1 DEF Fields
<1>3. /\ [s EXCEPT !.chan[c].buffered = b] = [s EXCEPT !.chan[c] = x]
      /\ [s EXCEPT !.chan[c].needMore = m] = [s EXCEPT !.chan[c] = y]
  OBVIOUS
<1> HIDE DEF x, y
<1>4. /\ Alike(s, [s EXCEPT !.chan[c].buffered = b])
      /\ Alike(s, [s EXCEPT !.chan[c].needMore = m])
  BY <1>2, <1>3, FieldsAlike
<1> DEFINE z == [s.chan[c] EXCEPT !.buffered = b, !.needMore = m]
<1>5. Fields(z) /\ z.life = s.chan[c].life /\ z.handlers = s.chan[c].handlers
  <2>1. z = [x EXCEPT !.needMore = m]
    BY <1>1 DEF Fields, x
  <2> HIDE DEF z
  <2> QED
    BY <1>2, <2>1 DEF Fields
<1>6. [s EXCEPT !.chan[c].buffered = b, !.chan[c].needMore = m]
        = [s EXCEPT !.chan[c] = z]
  <2>1. /\ s = [chan |-> s.chan, rc |-> s.rc, timers |-> s.timers,
                passes |-> s.passes, frames |-> s.frames]
        /\ s.chan = [d \in Channels |-> s.chan[d]]
    BY DEF Shape
  <2> QED
    BY <2>1
<1> HIDE DEF z
<1>7. Alike(s, [s EXCEPT !.chan[c] = z])
  BY <1>5, FieldsAlike
<1> QED
  BY <1>4, <1>6, <1>7

LEMMA CreateTimerAlike ==
  ASSUME NEW s, Shape(s), NEW delay, NEW proc, NEW c
  PROVE  Alike(s, Tcl_CreateTimerHandler(s, delay, proc, c))
BY TimersAlike DEF Tcl_CreateTimerHandler

LEMMA DeleteTimerAlike ==
  ASSUME NEW s, Shape(s), NEW proc, NEW c
  PROVE  Alike(s, Tcl_DeleteTimerHandler(s, proc, c))
BY TimersAlike DEF Tcl_DeleteTimerHandler

LEMMA InstanceAlike ==
  ASSUME NEW s, Shape(s), NEW c, NEW y
  PROVE  /\ Alike(s, [s EXCEPT !.rc[c] = y])
         /\ Alike(s, [s EXCEPT !.rc[c].timer = y])
         /\ Alike(s, [s EXCEPT !.rc[c].watchMask = y])
<1>1. /\ [s EXCEPT !.rc[c] = y] = [s EXCEPT !.rc = [s.rc EXCEPT ![c] = y]]
      /\ [s EXCEPT !.rc[c].timer = y]
           = [s EXCEPT !.rc = [s.rc EXCEPT ![c].timer = y]]
      /\ [s EXCEPT !.rc[c].watchMask = y]
           = [s EXCEPT !.rc = [s.rc EXCEPT ![c].watchMask = y]]
  OBVIOUS
<1> QED
  BY <1>1, RcAlike

LEMMA DropTimerAlike ==
  ASSUME NEW s, Shape(s), NEW c
  PROVE  Alike(s, DropTimer(s, c))
<1> DEFINE t == Tcl_DeleteTimerHandler(s, "rcTimerProc", c)
<1>1. Alike(s, t) /\ Shape(t)
  BY DeleteTimerAlike, ShapeAlike
<1>2. DropTimer(s, c) = IF s.rc[c].timer THEN [t EXCEPT !.rc[c].timer = FALSE] ELSE s
  BY DEF DropTimer
<1> HIDE DEF t
<1>3. Alike(t, [t EXCEPT !.rc[c].timer = FALSE])
  BY <1>1, InstanceAlike
<1> QED
  BY <1>1, <1>2, <1>3, Chain, Unchanged

LEMMA rcWatchChannelAlike ==
  ASSUME NEW s, Shape(s), NEW c, NEW mask
  PROVE  Alike(s, rcWatchChannel(s, c, mask))
<1> DEFINE u == [s EXCEPT !.rc[c].watchMask = mask \cap s.rc[c].validMask]
           t == Tcl_CreateTimerHandler(u, RcDelay, "rcTimerProc", c)
           v == [t EXCEPT !.rc[c].timer = TRUE]
<1>1. \/ rcWatchChannel(s, c, mask) = DropTimer(s, c)
      \/ rcWatchChannel(s, c, mask) = v
      \/ rcWatchChannel(s, c, mask) = u
  BY DEF rcWatchChannel
<1>2. Alike(s, u) /\ Shape(u)
  BY InstanceAlike, ShapeAlike
<1> HIDE DEF u
<1>3. Alike(u, t) /\ Shape(t)
  BY <1>2, CreateTimerAlike, ShapeAlike
<1> HIDE DEF t
<1>4. Alike(t, v)
  BY <1>3, InstanceAlike
<1> HIDE DEF v
<1> QED
  BY <1>1, <1>2, <1>3, <1>4, Chain, DropTimerAlike

LEMMA StartTimerAlike ==
  ASSUME NEW s, Shape(s), NEW c \in Channels
  PROVE  Alike(s, StartTimer(s, c))
<1> DEFINE t == Tcl_CreateTimerHandler(s, 0, "ChannelTimerProc", c)
<1>1. Alike(s, t) /\ Shape(t)
  BY CreateTimerAlike, ShapeAlike
<1>2. StartTimer(s, c) = [t EXCEPT !.chan[c].timer = TRUE]
  BY DEF StartTimer
<1> HIDE DEF t
<1> QED
  BY <1>1, <1>2, TimerFlagAlike, Chain

LEMMA UpdateInterestAlike ==
  ASSUME NEW s, Shape(s), NEW c \in Channels
  PROVE  Alike(s, UpdateInterest(s, c))
<1> DEFINE p == TclChannelPreserve(s, c)
           u == IF s.chan[c].timer THEN s ELSE StartTimer(p, c)
           m == Interest(s, c) \ {"readable"}
<1>1. \/ UpdateInterest(s, c) = s
      \/ UpdateInterest(s, c) = rcWatchChannel(u, c, m)
      \/ UpdateInterest(s, c) = rcWatchChannel(s, c, Interest(s, c))
  BY DEF UpdateInterest
<1>2. Alike(s, p) /\ Shape(p)
  BY PreserveAlike, ShapeAlike
<1> HIDE DEF p, m
<1>3. Alike(s, u) /\ Shape(u)
  BY <1>2, StartTimerAlike, Chain, Unchanged, ShapeAlike
<1> HIDE DEF u
<1> QED
  BY <1>1, <1>3, rcWatchChannelAlike, Chain, Unchanged

-----------------------------------------------------------------------------
\* What a step shows to the scripts.

SeenAlike(s, t) ==
  \A d \in Channels : (Opened(t, d) <=> Opened(s, d)) /\ Interest(t, d) = Interest(s, d)

SameCalls(fs, gs) ==
  /\ Len(gs) = Len(fs)
  /\ \A i \in 1 .. Len(fs) : SameCall(fs[i], gs[i])

LEMMA AlikeSeen ==
  ASSUME NEW s, NEW t, Alike(s, t)
  PROVE  SeenAlike(s, t) /\ t.frames = s.frames
BY DEF Alike, AlikeBut, SeenAlike, Interest

LEMMA SeenTrans ==
  ASSUME NEW s, NEW t, NEW u, SeenAlike(s, t), SeenAlike(t, u)
  PROVE  SeenAlike(s, u)
BY DEF SeenAlike

LEMMA FramesSeen ==
  ASSUME NEW s, Shape(s), NEW fs
  PROVE  LET t == [s EXCEPT !.frames = fs] IN
           Shape(t) /\ t.chan = s.chan /\ t.frames = fs /\ SeenAlike(s, t)
<1> DEFINE t == [s EXCEPT !.frames = fs]
<1>1. t = [chan |-> s.chan, rc |-> s.rc, timers |-> s.timers,
           passes |-> s.passes, frames |-> fs]
  BY DEF Shape
<1> HIDE DEF t
<1>2. /\ t.chan = s.chan /\ t.frames = fs
      /\ t = [chan |-> t.chan, rc |-> t.rc, timers |-> t.timers,
              passes |-> t.passes, frames |-> t.frames]
  BY ONLY <1>1
<1>3. Shape(t)
  BY <1>2 DEF Shape, Opened
<1> QED
  BY <1>2, <1>3 DEF SeenAlike, Opened, Interest, t

LEMMA PushSeen ==
  ASSUME NEW s, Shape(s), NEW f
  PROVE  SeenAlike(s, Push(s, f)) /\ Push(s, f).frames = Append(s.frames, f)
BY FramesSeen DEF Push

LEMMA PopSeen ==
  ASSUME NEW s, Shape(s)
  PROVE  SeenAlike(s, Pop(s)) /\ Pop(s).frames = Front(s.frames)
BY FramesSeen DEF Pop

\* One frame more, one less.
LEMMA PushedCalls ==
  ASSUME NEW fs \in Seq(Frame), NEW f
  PROVE  HandlersOf(Append(fs, f)) = WithCall(HandlersOf(fs), f)
<1> DEFINE hs == Append(fs, f)
           S  == Frame \cup {f}
<1>0. f \in S /\ fs \in Seq(S)
  OBVIOUS
<1>1. Len(fs) \in Nat /\ Len(hs) = Len(fs) + 1 /\ hs[Len(fs) + 1] = f
      /\ \A i \in 1 .. Len(fs) : hs[i] = fs[i]
  <2> HIDE DEF S
  <2> QED
    BY <1>0, AddLast
<1> HIDE DEF hs
<1>2. \A i \in 1 .. Len(fs) : SameCall(fs[i], hs[i])
  BY <1>1 DEF SameCall
<1>3. HandlersOf(hs) = WithCall(HandlersOf(fs), hs[Len(hs)])
  BY <1>1, <1>2, HandlersMore
<1> QED
  BY <1>1, <1>3 DEF hs

LEMMA PoppedCalls ==
  ASSUME NEW fs \in Seq(Frame), fs # <<>>
  PROVE  HandlersOf(fs) = WithCall(HandlersOf(Front(fs)), Last(fs))
<1> DEFINE gs == Front(fs)
<1>1. /\ gs \in Seq(Frame) /\ Len(gs) = Len(fs) - 1
      /\ \A i \in 1 .. Len(gs) : gs[i] = fs[i]
  BY DropLast
<1>2. Len(fs) \in Nat /\ Last(fs) = fs[Len(fs)]
  BY Popped
<1> HIDE DEF gs
<1>3. Len(gs) \in Nat /\ Len(fs) = Len(gs) + 1
  BY <1>1, <1>2
<1>4. \A i \in 1 .. Len(gs) : SameCall(gs[i], fs[i])
  BY <1>1 DEF SameCall
<1>5. HandlersOf(fs) = WithCall(HandlersOf(gs), fs[Len(fs)])
  BY <1>3, <1>4, HandlersMore
<1> QED
  BY <1>2, <1>5 DEF gs

\* The calls when the script of one has ended.
LEMMA CallEnded ==
  ASSUME NEW S, NEW calls \in Seq(S), NEW call \in S,
         NEW more, more = Append(calls, call)
  PROVE  more # <<>> /\ Front(more) = calls /\ Last(more) = call
<1>1. /\ more \in Seq(S) /\ Len(more) = Len(calls) + 1 /\ more # <<>>
      /\ more[Len(calls) + 1] = call
      /\ \A i \in 1 .. Len(calls) : more[i] = calls[i]
  BY AddLast
<1>2. Front(more) \in Seq(S) /\ Len(Front(more)) = Len(calls)
      /\ \A i \in 1 .. Len(Front(more)) : Front(more)[i] = more[i]
  <2>1. Len(calls) + 1 - 1 = Len(calls)
    OBVIOUS
  <2> QED
    BY ONLY <1>1, <2>1, DropLast
<1>3. Front(more) = calls
  <2>1. \A i \in 1 .. Len(calls) : Front(more)[i] = calls[i]
    BY <1>1, <1>2
  <2> QED
    BY ONLY <1>2, <2>1, calls \in Seq(S)
<1>4. Last(more) = call
  BY <1>1 DEF Last
<1> QED
  BY <1>1, <1>3, <1>4

LEMMA NoCalls == HandlersOf(<<>>) = <<>>
<1> DEFINE fs == <<>>
<1>1. Len(fs) = 0
  OBVIOUS
<1> HIDE DEF fs
<1>2. PICK g : CallStage(g, fs, 0) /\ HandlersOf(fs) = g[0]
  BY <1>1, HandlersStage
<1>3. g[0] = <<>>
  BY <1>2 DEF CallStage
<1> QED
  BY <1>2, <1>3 DEF fs

LEMMA SameHandlers ==
  ASSUME NEW fs, NEW gs, Len(fs) \in Nat, SameCalls(fs, gs)
  PROVE  HandlersOf(gs) = HandlersOf(fs)
BY HandlersSame DEF SameCalls

-----------------------------------------------------------------------------
\* What fileevent and close show to the scripts.

\* The handlers of a channel that stays as open as it is, and the frames.
LEMMA HandlersGiven ==
  ASSUME NEW s, Shape(s), NEW c \in Channels, NEW hs,
         Opened(s, c) \/ hs = <<>>
  PROVE  LET t == [s EXCEPT !.chan[c].handlers = hs] IN
           /\ Shape(t) /\ t.frames = s.frames
           /\ \A d \in Channels :
                /\ Opened(t, d) <=> Opened(s, d)
                /\ Interest(t, d) = IF d = c THEN ToSet(hs) ELSE Interest(s, d)
<1> DEFINE x == [s.chan[c] EXCEPT !.handlers = hs]
           t == [s EXCEPT !.chan[c] = x]
<1>1. Fields(s.chan[c])
  BY DEF Shape
<1>2. Fields(x) /\ x.life = s.chan[c].life /\ x.handlers = hs
  BY <1>1 DEF Fields
<1>3. [s EXCEPT !.chan[c].handlers = hs] = t
  OBVIOUS
<1>4. x.life # "open" => x.handlers = <<>>
  BY <1>2 DEF Opened
<1> HIDE DEF x
<1> HIDE DEF t
<1>5. AlikeBut(s, t, {c}) /\ t.chan[c] = x
  <2>1. ChannelGiven(s, c, x, t)
    BY ONLY <1>2, <1>4 DEF ChannelGiven, t
  <2> QED
    BY <2>1, FieldsGiven
<1>6. Shape(t) /\ t.frames = s.frames
  BY <1>5 DEF AlikeBut
<1>7. ASSUME NEW d \in Channels
      PROVE  /\ Opened(t, d) <=> Opened(s, d)
             /\ Interest(t, d) = IF d = c THEN ToSet(hs) ELSE Interest(s, d)
  <2>1. CASE d = c
    BY <1>2, <1>5, <2>1 DEF Opened, Interest
  <2>2. CASE d # c
    BY <1>5, <2>2 DEF AlikeBut, Interest
  <2> QED
    BY <2>1, <2>2
<1> QED
  BY <1>3, <1>6, <1>7

\* fileevent with a script
LEMMA SetHandlerSeen ==
  ASSUME NEW s, Sound(s), NEW c \in Channels, NEW e \in Events, Opened(s, c)
  PROVE  LET t == Tcl_CreateChannelHandler(s, c, e) IN
           /\ t.frames = s.frames
           /\ \A d \in Channels :
                /\ Opened(t, d) <=> Opened(s, d)
                /\ Interest(t, d) = IF d = c THEN Interest(s, c) \cup {e}
                                             ELSE Interest(s, d)
<1>1. CASE e \in Interest(s, c)
  BY <1>1 DEF Tcl_CreateChannelHandler
<1>2. CASE e \notin Interest(s, c)
  <2> DEFINE hs == s.chan[c].handlers
             gs == <<e>> \o hs
             u == [s EXCEPT !.chan[c].handlers = gs]
             t == UpdateInterest(u, c)
  <2>1. hs \in Seq(Events) /\ HandlersSound(s, c)
    BY TimerFacts DEF Channel, ChannelSound
  <2>2. ToSet(gs) = Interest(s, c) \cup {e}
    BY <1>2, <2>1, HandlerAdded DEF HandlersSound, Interest
  <2>3. Tcl_CreateChannelHandler(s, c, e) = t
    BY <1>2 DEF Tcl_CreateChannelHandler
  <2>4. Shape(s)
    BY KitShape
  <2> HIDE DEF gs
  <2>5. /\ Shape(u) /\ u.frames = s.frames
        /\ \A d \in Channels :
             /\ Opened(u, d) <=> Opened(s, d)
             /\ Interest(u, d) = IF d = c THEN ToSet(gs) ELSE Interest(s, d)
    BY <2>4, HandlersGiven
  <2> HIDE DEF u
  <2>6. SeenAlike(u, t) /\ t.frames = u.frames
    BY <2>5, UpdateInterestAlike, AlikeSeen
  <2> HIDE DEF t
  <2> QED
    BY <2>2, <2>3, <2>5, <2>6 DEF SeenAlike
<1> QED
  BY <1>1, <1>2

\* Notifications are no calls.
LEMMA NotifiesSame ==
  ASSUME NEW fs \in Seq(Frame), NEW gs, NEW g, Len(gs) = Len(fs),
         \A i \in 1 .. Len(fs) :
           \/ gs[i] = fs[i]
           \/ fs[i].kind = "notify" /\ gs[i] = [fs[i] EXCEPT !.event = g]
  PROVE  SameCalls(fs, gs)
<1>1. ASSUME NEW i \in 1 .. Len(fs)
      PROVE  SameCall(fs[i], gs[i])
  <2>1. CASE gs[i] = fs[i]
    BY <2>1 DEF SameCall
  <2>2. CASE fs[i].kind = "notify" /\ gs[i] = [fs[i] EXCEPT !.event = g]
    <3>1. fs[i] \in Frame
      OBVIOUS
    <3>2. gs[i].kind = "notify"
      BY <2>2, <3>1 DEF Frame
    <3> QED
      BY <2>2, <3>2 DEF SameCall, IsHandler
  <2> QED
    BY <2>1, <2>2
<1> QED
  BY <1>1 DEF SameCalls

\* fileevent with an empty script
LEMMA UnsetHandlerSeen ==
  ASSUME NEW s, Sound(s), NEW c \in Channels, NEW e
  PROVE  LET t == Tcl_DeleteChannelHandler(s, c, e) IN
           /\ Shape(t) /\ SameCalls(s.frames, t.frames)
           /\ \A d \in Channels :
                /\ Opened(t, d) <=> Opened(s, d)
                /\ Interest(t, d) = IF d = c THEN Interest(s, c) \ {e}
                                             ELSE Interest(s, d)
<1>0. Shape(s) /\ s.frames \in Seq(Frame)
  BY KitShape DEF Sound, KitType
<1>1. CASE e \notin Interest(s, c)
  <2>1. Tcl_DeleteChannelHandler(s, c, e) = s
    BY <1>1 DEF Tcl_DeleteChannelHandler
  <2>2. SameCalls(s.frames, s.frames)
    BY DEF SameCalls, SameCall
  <2> QED
    BY <1>0, <1>1, <2>1, <2>2
<1>2. CASE e \in Interest(s, c)
  <2> DEFINE hs == s.chan[c].handlers
             gs == RemoveAt(hs, CHOOSE i \in DOMAIN hs : hs[i] = e)
             next == Successor(hs, e)
             Comes(f) == f.kind = "notify" /\ f.chan = c /\ f.event = e
             fs == [i \in DOMAIN s.frames |->
                      IF Comes(s.frames[i]) THEN [s.frames[i] EXCEPT !.event = next]
                                            ELSE s.frames[i]]
             u == [s EXCEPT !.chan[c].handlers = gs]
             v == [u EXCEPT !.frames = fs]
             t == UpdateInterest(v, c)
  <2>1. hs \in Seq(Events) /\ HandlersSound(s, c) /\ Opened(s, c)
    BY <1>2, TimerFacts, InterestOf DEF Channel, ChannelSound
  <2>2. ToSet(gs) = Interest(s, c) \ {e}
    BY <1>2, <2>1, HandlerRemoved DEF HandlersSound, Interest
  <2>3. Tcl_DeleteChannelHandler(s, c, e) = t
    <3>1. Tcl_DeleteChannelHandler(s, c, e) =
            UpdateInterest([s EXCEPT !.chan[c].handlers = gs, !.frames = fs], c)
      BY <1>2 DEF Tcl_DeleteChannelHandler
    <3> HIDE DEF gs, fs
    <3>2. [s EXCEPT !.chan[c].handlers = gs, !.frames = fs] = v
      BY <1>0 DEF Shape
    <3> HIDE DEF v
    <3> QED
      BY <3>1, <3>2
  <2>4. SameCalls(s.frames, fs)
    <3> HIDE DEF next
    <3>1. Len(s.frames) \in Nat /\ DOMAIN s.frames = 1 .. Len(s.frames)
      BY <1>0
    <3>2. Len(fs) = Len(s.frames)
      BY <3>1
    <3>3. ASSUME NEW i \in 1 .. Len(s.frames)
          PROVE  \/ fs[i] = s.frames[i]
                 \/ /\ s.frames[i].kind = "notify"
                    /\ fs[i] = [s.frames[i] EXCEPT !.event = next]
      BY <3>1
    <3> HIDE DEF fs
    <3> QED
      BY <1>0, <3>2, <3>3, NotifiesSame
  <2> HIDE DEF gs, fs
  <2>5. /\ Shape(u) /\ u.frames = s.frames
        /\ \A d \in Channels :
             /\ Opened(u, d) <=> Opened(s, d)
             /\ Interest(u, d) = IF d = c THEN ToSet(gs) ELSE Interest(s, d)
    BY <1>0, <2>1, HandlersGiven
  <2> HIDE DEF u
  <2>6. Shape(v) /\ SeenAlike(u, v) /\ v.frames = fs
    BY <2>5, FramesSeen
  <2> HIDE DEF v
  <2>7. SeenAlike(v, t) /\ t.frames = v.frames /\ Shape(t)
    BY <2>6, UpdateInterestAlike, AlikeSeen, ShapeAlike
  <2> HIDE DEF t
  <2> QED
    BY <2>2, <2>3, <2>4, <2>5, <2>6, <2>7 DEF SeenAlike
<1> QED
  BY <1>1, <1>2

\* close
LEMMA CloseSeen ==
  ASSUME NEW s, Sound(s), NEW c \in Channels
  PROVE  LET t == Closed(s, c) IN
           /\ SameCalls(s.frames, t.frames)
           /\ \A d \in Channels :
                /\ Opened(t, d) <=> Opened(s, d) /\ d # c
                /\ Interest(t, d) = IF d = c THEN {} ELSE Interest(s, d)
<1> DEFINE r  == Tcl_DeleteTimerHandler(s, "ChannelTimerProc", c)
           r1 == [r EXCEPT !.chan[c].timer = FALSE]
           s1 == IF s.chan[c].timer THEN TclChannelRelease(r1, c) ELSE s
           Comes(f) == f.kind = "notify" /\ f.chan = c
           fs == [i \in DOMAIN s1.frames |->
                    IF Comes(s1.frames[i]) THEN [s1.frames[i] EXCEPT !.event = None]
                                           ELSE s1.frames[i]]
           u  == [s1 EXCEPT !.chan[c].handlers = <<>>]
           s2 == [u EXCEPT !.frames = fs]
           s3 == DropTimer(s2, c)
           s4 == [s3 EXCEPT !.rc[c] = Freed]
           n  == s4.chan[c].refCount
           z  == IF n = 0 THEN Absent
                 ELSE [Absent EXCEPT !.life = "closed", !.refCount = n]
           t  == [s4 EXCEPT !.chan[c] = z]
<1>0. Shape(s) /\ s.frames \in Seq(Frame)
  BY KitShape DEF Sound, KitType
<1>1. Shape(s1) /\ SeenAlike(s, s1) /\ s1.frames = s.frames
  <2>1. Alike(s, r) /\ Shape(r)
    BY <1>0, DeleteTimerAlike, ShapeAlike
  <2> HIDE DEF r
  <2>2. Alike(r, r1) /\ Shape(r1)
    BY <2>1, TimerFlagAlike, ShapeAlike
  <2> HIDE DEF r1
  <2>3. Alike(r1, TclChannelRelease(r1, c))
    BY <2>2, ReleaseAlike
  <2>4. Alike(s, s1)
    BY <1>0, <2>1, <2>2, <2>3, Chain, Unchanged
  <2> HIDE DEF s1
  <2> QED
    BY <2>4, AlikeSeen, ShapeAlike
<1>2. Tcl_ClearChannelHandlers(s, c) = s2
  <2>1. Tcl_ClearChannelHandlers(s, c) =
          [s1 EXCEPT !.chan[c].handlers = <<>>, !.frames = fs]
    BY DEF Tcl_ClearChannelHandlers
  <2> HIDE DEF fs, s1
  <2>2. [s1 EXCEPT !.chan[c].handlers = <<>>, !.frames = fs] = s2
    BY <1>1 DEF Shape
  <2> HIDE DEF s2
  <2> QED
    BY <2>1, <2>2
<1> HIDE DEF s1
<1>3. SameCalls(s.frames, fs)
  <2>1. s1.frames \in Seq(Frame)
    BY <1>0, <1>1
  <2>2. Len(s1.frames) \in Nat /\ DOMAIN s1.frames = 1 .. Len(s1.frames)
    BY <2>1
  <2>3. Len(fs) = Len(s1.frames)
    BY <2>2
  <2>4. ASSUME NEW i \in 1 .. Len(s1.frames)
        PROVE  \/ fs[i] = s1.frames[i]
               \/ /\ s1.frames[i].kind = "notify"
                  /\ fs[i] = [s1.frames[i] EXCEPT !.event = None]
    BY <2>2
  <2> HIDE DEF fs
  <2>5. SameCalls(s1.frames, fs)
    BY <2>1, <2>3, <2>4, NotifiesSame
  <2> QED
    BY <1>1, <2>5
<1> HIDE DEF fs
<1>4. /\ Shape(u)
      /\ \A d \in Channels :
           /\ Opened(u, d) <=> Opened(s1, d)
           /\ Interest(u, d) = IF d = c THEN {} ELSE Interest(s1, d)
  <2>1. ToSet(<<>>) = {}
    BY DEF ToSet
  <2> QED
    BY <1>1, <2>1, HandlersGiven
<1> HIDE DEF u
<1>5. Shape(s2) /\ SeenAlike(u, s2) /\ s2.frames = fs
  BY <1>4, FramesSeen
<1>6. Closed(s, c) = t
  BY <1>2 DEF Closed, ChannelFree, rcClose
<1> HIDE DEF s2
<1>7. Alike(s2, s3) /\ Shape(s3)
  BY <1>5, DropTimerAlike, ShapeAlike
<1> HIDE DEF s3
<1>8. Alike(s3, s4) /\ Shape(s4)
  BY <1>7, InstanceAlike, ShapeAlike
<1>9. SeenAlike(s2, s4) /\ s4.frames = s2.frames
  BY <1>7, <1>8, Chain, AlikeSeen
<1> HIDE DEF s4
<1>10. Fields(z) /\ z.life # "open" /\ z.handlers = <<>>
  BY DEF Absent, Fields
<1> HIDE DEF z
<1> HIDE DEF t
<1>11. AlikeBut(s4, t, {c}) /\ t.chan[c] = z
  <2>1. ChannelGiven(s4, c, z, t)
    BY ONLY <1>10 DEF ChannelGiven, t
  <2> QED
    BY <1>8, <2>1, FieldsGiven
<1>12. /\ ~Opened(t, c) /\ Interest(t, c) = {} /\ t.frames = s4.frames
       /\ \A d \in Channels \ {c} :
            (Opened(t, d) <=> Opened(s4, d)) /\ Interest(t, d) = Interest(s4, d)
  BY <1>10, <1>11 DEF AlikeBut, Opened, Interest, ToSet
<1> QED
  BY <1>1, <1>3, <1>4, <1>5, <1>6, <1>9, <1>12 DEF SeenAlike

-----------------------------------------------------------------------------
\* Each step of the kit is one of FileEvents, or shows nothing.

LEMMA KitFacts ==
  ASSUME KInv(kit)
  PROVE  /\ Sound(kit) /\ Stack(kit) /\ Shape(kit) /\ kit \in KitType
         /\ kit.frames \in Seq(Frame) /\ Len(kit.frames) \in Nat
         /\ kit.frames # <<>> /\ Top = Last(kit.frames)
<1>1. Sound(kit) /\ Stack(kit) /\ kit \in KitType
  BY DEF KInv, Sound
<1>2. Shape(kit)
  BY <1>1, KitShape
<1>3. kit.frames \in Seq(Frame) /\ Len(kit.frames) \in Nat /\ kit.frames # <<>>
  BY <1>1 DEF KitType, Stack
<1> QED
  BY <1>1, <1>2, <1>3 DEF Top

\* t shows what s shows.
Shows(s, t) == SeenAlike(s, t) /\ HandlersOf(t.frames) = HandlersOf(s.frames)

LEMMA AlikeShows ==
  ASSUME NEW s, NEW t, Alike(s, t)
  PROVE  Shows(s, t)
BY AlikeSeen DEF Shows

LEMMA ShowsTrans ==
  ASSUME NEW s, NEW t, NEW u, Shows(s, t), Shows(t, u)
  PROVE  Shows(s, u)
BY SeenTrans DEF Shows

\* A frame that is no handler's comes or goes.
LEMMA PushShows ==
  ASSUME NEW s, Shape(s), s.frames \in Seq(Frame), NEW f, ~IsHandler(f)
  PROVE  Shows(s, Push(s, f))
<1>1. SeenAlike(s, Push(s, f)) /\ Push(s, f).frames = Append(s.frames, f)
  BY PushSeen
<1>2. HandlersOf(Append(s.frames, f)) = HandlersOf(s.frames)
  BY PushedCalls DEF WithCall
<1> QED
  BY <1>1, <1>2 DEF Shows

LEMMA PopShows ==
  ASSUME NEW s, Shape(s), s.frames \in Seq(Frame), s.frames # <<>>,
         ~IsHandler(Last(s.frames))
  PROVE  Shows(s, Pop(s)) /\ Pop(s).frames \in Seq(Frame)
<1>1. SeenAlike(s, Pop(s)) /\ Pop(s).frames = Front(s.frames)
  BY PopSeen
<1>2. HandlersOf(s.frames) = HandlersOf(Front(s.frames))
  BY PoppedCalls DEF WithCall
<1>3. Front(s.frames) \in Seq(Frame)
  BY DropLast
<1> QED
  BY <1>1, <1>2, <1>3 DEF Shows

LEMMA NotifiedShows ==
  ASSUME NEW s, Shape(s), s.frames \in Seq(Frame), NEW c \in Channels, NEW mask
  PROVE  Shows(s, Notified(s, c, mask))
<1> DEFINE u == TclChannelPreserve(s, c)
           f == NotifyFrame(c, IF s.chan[c].handlers = <<>> THEN None
                               ELSE Head(s.chan[c].handlers), mask)
<1>1. Alike(s, u) /\ Shape(u) /\ u.frames = s.frames
  BY PreserveAlike, ShapeAlike, AlikeSeen
<1>2. ~IsHandler(f)
  BY DEF IsHandler, NotifyFrame
<1>3. Notified(s, c, mask) = IF mask = {} THEN s ELSE Push(u, f)
  BY DEF Notified
<1> HIDE DEF u, f
<1>4. Shows(u, Push(u, f))
  BY <1>1, <1>2, PushShows
<1>5. Shows(s, Push(u, f)) /\ Shows(s, s)
  BY <1>1, <1>4, AlikeShows, ShowsTrans, Unchanged
<1> QED
  BY <1>3, <1>5

\* The commands that show nothing.
LEMMA CommandShows ==
  ASSUME KInv(kit), NEW c \in Channels, NEW got, NEW left, NEW more, NEW accepted,
         \/ Reconfigure(c) \/ Read(c, got, left, more)
         \/ Seek(c, accepted) \/ Write(c, accepted)
  PROVE  Shows(kit, kit')
<1>0. Shape(kit) /\ kit.frames \in Seq(Frame)
  BY KitFacts
<1>1. CASE Reconfigure(c)
  <2> DEFINE s == [kit EXCEPT !.chan[c].needMore = FALSE]
  <2>1. Alike(kit, s) /\ Shape(s)
    BY <1>0, BufferAlike, ShapeAlike
  <2>2. kit' = UpdateInterest(s, c)
    BY <1>1 DEF Reconfigure
  <2> HIDE DEF s
  <2> QED
    BY <2>1, <2>2, UpdateInterestAlike, Chain, AlikeShows
<1>2. CASE Read(c, got, left, more)
  <2> DEFINE r == rcInput(kit, c, got)
             s == [r EXCEPT !.chan[c].buffered = left, !.chan[c].needMore = more]
  <2>1. Alike(kit, r) /\ Shape(r)
    <3>1. CASE got = "none"
      <4> DEFINE y == kit.rc[c].watchMask \ {"readable"}
      <4>1. r = [kit EXCEPT !.rc[c].watchMask = y]
        BY <3>1 DEF rcInput
      <4> HIDE DEF y, r
      <4> QED
        BY <1>0, <4>1, InstanceAlike, ShapeAlike
    <3>2. CASE got # "none"
      BY <1>0, <3>2, Unchanged DEF rcInput
    <3> QED
      BY <3>1, <3>2
  <2>2. kit' = UpdateInterest(s, c)
    BY <1>2 DEF Read
  <2> HIDE DEF r
  <2>3. Alike(r, s) /\ Shape(s)
    BY <2>1, BufferAlike, ShapeAlike
  <2> HIDE DEF s
  <2> QED
    BY <2>1, <2>2, <2>3, UpdateInterestAlike, Chain, AlikeShows
<1>3. CASE Seek(c, accepted) \/ Write(c, accepted)
  <2> DEFINE s == [kit EXCEPT !.chan[c].buffered = FALSE]
             y == s.rc[c].validMask
             t == [s EXCEPT !.rc[c].watchMask = y]
  <2>1. kit' = s \/ kit' = t
    BY <1>3 DEF Seek, Write, rcSeek, rcOutput
  <2>2. Alike(kit, s) /\ Shape(s)
    BY <1>0, BufferAlike, ShapeAlike
  <2> HIDE DEF s, y
  <2>3. Alike(s, t)
    BY <2>2, InstanceAlike
  <2> HIDE DEF t
  <2> QED
    BY <2>1, <2>2, <2>3, Chain, AlikeShows
<1> QED
  BY <1>1, <1>2, <1>3

LEMMA LoopEntered ==
  ASSUME KInv(kit), NEW kind, EnterLoop(kind), kind \in {"update", "vwait"}
  PROVE  Shows(kit, kit')
<1>1. Shape(kit) /\ kit.frames \in Seq(Frame) /\ kit' = Push(kit, PlainFrame(kind))
  BY KitFacts DEF EnterLoop
<1>2. ~IsHandler(PlainFrame(kind))
  BY DEF IsHandler, PlainFrame
<1> QED
  BY <1>1, <1>2, PushShows

\* So do the loop, the timers, and the notifications but for their calls.
LEMMA LoopShows ==
  ASSUME KInv(kit), ServiceEvent \/ TimerCheckProc \/ UpdateEnds \/ Tick
  PROVE  Shows(kit, kit')
<1>0. Shape(kit) /\ kit.frames \in Seq(Frame) /\ kit.frames # <<>>
      /\ Top = Last(kit.frames)
  BY KitFacts
<1>1. CASE ServiceEvent
  <2> DEFINE s == [kit EXCEPT !.passes = @ + 1]
             f == PlainFrame("pass")
  <2>1. kit' = Push(s, f)
    BY <1>1 DEF ServiceEvent
  <2>2. ~IsHandler(f)
    BY DEF IsHandler, PlainFrame
  <2>3. Alike(kit, s)
    <3>1. s = [chan |-> kit.chan, rc |-> kit.rc, timers |-> kit.timers,
               passes |-> kit.passes + 1, frames |-> kit.frames]
      BY <1>0 DEF Shape
    <3> HIDE DEF s
    <3>2. /\ s.chan = kit.chan /\ s.frames = kit.frames
          /\ s = [chan |-> s.chan, rc |-> s.rc, timers |-> s.timers,
                  passes |-> s.passes, frames |-> s.frames]
      BY ONLY <3>1
    <3> QED
      BY <1>0, <3>2, OtherFieldChanged
  <2> HIDE DEF s, f
  <2>4. Shape(s) /\ s.frames = kit.frames /\ Shows(kit, s)
    BY <2>3, ShapeAlike, AlikeSeen, AlikeShows
  <2>5. Shows(s, Push(s, f))
    BY <1>0, <2>2, <2>4, PushShows
  <2> QED
    BY <2>1, <2>4, <2>5, ShowsTrans
<1>2. CASE TimerCheckProc
  <2>1. kit' = kit
    BY <1>2 DEF TimerCheckProc
  <2> QED
    BY <1>0, <2>1, Unchanged, AlikeShows
<1>3. CASE UpdateEnds
  <2>1. kit' = Pop(kit) /\ Top.kind = "update"
    BY <1>3 DEF UpdateEnds
  <2>2. ~IsHandler(Last(kit.frames))
    BY <1>0, <2>1 DEF IsHandler
  <2> QED
    BY <1>0, <2>1, <2>2, PopShows
<1>4. CASE Tick
  <2>1. kit' = [kit EXCEPT !.timers = Ticked(kit.timers, kit.passes)]
    BY <1>4 DEF Tick
  <2> QED
    BY <1>0, <2>1, TimersAlike, AlikeShows
<1> QED
  BY <1>1, <1>2, <1>3, <1>4

LEMMA PassShows ==
  ASSUME KInv(kit), NEW done \in BOOLEAN, PassEnds(done)
  PROVE  Shows(kit, kit')
<1> DEFINE p == Pop(kit)
           s == [p EXCEPT !.timers = Ended(@, kit.passes), !.passes = @ - 1]
<1>0. Shape(kit) /\ kit.frames \in Seq(Frame) /\ kit.frames # <<>>
      /\ Top = Last(kit.frames)
  BY KitFacts
<1>1. /\ Top.kind = "pass"
      /\ done => Last(s.frames).kind = "vwait"
      /\ kit' = IF done THEN Pop(s) ELSE s
  BY DEF PassEnds, Running
<1>2. ~IsHandler(Last(kit.frames))
  BY <1>0, <1>1 DEF IsHandler
<1>3. Shows(kit, p) /\ p.frames \in Seq(Frame) /\ Shape(p)
  <2>1. Shape(p)
    BY <1>0, FramesSeen DEF Pop
  <2> QED
    BY <1>0, <1>2, <2>1, PopShows
<1> HIDE DEF p
<1>4. Alike(p, s) /\ Shape(s) /\ s.frames = p.frames
  <2> DEFINE ts == Ended(p.timers, kit.passes)
             k  == p.passes - 1
  <2>1. s = [chan |-> p.chan, rc |-> p.rc, timers |-> ts, passes |-> k,
             frames |-> p.frames]
    <3>1. p = [chan |-> p.chan, rc |-> p.rc, timers |-> p.timers,
               passes |-> p.passes, frames |-> p.frames]
      BY <1>3 DEF Shape
    <3>2. s = [p EXCEPT !.timers = ts, !.passes = k]
      BY <3>1
    <3> HIDE DEF s, ts, k
    <3> QED
      BY ONLY <3>1, <3>2
  <2> HIDE DEF s, ts, k
  <2>2. /\ s.chan = p.chan /\ s.frames = p.frames
        /\ s = [chan |-> s.chan, rc |-> s.rc, timers |-> s.timers,
                passes |-> s.passes, frames |-> s.frames]
    BY ONLY <2>1
  <2> QED
    BY <1>3, <2>2, OtherFieldChanged, ShapeAlike
<1> HIDE DEF s
<1>5. Shows(kit, s)
  BY <1>3, <1>4, AlikeShows, ShowsTrans
<1>6. ASSUME done
      PROVE  Shows(s, Pop(s))
  <2>1. Last(s.frames).kind = "vwait" /\ s.frames \in Seq(Frame)
    BY <1>1, <1>3, <1>4, <1>6
  <2>2. ~IsHandler(Last(s.frames))
    BY <2>1 DEF IsHandler
  <2>3. s.frames # <<>>
    <3>1. Len(kit.frames) \in Nat /\ kit.frames[1].kind = "script"
      BY KitFacts DEF Stack
    <3>2. /\ Len(Front(kit.frames)) = Len(kit.frames) - 1
          /\ (Front(kit.frames) = <<>>) <=> (Len(kit.frames) = 1)
      BY <1>0, DropLast
    <3>3. p.frames = Front(kit.frames)
      BY <1>0, PopSeen DEF p
    <3>4. Last(kit.frames) = kit.frames[Len(kit.frames)]
      BY <1>0, Popped
    <3> QED
      BY <1>0, <1>1, <1>4, <3>1, <3>2, <3>3, <3>4
  <2> QED
    BY <1>4, <2>1, <2>2, <2>3, PopShows
<1> QED
  BY <1>1, <1>5, <1>6, ShowsTrans

LEMMA FireShows ==
  ASSUME KInv(kit), FireRechan \/ FireChannel
  PROVE  Shows(kit, kit')
<1> DEFINE u == Unlisted
           c == Head(kit.timers).chan
<1>0. Shape(kit) /\ kit.frames \in Seq(Frame)
  BY KitFacts
<1>1. c \in Channels
  <2>1. \/ Unlists(kit, Unlisted, "rcTimerProc", c)
        \/ Unlists(kit, Unlisted, "ChannelTimerProc", c)
    BY DEF FireRechan, FireChannel, Fire, Runnable, Due, Unlists, Unlisted
  <2> HIDE DEF c
  <2> QED
    BY <2>1, UnlistedFacts
<1>2. Alike(kit, u) /\ Shape(u) /\ u.frames = kit.frames
  <2>1. u = [kit EXCEPT !.timers = Tail(kit.timers)]
    BY DEF Unlisted
  <2> HIDE DEF u
  <2> QED
    BY <1>0, <2>1, TimersAlike, ShapeAlike, AlikeSeen
<1>3. CASE FireRechan
  <2> DEFINE s == rcTimerProc(u, c)
             mask == s.rc[c].watchMask
  <2>1. kit' = Notified(s, c, mask)
    BY <1>3 DEF FireRechan
  <2> HIDE DEF c, u, mask
  <2>2. Alike(u, s) /\ Shape(s) /\ s.frames = u.frames
    BY <1>2, DropTimerAlike, ShapeAlike, AlikeSeen DEF rcTimerProc
  <2> HIDE DEF s
  <2>3. Shows(s, Notified(s, c, mask))
    BY <1>0, <1>1, <1>2, <2>2, NotifiedShows
  <2> QED
    BY <1>2, <2>1, <2>2, <2>3, AlikeShows, ShowsTrans
<1>4. CASE FireChannel
  <2> DEFINE s == StartTimer(u, c)
             v == [u EXCEPT !.chan[c].timer = FALSE]
             w == UpdateInterest(v, c)
  <2>1. kit' = Notified(s, c, {"readable"}) \/ kit' = TclChannelRelease(w, c)
    BY <1>4 DEF FireChannel
  <2> HIDE DEF c, u
  <2>2. Alike(u, s) /\ Shape(s) /\ s.frames = u.frames
    BY <1>1, <1>2, StartTimerAlike, ShapeAlike, AlikeSeen
  <2>3. Alike(u, v) /\ Shape(v)
    BY <1>1, <1>2, TimerFlagAlike, ShapeAlike
  <2> HIDE DEF s, v
  <2>4. Alike(v, w) /\ Shape(w)
    BY <1>1, <2>3, UpdateInterestAlike, ShapeAlike
  <2> HIDE DEF w
  <2>5. Alike(w, TclChannelRelease(w, c))
    BY <1>1, <2>4, ReleaseAlike
  <2>6. Shows(s, Notified(s, c, {"readable"}))
    BY <1>0, <1>1, <1>2, <2>2, NotifiedShows
  <2>7. Shows(kit, Notified(s, c, {"readable"}))
    BY <1>2, <2>2, <2>6, AlikeShows, ShowsTrans
  <2>8. Shows(kit, TclChannelRelease(w, c))
    BY <1>2, <2>3, <2>4, <2>5, Chain, AlikeShows
  <2> QED
    BY <2>1, <2>7, <2>8
<1> QED
  BY <1>3, <1>4

LEMMA NotifyShows ==
  ASSUME KInv(kit), NotifySkips \/ NotifyEnds
  PROVE  Shows(kit, kit')
<1> DEFINE c == Top.chan
           n == Len(kit.frames)
<1>0. /\ Shape(kit) /\ kit.frames \in Seq(Frame) /\ kit.frames # <<>>
      /\ n \in Nat \ {0} /\ Top = Last(kit.frames) /\ Top = kit.frames[n]
  BY KitFacts, Popped
<1>1. Top.kind = "notify" /\ c \in Channels
  BY TopFacts DEF NotifySkips, NotifyEnds, Running
<1>2. ~IsHandler(Top)
  BY <1>1 DEF IsHandler
<1> HIDE DEF c, n
<1>3. CASE NotifySkips
  <2> DEFINE g == Successor(Hs, Top.event)
             fs == [kit.frames EXCEPT ![n].event = g]
             t == [kit EXCEPT !.frames = fs]
  <2>1. kit' = t
    BY <1>3 DEF NotifySkips, n
  <2> HIDE DEF g
  <2>2. SameCalls(kit.frames, fs)
    <3>1. Len(fs) = Len(kit.frames)
      BY <1>0
    <3>2. ASSUME NEW i \in 1 .. Len(kit.frames)
          PROVE  \/ fs[i] = kit.frames[i]
                 \/ /\ kit.frames[i].kind = "notify"
                    /\ fs[i] = [kit.frames[i] EXCEPT !.event = g]
      BY <1>0, <1>1
    <3> HIDE DEF fs
    <3> QED
      BY <1>0, <3>1, <3>2, NotifiesSame
  <2> HIDE DEF fs
  <2>3. SeenAlike(kit, t) /\ t.frames = fs
    BY <1>0, FramesSeen
  <2> HIDE DEF t
  <2>4. HandlersOf(fs) = HandlersOf(kit.frames)
    BY <1>0, <2>2, SameHandlers DEF n
  <2> QED
    BY <2>1, <2>3, <2>4 DEF Shows
<1>4. CASE NotifyEnds
  <2> DEFINE u == UpdateInterest(kit, c)
             v == TclChannelRelease(u, c)
  <2>1. kit' = Pop(v)
    BY <1>4 DEF NotifyEnds, c
  <2>2. Alike(kit, u) /\ Shape(u)
    BY <1>0, <1>1, UpdateInterestAlike, ShapeAlike
  <2> HIDE DEF u
  <2>3. Alike(u, v) /\ Shape(v)
    BY <1>1, <2>2, ReleaseAlike, ShapeAlike
  <2> HIDE DEF v
  <2>4. Alike(kit, v)
    BY <2>2, <2>3, Chain
  <2>5. Shows(kit, v) /\ v.frames = kit.frames
    BY <2>4, AlikeShows, AlikeSeen
  <2>6. Shows(v, Pop(v))
    BY <1>0, <1>2, <2>3, <2>5, PopShows
  <2> QED
    BY <2>1, <2>5, <2>6, ShowsTrans
<1> QED
  BY <1>3, <1>4

\* What shows nothing is a stutter.
LEMMA ShowsStutter ==
  ASSUME Shows(kit, kit')
  PROVE  UNCHANGED FE!vars
<1>1. {d \in Channels : Opened(kit', d)} = {d \in Channels : Opened(kit, d)}
  BY DEF Shows, SeenAlike
<1>2. [d \in Channels |-> Interest(kit', d)] = [d \in Channels |-> Interest(kit, d)]
  BY DEF Shows, SeenAlike
<1>3. HandlersOf(kit'.frames) = HandlersOf(kit.frames)
  BY DEF Shows
<1> QED
  BY <1>1, <1>2, <1>3 DEF FE!vars

LEMMA OpenStep ==
  ASSUME KInv(kit), NEW c \in Channels, cmd_rechan(c)
  PROVE  FE!Open(c)
<1> DEFINE x == [Absent EXCEPT !.life = "open"]
           s == [kit EXCEPT !.chan[c] = x]
           y == rcCreate(Mode[c])
           t == [s EXCEPT !.rc[c] = y]
<1>0. Shape(kit) /\ Sound(kit)
  BY KitFacts
<1>1. Fields(x) /\ x.life = "open" /\ x.handlers = <<>>
  <2>1. Fields(Absent) /\ Absent.handlers = <<>>
    BY DEF Absent, Fields
  <2> QED
    BY <2>1 DEF Fields
<1>2. kit' = t /\ kit.chan[c].life = "none"
  BY DEF cmd_rechan
<1> HIDE DEF x, y
<1> HIDE DEF s
<1>3. /\ AlikeBut(kit, s, {c}) /\ s.chan[c] = x
  <2>1. ChannelGiven(kit, c, x, s)
    BY ONLY <1>1 DEF ChannelGiven, s
  <2> QED
    BY <1>0, <2>1, FieldsGiven
<1>4. Shape(s)
  BY <1>3 DEF AlikeBut
<1>5. SeenAlike(s, t) /\ t.frames = s.frames
  BY <1>4, InstanceAlike, AlikeSeen
<1> HIDE DEF t
<1>6. kit.chan[c].handlers = <<>>
  BY <1>0, <1>2 DEF Shape, Opened
<1>7. /\ Opened(s, c) /\ Interest(s, c) = Interest(kit, c) /\ s.frames = kit.frames
      /\ \A d \in Channels \ {c} :
           (Opened(s, d) <=> Opened(kit, d)) /\ Interest(s, d) = Interest(kit, d)
  BY <1>1, <1>3, <1>6 DEF AlikeBut, Opened, Interest
<1>8. /\ kit'.frames = kit.frames
      /\ \A d \in Channels : /\ Opened(kit', d) <=> Opened(kit, d) \/ d = c
                             /\ Interest(kit', d) = Interest(kit, d)
  BY <1>2, <1>5, <1>7 DEF SeenAlike
<1>9. {d \in Channels : Opened(kit', d)} = {d \in Channels : Opened(kit, d)} \cup {c}
  BY <1>8
<1>10. [d \in Channels |-> Interest(kit', d)] = [d \in Channels |-> Interest(kit, d)]
  BY <1>8
<1>11. HandlersOf(kit'.frames) = HandlersOf(kit.frames)
  BY <1>8
<1> QED
  BY <1>9, <1>10, <1>11 DEF FE!Open

LEMMA SetStep ==
  ASSUME KInv(kit), NEW c \in Channels, NEW e \in Events, SetHandler(c, e)
  PROVE  FE!Set(c, e)
<1>0. Sound(kit)
  BY KitFacts
<1>1. Opened(kit, c) /\ kit' = Tcl_CreateChannelHandler(kit, c, e)
  BY DEF SetHandler, CanUse
<1>2. /\ kit'.frames = kit.frames
      /\ \A d \in Channels :
           /\ Opened(kit', d) <=> Opened(kit, d)
           /\ Interest(kit', d) = IF d = c THEN Interest(kit, c) \cup {e}
                                           ELSE Interest(kit, d)
  BY <1>0, <1>1, SetHandlerSeen
<1>3. {d \in Channels : Opened(kit', d)} = {d \in Channels : Opened(kit, d)}
  BY <1>2
<1> DEFINE set == [d \in Channels |-> Interest(kit, d)]
<1>4. [d \in Channels |-> Interest(kit', d)] = [set EXCEPT ![c] = @ \cup {e}]
  BY <1>2
<1>5. HandlersOf(kit'.frames) = HandlersOf(kit.frames)
  BY <1>2
<1>6. c \in {d \in Channels : Opened(kit, d)}
  BY <1>1
<1> QED
  BY <1>3, <1>4, <1>5, <1>6 DEF FE!Set

LEMMA UnsetStep ==
  ASSUME KInv(kit), NEW c \in Channels, NEW e \in Events, UnsetHandler(c, e)
  PROVE  FE!Unset(c, e)
<1>0. Sound(kit) /\ Len(kit.frames) \in Nat
  BY KitFacts
<1>1. kit' = Tcl_DeleteChannelHandler(kit, c, e)
  BY DEF UnsetHandler
<1>2. /\ SameCalls(kit.frames, kit'.frames)
      /\ \A d \in Channels :
           /\ Opened(kit', d) <=> Opened(kit, d)
           /\ Interest(kit', d) = IF d = c THEN Interest(kit, c) \ {e}
                                           ELSE Interest(kit, d)
  BY <1>0, <1>1, UnsetHandlerSeen
<1>3. {d \in Channels : Opened(kit', d)} = {d \in Channels : Opened(kit, d)}
  BY <1>2
<1> DEFINE set == [d \in Channels |-> Interest(kit, d)]
<1>4. [d \in Channels |-> Interest(kit', d)] = [set EXCEPT ![c] = @ \ {e}]
  BY <1>2
<1>5. HandlersOf(kit'.frames) = HandlersOf(kit.frames)
  BY <1>0, <1>2, SameHandlers
<1> QED
  BY <1>3, <1>4, <1>5 DEF FE!Unset

LEMMA CloseStep ==
  ASSUME KInv(kit), NEW c \in Channels, Close(c)
  PROVE  FE!Close(c)
<1>0. Sound(kit) /\ Len(kit.frames) \in Nat
  BY KitFacts
<1>1. kit' = Closed(kit, c)
  BY DEF Close
<1>2. /\ SameCalls(kit.frames, kit'.frames)
      /\ \A d \in Channels :
           /\ Opened(kit', d) <=> Opened(kit, d) /\ d # c
           /\ Interest(kit', d) = IF d = c THEN {} ELSE Interest(kit, d)
  BY <1>0, <1>1, CloseSeen
<1>3. {d \in Channels : Opened(kit', d)} = {d \in Channels : Opened(kit, d)} \ {c}
  BY <1>2
<1> DEFINE set == [d \in Channels |-> Interest(kit, d)]
<1>4. [d \in Channels |-> Interest(kit', d)] = [set EXCEPT ![c] = {}]
  BY <1>2
<1>5. HandlersOf(kit'.frames) = HandlersOf(kit.frames)
  BY <1>0, <1>2, SameHandlers
<1> QED
  BY <1>3, <1>4, <1>5 DEF FE!Close

LEMMA CallStep ==
  ASSUME KInv(kit), NotifyCalls
  PROVE  \E c \in Channels, e \in Events : FE!Call(c, e)
<1> DEFINE c == Top.chan
           e == Top.event
           n == Len(kit.frames)
           g == Successor(Hs, e)
           r == [kit EXCEPT !.frames[n].event = g]
           q == TclChannelPreserve(r, c)
           f == ScriptFrame(c, e)
<1>0. /\ Sound(kit) /\ Stack(kit) /\ Shape(kit) /\ kit \in KitType
      /\ kit.frames \in Seq(Frame) /\ n \in Nat \ {0}
      /\ Top = Last(kit.frames) /\ Top = kit.frames[n] /\ kit.frames # <<>>
  BY KitFacts, Popped
<1>1. /\ Top.kind = "notify" /\ c \in Channels /\ Top \in Frame
      /\ e \in Top.mask
  BY TopFacts DEF NotifyCalls, Running
<1>2. e \in Events /\ FrameSound(kit, Top)
  BY <1>0, <1>1, TopFrame DEF Frame
<1>3. e \in Interest(kit, c) /\ Opened(kit, c)
  <2>1. e \in Interest(kit, c)
    BY <1>1, <1>2, NoneAssumption DEF FrameSound
  <2> QED
    BY <1>0, <1>1, <2>1, InterestOf
<1>4. KInv(r) /\ r.chan = kit.chan
  BY <1>0, <1>1, NotifySkipsKeeps DEF Hs
<1>5. kit' = Push(q, f)
  <2>1. kit' = Push([TclChannelPreserve(kit, c) EXCEPT !.frames[n].event = g], f)
    BY DEF NotifyCalls
  <2> HIDE DEF g, f
  <2>2. [TclChannelPreserve(kit, c) EXCEPT !.frames[n].event = g] = q
    BY <1>0, <1>1 DEF TclChannelPreserve, KitType
  <2> HIDE DEF q
  <2> QED
    BY <2>1, <2>2
<1> DEFINE fs == [kit.frames EXCEPT ![n].event = g]
<1>6. /\ Shape(r) /\ SeenAlike(kit, r) /\ r.frames = fs
  <2>1. r = [kit EXCEPT !.frames = fs]
    OBVIOUS
  <2> HIDE DEF r, fs
  <2> QED
    BY <1>0, <2>1, FramesSeen
<1> HIDE DEF r, c, e, f
<1>7. SameCalls(kit.frames, fs)
  <2> HIDE DEF g
  <2>1. Len(fs) = Len(kit.frames)
    BY <1>0
  <2>2. ASSUME NEW i \in 1 .. Len(kit.frames)
        PROVE  \/ fs[i] = kit.frames[i]
               \/ /\ kit.frames[i].kind = "notify"
                  /\ fs[i] = [kit.frames[i] EXCEPT !.event = g]
    BY <1>0, <1>1
  <2> HIDE DEF fs
  <2> QED
    BY <1>0, <2>1, <2>2, NotifiesSame
<1> HIDE DEF fs
<1>8. HandlersOf(r.frames) = HandlersOf(kit.frames) /\ r.frames \in Seq(Frame)
  <2>1. r.frames \in Seq(Frame)
    BY <1>4 DEF KInv, Sound, KitType
  <2> QED
    BY <1>0, <1>6, <1>7, <2>1, SameHandlers
<1>9. Alike(r, q) /\ Shape(q)
  BY <1>1, <1>6, PreserveAlike, ShapeAlike
<1> HIDE DEF q
<1>10. SeenAlike(r, q) /\ q.frames = r.frames
  BY <1>9, AlikeSeen
<1>11. SeenAlike(q, kit') /\ kit'.frames = Append(r.frames, f)
  BY <1>5, <1>9, <1>10, PushSeen
<1>12. SeenAlike(kit, kit')
  BY <1>6, <1>10, <1>11, SeenTrans
<1>13. HandlersOf(kit'.frames) = Append(HandlersOf(kit.frames), <<c, e>>)
  <2>1. IsHandler(f) /\ f.chan = c /\ f.event = e
    BY <1>1, NoneAssumption DEF f, ScriptFrame, IsHandler
  <2>2. HandlersOf(Append(r.frames, f)) = WithCall(HandlersOf(r.frames), f)
    BY <1>8, PushedCalls
  <2> QED
    BY <1>8, <1>11, <2>1, <2>2 DEF WithCall
<1>14. {d \in Channels : Opened(kit', d)} = {d \in Channels : Opened(kit, d)}
  BY <1>12 DEF SeenAlike
<1>15. [d \in Channels |-> Interest(kit', d)] = [d \in Channels |-> Interest(kit, d)]
  BY <1>12 DEF SeenAlike
<1>16. /\ c \in {d \in Channels : Opened(kit, d)}
       /\ e \in [d \in Channels |-> Interest(kit, d)][c]
  BY <1>1, <1>3
<1>17. FE!Call(c, e)
  BY <1>13, <1>14, <1>15, <1>16 DEF FE!Call
<1> QED
  BY <1>1, <1>2, <1>17 DEF c, e

\* The script on top goes, from a state u that has the calls of this one.
LEMMA CallGone ==
  ASSUME KInv(kit), Top.kind = "script", Top.chan \in Channels,
         NEW u, Shape(u), u.frames \in Seq(Frame), SameCalls(kit.frames, u.frames)
  PROVE  LET v == Pop(TclChannelRelease(u, Top.chan))
             calls == HandlersOf(kit.frames)
         IN  /\ SeenAlike(u, v)
             /\ calls # <<>> /\ HandlersOf(v.frames) = Front(calls)
             /\ Last(calls) = <<Top.chan, Top.event>>
<1> DEFINE c == Top.chan
           e == Top.event
           r == TclChannelRelease(u, c)
           v == Pop(r)
           n == Len(kit.frames)
           calls == HandlersOf(kit.frames)
           rest == HandlersOf(Front(u.frames))
<1>0. /\ kit.frames \in Seq(Frame) /\ n \in Nat \ {0} /\ kit.frames # <<>>
      /\ Top = kit.frames[n] /\ Top \in Frame
  BY KitFacts, Popped
<1>1. c \in Channels /\ e \in Events \cup {None} /\ IsHandler(Top)
  BY <1>0, NoneAssumption DEF IsHandler, Frame
<1> HIDE DEF c, e
<1>2. Alike(u, r) /\ Shape(r)
  BY <1>1, ReleaseAlike, ShapeAlike
<1> HIDE DEF r
<1>3. SeenAlike(u, r) /\ r.frames = u.frames
  BY <1>2, AlikeSeen
<1>4. SeenAlike(r, v) /\ v.frames = Front(u.frames)
  BY <1>2, <1>3, PopSeen
<1> HIDE DEF v
<1>5. SeenAlike(u, v)
  BY <1>3, <1>4, SeenTrans
<1>6. Len(u.frames) = n /\ u.frames # <<>> /\ Last(u.frames) = u.frames[n]
  <2>1. Len(u.frames) = n
    BY DEF SameCalls
  <2>2. u.frames # <<>>
    BY <1>0, <2>1
  <2> QED
    BY <2>1, <2>2, Popped
<1>7. SameCall(Top, Last(u.frames))
  BY <1>0, <1>6 DEF SameCalls
<1>8. HandlersOf(u.frames) = Append(rest, <<c, e>>)
  <2>1. HandlersOf(u.frames) = WithCall(rest, Last(u.frames))
    BY <1>6, PoppedCalls
  <2> QED
    BY <1>1, <1>7, <2>1 DEF WithCall, SameCall, c, e
<1>9. HandlersOf(u.frames) = calls
  BY <1>0, SameHandlers
<1>10. rest \in Calls
  <2>1. Front(u.frames) \in Seq(Frame)
    BY <1>6, DropLast
  <2> QED
    BY <2>1, HandlersType
<1> HIDE DEF rest, calls
<1>11. calls # <<>> /\ Front(calls) = rest /\ Last(calls) = <<c, e>>
  <2> DEFINE S == (Channels \cup {None}) \X (Events \cup {None})
             call == <<c, e>>
  <2>1. call \in S /\ rest \in Seq(S)
    BY <1>1, <1>10 DEF Calls
  <2>2. calls = Append(rest, call)
    BY <1>8, <1>9
  <2> HIDE DEF S, call
  <2>3. calls # <<>> /\ Front(calls) = rest /\ Last(calls) = call
    BY ONLY <2>1, <2>2, CallEnded
  <2> QED
    BY <2>3 DEF call
<1>12. HandlersOf(v.frames) = rest
  BY <1>4 DEF rest
<1> QED
  BY <1>5, <1>11, <1>12 DEF calls, v, r, c, e

LEMMA ReturnStep ==
  ASSUME KInv(kit), HandlerReturns
  PROVE  FE!Return
<1>0. Shape(kit) /\ kit.frames \in Seq(Frame)
  BY KitFacts
<1>1. /\ Top.kind = "script" /\ Top.chan \in Channels
      /\ kit' = Pop(TclChannelRelease(kit, Top.chan))
  BY TopFacts DEF HandlerReturns, Command, Running
<1>2. SameCalls(kit.frames, kit.frames)
  BY DEF SameCalls, SameCall
<1> DEFINE calls == HandlersOf(kit.frames)
<1>3. /\ SeenAlike(kit, kit')
      /\ calls # <<>> /\ HandlersOf(kit'.frames) = Front(calls)
  BY <1>0, <1>1, <1>2, CallGone
<1>4. {d \in Channels : Opened(kit', d)} = {d \in Channels : Opened(kit, d)}
  BY <1>3 DEF SeenAlike
<1>5. [d \in Channels |-> Interest(kit', d)] = [d \in Channels |-> Interest(kit, d)]
  BY <1>3 DEF SeenAlike
<1> QED
  BY <1>3, <1>4, <1>5 DEF FE!Return, Front, FE!Front

LEMMA FailStep ==
  ASSUME KInv(kit), HandlerFails
  PROVE  FE!Fail
<1> DEFINE c == Top.chan
           e == Top.event
           u == IF Opened(kit, c) THEN Tcl_DeleteChannelHandler(kit, c, e) ELSE kit
<1>0. Shape(kit) /\ Sound(kit) /\ kit.frames \in Seq(Frame)
  BY KitFacts
<1>1. /\ Top.kind = "script" /\ c \in Channels
      /\ kit' = Pop(TclChannelRelease(u, c))
  BY TopFacts DEF HandlerFails, Command, Running
<1>2. /\ Shape(u) /\ SameCalls(kit.frames, u.frames)
      /\ \A d \in Channels :
           /\ Opened(u, d) <=> Opened(kit, d)
           /\ Interest(u, d) = IF d = c THEN Interest(kit, c) \ {e}
                                        ELSE Interest(kit, d)
  <2>1. CASE Opened(kit, c)
    BY <1>0, <1>1, <2>1, UnsetHandlerSeen
  <2>2. CASE ~Opened(kit, c)
    <3>1. Interest(kit, c) = {}
      BY <1>0, <1>1, <2>2, InterestOf
    <3>2. SameCalls(kit.frames, kit.frames)
      BY DEF SameCalls, SameCall
    <3> QED
      BY <1>0, <2>2, <3>1, <3>2
  <2> QED
    BY <2>1, <2>2
<1>3. u.frames \in Seq(Frame)
  <2>1. KInvBut(kit, c, 0) /\ (Quiet(kit, c) => ArmedFor(kit, c))
    BY <1>1, KInvParts
  <2>2. KInvBut(Tcl_DeleteChannelHandler(kit, c, e), c, 0)
    BY <1>1, <2>1, UnsetHandlerKeeps
  <2>3. Tcl_DeleteChannelHandler(kit, c, e).frames \in Seq(Frame)
    BY <2>2 DEF KInvBut, Sound, KitType
  <2> QED
    BY <1>0, <2>3
<1> HIDE DEF u
<1> DEFINE calls == HandlersOf(kit.frames)
           set == [d \in Channels |-> Interest(kit, d)]
<1>4. /\ SeenAlike(u, kit')
      /\ calls # <<>> /\ HandlersOf(kit'.frames) = Front(calls)
      /\ Last(calls) = <<c, e>>
  BY <1>1, <1>2, <1>3, CallGone
<1>5. {d \in Channels : Opened(kit', d)} = {d \in Channels : Opened(kit, d)}
  BY <1>2, <1>4 DEF SeenAlike
<1> HIDE DEF calls, c, e
<1>6. [d \in Channels |-> Interest(kit', d)] = [set EXCEPT ![c] = @ \ {e}]
  BY <1>2, <1>4 DEF SeenAlike
<1>7. Last(calls)[1] = c /\ Last(calls)[2] = e
  BY <1>4
<1>8. [d \in Channels |-> Interest(kit', d)]
        = [set EXCEPT ![Last(calls)[1]] = @ \ {Last(calls)[2]}]
  BY <1>6, <1>7
<1> QED
  BY <1>4, <1>5, <1>8 DEF FE!Fail, calls, Front, FE!Front, Last, FE!Last

LEMMA CallsStep == IInv /\ [Next]_vars => [FE!Next]_(FE!vars)
<1> SUFFICES ASSUME IInv, [Next]_vars
             PROVE  FE!Next \/ UNCHANGED FE!vars
  OBVIOUS
<1>0. KInv(kit)
  BY DEF IInv
<1>1. CASE Script
  <2>1. ASSUME NEW c \in Channels, cmd_rechan(c)
        PROVE  FE!Next
    BY <1>0, <2>1, OpenStep DEF FE!Next
  <2>2. ASSUME NEW c \in Channels, Close(c)
        PROVE  FE!Next
    BY <1>0, <2>2, CloseStep DEF FE!Next
  <2>3. ASSUME NEW c \in Channels, NEW e \in Events, SetHandler(c, e)
        PROVE  FE!Next
    BY <1>0, <2>3, SetStep DEF FE!Next
  <2>4. ASSUME NEW c \in Channels, NEW e \in Events, UnsetHandler(c, e)
        PROVE  FE!Next
    BY <1>0, <2>4, UnsetStep DEF FE!Next
  <2>5. ASSUME NEW c \in Channels, Reconfigure(c)
        PROVE  UNCHANGED FE!vars
    BY <1>0, <2>5, CommandShows, ShowsStutter
  <2>6. ASSUME NEW c \in Channels, NEW got, NEW left, NEW more, Read(c, got, left, more)
        PROVE  UNCHANGED FE!vars
    BY <1>0, <2>6, CommandShows, ShowsStutter
  <2>7. ASSUME NEW c \in Channels, NEW accepted, Seek(c, accepted) \/ Write(c, accepted)
        PROVE  UNCHANGED FE!vars
    BY <1>0, <2>7, CommandShows, ShowsStutter
  <2>8. ASSUME NEW kind \in {"update", "vwait"}, EnterLoop(kind)
        PROVE  UNCHANGED FE!vars
    BY <1>0, <2>8, LoopEntered, ShowsStutter
  <2> QED
    BY <1>1, <2>1, <2>2, <2>3, <2>4, <2>5, <2>6, <2>7, <2>8 DEF Script
<1>2. CASE HandlerReturns
  BY <1>0, <1>2, ReturnStep DEF FE!Next
<1>3. CASE HandlerFails
  BY <1>0, <1>3, FailStep DEF FE!Next
<1>4. CASE NotifyCalls
  BY <1>0, <1>4, CallStep DEF FE!Next
<1>5. CASE ServiceEvent \/ TimerCheckProc \/ UpdateEnds \/ Tick
  BY <1>0, <1>5, LoopShows, ShowsStutter
<1>6. CASE FireRechan \/ FireChannel
  BY <1>0, <1>6, FireShows, ShowsStutter
<1>7. ASSUME NEW done \in BOOLEAN, PassEnds(done)
      PROVE  UNCHANGED FE!vars
  BY <1>0, <1>7, PassShows, ShowsStutter
<1>8. CASE NotifySkips \/ NotifyEnds
  BY <1>0, <1>8, NotifyShows, ShowsStutter
<1>9. CASE UNCHANGED vars
  <2>1. kit' = kit
    BY <1>9 DEF vars
  <2>2. Shows(kit, kit)
    BY DEF Shows, SeenAlike
  <2> QED
    BY <2>1, <2>2, ShowsStutter
<1> QED
  BY <1>1, <1>2, <1>3, <1>4, <1>5, <1>6, <1>7, <1>8, <1>9 DEF Next, Machine

\* Whatever the driver, the timers and the loops do, the scripts see what
\* fileevent(n) promises: a handler is called only while it is set and its channel
\* open, a closed channel has none, and the calls return in reverse order, each
\* with its handler unset or not (tclIO.c:8339-8476 and 8733-9010).
THEOREM CallsKept == Spec => CallsAsPromised
<1>1. Init => FE!Init
  <2> SUFFICES ASSUME Init PROVE FE!Init
    OBVIOUS
  <2>1. kit.frames = <<ScriptFrame(None, None)>> /\ KInv(kit)
    BY InitIInv DEF Init, IInv
  <2>2. \A c \in Channels : kit.chan[c] = Absent
    BY DEF Init
  <2>3. \A c \in Channels : ~Opened(kit, c) /\ Interest(kit, c) = {}
    BY <2>2 DEF Absent, Opened, Interest, ToSet
  <2>4. HandlersOf(kit.frames) = <<>>
    <3>1. kit.frames = Append(<<>>, ScriptFrame(None, None)) /\ <<>> \in Seq(Frame)
      BY <2>1
    <3>2. ~IsHandler(ScriptFrame(None, None))
      BY DEF IsHandler, ScriptFrame
    <3> QED
      BY <3>1, <3>2, PushedCalls, NoCalls DEF WithCall
  <2>5. {c \in Channels : Opened(kit, c)} = {}
    BY <2>3
  <2>6. [c \in Channels |-> Interest(kit, c)] = [c \in Channels |-> {}]
    BY <2>3
  <2> QED
    BY <2>4, <2>5, <2>6 DEF FE!Init
<1> QED
  BY <1>1, CallsStep, Invariance, PTL DEF Spec, CallsAsPromised, FE!Spec
=============================================================================
