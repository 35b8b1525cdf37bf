------------------------- MODULE JoinLines_proofs --------------------------
(***************************************************************************)
(* Lemmas about the operators of JoinSeed, none about its steps: what      *)
(* reading a sequence of lines comes to.                                   *)
(*                                                                         *)
(* Runs: R gives what each line may do to a number; Runs(R, a, lines, b)   *)
(* says that reading the lines takes a to b.  Sums (Worth), a bit that is  *)
(* set and cleared in turn (Bits) and an assembler that takes the parts of *)
(* a row in turn (Turns) are the three uses of it.                         *)
(* Lines: those of an inbox, those of a set of rows, a peer's stream.      *)
(* Arrays: rows applied and deleted, with tombstones and a park.           *)
(***************************************************************************)
EXTENDS JoinSeed, FiniteSetTheorems, WellFoundedInduction, TLAPS

-----------------------------------------------------------------------------
(* Counting up.                                                            *)

\* What holds of 0, and of n + 1 when it does of n, holds of all up to a bound.
LEMMA CountUp ==
  ASSUME NEW m \in Nat, NEW P \in SUBSET (0..m), 0 \in P,
         \A n \in 0..m : n \in P /\ n < m => n + 1 \in P
  PROVE  P = 0..m
<1> DEFINE T == (0..m) \ P
<1>1. SUFFICES ASSUME T # {} PROVE FALSE
  OBVIOUS
<1>2. IsWellFoundedOn(OpToRel(<, Nat), Nat)
  BY NatLessThanWellFounded
<1>3. T \subseteq Nat
  OBVIOUS
<1>4. PICK x \in T : \A y \in T : ~(<<y, x>> \in OpToRel(<, Nat))
  <2> HIDE DEF T
  <2> QED BY <1>1, <1>2, <1>3, WFMin
<1>5. \A y \in T : ~(y < x)
  BY <1>3, <1>4 DEF OpToRel
<1>6. x # 0 /\ x - 1 \in 0..m /\ x - 1 < x /\ x - 1 < m /\ x = (x - 1) + 1
  <2>1. x \in 0..m /\ x \notin P
    BY <1>4
  <2>2. x # 0
    BY <2>1
  <2> QED BY <2>1, <2>2
<1>7. x - 1 \in P
  BY <1>5, <1>6
<1> QED BY <1>4, <1>6, <1>7

\* A function that is given by its first value and a step for each argument.
StepsIn(S, n, h) == n \in Nat /\ h \in [1..n -> [S -> S]]

LEMMA Stepwise ==
  ASSUME NEW S, NEW b \in S, NEW n, NEW h, StepsIn(S, n, h)
  PROVE  \E f \in [0..n -> S] : f[0] = b /\ \A i \in 1..n : f[i] = h[i][f[i - 1]]
<1>0. n \in Nat /\ h \in [1..n -> [S -> S]]
  BY DEF StepsIn
<1> USE <1>0
<1> DEFINE Good(k, f) == \A i \in 0..k : f[i] = IF i = 0 THEN b ELSE h[i][f[i - 1]]
           P == {k \in 0..n : \E f \in [0..n -> S] : Good(k, f)}
<1>1. 0 \in P
  <2>1. [i \in 0..n |-> b] \in [0..n -> S] /\ Good(0, [i \in 0..n |-> b])
    OBVIOUS
  <2>2. 0 \in 0..n
    OBVIOUS
  <2> HIDE DEF Good
  <2> QED BY <2>1, <2>2
<1>2. ASSUME NEW k \in 0..n, k \in P, k < n PROVE k + 1 \in P
  <2>1. PICK f \in [0..n -> S] : Good(k, f)
    BY <1>2
  <2> DEFINE g == [f EXCEPT ![k + 1] = h[k + 1][f[k]]]
  <2>2. k + 1 \in 1..n /\ k + 1 \in 0..n /\ k \in 0..n
    BY <1>2
  <2>3. h[k + 1][f[k]] \in S
    BY <2>1, <2>2
  <2>4. g \in [0..n -> S] /\ g[k + 1] = h[k + 1][f[k]] /\ \A i \in 0..k : g[i] = f[i]
    BY <2>1, <2>2, <2>3
  <2> HIDE DEF g
  <2>5. ASSUME NEW i \in 0..k + 1 PROVE g[i] = IF i = 0 THEN b ELSE h[i][g[i - 1]]
    <3>1. CASE i = k + 1
      <4>1. i # 0 /\ i - 1 = k /\ k \in 0..k
        BY <1>2, <3>1
      <4> QED BY <2>4, <3>1, <4>1
    <3>2. CASE i # k + 1
      <4>1. i \in 0..k /\ (i # 0 => i - 1 \in 0..k)
        BY <1>2, <3>2
      <4> QED BY <2>1, <2>4, <4>1
    <3> QED BY <3>1, <3>2
  <2>6. Good(k + 1, g)
    BY <2>5
  <2> HIDE DEF Good
  <2> QED BY <2>2, <2>4, <2>6
<1>3. P = 0..n
  <2> HIDE DEF P
  <2> P \in SUBSET (0..n)
    BY DEF P
  <2> QED BY <1>1, <1>2, CountUp
<1>4. n \in P
  <2> HIDE DEF P
  <2> QED BY <1>3
<1>5. PICK f \in [0..n -> S] : Good(n, f)
  BY <1>4
<1>6. f[0] = b /\ \A i \in 1..n : f[i] = h[i][f[i - 1]]
  <2>1. 0 \in 0..n /\ \A i \in 1..n : i \in 0..n /\ i # 0
    OBVIOUS
  <2> QED BY <1>5, <2>1
<1> QED BY <1>5, <1>6

-----------------------------------------------------------------------------
(* Runs: what reading a sequence does to a number, R giving each step.     *)

Runs(R, a, s, b) ==
  \E g \in [0..Len(s) -> Int] :
    /\ g[0] = a /\ g[Len(s)] = b
    /\ \A i \in 1..Len(s) : <<g[i - 1], s[i], g[i]>> \in R

LEMMA JoinShape ==
  ASSUME NEW T, NEW s \in Seq(T), NEW t \in Seq(T)
  PROVE  /\ s \o t \in Seq(T)
         /\ Len(s) \in Nat /\ Len(t) \in Nat /\ Len(s \o t) = Len(s) + Len(t)
         /\ \A i \in 1..Len(s) : (s \o t)[i] = s[i]
         /\ \A i \in 1..Len(t) : (s \o t)[Len(s) + i] = t[i]
OBVIOUS

\* An element at the end is a sequence of one.
LEMMA AppendJoins ==
  ASSUME NEW T, NEW s \in Seq(T), NEW x \in T
  PROVE  Append(s, x) = s \o <<x>> /\ <<x>> \in Seq(T) /\ Append(s, x) \in Seq(T)
OBVIOUS

LEMMA HeadJoins ==
  ASSUME NEW T, NEW s \in Seq(T), s # <<>>
  PROVE  /\ s = <<s[1]>> \o Tail(s) /\ Head(s) = s[1]
         /\ s[1] \in T /\ <<s[1]>> \in Seq(T) /\ Tail(s) \in Seq(T)
OBVIOUS

LEMMA HeadOfJoin ==
  ASSUME NEW T, NEW s \in Seq(T), NEW t \in Seq(T), s # <<>>
  PROVE  /\ s \o t # <<>> /\ (s \o t)[1] = s[1] /\ Tail(s \o t) = Tail(s) \o t
OBVIOUS

LEMMA EmptyJoins ==
  ASSUME NEW T, NEW s \in Seq(T)
  PROVE  <<>> \o s = s /\ s \o <<>> = s /\ <<>> \in Seq(T)
OBVIOUS

LEMMA JoinAssoc ==
  ASSUME NEW T, NEW s \in Seq(T), NEW t \in Seq(T), NEW u \in Seq(T)
  PROVE  (s \o t) \o u = s \o (t \o u)
OBVIOUS

LEMMA RunsIdle ==
  ASSUME NEW T, NEW s \in Seq(T), NEW R, NEW a \in Int,
         \A i \in 1..Len(s) : <<a, s[i], a>> \in R
  PROVE  Runs(R, a, s, a)
<1> DEFINE g == [i \in 0..Len(s) |-> a]
<1>1. Len(s) \in Nat
  OBVIOUS
<1>2. g \in [0..Len(s) -> Int] /\ \A i \in 0..Len(s) : g[i] = a
  OBVIOUS
<1>3. 0 \in 0..Len(s) /\ Len(s) \in 0..Len(s)
      /\ \A i \in 1..Len(s) : i \in 0..Len(s) /\ i - 1 \in 0..Len(s)
  BY <1>1
<1> HIDE DEF g
<1> QED BY <1>2, <1>3 DEF Runs

LEMMA RunsNone ==
  ASSUME NEW R, NEW a \in Int
  PROVE  Runs(R, a, <<>>, a) /\ \A b : Runs(R, a, <<>>, b) => b = a
<1>1. <<>> \in Seq({}) /\ Len(<<>>) = 0 /\ 1..0 = {}
  OBVIOUS
<1>2. Runs(R, a, <<>>, a)
  BY <1>1, RunsIdle
<1>3. \A b : Runs(R, a, <<>>, b) => b = a
  BY <1>1 DEF Runs
<1> QED BY <1>2, <1>3

LEMMA RunsOne ==
  ASSUME NEW R, NEW a \in Int, NEW b \in Int, NEW x
  PROVE  Runs(R, a, <<x>>, b) <=> <<a, x, b>> \in R
<1> DEFINE s == <<x>>
           g == [i \in 0..1 |-> IF i = 0 THEN a ELSE b]
<1>1. Len(s) = 1 /\ s[1] = x /\ 1 - 1 = 0 /\ \A i \in 1..1 : i = 1
  OBVIOUS
<1>2. g \in [0..1 -> Int] /\ g[0] = a /\ g[1] = b
  OBVIOUS
<1>3. 1 \in 1..1
  OBVIOUS
<1> HIDE DEF s, g
<1>4. Runs(R, a, s, b) <=> <<a, x, b>> \in R
  BY <1>1, <1>2, <1>3 DEF Runs
<1> QED BY <1>4 DEF s

LEMMA RunsEnds ==
  ASSUME NEW T, NEW s \in Seq(T), NEW R, NEW a, NEW b, Runs(R, a, s, b)
  PROVE  a \in Int /\ b \in Int
<1>1. 0 \in 0..Len(s) /\ Len(s) \in 0..Len(s)
  OBVIOUS
<1> QED BY <1>1 DEF Runs

LEMMA RunsMore ==
  ASSUME NEW T, NEW s \in Seq(T), NEW R, NEW Q, R \subseteq Q,
         NEW a, NEW b, Runs(R, a, s, b)
  PROVE  Runs(Q, a, s, b)
BY DEF Runs

LEMMA RunsChain ==
  ASSUME NEW T, NEW s \in Seq(T), NEW t \in Seq(T), NEW R,
         NEW a, NEW b, NEW c, Runs(R, a, s, b), Runs(R, b, t, c)
  PROVE  Runs(R, a, s \o t, c)
<1> DEFINE k == Len(s)
           l == Len(t)
           w == s \o t
<1>1. /\ k \in Nat /\ l \in Nat /\ Len(w) = k + l
      /\ \A i \in 1..k : w[i] = s[i]
      /\ \A i \in 1..l : w[k + i] = t[i]
  BY JoinShape
<1>2. PICK g \in [0..k -> Int] : /\ g[0] = a /\ g[k] = b
                                 /\ \A i \in 1..k : <<g[i - 1], s[i], g[i]>> \in R
  BY DEF Runs
<1>3. PICK h \in [0..l -> Int] : /\ h[0] = b /\ h[l] = c
                                 /\ \A i \in 1..l : <<h[i - 1], t[i], h[i]>> \in R
  BY DEF Runs
<1> HIDE DEF k, l, w
<1> DEFINE f == [i \in 0..k + l |-> IF i <= k THEN g[i] ELSE h[i - k]]
<1>4. f \in [0..k + l -> Int]
  BY <1>1
<1>5. \A i \in 0..k : f[i] = g[i]
  BY <1>1
<1>6. \A i \in 0..l : f[k + i] = h[i]
  <2> SUFFICES ASSUME NEW i \in 0..l PROVE f[k + i] = h[i]
    OBVIOUS
  <2>1. CASE i = 0
    BY <1>1, <1>2, <1>3, <2>1
  <2>2. CASE i # 0
    <3>1. k + i \in 0..k + l /\ ~(k + i <= k) /\ (k + i) - k = i
      BY <1>1, <2>2
    <3> QED BY <3>1
  <2> QED BY <2>1, <2>2
<1> HIDE DEF f
<1>7. f[0] = a /\ f[k + l] = c
  <2>1. 0 \in 0..k /\ l \in 0..l
    BY <1>1
  <2> QED BY <1>2, <1>3, <1>5, <1>6, <2>1
<1>8. ASSUME NEW i \in 1..k + l PROVE <<f[i - 1], w[i], f[i]>> \in R
  <2>1. CASE i \in 1..k
    <3>1. i \in 0..k /\ i - 1 \in 0..k
      BY <1>1, <2>1
    <3> QED BY <1>1, <1>2, <1>5, <2>1, <3>1
  <2>2. CASE i \notin 1..k
    <3> DEFINE j == i - k
    <3>1. j \in 1..l /\ k + j = i /\ j - 1 \in 0..l /\ j \in 0..l /\ k + (j - 1) = i - 1
      BY <1>1, <2>2
    <3> HIDE DEF j
    <3>2. w[i] = t[j] /\ f[i] = h[j] /\ f[i - 1] = h[j - 1]
      BY <1>1, <1>6, <3>1
    <3> QED BY <1>3, <3>1, <3>2
  <2> QED BY <2>1, <2>2
<1>9. Runs(R, a, w, c)
  BY <1>1, <1>4, <1>7, <1>8 DEF Runs
<1> QED BY <1>9 DEF w

LEMMA RunsTail ==
  ASSUME NEW T, NEW s \in Seq(T), s # <<>>, NEW R, NEW a, NEW b, Runs(R, a, s, b)
  PROVE  \E c \in Int : <<a, s[1], c>> \in R /\ Runs(R, c, Tail(s), b)
<1> DEFINE k == Len(s)
           u == Tail(s)
<1>1. k \in Nat \ {0} /\ Len(u) = k - 1 /\ \A i \in 1..k - 1 : u[i] = s[i + 1]
  OBVIOUS
<1>2. PICK g \in [0..k -> Int] : /\ g[0] = a /\ g[k] = b
                                 /\ \A i \in 1..k : <<g[i - 1], s[i], g[i]>> \in R
  BY DEF Runs
<1> HIDE DEF k, u
<1> DEFINE f == [i \in 0..k - 1 |-> g[i + 1]]
<1>3. f \in [0..k - 1 -> Int] /\ \A i \in 0..k - 1 : f[i] = g[i + 1]
  BY <1>1
<1> HIDE DEF f
<1>4. f[0] = g[1] /\ f[k - 1] = b /\ g[1] \in Int /\ <<a, s[1], g[1]>> \in R
  <2>1. 0 \in 0..k - 1 /\ k - 1 \in 0..k - 1 /\ (k - 1) + 1 = k /\ 0 + 1 = 1
        /\ 1 \in 1..k /\ 1 - 1 = 0 /\ 1 \in 0..k
    BY <1>1
  <2> QED BY <1>2, <1>3, <2>1
<1>5. ASSUME NEW i \in 1..k - 1 PROVE <<f[i - 1], u[i], f[i]>> \in R
  <2>1. i \in 0..k - 1 /\ i - 1 \in 0..k - 1 /\ (i - 1) + 1 = i /\ i + 1 \in 1..k
        /\ (i + 1) - 1 = i
    BY <1>1
  <2>2. f[i - 1] = g[i] /\ f[i] = g[i + 1] /\ u[i] = s[i + 1]
    BY <1>1, <1>3, <2>1
  <2> QED BY <1>2, <2>1, <2>2
<1>6. Runs(R, g[1], u, b)
  BY <1>1, <1>3, <1>4, <1>5 DEF Runs
<1> QED BY <1>4, <1>6 DEF u

-----------------------------------------------------------------------------
(* What lines add.                                                         *)

\* The lines, with what stands for the other messages of an inbox.
AnyLine == Line \cup {NoLine}

LEMMA Fields ==
  /\ \A line \in Line : /\ line.row \in Rows /\ line.part \in 1..Parts
                        /\ line.op \in {"row", "delete", "part"}
                        /\ line.op # "part" => line.part = 1
  /\ NoLine.op = "none" /\ NoLine.part = 0
  /\ Parts \in Nat \ {0} /\ Line \subseteq AnyLine /\ NoLine \in AnyLine
<1>1. Parts \in Nat \ {0}
  BY RowsAssumption
<1> QED BY <1>1 DEF Line, NoLine, AnyLine

LEMMA WorthType ==
  ASSUME NEW line \in AnyLine, NEW r
  PROVE  Worth(line, r) \in {-1, 0, 1} /\ Worth(NoLine, r) = 0
<1>1. NoLine.op = "none" /\ NoLine.part = 0 /\ Parts # 0
  BY Fields
<1> QED BY <1>1 DEF Worth

\* Steps of a sum, of a bit that is set and cleared, and of an assembler that
\* takes the parts in turn but for the rows of S.
Sums(r) == {t \in Int \X AnyLine \X Int : t[3] = t[1] + Worth(t[2], r)}
Bits(r) == {t \in (0..1) \X AnyLine \X (0..1) : t[3] = t[1] + Worth(t[2], r)}

After(n, line) == IF line.op = "part" THEN Assembled(n, line) ELSE n
Turns(S) ==
  {t \in Int \X AnyLine \X Int :
     /\ t[3] = After(t[1], t[2])
     /\ t[2].op = "part" /\ t[2].row \notin S => InTurn(t[1], t[2])}

LEMMA SumsDef ==
  ASSUME NEW r, NEW a, NEW line, NEW b
  PROVE  <<a, line, b>> \in Sums(r)
           <=> a \in Int /\ line \in AnyLine /\ b \in Int /\ b = a + Worth(line, r)
BY DEF Sums

LEMMA BitsDef ==
  ASSUME NEW r, NEW a, NEW line, NEW b
  PROVE  <<a, line, b>> \in Bits(r)
           <=> a \in 0..1 /\ line \in AnyLine /\ b \in 0..1 /\ b = a + Worth(line, r)
BY DEF Bits

LEMMA TurnsDef ==
  ASSUME NEW S, NEW a, NEW line, NEW b
  PROVE  <<a, line, b>> \in Turns(S)
           <=> /\ a \in Int /\ line \in AnyLine /\ b \in Int /\ b = After(a, line)
               /\ line.op = "part" /\ line.row \notin S => InTurn(a, line)
BY DEF Turns

LEMMA BitsAreSums ==
  ASSUME NEW r PROVE Bits(r) \subseteq Sums(r)
BY DEF Bits, Sums

LEMMA TurnsGrow ==
  ASSUME NEW S, NEW T, S \subseteq T PROVE Turns(S) \subseteq Turns(T)
BY DEF Turns

\* How often x is among the first n, and what these add.
Times(d, n, x) == Cardinality({i \in 1..n : d[i] = x})
TallyTo(d, n) == Times(d, n, 1) - Times(d, n, -1)

LEMMA CountTo ==
  ASSUME NEW d, NEW n \in Nat, NEW x
  PROVE  /\ Times(d, n, x) \in Nat /\ Times(d, 0, x) = 0
         /\ Times(d, n + 1, x) = Times(d, n, x) + IF d[n + 1] = x THEN 1 ELSE 0
<1> DEFINE S == {i \in 1..n : d[i] = x}
           T == {i \in 1..n + 1 : d[i] = x}
<1>1. IsFiniteSet(1..n)
  BY FS_Interval
<1>2. IsFiniteSet(S)
  <2> S \subseteq 1..n
    OBVIOUS
  <2> QED BY <1>1, FS_Subset
<1>3. Cardinality(S) \in Nat
  <2> HIDE DEF S
  <2> QED BY <1>2, FS_CardinalityType
<1>4. Cardinality(T) = Cardinality(S) + IF d[n + 1] = x THEN 1 ELSE 0
  <2>1. CASE d[n + 1] = x
    <3>1. T = S \cup {n + 1} /\ n + 1 \notin S
      BY <2>1
    <3> HIDE DEF S, T
    <3>2. Cardinality(T) = Cardinality(S) + 1
      BY <1>2, <3>1, FS_AddElement
    <3> QED BY <2>1, <3>2
  <2>2. CASE d[n + 1] # x
    <3>1. T = S
      BY <2>2
    <3> HIDE DEF S, T
    <3> QED BY <1>3, <2>2, <3>1
  <2> QED BY <2>1, <2>2
<1>5. {i \in 1..0 : d[i] = x} = {}
  OBVIOUS
<1> QED BY <1>3, <1>4, <1>5, FS_EmptySet DEF Times

LEMMA TallySteps ==
  ASSUME NEW d, NEW n \in Nat
  PROVE  /\ TallyTo(d, n) \in Int /\ TallyTo(d, 0) = 0
         /\ d[n + 1] \in {-1, 0, 1} => TallyTo(d, n + 1) = TallyTo(d, n) + d[n + 1]
<1>1. \A x : /\ Times(d, n, x) \in Nat /\ Times(d, 0, x) = 0
             /\ Times(d, n + 1, x) = Times(d, n, x) + IF d[n + 1] = x THEN 1 ELSE 0
  BY CountTo
<1>2. ASSUME d[n + 1] \in {-1, 0, 1}
      PROVE  TallyTo(d, n + 1) = TallyTo(d, n) + d[n + 1]
  <2>1. Times(d, n, 1) \in Nat /\ Times(d, n, -1) \in Nat
    BY <1>1
  <2>2. Times(d, n + 1, 1) = Times(d, n, 1) + IF d[n + 1] = 1 THEN 1 ELSE 0
    BY <1>1
  <2>3. Times(d, n + 1, -1) = Times(d, n, -1) + IF d[n + 1] = -1 THEN 1 ELSE 0
    BY <1>1
  <2> QED BY <1>2, <2>1, <2>2, <2>3 DEF TallyTo
<1>3. TallyTo(d, n) \in Int /\ TallyTo(d, 0) = 0
  <2>1. Times(d, n, 1) \in Nat /\ Times(d, n, -1) \in Nat
    BY <1>1
  <2>2. Times(d, 0, 1) = 0 /\ Times(d, 0, -1) = 0
    BY <1>1
  <2> QED BY <2>1, <2>2 DEF TallyTo
<1> QED BY <1>2, <1>3

LEMMA PendingTo ==
  ASSUME NEW s \in Seq(AnyLine), NEW r
  PROVE  /\ Pending(s, r) = TallyTo(Worths(s, r), Len(s))
         /\ \A i \in 1..Len(s) : Worths(s, r)[i] = Worth(s[i], r)
         /\ \A i \in 1..Len(s) : s[i] \in AnyLine /\ Worths(s, r)[i] \in {-1, 0, 1}
<1>1. DOMAIN s = 1..Len(s) /\ Len(s) \in Nat /\ \A i \in 1..Len(s) : s[i] \in AnyLine
  OBVIOUS
<1>2. DOMAIN Worths(s, r) = 1..Len(s) /\ \A i \in 1..Len(s) : Worths(s, r)[i] = Worth(s[i], r)
  BY <1>1 DEF Worths
<1>3. Pending(s, r) = TallyTo(Worths(s, r), Len(s))
  BY <1>2 DEF Pending, Tally, TallyTo, Times
<1> QED BY <1>1, <1>2, <1>3, WorthType

\* A sum runs to what is pending, and nowhere else.
LEMMA SumIsPending ==
  ASSUME NEW s \in Seq(AnyLine), NEW r, NEW a \in Int
  PROVE  /\ Runs(Sums(r), a, s, a + Pending(s, r)) /\ Pending(s, r) \in Int
         /\ \A b : Runs(Sums(r), a, s, b) => b = a + Pending(s, r)
<1> DEFINE l == Len(s)
           w == Worths(s, r)
           g == [i \in 0..l |-> a + TallyTo(w, i)]
<1>1. l \in Nat /\ \A i \in 1..l : i - 1 \in Nat /\ (i - 1) + 1 = i /\ i - 1 \in 0..l /\ i \in 0..l
  OBVIOUS
<1>2. \A i \in 1..l : w[i] = Worth(s[i], r) /\ s[i] \in AnyLine /\ w[i] \in {-1, 0, 1}
  BY PendingTo
<1>3. Pending(s, r) = TallyTo(w, l)
  BY PendingTo
<1> HIDE DEF l, w
<1>4. \A i \in Nat : TallyTo(w, i) \in Int
  BY TallySteps
<1>5. TallyTo(w, 0) = 0
  BY TallySteps
<1>6. \A i \in 1..l : TallyTo(w, i) = TallyTo(w, i - 1) + Worth(s[i], r)
  <2> TAKE i \in 1..l
  <2>1. i - 1 \in Nat /\ (i - 1) + 1 = i /\ w[i] \in {-1, 0, 1} /\ w[i] = Worth(s[i], r)
    BY <1>1, <1>2
  <2> QED BY <2>1, TallySteps
<1>7. g \in [0..l -> Int] /\ \A i \in 0..l : g[i] = a + TallyTo(w, i)
  BY <1>4
<1> HIDE DEF g
<1>8. g[0] = a /\ g[l] = a + TallyTo(w, l)
  BY <1>1, <1>5, <1>7
<1>9. ASSUME NEW i \in 1..l PROVE <<g[i - 1], s[i], g[i]>> \in Sums(r)
  <2>1. g[i - 1] = a + TallyTo(w, i - 1) /\ g[i] = a + TallyTo(w, i)
    BY <1>1, <1>7
  <2>2. TallyTo(w, i - 1) \in Int /\ Worth(s[i], r) \in Int
    BY <1>1, <1>2, <1>4
  <2>3. g[i] = g[i - 1] + Worth(s[i], r) /\ g[i - 1] \in Int /\ g[i] \in Int
    BY <1>6, <2>1, <2>2
  <2> QED BY <1>2, <2>3, SumsDef
<1>10. Runs(Sums(r), a, s, a + Pending(s, r))
  BY <1>3, <1>7, <1>8, <1>9 DEF Runs, l
<1>11. ASSUME NEW b, Runs(Sums(r), a, s, b) PROVE b = a + Pending(s, r)
  <2>1. PICK h \in [0..l -> Int] : /\ h[0] = a /\ h[l] = b
                                   /\ \A i \in 1..l : <<h[i - 1], s[i], h[i]>> \in Sums(r)
    BY <1>11 DEF Runs, l
  <2>2. \A i \in 1..l : h[i] = h[i - 1] + Worth(s[i], r)
    BY <2>1, SumsDef
  <2> DEFINE P == {i \in 0..l : h[i] = a + TallyTo(w, i)}
  <2>3. 0 \in P
    BY <1>1, <1>5, <2>1
  <2>4. ASSUME NEW i \in 0..l, i \in P, i < l PROVE i + 1 \in P
    <3>1. i + 1 \in 1..l /\ (i + 1) - 1 = i /\ i + 1 \in 0..l /\ i \in Nat
      BY <1>1, <2>4
    <3>2. h[i + 1] = h[i] + Worth(s[i + 1], r)
      BY <2>2, <3>1
    <3>3. TallyTo(w, i + 1) = TallyTo(w, i) + Worth(s[i + 1], r)
      BY <1>6, <3>1
    <3>4. h[i] = a + TallyTo(w, i)
      BY <2>4
    <3>5. TallyTo(w, i) \in Int /\ Worth(s[i + 1], r) \in Int
      BY <1>2, <1>4, <3>1
    <3> QED BY <3>1, <3>2, <3>3, <3>4, <3>5
  <2>5. P = 0..l
    <3>1. P \in SUBSET (0..l)
      OBVIOUS
    <3> HIDE DEF P
    <3> QED BY <1>1, <2>3, <2>4, <3>1, CountUp
  <2> QED BY <1>1, <1>3, <2>1, <2>5
<1>12. Pending(s, r) \in Int
  BY <1>1, <1>3, <1>4
<1> QED BY <1>10, <1>11, <1>12

LEMMA SumsToPending ==
  ASSUME NEW s \in Seq(AnyLine), NEW r, NEW a \in Int, NEW b, Runs(Sums(r), a, s, b)
  PROVE  b = a + Pending(s, r) /\ Pending(s, r) \in Int
BY SumIsPending

LEMMA PendingJoin ==
  ASSUME NEW s \in Seq(AnyLine), NEW t \in Seq(AnyLine), NEW r
  PROVE  Pending(s \o t, r) = Pending(s, r) + Pending(t, r)
<1> DEFINE p == Pending(s, r)
           q == Pending(t, r)
<1>1. p \in Int /\ q \in Int /\ Runs(Sums(r), 0, s, 0 + p)
  BY SumIsPending
<1>2. 0 + p = p
  BY <1>1
<1>3. Runs(Sums(r), p, t, p + q)
  BY <1>1, SumIsPending
<1>4. Runs(Sums(r), 0, s \o t, p + q)
  <2> HIDE DEF p, q
  <2> QED BY <1>1, <1>2, <1>3, RunsChain
<1>5. s \o t \in Seq(AnyLine)
  OBVIOUS
<1>6. p + q = 0 + Pending(s \o t, r) /\ Pending(s \o t, r) \in Int
  <2>1. 0 \in Int
    OBVIOUS
  <2> QED BY <2>1, <1>4, <1>5, SumsToPending, Zenon
<1> QED BY <1>1, <1>6

LEMMA PendingNone ==
  ASSUME NEW r PROVE Pending(<<>>, r) = 0
<1>1. <<>> \in Seq(AnyLine)
  OBVIOUS
<1>2. Runs(Sums(r), 0, <<>>, 0)
  BY RunsNone
<1>3. 0 = 0 + Pending(<<>>, r) /\ Pending(<<>>, r) \in Int
  <2>1. 0 \in Int
    OBVIOUS
  <2> QED BY <2>1, <1>1, <1>2, SumsToPending, Zenon
<1> QED BY <1>3

LEMMA PendingOne ==
  ASSUME NEW line \in AnyLine, NEW r
  PROVE  Pending(<<line>>, r) = Worth(line, r) /\ Pending(<<line>>, r) \in Int
<1>1. <<line>> \in Seq(AnyLine) /\ Worth(line, r) \in Int
  BY WorthType
<1>2. <<0, line, Worth(line, r)>> \in Sums(r)
  <2>1. Worth(line, r) = 0 + Worth(line, r)
    BY <1>1
  <2> QED BY <1>1, <2>1, SumsDef
<1>3. Runs(Sums(r), 0, <<line>>, Worth(line, r))
  BY <1>1, <1>2, RunsOne
<1>4. Worth(line, r) = 0 + Pending(<<line>>, r) /\ Pending(<<line>>, r) \in Int
  <2>1. 0 \in Int
    OBVIOUS
  <2> QED BY <2>1, <1>1, <1>3, SumsToPending, Zenon
<1> QED BY <1>4

LEMMA PendingAppend ==
  ASSUME NEW s \in Seq(AnyLine), NEW line \in AnyLine, NEW r
  PROVE  Pending(Append(s, line), r) = Pending(s, r) + Worth(line, r)
<1>1. Append(s, line) = s \o <<line>> /\ <<line>> \in Seq(AnyLine)
  BY AppendJoins
<1>2. Pending(s \o <<line>>, r) = Pending(s, r) + Pending(<<line>>, r)
  BY <1>1, PendingJoin
<1> QED BY <1>1, <1>2, PendingOne

LEMMA PendingTail ==
  ASSUME NEW s \in Seq(AnyLine), s # <<>>, NEW r
  PROVE  Pending(s, r) = Worth(s[1], r) + Pending(Tail(s), r)
<1>1. s = <<s[1]>> \o Tail(s) /\ s[1] \in AnyLine /\ <<s[1]>> \in Seq(AnyLine)
      /\ Tail(s) \in Seq(AnyLine)
  BY HeadJoins
<1>2. Pending(<<s[1]>> \o Tail(s), r) = Pending(<<s[1]>>, r) + Pending(Tail(s), r)
  BY <1>1, PendingJoin
<1> QED BY <1>1, <1>2, PendingOne

\* What a bit runs to.
LEMMA BitsPending ==
  ASSUME NEW s \in Seq(AnyLine), NEW r, NEW a, NEW b, Runs(Bits(r), a, s, b)
  PROVE  a \in Int /\ b = a + Pending(s, r)
<1>1. a \in Int /\ Runs(Sums(r), a, s, b)
  BY RunsEnds, RunsMore, BitsAreSums
<1> QED BY <1>1, SumIsPending

-----------------------------------------------------------------------------
(* The lines of an inbox.                                                  *)

LineOf(m) == IF m.op = "line" THEN m.line ELSE NoLine

LEMMA MessageFields ==
  \A m \in Message :
    /\ LineOf(m) \in AnyLine
    /\ m.from = NoConn => m.op = "line" /\ m.line \in Line /\ LineOf(m) = m.line
    /\ m.from # NoConn => m.op \in {"request", "ready"} /\ m.from \in Conns /\ LineOf(m) = NoLine
    /\ m.op = "line" <=> m.from = NoConn
<1> SUFFICES ASSUME NEW m \in Message
             PROVE  /\ LineOf(m) \in AnyLine
                    /\ m.from = NoConn => m.op = "line" /\ m.line \in Line /\ LineOf(m) = m.line
                    /\ m.from # NoConn => m.op \in {"request", "ready"} /\ m.from \in Conns /\ LineOf(m) = NoLine
                    /\ m.op = "line" <=> m.from = NoConn
  OBVIOUS
<1>1. CASE m \in [from : {NoConn}, op : {"line"}, line : Line]
  <2>1. m.from = NoConn /\ m.op = "line" /\ m.line \in Line
    BY <1>1
  <2> QED BY <2>1 DEF LineOf, AnyLine
<1>2. CASE m \in [from : Conns, op : {"request", "ready"}]
  <2>1. m.from \in Conns /\ m.op \in {"request", "ready"}
    BY <1>2
  <2>2. m.from # NoConn
    BY <2>1 DEF Conns, NoConn
  <2> QED BY <2>1, <2>2 DEF LineOf, AnyLine
<1> QED BY <1>1, <1>2 DEF Message

LEMMA PeerMessage ==
  ASSUME NEW line \in Line
  PROVE  LET m == [from |-> NoConn, op |-> "line", line |-> line]
         IN m \in Message /\ LineOf(m) = line /\ m.from = NoConn
BY DEF Message, LineOf

LEMMA JoinerMessage ==
  ASSUME NEW o \in Conns, NEW op \in {"request", "ready"}
  PROVE  LET m == [from |-> o, op |-> op]
         IN m \in Message /\ LineOf(m) = NoLine /\ m.from = o /\ m.op = op
BY DEF Message, LineOf

LEMMA LinesInShape ==
  ASSUME NEW s \in Seq(Message)
  PROVE  /\ LinesIn(s) \in Seq(AnyLine) /\ Len(LinesIn(s)) = Len(s)
         /\ \A i \in 1..Len(s) : LinesIn(s)[i] = LineOf(s[i]) /\ s[i] \in Message
         /\ LinesIn(s) = [i \in 1..Len(s) |-> LineOf(s[i])]
<1>1. Len(s) \in Nat /\ DOMAIN s = 1..Len(s) /\ \A i \in 1..Len(s) : s[i] \in Message
  OBVIOUS
<1>2. LinesIn(s) = [i \in 1..Len(s) |-> LineOf(s[i])]
  BY <1>1 DEF LinesIn, LineOf
<1>3. \A i \in 1..Len(s) : LineOf(s[i]) \in AnyLine
  BY <1>1, MessageFields
<1> QED BY <1>1, <1>2, <1>3

LEMMA LinesInJoin ==
  ASSUME NEW s \in Seq(Message), NEW t \in Seq(Message)
  PROVE  LinesIn(s \o t) = LinesIn(s) \o LinesIn(t)
<1> DEFINE a == LinesIn(s)
           b == LinesIn(t)
           c == LinesIn(s \o t)
           k == Len(s)
           l == Len(t)
<1>1. /\ a \in Seq(AnyLine) /\ b \in Seq(AnyLine) /\ Len(a) = k /\ Len(b) = l
      /\ k \in Nat /\ l \in Nat /\ s \o t \in Seq(Message) /\ Len(s \o t) = k + l
  BY LinesInShape
<1>2. \A i \in 1..k : (s \o t)[i] = s[i] /\ (a \o b)[i] = a[i]
  BY <1>1, JoinShape
<1>3. \A i \in 1..l : (s \o t)[k + i] = t[i] /\ (a \o b)[k + i] = b[i]
  BY <1>1, JoinShape
<1>4. c \in Seq(AnyLine) /\ Len(c) = k + l /\ \A i \in 1..k + l : c[i] = LineOf((s \o t)[i])
  BY <1>1, LinesInShape
<1>5. (\A i \in 1..k : a[i] = LineOf(s[i])) /\ (\A i \in 1..l : b[i] = LineOf(t[i]))
  BY LinesInShape
<1>6. a \o b \in Seq(AnyLine) /\ Len(a \o b) = k + l
  BY <1>1
<1> DEFINE w == s \o t
           d == a \o b
<1> HIDE DEF a, b, c, k, l, w, d
<1>7. ASSUME NEW i \in 1..k + l PROVE c[i] = d[i]
  <2>1. CASE i \in 1..k
    BY <1>2, <1>4, <1>5, <2>1 DEF w, d
  <2>2. CASE i \notin 1..k
    <3>1. i - k \in 1..l /\ k + (i - k) = i
      BY <1>1, <2>2
    <3>2. w[i] = t[i - k] /\ d[i] = b[i - k]
      BY <1>3, <3>1 DEF w, d
    <3> QED BY <1>4, <1>5, <3>1, <3>2 DEF w, d
  <2> QED BY <2>1, <2>2
<1>8. c = d
  BY <1>4, <1>6, <1>7 DEF d
<1> QED BY <1>8 DEF c, d, a, b

LEMMA LinesInFew ==
  /\ LinesIn(<<>>) = <<>>
  /\ \A m \in Message : LinesIn(<<m>>) = <<LineOf(m)>>
<1>1. LinesIn(<<>>) = <<>>
  BY DEF LinesIn
<1>2. ASSUME NEW m \in Message PROVE LinesIn(<<m>>) = <<LineOf(m)>>
  <2>1. <<m>> \in Seq(Message) /\ Len(<<m>>) = 1 /\ <<m>>[1] = m /\ 1 \in 1..1
    OBVIOUS
  <2>2. LinesIn(<<m>>) \in Seq(AnyLine) /\ Len(LinesIn(<<m>>)) = 1 /\ LinesIn(<<m>>)[1] = LineOf(m)
    BY <2>1, LinesInShape
  <2> QED BY <2>2
<1> QED BY <1>1, <1>2

LEMMA LinesInAppend ==
  ASSUME NEW s \in Seq(Message), NEW m \in Message
  PROVE  LinesIn(Append(s, m)) = Append(LinesIn(s), LineOf(m))
<1>1. Append(s, m) = s \o <<m>> /\ <<m>> \in Seq(Message)
  OBVIOUS
<1>2. LinesIn(s \o <<m>>) = LinesIn(s) \o LinesIn(<<m>>)
  BY <1>1, LinesInJoin
<1>3. LinesIn(<<m>>) = <<LineOf(m)>> /\ LinesIn(s) \in Seq(AnyLine) /\ LineOf(m) \in AnyLine
  BY LinesInFew, LinesInShape, MessageFields
<1>4. Append(LinesIn(s), LineOf(m)) = LinesIn(s) \o <<LineOf(m)>>
  BY <1>3, AppendJoins
<1> QED BY <1>1, <1>2, <1>3, <1>4

\* What is left when one sender's messages go.
Kept(f, msgs, o) ==
  /\ f \in [0..Len(msgs) -> Seq(Message)]
  /\ f[0] = <<>> /\ Others(msgs, o) = f[Len(msgs)]
  /\ \A i \in 1..Len(msgs) :
       f[i] = IF msgs[i].from = o THEN f[i - 1] ELSE Append(f[i - 1], msgs[i])

LEMMA OthersSteps ==
  ASSUME NEW msgs \in Seq(Message), NEW o
  PROVE  \E f : Kept(f, msgs, o)
<1> DEFINE n == Len(msgs)
           B(f) == [i \in 0..Len(msgs) |->
                      IF i = 0 THEN <<>>
                      ELSE IF msgs[i].from = o THEN f[i - 1] ELSE Append(f[i - 1], msgs[i])]
           h == [i \in 1..n |-> [q \in Seq(Message) |->
                   IF msgs[i].from = o THEN q ELSE Append(q, msgs[i])]]
<1>1. n \in Nat /\ \A i \in 1..n : msgs[i] \in Message
  OBVIOUS
<1>2. h \in [1..n -> [Seq(Message) -> Seq(Message)]]
  BY <1>1
<1>3. <<>> \in Seq(Message)
  OBVIOUS
<1>4. PICK f \in [0..n -> Seq(Message)] :
        f[0] = <<>> /\ \A i \in 1..n : f[i] = h[i][f[i - 1]]
  <2> DEFINE Q == Seq(Message)
             z == <<>>
  <2> HIDE DEF h, n
  <2>1. StepsIn(Q, n, h) /\ z \in Q
    BY <1>1, <1>2, <1>3 DEF StepsIn
  <2> HIDE DEF Q, z
  <2>2. \E f \in [0..n -> Q] : f[0] = z /\ \A i \in 1..n : f[i] = h[i][f[i - 1]]
    BY <2>1, Stepwise
  <2> QED BY <2>2 DEF Q, z
<1>5. ASSUME NEW i \in 1..n
      PROVE  f[i] = IF msgs[i].from = o THEN f[i - 1] ELSE Append(f[i - 1], msgs[i])
  <2>1. i \in 0..n /\ i # 0 /\ i - 1 \in 0..n /\ f[i - 1] \in Seq(Message)
    <3> HIDE DEF h, n
    <3> QED BY <1>1
  <2>2. f[i] = h[i][f[i - 1]]
    <3> HIDE DEF h, n
    <3> QED BY <1>4, <2>1
  <2> HIDE DEF n
  <2> QED BY <2>1, <2>2
<1>6. f[0] = <<>>
  <2>1. 0 \in 0..n
    BY <1>1
  <2> HIDE DEF h, n
  <2> QED BY <1>4, <2>1
<1>7. f = B(f)
  <2>1. \A i \in 0..n : f[i] = B(f)[i]
    <3> TAKE i \in 0..n
    <3>1. i = 0 \/ i \in 1..n
      BY <1>1
    <3> QED BY <1>5, <1>6, <3>1
  <2>2. B(f) = [i \in 0..n |-> B(f)[i]] /\ f = [i \in 0..n |-> f[i]]
    OBVIOUS
  <2> HIDE DEF B, n
  <2> QED BY <2>1, <2>2
<1> DEFINE kept == CHOOSE q : q = B(q)
<1>8. kept = B(kept)
  <2> HIDE DEF B
  <2> QED BY <1>7
<1>9. Others(msgs, o) = kept[n]
  BY DEF Others
<1>10. kept[0] = <<>> /\ \A i \in 1..n :
         kept[i] = IF msgs[i].from = o THEN kept[i - 1] ELSE Append(kept[i - 1], msgs[i])
  <2> HIDE DEF kept
  <2>1. 0 \in 0..n /\ \A i \in 1..n : i \in 0..n /\ i # 0
    BY <1>1
  <2> QED BY <1>8, <2>1
<1>11. kept[n] = f[n]
  <2> HIDE DEF kept, B, h
  <2> DEFINE P == {i \in 0..n : kept[i] = f[i]}
  <2>1. 0 \in P
    BY <1>1, <1>6, <1>10
  <2>2. ASSUME NEW i \in 0..n, i \in P, i < n PROVE i + 1 \in P
    <3>1. i + 1 \in 1..n /\ (i + 1) - 1 = i /\ i + 1 \in 0..n
      BY <1>1, <2>2
    <3>2. kept[i] = f[i]
      BY <2>2
    <3> HIDE DEF n
    <3> QED BY <1>5, <1>10, <3>1, <3>2
  <2>3. P \in SUBSET (0..n)
    OBVIOUS
  <2>4. P = 0..n
    <3> HIDE DEF P, n
    <3> QED BY <1>1, <2>1, <2>2, <2>3, CountUp
  <2>5. n \in 0..n
    BY <1>1
  <2> HIDE DEF n
  <2> QED BY <2>4, <2>5
<1> QED BY <1>5, <1>6, <1>9, <1>11 DEF Kept

LEMMA OthersRun ==
  ASSUME NEW msgs \in Seq(Message), NEW o \in Conns, NEW R, NEW a, NEW b,
         Runs(R, a, LinesIn(msgs), b), \A v, w : <<v, NoLine, w>> \in R => w = v
  PROVE  Runs(R, a, LinesIn(Others(msgs, o)), b)
<1> DEFINE n == Len(msgs)
           lines == LinesIn(msgs)
<1>1. n \in Nat /\ Len(lines) = n /\ \A i \in 1..n : msgs[i] \in Message /\ lines[i] = LineOf(msgs[i])
  BY LinesInShape
<1>2. PICK g \in [0..n -> Int] : /\ g[0] = a /\ g[n] = b
                                 /\ \A i \in 1..n : <<g[i - 1], lines[i], g[i]>> \in R
  BY <1>1 DEF Runs
<1>8. PICK f : Kept(f, msgs, o)
  BY OthersSteps
<1>3. /\ f \in [0..n -> Seq(Message)] /\ f[0] = <<>> /\ Others(msgs, o) = f[n]
      /\ \A i \in 1..n : f[i] = IF msgs[i].from = o THEN f[i - 1] ELSE Append(f[i - 1], msgs[i])
  BY <1>8 DEF Kept
<1> HIDE DEF n, lines
<1> DEFINE P == {i \in 0..n : Runs(R, a, LinesIn(f[i]), g[i])}
<1>4. 0 \in P
  <2>1. 0 \in 0..n /\ a \in Int
    BY <1>1, <1>2
  <2>2. Runs(R, a, <<>>, a)
    BY <2>1, RunsNone
  <2> QED BY <1>2, <1>3, <2>1, <2>2, LinesInFew
<1>5. ASSUME NEW i \in 0..n, i \in P, i < n PROVE i + 1 \in P
  <2>1. i + 1 \in 1..n /\ (i + 1) - 1 = i /\ i + 1 \in 0..n
    <3> HIDE DEF P
    <3> QED BY <1>1, <1>5
  <2>2. /\ <<g[i], lines[i + 1], g[i + 1]>> \in R /\ g[i] \in Int /\ g[i + 1] \in Int
        /\ Runs(R, a, LinesIn(f[i]), g[i]) /\ f[i] \in Seq(Message)
        /\ msgs[i + 1] \in Message /\ lines[i + 1] = LineOf(msgs[i + 1])
    BY <1>1, <1>2, <1>3, <1>5, <2>1
  <2>3. CASE msgs[i + 1].from = o
    <3>1. f[i + 1] = f[i]
      BY <1>3, <2>1, <2>3
    <3>2. lines[i + 1] = NoLine
      <4>1. msgs[i + 1].from # NoConn
        BY <2>3 DEF Conns, NoConn
      <4> QED BY <2>2, <4>1, MessageFields
    <3>3. g[i + 1] = g[i]
      BY <2>2, <3>2
    <3> QED BY <2>1, <2>2, <3>1, <3>3
  <2>4. CASE msgs[i + 1].from # o
    <3> DEFINE x == LineOf(msgs[i + 1])
    <3>1. f[i + 1] = Append(f[i], msgs[i + 1])
      BY <1>3, <2>1, <2>4
    <3>2. LinesIn(f[i + 1]) = Append(LinesIn(f[i]), x) /\ LinesIn(f[i]) \in Seq(AnyLine)
          /\ x \in AnyLine
      BY <2>2, <3>1, LinesInAppend, LinesInShape, MessageFields
    <3>3. Runs(R, g[i], <<x>>, g[i + 1])
      BY <2>2, RunsOne
    <3> HIDE DEF x
    <3>4. Append(LinesIn(f[i]), x) = LinesIn(f[i]) \o <<x>> /\ <<x>> \in Seq(AnyLine)
      BY <3>2, AppendJoins
    <3>5. Runs(R, a, LinesIn(f[i]) \o <<x>>, g[i + 1])
      BY <2>2, <3>2, <3>3, <3>4, RunsChain
    <3> QED BY <2>1, <3>2, <3>4, <3>5
  <2> QED BY <2>3, <2>4
<1>6. P = 0..n
  <2>1. P \in SUBSET (0..n)
    OBVIOUS
  <2> HIDE DEF P
  <2> QED BY <1>1, <1>4, <1>5, <2>1, CountUp
<1>7. n \in P
  <2> HIDE DEF P
  <2> QED BY <1>1, <1>6
<1> QED BY <1>2, <1>3, <1>7

LEMMA OthersFrom ==
  ASSUME NEW msgs \in Seq(Message), NEW o, NEW T, msgs \in Seq(T)
  PROVE  Others(msgs, o) \in Seq({m \in T : m.from # o})
<1> DEFINE n == Len(msgs)
           U == {m \in T : m.from # o}
<1>1. n \in Nat /\ \A i \in 1..n : msgs[i] \in T
  OBVIOUS
<1>8. PICK f : Kept(f, msgs, o)
  BY OthersSteps
<1>2. /\ f \in [0..n -> Seq(Message)] /\ f[0] = <<>> /\ Others(msgs, o) = f[n]
      /\ \A i \in 1..n : f[i] = IF msgs[i].from = o THEN f[i - 1] ELSE Append(f[i - 1], msgs[i])
  BY <1>8 DEF Kept
<1> HIDE DEF n
<1> DEFINE P == {i \in 0..n : f[i] \in Seq(U)}
<1>3. 0 \in P
  BY <1>1, <1>2
<1>4. ASSUME NEW i \in 0..n, i \in P, i < n PROVE i + 1 \in P
  <2>1. i + 1 \in 1..n /\ (i + 1) - 1 = i /\ i + 1 \in 0..n
    BY <1>1, <1>4
  <2>2. f[i + 1] = IF msgs[i + 1].from = o THEN f[i] ELSE Append(f[i], msgs[i + 1])
    BY <1>2, <2>1
  <2>3. msgs[i + 1].from # o => msgs[i + 1] \in U
    BY <1>1, <2>1
  <2>4. f[i] \in Seq(U)
    BY <1>4
  <2> HIDE DEF U
  <2>5. f[i + 1] \in Seq(U)
    BY <2>2, <2>3, <2>4
  <2> QED BY <2>1, <2>5
<1>5. P = 0..n
  <2>1. P \in SUBSET (0..n)
    OBVIOUS
  <2> HIDE DEF P
  <2> QED BY <1>1, <1>3, <1>4, <2>1, CountUp
<1>6. n \in P
  <2> HIDE DEF P
  <2> QED BY <1>1, <1>5
<1> QED BY <1>2, <1>6

-----------------------------------------------------------------------------
(* The lines of a set of rows.                                             *)

LEMMA SetToSeqMembers ==
  ASSUME NEW S, IsFiniteSet(S)
  PROVE  /\ SetToSeq(S) \in Seq(S)
         /\ \A i \in 1..Len(SetToSeq(S)) : SetToSeq(S)[i] \in S
         /\ \A i, j \in 1..Len(SetToSeq(S)) : SetToSeq(S)[i] = SetToSeq(S)[j] => i = j
         /\ \A x \in S : \E i \in 1..Len(SetToSeq(S)) : SetToSeq(S)[i] = x
<1> DEFINE n == Cardinality(S)
           s == SetToSeq(S)
<1>1. n \in Nat /\ ExistsBijection(1..n, S)
  BY FS_CardinalityType
<1>2. PICK f \in Bijection(1..n, S) : TRUE
  BY <1>1 DEF ExistsBijection
<1>3. f \in [1..n -> S] /\ IsInjective(f)
  BY <1>2 DEF Bijection, Injection, IsInjective
<1>4. s \in [1..n -> S] /\ IsInjective(s)
  BY <1>3 DEF SetToSeq
<1> HIDE DEF s
<1>5. s \in Seq(S) /\ Len(s) = n
  BY <1>1, <1>4
<1>6. s \in Injection(1..n, S)
  BY <1>4 DEF Injection, IsInjective
<1>7. Cardinality(1..n) = n
  BY <1>1, FS_Interval
<1>8. s \in Surjection(1..n, S)
  BY <1>6, <1>7, FS_Injection
<1> HIDE DEF n
<1> QED BY <1>4, <1>5, <1>8 DEF s, Surjection, IsInjective

\* T has one line for each row of P, the one f gives it.
OneEach(T, P, f) ==
  /\ P \in SUBSET Rows /\ f \in [Rows -> Line] /\ \A e \in Rows : f[e].row = e
  /\ \A e \in P : f[e] \in T
  /\ \A x \in T : \E e \in P : x = f[e]

LEMMA ListPending ==
  ASSUME NEW T, NEW P, NEW f, OneEach(T, P, f)
  PROVE  LET s == SetToSeq(T)
         IN /\ s \in Seq(Line)
            /\ \A i \in 1..Len(s) : \E e \in P : s[i] = f[e]
            /\ \A r \in Rows : Pending(s, r) = IF r \in P THEN Worth(f[r], r) ELSE 0
<1> DEFINE s == SetToSeq(T)
           l == Len(s)
<1>0. /\ P \in SUBSET Rows /\ f \in [Rows -> Line] /\ \A e \in Rows : f[e].row = e
      /\ \A e \in P : f[e] \in T
      /\ \A x \in T : \E e \in P : x = f[e]
  BY DEF OneEach
<1> USE <1>0
<1>1. IsFiniteSet(P)
  BY RowsAssumption, FS_Subset DEF Rows
<1>2. IsFiniteSet(T)
  <2> DEFINE g == [e \in P |-> f[e]]
  <2>1. g \in Surjection(P, T)
    BY DEF Surjection
  <2> HIDE DEF g
  <2> QED BY <1>1, <2>1, FS_Surjection
<1>3. T \subseteq Line /\ (\A x \in T : x.row \in P /\ x = f[x.row]) /\ \A e \in P : f[e] \in T
  OBVIOUS
<1>4. /\ s \in Seq(T)
      /\ \A i \in 1..l : s[i] \in T
      /\ \A i, j \in 1..l : s[i] = s[j] => i = j
      /\ \A x \in T : \E i \in 1..l : s[i] = x
  <2> QED BY <1>2, SetToSeqMembers
<1>5. s \in Seq(Line) /\ s \in Seq(AnyLine) /\ l \in Nat /\ \A i \in 1..l : s[i] \in AnyLine
  <2> HIDE DEF s
  <2> QED BY <1>3, <1>4 DEF AnyLine
<1> HIDE DEF s, l
<1>6. ASSUME NEW r \in Rows PROVE Pending(s, r) = IF r \in P THEN Worth(f[r], r) ELSE 0
  <2> DEFINE w == Worth(f[r], r)
             on(i) == \E j \in 1..i : s[j].row = r
             g == [i \in 0..l |-> IF on(i) THEN w ELSE 0]
  <2>1. w \in Int
    BY WorthType DEF AnyLine
  <2> HIDE DEF w
  <2>2. g \in [0..l -> Int]
    BY <2>1
  <2>3. g[0] = 0
    BY <1>5
  <2>4. g[l] = IF r \in P THEN w ELSE 0
    <3>1. on(l) <=> r \in P
      <4>1. r \in P => \E j \in 1..l : s[j] = f[r]
        BY <1>3, <1>4
      <4>2. r \in P => on(l)
        BY <4>1
      <4>3. on(l) => r \in P
        BY <1>3, <1>4
      <4> QED BY <4>2, <4>3
    <3>2. l \in 0..l
      BY <1>5
    <3> HIDE DEF on
    <3> QED BY <3>1, <3>2
  <2>5. ASSUME NEW i \in 1..l PROVE <<g[i - 1], s[i], g[i]>> \in Sums(r)
    <3>1. i \in 0..l /\ i - 1 \in 0..l /\ 1..i = (1..i - 1) \cup {i}
      BY <1>5
    <3>2. g[i] = (IF on(i) THEN w ELSE 0) /\ g[i - 1] = IF on(i - 1) THEN w ELSE 0
      <4> HIDE DEF on
      <4> QED BY <3>1
    <3>3. s[i] \in AnyLine
      BY <1>5
    <3>4. CASE s[i].row = r
      <4>1. s[i] = f[r]
        BY <1>3, <1>4, <3>4
      <4>2. ~on(i - 1)
        <5> SUFFICES ASSUME NEW j \in 1..i - 1, s[j].row = r PROVE FALSE
          OBVIOUS
        <5>1. j \in 1..l /\ j # i
          BY <1>5
        <5>2. s[j] = f[r]
          BY <1>3, <1>4, <5>1
        <5> QED BY <1>4, <4>1, <5>1, <5>2
      <4>3. on(i)
        BY <3>4
      <4>4. g[i] = w /\ g[i - 1] = 0 /\ Worth(s[i], r) = w
        <5> HIDE DEF on, g
        <5> QED BY <3>2, <4>1, <4>2, <4>3 DEF w
      <4>5. g[i] = g[i - 1] + Worth(s[i], r) /\ g[i] \in Int /\ g[i - 1] \in Int
        <5> HIDE DEF g
        <5> QED BY <2>1, <4>4
      <4> HIDE DEF g
      <4> QED BY <3>3, <4>5, SumsDef
    <3>5. CASE s[i].row # r
      <4>1. on(i) <=> on(i - 1)
        BY <3>1, <3>5
      <4>2. Worth(s[i], r) = 0
        BY <3>5 DEF Worth
      <4>3. g[i] = g[i - 1] /\ g[i] \in Int
        <5> HIDE DEF on, g
        <5> QED BY <2>1, <3>2, <4>1
      <4>4. g[i] = g[i - 1] + Worth(s[i], r) /\ g[i - 1] \in Int
        <5> HIDE DEF g
        <5> QED BY <4>2, <4>3
      <4> HIDE DEF g
      <4> QED BY <3>3, <4>3, <4>4, SumsDef
    <3> QED BY <3>4, <3>5
  <2> HIDE DEF g
  <2>6. Runs(Sums(r), 0, s, IF r \in P THEN w ELSE 0)
    BY <2>2, <2>3, <2>4, <2>5 DEF Runs, l
  <2>7. (IF r \in P THEN w ELSE 0) = 0 + Pending(s, r) /\ Pending(s, r) \in Int
    <3>1. 0 \in Int
      OBVIOUS
    <3> QED BY <1>5, <2>6, <3>1, SumsToPending, Zenon
  <2> QED BY <2>7 DEF w
<1>7. \A i \in 1..l : \E e \in P : s[i] = f[e]
  BY <1>3, <1>4
<1> QED BY <1>5, <1>6, <1>7 DEF s, l

LEMMA LineKinds ==
  ASSUME NEW r \in Rows
  PROVE  /\ Row(r) \in Line /\ Row(r).row = r /\ Row(r).op = "row" /\ Worth(Row(r), r) = 1
         /\ Delete(r) \in Line /\ Delete(r).row = r /\ Delete(r).op = "delete"
         /\ Delete(r).part = 1 /\ Worth(Delete(r), r) = -1
BY DEF Row, Delete, Line, Worth

\* The deletes of some rows and then others: a poll's broadcast, and a seed.
LEMMA ListsPending ==
  ASSUME NEW P \in SUBSET Rows, NEW Q \in SUBSET Rows
  PROVE  LET s == SetToSeq({Delete(r) : r \in P}) \o SetToSeq({Row(r) : r \in Q})
         IN /\ s \in Seq(Line)
            /\ \A i \in 1..Len(s) : s[i].op # "part"
            /\ \A r \in Rows : Pending(s, r) = Bit(r \in Q) - Bit(r \in P)
<1> DEFINE d == [r \in Rows |-> Delete(r)]
           w == [r \in Rows |-> Row(r)]
           S == {Delete(r) : r \in P}
           T == {Row(r) : r \in Q}
           a == SetToSeq(S)
           b == SetToSeq(T)
           s == a \o b
<1>1. d \in [Rows -> Line] /\ \A e \in Rows : d[e].row = e /\ d[e].op = "delete" /\ d[e] = Delete(e)
  BY LineKinds
<1>2. w \in [Rows -> Line] /\ \A e \in Rows : w[e].row = e /\ w[e].op = "row" /\ w[e] = Row(e)
  BY LineKinds
<1> HIDE DEF d, w
<1>3. OneEach(S, P, d) /\ OneEach(T, Q, w)
  <2>1. \A r \in P : d[r] = Delete(r)
    BY <1>1
  <2>2. \A r \in Q : w[r] = Row(r)
    BY <1>2
  <2>3. OneEach(S, P, d)
    BY <1>1, <2>1 DEF OneEach
  <2>4. OneEach(T, Q, w)
    BY <1>2, <2>2 DEF OneEach
  <2> QED BY <2>3, <2>4
<1> HIDE DEF S, T
<1>4. /\ a \in Seq(Line) /\ \A i \in 1..Len(a) : \E e \in P : a[i] = d[e]
      /\ \A r \in Rows : Pending(a, r) = IF r \in P THEN Worth(d[r], r) ELSE 0
  BY <1>3, ListPending
<1>5. /\ b \in Seq(Line) /\ \A i \in 1..Len(b) : \E e \in Q : b[i] = w[e]
      /\ \A r \in Rows : Pending(b, r) = IF r \in Q THEN Worth(w[r], r) ELSE 0
  BY <1>3, ListPending
<1> HIDE DEF a, b
<1>6. a \in Seq(AnyLine) /\ b \in Seq(AnyLine) /\ s \in Seq(Line)
  BY <1>4, <1>5 DEF AnyLine
<1>7. ASSUME NEW r \in Rows PROVE Pending(s, r) = Bit(r \in Q) - Bit(r \in P)
  <2>1. Pending(s, r) = Pending(a, r) + Pending(b, r)
    BY <1>6, PendingJoin
  <2>2. Pending(a, r) = (IF r \in P THEN -1 ELSE 0) /\ Pending(b, r) = IF r \in Q THEN 1 ELSE 0
    BY <1>1, <1>2, <1>4, <1>5, LineKinds
  <2> QED BY <2>1, <2>2 DEF Bit
<1>8. ASSUME NEW i \in 1..Len(s) PROVE s[i].op # "part"
  <2>1. /\ Len(a) \in Nat /\ Len(b) \in Nat /\ Len(s) = Len(a) + Len(b)
        /\ \A j \in 1..Len(a) : s[j] = a[j]
        /\ \A j \in 1..Len(b) : s[Len(a) + j] = b[j]
    BY <1>4, <1>5, JoinShape
  <2>2. CASE i \in 1..Len(a)
    BY <1>1, <1>4, <2>1, <2>2
  <2>3. CASE i \notin 1..Len(a)
    <3> DEFINE j == i - Len(a)
    <3>1. j \in 1..Len(b) /\ Len(a) + j = i
      BY <2>1, <2>3
    <3> HIDE DEF j, s
    <3>2. s[i] = b[j]
      BY <2>1, <3>1
    <3> QED BY <1>2, <1>5, <3>1, <3>2
  <2> QED BY <2>2, <2>3
<1> QED BY <1>6, <1>7, <1>8 DEF a, b, S, T

-----------------------------------------------------------------------------
(* The other peer's stream.                                                *)

\* Its rows, part after part, and its deletions; what is left of the first row
\* may begin with a later part.
Blobs(s) ==
  /\ \A i \in 1..Len(s) : s[i].op \in {"part", "delete"} /\ s[i].row \in PeerRows
  /\ \A i \in 1..Len(s) - 1 :
        IF s[i].op = "part" /\ s[i].part < Parts
        THEN s[i + 1].op = "part" /\ s[i + 1].row = s[i].row /\ s[i + 1].part = s[i].part + 1
        ELSE s[i + 1].part = 1
  /\ s # <<>> => s[Len(s)].op = "delete" \/ s[Len(s)].part = Parts

\* The parts of that row that are through.
Before(s) == IF s = <<>> THEN 0 ELSE s[1].part - 1

LEMMA BlobsHead ==
  ASSUME NEW s \in Seq(Line), s # <<>>, Blobs(s)
  PROVE  LET line == s[1]
             rest == Tail(s)
         IN /\ Blobs(rest) /\ line \in Line /\ line.op \in {"part", "delete"}
            /\ line.row \in PeerRows
            /\ line.op = "part" => InTurn(Before(s), line)
            /\ After(Before(s), line) = Before(rest)
            /\ Before(s) \in Int /\ Before(s) \in 0..Parts
            /\ rest # <<>> /\ rest[1].part > 1 =>
                 line.op = "part" /\ line.part < Parts /\ rest[1].row = line.row
<1> DEFINE n == Len(s)
           rest == Tail(s)
           line == s[1]
<1>1. /\ n \in Nat \ {0} /\ Len(rest) = n - 1 /\ rest \in Seq(Line)
      /\ \A i \in 1..n - 1 : rest[i] = s[i + 1]
      /\ \A i \in 1..n : s[i] \in Line
      /\ (rest # <<>> <=> n > 1)
  <2>1. /\ n \in Nat \ {0} /\ Len(rest) = n - 1 /\ rest \in Seq(Line)
        /\ \A i \in 1..n - 1 : rest[i] = s[i + 1]
    OBVIOUS
  <2>2. \A i \in 1..n : s[i] \in Line
    OBVIOUS
  <2>3. rest # <<>> <=> Len(rest) # 0
    <3>1. rest \in Seq(Line)
      BY <2>1
    <3> HIDE DEF rest, n
    <3> QED BY <3>1
  <2> HIDE DEF rest, n
  <2> QED BY <2>1, <2>2, <2>3
<1>2. line \in Line /\ line.part \in 1..Parts /\ Parts \in Nat \ {0}
      /\ (line.op # "part" => line.part = 1) /\ \A i \in 1..n : s[i].part \in 1..Parts
  BY <1>1, Fields
<1>3. /\ \A i \in 1..n : s[i].op \in {"part", "delete"} /\ s[i].row \in PeerRows
      /\ \A i \in 1..n - 1 :
            IF s[i].op = "part" /\ s[i].part < Parts
            THEN s[i + 1].op = "part" /\ s[i + 1].row = s[i].row /\ s[i + 1].part = s[i].part + 1
            ELSE s[i + 1].part = 1
      /\ s[n].op = "delete" \/ s[n].part = Parts
  BY DEF Blobs
<1> HIDE DEF n, rest
<1>4. Blobs(rest)
  <2>1. \A i \in 1..n - 1 : i + 1 \in 1..n /\ rest[i] = s[i + 1]
    BY <1>1
  <2>2. \A i \in 1..Len(rest) : rest[i].op \in {"part", "delete"} /\ rest[i].row \in PeerRows
    BY <1>1, <1>3, <2>1
  <2>3. ASSUME NEW i \in 1..Len(rest) - 1
        PROVE  IF rest[i].op = "part" /\ rest[i].part < Parts
               THEN rest[i + 1].op = "part" /\ rest[i + 1].row = rest[i].row
                      /\ rest[i + 1].part = rest[i].part + 1
               ELSE rest[i + 1].part = 1
    <3>1. i + 1 \in 1..n - 1 /\ rest[i] = s[i + 1] /\ rest[i + 1] = s[(i + 1) + 1]
      BY <1>1
    <3> QED BY <1>3, <3>1
  <2>4. ASSUME rest # <<>>
        PROVE  rest[Len(rest)].op = "delete" \/ rest[Len(rest)].part = Parts
    <3>1. n - 1 \in 1..n - 1 /\ (n - 1) + 1 = n
      BY <1>1, <2>4
    <3>2. rest[n - 1] = s[n]
      BY <1>1, <3>1
    <3> QED BY <1>1, <1>3, <3>2
  <2> QED BY <2>2, <2>3, <2>4 DEF Blobs
<1>5. Before(s) = line.part - 1 /\ Before(s) \in Int /\ Before(s) \in 0..Parts
  BY <1>2 DEF Before
<1>6. InTurn(Before(s), line)
  BY <1>2, <1>5 DEF InTurn
<1>7. After(Before(s), line) = IF line.op = "part" THEN line.part % Parts ELSE 0
  BY <1>2, <1>5, <1>6 DEF After, Assembled
<1>8. 1 \in 1..n
  BY <1>1
<1>9. CASE n > 1
  <2>1. 1 \in 1..n - 1 /\ 1 + 1 = 2 /\ rest[1] = s[2] /\ Before(rest) = s[2].part - 1
    BY <1>1, <1>9 DEF Before
  <2>2. IF line.op = "part" /\ line.part < Parts
        THEN s[2].op = "part" /\ s[2].row = line.row /\ s[2].part = line.part + 1
        ELSE s[2].part = 1
    BY <1>3, <2>1
  <2>3. CASE line.op = "part" /\ line.part < Parts
    <3>1. line.part % Parts = line.part
      BY <1>2, <2>3
    <3>2. After(Before(s), line) = Before(rest)
      BY <1>2, <1>7, <2>1, <2>2, <2>3, <3>1
    <3>3. rest[1].row = line.row
      BY <2>1, <2>2, <2>3
    <3> QED BY <1>2, <1>3, <1>4, <1>5, <1>6, <1>8, <2>3, <3>2, <3>3 DEF rest
  <2>4. CASE ~(line.op = "part" /\ line.part < Parts)
    <3>1. line.op = "part" => line.part = Parts /\ line.part % Parts = 0
      BY <1>2, <2>4
    <3>2. After(Before(s), line) = Before(rest)
      BY <1>2, <1>7, <2>1, <2>2, <2>4, <3>1
    <3>3. ~(rest[1].part > 1)
      BY <2>1, <2>2, <2>4
    <3> QED BY <1>2, <1>3, <1>4, <1>5, <1>6, <1>8, <3>2, <3>3 DEF rest
  <2> QED BY <2>3, <2>4
<1>10. CASE n = 1
  <2>1. rest = <<>> /\ Before(rest) = 0
    BY <1>1, <1>10 DEF Before
  <2>2. line.op = "part" => line.part = Parts /\ line.part % Parts = 0
    BY <1>2, <1>3, <1>10
  <2> QED BY <1>2, <1>3, <1>4, <1>5, <1>6, <1>7, <1>8, <2>1, <2>2 DEF rest
<1> QED BY <1>1, <1>9, <1>10

LEMMA BlobsJoin ==
  ASSUME NEW s \in Seq(Line), NEW t \in Seq(Line), Blobs(s), Blobs(t), t # <<>>, t[1].part = 1
  PROVE  /\ Blobs(s \o t) /\ Before(s \o t) = Before(s)
         /\ s # <<>> => (s \o t)[1] = s[1]
         /\ s = <<>> => (s \o t)[1].part = 1
<1>1. CASE s = <<>>
  <2>1. s \o t = t
    BY <1>1
  <2>2. Before(t) = 0 /\ Before(s) = 0
    BY <1>1 DEF Before
  <2> QED BY <1>1, <2>1, <2>2
<1>2. CASE s # <<>>
  <2> DEFINE k == Len(s)
             l == Len(t)
             w == s \o t
  <2>1. /\ k \in Nat \ {0} /\ l \in Nat \ {0} /\ Len(w) = k + l
        /\ \A i \in 1..k : w[i] = s[i]
        /\ \A i \in 1..l : w[k + i] = t[i]
    <3>1. k \in Nat \ {0} /\ l \in Nat \ {0}
      BY <1>2
    <3> QED BY <3>1, JoinShape
  <2>2. w # <<>>
    BY <1>2
  <2> HIDE DEF k, l, w
  <2>3. w[1] = s[1]
    BY <2>1
  <2>4. \A i \in 1..k + l : i \in 1..k \/ (i - k \in 1..l /\ w[i] = t[i - k])
    <3> SUFFICES ASSUME NEW i \in 1..k + l, i \notin 1..k PROVE i - k \in 1..l /\ w[i] = t[i - k]
      OBVIOUS
    <3>1. i - k \in 1..l /\ k + (i - k) = i
      BY <2>1
    <3> QED BY <2>1, <3>1
  <2>5. /\ \A i \in 1..k : s[i].op \in {"part", "delete"} /\ s[i].row \in PeerRows
        /\ \A i \in 1..k - 1 :
              IF s[i].op = "part" /\ s[i].part < Parts
              THEN s[i + 1].op = "part" /\ s[i + 1].row = s[i].row /\ s[i + 1].part = s[i].part + 1
              ELSE s[i + 1].part = 1
        /\ s[k].op = "delete" \/ s[k].part = Parts
    BY <1>2 DEF Blobs, k
  <2>6. /\ \A i \in 1..l : t[i].op \in {"part", "delete"} /\ t[i].row \in PeerRows
        /\ \A i \in 1..l - 1 :
              IF t[i].op = "part" /\ t[i].part < Parts
              THEN t[i + 1].op = "part" /\ t[i + 1].row = t[i].row /\ t[i + 1].part = t[i].part + 1
              ELSE t[i + 1].part = 1
        /\ t[l].op = "delete" \/ t[l].part = Parts
    BY DEF Blobs, l
  <2>7. \A i \in 1..k + l : w[i].op \in {"part", "delete"} /\ w[i].row \in PeerRows
    BY <2>1, <2>4, <2>5, <2>6
  <2>8. ASSUME NEW i \in 1..(k + l) - 1
        PROVE  IF w[i].op = "part" /\ w[i].part < Parts
               THEN w[i + 1].op = "part" /\ w[i + 1].row = w[i].row /\ w[i + 1].part = w[i].part + 1
               ELSE w[i + 1].part = 1
    <3>1. CASE i < k
      <4>1. i \in 1..k - 1 /\ i \in 1..k /\ i + 1 \in 1..k
        BY <2>1, <3>1
      <4>2. w[i] = s[i] /\ w[i + 1] = s[i + 1]
        BY <2>1, <4>1
      <4> QED BY <2>5, <4>1, <4>2
    <3>2. CASE i = k
      <4>1. w[i] = s[k] /\ w[i + 1] = t[1] /\ Parts \in Nat
        BY <2>1, <3>2, Fields
      <4>2. ~(s[k].op = "part" /\ s[k].part < Parts)
        BY <2>5, <4>1
      <4> QED BY <4>1, <4>2
    <3>3. CASE i > k
      <4> DEFINE j == i - k
      <4>1. j \in 1..l - 1 /\ j \in 1..l /\ j + 1 \in 1..l /\ k + j = i /\ k + (j + 1) = i + 1
        BY <2>1, <3>3
      <4> HIDE DEF j
      <4>2. w[i] = t[j] /\ w[i + 1] = t[j + 1]
        BY <2>1, <4>1
      <4> QED BY <2>6, <4>1, <4>2
    <3> QED BY <2>1, <3>1, <3>2, <3>3
  <2>9. w[k + l] = t[l]
    BY <2>1
  <2>10. Blobs(w)
    BY <2>1, <2>6, <2>7, <2>8, <2>9 DEF Blobs
  <2>11. Before(w) = Before(s)
    BY <1>2, <2>2, <2>3 DEF Before
  <2> QED BY <1>2, <2>3, <2>10, <2>11 DEF w
<1> QED BY <1>1, <1>2

\* What a player's edit puts on the wire.
LEMMA EditLines ==
  ASSUME NEW r \in PeerRows, NEW held \in BOOLEAN
  PROVE  LET t == IF held THEN <<Delete(r)>> ELSE Blob(r)
         IN /\ t \in Seq(Line) /\ t # <<>> /\ Blobs(t) /\ t[1].part = 1
            /\ \A q \in Rows : \A x \in 0..1 :
                 (q = r => x = Bit(held)) => Runs(Bits(q), x, t, IF q = r THEN 1 - x ELSE x)
<1>1. r \in Rows /\ Parts \in Nat \ {0}
  BY Fields DEF Rows
<1>2. CASE held
  <2> DEFINE t == <<Delete(r)>>
  <2>1. /\ t \in Seq(Line) /\ t # <<>> /\ Len(t) = 1 /\ t[1] = Delete(r)
    BY <1>1, LineKinds
  <2> HIDE DEF t
  <2>2. /\ t[1].op = "delete" /\ t[1].row = r /\ t[1].part = 1 /\ \A i \in 1..1 : i = 1
    BY <1>1, <2>1, LineKinds
  <2>3. Blobs(t)
    BY <2>1, <2>2 DEF Blobs
  <2>4. ASSUME NEW q \in Rows, NEW x \in 0..1, q = r => x = Bit(held)
        PROVE  Runs(Bits(q), x, t, IF q = r THEN 1 - x ELSE x)
    <3>1. Delete(r) \in AnyLine /\ Worth(Delete(r), q) = IF q = r THEN -1 ELSE 0
      BY <1>1, LineKinds, Fields DEF Worth, AnyLine
    <3>2. <<x, Delete(r), IF q = r THEN 1 - x ELSE x>> \in Bits(q)
      BY <1>2, <2>4, <3>1, BitsDef DEF Bit
    <3>3. x \in Int /\ (IF q = r THEN 1 - x ELSE x) \in Int
      OBVIOUS
    <3> DEFINE y == IF q = r THEN 1 - x ELSE x
    <3> HIDE DEF y
    <3>4. Runs(Bits(q), x, <<Delete(r)>>, y)
      BY <3>2, <3>3, RunsOne DEF y
    <3> QED BY <3>4 DEF y, t
  <2> QED BY <1>2, <2>1, <2>2, <2>3, <2>4 DEF t
<1>3. CASE ~held
  <2> DEFINE t == Blob(r)
  <2>1. /\ t \in Seq(Line) /\ Len(t) = Parts
        /\ \A i \in 1..Parts : t[i].op = "part" /\ t[i].row = r /\ t[i].part = i
    BY <1>1 DEF Blob, Line
  <2> HIDE DEF t
  <2>2. t # <<>> /\ 1 \in 1..Parts
    BY <1>1, <2>1
  <2>3. Blobs(t)
    <3>1. \A i \in 1..Len(t) - 1 : i \in 1..Parts /\ i + 1 \in 1..Parts /\ i < Parts
      BY <1>1, <2>1
    <3>2. Parts \in 1..Parts
      BY <1>1
    <3> QED BY <2>1, <3>1, <3>2 DEF Blobs
  <2>4. ASSUME NEW q \in Rows, NEW x \in 0..1, q = r => x = Bit(held)
        PROVE  Runs(Bits(q), x, t, IF q = r THEN 1 - x ELSE x)
    <3>1. \A i \in 1..Parts : t[i] \in AnyLine
      BY <2>1 DEF AnyLine
    <3>2. CASE q # r
      <4>1. \A i \in 1..Len(t) : <<x, t[i], x>> \in Bits(q)
        <5> TAKE i \in 1..Len(t)
        <5>1. Worth(t[i], q) = 0 /\ t[i] \in AnyLine
          BY <2>1, <3>1, <3>2 DEF Worth
        <5> QED BY <5>1, BitsDef
      <4>2. x \in Int /\ t \in Seq(Line)
        BY <2>1
      <4>3. Runs(Bits(q), x, t, x)
        BY <4>1, <4>2, RunsIdle
      <4> QED BY <3>2, <4>3
    <3>3. CASE q = r
      <4> DEFINE g == [i \in 0..Parts |-> IF i = Parts THEN 1 ELSE 0]
      <4>1. x = 0
        BY <1>3, <2>4, <3>3 DEF Bit
      <4>2. g \in [0..Len(t) -> Int] /\ g[0] = 0 /\ g[Len(t)] = 1
        BY <1>1, <2>1
      <4>3. ASSUME NEW i \in 1..Len(t) PROVE <<g[i - 1], t[i], g[i]>> \in Bits(r)
        <5>1. g[i - 1] = 0 /\ g[i] = IF i = Parts THEN 1 ELSE 0
          BY <1>1, <2>1
        <5>2. Worth(t[i], r) = IF i = Parts THEN 1 ELSE 0
          BY <2>1 DEF Worth
        <5>3. t[i] \in AnyLine /\ g[i - 1] \in 0..1 /\ g[i] \in 0..1
              /\ g[i] = g[i - 1] + Worth(t[i], r)
          <6> HIDE DEF g
          <6> QED BY <2>1, <3>1, <5>1, <5>2
        <5> HIDE DEF g
        <5> QED BY <5>3, BitsDef
      <4> HIDE DEF g
      <4>4. Runs(Bits(r), 0, t, 1)
        BY <4>2, <4>3 DEF Runs
      <4>5. (IF q = r THEN 1 - x ELSE x) = 1
        BY <3>3, <4>1
      <4> QED BY <3>3, <4>1, <4>4, <4>5
    <3> QED BY <3>2, <3>3
  <2> QED BY <1>3, <2>1, <2>2, <2>3, <2>4 DEF t
<1> QED BY <1>2, <1>3

\* Rows and deletes leave an assembler alone.
LEMMA TurnsIdle ==
  ASSUME NEW t \in Seq(Line), \A i \in 1..Len(t) : t[i].op # "part", NEW S, NEW m \in Int
  PROVE  Runs(Turns(S), m, t, m)
<1>1. ASSUME NEW i \in 1..Len(t) PROVE <<m, t[i], m>> \in Turns(S)
  <2>1. t[i] \in AnyLine /\ After(m, t[i]) = m /\ t[i].op # "part"
    <3>1. t[i] \in Line
      OBVIOUS
    <3> QED BY <3>1 DEF AnyLine, After
  <2> QED BY <2>1, TurnsDef
<1> QED BY <1>1, RunsIdle

-----------------------------------------------------------------------------
(* Arrays.                                                                 *)

Arrays == [n : [Rows -> Nat], new : [Rows -> Nat], tomb : SUBSET Rows]

\* The copies of a row, less the one a tombstone waits for.
Net(a, r) == a.n[r] - Bit(r \in a.tomb)

LEMMA ApplyRowNet ==
  ASSUME NEW a \in Arrays, NEW r \in Rows
  PROVE  /\ ApplyRow(a, r) \in Arrays
         /\ \A q \in Rows : Net(ApplyRow(a, r), q) = Net(a, q) + Bit(q = r) /\ Net(a, q) \in Int
<1>1. a.n \in [Rows -> Nat] /\ a.new \in [Rows -> Nat] /\ a.tomb \in SUBSET Rows
      /\ a = [n |-> a.n, new |-> a.new, tomb |-> a.tomb]
  BY DEF Arrays
<1>2. CASE r \in a.tomb
  <2>1. ApplyRow(a, r) = [n |-> a.n, new |-> a.new, tomb |-> a.tomb \ {r}]
    BY <1>1, <1>2 DEF ApplyRow, Arrays
  <2>2. ASSUME NEW q \in Rows
        PROVE  Net(ApplyRow(a, r), q) = Net(a, q) + Bit(q = r) /\ Net(a, q) \in Int
    <3>1. a.n[q] \in Nat
      BY <1>1
    <3> QED BY <1>2, <2>1, <3>1 DEF Net, Bit
  <2>3. ApplyRow(a, r) \in Arrays
    BY <1>1, <2>1 DEF Arrays
  <2> QED BY <2>2, <2>3
<1>3. CASE r \notin a.tomb
  <2> DEFINE m == [a.n EXCEPT ![r] = @ + 1]
             w == [a.new EXCEPT ![r] = @ + 1]
  <2>1. ApplyRow(a, r) = [n |-> m, new |-> w, tomb |-> a.tomb]
    BY <1>1, <1>3 DEF ApplyRow, Arrays
  <2>2. m \in [Rows -> Nat] /\ w \in [Rows -> Nat]
        /\ \A q \in Rows : m[q] = a.n[q] + Bit(q = r) /\ a.n[q] \in Nat
    BY <1>1 DEF Bit
  <2> HIDE DEF m, w
  <2>3. ASSUME NEW q \in Rows
        PROVE  Net(ApplyRow(a, r), q) = Net(a, q) + Bit(q = r) /\ Net(a, q) \in Int
    <3>1. Net(ApplyRow(a, r), q) = m[q] - Bit(q \in a.tomb)
      BY <2>1 DEF Net
    <3> QED BY <2>2, <3>1 DEF Net, Bit
  <2>4. ApplyRow(a, r) \in Arrays
    BY <1>1, <2>1, <2>2 DEF Arrays
  <2> QED BY <2>3, <2>4
<1> QED BY <1>2, <1>3

LEMMA ApplyDeleteNet ==
  ASSUME NEW a \in Arrays, NEW r \in Rows, NEW aligned
  PROVE  LET b == ApplyDelete(a, r, aligned)
         IN /\ b \in Arrays /\ b.new = a.new
            /\ \A q \in Rows : (q = r => r \notin a.tomb) =>
                 Net(b, q) = Net(a, q) - Bit(q = r) /\ Net(a, q) \in Int
<1> DEFINE b == ApplyDelete(a, r, aligned)
<1>1. a.n \in [Rows -> Nat] /\ a.new \in [Rows -> Nat] /\ a.tomb \in SUBSET Rows
      /\ a = [n |-> a.n, new |-> a.new, tomb |-> a.tomb]
  BY DEF Arrays
<1>2. CASE aligned /\ a.n[r] > a.new[r]
  <2> DEFINE m == [a.n EXCEPT ![r] = @ - 1]
  <2>1. b = [n |-> m, new |-> a.new, tomb |-> a.tomb]
    BY <1>1, <1>2 DEF ApplyDelete, Arrays
  <2>2. a.n[r] - 1 \in Nat
    <3>1. a.n[r] \in Nat /\ a.new[r] \in Nat
      BY <1>1
    <3> QED BY <1>2, <3>1
  <2>3. m \in [Rows -> Nat] /\ \A q \in Rows : m[q] = a.n[q] - Bit(q = r) /\ a.n[q] \in Nat
    BY <1>1, <2>2 DEF Bit
  <2> HIDE DEF m
  <2>4. ASSUME NEW q \in Rows PROVE Net(b, q) = Net(a, q) - Bit(q = r) /\ Net(a, q) \in Int
    <3>1. Net(b, q) = m[q] - Bit(q \in a.tomb)
      BY <2>1 DEF Net
    <3> QED BY <2>3, <3>1 DEF Net, Bit
  <2>5. b \in Arrays /\ b.new = a.new
    BY <1>1, <2>1, <2>3 DEF Arrays
  <2> QED BY <2>4, <2>5
<1>3. CASE ~(aligned /\ a.n[r] > a.new[r])
  <2>1. b = [n |-> a.n, new |-> a.new, tomb |-> a.tomb \cup {r}]
    BY <1>1, <1>3 DEF ApplyDelete, Arrays
  <2>2. ASSUME NEW q \in Rows, q = r => r \notin a.tomb
        PROVE  Net(b, q) = Net(a, q) - Bit(q = r) /\ Net(a, q) \in Int
    <3>1. a.n[q] \in Nat
      BY <1>1
    <3> QED BY <2>1, <2>2, <3>1 DEF Net, Bit
  <2>3. b \in Arrays /\ b.new = a.new
    BY <1>1, <2>1 DEF Arrays
  <2> QED BY <2>2, <2>3
<1> QED BY <1>2, <1>3

LEMMA PolledNet ==
  ASSUME NEW a \in Arrays
  PROVE  LET b == Polled(a)
         IN /\ b \in Arrays /\ b.new = [r \in Rows |-> 0] /\ b.tomb \subseteq a.tomb
            /\ \A q \in Rows : Net(b, q) = Net(a, q) /\ Net(a, q) \in Int /\ b.n[q] <= a.n[q]
            /\ a.tomb = {} => b.n = a.n
<1> DEFINE hit == {r \in a.tomb : a.n[r] > 0}
           m == [r \in Rows |-> IF r \in hit THEN a.n[r] - 1 ELSE a.n[r]]
           b == Polled(a)
<1>1. a.n \in [Rows -> Nat] /\ a.new \in [Rows -> Nat] /\ a.tomb \in SUBSET Rows
  BY DEF Arrays
<1>2. b = [n |-> m, new |-> [r \in Rows |-> 0], tomb |-> a.tomb \ hit]
  BY DEF Polled
<1>3. \A q \in Rows : q \in hit <=> q \in a.tomb /\ a.n[q] > 0
  OBVIOUS
<1>4. ASSUME NEW q \in Rows PROVE m[q] = a.n[q] - Bit(q \in hit) /\ m[q] \in Nat /\ a.n[q] \in Nat
  <2>1. a.n[q] \in Nat
    BY <1>1
  <2> QED BY <1>3, <2>1 DEF Bit
<1>5. m \in [Rows -> Nat] /\ (a.tomb = {} => m = a.n)
  <2>1. m \in [Rows -> Nat]
    BY <1>4
  <2>2. ASSUME a.tomb = {} PROVE m = a.n
    <3>1. \A q \in Rows : m[q] = a.n[q]
      BY <1>4, <2>2 DEF Bit
    <3> HIDE DEF m
    <3> QED BY <1>1, <2>1, <3>1
  <2> QED BY <2>1, <2>2
<1> HIDE DEF m, hit
<1>6. ASSUME NEW q \in Rows PROVE Net(b, q) = Net(a, q) /\ Net(a, q) \in Int /\ b.n[q] <= a.n[q]
  <2>1. Net(b, q) = m[q] - Bit(q \in a.tomb \ hit) /\ b.n[q] = m[q]
    BY <1>2 DEF Net
  <2> QED BY <1>3, <1>4, <2>1 DEF Net, Bit
<1> QED BY <1>1, <1>2, <1>5, <1>6 DEF Arrays

\* What is parked comes to what it would have been unparked.
Parked(r) == Cardinality({i \in DOMAIN jPark : jPark[i] = r})

LEMMA ParkedTimes ==
  ASSUME jPark \in Seq(Rows), NEW r
  PROVE  Parked(r) = Times(jPark, Len(jPark), r) /\ Parked(r) \in Nat
<1>1. DOMAIN jPark = 1..Len(jPark) /\ Len(jPark) \in Nat
  OBVIOUS
<1>2. Parked(r) = Times(jPark, Len(jPark), r)
  BY <1>1 DEF Parked, Times
<1> QED BY <1>1, <1>2, CountTo

LEMMA DrainSteps ==
  ASSUME NEW park \in Seq(Rows), NEW z \in Arrays
  PROVE  \E f \in [0..Len(park) -> Arrays] :
           /\ f[0] = z
           /\ \A i \in 1..Len(park) : f[i] = ApplyRow(f[i - 1], park[i]) /\ f[i - 1] \in Arrays
<1> DEFINE n == Len(park)
           h == [i \in 1..n |-> [a \in Arrays |-> ApplyRow(a, park[i])]]
<1>1. n \in Nat /\ \A i \in 1..n : park[i] \in Rows
  OBVIOUS
<1>2. h \in [1..n -> [Arrays -> Arrays]]
  <2> HIDE DEF n
  <2> QED BY <1>1, ApplyRowNet
<1>3. PICK f \in [0..n -> Arrays] : f[0] = z /\ \A i \in 1..n : f[i] = h[i][f[i - 1]]
  <2> HIDE DEF h, n
  <2>1. StepsIn(Arrays, n, h)
    BY <1>1, <1>2 DEF StepsIn
  <2> QED BY <2>1, Stepwise
<1>4. \A i \in 1..n : f[i] = ApplyRow(f[i - 1], park[i]) /\ f[i - 1] \in Arrays
  <2> TAKE i \in 1..n
  <2>1. i \in 0..n /\ i - 1 \in 0..n
    <3> HIDE DEF n
    <3> QED BY <1>1
  <2>2. f[i - 1] \in Arrays
    <3> HIDE DEF n
    <3> QED BY <2>1
  <2>3. h[i][f[i - 1]] = ApplyRow(f[i - 1], park[i])
    <3> HIDE DEF n
    <3> QED BY <2>2
  <2> HIDE DEF h, n
  <2> QED BY <1>3, <2>2, <2>3
<1> QED BY <1>3, <1>4

LEMMA DrainedNet ==
  ASSUME jPark \in Seq(Rows), JoinerArray \in Arrays
  PROVE  /\ Drained \in Arrays
         /\ \A r \in Rows : Net(Drained, r) = Net(JoinerArray, r) + Parked(r)
                            /\ Net(JoinerArray, r) \in Int
<1> DEFINE n == Len(jPark)
           z == JoinerArray
           B(f) == [i \in 0..Len(jPark) |->
                      IF i = 0 THEN JoinerArray ELSE ApplyRow(f[i - 1], jPark[i])]
<1>1. n \in Nat /\ \A i \in 1..n : jPark[i] \in Rows
  OBVIOUS
<1>3. PICK f \in [0..n -> Arrays] :
        f[0] = z /\ \A i \in 1..n : f[i] = ApplyRow(f[i - 1], jPark[i]) /\ f[i - 1] \in Arrays
  BY DrainSteps
<1>4. \A i \in 1..n : f[i] = ApplyRow(f[i - 1], jPark[i]) /\ f[i - 1] \in Arrays
  BY <1>3
<1> DEFINE after == CHOOSE q : q = B(q)
<1>5. f = B(f)
  <2>1. \A i \in 0..n : f[i] = B(f)[i]
    <3> TAKE i \in 0..n
    <3>1. i = 0 \/ i \in 1..n
      BY <1>1
    <3> QED BY <1>3, <1>4, <3>1
  <2>2. B(f) = [i \in 0..n |-> B(f)[i]] /\ f = [i \in 0..n |-> f[i]]
    OBVIOUS
  <2> HIDE DEF B, n
  <2> QED BY <2>1, <2>2
<1>6. after = B(after)
  <2> HIDE DEF B
  <2> QED BY <1>5
<1>7. Drained = after[n]
  BY DEF Drained
<1>8. after[0] = z /\ \A i \in 1..n : after[i] = ApplyRow(after[i - 1], jPark[i])
  <2> HIDE DEF after
  <2>1. 0 \in 0..n /\ \A i \in 1..n : i \in 0..n /\ i # 0
    BY <1>1
  <2> QED BY <1>6, <2>1
<1> HIDE DEF after, B, z
<1> DEFINE P == {i \in 0..n : /\ after[i] = f[i]
                             /\ \A r \in Rows : Net(f[i], r) = Net(z, r) + Times(jPark, i, r)}
<1>9. z \in Arrays /\ \A r \in Rows : Net(z, r) \in Int
  <2>1. z \in Arrays
    BY DEF z
  <2>2. \A r \in Rows : Net(z, r) \in Int
    BY <2>1, ApplyRowNet
  <2> QED BY <2>1, <2>2
<1>10. 0 \in P
  <2>1. \A r \in Rows : Times(jPark, 0, r) = 0
    BY CountTo
  <2>2. 0 \in 0..n
    BY <1>1
  <2> QED BY <1>3, <1>8, <1>9, <2>1, <2>2
<1>11. ASSUME NEW i \in 0..n, i \in P, i < n PROVE i + 1 \in P
  <2>1. i + 1 \in 1..n /\ (i + 1) - 1 = i /\ i + 1 \in 0..n /\ i \in Nat
    BY <1>1, <1>11
  <2>2. f[i + 1] = ApplyRow(f[i], jPark[i + 1]) /\ f[i] \in Arrays /\ jPark[i + 1] \in Rows
    BY <1>1, <1>4, <2>1
  <2>3. after[i + 1] = f[i + 1]
    BY <1>8, <1>11, <2>1, <2>2
  <2>4. ASSUME NEW r \in Rows PROVE Net(f[i + 1], r) = Net(z, r) + Times(jPark, i + 1, r)
    <3>1. Net(f[i + 1], r) = Net(f[i], r) + Bit(r = jPark[i + 1])
      <4> DEFINE a == f[i]
                 p == jPark[i + 1]
      <4>1. a \in Arrays /\ p \in Rows /\ f[i + 1] = ApplyRow(a, p)
        BY <2>2
      <4> HIDE DEF a, p
      <4>2. Net(ApplyRow(a, p), r) = Net(a, r) + Bit(r = p)
        BY <4>1, ApplyRowNet
      <4> QED BY <4>1, <4>2 DEF a, p
    <3>2. Times(jPark, i + 1, r) = Times(jPark, i, r) + (IF jPark[i + 1] = r THEN 1 ELSE 0)
          /\ Times(jPark, i, r) \in Nat
      BY <2>1, CountTo
    <3>3. Net(f[i], r) = Net(z, r) + Times(jPark, i, r)
      BY <1>11
    <3> QED BY <1>9, <3>1, <3>2, <3>3 DEF Bit
  <2> QED BY <2>1, <2>3, <2>4
<1>12. n \in P
  <2>1. P \in SUBSET (0..n)
    OBVIOUS
  <2>2. P = 0..n
    <3> HIDE DEF P, n
    <3> QED BY <1>1, <1>10, <1>11, <2>1, CountUp
  <2> QED BY <1>1, <2>2
<1>13. Drained = f[n] /\ f[n] \in Arrays
  <2>1. n \in 0..n
    BY <1>1
  <2> HIDE DEF n
  <2> QED BY <1>7, <1>12, <2>1
<1>14. \A r \in Rows : Net(f[n], r) = Net(z, r) + Parked(r)
  BY <1>12, ParkedTimes
<1> QED BY <1>9, <1>13, <1>14 DEF z

=============================================================================
