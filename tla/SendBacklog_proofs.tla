------------------------ MODULE SendBacklog_proofs -------------------------
(***************************************************************************)
(* Proofs about SendBacklog, for any number of connections and lanes, any  *)
(* buffer, caps and bounds that SizesAssumption allows.                    *)
(*                                                                         *)
(* Counting: what the total, a pass's budget and its shares come to.       *)
(* Types: TypeInv, where the threads can be and what they hold there.      *)
(* Order: each lane of the backlog continues its connection's stream.      *)
(* Verdicts: what a verdict is about, until the teardown it leads to.      *)
(* Losses and channels: what a step can take from a connection.            *)
(***************************************************************************)
EXTENDS SendBacklog, FiniteSetTheorems, TLAPS

-----------------------------------------------------------------------------
(* Counting.  The places of queues q, and the promises counted in p.       *)

Queues    == [Lanes -> Seq(Message)]
Places(q) == UNION {{l} \X DOMAIN q[l] : l \in Lanes}
Ledgers   == [Conns -> [Lanes -> Nat]]
Promises(p) == UNION {{<<c, l>>} \X (1..p[c][l]) : c \in Conns, l \in Lanes}

LEMMA Sizes ==
  /\ NumConns \in Nat /\ NumConns > 0 /\ NumLanes \in Nat /\ NumLanes > 0
  /\ Reserve \in Nat /\ Reserve > 0 /\ PassCap \in Nat /\ PassCap > 0
  /\ ByteCap \in Nat /\ ByteCap > 0 /\ NoProgress \in Nat /\ NoProgress > 0
  /\ BufSize \in Nat /\ MaxSends \in Nat /\ MaxKicks \in Nat /\ MaxMoved \in Nat
  /\ Reserve < BufSize /\ PassCap < ByteCap
BY SizesAssumption

LEMMA OneTo ==
  ASSUME NEW n \in Nat
  PROVE  IsFiniteSet(1..n) /\ Cardinality(1..n) = n
<1>1. 1 \in Int /\ n \in Int
  OBVIOUS
<1> QED BY <1>1, FS_Interval

\* Places and promises, one by one.
LEMMA PlaceOf ==
  ASSUME NEW q \in Queues, NEW l \in Lanes, NEW i
  PROVE  <<l, i>> \in Places(q) <=> i \in 1..Len(q[l])
<1>1. DOMAIN q[l] = 1..Len(q[l])
  BY DEF Queues
<1> QED BY <1>1 DEF Places

LEMMA PlaceIsPair ==
  ASSUME NEW q \in Queues, NEW e \in Places(q)
  PROVE  /\ e = <<e[1], e[2]>>
         /\ e[1] \in Lanes
         /\ e[2] \in 1..Len(q[e[1]])
<1>1. PICK l \in Lanes : e \in {l} \X DOMAIN q[l]
  BY DEF Places
<1>2. DOMAIN q[l] = 1..Len(q[l])
  BY DEF Queues
<1> QED BY <1>1, <1>2

LEMMA PlacesFinite ==
  ASSUME NEW q \in Queues
  PROVE  IsFiniteSet(Places(q)) /\ Cardinality(Places(q)) \in Nat
<1> DEFINE part == [l \in Lanes |-> {l} \X DOMAIN q[l]]
           S == {part[l] : l \in Lanes}
<1>1. IsFiniteSet(Lanes)
  BY Sizes, FS_Interval DEF Lanes
<1>2. part \in Surjection(Lanes, S)
  BY DEF Surjection
<1>3. IsFiniteSet(S)
  <2> HIDE DEF part, S
  <2> QED BY <1>1, <1>2, FS_Surjection
<1>4. ASSUME NEW T \in S PROVE IsFiniteSet(T)
  <2>1. PICK l \in Lanes : T = {l} \X DOMAIN q[l]
    OBVIOUS
  <2>2. Len(q[l]) \in Nat /\ DOMAIN q[l] = 1..Len(q[l])
    BY DEF Queues
  <2>3. IsFiniteSet(DOMAIN q[l])
    BY <2>2, OneTo
  <2>4. IsFiniteSet({l})
    BY FS_Singleton
  <2> QED BY <2>1, <2>3, <2>4, FS_Product
<1>5. IsFiniteSet(UNION S)
  <2> HIDE DEF S
  <2> QED BY <1>3, <1>4, FS_UNION
<1>6. Places(q) = UNION S
  BY DEF Places
<1> QED
  <2> HIDE DEF S
  <2> QED BY <1>5, <1>6, FS_CardinalityType

LEMMA PlacesEmpty ==
  ASSUME NEW q \in Queues
  PROVE  Cardinality(Places(q)) = 0 <=> \A l \in Lanes : q[l] = <<>>
<1>1. Cardinality(Places(q)) = 0 <=> Places(q) = {}
  BY PlacesFinite, FS_EmptySet
<1>2. ASSUME Places(q) = {}, NEW l \in Lanes PROVE q[l] = <<>>
  <2>1. <<l, 1>> \notin Places(q)
    BY <1>2
  <2>2. 1 \notin 1..Len(q[l]) /\ q[l] \in Seq(Message)
    BY <2>1, PlaceOf DEF Queues
  <2> QED BY <2>2
<1>3. ASSUME \A l \in Lanes : q[l] = <<>>, NEW e \in Places(q) PROVE FALSE
  <2>1. e[1] \in Lanes /\ e[2] \in 1..Len(q[e[1]])
    BY PlaceIsPair
  <2> QED BY <1>3, <2>1
<1> QED BY <1>1, <1>2, <1>3

LEMMA EmptyTotal ==
  /\ EmptyQueue \in Queues
  /\ Cardinality(Places(EmptyQueue)) = 0
<1>1. EmptyQueue \in Queues
  BY DEF EmptyQueue, Queues
<1>2. \A l \in Lanes : EmptyQueue[l] = <<>>
  BY DEF EmptyQueue
<1> QED BY <1>1, <1>2, PlacesEmpty

LEMMA AppendTotal ==
  ASSUME NEW q \in Queues, NEW l \in Lanes, NEW m \in Message,
         NEW r, r = [q EXCEPT ![l] = Append(@, m)]
  PROVE  /\ r \in Queues
         /\ Cardinality(Places(r)) = Cardinality(Places(q)) + 1
<1> DEFINE e == <<l, Len(q[l]) + 1>>
<1>1. r \in Queues
  BY DEF Queues
<1>2. q[l] \in Seq(Message) /\ Len(q[l]) \in Nat
  BY DEF Queues
<1>3. ASSUME NEW k \in Lanes, NEW i
      PROVE  <<k, i>> \in Places(r) <=> <<k, i>> \in Places(q) \cup {e}
  <2>1. CASE k = l
    <3>1. Len(r[k]) = Len(q[l]) + 1
      BY <1>2, <2>1 DEF Queues
    <3>2. i \in 1..Len(q[l]) + 1 <=> i \in 1..Len(q[l]) \/ i = Len(q[l]) + 1
      BY <1>2
    <3> QED BY <1>1, <2>1, <3>1, <3>2, PlaceOf
  <2>2. CASE k # l
    <3>1. r[k] = q[k]
      BY <2>2 DEF Queues
    <3> QED BY <1>1, <2>2, <3>1, PlaceOf
  <2> QED BY <2>1, <2>2
<1>4. Places(r) = Places(q) \cup {e}
  <2>1. ASSUME NEW x \in Places(r) PROVE x \in Places(q) \cup {e}
    <3>1. x = <<x[1], x[2]>> /\ x[1] \in Lanes
      BY <1>1, PlaceIsPair
    <3> HIDE DEF e
    <3> QED BY <1>3, <3>1
  <2>2. ASSUME NEW x \in Places(q) PROVE x \in Places(r)
    <3>1. x = <<x[1], x[2]>> /\ x[1] \in Lanes
      BY PlaceIsPair
    <3> HIDE DEF e
    <3> QED BY <1>3, <3>1
  <2>3. e \in Places(r)
    BY <1>3
  <2> HIDE DEF e
  <2> QED BY <2>1, <2>2, <2>3
<1>5. e \notin Places(q)
  BY <1>2, PlaceOf
<1> QED
  <2> HIDE DEF e
  <2> QED BY <1>1, <1>4, <1>5, PlacesFinite, FS_AddElement

\* What a pass may take of each lane, and of all of them.
LEMMA BudgetBound ==
  ASSUME TypeOK, NEW c \in Conns
  PROVE  /\ Budget(c) \in Nat
         /\ Budget(c) <= PassCap
         /\ pending[c] + Budget(c) <= BufSize
<1>1. pending[c] \in Nat /\ pending[c] <= BufSize
  BY Sizes DEF TypeOK
<1>2. CASE link[c] = "open" /\ pending[c] + Reserve < BufSize
  <2>1. Budget(c) = Least(BufSize - Reserve - pending[c], PassCap)
    BY <1>2 DEF Budget
  <2> QED BY <1>1, <1>2, <2>1, Sizes DEF Least
<1>3. CASE ~(link[c] = "open" /\ pending[c] + Reserve < BufSize)
  BY <1>1, <1>3, Sizes DEF Budget
<1> QED BY <1>2, <1>3

LEMMA AheadFinite ==
  ASSUME queue \in Queues, NEW l \in Lanes
  PROVE  IsFiniteSet(Ahead(l)) /\ Cardinality(Ahead(l)) \in Nat
<1>1. IsFiniteSet(Queued)
  BY PlacesFinite DEF Queued, Places
<1>2. Ahead(l) \in SUBSET Queued
  BY DEF Ahead
<1> QED BY <1>1, <1>2, FS_Subset, FS_CardinalityType

LEMMA ShareBound ==
  ASSUME TypeOK, NEW c \in Conns, NEW l \in Lanes
  PROVE  /\ Share(c, l) \in 0..Len(queue[l])
         /\ Share(c, l) > 0 => Cardinality(Ahead(l)) + Share(c, l) <= Budget(c)
<1>1. Len(queue[l]) \in Nat /\ queue \in Queues
  BY DEF TypeOK, Queues
<1>2. Budget(c) \in Nat /\ Cardinality(Ahead(l)) \in Nat
  BY <1>1, BudgetBound, AheadFinite
<1>3. Share(c, l) = IF Cardinality(Ahead(l)) < Budget(c)
                    THEN Least(Len(queue[l]), Budget(c) - Cardinality(Ahead(l))) ELSE 0
  BY DEF Share
<1> HIDE DEF Ahead
<1> QED BY <1>1, <1>2, <1>3 DEF Least

\* A lane has everything of the lanes before it ahead.
LEMMA AheadGrows ==
  ASSUME queue \in Queues, NEW k \in Lanes, NEW l \in Lanes, k < l
  PROVE  Cardinality(Ahead(k)) + Len(queue[k]) <= Cardinality(Ahead(l))
<1> DEFINE D == {k} \X (1..Len(queue[k]))
<1>1. Len(queue[k]) \in Nat /\ k \in Nat /\ l \in Nat
  BY Sizes DEF Queues, Lanes
<1>2. IsFiniteSet(D) /\ Cardinality(D) = Len(queue[k])
  <2>1. IsFiniteSet(1..Len(queue[k])) /\ Cardinality(1..Len(queue[k])) = Len(queue[k])
    BY <1>1, OneTo
  <2>2. IsFiniteSet({k}) /\ Cardinality({k}) = 1
    BY FS_Singleton
  <2>3. IsFiniteSet(D) /\ Cardinality(D) = 1 * Cardinality(1..Len(queue[k]))
    BY <2>1, <2>2, FS_Product
  <2> QED BY <1>1, <2>1, <2>3
<1>3. Ahead(k) \cap D = {}
  BY <1>1 DEF Ahead
<1>4. Ahead(k) \cup D \in SUBSET Ahead(l)
  <2>1. ASSUME NEW e \in D PROVE e \in Queued /\ e[1] < l
    <3>1. e[1] = k /\ e[2] \in 1..Len(queue[k]) /\ e = <<k, e[2]>>
      OBVIOUS
    <3>2. e \in Places(queue)
      BY <3>1, PlaceOf
    <3> QED BY <3>1, <3>2 DEF Queued, Places
  <2>2. ASSUME NEW e \in Ahead(k) PROVE e \in Queued /\ e[1] < l
    <3>1. e \in Places(queue) /\ e[1] < k
      BY DEF Ahead, Queued, Places
    <3>2. e[1] \in Nat
      BY <3>1, PlaceIsPair, Sizes DEF Lanes
    <3> QED BY <1>1, <3>1, <3>2 DEF Queued, Places
  <2> HIDE DEF D
  <2> QED BY <2>1, <2>2 DEF Ahead
<1>5. IsFiniteSet(Ahead(k)) /\ IsFiniteSet(Ahead(l)) /\ Cardinality(Ahead(k)) \in Nat
  BY AheadFinite
<1> HIDE DEF D
<1>6. Cardinality(Ahead(k) \cup D) = Cardinality(Ahead(k)) + Cardinality(D)
  <2>1. Cardinality(Ahead(k) \cup D)
          = Cardinality(Ahead(k)) + Cardinality(D) - Cardinality(Ahead(k) \cap D)
    BY <1>2, <1>5, FS_Union
  <2>2. Cardinality(Ahead(k) \cap D) = 0
    BY <1>3, FS_EmptySet
  <2> QED BY <1>1, <1>2, <1>5, <2>1, <2>2
<1>7. Cardinality(Ahead(k) \cup D) <= Cardinality(Ahead(l))
  BY <1>4, <1>5, FS_Subset
<1> QED BY <1>2, <1>6, <1>7

\* A pass stays within its budget, whatever the lanes hold.
Taken(c) == {e \in Queued : e[2] <= Share(c, e[1])}

LEMMA TakenFinite ==
  ASSUME TypeOK, NEW c \in Conns
  PROVE  /\ IsFiniteSet(Taken(c))
         /\ Taken(c) \in SUBSET Places(queue)
         /\ Sent(c) = Cardinality(Taken(c))
         /\ Sent(c) \in Nat
         /\ Sent(c) <= total
<1>1. queue \in Queues
  BY DEF TypeOK, Queues
<1>2. Queued = Places(queue) /\ total = Cardinality(Places(queue))
  BY DEF Queued, Places, TypeOK
<1>3. Sent(c) = Cardinality(Taken(c))
  BY DEF Sent, Taken
<1>4. Taken(c) \in SUBSET Places(queue)
  BY <1>2 DEF Taken
<1>5. IsFiniteSet(Places(queue)) /\ Cardinality(Places(queue)) \in Nat
  BY <1>1, PlacesFinite
<1>6. IsFiniteSet(Taken(c)) /\ Cardinality(Taken(c)) <= Cardinality(Places(queue))
  BY <1>4, <1>5, FS_Subset
<1>7. Cardinality(Taken(c)) \in Nat
  BY <1>6, FS_CardinalityType
<1> QED BY <1>2, <1>3, <1>4, <1>6, <1>7

LEMMA SentBound ==
  ASSUME TypeOK, NEW c \in Conns
  PROVE  Sent(c) <= Budget(c)
<1> DEFINE place == [e \in Taken(c) |-> Cardinality(Ahead(e[1])) + e[2]]
<1>1. queue \in Queues
  BY DEF TypeOK, Queues
<1>2. ASSUME NEW e \in Taken(c)
      PROVE  /\ e[1] \in Lanes /\ e[2] \in 1..Len(queue[e[1]]) /\ e = <<e[1], e[2]>>
             /\ e[2] <= Share(c, e[1])
             /\ Cardinality(Ahead(e[1])) \in Nat /\ Len(queue[e[1]]) \in Nat
  <2>1. e \in Places(queue) /\ e[2] <= Share(c, e[1])
    BY DEF Taken, Queued, Places
  <2>2. e[1] \in Lanes /\ e[2] \in 1..Len(queue[e[1]]) /\ e = <<e[1], e[2]>>
    BY <1>1, <2>1, PlaceIsPair
  <2> QED BY <1>1, <2>1, <2>2, AheadFinite DEF Queues
<1>3. Budget(c) \in Nat
  BY BudgetBound
<1>4. ASSUME NEW e \in Taken(c) PROVE place[e] \in 1..Budget(c)
  <2>1. Share(c, e[1]) \in 0..Len(queue[e[1]])
    BY <1>2, ShareBound
  <2>2. Share(c, e[1]) > 0
    BY <1>2, <2>1
  <2>3. Cardinality(Ahead(e[1])) + Share(c, e[1]) <= Budget(c)
    BY <1>2, <2>2, ShareBound
  <2> QED BY <1>2, <1>3, <2>1, <2>3
<1>5. ASSUME NEW e \in Taken(c), NEW f \in Taken(c), e[1] < f[1]
      PROVE  place[e] < place[f]
  <2>1. Cardinality(Ahead(e[1])) + Len(queue[e[1]]) <= Cardinality(Ahead(f[1]))
    BY <1>1, <1>2, <1>5, AheadGrows
  <2> QED BY <1>2, <2>1
<1>6. ASSUME NEW e \in Taken(c), NEW f \in Taken(c), place[e] = place[f]
      PROVE  e = f
  <2>1. e[1] \in Nat /\ f[1] \in Nat
    BY <1>2, Sizes DEF Lanes
  <2>2. e[1] = f[1]
    <3>1. place[e] \in Nat /\ place[f] \in Nat
      BY <1>4, <1>3
    <3> HIDE DEF place
    <3> QED BY <1>5, <1>6, <2>1, <3>1
  <2>3. e[2] = f[2]
    BY <1>2, <1>6, <2>2
  <2> QED BY <1>2, <2>2, <2>3
<1>7. place \in Injection(Taken(c), 1..Budget(c))
  <2>1. place \in [Taken(c) -> 1..Budget(c)]
    BY <1>4
  <2> HIDE DEF place
  <2> QED BY <1>6, <2>1 DEF Injection, IsInjective
<1>8. IsFiniteSet(1..Budget(c)) /\ Cardinality(1..Budget(c)) = Budget(c)
  BY <1>3, OneTo
<1>9. Cardinality(Taken(c)) <= Cardinality(1..Budget(c))
  <2> HIDE DEF place
  <2> QED BY <1>7, <1>8, FS_Injection
<1> QED BY <1>8, <1>9, TakenFinite

\* What a pass leaves is what it has not taken.
LEMMA DrainTotal ==
  ASSUME TypeOK, NEW c \in Conns, NEW r,
         r = [l \in Lanes |-> SubSeq(queue[l], Share(c, l) + 1, Len(queue[l]))]
  PROVE  /\ r \in Queues
         /\ \A l \in Lanes : /\ Len(r[l]) = Len(queue[l]) - Share(c, l)
                             /\ \A i \in 1..Len(r[l]) : r[l][i] = queue[l][i + Share(c, l)]
         /\ Cardinality(Places(r)) = total - Sent(c)
<1> DEFINE left == Places(queue) \ Taken(c)
           move == [e \in left |-> <<e[1], e[2] - Share(c, e[1])>>]
<1>1. queue \in Queues /\ total = Cardinality(Places(queue))
  BY DEF TypeOK, Queues, Queued, Places
<1>2. ASSUME NEW l \in Lanes
      PROVE  /\ Len(queue[l]) \in Nat /\ Share(c, l) \in 0..Len(queue[l])
             /\ r[l] \in Seq(Message) /\ Len(r[l]) = Len(queue[l]) - Share(c, l)
             /\ \A i \in 1..Len(r[l]) : r[l][i] = queue[l][i + Share(c, l)]
  <2>1. queue[l] \in Seq(Message) /\ Len(queue[l]) \in Nat
    BY <1>1 DEF Queues
  <2>2. Share(c, l) \in 0..Len(queue[l])
    BY ShareBound
  <2>3. r[l] = SubSeq(queue[l], Share(c, l) + 1, Len(queue[l]))
    OBVIOUS
  <2> DEFINE q == queue[l]
             k == Share(c, l)
             x == r[l]
  <2>4. q \in Seq(Message) /\ Len(q) \in Nat /\ k \in 0..Len(q) /\ x = SubSeq(q, k + 1, Len(q))
    BY <2>1, <2>2, <2>3
  <2> HIDE DEF q, k, x
  <2>5. x \in Seq(Message) /\ Len(x) = Len(q) - k /\ \A i \in 1..Len(x) : x[i] = q[i + k]
    BY <2>4
  <2> QED BY <2>4, <2>5 DEF q, k, x
<1>3. r \in Queues
  <2>1. r = [l \in Lanes |-> r[l]]
    OBVIOUS
  <2> QED BY <1>2, <2>1 DEF Queues
<1>4. ASSUME NEW e \in left
      PROVE  /\ e[1] \in Lanes /\ e[2] \in 1..Len(queue[e[1]]) /\ e = <<e[1], e[2]>>
             /\ e[2] > Share(c, e[1])
  <2>1. e \in Places(queue) /\ ~(e[2] <= Share(c, e[1]))
    BY DEF Taken, Queued, Places
  <2>2. e[1] \in Lanes /\ e[2] \in 1..Len(queue[e[1]]) /\ e = <<e[1], e[2]>>
    BY <1>1, <2>1, PlaceIsPair
  <2> QED BY <1>2, <2>1, <2>2
<1>5. ASSUME NEW e \in left PROVE move[e] \in Places(r)
  <2>1. e[2] - Share(c, e[1]) \in 1..Len(r[e[1]])
    BY <1>2, <1>4
  <2>2. <<e[1], e[2] - Share(c, e[1])>> \in Places(r)
    BY <1>3, <1>4, <2>1, PlaceOf
  <2> QED BY <2>2
<1>6. ASSUME NEW e \in left, NEW f \in left, move[e] = move[f] PROVE e = f
  <2>1. e[1] = f[1] /\ e[2] - Share(c, e[1]) = f[2] - Share(c, f[1])
    BY <1>6
  <2>2. e[2] = f[2]
    BY <1>2, <1>4, <2>1
  <2> QED BY <1>4, <2>1, <2>2
<1>7. ASSUME NEW p \in Places(r) PROVE \E e \in left : move[e] = p
  <2>1. p[1] \in Lanes /\ p[2] \in 1..Len(r[p[1]]) /\ p = <<p[1], p[2]>>
    BY <1>3, PlaceIsPair
  <2> DEFINE e == <<p[1], p[2] + Share(c, p[1])>>
  <2>2. e[2] \in 1..Len(queue[e[1]]) /\ ~(e[2] <= Share(c, e[1]))
    BY <1>2, <2>1
  <2>3. e \in Places(queue)
    BY <1>1, <2>1, <2>2, PlaceOf
  <2>4. e \notin Taken(c)
    BY <2>2 DEF Taken
  <2>5. move[e] = p
    BY <1>2, <2>1, <2>3, <2>4
  <2> QED BY <2>3, <2>4, <2>5
<1>8. move \in Bijection(left, Places(r))
  <2>1. move \in [left -> Places(r)]
    BY <1>5
  <2> HIDE DEF move, left
  <2> QED BY <1>6, <1>7, <2>1 DEF Bijection, Injection, IsInjective, Surjection
<1>9. IsFiniteSet(left) /\ Cardinality(left) = total - Sent(c)
  <2>1. IsFiniteSet(Places(queue))
    BY <1>1, PlacesFinite
  <2>2. Places(queue) \cap Taken(c) = Taken(c)
    BY TakenFinite
  <2>3. IsFiniteSet(left)
          /\ Cardinality(left) = Cardinality(Places(queue)) - Cardinality(Places(queue) \cap Taken(c))
    BY <2>1, FS_Difference
  <2> QED BY <1>1, <2>2, <2>3, TakenFinite
<1> HIDE DEF left, move
<1>10. Cardinality(Places(r)) = Cardinality(left)
  BY <1>8, <1>9, FS_Bijection DEF ExistsBijection
<1> QED BY <1>2, <1>3, <1>9, <1>10

LEMMA PromiseOf ==
  ASSUME NEW p \in Ledgers, NEW c \in Conns, NEW l \in Lanes, NEW n
  PROVE  /\ {<<c, l>>} \X (1..p[c][l]) \in SUBSET Promises(p)
         /\ <<<<c, l>>, n>> \in Promises(p) <=> n \in 1..p[c][l]
<1> DEFINE lane(d, k) == {<<d, k>>} \X (1..p[d][k])
           S == {lane(d, k) : d \in Conns, k \in Lanes}
<1>1. lane(c, l) \in S
  OBVIOUS
<1>2. Promises(p) = UNION S
  BY DEF Promises
<1>3. lane(c, l) \in SUBSET Promises(p)
  <2> HIDE DEF lane, S
  <2> QED BY <1>1, <1>2
<1>4. ASSUME <<<<c, l>>, n>> \in Promises(p) PROVE n \in 1..p[c][l]
  <2>1. PICK d \in Conns, k \in Lanes : <<<<c, l>>, n>> \in lane(d, k)
    BY <1>2, <1>4
  <2> QED BY <2>1
<1>5. ASSUME n \in 1..p[c][l] PROVE <<<<c, l>>, n>> \in Promises(p)
  BY <1>3, <1>5
<1> QED BY <1>3, <1>4, <1>5

LEMMA PromiseIsTriple ==
  ASSUME NEW p \in Ledgers, NEW e \in Promises(p)
  PROVE  \E c \in Conns, l \in Lanes : e = <<<<c, l>>, e[2]>> /\ e[2] \in 1..p[c][l]
BY DEF Promises

LEMMA PromisesFinite ==
  ASSUME NEW p \in Ledgers
  PROVE  IsFiniteSet(Promises(p)) /\ Cardinality(Promises(p)) \in Nat
<1> DEFINE part == [x \in Conns \X Lanes |-> {x} \X (1..p[x[1]][x[2]])]
           S == {part[x] : x \in Conns \X Lanes}
<1>1. IsFiniteSet(Conns \X Lanes)
  <2>1. IsFiniteSet(Conns) /\ IsFiniteSet(Lanes)
    BY Sizes, OneTo DEF Conns, Lanes
  <2> QED BY <2>1, FS_Product
<1>2. part \in Surjection(Conns \X Lanes, S)
  BY DEF Surjection
<1>3. IsFiniteSet(S)
  <2> HIDE DEF part, S
  <2> QED BY <1>1, <1>2, FS_Surjection
<1>4. ASSUME NEW T \in S PROVE IsFiniteSet(T)
  <2>1. PICK x \in Conns \X Lanes : T = {x} \X (1..p[x[1]][x[2]])
    OBVIOUS
  <2>2. p[x[1]][x[2]] \in Nat
    BY DEF Ledgers
  <2>3. IsFiniteSet(1..p[x[1]][x[2]])
    BY <2>2, OneTo
  <2>4. IsFiniteSet({x})
    BY FS_Singleton
  <2> QED BY <2>1, <2>3, <2>4, FS_Product
<1>5. IsFiniteSet(UNION S)
  <2> HIDE DEF S
  <2> QED BY <1>3, <1>4, FS_UNION
<1>6. Promises(p) \in SUBSET UNION S
  <2>1. ASSUME NEW c \in Conns, NEW l \in Lanes
        PROVE  {<<c, l>>} \X (1..p[c][l]) \in S
    <3>1. <<c, l>> \in Conns \X Lanes
      OBVIOUS
    <3>2. part[<<c, l>>] = {<<c, l>>} \X (1..p[c][l])
      BY <3>1
    <3> QED BY <3>1, <3>2
  <2> HIDE DEF S
  <2> QED BY <2>1 DEF Promises
<1>7. IsFiniteSet(Promises(p))
  <2> HIDE DEF S
  <2> QED BY <1>5, <1>6, FS_Subset
<1> QED BY <1>7, FS_CardinalityType

\* One more promise is counted as one more.
LEMMA PromiseCounted ==
  ASSUME NEW p \in Ledgers, NEW c \in Conns, NEW l \in Lanes,
         NEW r, r = [p EXCEPT ![c][l] = @ + 1]
  PROVE  /\ r \in Ledgers
         /\ Cardinality(Promises(r)) = Cardinality(Promises(p)) + 1
<1> DEFINE e == <<<<c, l>>, p[c][l] + 1>>
<1>1. r \in Ledgers /\ p[c][l] \in Nat /\ r[c][l] = p[c][l] + 1
  BY DEF Ledgers
<1>2. ASSUME NEW d \in Conns, NEW k \in Lanes, <<d, k>> # <<c, l>>
      PROVE  r[d][k] = p[d][k]
  BY <1>2 DEF Ledgers
<1>3. Promises(r) = Promises(p) \cup {e}
  <2>1. ASSUME NEW x \in Promises(r) PROVE x \in Promises(p) \cup {e}
    <3>1. PICK d \in Conns, k \in Lanes : x = <<<<d, k>>, x[2]>> /\ x[2] \in 1..r[d][k]
      BY <1>1, PromiseIsTriple
    <3>2. CASE <<d, k>> = <<c, l>>
      <4>1. x[2] \in 1..p[c][l] \/ x[2] = p[c][l] + 1
        BY <1>1, <3>1, <3>2
      <4>2. x[2] \in 1..p[c][l] => x \in Promises(p)
        BY <3>1, <3>2, PromiseOf
      <4>3. x[2] = p[c][l] + 1 => x = e
        BY <3>1, <3>2
      <4> QED BY <4>1, <4>2, <4>3
    <3>3. CASE <<d, k>> # <<c, l>>
      <4>1. x[2] \in 1..p[d][k]
        BY <1>2, <3>1, <3>3
      <4> QED BY <3>1, <4>1, PromiseOf
    <3> QED BY <3>2, <3>3
  <2>2. ASSUME NEW x \in Promises(p) PROVE x \in Promises(r)
    <3>1. PICK d \in Conns, k \in Lanes : x = <<<<d, k>>, x[2]>> /\ x[2] \in 1..p[d][k]
      BY PromiseIsTriple
    <3>2. p[d][k] \in Nat /\ r[d][k] \in Nat /\ p[d][k] <= r[d][k]
      BY <1>1, <1>2 DEF Ledgers
    <3>3. x[2] \in 1..r[d][k]
      BY <3>1, <3>2
    <3>4. <<<<d, k>>, x[2]>> \in Promises(r)
      BY <1>1, <3>3, PromiseOf
    <3> QED BY <3>1, <3>4
  <2>3. e \in Promises(r)
    <3>1. p[c][l] + 1 \in 1..r[c][l]
      BY <1>1
    <3> QED BY <1>1, <3>1, PromiseOf
  <2> HIDE DEF e
  <2> QED BY <2>1, <2>2, <2>3
<1>4. e \notin Promises(p)
  <2>1. p[c][l] + 1 \notin 1..p[c][l]
    BY <1>1
  <2> QED BY <2>1, PromiseOf
<1> HIDE DEF e
<1> QED BY <1>1, <1>3, <1>4, PromisesFinite, FS_AddElement

\* A lane's promises are among all promises.
LEMMA PromisedBound ==
  ASSUME NEW p \in Ledgers, NEW c \in Conns, NEW l \in Lanes
  PROVE  p[c][l] <= Cardinality(Promises(p))
<1> DEFINE D == {<<c, l>>} \X (1..p[c][l])
<1>1. p[c][l] \in Nat
  BY DEF Ledgers
<1>2. IsFiniteSet(1..p[c][l]) /\ Cardinality(1..p[c][l]) = p[c][l]
  BY <1>1, OneTo
<1>3. IsFiniteSet({<<c, l>>}) /\ Cardinality({<<c, l>>}) = 1
  BY FS_Singleton
<1>4. Cardinality(D) = 1 * Cardinality(1..p[c][l])
  BY <1>2, <1>3, FS_Product
<1>5. D \in SUBSET Promises(p)
  BY PromiseOf
<1>6. Cardinality(D) <= Cardinality(Promises(p))
  <2> HIDE DEF D
  <2> QED BY <1>5, PromisesFinite, FS_Subset
<1> HIDE DEF D
<1> QED BY <1>1, <1>2, <1>4, <1>6

\* The senders under way.
Labels     == {"idle", "send", "drain", "check", "kick", "free", "release"}
Senders(p) == {t \in Threads : p[t] = "send"}

LEMMA SendersFinite ==
  ASSUME NEW p
  PROVE  IsFiniteSet(Senders(p)) /\ Cardinality(Senders(p)) \in Nat
<1>1. IsFiniteSet({"net"}) /\ IsFiniteSet({"game"})
  BY FS_Singleton
<1>2. Threads = {"net"} \cup {"game"}
  BY DEF Threads
<1>3. IsFiniteSet(Threads)
  BY <1>1, <1>2, FS_Union
<1>4. Senders(p) \in SUBSET Threads
  BY DEF Senders
<1> QED BY <1>3, <1>4, FS_Subset, FS_CardinalityType

-----------------------------------------------------------------------------
(* Types.                                                                  *)

\* Where the threads can be, and what they hold there.
Phases ==
  /\ pc["game"] \notin {"drain", "check", "kick"}
  /\ \A t \in Threads : pc[t] # "idle" => held[t] \in Conns
  /\ \A t \in Threads : pc[t] \in {"free", "release"} => held[t] # peerConns
  /\ pc["net"] \in {"drain", "check", "kick"} => peerConns \in {held["net"], NoConn}

\* A connection that somebody knows of has been admitted.
Admitted ==
  \A c \in Conns : c \in {peerConns, stamp} \cup {held[t] : t \in Threads}
    => link[c] # "parked"

\* A sender under way has its place within the bound.
SendBound == Cardinality(Promised) + Cardinality(Sending) <= MaxSends

TypeInv == TypeOK /\ Phases /\ Admitted /\ SendBound

\* The parts of TypeOK.
GnsType ==
  /\ link \in [Conns -> {"parked", "open", "dead", "closed"}]
  /\ pending \in [Conns -> 0..BufSize]
  /\ stream \in [Conns -> [Lanes -> Seq(Message)]]
BacklogType ==
  /\ queue \in Queues
  /\ stamp \in Conns \cup {NoConn}
  /\ total = Cardinality(Places(queue))
  /\ fatal \in BOOLEAN
  /\ stalled \in 0..NoProgress + 1
  /\ moved \in 0..MaxMoved
ThreadType ==
  /\ pc \in [Threads -> Labels]
  /\ held \in [Threads -> Conns \cup {NoConn}]

LEMMA TypeParts ==
  TypeOK <=> /\ peerConns \in Conns \cup {NoConn}
             /\ GnsType /\ BacklogType /\ ThreadType
             /\ promised \in [Conns -> [Lanes -> 0..MaxSends]]
             /\ passed \in BOOLEAN
             /\ kicks \in 0..MaxKicks
BY DEF TypeOK, GnsType, BacklogType, ThreadType, Queues, Places, Queued, Labels

LEMMA TypePartsNext ==
  TypeOK' <=> /\ peerConns' \in Conns \cup {NoConn}
              /\ GnsType' /\ BacklogType' /\ ThreadType'
              /\ promised' \in [Conns -> [Lanes -> 0..MaxSends]]
              /\ passed' \in BOOLEAN
              /\ kicks' \in 0..MaxKicks
BY DEF TypeOK, GnsType, BacklogType, ThreadType, Queues, Places, Queued, Labels

LEMMA StepType ==
  ASSUME ThreadType, NEW t \in Threads, NEW l \in Labels, NEW m \in Labels,
         NEW c \in Conns \cup {NoConn}, StepWith(t, l, m, c)
  PROVE  /\ ThreadType'
         /\ pc[t] = l /\ pc'[t] = m
         /\ held'[t] = IF m = "idle" THEN NoConn ELSE c
         /\ \A u \in Threads : u # t => pc'[u] = pc[u] /\ held'[u] = held[u]
         /\ l # "send" /\ m # "send" => Cardinality(Sending') = Cardinality(Sending)
         /\ l = "send" /\ m # "send" => Cardinality(Sending') = Cardinality(Sending) - 1
         /\ l # "send" /\ m = "send" => Cardinality(Sending') = Cardinality(Sending) + 1
<1>1. ThreadType' /\ pc[t] = l /\ pc'[t] = m
  BY DEF ThreadType, StepWith
<1>2. /\ held'[t] = IF m = "idle" THEN NoConn ELSE c
      /\ \A u \in Threads : u # t => pc'[u] = pc[u] /\ held'[u] = held[u]
  BY DEF ThreadType, StepWith
<1>3. pc' = [pc EXCEPT ![t] = m] /\ pc \in [Threads -> Labels]
  BY DEF ThreadType, StepWith
<1>4. Sending = Senders(pc) /\ Sending' = Senders(pc')
  BY DEF Sending, Senders
<1>5. /\ pc[t] # "send" /\ m = "send"
           => Cardinality(Senders(pc')) = Cardinality(Senders(pc)) + 1
      /\ pc[t] = "send" /\ m # "send"
           => Cardinality(Senders(pc')) = Cardinality(Senders(pc)) - 1
      /\ pc[t] # "send" /\ m # "send"
           => Cardinality(Senders(pc')) = Cardinality(Senders(pc))
  <2> DEFINE p == pc
             r == pc'
  <2>1. p \in [Threads -> Labels] /\ r = [p EXCEPT ![t] = m]
    BY <1>3
  <2> HIDE DEF p, r
  <2>2. /\ p[t] # "send" /\ m = "send"
             => Cardinality(Senders(r)) = Cardinality(Senders(p)) + 1
        /\ p[t] = "send" /\ m # "send"
             => Cardinality(Senders(r)) = Cardinality(Senders(p)) - 1
        /\ p[t] # "send" /\ m # "send"
             => Cardinality(Senders(r)) = Cardinality(Senders(p))
    <3>1. \A u \in Threads : r[u] = IF u = t THEN m ELSE p[u]
      BY <2>1
    <3>2. CASE p[t] # "send" /\ m = "send"
      <4>1. Senders(r) = Senders(p) \cup {t} /\ t \notin Senders(p)
        BY <3>1, <3>2 DEF Senders
      <4> QED BY <3>2, <4>1, SendersFinite, FS_AddElement
    <3>3. CASE p[t] = "send" /\ m # "send"
      <4>1. Senders(p) = Senders(r) \cup {t} /\ t \notin Senders(r)
        BY <3>1, <3>3 DEF Senders
      <4>2. Cardinality(Senders(p)) = Cardinality(Senders(r)) + 1
        BY <4>1, SendersFinite, FS_AddElement
      <4>3. Cardinality(Senders(r)) \in Nat
        BY SendersFinite
      <4> QED BY <3>3, <4>2, <4>3
    <3>4. CASE p[t] # "send" /\ m # "send"
      <4>1. Senders(r) = Senders(p)
        BY <3>1, <3>4 DEF Senders
      <4> QED BY <3>4, <4>1
    <3>5. CASE p[t] = "send" /\ m = "send"
      BY <3>5
    <3> QED BY <3>2, <3>3, <3>4, <3>5
  <2> USE DEF p, r
  <2> QED BY <2>2
<1> QED BY <1>1, <1>2, <1>4, <1>5

LEMMA ResetType ==
  ASSUME BacklogType, Reset
  PROVE  BacklogType' /\ total' = 0 /\ stamp' = NoConn /\ fatal' = FALSE
         /\ \A l \in Lanes : queue'[l] = <<>>
<1>1. queue' = EmptyQueue /\ stamp' = NoConn /\ total' = 0 /\ fatal' = FALSE
      /\ stalled' = 0 /\ moved' = 0
  BY DEF Reset
<1>2. queue' \in Queues /\ Cardinality(Places(queue')) = 0
  BY <1>1, EmptyTotal
<1>3. stalled' \in 0..NoProgress + 1 /\ moved' \in 0..MaxMoved
  BY <1>1, Sizes
<1>4. \A l \in Lanes : queue'[l] = <<>>
  BY <1>1 DEF EmptyQueue
<1>5. BacklogType'
  BY <1>1, <1>2, <1>3 DEF BacklogType
<1> QED BY <1>1, <1>4, <1>5

LEMMA DiscardType ==
  ASSUME BacklogType, NEW c \in Conns, DiscardForeign(c)
  PROVE  BacklogType'
<1>1. CASE Foreign(c)
  BY <1>1, ResetType DEF DiscardForeign
<1>2. CASE ~Foreign(c)
  BY <1>2 DEF DiscardForeign, backlogVars, BacklogType, Places
<1> QED BY <1>1, <1>2

\* A new promise, of a sender whose place is within the bound.
LEMMA FreshType ==
  ASSUME TypeInv, NEW t \in Threads, pc[t] = "send", NEW l \in Lanes
  PROVE  /\ held[t] \in Conns
         /\ promised[held[t]][l] + 1 \in 1..MaxSends
         /\ Fresh(held[t], l) \in Message
         /\ Fresh(held[t], l).to = held[t]
         /\ Fresh(held[t], l).n = promised[held[t]][l] + 1
<1>1. held[t] \in Conns
  BY DEF TypeInv, Phases
<1>2. promised \in Ledgers /\ pc \in [Threads -> Labels]
  BY DEF TypeInv, TypeOK, Ledgers, Labels
<1>3. Promised = Promises(promised) /\ Sending = Senders(pc)
  BY DEF Promised, Promises, Sending, Senders
<1>4. Cardinality(Senders(pc)) >= 1
  <2>1. IsFiniteSet(Senders(pc)) /\ Cardinality(Senders(pc)) \in Nat
    BY SendersFinite
  <2>2. t \in Senders(pc)
    BY DEF Senders
  <2>3. Cardinality(Senders(pc)) # 0
    BY <2>1, <2>2, FS_EmptySet
  <2> QED BY <2>1, <2>3
<1>5. promised[held[t]][l] <= Cardinality(Promises(promised))
  BY <1>1, <1>2, PromisedBound
<1>6. Cardinality(Promises(promised)) \in Nat /\ Cardinality(Senders(pc)) \in Nat
  BY <1>2, PromisesFinite, SendersFinite
<1>7. promised[held[t]][l] \in Nat
  BY <1>1, <1>2 DEF Ledgers
<1>8. promised[held[t]][l] + 1 \in 1..MaxSends
  BY <1>3, <1>4, <1>5, <1>6, <1>7, Sizes DEF TypeInv, SendBound
<1> QED BY <1>1, <1>8 DEF Fresh, Message

LEMMA PromiseType ==
  ASSUME TypeInv, NEW t \in Threads, pc[t] = "send", NEW l \in Lanes,
         Promise(held[t], l)
  PROVE  /\ promised' \in [Conns -> [Lanes -> 0..MaxSends]]
         /\ promised'[held[t]][l] = promised[held[t]][l] + 1
         /\ \A c \in Conns, k \in Lanes : c # held[t] \/ k # l => promised'[c][k] = promised[c][k]
         /\ Cardinality(Promised') = Cardinality(Promised) + 1
<1>1. held[t] \in Conns /\ promised[held[t]][l] + 1 \in 1..MaxSends
  BY FreshType
<1>2. promised \in [Conns -> [Lanes -> 0..MaxSends]]
  BY DEF TypeInv, TypeOK
<1>3. promised' = [promised EXCEPT ![held[t]][l] = @ + 1]
  BY DEF Promise
<1>4. promised' \in [Conns -> [Lanes -> 0..MaxSends]]
  BY <1>1, <1>2, <1>3, Sizes
<1>5. promised \in Ledgers
  BY <1>2 DEF Ledgers
<1>6. Promised = Promises(promised) /\ Promised' = Promises(promised')
  BY DEF Promised, Promises
<1>7. Cardinality(Promised') = Cardinality(Promised) + 1
  BY <1>1, <1>3, <1>5, <1>6, PromiseCounted
<1> QED BY <1>1, <1>2, <1>3, <1>4, <1>7

\* What a thread's step leaves of Phases and Admitted when it only empties the
\* slot or leaves it alone.
LEMMA StepPhases ==
  ASSUME TypeInv, NEW t \in Threads, NEW l \in Labels, NEW m \in Labels,
         NEW c \in Conns \cup {NoConn}, StepWith(t, l, m, c),
         m # "idle" => c \in Conns,
         m \in {"drain", "check", "kick"} => t = "net" /\ peerConns' \in {c, NoConn},
         m \in {"free", "release"} => c # peerConns',
         peerConns' \in {peerConns, NoConn}
  PROVE  Phases'
<1>1. ThreadType /\ Phases
  BY TypeParts DEF TypeInv
<1>2. /\ pc'[t] = m
      /\ held'[t] = IF m = "idle" THEN NoConn ELSE c
      /\ \A u \in Threads : u # t => pc'[u] = pc[u] /\ held'[u] = held[u]
  BY <1>1, StepType
<1>3. NoConn \notin Conns
  BY Sizes DEF NoConn, Conns
<1>4. pc'["game"] \notin {"drain", "check", "kick"}
  BY <1>1, <1>2 DEF Phases, Threads
<1>5. \A u \in Threads : pc'[u] # "idle" => held'[u] \in Conns
  BY <1>1, <1>2 DEF Phases
<1>6. \A u \in Threads : pc'[u] \in {"free", "release"} => held'[u] # peerConns'
  BY <1>1, <1>2, <1>3, <1>5 DEF Phases
<1>7. pc'["net"] \in {"drain", "check", "kick"} => peerConns' \in {held'["net"], NoConn}
  BY <1>1, <1>2 DEF Phases, Threads
<1> QED BY <1>4, <1>5, <1>6, <1>7 DEF Phases

LEMMA StepAdmitted ==
  ASSUME TypeInv, NEW t \in Threads, NEW l \in Labels, NEW m \in Labels,
         NEW c \in Conns \cup {NoConn}, StepWith(t, l, m, c),
         c \in {peerConns, held[t], NoConn},
         peerConns' \in {peerConns, NoConn},
         stamp' \in {stamp, held[t], NoConn},
         \A d \in Conns : link'[d] = "parked" => link[d] = "parked"
  PROVE  Admitted'
<1>1. ThreadType /\ Admitted
  BY TypeParts DEF TypeInv
<1>2. /\ held'[t] = IF m = "idle" THEN NoConn ELSE c
      /\ \A u \in Threads : u # t => held'[u] = held[u]
  BY <1>1, StepType
<1>3. NoConn \notin Conns
  BY Sizes DEF NoConn, Conns
<1> SUFFICES ASSUME NEW d \in Conns,
                    d \in {peerConns', stamp'} \cup {held'[u] : u \in Threads}
             PROVE  link'[d] # "parked"
  BY DEF Admitted
<1>4. ASSUME NEW u \in Threads, d = held'[u]
      PROVE  d \in {peerConns} \cup {held[v] : v \in Threads}
  BY <1>2, <1>3, <1>4
<1>5. d \in {peerConns, stamp} \cup {held[v] : v \in Threads}
  BY <1>3, <1>4
<1>6. link[d] # "parked"
  BY <1>1, <1>5 DEF Admitted
<1> QED BY <1>6

LEMMA CountsType ==
  ASSUME TypeInv
  PROVE  Cardinality(Promised) \in Nat /\ Cardinality(Sending) \in Nat
<1>1. Promised = Promises(promised) /\ promised \in Ledgers /\ Sending = Senders(pc)
  BY TypeParts DEF TypeInv, Promised, Promises, Ledgers, Sending, Senders
<1> QED BY <1>1, PromisesFinite, SendersFinite

\* What a step leaves of the four parts when it promises nothing.
LEMMA BoundKept ==
  ASSUME TypeInv, UNCHANGED promised,
         \/ UNCHANGED pc
         \/ \E t \in Threads, l \in Labels, m \in Labels \ {"send"}, c \in Conns \cup {NoConn} :
              StepWith(t, l, m, c)
  PROVE  SendBound'
<1>1. Promised' = Promised
  BY DEF Promised
<1>2. Cardinality(Sending') <= Cardinality(Sending)
  <2>1. CASE UNCHANGED pc
    <3>1. Sending' = Sending
      BY <2>1 DEF Sending
    <3> QED BY <3>1, CountsType
  <2>2. ASSUME NEW t \in Threads, NEW l \in Labels, NEW m \in Labels \ {"send"},
               NEW c \in Conns \cup {NoConn}, StepWith(t, l, m, c)
        PROVE  Cardinality(Sending') <= Cardinality(Sending)
    <3>1. \/ Cardinality(Sending') = Cardinality(Sending)
          \/ Cardinality(Sending') = Cardinality(Sending) - 1
      BY <2>2, StepType, TypeParts DEF TypeInv
    <3> QED BY <3>1, CountsType
  <2> QED BY <2>1, <2>2
<1>3. Cardinality(Sending') \in Int
  <2>1. Sending' = Senders(pc')
    BY DEF Sending, Senders
  <2> QED BY <2>1, SendersFinite
<1> QED BY <1>1, <1>2, <1>3, CountsType, Sizes DEF TypeInv, SendBound

LEMMA OtherPhases ==
  ASSUME TypeInv, UNCHANGED <<pc, held>>, peerConns' = peerConns
  PROVE  Phases'
BY DEF TypeInv, Phases

LEMMA OtherAdmitted ==
  ASSUME TypeInv, UNCHANGED <<held, stamp, peerConns>>,
         \A d \in Conns : link'[d] = "parked" => link[d] = "parked"
  PROVE  Admitted'
BY DEF TypeInv, Admitted

\* The steps, one by one.
LEMMA TypeInit == Init => TypeInv
<1> SUFFICES ASSUME Init PROVE TypeInv
  OBVIOUS
<1>1. BacklogType
  <2>1. queue \in Queues /\ total = Cardinality(Places(queue))
    BY EmptyTotal DEF Init
  <2>2. stamp = NoConn /\ fatal = FALSE /\ stalled = 0 /\ moved = 0
    BY DEF Init
  <2>3. 0 \in 0..NoProgress + 1 /\ 0 \in 0..MaxMoved
    BY Sizes
  <2> QED BY <2>1, <2>2, <2>3 DEF BacklogType
<1>2. GnsType
  <2>1. EmptyQueue \in [Lanes -> Seq(Message)]
    BY EmptyTotal DEF Queues
  <2> QED BY <2>1, Sizes DEF Init, GnsType
<1>3. ThreadType
  BY DEF Init, ThreadType, Labels, NoConn
<1>4. TypeOK
  <2>1. peerConns = NoConn /\ passed = FALSE /\ kicks = 0
        /\ promised = [c \in Conns |-> [l \in Lanes |-> 0]]
    BY DEF Init
  <2>2. 0 \in 0..MaxSends /\ 0 \in 0..MaxKicks
    BY Sizes
  <2>3. promised \in [Conns -> [Lanes -> 0..MaxSends]]
    BY <2>1, <2>2
  <2> QED BY <1>1, <1>2, <1>3, <2>1, <2>2, <2>3, TypeParts
<1>5. Phases
  BY DEF Init, Phases, Threads
<1>6. Admitted
  BY Sizes DEF Init, Admitted, NoConn, Conns
<1>7. SendBound
  <2>1. Promised = {}
    <3>1. \A c \in Conns, l \in Lanes : {<<c, l>>} \X (1..promised[c][l]) = {}
      BY DEF Init
    <3> QED BY <3>1 DEF Promised
  <2>2. Sending = {}
    BY DEF Init, Sending
  <2> QED BY <2>1, <2>2, FS_EmptySet, Sizes DEF SendBound
<1> QED BY <1>4, <1>5, <1>6, <1>7 DEF TypeInv

LEMMA LoadHandleType ==
  ASSUME TypeInv, NEW t \in Threads, LoadHandle(t)
  PROVE  TypeInv'
<1>1. /\ peerConns \in Conns /\ StepWith(t, "idle", "send", peerConns)
      /\ Cardinality(Promised) + Cardinality(Sending) < MaxSends
      /\ UNCHANGED <<peerConns, gnsVars, promised, backlogVars, passed, kicks>>
  BY TypeParts DEF TypeInv, LoadHandle
<1>2. ThreadType' /\ Cardinality(Sending') = Cardinality(Sending) + 1
  BY <1>1, StepType, TypeParts DEF TypeInv, Labels
<1>3. TypeOK'
  BY <1>1, <1>2, TypeParts, TypePartsNext
     DEF TypeInv, gnsVars, backlogVars, GnsType, BacklogType, Places
<1>4. Phases'
  BY <1>1, StepPhases DEF Labels
<1>5. Admitted'
  BY <1>1, StepAdmitted DEF Labels, gnsVars, backlogVars
<1>6. SendBound'
  <2>1. Promised' = Promised
    BY <1>1 DEF Promised
  <2>2. Cardinality(Promised) \in Nat /\ Cardinality(Sending) \in Nat
    BY CountsType
  <2> QED BY <1>1, <1>2, <2>1, <2>2, Sizes DEF SendBound
<1> QED BY <1>3, <1>4, <1>5, <1>6 DEF TypeInv

\* A sender's last step.
LEMMA SendEnds ==
  ASSUME TypeInv, NEW t \in Threads, Step(t, "send", "idle"), UNCHANGED <<peerConns, link>>,
         stamp' \in {stamp, held[t], NoConn}
  PROVE  /\ ThreadType' /\ Phases' /\ Admitted'
         /\ Cardinality(Sending') = Cardinality(Sending) - 1
<1>1. StepWith(t, "send", "idle", held[t]) /\ held[t] \in Conns \cup {NoConn}
  BY TypeParts DEF TypeInv, Step, ThreadType
<1>2. ThreadType' /\ Cardinality(Sending') = Cardinality(Sending) - 1
  BY <1>1, StepType, TypeParts DEF TypeInv, Labels
<1>3. Phases'
  BY <1>1, StepPhases DEF Labels
<1>4. Admitted'
  BY <1>1, StepAdmitted DEF Labels
<1> QED BY <1>2, <1>3, <1>4

LEMMA PromisedInstead ==
  ASSUME TypeInv, NEW t \in Threads, pc[t] = "send", NEW l \in Lanes,
         Promise(held[t], l), Cardinality(Sending') = Cardinality(Sending) - 1
  PROVE  SendBound'
<1>1. Cardinality(Promised') = Cardinality(Promised) + 1
  BY PromiseType
<1> QED BY <1>1, CountsType, Sizes DEF TypeInv, SendBound

LEMMA SendThroughType ==
  ASSUME TypeInv, NEW t \in Threads, NEW l \in Lanes, SendThrough(t, l)
  PROVE  TypeInv'
<1> DEFINE c == held[t]
<1>1. /\ Step(t, "send", "idle") /\ Room(c) /\ DiscardForeign(c)
      /\ stream' = [stream EXCEPT ![c][l] = Append(@, Fresh(c, l))]
      /\ pending' = [pending EXCEPT ![c] = @ + 1]
      /\ Promise(c, l)
      /\ UNCHANGED <<peerConns, link, passed, kicks>>
  BY DEF SendThrough
<1>2. pc[t] = "send"
  BY <1>1 DEF Step, StepWith
<1>3. c \in Conns /\ Fresh(c, l) \in Message
  BY <1>2, FreshType
<1>4. BacklogType'
  BY <1>1, <1>3, DiscardType, TypeParts DEF TypeInv
<1>5. stamp' \in {stamp, held[t], NoConn}
  BY <1>1 DEF DiscardForeign, Reset, backlogVars
<1>6. GnsType'
  <2>1. pending' \in [Conns -> 0..BufSize]
    <3>1. pending \in [Conns -> 0..BufSize] /\ pending[c] \in 0..BufSize /\ pending[c] < BufSize
      BY <1>1, <1>3, TypeParts DEF TypeInv, GnsType, Room
    <3>2. pending[c] + 1 \in 0..BufSize
      BY <3>1, Sizes
    <3> QED BY <1>1, <1>3, <3>1, <3>2
  <2>2. stream' \in [Conns -> [Lanes -> Seq(Message)]]
    BY <1>1, <1>3, TypeParts DEF TypeInv, GnsType
  <2> QED BY <1>1, <2>1, <2>2, TypeParts DEF TypeInv, GnsType
<1>7. /\ ThreadType' /\ Phases' /\ Admitted'
      /\ Cardinality(Sending') = Cardinality(Sending) - 1
  BY <1>1, <1>5, SendEnds
<1>8. promised' \in [Conns -> [Lanes -> 0..MaxSends]]
  BY <1>1, <1>2, PromiseType
<1>9. TypeOK'
  BY <1>1, <1>4, <1>6, <1>7, <1>8, TypeParts, TypePartsNext DEF TypeInv
<1>10. SendBound'
  BY <1>1, <1>2, <1>7, PromisedInstead
<1> QED BY <1>7, <1>9, <1>10 DEF TypeInv

LEMMA SendRefusedType ==
  ASSUME TypeInv, NEW t \in Threads, NEW l \in Lanes, SendRefused(t, l)
  PROVE  TypeInv'
<1>1. /\ Step(t, "send", "idle") /\ DiscardForeign(held[t])
      /\ UNCHANGED <<peerConns, gnsVars, promised, passed, kicks>>
  BY DEF SendRefused
<1>2. pc[t] = "send" /\ held[t] \in Conns
  BY <1>1 DEF Step, StepWith, TypeInv, Phases
<1>3. BacklogType'
  BY <1>1, <1>2, DiscardType, TypeParts DEF TypeInv
<1>4. stamp' \in {stamp, held[t], NoConn}
  BY <1>1 DEF DiscardForeign, Reset, backlogVars
<1>5. ThreadType' /\ Phases' /\ Admitted'
  BY <1>1, <1>4, SendEnds DEF gnsVars
<1>6. TypeOK'
  BY <1>1, <1>3, <1>5, TypeParts, TypePartsNext DEF TypeInv, gnsVars, GnsType
<1>7. SendBound'
  <2>1. StepWith(t, "send", "idle", held[t])
    BY <1>1 DEF Step
  <2> QED BY <1>1, <1>2, <2>1, BoundKept DEF Labels
<1> QED BY <1>5, <1>6, <1>7 DEF TypeInv

LEMMA SendQueuedType ==
  ASSUME TypeInv, NEW t \in Threads, NEW l \in Lanes, SendQueued(t, l)
  PROVE  TypeInv'
<1> DEFINE c    == held[t]
           kept == IF Foreign(c) THEN EmptyQueue ELSE queue
           size == IF Foreign(c) THEN 0 ELSE total
<1>1. /\ Step(t, "send", "idle")
      /\ queue' = [kept EXCEPT ![l] = Append(@, Fresh(c, l))]
      /\ total' = size + 1
      /\ fatal' = (size + 1 > ByteCap \/ (fatal /\ ~Foreign(c)))
      /\ stalled' = IF size = 0 THEN 0 ELSE stalled
      /\ moved' = IF size = 0 THEN 0 ELSE moved
      /\ stamp' = c
      /\ Promise(c, l)
      /\ UNCHANGED <<peerConns, gnsVars, passed, kicks>>
  BY DEF SendQueued
<1>2. pc[t] = "send"
  BY <1>1 DEF Step, StepWith
<1>3. c \in Conns /\ Fresh(c, l) \in Message
  BY <1>2, FreshType
<1>4. kept \in Queues /\ size = Cardinality(Places(kept)) /\ size \in Nat
  BY EmptyTotal, PlacesFinite, TypeParts DEF TypeInv, BacklogType
<1>5. queue' \in Queues /\ Cardinality(Places(queue')) = size + 1
  <2> DEFINE r == queue'
             m == Fresh(c, l)
  <2>1. r = [kept EXCEPT ![l] = Append(@, m)] /\ kept \in Queues /\ m \in Message
    BY <1>1, <1>3, <1>4
  <2>2. r \in Queues /\ Cardinality(Places(r)) = Cardinality(Places(kept)) + 1
    <3> HIDE DEF kept, size, c, r, m
    <3> QED BY <2>1, AppendTotal
  <2> QED BY <1>4, <2>2
<1>6. stalled' \in 0..NoProgress + 1 /\ moved' \in 0..MaxMoved
  <2>1. stalled \in 0..NoProgress + 1 /\ moved \in 0..MaxMoved
    BY TypeParts DEF TypeInv, BacklogType
  <2>2. 0 \in 0..NoProgress + 1 /\ 0 \in 0..MaxMoved
    BY Sizes
  <2> HIDE DEF size
  <2> QED BY <1>1, <2>1, <2>2
<1>7. fatal' \in BOOLEAN
  BY <1>1
<1>8. BacklogType'
  <2> HIDE DEF kept, size
  <2> QED BY <1>1, <1>3, <1>5, <1>6, <1>7 DEF BacklogType
<1>9. /\ ThreadType' /\ Phases' /\ Admitted'
      /\ Cardinality(Sending') = Cardinality(Sending) - 1
  BY <1>1, SendEnds DEF gnsVars
<1>10. promised' \in [Conns -> [Lanes -> 0..MaxSends]]
  BY <1>1, <1>2, PromiseType
<1>11. TypeOK'
  BY <1>1, <1>8, <1>9, <1>10, TypeParts, TypePartsNext DEF TypeInv, gnsVars, GnsType
<1>12. SendBound'
  BY <1>1, <1>2, <1>9, PromisedInstead
<1> QED BY <1>9, <1>11, <1>12 DEF TypeInv

LEMMA PumpType ==
  ASSUME TypeInv, TrySendReliableToSlot
  PROVE  TypeInv'
<1>1. /\ peerConns # NoConn /\ Room(peerConns)
      /\ pending' = [pending EXCEPT ![peerConns] = @ + 1]
      /\ UNCHANGED <<peerConns, link, stream, promised, backlogVars, passed, pc, held, kicks>>
  BY DEF TrySendReliableToSlot
<1>2. pending' \in [Conns -> 0..BufSize]
  BY <1>1, TypeParts, Sizes DEF TypeInv, GnsType, Room
<1>3. TypeOK'
  BY <1>1, <1>2, TypeParts, TypePartsNext
     DEF TypeInv, GnsType, backlogVars, BacklogType, Places, ThreadType
<1>4. Phases' /\ Admitted' /\ SendBound'
  BY <1>1, OtherPhases, OtherAdmitted, BoundKept DEF backlogVars
<1> QED BY <1>3, <1>4 DEF TypeInv

LEMMA BeginPassType ==
  ASSUME TypeInv, BeginPass
  PROVE  TypeInv'
<1>1. /\ peerConns \in Conns /\ StepWith("net", "idle", "drain", peerConns)
      /\ UNCHANGED <<peerConns, gnsVars, promised, backlogVars, passed, kicks>>
  BY TypeParts DEF TypeInv, BeginPass
<1>2. "net" \in Threads /\ "idle" \in Labels /\ "drain" \in Labels \ {"send"}
  BY DEF Threads, Labels
<1>3. ThreadType'
  BY <1>1, <1>2, StepType, TypeParts DEF TypeInv
<1>4. TypeOK'
  BY <1>1, <1>3, TypeParts, TypePartsNext
     DEF TypeInv, gnsVars, backlogVars, GnsType, BacklogType, Places
<1>5. Phases'
  BY <1>1, <1>2, StepPhases
<1>6. Admitted'
  BY <1>1, <1>2, StepAdmitted DEF gnsVars, backlogVars
<1>7. SendBound'
  BY <1>1, <1>2, BoundKept
<1> QED BY <1>4, <1>5, <1>6, <1>7 DEF TypeInv

\* The thread holds the connection it drains, and knows of no other step's.
LEMMA NetStep ==
  ASSUME TypeInv, NEW l \in Labels \ {"idle"}, NEW m \in Labels \ {"send"},
         Step("net", l, m), m \in {"drain", "check", "kick"} => l \in {"drain", "check", "kick"},
         m \notin {"free", "release"},
         UNCHANGED <<peerConns, link, promised>>, stamp' \in {stamp, NoConn}
  PROVE  ThreadType' /\ Phases' /\ Admitted' /\ SendBound' /\ held["net"] \in Conns
<1>1. StepWith("net", l, m, held["net"]) /\ "net" \in Threads
  BY DEF Step, Threads
<1>2. pc["net"] = l /\ held["net"] \in Conns
  BY <1>1 DEF StepWith, TypeInv, Phases
<1>3. l \in {"drain", "check", "kick"} => peerConns \in {held["net"], NoConn}
  BY <1>2 DEF TypeInv, Phases
<1>4. ThreadType'
  BY <1>1, <1>2, StepType, TypeParts DEF TypeInv
<1>5. Phases'
  BY <1>1, <1>2, <1>3, StepPhases
<1>6. Admitted'
  BY <1>1, <1>2, StepAdmitted
<1>7. SendBound'
  BY <1>1, <1>2, BoundKept
<1> QED BY <1>2, <1>4, <1>5, <1>6, <1>7

LEMMA DrainType ==
  ASSUME TypeInv, Drain
  PROVE  TypeInv'
<1> DEFINE c == held["net"]
           r == [l \in Lanes |-> SubSeq(queue[l], Share(c, l) + 1, Len(queue[l]))]
           s == [l \in Lanes |-> stream[c][l] \o SubSeq(queue[l], 1, Share(c, l))]
<1>1. /\ Step("net", "drain", "check") /\ ~Foreign(c)
      /\ stream' = [stream EXCEPT ![c] = s]
      /\ queue' = r
      /\ total' = total - Sent(c)
      /\ pending' = [pending EXCEPT ![c] = @ + Sent(c)]
      /\ stalled' = IF Progressed(c) THEN 0 ELSE stalled
      /\ moved' = IF Progressed(c) THEN 0 ELSE moved
      /\ UNCHANGED <<peerConns, link, promised, stamp, fatal, passed, kicks>>
  BY DEF Drain
<1>2. ThreadType' /\ Phases' /\ Admitted' /\ SendBound' /\ c \in Conns
  BY <1>1, NetStep DEF Labels
<1>3. queue' \in Queues /\ Cardinality(Places(queue')) = total'
  BY <1>1, <1>2, DrainTotal DEF TypeInv
<1>4. stalled' \in 0..NoProgress + 1 /\ moved' \in 0..MaxMoved
  <2>1. stalled \in 0..NoProgress + 1 /\ moved \in 0..MaxMoved
    BY TypeParts DEF TypeInv, BacklogType
  <2>2. 0 \in 0..NoProgress + 1 /\ 0 \in 0..MaxMoved
    BY Sizes
  <2> QED BY <1>1, <2>1, <2>2
<1>5. BacklogType'
  BY <1>1, <1>3, <1>4, TypeParts DEF TypeInv, BacklogType
<1>6. pending' \in [Conns -> 0..BufSize]
  <2>1. pending \in [Conns -> 0..BufSize] /\ pending[c] \in Nat
    BY <1>2, TypeParts, Sizes DEF TypeInv, GnsType
  <2>2. Sent(c) \in Nat /\ Sent(c) <= Budget(c)
    BY <1>2, TakenFinite, SentBound DEF TypeInv
  <2>3. Budget(c) \in Nat /\ pending[c] + Budget(c) <= BufSize
    BY <1>2, BudgetBound DEF TypeInv
  <2>4. pending[c] + Sent(c) \in 0..BufSize
    BY <2>1, <2>2, <2>3, Sizes
  <2> QED BY <1>1, <2>1, <2>4
<1>7. stream' \in [Conns -> [Lanes -> Seq(Message)]]
  <2>1. ASSUME NEW l \in Lanes PROVE s[l] \in Seq(Message)
    <3>1. queue[l] \in Seq(Message) /\ stream[c][l] \in Seq(Message) /\ Len(queue[l]) \in Nat
      BY <1>2, TypeParts DEF TypeInv, GnsType, BacklogType, Queues
    <3>2. Share(c, l) \in 0..Len(queue[l])
      BY <1>2, ShareBound DEF TypeInv
    <3>3. SubSeq(queue[l], 1, Share(c, l)) \in Seq(Message)
      <4> HIDE DEF Share, c
      <4> QED BY <3>1, <3>2
    <3> QED BY <3>1, <3>3
  <2>2. s \in [Lanes -> Seq(Message)]
    BY <2>1
  <2> HIDE DEF s
  <2> QED BY <1>1, <2>2, TypeParts DEF TypeInv, GnsType
<1>8. TypeOK'
  BY <1>1, <1>2, <1>5, <1>6, <1>7, TypeParts, TypePartsNext DEF TypeInv, GnsType
<1> QED BY <1>2, <1>8 DEF TypeInv

LEMMA DrainForeignType ==
  ASSUME TypeInv, DrainForeign
  PROVE  TypeInv'
<1>1. /\ Step("net", "drain", "check") /\ Reset
      /\ UNCHANGED <<peerConns, gnsVars, promised, passed, kicks>>
  BY DEF DrainForeign
<1>2. BacklogType' /\ stamp' = NoConn
  BY <1>1, ResetType, TypeParts DEF TypeInv
<1>3. ThreadType' /\ Phases' /\ Admitted' /\ SendBound'
  BY <1>1, <1>2, NetStep DEF Labels, gnsVars
<1>4. TypeOK'
  BY <1>1, <1>2, <1>3, TypeParts, TypePartsNext DEF TypeInv, GnsType, gnsVars
<1> QED BY <1>3, <1>4 DEF TypeInv

LEMMA CheckFatalType ==
  ASSUME TypeInv, CheckFatal
  PROVE  TypeInv'
<1> DEFINE m == IF Condemned THEN "kick" ELSE "idle"
<1>1. /\ Step("net", "check", m)
      /\ fatal' = (fatal \/ Condemned)
      /\ passed' = (total > 0)
      /\ UNCHANGED <<peerConns, gnsVars, promised, queue, stamp, total, stalled, moved, kicks>>
  BY DEF CheckFatal
<1>2. m \in Labels \ {"send"} /\ m \notin {"free", "release"} /\ "check" \in Labels \ {"idle"}
  BY DEF Labels
<1>3. ThreadType' /\ Phases' /\ Admitted' /\ SendBound'
  <2> HIDE DEF m
  <2> QED BY <1>1, <1>2, NetStep DEF gnsVars
<1>4. fatal' \in BOOLEAN /\ passed' \in BOOLEAN
  BY <1>1
<1>5. TypeOK'
  BY <1>1, <1>3, <1>4, TypeParts, TypePartsNext
     DEF TypeInv, GnsType, gnsVars, BacklogType, Places
<1> QED BY <1>3, <1>5 DEF TypeInv

\* A thread takes what the slot holds, and empties it.
LEMMA TakeOut ==
  ASSUME TypeInv, NEW t \in Threads, NEW l \in Labels,
         NEW m \in {"idle", "free"}, peerConns = NoConn => m = "idle",
         StepWith(t, l, m, peerConns), peerConns' = NoConn,
         UNCHANGED <<gnsVars, promised, backlogVars, passed>>, kicks' \in 0..MaxKicks
  PROVE  TypeInv'
<1>1. peerConns \in Conns \cup {NoConn} /\ m \in Labels \ {"send"} /\ NoConn \notin Conns
  BY TypeParts, Sizes DEF TypeInv, Labels, NoConn, Conns
<1>2. ThreadType'
  BY <1>1, StepType, TypeParts DEF TypeInv
<1>3. TypeOK'
  BY <1>1, <1>2, TypeParts, TypePartsNext
     DEF TypeInv, gnsVars, backlogVars, GnsType, BacklogType, Places
<1>4. Phases'
  BY <1>1, StepPhases
<1>5. Admitted'
  BY <1>1, StepAdmitted DEF gnsVars, backlogVars
<1>6. SendBound'
  BY <1>1, BoundKept
<1> QED BY <1>3, <1>4, <1>5, <1>6 DEF TypeInv

LEMMA FatalCloseSlotType ==
  ASSUME TypeInv, FatalCloseSlot
  PROVE  TypeInv'
<1> DEFINE m == IF peerConns = NoConn THEN "idle" ELSE "free"
<1>1. /\ StepWith("net", "kick", m, peerConns) /\ peerConns' = NoConn
      /\ UNCHANGED <<gnsVars, promised, backlogVars, passed, kicks>>
  BY DEF FatalCloseSlot
<1>2. kicks' \in 0..MaxKicks /\ m \in {"idle", "free"} /\ (peerConns = NoConn => m = "idle")
  BY <1>1, TypeParts DEF TypeInv
<1>3. "net" \in Threads /\ "kick" \in Labels
  BY DEF Threads, Labels
<1> HIDE DEF m
<1> QED BY <1>1, <1>2, <1>3, TakeOut

LEMMA KickType ==
  ASSUME TypeInv, NEW t \in Threads, Kick(t)
  PROVE  TypeInv'
<1>1. /\ kicks < MaxKicks /\ peerConns # NoConn
      /\ StepWith(t, "idle", "free", peerConns) /\ peerConns' = NoConn
      /\ kicks' = kicks + 1
      /\ UNCHANGED <<gnsVars, promised, backlogVars, passed>>
  BY DEF Kick
<1>2. kicks' \in 0..MaxKicks
  BY <1>1, TypeParts, Sizes DEF TypeInv
<1> QED BY <1>1, <1>2, TakeOut DEF Labels

LEMMA ClosedEdgeType ==
  ASSUME TypeInv, ClosedEdge
  PROVE  TypeInv'
<1>1. /\ peerConns # NoConn
      /\ StepWith("net", "idle", "free", peerConns) /\ peerConns' = NoConn
      /\ UNCHANGED <<gnsVars, promised, backlogVars, passed, kicks>>
  BY DEF ClosedEdge
<1>2. kicks' \in 0..MaxKicks
  BY <1>1, TypeParts DEF TypeInv
<1> QED BY <1>1, <1>2, TakeOut DEF Labels, Threads

LEMMA FreeSlotType ==
  ASSUME TypeInv, NEW t \in Threads, FreeSlot(t)
  PROVE  TypeInv'
<1>1. /\ StepWith(t, "free", "release", held[t]) /\ Reset
      /\ UNCHANGED <<peerConns, gnsVars, promised, passed, kicks>>
  BY DEF FreeSlot, Step
<1>2. held[t] \in Conns /\ held[t] # peerConns
  BY <1>1 DEF StepWith, TypeInv, Phases
<1>3. BacklogType' /\ stamp' = NoConn
  BY <1>1, ResetType, TypeParts DEF TypeInv
<1>4. "free" \in Labels /\ "release" \in Labels \ {"send"}
  BY DEF Labels
<1>5. ThreadType'
  BY <1>1, <1>2, <1>4, StepType, TypeParts DEF TypeInv
<1>6. TypeOK'
  BY <1>1, <1>3, <1>5, TypeParts, TypePartsNext DEF TypeInv, GnsType, gnsVars
<1>7. Phases'
  BY <1>1, <1>2, <1>4, StepPhases
<1>8. Admitted'
  BY <1>1, <1>2, <1>3, <1>4, StepAdmitted DEF gnsVars
<1>9. SendBound'
  BY <1>1, <1>2, <1>4, BoundKept
<1> QED BY <1>6, <1>7, <1>8, <1>9 DEF TypeInv

LEMMA CloseConnectionType ==
  ASSUME TypeInv, NEW t \in Threads, CloseConnection(t)
  PROVE  TypeInv'
<1>1. /\ StepWith(t, "release", "idle", NoConn)
      /\ link' = [link EXCEPT ![held[t]] = "closed"]
      /\ pending' = [pending EXCEPT ![held[t]] = 0]
      /\ UNCHANGED <<peerConns, stream, promised, backlogVars, passed, kicks>>
  BY DEF CloseConnection
<1>2. "release" \in Labels /\ "idle" \in Labels \ {"send"}
  BY DEF Labels
<1>3. ThreadType'
  BY <1>1, <1>2, StepType, TypeParts DEF TypeInv
<1>4. GnsType'
  <2>1. 0 \in 0..BufSize
    BY Sizes
  <2> QED BY <1>1, <2>1, TypeParts DEF TypeInv, GnsType
<1>5. TypeOK'
  BY <1>1, <1>3, <1>4, TypeParts, TypePartsNext DEF TypeInv, backlogVars, BacklogType, Places
<1>6. Phases'
  BY <1>1, <1>2, StepPhases
<1>7. Admitted'
  <2>1. \A d \in Conns : link'[d] = "parked" => link[d] = "parked"
    BY <1>1, TypeParts DEF TypeInv, GnsType
  <2> QED BY <1>1, <1>2, <2>1, StepAdmitted DEF backlogVars
<1>8. SendBound'
  BY <1>1, <1>2, BoundKept
<1> QED BY <1>5, <1>6, <1>7, <1>8 DEF TypeInv

LEMMA AdmitPendingType ==
  ASSUME TypeInv, NEW c \in Conns, AdmitPending(c)
  PROVE  TypeInv'
<1>1. /\ pc["net"] = "idle" /\ peerConns = NoConn
      /\ \A d \in Conns : link[d] = "parked" <=> d >= c
      /\ peerConns' = c
      /\ link' = [link EXCEPT ![c] = "open"]
      /\ UNCHANGED <<pending, stream, promised, backlogVars, passed, pc, held, kicks>>
  BY DEF AdmitPending
<1>2. link[c] = "parked" /\ \A t \in Threads : held[t] # c
  BY <1>1 DEF TypeInv, Admitted, Conns
<1>3. TypeOK'
  BY <1>1, TypeParts, TypePartsNext
     DEF TypeInv, GnsType, backlogVars, BacklogType, Places, ThreadType
<1>4. Phases'
  BY <1>1, <1>2 DEF TypeInv, Phases
<1>5. Admitted'
  BY <1>1, TypeParts DEF TypeInv, Admitted, GnsType, backlogVars
<1>6. SendBound'
  BY <1>1, BoundKept
<1> QED BY <1>3, <1>4, <1>5, <1>6 DEF TypeInv

LEMMA TransmitType ==
  ASSUME TypeInv, NEW c \in Conns, Transmit(c)
  PROVE  TypeInv'
<1>1. /\ pending[c] > 0
      /\ pending' = [pending EXCEPT ![c] = @ - 1]
      /\ moved' = IF total > 0 /\ c = stamp /\ moved < MaxMoved THEN moved + 1 ELSE moved
      /\ UNCHANGED <<peerConns, link, stream, promised, queue, stamp, total, fatal, stalled,
                     passed, pc, held, kicks>>
  BY DEF Transmit
<1>2. pending' \in [Conns -> 0..BufSize]
  BY <1>1, TypeParts, Sizes DEF TypeInv, GnsType
<1>3. moved' \in 0..MaxMoved
  BY <1>1, TypeParts, Sizes DEF TypeInv, BacklogType
<1>4. TypeOK'
  BY <1>1, <1>2, <1>3, TypeParts, TypePartsNext
     DEF TypeInv, GnsType, BacklogType, Places, ThreadType
<1>5. Phases' /\ Admitted' /\ SendBound'
  BY <1>1, OtherPhases, OtherAdmitted, BoundKept
<1> QED BY <1>4, <1>5 DEF TypeInv

LEMMA LinkDiesType ==
  ASSUME TypeInv, NEW c \in Conns, LinkDies(c)
  PROVE  TypeInv'
<1>1. /\ link' = [link EXCEPT ![c] = "dead"]
      /\ UNCHANGED <<peerConns, pending, stream, promised, backlogVars, passed, pc, held, kicks>>
  BY DEF LinkDies
<1>2. TypeOK'
  BY <1>1, TypeParts, TypePartsNext
     DEF TypeInv, GnsType, backlogVars, BacklogType, Places, ThreadType
<1>3. \A d \in Conns : link'[d] = "parked" => link[d] = "parked"
  BY <1>1, TypeParts DEF TypeInv, GnsType
<1>4. Phases' /\ Admitted' /\ SendBound'
  BY <1>1, <1>3, OtherPhases, OtherAdmitted, BoundKept DEF backlogVars
<1> QED BY <1>2, <1>4 DEF TypeInv

LEMMA TickType ==
  ASSUME TypeInv, Tick
  PROVE  TypeInv'
<1>1. /\ stalled <= NoProgress /\ stalled' = stalled + 1 /\ passed' = FALSE
      /\ UNCHANGED <<peerConns, gnsVars, promised, queue, stamp, total, fatal, moved, pc, held,
                     kicks>>
  BY DEF Tick
<1>2. stalled' \in 0..NoProgress + 1
  BY <1>1, TypeParts, Sizes DEF TypeInv, BacklogType
<1>3. TypeOK'
  BY <1>1, <1>2, TypeParts, TypePartsNext
     DEF TypeInv, GnsType, gnsVars, BacklogType, Places, ThreadType
<1>4. Phases' /\ Admitted' /\ SendBound'
  BY <1>1, OtherPhases, OtherAdmitted, BoundKept DEF gnsVars
<1> QED BY <1>3, <1>4 DEF TypeInv

LEMMA StutterType ==
  ASSUME TypeInv, UNCHANGED vars
  PROVE  TypeInv'
<1>1. TypeOK'
  BY TypeParts, TypePartsNext DEF TypeInv, GnsType, BacklogType, Places, ThreadType, vars
<1>2. Phases' /\ Admitted' /\ SendBound'
  BY OtherPhases, OtherAdmitted, BoundKept DEF vars
<1> QED BY <1>1, <1>2 DEF TypeInv

\* The disjuncts of Next.
LEMMA NextCases ==
  ASSUME [Next]_vars
  PROVE  \/ \E t \in Threads : LoadHandle(t) \/ FreeSlot(t) \/ CloseConnection(t) \/ Kick(t)
         \/ \E t \in Threads, l \in Lanes :
              SendThrough(t, l) \/ SendRefused(t, l) \/ SendQueued(t, l)
         \/ TrySendReliableToSlot
         \/ BeginPass \/ Drain \/ DrainForeign \/ CheckFatal \/ FatalCloseSlot
         \/ ClosedEdge
         \/ \E c \in Conns : Transmit(c) \/ LinkDies(c) \/ AdmitPending(c)
         \/ Tick
         \/ UNCHANGED vars
BY DEF Next, Work, SendOrQueue, Pass, Gns

LEMMA TypeNext == TypeInv /\ [Next]_vars => TypeInv'
<1> SUFFICES ASSUME TypeInv, [Next]_vars PROVE TypeInv'
  OBVIOUS
<1>1. ASSUME NEW t \in Threads, LoadHandle(t) \/ FreeSlot(t) \/ CloseConnection(t) \/ Kick(t)
      PROVE  TypeInv'
  BY <1>1, LoadHandleType, FreeSlotType, CloseConnectionType, KickType
<1>2. ASSUME NEW t \in Threads, NEW l \in Lanes,
             SendThrough(t, l) \/ SendRefused(t, l) \/ SendQueued(t, l)
      PROVE  TypeInv'
  BY <1>2, SendThroughType, SendRefusedType, SendQueuedType
<1>3. ASSUME NEW c \in Conns, Transmit(c) \/ LinkDies(c) \/ AdmitPending(c)
      PROVE  TypeInv'
  BY <1>3, TransmitType, LinkDiesType, AdmitPendingType
<1>4. CASE TrySendReliableToSlot \/ ClosedEdge \/ Tick \/ UNCHANGED vars
  BY <1>4, PumpType, ClosedEdgeType, TickType, StutterType
<1>5. CASE BeginPass \/ Drain \/ DrainForeign \/ CheckFatal \/ FatalCloseSlot
  BY <1>5, BeginPassType, DrainType, DrainForeignType, CheckFatalType, FatalCloseSlotType
<1> QED BY <1>1, <1>2, <1>3, <1>4, <1>5, NextCases

\* A lane's messages are in order; s comes before q.
Ordered(s)    == \A i, j \in DOMAIN s : i < j => s[i].n < s[j].n
Before(s, q)  == \A i \in DOMAIN s, j \in DOMAIN q : s[i].n < q[j].n

LEMMA SequenceShape ==
  /\ \A s \in Seq(Message) : /\ Len(s) \in Nat /\ DOMAIN s = 1..Len(s)
                             /\ \A i \in DOMAIN s : s[i] \in Message
  /\ \A m \in Message : m.to \in Conns /\ m.n \in Nat
<1>1. \A m \in Message : m.to \in Conns /\ m.n \in Nat
  BY DEF Message
<1>2. \A s \in Seq(Message) : /\ Len(s) \in Nat /\ DOMAIN s = 1..Len(s)
                              /\ \A i \in DOMAIN s : s[i] \in Message
  OBVIOUS
<1> QED BY <1>1, <1>2

LEMMA AppendShape ==
  ASSUME NEW s \in Seq(Message), NEW m \in Message
  PROVE  /\ Append(s, m) \in Seq(Message)
         /\ DOMAIN Append(s, m) = 1..Len(s) + 1
         /\ \A i \in DOMAIN Append(s, m) :
              \/ i \in DOMAIN s /\ Append(s, m)[i] = s[i]
              \/ i = Len(s) + 1 /\ Append(s, m)[i] = m
<1>1. Len(Append(s, m)) = Len(s) + 1 /\ Append(s, m) \in Seq(Message)
  OBVIOUS
<1>2. DOMAIN Append(s, m) = 1..Len(s) + 1
  OBVIOUS
<1>3. ASSUME NEW i \in 1..Len(s) + 1
      PROVE  \/ i \in DOMAIN s /\ Append(s, m)[i] = s[i]
             \/ i = Len(s) + 1 /\ Append(s, m)[i] = m
  OBVIOUS
<1> QED BY <1>1, <1>2, <1>3

LEMMA AppendOrdered ==
  ASSUME NEW s \in Seq(Message), NEW m \in Message,
         Ordered(s), \A i \in DOMAIN s : s[i].n < m.n
  PROVE  Ordered(Append(s, m))
<1> DEFINE r == Append(s, m)
<1>1. /\ DOMAIN r = 1..Len(s) + 1
      /\ \A i \in DOMAIN r : \/ i \in DOMAIN s /\ r[i] = s[i]
                             \/ i = Len(s) + 1 /\ r[i] = m
  BY AppendShape
<1>2. Len(s) \in Nat /\ DOMAIN s = 1..Len(s)
  BY SequenceShape
<1> HIDE DEF r
<1>3. ASSUME NEW i \in DOMAIN r, NEW j \in DOMAIN r, i < j
      PROVE  r[i].n < r[j].n
  <2>1. i \in DOMAIN s /\ r[i] = s[i]
    BY <1>1, <1>2, <1>3
  <2>2. CASE j \in DOMAIN s /\ r[j] = s[j]
    BY <1>3, <2>1, <2>2 DEF Ordered
  <2>3. CASE r[j] = m
    BY <2>1, <2>3
  <2> QED BY <1>1, <1>3, <2>2, <2>3
<1> QED BY <1>3 DEF Ordered, r

\* A pass moves the head of a lane, s the stream and q the queue, k the share.
LEMMA MoveShape ==
  ASSUME NEW s \in Seq(Message), NEW q \in Seq(Message), NEW k \in 0..Len(q)
  PROVE  /\ DOMAIN (s \o SubSeq(q, 1, k)) = 1..Len(s) + k
         /\ \A i \in 1..Len(s) + k :
              \/ i \in DOMAIN s /\ (s \o SubSeq(q, 1, k))[i] = s[i]
              \/ i > Len(s) /\ i - Len(s) \in 1..k /\ i - Len(s) \in DOMAIN q
                 /\ (s \o SubSeq(q, 1, k))[i] = q[i - Len(s)]
         /\ DOMAIN SubSeq(q, k + 1, Len(q)) = 1..Len(q) - k
         /\ \A i \in 1..Len(q) - k :
              i + k \in DOMAIN q /\ SubSeq(q, k + 1, Len(q))[i] = q[i + k]
<1>1. Len(s) \in Nat /\ Len(q) \in Nat /\ k \in Nat /\ k <= Len(q)
      /\ DOMAIN s = 1..Len(s) /\ DOMAIN q = 1..Len(q)
  BY SequenceShape
<1> DEFINE h == SubSeq(q, 1, k)
<1>2. h \in Seq(Message) /\ Len(h) = k /\ \A i \in 1..k : h[i] = q[i]
  BY <1>1
<1>3. DOMAIN SubSeq(q, k + 1, Len(q)) = 1..Len(q) - k
  BY <1>1
<1>4. \A i \in 1..Len(q) - k :
        i + k \in DOMAIN q /\ SubSeq(q, k + 1, Len(q))[i] = q[i + k]
  BY <1>1
<1> HIDE DEF h
<1>5. DOMAIN (s \o h) = 1..Len(s) + k
  BY <1>1, <1>2
<1>6. ASSUME NEW i \in 1..Len(s) + k
      PROVE  \/ i \in DOMAIN s /\ (s \o h)[i] = s[i]
             \/ i > Len(s) /\ i - Len(s) \in 1..k /\ i - Len(s) \in DOMAIN q
                /\ (s \o h)[i] = q[i - Len(s)]
  <2> i <= Len(s) \/ i > Len(s)
    BY <1>1
  <2>1. CASE i <= Len(s)
    BY <1>1, <1>2, <2>1
  <2>2. CASE i > Len(s)
    <3>1. i - Len(s) \in 1..k /\ i - Len(s) \in DOMAIN q
      BY <1>1, <2>2
    <3>2. (s \o h)[i] = h[i - Len(s)]
      BY <1>1, <1>2, <2>2
    <3> QED BY <1>2, <2>2, <3>1, <3>2
  <2> QED BY <2>1, <2>2
<1> QED BY <1>3, <1>4, <1>5, <1>6 DEF h

LEMMA MoveOrdered ==
  ASSUME NEW s \in Seq(Message), NEW q \in Seq(Message), NEW k \in 0..Len(q),
         Ordered(s), Ordered(q), Before(s, q)
  PROVE  /\ Ordered(s \o SubSeq(q, 1, k))
         /\ Ordered(SubSeq(q, k + 1, Len(q)))
         /\ Before(s \o SubSeq(q, 1, k), SubSeq(q, k + 1, Len(q)))
<1> DEFINE u == s \o SubSeq(q, 1, k)
           v == SubSeq(q, k + 1, Len(q))
<1>1. /\ DOMAIN u = 1..Len(s) + k
      /\ \A i \in DOMAIN u :
           \/ i \in DOMAIN s /\ u[i] = s[i]
           \/ i > Len(s) /\ i - Len(s) \in 1..k /\ i - Len(s) \in DOMAIN q
              /\ u[i] = q[i - Len(s)]
  BY MoveShape
<1>2. /\ DOMAIN v = 1..Len(q) - k
      /\ \A i \in DOMAIN v : i + k \in DOMAIN q /\ v[i] = q[i + k]
  BY MoveShape
<1>3. Len(s) \in Nat /\ Len(q) \in Nat /\ k \in Nat /\ k <= Len(q)
      /\ DOMAIN s = 1..Len(s) /\ DOMAIN q = 1..Len(q)
  BY SequenceShape
<1> HIDE DEF u, v
<1>4. Ordered(u)
  <2> SUFFICES ASSUME NEW i \in DOMAIN u, NEW j \in DOMAIN u, i < j
               PROVE  u[i].n < u[j].n
    BY DEF Ordered
  <2>1. CASE j \in DOMAIN s /\ u[j] = s[j]
    <3>1. i \in DOMAIN s /\ u[i] = s[i]
      BY <1>1, <1>3, <2>1
    <3> QED BY <2>1, <3>1 DEF Ordered
  <2>2. CASE j - Len(s) \in DOMAIN q /\ u[j] = q[j - Len(s)] /\ i \in DOMAIN s /\ u[i] = s[i]
    BY <2>2 DEF Before
  <2>3. CASE /\ j - Len(s) \in DOMAIN q /\ u[j] = q[j - Len(s)]
             /\ i - Len(s) \in DOMAIN q /\ u[i] = q[i - Len(s)]
    <3>1. i - Len(s) < j - Len(s)
      BY <1>1, <1>3
    <3> QED BY <2>3, <3>1 DEF Ordered
  <2> QED BY <1>1, <2>1, <2>2, <2>3
<1>5. Ordered(v)
  <2> SUFFICES ASSUME NEW i \in DOMAIN v, NEW j \in DOMAIN v, i < j
               PROVE  v[i].n < v[j].n
    BY DEF Ordered
  <2>1. i + k < j + k
    BY <1>2, <1>3
  <2> QED BY <1>2, <2>1 DEF Ordered
<1>6. Before(u, v)
  <2> SUFFICES ASSUME NEW i \in DOMAIN u, NEW j \in DOMAIN v
               PROVE  u[i].n < v[j].n
    BY DEF Before
  <2>1. j + k \in DOMAIN q /\ v[j] = q[j + k] /\ j \in Nat /\ j >= 1
    BY <1>2, <1>3
  <2>2. CASE i \in DOMAIN s /\ u[i] = s[i]
    BY <2>1, <2>2 DEF Before
  <2>3. CASE i - Len(s) \in 1..k /\ i - Len(s) \in DOMAIN q /\ u[i] = q[i - Len(s)]
    <3>1. i - Len(s) < j + k
      BY <1>3, <2>1, <2>3
    <3> QED BY <2>1, <2>3, <3>1 DEF Ordered
  <2> QED BY <1>1, <2>2, <2>3
<1> QED BY <1>4, <1>5, <1>6 DEF u, v

\* One lane of connection c: s is in its stream, q waits, p were promised.
Numbered(s, c, p) == \A i \in DOMAIN s : s[i].to = c /\ s[i].n <= p
Lane(s, q, c, p) == /\ s \in Seq(Message) /\ q \in Seq(Message) /\ p \in Nat
                    /\ Numbered(s, c, p) /\ Numbered(q, c, p)
                    /\ Ordered(s) /\ Ordered(q) /\ Before(s, q)

LEMMA LaneDropped ==
  ASSUME NEW c \in Conns, NEW s, NEW q, NEW p, Lane(s, q, c, p)
  PROVE  Lane(s, <<>>, c, p)
<1>1. <<>> \in Seq(Message) /\ DOMAIN <<>> = {}
  OBVIOUS
<1> QED BY <1>1 DEF Lane, Numbered, Ordered, Before

\* A lane holds no message that is not promised, so the next promised is last.
LEMMA LaneNext ==
  ASSUME NEW c \in Conns, NEW s \in Seq(Message), NEW p \in Nat, NEW m \in Message,
         Numbered(s, c, p), m.to = c, m.n = p + 1
  PROVE  /\ \A i \in DOMAIN s : s[i].n < m.n
         /\ Numbered(s, c, p + 1) /\ Numbered(Append(s, m), c, p + 1)
<1>1. \A i \in DOMAIN s : s[i].to = c /\ s[i].n \in Nat /\ s[i].n <= p
  BY SequenceShape DEF Numbered
<1>2. \A i \in DOMAIN s : s[i].n < m.n /\ s[i].n <= p + 1
  BY <1>1
<1>3. m.n <= p + 1
  OBVIOUS
<1>4. \A i \in DOMAIN Append(s, m) : \/ i \in DOMAIN s /\ Append(s, m)[i] = s[i]
                                     \/ Append(s, m)[i] = m
  BY AppendShape
<1>5. Numbered(Append(s, m), c, p + 1)
  BY <1>1, <1>2, <1>3, <1>4 DEF Numbered
<1> QED BY <1>1, <1>2, <1>5 DEF Numbered

LEMMA LaneSent ==
  ASSUME NEW c \in Conns, NEW s, NEW p, Lane(s, <<>>, c, p),
         NEW m \in Message, m.to = c, m.n = p + 1
  PROVE  Lane(Append(s, m), <<>>, c, p + 1)
<1>1. <<>> \in Seq(Message) /\ DOMAIN <<>> = {} /\ p + 1 \in Nat
  BY DEF Lane
<1>2. /\ \A i \in DOMAIN s : s[i].n < m.n
      /\ Numbered(Append(s, m), c, p + 1)
  BY LaneNext DEF Lane
<1>3. Ordered(Append(s, m)) /\ Append(s, m) \in Seq(Message)
  BY <1>2, AppendOrdered, AppendShape DEF Lane
<1> QED BY <1>1, <1>2, <1>3 DEF Lane, Numbered, Ordered, Before

LEMMA LaneQueued ==
  ASSUME NEW c \in Conns, NEW s, NEW q, NEW p, Lane(s, q, c, p),
         NEW m \in Message, m.to = c, m.n = p + 1
  PROVE  Lane(s, Append(q, m), c, p + 1)
<1>1. p + 1 \in Nat
  BY DEF Lane
<1>2. /\ \A i \in DOMAIN q : q[i].n < m.n
      /\ Numbered(Append(q, m), c, p + 1)
  BY LaneNext DEF Lane
<1>3. /\ \A i \in DOMAIN s : s[i].n < m.n
      /\ Numbered(s, c, p + 1)
  BY LaneNext DEF Lane
<1>4. Ordered(Append(q, m)) /\ Append(q, m) \in Seq(Message)
  BY <1>2, AppendOrdered, AppendShape DEF Lane
<1>5. \A j \in DOMAIN Append(q, m) : \/ j \in DOMAIN q /\ Append(q, m)[j] = q[j]
                                     \/ Append(q, m)[j] = m
  BY AppendShape DEF Lane
<1>6. Before(s, Append(q, m))
  BY <1>3, <1>5 DEF Before, Lane
<1> QED BY <1>1, <1>2, <1>3, <1>4, <1>6 DEF Lane

LEMMA LaneMoved ==
  ASSUME NEW c \in Conns, NEW s, NEW q, NEW p, Lane(s, q, c, p), NEW k \in 0..Len(q)
  PROVE  Lane(s \o SubSeq(q, 1, k), SubSeq(q, k + 1, Len(q)), c, p)
<1> DEFINE u == s \o SubSeq(q, 1, k)
           v == SubSeq(q, k + 1, Len(q))
<1>1. Ordered(u) /\ Ordered(v) /\ Before(u, v)
  BY MoveOrdered DEF Lane
<1>2. u \in Seq(Message) /\ v \in Seq(Message)
  <2>1. Len(q) \in Nat /\ s \in Seq(Message) /\ q \in Seq(Message)
    BY SequenceShape DEF Lane
  <2> QED BY <2>1
<1>3. \A i \in DOMAIN u : \/ i \in DOMAIN s /\ u[i] = s[i]
                          \/ i - Len(s) \in DOMAIN q /\ u[i] = q[i - Len(s)]
  BY MoveShape DEF Lane
<1>4. \A i \in DOMAIN v : i + k \in DOMAIN q /\ v[i] = q[i + k]
  BY MoveShape DEF Lane
<1> HIDE DEF u, v
<1>5. Numbered(u, c, p) /\ Numbered(v, c, p)
  BY <1>3, <1>4 DEF Lane, Numbered
<1> QED BY <1>1, <1>2, <1>5 DEF Lane, u, v

-----------------------------------------------------------------------------
(* Order.                                                                  *)

\* The backlog is of one connection, and each lane of it continues that
\* connection's stream.
LanesInOrder ==
  \A c \in Conns, l \in Lanes : Lane(stream[c][l], Waiting(c, l), c, promised[c][l])
QueueOwned == stamp \in Conns \/ \A l \in Lanes : queue[l] = <<>>

OrderInv == LanesInOrder /\ QueueOwned

LEMMA StreamsOrdered == OrderInv => StreamInOrder
BY DEF OrderInv, LanesInOrder, Lane, Numbered, Ordered, StreamInOrder

LEMMA TypeFacts ==
  ASSUME TypeInv
  PROVE  /\ stream \in [Conns -> [Lanes -> Seq(Message)]]
         /\ promised \in [Conns -> [Lanes -> 0..MaxSends]]
         /\ queue \in Queues /\ queue \in [Lanes -> Seq(Message)]
         /\ total = Cardinality(Places(queue)) /\ total \in Nat
         /\ total = 0 <=> \A l \in Lanes : queue[l] = <<>>
<1>1. queue \in Queues /\ total = Cardinality(Places(queue))
  BY TypeParts DEF TypeInv, BacklogType
<1>2. total \in Nat /\ (total = 0 <=> \A l \in Lanes : queue[l] = <<>>)
  BY <1>1, PlacesFinite, PlacesEmpty
<1> QED BY <1>1, <1>2, TypeParts DEF TypeInv, GnsType, Queues

\* The backlog is the sender's own or empty, or it is foreign.
LEMMA OwnOrEmpty ==
  ASSUME TypeInv, NEW c \in Conns, ~Foreign(c)
  PROVE  \A l \in Lanes : queue[l] = Waiting(c, l)
<1>1. CASE stamp = c
  BY <1>1 DEF Waiting
<1>2. CASE total = 0
  BY <1>2, TypeFacts DEF Waiting
<1> QED BY <1>1, <1>2, TypeFacts DEF Foreign

LEMMA ResetEmpties ==
  ASSUME Reset
  PROVE  (\A l \in Lanes : queue'[l] = <<>>) /\ total' = 0 /\ stamp' = NoConn
BY DEF Reset, EmptyQueue

\* A backlog that is emptied, or not touched.
LEMMA OrderKept ==
  ASSUME OrderInv, UNCHANGED <<stream, promised>>,
         UNCHANGED <<queue, stamp>> \/ \A l \in Lanes : queue'[l] = <<>>
  PROVE  OrderInv'
<1>1. QueueOwned'
  BY DEF OrderInv, QueueOwned
<1>2. ASSUME NEW c \in Conns, NEW l \in Lanes
      PROVE  Lane(stream[c][l], Waiting(c, l)', c, promised[c][l])
  <2>1. Waiting(c, l)' = Waiting(c, l) \/ Waiting(c, l)' = <<>>
    BY DEF Waiting
  <2>2. Lane(stream[c][l], Waiting(c, l), c, promised[c][l])
    BY DEF OrderInv, LanesInOrder
  <2> QED BY <2>1, <2>2, LaneDropped
<1>3. LanesInOrder'
  BY <1>2 DEF LanesInOrder
<1> QED BY <1>1, <1>3 DEF OrderInv

LEMMA OrderReset ==
  ASSUME OrderInv, UNCHANGED <<stream, promised>>, Reset
  PROVE  OrderInv'
BY OrderKept, ResetEmpties

LEMMA SendRefusedOrder ==
  ASSUME OrderInv, NEW t \in Threads, NEW l \in Lanes, SendRefused(t, l)
  PROVE  OrderInv'
<1>1. DiscardForeign(held[t]) /\ UNCHANGED <<stream, promised>>
  BY DEF SendRefused, gnsVars
<1>2. CASE Foreign(held[t])
  BY <1>1, <1>2, OrderReset DEF DiscardForeign
<1>3. CASE ~Foreign(held[t])
  BY <1>1, <1>3, OrderKept DEF DiscardForeign, backlogVars
<1> QED BY <1>2, <1>3

LEMMA SendThroughOrder ==
  ASSUME TypeInv, OrderInv, NEW t \in Threads, NEW l \in Lanes, SendThrough(t, l)
  PROVE  OrderInv'
<1> DEFINE c == held[t]
           m == Fresh(c, l)
<1>1. /\ pc[t] = "send" /\ LaneClear(l, c) /\ DiscardForeign(c) /\ Promise(c, l)
      /\ stream' = [stream EXCEPT ![c][l] = Append(@, m)]
  BY DEF SendThrough, Step, StepWith
<1>2. c \in Conns /\ m \in Message /\ m.to = c /\ m.n = promised[c][l] + 1
  BY <1>1, FreshType
<1>3. /\ promised'[c][l] = promised[c][l] + 1
      /\ \A d \in Conns, k \in Lanes : d # c \/ k # l => promised'[d][k] = promised[d][k]
  BY <1>1, PromiseType
<1>4. /\ stream'[c][l] = Append(stream[c][l], m)
      /\ \A d \in Conns, k \in Lanes : d # c \/ k # l => stream'[d][k] = stream[d][k]
  <2> HIDE DEF c, m
  <2> QED BY <1>1, <1>2, TypeFacts
<1> HIDE DEF c, m
<1>5. /\ (\A k \in Lanes : queue'[k] = <<>>) \/ UNCHANGED <<queue, stamp>>
      /\ queue'[l] = <<>>
  <2>1. CASE Foreign(c)
    BY <1>1, <2>1, ResetEmpties DEF DiscardForeign
  <2>2. CASE ~Foreign(c)
    BY <1>1, <2>2 DEF DiscardForeign, backlogVars, LaneClear
  <2> QED BY <2>1, <2>2
<1>6. QueueOwned'
  BY <1>5 DEF OrderInv, QueueOwned
<1>7. ASSUME NEW d \in Conns, NEW k \in Lanes
      PROVE  Lane(stream'[d][k], Waiting(d, k)', d, promised'[d][k])
  <2>1. Lane(stream[d][k], Waiting(d, k), d, promised[d][k])
    BY DEF OrderInv, LanesInOrder
  <2>2. CASE d # c \/ k # l
    <3>1. Waiting(d, k)' = Waiting(d, k) \/ Waiting(d, k)' = <<>>
      BY <1>5 DEF Waiting
    <3> QED BY <1>3, <1>4, <2>1, <2>2, <3>1, LaneDropped
  <2>3. CASE d = c /\ k = l
    <3>1. Waiting(d, k)' = <<>>
      BY <1>5, <2>3 DEF Waiting
    <3>2. Lane(stream[c][l], <<>>, c, promised[c][l])
      BY <1>2, <2>1, <2>3, LaneDropped
    <3>3. Lane(Append(stream[c][l], m), <<>>, c, promised[c][l] + 1)
      BY <1>2, <3>2, LaneSent
    <3> QED BY <1>3, <1>4, <2>3, <3>1, <3>3
  <2> QED BY <2>2, <2>3
<1>8. LanesInOrder'
  BY <1>7 DEF LanesInOrder
<1> QED BY <1>6, <1>8 DEF OrderInv

LEMMA SendQueuedOrder ==
  ASSUME TypeInv, OrderInv, NEW t \in Threads, NEW l \in Lanes, SendQueued(t, l)
  PROVE  OrderInv'
<1> DEFINE c == held[t]
           m == Fresh(c, l)
           kept == IF Foreign(c) THEN EmptyQueue ELSE queue
<1>1. /\ pc[t] = "send" /\ Promise(c, l)
      /\ queue' = [kept EXCEPT ![l] = Append(@, m)]
      /\ stamp' = c
      /\ UNCHANGED stream
  BY DEF SendQueued, Step, StepWith, gnsVars
<1>2. c \in Conns /\ m \in Message /\ m.to = c /\ m.n = promised[c][l] + 1
  BY <1>1, FreshType
<1>3. /\ promised'[c][l] = promised[c][l] + 1
      /\ \A d \in Conns, k \in Lanes : d # c \/ k # l => promised'[d][k] = promised[d][k]
  BY <1>1, PromiseType
<1>4. kept \in Queues
  BY EmptyTotal, TypeFacts
<1>5. \A k \in Lanes : kept[k] = Waiting(c, k) \/ kept[k] = <<>>
  BY <1>2, OwnOrEmpty DEF EmptyQueue
<1> HIDE DEF kept, m, c
<1>6. queue'[l] = Append(kept[l], m) /\ \A k \in Lanes : k # l => queue'[k] = kept[k]
  BY <1>1, <1>4 DEF Queues
<1>7. QueueOwned'
  BY <1>1, <1>2 DEF QueueOwned
<1>8. ASSUME NEW d \in Conns, NEW k \in Lanes
      PROVE  Lane(stream[d][k], Waiting(d, k)', d, promised'[d][k])
  <2>1. Lane(stream[d][k], Waiting(d, k), d, promised[d][k])
    BY DEF OrderInv, LanesInOrder
  <2>2. CASE d # c
    <3>1. Waiting(d, k)' = <<>>
      BY <1>1, <2>2 DEF Waiting
    <3> QED BY <1>3, <2>1, <2>2, <3>1, LaneDropped
  <2>3. CASE d = c
    <3>1. Lane(stream[c][k], kept[k], c, promised[c][k])
      BY <1>2, <1>5, <2>1, <2>3, LaneDropped
    <3>2. Waiting(d, k)' = queue'[k]
      BY <1>1, <2>3 DEF Waiting
    <3>3. CASE k # l
      BY <1>3, <1>6, <2>3, <3>1, <3>2, <3>3
    <3>4. CASE k = l
      <4>1. Lane(stream[c][l], Append(kept[l], m), c, promised[c][l] + 1)
        BY <1>2, <3>1, <3>4, LaneQueued
      <4> QED BY <1>3, <1>6, <2>3, <3>2, <3>4, <4>1
    <3> QED BY <3>3, <3>4
  <2> QED BY <2>2, <2>3
<1>9. LanesInOrder'
  BY <1>1, <1>8 DEF LanesInOrder
<1> QED BY <1>7, <1>9 DEF OrderInv

LEMMA DrainOrder ==
  ASSUME TypeInv, OrderInv, Drain
  PROVE  OrderInv'
<1> DEFINE c == held["net"]
<1>1. /\ pc["net"] = "drain" /\ ~Foreign(c)
      /\ stream' = [stream EXCEPT ![c] = [l \in Lanes |->
                      @[l] \o SubSeq(queue[l], 1, Share(c, l))]]
      /\ queue' = [l \in Lanes |->
                      SubSeq(queue[l], Share(c, l) + 1, Len(queue[l]))]
      /\ UNCHANGED <<promised, stamp>>
  BY DEF Drain, Step, StepWith
<1>2. c \in Conns
  BY <1>1 DEF TypeInv, Phases, Threads
<1>3. \A l \in Lanes : queue[l] = Waiting(c, l)
  BY <1>1, <1>2, OwnOrEmpty
<1>4. \A l \in Lanes : Share(c, l) \in 0..Len(queue[l])
  BY <1>2, ShareBound DEF TypeInv
<1>5. /\ \A l \in Lanes :
           stream'[c][l] = stream[c][l] \o SubSeq(queue[l], 1, Share(c, l))
      /\ \A d \in Conns : d # c => stream'[d] = stream[d]
  <2> HIDE DEF c
  <2> QED BY <1>1, <1>2, TypeFacts
<1>6. \A l \in Lanes : queue'[l] = SubSeq(queue[l], Share(c, l) + 1, Len(queue[l]))
  BY <1>1
<1> HIDE DEF c
<1>7. ASSUME NEW l \in Lanes, queue[l] = <<>> PROVE queue'[l] = <<>>
  <2>1. Share(c, l) = 0
    BY <1>4, <1>7
  <2> QED BY <1>6, <1>7, <2>1
<1>8. QueueOwned'
  BY <1>1, <1>7 DEF OrderInv, QueueOwned
<1>9. ASSUME NEW d \in Conns, NEW l \in Lanes
      PROVE  Lane(stream'[d][l], Waiting(d, l)', d, promised[d][l])
  <2>1. Lane(stream[d][l], Waiting(d, l), d, promised[d][l])
    BY DEF OrderInv, LanesInOrder
  <2>2. CASE d # c
    <3>1. Waiting(d, l)' = <<>>
      BY <1>1, <1>3, <1>7, <2>2 DEF Waiting
    <3> QED BY <1>5, <2>1, <2>2, <3>1, LaneDropped
  <2>3. CASE d = c
    <3>1. Lane(stream'[c][l], queue'[l], c, promised[c][l])
      BY <1>2, <1>3, <1>4, <1>5, <1>6, <2>1, <2>3, LaneMoved
    <3>2. Waiting(d, l)' = queue'[l] \/ Waiting(d, l)' = <<>>
      BY DEF Waiting
    <3> QED BY <1>2, <2>3, <3>1, <3>2, LaneDropped
  <2> QED BY <2>2, <2>3
<1>10. LanesInOrder'
  BY <1>1, <1>9 DEF LanesInOrder
<1> QED BY <1>8, <1>10 DEF OrderInv

LEMMA OrderInit == Init => OrderInv
<1> SUFFICES ASSUME Init PROVE OrderInv
  OBVIOUS
<1>1. \A l \in Lanes : queue[l] = <<>>
  BY DEF Init, EmptyQueue
<1>2. ASSUME NEW c \in Conns, NEW l \in Lanes
      PROVE  Lane(stream[c][l], Waiting(c, l), c, promised[c][l])
  <2>1. stream[c][l] = <<>> /\ Waiting(c, l) = <<>> /\ promised[c][l] = 0
    BY <1>1 DEF Init, EmptyQueue, Waiting
  <2>2. <<>> \in Seq(Message) /\ DOMAIN <<>> = {} /\ 0 \in Nat
    OBVIOUS
  <2>3. Lane(<<>>, <<>>, c, 0)
    BY <2>2 DEF Lane, Numbered, Ordered, Before
  <2> QED BY <2>1, <2>3
<1> QED BY <1>1, <1>2 DEF OrderInv, LanesInOrder, QueueOwned

LEMMA OrderNext == TypeInv /\ OrderInv /\ [Next]_vars => OrderInv'
<1> SUFFICES ASSUME TypeInv, OrderInv, [Next]_vars PROVE OrderInv'
  OBVIOUS
<1>1. ASSUME NEW t \in Threads, FreeSlot(t) PROVE OrderInv'
  BY <1>1, OrderReset DEF FreeSlot, gnsVars
<1>2. ASSUME NEW t \in Threads, LoadHandle(t) \/ CloseConnection(t) \/ Kick(t)
      PROVE  OrderInv'
  BY <1>2, OrderKept DEF LoadHandle, CloseConnection, Kick, gnsVars, backlogVars
<1>3. ASSUME NEW t \in Threads, NEW l \in Lanes,
             SendThrough(t, l) \/ SendRefused(t, l) \/ SendQueued(t, l)
      PROVE  OrderInv'
  BY <1>3, SendThroughOrder, SendRefusedOrder, SendQueuedOrder
<1>4. ASSUME NEW c \in Conns, Transmit(c) \/ LinkDies(c) \/ AdmitPending(c)
      PROVE  OrderInv'
  BY <1>4, OrderKept DEF Transmit, LinkDies, AdmitPending, backlogVars
<1>5. CASE TrySendReliableToSlot \/ ClosedEdge \/ Tick \/ UNCHANGED vars
  BY <1>5, OrderKept DEF TrySendReliableToSlot, ClosedEdge, Tick, vars, gnsVars, backlogVars
<1>6. CASE BeginPass \/ CheckFatal \/ FatalCloseSlot
  BY <1>6, OrderKept DEF BeginPass, CheckFatal, FatalCloseSlot, gnsVars, backlogVars
<1>7. CASE DrainForeign
  BY <1>7, OrderReset DEF DrainForeign, gnsVars
<1> QED BY <1>1, <1>2, <1>3, <1>4, <1>5, <1>6, <1>7, DrainOrder, NextCases

\* The type invariant.
THEOREM TypeCorrect == Spec => []TypeOK
<1>1. TypeInv => TypeOK
  BY DEF TypeInv
<1> QED BY <1>1, TypeInit, TypeNext, PTL DEF Spec

\* send_backlog.cpp, SendOrQueue and Drain, with every teardown: a connection's
\* stream holds its own messages alone, in order and none twice.
THEOREM StreamsAreInOrder == Spec => []StreamInOrder
<1> QED BY TypeInit, TypeNext, OrderInit, OrderNext, StreamsOrdered, PTL DEF Spec

-----------------------------------------------------------------------------
(* Verdicts.                                                               *)

\* A verdict is about the cap, unless the pass that gave it, or the teardown it
\* leads to, is under way: a pass that may drain the queue finds more in it than
\* it can take.
VerdictInv ==
  /\ VerdictHasQueue
  /\ fatal /\ pc["net"] \notin {"check", "kick"}
       /\ (stamp = peerConns \/ (pc["net"] = "drain" /\ stamp = held["net"]))
     => total > ByteCap

\* What another thread can have left in the backlog between the drain and the
\* check: one message, with a clock that has not run out.
StrangerInv ==
  pc["net"] = "check" /\ total > 0 /\ stamp # held["net"] =>
    /\ total = 1 /\ ~fatal
    /\ stalled <= (IF passed THEN 0 ELSE 1)
    /\ pc["game"] = "send" => held["game"] = held["net"]

\* A thread's step moves that thread alone.
LEMMA Moves ==
  ASSUME TypeInv, NEW t \in Threads, NEW l, NEW m, NEW c, StepWith(t, l, m, c)
  PROVE  /\ pc[t] = l /\ pc'[t] = m
         /\ held'[t] = IF m = "idle" THEN NoConn ELSE c
         /\ \A u \in Threads : u # t => pc'[u] = pc[u] /\ held'[u] = held[u]
         /\ "net" \in Threads /\ "game" \in Threads
<1>1. pc \in [Threads -> Labels] /\ held \in [Threads -> Conns \cup {NoConn}]
  BY TypeParts DEF TypeInv, ThreadType
<1> QED BY <1>1 DEF StepWith, Threads

LEMMA MovesStep ==
  ASSUME TypeInv, NEW t \in Threads, NEW l, NEW m, Step(t, l, m)
  PROVE  /\ pc[t] = l /\ pc'[t] = m
         /\ held'[t] = IF m = "idle" THEN NoConn ELSE held[t]
         /\ \A u \in Threads : u # t => pc'[u] = pc[u] /\ held'[u] = held[u]
         /\ "net" \in Threads /\ "game" \in Threads
BY Moves DEF Step

LEMMA ResetClears ==
  ASSUME Reset
  PROVE  total' = 0 /\ ~fatal' /\ stamp' = NoConn
BY DEF Reset

\* Whose backlog there is, if there is any.
LEMMA OwnerKnown ==
  ASSUME TypeInv, OrderInv, total > 0
  PROVE  stamp \in Conns /\ stamp # NoConn
<1>1. stamp \in Conns
  BY TypeFacts DEF OrderInv, QueueOwned
<1> QED BY <1>1, Sizes DEF Conns, NoConn

LEMMA VerdictInit == Init => VerdictInv /\ StrangerInv
BY DEF Init, VerdictInv, StrangerInv, VerdictHasQueue, Threads

\* No verdict, or the same verdict under the same conditions.
LEMMA VerdictNone ==
  ASSUME ~fatal'
  PROVE  VerdictInv'
BY DEF VerdictInv, VerdictHasQueue

LEMMA VerdictSame ==
  ASSUME VerdictInv, UNCHANGED <<total, fatal, stamp>>,
         \/ pc'["net"] \in {"check", "kick"}
         \/ /\ pc["net"] \notin {"check", "kick"}
            /\ fatal /\ stamp = peerConns' =>
                 stamp = peerConns \/ (pc["net"] = "drain" /\ stamp = held["net"])
            /\ pc'["net"] = "drain" =>
                 \/ held'["net"] = peerConns
                 \/ pc["net"] = "drain" /\ held'["net"] = held["net"]
         \/ ~fatal
         \/ stamp # peerConns' /\ pc'["net"] # "drain"
  PROVE  VerdictInv'
BY DEF VerdictInv, VerdictHasQueue

LEMMA VerdictGone ==
  ASSUME TypeInv, OrderInv, VerdictInv, UNCHANGED <<total, fatal, stamp>>,
         peerConns' = NoConn,
         \/ pc'["net"] # "drain"
         \/ pc["net"] = "drain" /\ pc'["net"] = "drain" /\ held'["net"] = held["net"]
  PROVE  VerdictInv'
<1>1. total > 0 => stamp # NoConn
  BY OwnerKnown
<1> QED BY <1>1 DEF VerdictInv, VerdictHasQueue

LEMMA SendQueuedVerdict ==
  ASSUME TypeInv, OrderInv, VerdictInv, NEW t \in Threads, NEW l \in Lanes, SendQueued(t, l)
  PROVE  VerdictInv'
<1> DEFINE c    == held[t]
           size == IF Foreign(c) THEN 0 ELSE total
<1>1. /\ Step(t, "send", "idle")
      /\ total' = size + 1
      /\ fatal' = (size + 1 > ByteCap \/ (fatal /\ ~Foreign(c)))
      /\ stamp' = c
      /\ peerConns' = peerConns
  BY DEF SendQueued
<1>2. size \in Nat
  BY TypeFacts
<1>3. VerdictHasQueue'
  BY <1>1, <1>2 DEF VerdictHasQueue
<1>4. ASSUME fatal', pc'["net"] \notin {"check", "kick"},
             stamp' = peerConns' \/ (pc'["net"] = "drain" /\ stamp' = held'["net"])
      PROVE  total' > ByteCap
  <2>1. CASE size + 1 > ByteCap
    BY <1>1, <2>1
  <2>2. CASE fatal /\ ~Foreign(c)
    <3>1. total > 0 /\ size = total /\ stamp = c
      BY <2>2 DEF VerdictInv, VerdictHasQueue, Foreign
    <3>2. pc["net"] \notin {"check", "kick"}
      BY <1>1, <1>4, MovesStep
    <3>3. stamp = peerConns \/ (pc["net"] = "drain" /\ stamp = held["net"])
      BY <1>1, <1>4, <3>1, MovesStep
    <3>4. total > ByteCap
      BY <2>2, <3>2, <3>3 DEF VerdictInv
    <3> HIDE DEF size
    <3> QED BY <1>1, <1>2, <3>1, <3>4, Sizes
  <2> HIDE DEF size
  <2> QED BY <1>1, <1>4, <2>1, <2>2
<1> QED BY <1>3, <1>4 DEF VerdictInv

\* A pass cannot empty the backlog of a verdict.
LEMMA DrainVerdict ==
  ASSUME TypeInv, VerdictInv, Drain
  PROVE  VerdictInv'
<1> DEFINE c == held["net"]
<1>1. /\ pc["net"] = "drain" /\ pc'["net"] = "check"
      /\ ~Foreign(c) /\ total' = total - Sent(c) /\ fatal' = fatal
  BY MovesStep DEF Drain, Threads
<1>2. c \in Conns
  BY <1>1 DEF TypeInv, Phases, Threads
<1>3. Sent(c) \in Nat /\ Sent(c) <= PassCap
  <2>1. Sent(c) <= Budget(c) /\ Sent(c) \in Nat
    BY <1>2, SentBound, TakenFinite DEF TypeInv
  <2>2. Budget(c) \in Nat /\ Budget(c) <= PassCap
    BY <1>2, BudgetBound DEF TypeInv
  <2> QED BY <2>1, <2>2, Sizes
<1>4. ASSUME fatal PROVE total' > 0
  <2>1. total > 0 /\ stamp = c
    BY <1>1, <1>4 DEF VerdictInv, VerdictHasQueue, Foreign
  <2>2. total > ByteCap
    BY <1>1, <1>4, <2>1 DEF VerdictInv
  <2> HIDE DEF c
  <2> QED BY <1>1, <1>3, <2>2, TypeFacts, Sizes
<1> QED BY <1>1, <1>4 DEF VerdictInv, VerdictHasQueue

LEMMA CheckVerdict ==
  ASSUME TypeInv, VerdictInv, CheckFatal
  PROVE  VerdictInv'
<1>1. /\ pc'["net"] = IF Condemned THEN "kick" ELSE "idle"
      /\ fatal' = (fatal \/ Condemned) /\ UNCHANGED <<total, stamp>>
  BY MovesStep DEF CheckFatal, Threads
<1>2. CASE Condemned
  BY <1>1, <1>2 DEF VerdictInv, VerdictHasQueue, Condemned
<1>3. CASE ~Condemned
  <2>1. ~fatal
    BY <1>3 DEF VerdictInv, VerdictHasQueue, Condemned
  <2> QED BY <1>1, <1>3, <2>1, VerdictNone
<1> QED BY <1>2, <1>3

LEMMA AdmitVerdict ==
  ASSUME TypeInv, VerdictInv, NEW c \in Conns, AdmitPending(c)
  PROVE  VerdictInv'
<1>1. /\ pc["net"] = "idle" /\ UNCHANGED <<total, fatal, stamp, pc, held>>
      /\ peerConns' = c /\ link[c] = "parked"
  <2>1. c >= c
    BY Sizes DEF Conns
  <2> QED BY <2>1 DEF AdmitPending, backlogVars
<1>2. stamp # c
  BY <1>1 DEF TypeInv, Admitted
<1> QED BY <1>1, <1>2, VerdictSame

LEMMA VerdictNext == TypeInv /\ OrderInv /\ VerdictInv /\ [Next]_vars => VerdictInv'
<1> SUFFICES ASSUME TypeInv, OrderInv, VerdictInv, [Next]_vars PROVE VerdictInv'
  OBVIOUS
<1>1. ASSUME NEW t \in Threads, FreeSlot(t) PROVE VerdictInv'
  BY <1>1, ResetClears, VerdictNone DEF FreeSlot
<1>2. ASSUME NEW t \in Threads, LoadHandle(t) PROVE VerdictInv'
  <2>1. StepWith(t, "idle", "send", peerConns) /\ UNCHANGED <<peerConns, total, fatal, stamp>>
    BY <1>2 DEF LoadHandle, backlogVars
  <2> QED BY <2>1, Moves, VerdictSame
<1>3. ASSUME NEW t \in Threads, CloseConnection(t) PROVE VerdictInv'
  <2>1. StepWith(t, "release", "idle", NoConn) /\ UNCHANGED <<peerConns, total, fatal, stamp>>
    BY <1>3 DEF CloseConnection, backlogVars
  <2> QED BY <2>1, Moves, VerdictSame
<1>4. ASSUME NEW t \in Threads, Kick(t) PROVE VerdictInv'
  <2>1. /\ StepWith(t, "idle", "free", peerConns) /\ peerConns' = NoConn
        /\ UNCHANGED <<total, fatal, stamp>>
    BY <1>4 DEF Kick, backlogVars
  <2> QED BY <2>1, Moves, VerdictGone
<1>5. ASSUME NEW t \in Threads, NEW l \in Lanes, SendThrough(t, l) \/ SendRefused(t, l)
      PROVE  VerdictInv'
  <2>1. Step(t, "send", "idle") /\ DiscardForeign(held[t]) /\ peerConns' = peerConns
    BY <1>5 DEF SendThrough, SendRefused
  <2>2. CASE Foreign(held[t])
    BY <2>1, <2>2, ResetClears, VerdictNone DEF DiscardForeign
  <2>3. CASE ~Foreign(held[t])
    BY <2>1, <2>3, MovesStep, VerdictSame DEF DiscardForeign, backlogVars
  <2> QED BY <2>2, <2>3
<1>6. CASE BeginPass
  <2>1. /\ StepWith("net", "idle", "drain", peerConns)
        /\ UNCHANGED <<peerConns, total, fatal, stamp>>
    BY <1>6 DEF BeginPass, backlogVars
  <2> QED BY <2>1, Moves, VerdictSame DEF Threads
<1>7. CASE FatalCloseSlot
  <2>1. /\ StepWith("net", "kick", IF peerConns = NoConn THEN "idle" ELSE "free", peerConns)
        /\ peerConns' = NoConn /\ UNCHANGED <<total, fatal, stamp>>
    BY <1>7 DEF FatalCloseSlot, backlogVars
  <2>2. pc'["net"] # "drain"
    BY <2>1, Moves DEF Threads
  <2> QED BY <2>1, <2>2, VerdictGone
<1>8. CASE ClosedEdge
  <2>1. /\ StepWith("net", "idle", "free", peerConns)
        /\ peerConns' = NoConn /\ UNCHANGED <<total, fatal, stamp>>
    BY <1>8 DEF ClosedEdge, backlogVars
  <2>2. pc'["net"] # "drain"
    BY <2>1, Moves DEF Threads
  <2> QED BY <2>1, <2>2, VerdictGone
<1>9. CASE DrainForeign
  BY <1>9, ResetClears, VerdictNone DEF DrainForeign
<1>10. CASE TrySendReliableToSlot \/ Tick \/ UNCHANGED vars
            \/ \E c \in Conns : Transmit(c) \/ LinkDies(c)
  <2>1. UNCHANGED <<peerConns, total, fatal, stamp, pc, held>>
    BY <1>10 DEF TrySendReliableToSlot, Tick, Transmit, LinkDies, vars, backlogVars
  <2> QED BY <2>1 DEF VerdictInv, VerdictHasQueue
<1> QED BY <1>1, <1>2, <1>3, <1>4, <1>5, <1>6, <1>7, <1>8, <1>9, <1>10,
           SendQueuedVerdict, DrainVerdict, CheckVerdict, AdmitVerdict, NextCases

\* send_backlog.cpp, CheckFatal and ResetLocked_: the verdict on a slot goes with
\* the queue it was about, so it cannot hit a later, harmless episode.
THEOREM VerdictsHaveQueues == Spec => []VerdictHasQueue
<1>1. VerdictInv => VerdictHasQueue
  BY DEF VerdictInv
<1> QED BY <1>1, TypeInit, TypeNext, OrderInit, OrderNext, VerdictInit, VerdictNext,
           PTL DEF Spec

\* The backlog at the check is that of the connection the pass is about, or what
\* a sender with an old handle has just put there.
LEMMA StrangerAway ==
  ASSUME pc'["net"] # "check" \/ total' = 0
  PROVE  StrangerInv'
BY DEF StrangerInv

LEMMA StrangerSame ==
  ASSUME StrangerInv, UNCHANGED <<total, fatal, stamp, stalled, passed>>,
         pc'["net"] = pc["net"], held'["net"] = held["net"],
         \/ pc'["game"] # "send"
         \/ pc'["game"] = pc["game"] /\ held'["game"] = held["game"]
         \/ pc["net"] = "check" => held'["game"] = held["net"]
  PROVE  StrangerInv'
BY DEF StrangerInv

LEMMA LoadHandleStranger ==
  ASSUME TypeInv, StrangerInv, NEW t \in Threads, LoadHandle(t)
  PROVE  StrangerInv'
<1>1. /\ StepWith(t, "idle", "send", peerConns) /\ peerConns # NoConn
      /\ UNCHANGED <<total, fatal, stamp, stalled, passed>>
  BY DEF LoadHandle, backlogVars
<1>2. CASE t = "net"
  BY <1>1, <1>2, Moves, StrangerAway
<1>3. CASE t = "game"
  <2>1. /\ pc'["net"] = pc["net"] /\ held'["net"] = held["net"]
        /\ held'["game"] = peerConns
    BY <1>1, <1>3, Moves
  <2>2. pc["net"] = "check" => peerConns = held["net"]
    BY <1>1 DEF TypeInv, Phases
  <2> QED BY <1>1, <2>1, <2>2, StrangerSame
<1> QED BY <1>2, <1>3 DEF Threads

LEMMA SendQueuedStranger ==
  ASSUME TypeInv, VerdictInv, StrangerInv, NEW t \in Threads, NEW l \in Lanes,
         SendQueued(t, l)
  PROVE  StrangerInv'
<1> DEFINE c    == held[t]
           size == IF Foreign(c) THEN 0 ELSE total
<1>1. /\ Step(t, "send", "idle")
      /\ total' = size + 1
      /\ fatal' = (size + 1 > ByteCap \/ (fatal /\ ~Foreign(c)))
      /\ stalled' = IF size = 0 THEN 0 ELSE stalled
      /\ stamp' = c /\ UNCHANGED passed
  BY DEF SendQueued
<1>2. CASE t = "net"
  BY <1>1, <1>2, MovesStep, StrangerAway
<1>3. CASE t = "game"
  <2>1. /\ pc["game"] = "send" /\ pc'["game"] = "idle"
        /\ pc'["net"] = pc["net"] /\ held'["net"] = held["net"]
    BY <1>1, <1>3, MovesStep
  <2> SUFFICES ASSUME pc["net"] = "check", c # held["net"]
               PROVE  /\ total' = 1 /\ ~fatal'
                      /\ stalled' <= (IF passed' THEN 0 ELSE 1)
    BY <1>1, <2>1 DEF StrangerInv
  <2>2. total = 0 \/ Foreign(c)
    <3>1. total > 0 => stamp = held["net"]
      BY <1>3, <2>1 DEF StrangerInv
    <3> QED BY <3>1, TypeFacts DEF Foreign
  <2>3. size = 0
    BY <2>2
  <2>4. ~(fatal /\ ~Foreign(c))
    BY <2>2, Sizes DEF VerdictInv, VerdictHasQueue
  <2> HIDE DEF size, c
  <2>5. ~(size + 1 > ByteCap) /\ size + 1 = 1
    BY <2>3, Sizes
  <2>6. ~fatal'
    BY <1>1, <2>4, <2>5, Zenon
  <2>7. stalled' = 0 /\ total' = 1
    BY <1>1, <2>3, <2>5
  <2> QED BY <2>6, <2>7
<1> QED BY <1>2, <1>3 DEF Threads

LEMMA DrainStranger ==
  ASSUME TypeInv, StrangerInv, Drain
  PROVE  StrangerInv'
<1>1. /\ ~Foreign(held["net"]) /\ total' = total - Sent(held["net"])
      /\ held'["net"] = held["net"] /\ stamp' = stamp /\ pc["net"] = "drain"
  BY MovesStep DEF Drain, Threads
<1>2. held["net"] \in Conns
  BY <1>1 DEF TypeInv, Phases, Threads
<1>3. Sent(held["net"]) \in Nat
  BY <1>2, TakenFinite DEF TypeInv
<1>4. total' > 0 => total > 0
  BY <1>1, <1>3, TypeFacts
<1> QED BY <1>1, <1>4 DEF StrangerInv, Foreign

LEMMA TickStranger ==
  ASSUME TypeInv, StrangerInv, Tick
  PROVE  StrangerInv'
<1>1. /\ UNCHANGED <<total, fatal, stamp, pc, held>>
      /\ passed /\ passed' = FALSE /\ stalled' = stalled + 1
  BY DEF Tick
<1>2. stalled \in Nat
  BY TypeParts, Sizes DEF TypeInv, BacklogType
<1> QED BY <1>1, <1>2 DEF StrangerInv

LEMMA StrangerNext ==
  TypeInv /\ VerdictInv /\ StrangerInv /\ [Next]_vars => StrangerInv'
<1> SUFFICES ASSUME TypeInv, VerdictInv, StrangerInv, [Next]_vars PROVE StrangerInv'
  OBVIOUS
<1>1. ASSUME NEW t \in Threads, FreeSlot(t) PROVE StrangerInv'
  BY <1>1, ResetClears, StrangerAway DEF FreeSlot
<1>2. ASSUME NEW t \in Threads, CloseConnection(t) \/ Kick(t) PROVE StrangerInv'
  <2>1. /\ \/ StepWith(t, "release", "idle", NoConn)
           \/ StepWith(t, "idle", "free", peerConns)
        /\ UNCHANGED <<total, fatal, stamp, stalled, passed>>
    BY <1>2 DEF CloseConnection, Kick, backlogVars
  <2>2. CASE t = "net"
    BY <2>1, <2>2, Moves, StrangerAway
  <2>3. CASE t = "game"
    <3>1. /\ pc'["game"] # "send"
          /\ pc'["net"] = pc["net"] /\ held'["net"] = held["net"]
      BY <2>1, <2>3, Moves
    <3> QED BY <2>1, <3>1, StrangerSame
  <2> QED BY <2>2, <2>3 DEF Threads
<1>3. ASSUME NEW t \in Threads, NEW l \in Lanes, SendThrough(t, l) \/ SendRefused(t, l)
      PROVE  StrangerInv'
  <2>1. Step(t, "send", "idle") /\ DiscardForeign(held[t]) /\ UNCHANGED passed
    BY <1>3 DEF SendThrough, SendRefused
  <2>2. CASE Foreign(held[t])
    BY <2>1, <2>2, ResetClears, StrangerAway DEF DiscardForeign
  <2>3. CASE ~Foreign(held[t]) /\ t = "net"
    BY <2>1, <2>3, MovesStep, StrangerAway
  <2>4. CASE ~Foreign(held[t]) /\ t = "game"
    <3>1. /\ pc'["game"] # "send"
          /\ pc'["net"] = pc["net"] /\ held'["net"] = held["net"]
      BY <2>1, <2>4, MovesStep
    <3>2. UNCHANGED <<total, fatal, stamp, stalled, passed>>
      BY <2>1, <2>4 DEF DiscardForeign, backlogVars
    <3> QED BY <3>1, <3>2, StrangerSame
  <2> QED BY <2>2, <2>3, <2>4 DEF Threads
<1>4. CASE BeginPass \/ FatalCloseSlot \/ ClosedEdge
  <2>1. \/ StepWith("net", "idle", "drain", peerConns)
        \/ StepWith("net", "kick", IF peerConns = NoConn THEN "idle" ELSE "free", peerConns)
        \/ StepWith("net", "idle", "free", peerConns)
    BY <1>4 DEF BeginPass, FatalCloseSlot, ClosedEdge
  <2>2. pc'["net"] # "check"
    BY <2>1, Moves DEF Threads
  <2> QED BY <2>2, StrangerAway
<1>5. CASE DrainForeign
  BY <1>5, ResetClears, StrangerAway DEF DrainForeign
<1>6. CASE CheckFatal
  <2>1. pc'["net"] # "check"
    BY <1>6, MovesStep DEF CheckFatal, Threads
  <2> QED BY <2>1, StrangerAway
<1>7. ASSUME NEW c \in Conns, AdmitPending(c) PROVE StrangerInv'
  BY <1>7 DEF AdmitPending, StrangerInv
<1>8. CASE TrySendReliableToSlot \/ UNCHANGED vars
           \/ \E c \in Conns : Transmit(c) \/ LinkDies(c)
  <2>1. UNCHANGED <<total, fatal, stamp, stalled, passed, pc, held>>
    BY <1>8 DEF TrySendReliableToSlot, Transmit, LinkDies, vars, backlogVars
  <2> QED BY <2>1 DEF StrangerInv
<1> QED BY <1>1, <1>2, <1>3, <1>4, <1>5, <1>6, <1>7, <1>8, LoadHandleStranger,
           SendQueuedStranger, DrainStranger, TickStranger, NextCases

\* Only the check condemns a slot.
LEMMA OnlyTheCheck ==
  ASSUME TypeInv, [Next]_vars, pc["net"] = "check", pc'["net"] = "kick"
  PROVE  CheckFatal
<1>1. ASSUME NEW t \in Threads, LoadHandle(t) \/ FreeSlot(t) \/ CloseConnection(t) \/ Kick(t)
      PROVE  FALSE
  BY <1>1, Moves, MovesStep DEF LoadHandle, FreeSlot, CloseConnection, Kick
<1>2. ASSUME NEW t \in Threads, NEW l \in Lanes,
             SendThrough(t, l) \/ SendRefused(t, l) \/ SendQueued(t, l)
      PROVE  FALSE
  BY <1>2, MovesStep DEF SendThrough, SendRefused, SendQueued
<1>3. ~(TrySendReliableToSlot \/ Tick \/ UNCHANGED vars)
  BY DEF TrySendReliableToSlot, Tick, vars
<1>4. ~(BeginPass \/ Drain \/ DrainForeign \/ FatalCloseSlot \/ ClosedEdge)
  BY DEF BeginPass, Drain, DrainForeign, FatalCloseSlot, ClosedEdge, Step, StepWith
<1>5. ASSUME NEW c \in Conns, Transmit(c) \/ LinkDies(c) \/ AdmitPending(c) PROVE FALSE
  BY <1>5 DEF Transmit, LinkDies, AdmitPending
<1> QED BY <1>1, <1>2, <1>3, <1>4, <1>5, NextCases

LEMMA CondemnedStep ==
  ASSUME TypeInv, StrangerInv, [Next]_vars, pc["net"] = "check", pc'["net"] = "kick"
  PROVE  stamp = held["net"]
<1>1. CheckFatal
  BY OnlyTheCheck
<1>2. total > 0 /\ (fatal \/ stalled > NoProgress)
  BY <1>1, MovesStep DEF CheckFatal, Threads, Condemned
<1>3. stalled \in Nat
  BY TypeParts, Sizes DEF TypeInv, BacklogType
<1>4. SUFFICES ASSUME stamp # held["net"] PROVE FALSE
  OBVIOUS
<1>5. ~fatal /\ stalled <= 1
  BY <1>2, <1>3, <1>4 DEF StrangerInv
<1> QED BY <1>2, <1>3, <1>5, Sizes

\* session.cpp, the net loop's drain, check and kick of a slot: a connection is
\* closed for its own backlog, whatever an older handle's sender leaves in the
\* slot between the drain and the check.
THEOREM OwnVerdicts == Spec => CondemnedByItsOwn
<1>1. TypeInv /\ StrangerInv /\ [Next]_vars
        => [pc["net"] = "check" /\ pc'["net"] = "kick" => stamp = held["net"]]_vars
  BY CondemnedStep
<1> QED BY <1>1, TypeInit, TypeNext, OrderInit, OrderNext, VerdictInit, VerdictNext,
           StrangerNext, PTL DEF Spec, CondemnedByItsOwn

-----------------------------------------------------------------------------
(* Losses.                                                                 *)

\* The first p messages to c are all in s or in q.
Found(s, q, c, n) == \/ \E i \in DOMAIN s : s[i] = [to |-> c, n |-> n]
                     \/ \E i \in DOMAIN q : q[i] = [to |-> c, n |-> n]
AllFound(s, q, c, p) == \A n \in 1..p : Found(s, q, c, n)

LEMMA FoundNext ==
  ASSUME NEW c \in Conns, NEW s \in Seq(Message), NEW q \in Seq(Message), NEW p \in Nat,
         AllFound(s, q, c, p), NEW m \in Message, m = [to |-> c, n |-> p + 1]
  PROVE  AllFound(Append(s, m), q, c, p + 1) /\ AllFound(s, Append(q, m), c, p + 1)
<1>1. ASSUME NEW r \in Seq(Message)
      PROVE  /\ \A i \in DOMAIN r : i \in DOMAIN Append(r, m) /\ Append(r, m)[i] = r[i]
             /\ Len(r) + 1 \in DOMAIN Append(r, m) /\ Append(r, m)[Len(r) + 1] = m
  BY <1>1
<1>2. \A n \in 1..p + 1 : n \in 1..p \/ n = p + 1
  OBVIOUS
<1>3. AllFound(Append(s, m), q, c, p + 1)
  <2> SUFFICES ASSUME NEW n \in 1..p + 1 PROVE Found(Append(s, m), q, c, n)
    BY DEF AllFound
  <2>1. CASE n \in 1..p
    BY <1>1, <2>1 DEF AllFound, Found
  <2>2. CASE n = p + 1
    BY <1>1, <2>2 DEF Found
  <2> QED BY <1>2, <2>1, <2>2
<1>4. AllFound(s, Append(q, m), c, p + 1)
  <2> SUFFICES ASSUME NEW n \in 1..p + 1 PROVE Found(s, Append(q, m), c, n)
    BY DEF AllFound
  <2>1. CASE n \in 1..p
    BY <1>1, <2>1 DEF AllFound, Found
  <2>2. CASE n = p + 1
    BY <1>1, <2>2 DEF Found
  <2> QED BY <1>2, <2>1, <2>2
<1> QED BY <1>3, <1>4

LEMMA FoundMoved ==
  ASSUME NEW c \in Conns, NEW s \in Seq(Message), NEW q \in Seq(Message),
         NEW k \in 0..Len(q), NEW p \in Nat, AllFound(s, q, c, p)
  PROVE  AllFound(s \o SubSeq(q, 1, k), SubSeq(q, k + 1, Len(q)), c, p)
<1> DEFINE u == s \o SubSeq(q, 1, k)
           v == SubSeq(q, k + 1, Len(q))
<1>1. Len(s) \in Nat /\ Len(q) \in Nat /\ k \in Nat /\ k <= Len(q)
      /\ DOMAIN s = 1..Len(s) /\ DOMAIN q = 1..Len(q)
  BY SequenceShape
<1>2. \A i \in DOMAIN s : i \in DOMAIN u /\ u[i] = s[i]
  BY <1>1
<1>3. ASSUME NEW i \in DOMAIN q, i <= k
      PROVE  i + Len(s) \in DOMAIN u /\ u[i + Len(s)] = q[i]
  <2>1. /\ SubSeq(q, 1, k) \in Seq(Message) /\ Len(SubSeq(q, 1, k)) = k
        /\ SubSeq(q, 1, k)[i] = q[i]
    BY <1>1, <1>3
  <2> QED BY <1>1, <1>3, <2>1
<1>4. ASSUME NEW i \in DOMAIN q, i > k
      PROVE  i - k \in DOMAIN v /\ v[i - k] = q[i]
  BY <1>1, <1>4
<1>5. \A i \in DOMAIN q : i <= k \/ i > k
  BY <1>1
<1> HIDE DEF u, v
<1>6. ASSUME NEW n \in 1..p PROVE Found(u, v, c, n)
  <2>1. Found(s, q, c, n)
    BY DEF AllFound
  <2>2. CASE \E i \in DOMAIN s : s[i] = [to |-> c, n |-> n]
    BY <1>2, <2>2 DEF Found
  <2>3. ASSUME NEW i \in DOMAIN q, q[i] = [to |-> c, n |-> n] PROVE Found(u, v, c, n)
    BY <1>3, <1>4, <1>5, <2>3 DEF Found
  <2> QED BY <2>1, <2>2, <2>3 DEF Found
<1> QED BY <1>6 DEF AllFound, u, v

\* Whole, in the terms of the lanes.
WholeLanes(c) == \A l \in Lanes : AllFound(stream[c][l], Waiting(c, l), c, promised[c][l])

LEMMA WholeFound ==
  ASSUME OrderInv, NEW c \in Conns
  PROVE  Whole(c) <=> WholeLanes(c)
<1>1. ASSUME NEW l \in Lanes, NEW n
      PROVE  (\E m \in {stream[c][l][i] : i \in DOMAIN stream[c][l]}
                         \cup {queue[l][i] : i \in DOMAIN queue[l]} : m = [to |-> c, n |-> n])
               <=> Found(stream[c][l], queue[l], c, n)
  BY DEF Found
<1>2. ASSUME NEW l \in Lanes, NEW n
      PROVE  Found(stream[c][l], queue[l], c, n) <=> Found(stream[c][l], Waiting(c, l), c, n)
  <2>1. ASSUME NEW i \in DOMAIN queue[l], queue[l][i] = [to |-> c, n |-> n]
        PROVE  stamp = c
    <3>1. stamp \in Conns
      <4>1. queue[l] # <<>>
        BY <2>1
      <4> QED BY <4>1 DEF OrderInv, QueueOwned
    <3>2. Lane(stream[stamp][l], queue[l], stamp, promised[stamp][l])
      BY <3>1 DEF OrderInv, LanesInOrder, Waiting
    <3>3. queue[l][i].to = stamp
      BY <3>2 DEF Lane, Numbered
    <3> QED BY <2>1, <3>3
  <2>2. DOMAIN <<>> = {}
    OBVIOUS
  <2> QED BY <2>1, <2>2 DEF Found, Waiting
<1> QED BY <1>1, <1>2 DEF Whole, WholeLanes, AllFound

LEMMA WholeAlways == OrderInv => \A c \in Conns : Whole(c) <=> WholeLanes(c)
BY WholeFound

LEMMA WholeAfter == OrderInv' => \A c \in Conns : Whole(c)' <=> WholeLanes(c)'
<1> DEFINE Same == \A c \in Conns : Whole(c) <=> WholeLanes(c)
<1>1. OrderInv => Same
  BY WholeAlways
<1>2. OrderInv' => Same'
  <2> HIDE DEF Same
  <2> QED BY <1>1, PTL
<1> QED BY <1>2

\* A step that leaves the streams of c alone, and drops nothing of c.
LEMMA LossNone ==
  ASSUME NEW c \in Conns, WholeLanes(c), stream'[c] = stream[c], promised'[c] = promised[c],
         \A l \in Lanes : Waiting(c, l)' = Waiting(c, l)
  PROVE  WholeLanes(c)'
BY DEF WholeLanes

LEMMA ForeignWaits ==
  ASSUME NEW c \in Conns, Foreign(c)
  PROVE  \A l \in Lanes : Waiting(c, l) = <<>>
BY DEF Foreign, Waiting

\* After a discard as a sender for c makes it, c has lost nothing.
LEMMA DiscardLoss ==
  ASSUME TypeInv, NEW c \in Conns, DiscardForeign(c), NEW l \in Lanes
  PROVE  Waiting(c, l)' = Waiting(c, l)
<1>1. CASE Foreign(c)
  <2>1. queue'[l] = <<>>
    BY <1>1, ResetEmpties DEF DiscardForeign
  <2> QED BY <1>1, <2>1, ForeignWaits DEF Waiting
<1>2. CASE ~Foreign(c)
  BY <1>2 DEF DiscardForeign, backlogVars, Waiting
<1> QED BY <1>1, <1>2

LEMMA SendThroughLoss ==
  ASSUME TypeInv, NEW t \in Threads, NEW l \in Lanes, SendThrough(t, l),
         NEW c \in Conns, held[t] = c, WholeLanes(c)
  PROVE  WholeLanes(c)'
<1> DEFINE m == Fresh(c, l)
<1>1. /\ pc[t] = "send" /\ DiscardForeign(c) /\ Promise(c, l)
      /\ stream' = [stream EXCEPT ![c][l] = Append(@, m)]
  BY DEF SendThrough, Step, StepWith
<1>2. m \in Message /\ m = [to |-> c, n |-> promised[c][l] + 1]
  BY <1>1, FreshType DEF Fresh
<1>3. /\ promised'[c][l] = promised[c][l] + 1
      /\ \A k \in Lanes : k # l => promised'[c][k] = promised[c][k]
  BY <1>1, PromiseType
<1>4. /\ stream'[c][l] = Append(stream[c][l], m)
      /\ \A k \in Lanes : k # l => stream'[c][k] = stream[c][k]
  <2> HIDE DEF m
  <2> QED BY <1>1, <1>2, TypeFacts
<1>5. \A k \in Lanes : Waiting(c, k)' = Waiting(c, k)
  BY <1>1, DiscardLoss
<1>6. /\ stream[c][l] \in Seq(Message) /\ Waiting(c, l) \in Seq(Message)
      /\ promised[c][l] \in Nat
  BY TypeFacts DEF Waiting
<1> HIDE DEF m
<1>7. ASSUME NEW k \in Lanes
      PROVE  AllFound(stream'[c][k], Waiting(c, k), c, promised'[c][k])
  <2>1. AllFound(stream[c][k], Waiting(c, k), c, promised[c][k])
    BY DEF WholeLanes
  <2>2. CASE k = l
    <3>1. AllFound(Append(stream[c][l], m), Waiting(c, l), c, promised[c][l] + 1)
      BY <1>2, <1>6, <2>1, <2>2, FoundNext
    <3> QED BY <1>3, <1>4, <2>2, <3>1
  <2>3. CASE k # l
    BY <1>3, <1>4, <2>1, <2>3
  <2> QED BY <2>2, <2>3
<1> QED BY <1>5, <1>7 DEF WholeLanes

LEMMA SendQueuedLoss ==
  ASSUME TypeInv, NEW t \in Threads, NEW l \in Lanes, SendQueued(t, l),
         NEW c \in Conns, held[t] = c, WholeLanes(c)
  PROVE  WholeLanes(c)'
<1> DEFINE m == Fresh(c, l)
           kept == IF Foreign(c) THEN EmptyQueue ELSE queue
<1>1. /\ pc[t] = "send" /\ Promise(c, l) /\ stamp' = c /\ UNCHANGED stream
      /\ queue' = [kept EXCEPT ![l] = Append(@, m)]
  BY DEF SendQueued, Step, StepWith, gnsVars
<1>2. m \in Message /\ m = [to |-> c, n |-> promised[c][l] + 1]
  BY <1>1, FreshType DEF Fresh
<1>3. /\ promised'[c][l] = promised[c][l] + 1
      /\ \A k \in Lanes : k # l => promised'[c][k] = promised[c][k]
  BY <1>1, PromiseType
<1>4. kept \in Queues
  BY EmptyTotal, TypeFacts
<1>5. \A k \in Lanes : kept[k] = Waiting(c, k)
  BY OwnOrEmpty, ForeignWaits DEF EmptyQueue
<1> HIDE DEF kept, m
<1>6. /\ Waiting(c, l)' = Append(Waiting(c, l), m)
      /\ \A k \in Lanes : k # l => Waiting(c, k)' = Waiting(c, k)
  <2>1. queue'[l] = Append(kept[l], m) /\ \A k \in Lanes : k # l => queue'[k] = kept[k]
    BY <1>1, <1>4 DEF Queues
  <2>2. \A k \in Lanes : Waiting(c, k)' = queue'[k]
    BY <1>1 DEF Waiting
  <2> QED BY <1>5, <2>1, <2>2
<1>7. /\ stream[c][l] \in Seq(Message) /\ Waiting(c, l) \in Seq(Message)
      /\ promised[c][l] \in Nat
  BY TypeFacts DEF Waiting
<1>8. ASSUME NEW k \in Lanes
      PROVE  AllFound(stream[c][k], Waiting(c, k)', c, promised'[c][k])
  <2>1. AllFound(stream[c][k], Waiting(c, k), c, promised[c][k])
    BY DEF WholeLanes
  <2>2. CASE k = l
    <3>1. AllFound(stream[c][l], Append(Waiting(c, l), m), c, promised[c][l] + 1)
      BY <1>2, <1>7, <2>1, <2>2, FoundNext
    <3> QED BY <1>3, <1>6, <2>2, <3>1
  <2>3. CASE k # l
    BY <1>3, <1>6, <2>1, <2>3
  <2> QED BY <2>2, <2>3
<1> QED BY <1>1, <1>8 DEF WholeLanes

LEMMA DrainLoss ==
  ASSUME TypeInv, OrderInv, Drain, NEW c \in Conns, held["net"] = c, WholeLanes(c)
  PROVE  WholeLanes(c)'
<1>1. /\ ~Foreign(c) /\ UNCHANGED <<promised, stamp>>
      /\ stream' = [stream EXCEPT ![c] = [l \in Lanes |->
                      @[l] \o SubSeq(queue[l], 1, Share(c, l))]]
      /\ queue' = [l \in Lanes |->
                      SubSeq(queue[l], Share(c, l) + 1, Len(queue[l]))]
  BY DEF Drain
<1>2. ASSUME NEW l \in Lanes
      PROVE  AllFound(stream'[c][l], Waiting(c, l)', c, promised[c][l])
  <2>1. Share(c, l) \in 0..Len(queue[l])
    BY ShareBound DEF TypeInv
  <2>2. queue[l] = Waiting(c, l)
    BY <1>1, OwnOrEmpty
  <2>3. /\ stream[c][l] \in Seq(Message) /\ queue[l] \in Seq(Message)
        /\ promised[c][l] \in Nat
    BY TypeFacts
  <2>4. /\ stream'[c][l] = stream[c][l] \o SubSeq(queue[l], 1, Share(c, l))
        /\ queue'[l] = SubSeq(queue[l], Share(c, l) + 1, Len(queue[l]))
    BY <1>1, TypeFacts
  <2>5. AllFound(stream'[c][l], queue'[l], c, promised[c][l])
    <3>1. AllFound(stream[c][l], queue[l], c, promised[c][l])
      BY <2>2 DEF WholeLanes
    <3> HIDE DEF Share
    <3> QED BY <2>1, <2>3, <2>4, <3>1, FoundMoved
  <2>6. Waiting(c, l)' = queue'[l]
    <3>1. CASE stamp = c
      BY <1>1, <3>1 DEF Waiting
    <3>2. CASE stamp # c
      <4>1. queue[l] = <<>>
        BY <2>2, <3>2 DEF Waiting
      <4>2. queue'[l] = <<>>
        BY <2>1, <2>4, <4>1
      <4> QED BY <1>1, <3>2, <4>2 DEF Waiting
    <3> QED BY <3>1, <3>2
  <2> QED BY <2>5, <2>6
<1> QED BY <1>1, <1>2 DEF WholeLanes

\* What a thread that works for another connection can do to c.
Stranger(c) == \E t \in Threads : pc[t] \in {"send", "free"} /\ held[t] # c /\ pc'[t] # pc[t]

LEMMA LossNext ==
  ASSUME TypeInv, OrderInv, [Next]_vars, NEW c \in Conns, peerConns = c, peerConns' = c,
         WholeLanes(c)
  PROVE  WholeLanes(c)' \/ Stranger(c)
<1>1. ASSUME UNCHANGED <<stream, promised, queue, stamp>> PROVE WholeLanes(c)'
  BY <1>1, LossNone DEF Waiting
<1>2. ASSUME NEW t \in Threads, FreeSlot(t) PROVE Stranger(c)
  <2>1. pc[t] = "free" /\ pc'[t] = "release"
    BY <1>2, MovesStep DEF FreeSlot
  <2>2. held[t] # c
    BY <2>1 DEF TypeInv, Phases
  <2> QED BY <2>1, <2>2 DEF Stranger
<1>3. ASSUME NEW t \in Threads, LoadHandle(t) \/ CloseConnection(t) \/ Kick(t)
      PROVE  WholeLanes(c)'
  BY <1>1, <1>3 DEF LoadHandle, CloseConnection, Kick, gnsVars, backlogVars
<1>4. ASSUME NEW t \in Threads, NEW l \in Lanes,
             SendThrough(t, l) \/ SendRefused(t, l) \/ SendQueued(t, l)
      PROVE  WholeLanes(c)' \/ Stranger(c)
  <2>1. Step(t, "send", "idle")
    BY <1>4 DEF SendThrough, SendRefused, SendQueued
  <2>2. pc[t] = "send" /\ pc'[t] = "idle"
    BY <2>1, MovesStep
  <2>3. CASE held[t] # c
    BY <2>2, <2>3 DEF Stranger
  <2>4. CASE held[t] = c /\ SendRefused(t, l)
    <3>1. DiscardForeign(c) /\ UNCHANGED <<stream, promised>>
      BY <2>4 DEF SendRefused, gnsVars
    <3> QED BY <3>1, DiscardLoss, LossNone
  <2> QED BY <1>4, <2>3, <2>4, SendThroughLoss, SendQueuedLoss
<1>5. ASSUME NEW d \in Conns, Transmit(d) \/ LinkDies(d) \/ AdmitPending(d)
      PROVE  WholeLanes(c)'
  BY <1>1, <1>5 DEF Transmit, LinkDies, AdmitPending, backlogVars
<1>6. CASE TrySendReliableToSlot \/ ClosedEdge \/ Tick \/ UNCHANGED vars
  BY <1>1, <1>6 DEF TrySendReliableToSlot, ClosedEdge, Tick, vars, gnsVars, backlogVars
<1>7. CASE BeginPass \/ CheckFatal \/ FatalCloseSlot
  BY <1>1, <1>7 DEF BeginPass, CheckFatal, FatalCloseSlot, gnsVars, backlogVars
<1>8. ASSUME Drain \/ DrainForeign PROVE held["net"] = c
  <2>1. pc["net"] = "drain"
    BY <1>8, MovesStep DEF Drain, DrainForeign, Threads
  <2>2. c # NoConn
    BY Sizes DEF Conns, NoConn
  <2> QED BY <2>1, <2>2 DEF TypeInv, Phases
<1>9. CASE DrainForeign
  <2>1. Foreign(c) /\ Reset /\ UNCHANGED <<stream, promised>>
    BY <1>8, <1>9 DEF DrainForeign, gnsVars
  <2>2. \A l \in Lanes : Waiting(c, l)' = Waiting(c, l)
    BY <2>1, DiscardLoss DEF DiscardForeign
  <2> QED BY <2>1, <2>2, LossNone
<1> QED BY <1>2, <1>3, <1>4, <1>5, <1>6, <1>7, <1>8, <1>9, DrainLoss, NextCases

\* send_backlog.cpp and the callers that hold a handle: what was promised to the
\* slot's connection is lost only by a thread that still works for an earlier one.
THEOREM StrangersAlone == Spec => LostByStrangersOnly
<1> DEFINE Lost == \A c \in Conns :
                     peerConns = c /\ peerConns' = c /\ Whole(c) /\ ~Whole(c)'
                       => \E t \in Threads : pc[t] \in {"send", "free"}
                                               /\ held[t] # c /\ pc'[t] # pc[t]
<1>1. TypeInv /\ OrderInv /\ OrderInv' /\ [Next]_vars => [Lost]_vars
  <2> SUFFICES ASSUME TypeInv, OrderInv, OrderInv', [Next]_vars, NEW c \in Conns,
                      peerConns = c, peerConns' = c, Whole(c), ~Whole(c)'
               PROVE  Stranger(c)
    BY DEF Stranger
  <2>1. WholeLanes(c)
    BY WholeFound
  <2>2. ~WholeLanes(c)'
    BY WholeAfter
  <2> QED BY <2>1, <2>2, LossNext
<1>2. TypeInv /\ OrderInv /\ [Next]_vars => OrderInv'
  BY OrderNext
<1> QED BY <1>1, <1>2, TypeInit, TypeNext, OrderInit, OrderNext, PTL
        DEF Spec, LostByStrangersOnly

-----------------------------------------------------------------------------
(* The private channels.                                                   *)

\* A lane moves only when the lanes before it are through.
LEMMA HigherFirst ==
  ASSUME TypeInv, NEW c \in Conns, NEW h \in Lanes, NEW l \in Lanes, h < l, Share(c, l) > 0
  PROVE  Share(c, h) = Len(queue[h])
<1>1. queue \in Queues /\ Len(queue[h]) \in Nat /\ Len(queue[l]) \in Nat
  BY TypeFacts DEF Queues
<1>2. Cardinality(Ahead(h)) + Len(queue[h]) <= Cardinality(Ahead(l))
  BY <1>1, AheadGrows
<1>3. /\ Cardinality(Ahead(h)) \in Nat /\ Cardinality(Ahead(l)) \in Nat
      /\ Budget(c) \in Nat
  BY <1>1, AheadFinite, BudgetBound DEF TypeInv
<1>4. Cardinality(Ahead(l)) < Budget(c)
  BY DEF Share
<1>5. Cardinality(Ahead(h)) < Budget(c)
      /\ Len(queue[h]) <= Budget(c) - Cardinality(Ahead(h))
  BY <1>1, <1>2, <1>3, <1>4
<1>6. Share(c, h) = Least(Len(queue[h]), Budget(c) - Cardinality(Ahead(h)))
  BY <1>5 DEF Share
<1> HIDE DEF Ahead, Budget
<1> QED BY <1>1, <1>3, <1>5, <1>6 DEF Least

\* A step of channel c.
Steps(c) == [Channel(c)!Next]_(Channel(c)!vars)

LEMMA ChannelSame ==
  ASSUME NEW c \in Conns, stream'[c] = stream[c], promised'[c] = promised[c],
         \/ \A l \in Lanes : Waiting(c, l)' = Waiting(c, l)
         \/ \A l \in Lanes : Waiting(c, l)' = <<>>
  PROVE  Steps(c)
<1>1. CASE \A l \in Lanes : Waiting(c, l)' = Waiting(c, l)
  <2>1. [l \in Lanes |-> Waiting(c, l)'] = [l \in Lanes |-> Waiting(c, l)]
    BY <1>1
  <2> QED BY <2>1 DEF Steps, Channel!vars
<1>2. CASE \A l \in Lanes : Waiting(c, l)' = <<>>
  <2>1. [l \in Lanes |-> Waiting(c, l)'] = [l \in Lanes |-> <<>>]
    BY <1>2
  <2> QED BY <2>1 DEF Steps, Channel!Next, Channel!Lose, Channel!Empty
<1> QED BY <1>1, <1>2

\* A sender's discard, as the others see it.
LEMMA DiscardSeen ==
  ASSUME NEW c \in Conns, NEW d \in Conns, DiscardForeign(d)
  PROVE  \/ \A l \in Lanes : Waiting(c, l)' = Waiting(c, l)
         \/ \A l \in Lanes : Waiting(c, l)' = <<>>
<1>1. CASE Foreign(d)
  BY <1>1, ResetEmpties DEF DiscardForeign, Waiting
<1>2. CASE ~Foreign(d)
  BY <1>2 DEF DiscardForeign, backlogVars, Waiting
<1> QED BY <1>1, <1>2

LEMMA ResetChannel ==
  ASSUME NEW c \in Conns, Reset, UNCHANGED <<stream, promised>>
  PROVE  Steps(c)
<1>1. \A l \in Lanes : Waiting(c, l)' = <<>>
  BY ResetEmpties DEF Waiting
<1> QED BY <1>1, ChannelSame

LEMMA SendThroughChannel ==
  ASSUME TypeInv, NEW t \in Threads, NEW l \in Lanes, SendThrough(t, l), NEW c \in Conns
  PROVE  Steps(c)
<1> DEFINE d == held[t]
<1>1. /\ pc[t] = "send" /\ LaneClear(l, d) /\ DiscardForeign(d)
      /\ promised' = [promised EXCEPT ![d][l] = @ + 1]
      /\ stream' = [stream EXCEPT ![d][l] = Append(@, Fresh(d, l))]
  BY DEF SendThrough, Step, StepWith, Promise
<1>2. d \in Conns
  BY <1>1, FreshType
<1> HIDE DEF d
<1>3. CASE c # d
  <2>1. stream'[c] = stream[c] /\ promised'[c] = promised[c]
    BY <1>1, <1>2, <1>3, TypeFacts
  <2> QED BY <1>1, <1>2, <2>1, DiscardSeen, ChannelSame
<1>4. CASE c = d
  <2>1. Waiting(c, l) = <<>>
    BY <1>1, <1>2, <1>4, ForeignWaits DEF LaneClear, Waiting
  <2>2. [k \in Lanes |-> Waiting(c, k)'] = [k \in Lanes |-> Waiting(c, k)]
    BY <1>1, <1>4, DiscardLoss
  <2>3. /\ stream'[c] = [stream[c] EXCEPT ![l] = Append(@, Fresh(c, l))]
        /\ promised'[c] = [promised[c] EXCEPT ![l] = @ + 1]
    BY <1>1, <1>2, <1>4, TypeFacts
  <2>4. Channel(c)!Send(l)
    BY <2>1, <2>2, <2>3 DEF Channel!Send, Channel!Accept, Channel!Fresh, Fresh
  <2> QED BY <2>4 DEF Steps, Channel!Next
<1> QED BY <1>3, <1>4

LEMMA SendQueuedChannel ==
  ASSUME TypeInv, NEW t \in Threads, NEW l \in Lanes, SendQueued(t, l), NEW c \in Conns
  PROVE  Steps(c)
<1> DEFINE d == held[t]
           kept == IF Foreign(d) THEN EmptyQueue ELSE queue
<1>1. /\ pc[t] = "send" /\ stamp' = d /\ UNCHANGED stream
      /\ promised' = [promised EXCEPT ![d][l] = @ + 1]
      /\ queue' = [kept EXCEPT ![l] = Append(@, Fresh(d, l))]
  BY DEF SendQueued, Step, StepWith, Promise, gnsVars
<1>2. d \in Conns
  BY <1>1, FreshType
<1>3. kept \in Queues
  BY EmptyTotal, TypeFacts
<1>4. \A k \in Lanes : kept[k] = Waiting(d, k)
  BY <1>2, OwnOrEmpty, ForeignWaits DEF EmptyQueue
<1> HIDE DEF d, kept
<1>5. CASE c # d
  <2>1. stream'[c] = stream[c] /\ promised'[c] = promised[c]
    BY <1>1, <1>2, <1>5, TypeFacts
  <2>2. \A k \in Lanes : Waiting(c, k)' = <<>>
    BY <1>1, <1>5 DEF Waiting
  <2> QED BY <2>1, <2>2, ChannelSame
<1>6. CASE c = d
  <2> DEFINE w == [k \in Lanes |-> Waiting(c, k)]
             v == [k \in Lanes |-> Waiting(c, k)']
  <2>1. v = [w EXCEPT ![l] = Append(@, Fresh(c, l))]
    <3>1. /\ queue'[l] = Append(kept[l], Fresh(d, l))
          /\ \A k \in Lanes : k # l => queue'[k] = kept[k]
      BY <1>1, <1>3 DEF Queues
    <3>2. \A k \in Lanes : v[k] = queue'[k] /\ w[k] = kept[k]
      BY <1>1, <1>4, <1>6 DEF Waiting
    <3>3. v[l] = Append(w[l], Fresh(c, l)) /\ \A k \in Lanes : k # l => v[k] = w[k]
      BY <1>6, <3>1, <3>2
    <3>4. v = [k \in Lanes |-> v[k]] /\ DOMAIN w = Lanes
      OBVIOUS
    <3> HIDE DEF v, w
    <3> QED BY <3>3, <3>4
  <2>2. promised'[c] = [promised[c] EXCEPT ![l] = @ + 1] /\ stream'[c] = stream[c]
    BY <1>1, <1>2, <1>6, TypeFacts
  <2>3. Channel(c)!Queue(l)
    BY <2>1, <2>2 DEF Channel!Queue, Channel!Accept, Channel!Fresh, Fresh
  <2> QED BY <2>3 DEF Steps, Channel!Next
<1> QED BY <1>5, <1>6

LEMMA DrainChannel ==
  ASSUME TypeInv, Drain, NEW c \in Conns
  PROVE  Steps(c)
<1> DEFINE d == held["net"]
<1>1. /\ pc["net"] = "drain" /\ ~Foreign(d) /\ UNCHANGED <<promised, stamp>>
      /\ stream' = [stream EXCEPT ![d] = [l \in Lanes |->
                      @[l] \o SubSeq(queue[l], 1, Share(d, l))]]
      /\ queue' = [l \in Lanes |->
                      SubSeq(queue[l], Share(d, l) + 1, Len(queue[l]))]
  BY DEF Drain, Step, StepWith
<1>2. d \in Conns
  BY <1>1 DEF TypeInv, Phases, Threads
<1>3. \A l \in Lanes : queue[l] = Waiting(d, l)
  BY <1>1, <1>2, OwnOrEmpty
<1>4. \A l \in Lanes : Share(d, l) \in 0..Len(queue[l])
  BY <1>2, ShareBound DEF TypeInv
<1> HIDE DEF d
<1>5. ASSUME NEW l \in Lanes
      PROVE  /\ queue'[l] = SubSeq(queue[l], Share(d, l) + 1, Len(queue[l]))
             /\ Share(d, l) = Len(queue[l]) => queue'[l] = <<>>
  <2>1. queue'[l] = SubSeq(queue[l], Share(d, l) + 1, Len(queue[l]))
    BY <1>1
  <2>2. queue[l] \in Seq(Message)
    BY TypeFacts
  <2>3. Share(d, l) = Len(queue[l]) => queue'[l] = <<>>
    <3> HIDE DEF Share
    <3> QED BY <2>1, <2>2
  <2> QED BY <2>1, <2>3
<1>6. ASSUME NEW l \in Lanes, stamp # d PROVE queue[l] = <<>> /\ queue'[l] = <<>>
  <2>1. queue[l] = <<>>
    BY <1>3, <1>6 DEF Waiting
  <2>2. Len(queue[l]) = 0 /\ Share(d, l) = 0
    BY <1>4, <2>1
  <2> QED BY <1>5, <2>1, <2>2
<1>7. CASE c # d
  <2>1. stream'[c] = stream[c] /\ promised'[c] = promised[c]
    BY <1>1, <1>2, <1>7, TypeFacts
  <2>2. \A l \in Lanes : Waiting(c, l)' = <<>>
    BY <1>1, <1>6, <1>7 DEF Waiting
  <2> QED BY <2>1, <2>2, ChannelSame
<1>8. CASE c = d
  <2>1. \A l \in Lanes : Waiting(c, l) = queue[l] /\ Waiting(c, l)' = queue'[l]
    BY <1>1, <1>3, <1>6, <1>8 DEF Waiting
  <2> DEFINE w == [l \in Lanes |-> Waiting(c, l)]
             v == [l \in Lanes |-> Waiting(c, l)']
  <2>2. ASSUME NEW l \in Lanes
        PROVE  \E k \in 0..Len(w[l]) :
                 /\ stream'[c][l] = stream[c][l] \o SubSeq(w[l], 1, k)
                 /\ v[l] = SubSeq(w[l], k + 1, Len(w[l]))
                 /\ k > 0 => \A h \in Lanes : h < l => v[h] = <<>>
    <3>1. w[l] = queue[l] /\ \A h \in Lanes : v[h] = queue'[h]
      BY <2>1
    <3>2. stream'[c][l] = stream[c][l] \o SubSeq(queue[l], 1, Share(d, l))
      BY <1>1, <1>2, <1>8, TypeFacts
    <3>3. ASSUME Share(d, l) > 0, NEW h \in Lanes, h < l PROVE queue'[h] = <<>>
      BY <1>2, <1>5, <3>3, HigherFirst
    <3> HIDE DEF Share, v, w
    <3> QED BY <1>4, <1>5, <3>1, <3>2, <3>3
  <2>3. DOMAIN stream'[c] = Lanes /\ DOMAIN v = Lanes
    BY <1>1, <1>2, <1>8, TypeFacts
  <2>4. Channel(c)!Flush
    BY <1>1, <2>2, <2>3 DEF Channel!Flush
  <2> QED BY <2>4 DEF Steps, Channel!Next
<1> QED BY <1>7, <1>8

LEMMA ChannelInit ==
  ASSUME Init, NEW c \in Conns
  PROVE  Channel(c)!Init
BY DEF Init, EmptyQueue, Channel!Init, Channel!Empty, Waiting

LEMMA ChannelNext ==
  ASSUME TypeInv, [Next]_vars, NEW c \in Conns
  PROVE  Steps(c)
<1>1. ASSUME UNCHANGED <<stream, promised, queue, stamp>> PROVE Steps(c)
  BY <1>1, ChannelSame DEF Waiting
<1>2. ASSUME NEW t \in Threads, FreeSlot(t) PROVE Steps(c)
  BY <1>2, ResetChannel DEF FreeSlot, gnsVars
<1>3. ASSUME NEW t \in Threads, LoadHandle(t) \/ CloseConnection(t) \/ Kick(t)
      PROVE  Steps(c)
  BY <1>1, <1>3 DEF LoadHandle, CloseConnection, Kick, gnsVars, backlogVars
<1>4. ASSUME NEW t \in Threads, NEW l \in Lanes, SendRefused(t, l) PROVE Steps(c)
  <2>1. /\ pc[t] = "send" /\ DiscardForeign(held[t])
        /\ UNCHANGED <<stream, promised>>
    BY <1>4 DEF SendRefused, gnsVars, Step, StepWith
  <2>2. held[t] \in Conns
    BY <2>1, FreshType
  <2> QED BY <2>1, <2>2, DiscardSeen, ChannelSame
<1>5. ASSUME NEW d \in Conns, Transmit(d) \/ LinkDies(d) \/ AdmitPending(d)
      PROVE  Steps(c)
  BY <1>1, <1>5 DEF Transmit, LinkDies, AdmitPending, backlogVars
<1>6. CASE TrySendReliableToSlot \/ ClosedEdge \/ Tick \/ UNCHANGED vars
  BY <1>1, <1>6 DEF TrySendReliableToSlot, ClosedEdge, Tick, vars, gnsVars, backlogVars
<1>7. CASE BeginPass \/ CheckFatal \/ FatalCloseSlot
  BY <1>1, <1>7 DEF BeginPass, CheckFatal, FatalCloseSlot, gnsVars, backlogVars
<1>8. CASE DrainForeign
  BY <1>8, ResetChannel DEF DrainForeign, gnsVars
<1> QED BY <1>2, <1>3, <1>4, <1>5, <1>6, <1>7, <1>8, SendThroughChannel,
           SendQueuedChannel, DrainChannel, NextCases

\* send_backlog.cpp as one connection sees it: whoever else uses the slot, its
\* lanes are first in first out, go by priority, and lose what waits at once.
THEOREM BacklogImplementsChannels == Spec => PrivateChannels
<1> DEFINE Start == \A c \in Conns : Channel(c)!Init
           Move  == \A c \in Conns : [Channel(c)!Next]_(Channel(c)!vars)
<1>1. Init => Start
  BY ChannelInit
<1>2. TypeInv /\ [Next]_vars => [Move]_vars
  BY ChannelNext DEF Steps
<1> HIDE DEF Start, Move
<1>3. Spec => Start /\ [][Move]_vars
  BY <1>1, <1>2, TypeInit, TypeNext, PTL DEF Spec
<1> QED BY <1>3 DEF PrivateChannels, Start, Move
=============================================================================
