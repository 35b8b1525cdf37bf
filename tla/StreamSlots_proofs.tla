------------------------- MODULE StreamSlots_proofs -------------------------
(***************************************************************************)
(* Proofs about StreamSlots, for any number of channels, connections and   *)
(* numbers, and any width of the numbers.                                  *)
(*                                                                         *)
(* A sample and an entry are compared after wrapping.  That compares them  *)
(* as they were sent as long as they are less than half the numbers apart, *)
(* and StreamInv keeps them so: what is on the way is at most Life numbers *)
(* behind whatever its connection has put anywhere (Traffic, Near), and no *)
(* entry is half the numbers behind the counter (Entries).                 *)
(***************************************************************************)
EXTENDS StreamSlots, TLAPS

-----------------------------------------------------------------------------
(* Wrapped numbers.                                                        *)

\* Division with a remainder.
LEMMA Divided ==
  ASSUME NEW a \in Nat, NEW w \in Nat, w # 0
  PROVE  /\ a % w \in 0..w - 1 /\ a \div w \in Nat
         /\ a = w * (a \div w) + (a % w)
<1>1. a % w \in 0..w - 1
  OBVIOUS
<1>2. a \div w \in Nat
  BY Z3
<1>3. a = w * (a \div w) + (a % w)
  BY Z3
<1> QED BY <1>1, <1>2, <1>3

\* Two multiples of w that differ by less than 2w differ by at most w.
LEMMA Multiples ==
  ASSUME NEW w \in Nat, w # 0, NEW j \in Nat, NEW k \in Nat
  PROVE  /\ w * j \in Nat
         /\ k = j => w * k = w * j
         /\ k = j + 1 => w * k = w * j + w
         /\ k >= j + 1 => w * k >= w * j + w
         /\ k >= j + 2 => w * k >= w * j + 2 * w
<1>1. ASSUME NEW n \in Nat PROVE w * (j + n) = w * j + w * n /\ w * n \in Nat
  BY Z3
<1>2. w * j \in Nat
  BY Z3
<1>3. ASSUME NEW n \in Nat, n >= 1 PROVE w * n >= w
  BY <1>3, Z3
<1>4. ASSUME NEW n \in Nat, n >= 2 PROVE w * n >= 2 * w
  BY <1>4, Z3
<1>5. ASSUME k >= j PROVE k - j \in Nat /\ k = j + (k - j) /\ w * k = w * j + w * (k - j)
                          /\ w * (k - j) \in Nat
  <2>1. k - j \in Nat /\ k = j + (k - j)
    BY <1>5
  <2> QED BY <2>1, <1>1
<1>6. w * 1 = w
  OBVIOUS
<1>7. k = j + 1 => w * k = w * j + w
  BY <1>5, <1>6
<1>8. k >= j + 1 => w * k >= w * j + w
  BY <1>5, <1>3, <1>2
<1>9. k >= j + 2 => w * k >= w * j + 2 * w
  BY <1>5, <1>4, <1>2
<1> QED BY <1>2, <1>7, <1>8, <1>9

\* Numbers less than a width apart are told apart after wrapping.
LEMMA Wrapped ==
  ASSUME NEW a \in Nat, NEW b \in Nat, b <= a, a - b < Width
  PROVE  Ahead(a % Width, b % Width) = a - b
<1>1. Width \in Nat /\ Width # 0
  BY StreamAssumption DEF Width
<1> DEFINE w == Width  j == b \div w  k == a \div w
<1>2. /\ a % w \in 0..w - 1 /\ k \in Nat /\ a = w * k + (a % w)
      /\ b % w \in 0..w - 1 /\ j \in Nat /\ b = w * j + (b % w)
  BY <1>1, Divided
<1>3. /\ w * j \in Nat /\ w * k \in Nat
      /\ k = j => w * k = w * j
      /\ k = j + 1 => w * k = w * j + w
      /\ k >= j + 2 => w * k >= w * j + 2 * w
      /\ j >= k + 1 => w * j >= w * k + w
  BY <1>1, <1>2, Multiples
<1> DEFINE p == a % w  q == b % w  m == w * k  n == w * j
<1>4. /\ a - b < w /\ w \in Nat /\ a = m + p /\ b = n + q
      /\ p \in 0..w - 1 /\ q \in 0..w - 1 /\ j \in Nat /\ k \in Nat
      /\ m \in Nat /\ n \in Nat
      /\ k = j => m = n
      /\ k = j + 1 => m = n + w
      /\ k >= j + 2 => m >= n + 2 * w
      /\ j >= k + 1 => n >= m + w
  BY <1>1, <1>2, <1>3
<1>5. SUFFICES Ahead(p, q) = a - b
  OBVIOUS
<1> HIDE DEF w, j, k, p, q, m, n
<1>6. k = j \/ k = j + 1
  BY <1>4
<1>7. CASE k = j
  <2>1. p >= q /\ p - q = a - b
    BY <1>7, <1>4
  <2> QED BY <2>1 DEF Ahead
<1>8. CASE k = j + 1
  <2>1. ~(p >= q) /\ p + w - q = a - b
    BY <1>8, <1>4
  <2> QED BY <2>1 DEF Ahead, w
<1> QED BY <1>6, <1>7, <1>8

\* What is at most Half behind is stale, what is less than Half ahead is not.
LEMMA Verdict ==
  ASSUME NEW entry \in Entry, NEW s, entry.has, entry.last = entry.at % Width,
         s.at \in Nat, entry.at \in Nat
  PROVE  /\ s.at <= entry.at /\ entry.at - s.at <= Half => Stale(entry, s)
         /\ s.at > entry.at /\ s.at - entry.at < Half => ~Stale(entry, s)
<1> DEFINE x == s.at  y == entry.at  p == x % Width  q == y % Width
<1>1. /\ Half \in Nat /\ Half >= 1 /\ Width = 2 * Half /\ x \in Nat /\ y \in Nat
      /\ Width \in Nat /\ Width # 0
  BY StreamAssumption DEF Width
<1>2. p \in 0..Width - 1 /\ q \in 0..Width - 1
  BY <1>1, Divided
<1>3. Stale(entry, s) <=> Ahead(p, q) \notin 1..Half - 1
  BY DEF Stale
<1>4. x <= y /\ y - x < Width => Ahead(q, p) = y - x
  BY <1>1, Wrapped
<1>5. y <= x /\ x - y < Width => Ahead(p, q) = x - y
  BY <1>1, Wrapped
<1> HIDE DEF x, y, p, q
<1>6. ASSUME x <= y, y - x <= Half PROVE Ahead(p, q) \notin 1..Half - 1
  <2>1. Ahead(q, p) = y - x
    BY <1>1, <1>4, <1>6
  <2>2. CASE x = y
    BY <2>2, <1>1, <1>5
  <2>3. CASE x < y
    <3>1. Ahead(p, q) = Width - (y - x)
      BY <2>1, <2>3, <1>1, <1>2 DEF Ahead
    <3> QED BY <3>1, <1>1, <1>6
  <2> QED BY <1>1, <1>6, <2>2, <2>3
<1>7. ASSUME x > y, x - y < Half PROVE Ahead(p, q) \in 1..Half - 1
  BY <1>1, <1>5, <1>7
<1> QED BY <1>3, <1>6, <1>7 DEF x, y

-----------------------------------------------------------------------------
(* What the parts of a step do.                                            *)

Views  == [Ends -> [Channels -> Entry]]
Marks  == [Ends -> SUBSET Channels]
Counts == [Ends -> [Channels -> 0..MaxSeq]]

LEMMA TakeShape ==
  ASSUME view \in Views, unread \in Marks, NEW e \in Ends, NEW s \in Sample, Take(e, s)
  PROVE  /\ view' \in Views /\ unread' \in Marks
         /\ view'[e][s.ch] = Stored(view[e][s.ch], s)
         /\ unread'[e] = unread[e] \cup {s.ch}
         /\ \A f \in Ends, ch \in Channels :
              f # e \/ ch # s.ch => view'[f][ch] = view[f][ch]
         /\ \A f \in Ends : f # e => unread'[f] = unread[f]
<1> DEFINE n == Stored(view[e][s.ch], s)
<1>1. s.ch \in Channels /\ s.conn \in Conns /\ s.at \in Ats
  BY DEF Sample
<1>2. n \in Entry
  <2>1. Width \in Nat /\ Width # 0 /\ MaxSeq \in Nat /\ MaxConns \in Nat /\ MaxStores \in Nat
    BY StreamAssumption DEF Width
  <2>2. s.at \in Nat /\ s.at \in 0..MaxSeq /\ s.conn \in 0..MaxConns
    BY <1>1, <2>1 DEF Ats, Conns
  <2>3. s.at % Width \in 0..Width - 1
    BY <2>1, <2>2, Divided
  <2>4. view[e][s.ch] \in Entry /\ view[e][s.ch].stamp < MaxStores
    BY <1>1 DEF Views, Take
  <2>5. view[e][s.ch].stamp + 1 \in 0..MaxStores /\ view[e][s.ch].read \in 0..MaxStores
    BY <2>1, <2>4 DEF Entry
  <2> QED BY <2>2, <2>3, <2>5 DEF Stored, Entry
<1>3. view' = [view EXCEPT ![e] = [view[e] EXCEPT ![s.ch] = n]]
  BY DEF Take
<1>4. unread' = [unread EXCEPT ![e] = unread[e] \cup {s.ch}]
  BY DEF Take
<1> HIDE DEF n
<1>5. view' \in Views /\ unread' \in Marks
  BY <1>1, <1>2, <1>3, <1>4 DEF Views, Marks
<1>6. view'[e] = [view[e] EXCEPT ![s.ch] = n] /\ view[e] \in [Channels -> Entry]
  BY <1>3 DEF Views
<1>7. \A f \in Ends : f # e => view'[f] = view[f] /\ unread'[f] = unread[f]
  BY <1>3, <1>4 DEF Views, Marks
<1>8. unread'[e] = unread[e] \cup {s.ch}
  BY <1>4 DEF Marks
<1> QED BY <1>1, <1>5, <1>6, <1>7, <1>8 DEF n

LEMMA ResetShape ==
  ASSUME view \in Views, NEW e \in Ends, Reset(e)
  PROVE  /\ view' \in Views
         /\ \A ch \in Channels :
              /\ ch \in Kept => view'[e][ch] = view[e][ch]
              /\ ch \notin Kept => view'[e][ch] = Cleared
         /\ \A f \in Ends : f # e => view'[f] = view[f]
<1>1. Cleared \in Entry
  BY StreamAssumption DEF Cleared, Entry, Width
<1> DEFINE r == [ch \in Channels |-> IF ch \in Kept THEN view[e][ch] ELSE Cleared]
<1>2. view' = [view EXCEPT ![e] = r]
  BY DEF Reset
<1>3. r \in [Channels -> Entry]
  BY <1>1 DEF Views
<1>4. view' \in Views /\ view'[e] = r
  BY <1>2, <1>3 DEF Views
<1>5. \A f \in Ends : f # e => view'[f] = view[f]
  BY <1>2 DEF Views
<1> QED BY <1>4, <1>5

LEMMA ForgetShape ==
  ASSUME heard \in Counts, NEW e \in Ends, heard' = Forget(e, heard)
  PROVE  /\ heard' \in Counts
         /\ \A ch \in Channels :
              heard'[e][ch] = IF ch \in Kept THEN heard[e][ch] ELSE 0
         /\ \A f \in Ends : f # e => heard'[f] = heard[f]
<1> DEFINE r == [ch \in Channels |-> IF ch \in Kept THEN heard[e][ch] ELSE 0]
<1>1. heard' = [heard EXCEPT ![e] = r]
  BY DEF Forget
<1>2. r \in [Channels -> 0..MaxSeq]
  BY StreamAssumption DEF Counts
<1>3. heard' \in Counts /\ heard'[e] = r
  BY <1>1, <1>2 DEF Counts
<1>4. \A f \in Ends : f # e => heard'[f] = heard[f]
  BY <1>1 DEF Counts
<1> QED BY <1>3, <1>4

LEMMA HearShape ==
  ASSUME heard \in Counts, NEW e \in Ends, NEW s \in Sample, Hear(e, s)
  PROVE  /\ heard' \in Counts
         /\ heard'[e][s.ch] = IF s.conn = conn /\ s.at >= heard[e][s.ch]
                              THEN s.at + 1 ELSE heard[e][s.ch]
         /\ \A f \in Ends, ch \in Channels :
              f # e \/ ch # s.ch => heard'[f][ch] = heard[f][ch]
<1>1. s.ch \in Channels /\ s.at + 1 \in 0..MaxSeq
  BY StreamAssumption DEF Sample, Ats
<1>2. CASE s.conn = conn /\ s.at >= heard[e][s.ch]
  <2>1. heard' = [heard EXCEPT ![e] = [heard[e] EXCEPT ![s.ch] = s.at + 1]]
    BY <1>2 DEF Hear
  <2>2. heard' \in Counts
    BY <1>1, <2>1 DEF Counts
  <2>3. heard'[e] = [heard[e] EXCEPT ![s.ch] = s.at + 1] /\ heard[e] \in [Channels -> 0..MaxSeq]
    BY <2>1 DEF Counts
  <2>4. \A f \in Ends : f # e => heard'[f] = heard[f]
    BY <2>1 DEF Counts
  <2> QED BY <1>1, <1>2, <2>2, <2>3, <2>4
<1>3. CASE ~(s.conn = conn /\ s.at >= heard[e][s.ch])
  <2>1. heard' = heard
    BY <1>3 DEF Hear
  <2> QED BY <1>3, <2>1
<1> QED BY <1>2, <1>3

LEMMA ReadShape ==
  ASSUME view \in Views, unread \in Marks, NEW e \in Ends, NEW c \in Channels, Read(e, c)
  PROVE  /\ view' \in Views /\ unread' \in Marks
         /\ view'[e][c] = [view[e][c] EXCEPT !.read = view[e][c].stamp]
         /\ unread'[e] = unread[e] \ {c}
         /\ \A f \in Ends, ch \in Channels :
              f # e \/ ch # c => view'[f][ch] = view[f][ch]
         /\ \A f \in Ends : f # e => unread'[f] = unread[f]
<1> DEFINE n == [view[e][c] EXCEPT !.read = view[e][c].stamp]
<1>1. view[e] \in [Channels -> Entry] /\ view[e][c] \in Entry
  BY DEF Views
<1>2. n \in Entry
  BY <1>1 DEF Entry
<1>3. view' = [view EXCEPT ![e] = [view[e] EXCEPT ![c] = n]]
  BY DEF Read
<1>4. unread' = [unread EXCEPT ![e] = unread[e] \ {c}]
  BY DEF Read
<1> HIDE DEF n
<1>5. view' \in Views /\ unread' \in Marks
  BY <1>1, <1>2, <1>3, <1>4 DEF Views, Marks
<1>6. view'[e] = [view[e] EXCEPT ![c] = n]
  BY <1>3 DEF Views
<1>7. \A f \in Ends : f # e => view'[f] = view[f] /\ unread'[f] = unread[f]
  BY <1>3, <1>4 DEF Views, Marks
<1>8. unread'[e] = unread[e] \ {c}
  BY <1>4 DEF Marks
<1> QED BY <1>1, <1>5, <1>6, <1>7, <1>8 DEF n

-----------------------------------------------------------------------------
(* Types.                                                                  *)

LEMMA TypeInit == ASSUME Init PROVE TypeOK
<1>1. Cleared \in Entry
  BY StreamAssumption DEF Cleared, Entry, Width
<1>2. view \in [Ends -> [Channels -> Entry]]
  BY <1>1 DEF Init
<1>3. heard \in [Ends -> [Channels -> 0..MaxSeq]]
  BY StreamAssumption DEF Init
<1>4. unread \in [Ends -> SUBSET Channels]
  BY DEF Init
<1>5. conn \in 0..MaxConns /\ sent \in 0..MaxSeq
  BY StreamAssumption DEF Init
<1> QED BY <1>2, <1>3, <1>4, <1>5 DEF Init, TypeOK

LEMMA TypeStep ==
  ASSUME TypeOK, [Next]_vars
  PROVE  TypeOK'
<1> DEFINE Shape == /\ view' \in Views /\ unread' \in Marks /\ heard' \in Counts
<1>1. view \in Views /\ unread \in Marks /\ heard \in Counts
  BY DEF TypeOK, Views, Marks, Counts
<1>2. MaxSeq \in Nat /\ MaxConns \in Nat /\ Kept \subseteq Channels
  BY StreamAssumption
<1>3. CASE Sit
  <2>1. heard' \in Counts /\ mixed' \subseteq Channels
    BY <1>2, <1>3 DEF Sit, Counts
  <2> QED BY <1>2, <1>3, <2>1 DEF Sit, TypeOK, Counts
<1>4. ASSUME NEW ch \in Channels, Publish(ch) PROVE TypeOK'
  <2>1. sent \in Ats /\ conn \in Conns /\ sent' \in 0..MaxSeq
    BY <1>2, <1>4 DEF Publish, Number, TypeOK, Ats, Conns
  <2>2. [ch |-> ch, conn |-> conn, at |-> sent] \in Sample
    BY <2>1 DEF Sample
  <2>3. up' \subseteq Sample /\ down' \subseteq Sample
    BY <1>4, <2>2 DEF Publish, TypeOK
  <2> QED BY <1>4, <2>1, <2>3 DEF Publish, TypeOK
<1>5. CASE Elsewhere
  BY <1>2, <1>5 DEF Elsewhere, Number, TypeOK
<1>6. CASE Leave
  <2>1. view' \in Views /\ heard' \in Counts
    BY <1>1, <1>6, ResetShape, ForgetShape DEF Leave, Ends
  <2>2. unread' \in Marks
    BY <1>1, <1>6 DEF Leave, Marks
  <2> QED BY <1>6, <2>1, <2>2 DEF Leave, TypeOK, Views, Marks, Counts
<1>7. CASE WatcherLinks
  BY <1>7 DEF WatcherLinks, TypeOK
<1>8. CASE WatcherReady
  BY <1>8 DEF WatcherReady, TypeOK
<1>9. CASE WatcherCut
  <2>1. view' \in Views /\ heard' \in Counts
    BY <1>1, <1>9, ResetShape, ForgetShape DEF WatcherCut, Ends
  <2>2. unread' \in Marks
    BY <1>1, <1>9 DEF WatcherCut, Marks
  <2> QED BY <1>9, <2>1, <2>2 DEF WatcherCut, TypeOK, Views, Marks, Counts
<1>10. CASE WatcherStop
  BY <1>10 DEF WatcherStop, TypeOK
<1>11. ASSUME NEW ch \in Channels, NEW e \in Ends, Read(e, ch) PROVE TypeOK'
  <2>1. view' \in Views /\ unread' \in Marks
    BY <1>1, <1>11, ReadShape
  <2> QED BY <1>11, <2>1 DEF Read, TypeOK, Views, Marks
<1>12. ASSUME NEW s \in up, HostStore(s) PROVE TypeOK'
  <2>1. s \in Sample /\ down' \subseteq Sample
    BY <1>12 DEF HostStore, TypeOK
  <2>2. view' \in Views /\ unread' \in Marks
    BY <1>1, <1>12, <2>1, TakeShape DEF HostStore, Ends
  <2>3. heard' \in Counts
    BY <1>1, <1>12, <2>1, HearShape DEF HostStore, Ends
  <2> QED BY <1>12, <2>1, <2>2, <2>3 DEF HostStore, TypeOK, Views, Marks, Counts
<1>13. ASSUME NEW s \in up, HostDrop(s) PROVE TypeOK'
  <2>1. s \in Sample
    BY <1>13 DEF TypeOK
  <2>2. heard' \in Counts
    BY <1>1, <1>13, <2>1, HearShape DEF HostDrop, Ends
  <2> QED BY <1>13, <2>2 DEF HostDrop, TypeOK, Counts
<1>14. ASSUME NEW s \in down, WatcherStore(s) PROVE TypeOK'
  <2>1. s \in Sample /\ mixed' \subseteq Channels
    BY <1>14 DEF WatcherStore, TypeOK, Sample
  <2>2. view' \in Views /\ unread' \in Marks
    BY <1>1, <1>14, <2>1, TakeShape DEF WatcherStore, Ends
  <2>3. heard' \in Counts
    BY <1>1, <1>14, <2>1, HearShape DEF WatcherStore, Ends
  <2> QED BY <1>14, <2>1, <2>2, <2>3 DEF WatcherStore, TypeOK, Views, Marks, Counts
<1>15. ASSUME NEW s \in down, WatcherDrop(s) PROVE TypeOK'
  <2>1. s \in Sample
    BY <1>15 DEF TypeOK
  <2>2. heard' \in Counts
    BY <1>1, <1>15, <2>1, HearShape DEF WatcherDrop, Ends
  <2> QED BY <1>15, <2>2 DEF WatcherDrop, TypeOK, Counts
<1>16. CASE UNCHANGED vars
  BY <1>16 DEF vars, TypeOK
<1> QED BY <1>3, <1>4, <1>5, <1>6, <1>7, <1>8, <1>9, <1>10, <1>11, <1>12, <1>13, <1>14,
           <1>15, <1>16 DEF Next

\* Every variable keeps its type (session.h:899).
THEOREM TypeCorrect == Spec => []TypeOK
<1>1. Init => TypeOK
  BY TypeInit
<1>2. TypeOK /\ [Next]_vars => TypeOK'
  BY TypeStep
<1> QED BY <1>1, <1>2, PTL DEF Spec

-----------------------------------------------------------------------------
(* How far apart what is compared can be.                                  *)

\* What is on the way, of which connection and how old.
Traffic ==
  /\ (~seated => up = {}) /\ (~linked => down = {})
  /\ \A s \in up : s.conn = conn
  /\ \A s \in up \cup down :
       s.conn <= conn /\ (s.conn = conn => s.at < sent /\ sent <= s.at + Life)
  /\ \A s, t \in down : s.conn = t.conn => t.at <= s.at + Life

\* What is stored, of which connection and how old.
Entries ==
  \A e \in Ends, ch \in Channels : view[e][ch].has =>
    /\ view[e][ch].last = view[e][ch].at % Width
    /\ view[e][ch].conn <= conn
    /\ view[e][ch].conn = conn =>
         view[e][ch].at < sent /\ sent <= view[e][ch].at + Half

\* The one against the other.
Near ==
  \A s \in up \cup down, e \in Ends, ch \in Channels :
    view[e][ch].has /\ view[e][ch].conn = s.conn => view[e][ch].at <= s.at + Life

StreamInv == Traffic /\ Entries /\ Near

\* So a sample is stale when its connection has put a newer one there; and one
\* of the client in the slot is stale only then.
LEMMA StaleMeansOlder ==
  ASSUME TypeOK, StreamInv, NEW s \in up \cup down, NEW e \in Ends,
         view[e][s.ch].has, view[e][s.ch].conn = s.conn
  PROVE  /\ s.at <= view[e][s.ch].at => Stale(view[e][s.ch], s)
         /\ s.conn = conn => (Stale(view[e][s.ch], s) => s.at <= view[e][s.ch].at)
<1> DEFINE n == view[e][s.ch]
<1>1. s \in Sample /\ s.ch \in Channels /\ s.at \in Nat /\ s.conn \in Conns
  BY StreamAssumption DEF TypeOK, Sample, Ats
<1>2. n \in Entry /\ n.at \in Nat
  BY <1>1 DEF TypeOK, Entry
<1>3. n.has /\ n.last = n.at % Width
  BY <1>1 DEF StreamInv, Entries
<1>4. n.at <= s.at + Life
  BY <1>1 DEF StreamInv, Near
<1>5. s.conn = conn => s.at < sent /\ sent <= n.at + Half
  BY <1>1 DEF StreamInv, Traffic, Entries
<1>6. Half \in Nat /\ Life \in Nat /\ Life <= Half /\ sent \in Nat
  BY StreamAssumption DEF TypeOK
<1> HIDE DEF n
<1>7. s.at <= n.at => Stale(n, s)
  BY <1>1, <1>2, <1>3, <1>4, <1>6, Verdict
<1>8. s.conn = conn /\ s.at > n.at => ~Stale(n, s)
  BY <1>1, <1>2, <1>3, <1>5, <1>6, Verdict
<1> QED BY <1>1, <1>2, <1>7, <1>8 DEF n

\* What a number taken, and what is dropped with it, leaves.
LEMMA NumberStep ==
  ASSUME TypeOK, StreamInv, Number,
         NEW new \in SUBSET {[ch |-> ch, conn |-> conn, at |-> sent] : ch \in Channels},
         up' = {s \in up \cup new : InTime(s)}, down' = {s \in down : InTime(s)},
         UNCHANGED <<conn, seated, linked, view>>
  PROVE  StreamInv'
<1>1. /\ seated /\ sent \in Nat /\ sent' = sent + 1 /\ Life \in Nat /\ Half \in Nat
      /\ Life >= 1 /\ Life <= Half
  BY StreamAssumption DEF Number, TypeOK
<1>2. \A s \in new : s.conn = conn /\ s.at = sent
  OBVIOUS
<1>3. \A s \in up \cup down : s.at \in Nat
  BY DEF TypeOK, Sample, Ats
<1>4. \A e \in Ends, ch \in Channels : view[e][ch] \in Entry /\ view[e][ch].at \in Nat
  BY DEF TypeOK, Entry
<1>5. conn \in Nat
  BY DEF TypeOK
<1>6. \A s \in up' \cup down' : s.conn = conn => s.at < sent' /\ sent' <= s.at + Life
  BY <1>1, <1>2, <1>3 DEF InTime, StreamInv, Traffic
<1>7. Traffic'
  BY <1>1, <1>2, <1>3, <1>5, <1>6 DEF StreamInv, Traffic
<1>8. Entries'
  BY <1>1, <1>4 DEF Number, StreamInv, Entries
<1>9. Near'
  <2> SUFFICES ASSUME NEW s \in up' \cup down', NEW e \in Ends, NEW ch \in Channels,
                      view[e][ch].has, view[e][ch].conn = s.conn
               PROVE  view[e][ch].at <= s.at + Life
    BY DEF Near
  <2>1. CASE s \in new
    BY <1>1, <1>2, <1>4, <2>1 DEF StreamInv, Entries
  <2>2. CASE s \notin new
    BY <2>2 DEF StreamInv, Near
  <2> QED BY <2>1, <2>2
<1> QED BY <1>7, <1>8, <1>9 DEF StreamInv

\* What storing a sample leaves, with what may be relayed.
LEMMA StoreStep ==
  ASSUME TypeOK, StreamInv, NEW e \in Ends, NEW s \in up \cup down, Take(e, s),
         down' = down \/ (down' = down \cup {s} /\ s \in up /\ linked),
         UNCHANGED <<conn, seated, sent, up, linked>>
  PROVE  StreamInv'
<1>1. s \in Sample /\ s.ch \in Channels
  BY DEF TypeOK, Sample
<1>2. sent \in Nat /\ Life \in Nat /\ Half \in Nat /\ Life <= Half /\ conn \in Nat
  BY StreamAssumption DEF TypeOK
<1>3. \A t \in up \cup down : t.at \in Nat /\ t.conn \in Nat
  BY DEF TypeOK, Sample, Ats, Conns
<1>4. up' \cup down' = up \cup down
  OBVIOUS
<1>5. /\ view'[e][s.ch].has /\ view'[e][s.ch].last = s.at % Width
      /\ view'[e][s.ch].conn = s.conn /\ view'[e][s.ch].at = s.at
      /\ \A f \in Ends, ch \in Channels :
           f # e \/ ch # s.ch => view'[f][ch] = view[f][ch]
  <2>1. view \in Views /\ unread \in Marks
    BY DEF TypeOK, Views, Marks
  <2>2. /\ view'[e][s.ch] = Stored(view[e][s.ch], s)
        /\ \A f \in Ends, ch \in Channels :
             f # e \/ ch # s.ch => view'[f][ch] = view[f][ch]
    BY <1>1, <2>1, TakeShape
  <2> QED BY <2>2 DEF Stored
<1>6. s.conn <= conn /\ (s.conn = conn => s.at < sent /\ sent <= s.at + Life)
  BY DEF StreamInv, Traffic
<1>7. \A t \in up \cup down : t.conn = s.conn => s.at <= t.at + Life /\ t.at <= s.at + Life
  <2> SUFFICES ASSUME NEW t \in up \cup down, t.conn = s.conn
               PROVE  s.at <= t.at + Life /\ t.at <= s.at + Life
    OBVIOUS
  <2>1. CASE s.conn = conn
    BY <1>2, <1>3, <2>1 DEF StreamInv, Traffic
  <2>2. CASE s.conn # conn
    BY <2>2 DEF StreamInv, Traffic
  <2> QED BY <2>1, <2>2
<1>8. Traffic'
  <2>1. \A t, u \in down' : t.conn = u.conn => u.at <= t.at + Life
    BY <1>2, <1>3, <1>7 DEF StreamInv, Traffic
  <2>2. ~linked' => down' = {}
    BY DEF StreamInv, Traffic
  <2> QED BY <1>4, <2>1, <2>2 DEF StreamInv, Traffic
<1>9. Entries'
  <2> SUFFICES ASSUME NEW f \in Ends, NEW ch \in Channels, view'[f][ch].has
               PROVE  /\ view'[f][ch].last = view'[f][ch].at % Width
                      /\ view'[f][ch].conn <= conn
                      /\ view'[f][ch].conn = conn =>
                           view'[f][ch].at < sent /\ sent <= view'[f][ch].at + Half
    BY DEF Entries
  <2>1. CASE f = e /\ ch = s.ch
    BY <1>2, <1>3, <1>5, <1>6, <2>1
  <2>2. CASE f # e \/ ch # s.ch
    BY <1>5, <2>2 DEF StreamInv, Entries
  <2> QED BY <2>1, <2>2
<1>10. Near'
  <2> SUFFICES ASSUME NEW t \in up \cup down, NEW f \in Ends, NEW ch \in Channels,
                      view'[f][ch].has, view'[f][ch].conn = t.conn
               PROVE  view'[f][ch].at <= t.at + Life
    BY <1>4 DEF Near
  <2>1. CASE f = e /\ ch = s.ch
    BY <1>5, <1>7, <2>1
  <2>2. CASE f # e \/ ch # s.ch
    BY <1>5, <2>2 DEF StreamInv, Near
  <2> QED BY <2>1, <2>2
<1> QED BY <1>8, <1>9, <1>10 DEF StreamInv

LEMMA ResetKeeps ==
  ASSUME TypeOK, NEW e \in Ends, Reset(e)
  PROVE  \A f \in Ends, ch \in Channels : view'[f][ch].has => view'[f][ch] = view[f][ch]
<1>1. view \in Views
  BY DEF TypeOK, Views
<1>2. ~Cleared.has
  BY DEF Cleared
<1> SUFFICES ASSUME NEW f \in Ends, NEW ch \in Channels, view'[f][ch].has
             PROVE  view'[f][ch] = view[f][ch]
  OBVIOUS
<1>3. CASE f = e
  BY <1>1, <1>2, <1>3, ResetShape
<1>4. CASE f # e
  BY <1>1, <1>4, ResetShape
<1> QED BY <1>3, <1>4

\* What clearing an end leaves.
LEMMA ResetStep ==
  ASSUME TypeOK, StreamInv, NEW e \in Ends, Reset(e), UNCHANGED <<conn, sent>>,
         up' \subseteq up, down' \subseteq down,
         ~seated' => up' = {}, ~linked' => down' = {}
  PROVE  StreamInv'
<1>1. \A f \in Ends, ch \in Channels : view'[f][ch].has => view'[f][ch] = view[f][ch]
  BY ResetKeeps
<1>2. Traffic'
  BY DEF StreamInv, Traffic
<1>3. Entries'
  BY <1>1 DEF StreamInv, Entries
<1>4. Near'
  BY <1>1 DEF StreamInv, Near
<1> QED BY <1>2, <1>3, <1>4 DEF StreamInv

LEMMA StreamStep ==
  ASSUME TypeOK, StreamInv, [Next]_vars
  PROVE  StreamInv'
<1>1. CASE Sit
  <2>1. up = {} /\ up' = {} /\ down' = down /\ linked' = linked /\ view' = view
        /\ conn \in Nat /\ conn' = conn + 1
    BY <1>1 DEF Sit, StreamInv, Traffic, TypeOK
  <2>2. \A s \in down : s.conn \in Nat /\ s.conn <= conn
    BY DEF StreamInv, Traffic, TypeOK, Sample, Conns
  <2>3. \A e \in Ends, ch \in Channels :
          view[e][ch].conn \in Nat /\ (view[e][ch].has => view[e][ch].conn <= conn)
    BY DEF StreamInv, Entries, TypeOK, Entry
  <2>4. Traffic'
    BY <2>1, <2>2 DEF StreamInv, Traffic
  <2>5. Entries'
    BY <2>1, <2>3 DEF StreamInv, Entries
  <2>6. Near'
    BY <2>1 DEF StreamInv, Near
  <2> QED BY <2>4, <2>5, <2>6 DEF StreamInv
<1>2. ASSUME NEW ch \in Channels, Publish(ch) PROVE StreamInv'
  <2> DEFINE new == {[ch |-> ch, conn |-> conn, at |-> sent]}
  <2>1. new \in SUBSET {[ch |-> c, conn |-> conn, at |-> sent] : c \in Channels}
    OBVIOUS
  <2>2. /\ Number /\ UNCHANGED <<conn, seated, linked, view>>
        /\ up' = {s \in up \cup new : InTime(s)} /\ down' = {s \in down : InTime(s)}
    BY <1>2 DEF Publish
  <2> QED BY <2>1, <2>2, NumberStep
<1>3. CASE Elsewhere
  <2> DEFINE new == {}
  <2>1. new \in SUBSET {[ch |-> c, conn |-> conn, at |-> sent] : c \in Channels}
    OBVIOUS
  <2>2. /\ Number /\ UNCHANGED <<conn, seated, linked, view>>
        /\ up' = {s \in up \cup new : InTime(s)} /\ down' = {s \in down : InTime(s)}
    BY <1>3 DEF Elsewhere
  <2> QED BY <2>1, <2>2, NumberStep
<1>4. CASE Leave
  <2>1. "host" \in Ends /\ up' \subseteq up /\ down' \subseteq down /\ (~linked' => down' = {})
    BY <1>4 DEF Leave, Ends, StreamInv, Traffic
  <2> QED BY <1>4, <2>1, ResetStep DEF Leave
<1>5. CASE WatcherLinks
  BY <1>5 DEF WatcherLinks, StreamInv, Traffic, Entries, Near
<1>6. CASE WatcherReady
  BY <1>6 DEF WatcherReady, StreamInv, Traffic, Entries, Near
<1>7. CASE WatcherCut
  <2>1. "watcher" \in Ends /\ up' \subseteq up /\ down' \subseteq down /\ (~seated' => up' = {})
    BY <1>7 DEF WatcherCut, Ends, StreamInv, Traffic
  <2> QED BY <1>7, <2>1, ResetStep DEF WatcherCut
<1>8. CASE WatcherStop
  BY <1>8 DEF WatcherStop, StreamInv, Traffic, Entries, Near
<1>9. ASSUME NEW ch \in Channels, NEW e \in Ends, Read(e, ch) PROVE StreamInv'
  <2>1. \A f \in Ends, c \in Channels :
          /\ view'[f][c].has = view[f][c].has /\ view'[f][c].last = view[f][c].last
          /\ view'[f][c].conn = view[f][c].conn /\ view'[f][c].at = view[f][c].at
    <3>1. view[e][ch] \in Entry
      BY DEF TypeOK
    <3>2. /\ view'[e][ch] = [view[e][ch] EXCEPT !.read = view[e][ch].stamp]
          /\ \A f \in Ends, c \in Channels :
               f # e \/ c # ch => view'[f][c] = view[f][c]
      BY <1>9, ReadShape DEF TypeOK, Views, Marks
    <3>3. /\ view'[e][ch].has = view[e][ch].has /\ view'[e][ch].last = view[e][ch].last
          /\ view'[e][ch].conn = view[e][ch].conn /\ view'[e][ch].at = view[e][ch].at
      BY <3>1, <3>2 DEF Entry
    <3> SUFFICES ASSUME NEW f \in Ends, NEW c \in Channels
                 PROVE  /\ view'[f][c].has = view[f][c].has
                        /\ view'[f][c].last = view[f][c].last
                        /\ view'[f][c].conn = view[f][c].conn
                        /\ view'[f][c].at = view[f][c].at
      OBVIOUS
    <3>4. CASE f = e /\ c = ch
      BY <3>3, <3>4
    <3>5. CASE f # e \/ c # ch
      BY <3>2, <3>5
    <3> QED BY <3>4, <3>5
  <2>2. UNCHANGED <<conn, seated, sent, up, linked, down>>
    BY <1>9 DEF Read
  <2>3. Traffic' /\ Entries' /\ Near'
    BY <2>1, <2>2 DEF StreamInv, Traffic, Entries, Near
  <2> QED BY <2>3 DEF StreamInv
<1>10. ASSUME NEW s \in up, HostStore(s) PROVE StreamInv'
  BY <1>10, StoreStep DEF HostStore, Ends
<1>11. ASSUME NEW s \in up, HostDrop(s) PROVE StreamInv'
  BY <1>11 DEF HostDrop, StreamInv, Traffic, Entries, Near
<1>12. ASSUME NEW s \in down, WatcherStore(s) PROVE StreamInv'
  BY <1>12, StoreStep DEF WatcherStore, Ends
<1>13. ASSUME NEW s \in down, WatcherDrop(s) PROVE StreamInv'
  BY <1>13 DEF WatcherDrop, StreamInv, Traffic, Entries, Near
<1>14. CASE UNCHANGED vars
  BY <1>14 DEF vars, StreamInv, Traffic, Entries, Near
<1> QED BY <1>1, <1>2, <1>3, <1>4, <1>5, <1>6, <1>7, <1>8, <1>9, <1>10, <1>11, <1>12,
           <1>13, <1>14 DEF Next

-----------------------------------------------------------------------------
(* Newest wins.                                                            *)

\* A store moves an entry forward, if it shows the sample's connection.
LEMMA Forward ==
  ASSUME TypeOK, StreamInv, NEW e \in Ends, NEW s \in up \cup down, Take(e, s),
         ~Stale(view[e][s.ch], s)
  PROVE  \A f \in Ends, ch \in Channels :
           /\ view[f][ch].has => view'[f][ch].has
           /\ view[f][ch].has /\ view'[f][ch].conn = view[f][ch].conn
                => view'[f][ch].at >= view[f][ch].at
<1>1. s \in Sample /\ s.ch \in Channels /\ s.at \in Nat
  BY DEF TypeOK, Sample, Ats
<1>2. view \in Views /\ unread \in Marks
  BY DEF TypeOK, Views, Marks
<1>3. \A f \in Ends, ch \in Channels : view[f][ch].at \in Nat
  BY DEF TypeOK, Entry
<1>4. /\ view'[e][s.ch] = Stored(view[e][s.ch], s)
      /\ \A f \in Ends, ch \in Channels :
           f # e \/ ch # s.ch => view'[f][ch] = view[f][ch]
  BY <1>1, <1>2, TakeShape
<1>5. view'[e][s.ch].has /\ view'[e][s.ch].conn = s.conn /\ view'[e][s.ch].at = s.at
  BY <1>4 DEF Stored
<1>6. view[e][s.ch].has /\ view[e][s.ch].conn = s.conn => s.at >= view[e][s.ch].at
  BY <1>1, <1>3, StaleMeansOlder
<1> SUFFICES ASSUME NEW f \in Ends, NEW ch \in Channels
             PROVE  /\ view[f][ch].has => view'[f][ch].has
                    /\ view[f][ch].has /\ view'[f][ch].conn = view[f][ch].conn
                         => view'[f][ch].at >= view[f][ch].at
  OBVIOUS
<1>7. CASE f = e /\ ch = s.ch
  BY <1>5, <1>6, <1>7
<1>8. CASE f # e \/ ch # s.ch
  BY <1>3, <1>4, <1>8
<1> QED BY <1>7, <1>8

\* A read moves nothing.
LEMMA Still ==
  ASSUME TypeOK, NEW e \in Ends, NEW c \in Channels, Read(e, c)
  PROVE  \A f \in Ends, ch \in Channels :
           /\ view'[f][ch].has = view[f][ch].has /\ view'[f][ch].last = view[f][ch].last
           /\ view'[f][ch].conn = view[f][ch].conn /\ view'[f][ch].at = view[f][ch].at
<1>1. view[e][c] \in Entry /\ view \in Views /\ unread \in Marks
  BY DEF TypeOK, Views, Marks
<1>2. /\ view'[e][c] = [view[e][c] EXCEPT !.read = view[e][c].stamp]
      /\ \A f \in Ends, ch \in Channels : f # e \/ ch # c => view'[f][ch] = view[f][ch]
  BY <1>1, ReadShape
<1>3. /\ view'[e][c].has = view[e][c].has /\ view'[e][c].last = view[e][c].last
      /\ view'[e][c].conn = view[e][c].conn /\ view'[e][c].at = view[e][c].at
  BY <1>1, <1>2 DEF Entry
<1> SUFFICES ASSUME NEW f \in Ends, NEW ch \in Channels
             PROVE  /\ view'[f][ch].has = view[f][ch].has
                    /\ view'[f][ch].last = view[f][ch].last
                    /\ view'[f][ch].conn = view[f][ch].conn
                    /\ view'[f][ch].at = view[f][ch].at
  OBVIOUS
<1>4. CASE f = e /\ ch = c
  BY <1>3, <1>4
<1>5. CASE f # e \/ ch # c
  BY <1>2, <1>5
<1> QED BY <1>4, <1>5

LEMMA NewestStep ==
  ASSUME TypeOK, StreamInv, [Next]_vars
  PROVE  NeverBack
<1>1. \A e \in Ends, ch \in Channels : view[e][ch].at \in Nat
  BY DEF TypeOK, Entry
<1>2. ASSUME UNCHANGED view PROVE NeverBack
  BY <1>1, <1>2 DEF NeverBack
<1>3. ASSUME NEW e \in Ends, Reset(e) PROVE NeverBack
  <2>1. \A f \in Ends, ch \in Channels : view'[f][ch].has => view'[f][ch] = view[f][ch]
    BY <1>3, ResetKeeps
  <2> QED BY <1>1, <2>1 DEF NeverBack
<1>4. CASE Sit \/ Elsewhere \/ WatcherLinks \/ WatcherReady \/ WatcherStop
  BY <1>2, <1>4 DEF Sit, Elsewhere, WatcherLinks, WatcherReady, WatcherStop
<1>5. ASSUME NEW ch \in Channels, Publish(ch) PROVE NeverBack
  BY <1>2, <1>5 DEF Publish
<1>6. CASE Leave
  BY <1>3, <1>6 DEF Leave, Ends
<1>7. CASE WatcherCut
  BY <1>3, <1>7 DEF WatcherCut, Ends
<1>8. ASSUME NEW ch \in Channels, NEW e \in Ends, Read(e, ch) PROVE NeverBack
  BY <1>1, <1>8, Still DEF NeverBack
<1>9. ASSUME NEW s \in up, HostStore(s) PROVE NeverBack
  BY <1>9, Forward DEF HostStore, Ends, NeverBack
<1>10. ASSUME NEW s \in up, HostDrop(s) PROVE NeverBack
  BY <1>2, <1>10 DEF HostDrop
<1>11. ASSUME NEW s \in down, WatcherStore(s) PROVE NeverBack
  BY <1>11, Forward DEF WatcherStore, Ends, NeverBack
<1>12. ASSUME NEW s \in down, WatcherDrop(s) PROVE NeverBack
  BY <1>2, <1>12 DEF WatcherDrop
<1>13. CASE UNCHANGED vars
  BY <1>2, <1>13 DEF vars
<1> QED BY <1>4, <1>5, <1>6, <1>7, <1>8, <1>9, <1>10, <1>11, <1>12, <1>13 DEF Next

LEMMA StreamInit == ASSUME Init PROVE StreamInv
<1>1. \A e \in Ends, ch \in Channels : ~view[e][ch].has
  BY DEF Init, Cleared
<1> QED BY <1>1 DEF Init, StreamInv, Traffic, Entries, Near

LEMMA StreamInvariant == Spec => [](TypeOK /\ StreamInv)
<1>1. Init => TypeOK /\ StreamInv
  BY TypeInit, StreamInit
<1>2. (TypeOK /\ StreamInv) /\ [Next]_vars => (TypeOK /\ StreamInv)'
  BY TypeStep, StreamStep
<1> QED BY <1>1, <1>2, PTL DEF Spec

\* No entry ever goes back to an older sample of the connection it shows,
\* however its datagrams were lost, repeated or reordered and whatever the width
\* of the numbers, as long as they live for less than half of them
\* (session_streams.cpp:208).
THEOREM NewestWinsAlways == Spec => NewestWins
<1>1. TypeOK /\ StreamInv /\ [Next]_vars => [NeverBack]_vars
  BY NewestStep
<1>2. Spec => [][NeverBack]_vars
  BY <1>1, StreamInvariant, PTL DEF Spec
<1> QED BY <1>2 DEF NewestWins

-----------------------------------------------------------------------------
(* What an end shows.                                                      *)

\* A slot that nobody has shows nothing on the host.
Vacant == ~seated => \A ch \in Channels \ Kept : ~view["host"][ch].has

ShownInv == HostShowsNewest /\ WatcherShowsNewest /\ Vacant

\* The step leaves the entry, and what was heard of it.
Alike(e, ch) ==
  /\ heard'[e][ch] = heard[e][ch]
  /\ view'[e][ch].has = view[e][ch].has /\ view'[e][ch].conn = view[e][ch].conn
  /\ view'[e][ch].at = view[e][ch].at

LEMMA AlikeNewest ==
  ASSUME NEW e, NEW ch, Newest(e, ch), Alike(e, ch), conn' = conn
  PROVE  Newest(e, ch)'
BY DEF Newest, Alike

\* A sample of the client in the slot: stored when fresh, dropped when stale,
\* the entry shows the newest that was heard.
LEMMA HearNewest ==
  ASSUME TypeOK, StreamInv, NEW e \in Ends, NEW s \in up \cup down, s.conn = conn,
         Newest(e, s.ch), Hear(e, s), conn' = conn,
         \/ ~Stale(view[e][s.ch], s) /\ Take(e, s)
         \/ Stale(view[e][s.ch], s) /\ UNCHANGED view
  PROVE  Newest(e, s.ch)'
<1> DEFINE n == view[e][s.ch]  h == heard[e][s.ch]
<1>1. s \in Sample /\ s.ch \in Channels /\ s.at \in Nat
  BY DEF TypeOK, Sample, Ats
<1>2. view \in Views /\ unread \in Marks /\ heard \in Counts
  BY DEF TypeOK, Views, Marks, Counts
<1>3. n.at \in Nat /\ h \in Nat
  BY <1>1 DEF TypeOK, Entry
<1>4. heard'[e][s.ch] = IF s.at >= h THEN s.at + 1 ELSE h
  BY <1>1, <1>2, HearShape
<1>5. h = 0 => ~n.has
  BY DEF Newest
<1>6. h # 0 => n.has /\ n.conn = conn /\ n.at = h - 1
  BY DEF Newest
<1>7. n.has => (Stale(n, s) <=> s.at <= n.at)
  BY <1>5, <1>6, StaleMeansOlder
<1>8. CASE ~Stale(n, s) /\ Take(e, s)
  <2>1. view'[e][s.ch] = Stored(n, s)
    BY <1>1, <1>2, <1>8, TakeShape
  <2>2. view'[e][s.ch].has /\ view'[e][s.ch].conn = conn /\ view'[e][s.ch].at = s.at
    BY <2>1 DEF Stored
  <2> HIDE DEF n, h
  <2>3. s.at >= h
    BY <1>1, <1>3, <1>5, <1>6, <1>7, <1>8
  <2>4. heard'[e][s.ch] = s.at + 1
    BY <1>4, <2>3
  <2> QED BY <1>1, <2>2, <2>4 DEF Newest
<1>9. CASE Stale(n, s) /\ UNCHANGED view
  <2>1. n.has
    BY <1>9 DEF Stale
  <2>2. ~(s.at >= h)
    <3> HIDE DEF n, h
    <3> QED BY <1>1, <1>3, <1>5, <1>6, <1>7, <1>9, <2>1
  <2>3. heard'[e][s.ch] = h
    BY <1>4, <2>2
  <2> QED BY <1>9, <2>3 DEF Newest
<1> QED BY <1>8, <1>9

\* What a store, or a drop, leaves of the other entries.
LEMMA OthersAlike ==
  ASSUME TypeOK, NEW e \in Ends, NEW s \in Sample, Hear(e, s), Take(e, s) \/ UNCHANGED view
  PROVE  \A f \in Ends, ch \in Channels : f # e \/ ch # s.ch => Alike(f, ch)
<1>1. view \in Views /\ unread \in Marks /\ heard \in Counts
  BY DEF TypeOK, Views, Marks, Counts
<1>2. \A f \in Ends, ch \in Channels : f # e \/ ch # s.ch => heard'[f][ch] = heard[f][ch]
  BY <1>1, HearShape
<1>3. CASE Take(e, s)
  BY <1>1, <1>2, <1>3, TakeShape DEF Alike
<1>4. CASE UNCHANGED view
  BY <1>2, <1>4 DEF Alike
<1> QED BY <1>3, <1>4

LEMMA AllAlike ==
  ASSUME UNCHANGED <<view, heard>>
  PROVE  \A f \in Ends, ch \in Channels : Alike(f, ch)
BY DEF Alike

LEMMA ShownFrame ==
  ASSUME ShownInv, \A f \in Ends, ch \in Channels : Alike(f, ch),
         conn' = conn, seated' = seated, mixed' = mixed
  PROVE  ShownInv'
<1>1. HostShowsNewest'
  BY AlikeNewest DEF ShownInv, HostShowsNewest, Ends
<1>2. WatcherShowsNewest'
  BY AlikeNewest DEF ShownInv, WatcherShowsNewest, Ends
<1>3. Vacant'
  BY DEF ShownInv, Vacant, Alike, Ends
<1> QED BY <1>1, <1>2, <1>3 DEF ShownInv

\* A sample reaches the host.
LEMMA HostHears ==
  ASSUME TypeOK, StreamInv, ShownInv, NEW s \in up, HostStore(s) \/ HostDrop(s)
  PROVE  ShownInv'
<1>1. s \in Sample /\ s \in up \cup down /\ "host" \in Ends /\ "watcher" \in Ends
  BY DEF TypeOK, Ends
<1>2. s.conn = conn /\ seated
  BY DEF StreamInv, Traffic
<1>3. /\ Hear("host", s) /\ conn' = conn /\ mixed' = mixed /\ seated' = seated
      /\ \/ ~Stale(view["host"][s.ch], s) /\ Take("host", s)
         \/ Stale(view["host"][s.ch], s) /\ UNCHANGED view
  BY DEF HostStore, HostDrop
<1>4. \A f \in Ends, ch \in Channels : f # "host" \/ ch # s.ch => Alike(f, ch)
  BY <1>1, <1>3, OthersAlike
<1>5. HostShowsNewest'
  <2> SUFFICES ASSUME NEW ch \in Channels \ Kept PROVE Newest("host", ch)'
    BY DEF HostShowsNewest
  <2>1. Newest("host", ch)
    BY DEF ShownInv, HostShowsNewest
  <2>2. CASE ch = s.ch
    BY <1>1, <1>2, <1>3, <2>1, <2>2, HearNewest
  <2>3. CASE ch # s.ch
    BY <1>1, <1>3, <1>4, <2>1, <2>3, AlikeNewest
  <2> QED BY <2>2, <2>3
<1>6. WatcherShowsNewest'
  BY <1>1, <1>3, <1>4, AlikeNewest DEF ShownInv, WatcherShowsNewest
<1>7. Vacant'
  BY <1>2, <1>3 DEF Vacant
<1> QED BY <1>5, <1>6, <1>7 DEF ShownInv

\* A sample reaches the watcher.
LEMMA WatcherHears ==
  ASSUME TypeOK, StreamInv, ShownInv, NEW s \in down, WatcherStore(s) \/ WatcherDrop(s)
  PROVE  ShownInv'
<1>1. s \in Sample /\ s \in up \cup down /\ "host" \in Ends /\ "watcher" \in Ends
  BY DEF TypeOK, Ends
<1>2. /\ Hear("watcher", s) /\ conn' = conn /\ seated' = seated /\ mixed \subseteq mixed'
      /\ \/ /\ ~Stale(view["watcher"][s.ch], s) /\ Take("watcher", s)
            /\ s.conn # conn => s.ch \in mixed'
         \/ Stale(view["watcher"][s.ch], s) /\ UNCHANGED view
  BY DEF WatcherStore, WatcherDrop
<1>3. \A f \in Ends, ch \in Channels : f # "watcher" \/ ch # s.ch => Alike(f, ch)
  BY <1>1, <1>2, OthersAlike
<1>4. HostShowsNewest'
  BY <1>1, <1>2, <1>3, AlikeNewest DEF ShownInv, HostShowsNewest
<1>5. WatcherShowsNewest'
  <2> SUFFICES ASSUME NEW ch \in Channels \ mixed' PROVE Newest("watcher", ch)'
    BY DEF WatcherShowsNewest
  <2>1. Newest("watcher", ch)
    BY <1>2 DEF ShownInv, WatcherShowsNewest
  <2>2. CASE ch = s.ch /\ s.conn = conn
    BY <1>1, <1>2, <2>1, <2>2, HearNewest
  <2>3. CASE ch = s.ch /\ s.conn # conn
    <3>1. UNCHANGED view
      BY <1>2, <2>3
    <3>2. UNCHANGED heard
      BY <1>2, <2>3 DEF Hear
    <3> QED BY <1>1, <1>2, <2>1, <3>1, <3>2, AllAlike, AlikeNewest
  <2>4. CASE ch # s.ch
    BY <1>1, <1>2, <1>3, <2>1, <2>4, AlikeNewest
  <2> QED BY <2>2, <2>3, <2>4
<1>6. Vacant'
  BY <1>1, <1>2, <1>3 DEF ShownInv, Vacant, Alike
<1> QED BY <1>4, <1>5, <1>6 DEF ShownInv

LEMMA ShownStep ==
  ASSUME TypeOK, StreamInv, ShownInv, [Next]_vars
  PROVE  ShownInv'
<1>1. view \in Views /\ heard \in Counts /\ "host" \in Ends /\ "watcher" \in Ends
  BY DEF TypeOK, Views, Counts, Ends
<1>2. CASE Sit
  <2>1. /\ view' = view /\ seated' /\ ~seated /\ mixed' = {ch \in Channels : view["watcher"][ch].has}
        /\ \A e \in Ends, ch \in Channels : heard'[e][ch] = 0
    BY <1>2 DEF Sit
  <2>2. HostShowsNewest'
    BY <1>1, <2>1 DEF ShownInv, Vacant, HostShowsNewest, Newest
  <2>3. WatcherShowsNewest'
    BY <1>1, <2>1 DEF WatcherShowsNewest, Newest
  <2> QED BY <2>1, <2>2, <2>3 DEF ShownInv, Vacant
<1>3. ASSUME NEW ch \in Channels, Publish(ch) PROVE ShownInv'
  BY <1>3, AllAlike, ShownFrame DEF Publish
<1>4. CASE Elsewhere
  BY <1>4, AllAlike, ShownFrame DEF Elsewhere
<1>5. CASE Leave
  <2>1. /\ Reset("host") /\ heard' = Forget("host", heard)
        /\ conn' = conn /\ mixed' = mixed
    BY <1>5 DEF Leave
  <2>2. \A ch \in Channels \ Kept : ~view'["host"][ch].has /\ heard'["host"][ch] = 0
    BY <1>1, <2>1, ResetShape, ForgetShape DEF Cleared
  <2>3. \A ch \in Channels : Alike("watcher", ch)
    <3>1. view'["watcher"] = view["watcher"]
      BY <1>1, <2>1, ResetShape
    <3>2. heard'["watcher"] = heard["watcher"]
      BY <1>1, <2>1, ForgetShape
    <3> QED BY <3>1, <3>2 DEF Alike
  <2>4. HostShowsNewest'
    BY <2>2 DEF HostShowsNewest, Newest
  <2>5. WatcherShowsNewest'
    BY <1>1, <2>1, <2>3, AlikeNewest DEF ShownInv, WatcherShowsNewest
  <2> QED BY <2>2, <2>4, <2>5 DEF ShownInv, Vacant
<1>6. CASE WatcherLinks
  BY <1>6, AllAlike, ShownFrame DEF WatcherLinks
<1>7. CASE WatcherReady
  BY <1>7, AllAlike, ShownFrame DEF WatcherReady
<1>8. CASE WatcherCut
  <2>1. /\ Reset("watcher") /\ heard' = Forget("watcher", heard)
        /\ conn' = conn /\ mixed' = mixed \cap Kept /\ seated' = seated
    BY <1>8 DEF WatcherCut
  <2>2. \A ch \in Channels \ Kept : ~view'["watcher"][ch].has /\ heard'["watcher"][ch] = 0
    BY <1>1, <2>1, ResetShape, ForgetShape DEF Cleared
  <2>3. \A ch \in Channels \cap Kept : Alike("watcher", ch)
    BY <1>1, <2>1, ResetShape, ForgetShape DEF Alike
  <2>4. \A ch \in Channels : Alike("host", ch)
    <3>1. view'["host"] = view["host"]
      BY <1>1, <2>1, ResetShape
    <3>2. heard'["host"] = heard["host"]
      BY <1>1, <2>1, ForgetShape
    <3> QED BY <3>1, <3>2 DEF Alike
  <2>5. HostShowsNewest'
    BY <1>1, <2>1, <2>4, AlikeNewest DEF ShownInv, HostShowsNewest
  <2>6. WatcherShowsNewest'
    <3> SUFFICES ASSUME NEW ch \in Channels \ mixed' PROVE Newest("watcher", ch)'
      BY DEF WatcherShowsNewest
    <3>1. CASE ch \in Kept
      <4>1. Newest("watcher", ch)
        BY <2>1, <3>1 DEF ShownInv, WatcherShowsNewest
      <4> QED BY <1>1, <2>1, <2>3, <3>1, <4>1, AlikeNewest
    <3>2. CASE ch \notin Kept
      BY <2>2, <3>2 DEF Newest
    <3> QED BY <3>1, <3>2
  <2>7. Vacant'
    BY <2>1, <2>4 DEF ShownInv, Vacant, Alike
  <2> QED BY <2>5, <2>6, <2>7 DEF ShownInv
<1>9. CASE WatcherStop
  BY <1>9, AllAlike, ShownFrame DEF WatcherStop
<1>10. ASSUME NEW ch \in Channels, NEW e \in Ends, Read(e, ch) PROVE ShownInv'
  <2>1. \A f \in Ends, c \in Channels : Alike(f, c)
    BY <1>10, Still DEF Alike, Read
  <2> QED BY <1>10, <2>1, ShownFrame DEF Read
<1>11. ASSUME NEW s \in up, HostStore(s) \/ HostDrop(s) PROVE ShownInv'
  BY <1>11, HostHears
<1>12. ASSUME NEW s \in down, WatcherStore(s) \/ WatcherDrop(s) PROVE ShownInv'
  BY <1>12, WatcherHears
<1>13. CASE UNCHANGED vars
  BY <1>13, AllAlike, ShownFrame DEF vars
<1> QED BY <1>2, <1>3, <1>4, <1>5, <1>6, <1>7, <1>8, <1>9, <1>10, <1>11, <1>12, <1>13 DEF Next

LEMMA ShownInvariant == Spec => [](TypeOK /\ StreamInv /\ ShownInv)
<1>1. ASSUME Init PROVE ShownInv
  <2>1. \A e \in Ends, ch \in Channels : ~view[e][ch].has /\ heard[e][ch] = 0
    BY <1>1 DEF Init, Cleared
  <2> QED BY <2>1 DEF ShownInv, HostShowsNewest, WatcherShowsNewest, Vacant, Newest, Ends
<1>2. Init => TypeOK /\ StreamInv /\ ShownInv
  BY <1>1, TypeInit, StreamInit
<1>3. (TypeOK /\ StreamInv /\ ShownInv) /\ [Next]_vars => (TypeOK /\ StreamInv /\ ShownInv)'
  BY TypeStep, StreamStep, ShownStep
<1> QED BY <1>2, <1>3, PTL DEF Spec

\* On the host an entry that is reset with the slot shows the newest sample that
\* came from the client now in the slot, and nothing else
\* (session_status.cpp:324, session_streams.cpp:208).
THEOREM HostNewest == Spec => []HostShowsNewest
BY ShownInvariant, PTL DEF ShownInv

\* So does a watcher's that has held nobody else since its own reset.
THEOREM WatcherNewest == Spec => []WatcherShowsNewest
BY ShownInvariant, PTL DEF ShownInv

-----------------------------------------------------------------------------
(* The watcher behind the host.                                            *)

\* The present connection's sample number at of channel ch is not ahead of the
\* host's entry.
Taken(ch, at) ==
  view["host"][ch].has /\ view["host"][ch].conn = conn /\ at <= view["host"][ch].at

BehindInv ==
  seated =>
    /\ \A s \in down : s.conn = conn => Taken(s.ch, s.at)
    /\ \A ch \in Channels :
         view["watcher"][ch].has /\ view["watcher"][ch].conn = conn
           => Taken(ch, view["watcher"][ch].at)

\* A step in which the host's entries go forward, or stay, and what it makes of
\* the watcher's and of what is on the way was there.
LEMMA BehindFrame ==
  ASSUME TypeOK, BehindInv, conn' = conn, seated' => seated,
         seated' => \A ch \in Channels :
           view["host"][ch].has /\ view["host"][ch].conn = conn =>
             /\ view'["host"][ch].has /\ view'["host"][ch].conn = conn
             /\ view["host"][ch].at <= view'["host"][ch].at,
         TypeOK',
         \A s \in down' : s \in down \/ Taken(s.ch, s.at)',
         \A ch \in Channels :
           view'["watcher"][ch].has =>
             \/ /\ view["watcher"][ch].has
                /\ view'["watcher"][ch].conn = view["watcher"][ch].conn
                /\ view'["watcher"][ch].at = view["watcher"][ch].at
             \/ \E s \in down : /\ s.ch = ch /\ s.conn = view'["watcher"][ch].conn
                               /\ s.at = view'["watcher"][ch].at
  PROVE  BehindInv'
<1> SUFFICES ASSUME seated'
             PROVE  /\ \A s \in down' : s.conn = conn => Taken(s.ch, s.at)'
                    /\ \A ch \in Channels :
                         view'["watcher"][ch].has /\ view'["watcher"][ch].conn = conn
                           => Taken(ch, view["watcher"][ch].at)'
  BY DEF BehindInv
<1>1. \A ch \in Channels : view["host"][ch].at \in Nat /\ view'["host"][ch].at \in Nat
  BY DEF TypeOK, Entry, Ends
<1>2. \A ch \in Channels, at \in Nat : Taken(ch, at) => 
         /\ view'["host"][ch].has /\ view'["host"][ch].conn = conn' /\ at <= view'["host"][ch].at
  BY <1>1 DEF Taken
<1>3. \A s \in down : s.ch \in Channels /\ s.at \in Nat
  BY DEF TypeOK, Sample, Ats
<1>4. \A ch \in Channels : view["watcher"][ch].at \in Nat
  BY DEF TypeOK, Entry, Ends
<1>5. ASSUME NEW s \in down', s.conn = conn PROVE Taken(s.ch, s.at)'
  <2>1. CASE s \in down
    <3>1. Taken(s.ch, s.at)
      BY <1>5, <2>1 DEF BehindInv
    <3> QED BY <1>2, <1>3, <2>1, <3>1 DEF Taken
  <2> QED BY <1>5, <2>1
<1>6. ASSUME NEW ch \in Channels, view'["watcher"][ch].has, view'["watcher"][ch].conn = conn
      PROVE  Taken(ch, view["watcher"][ch].at)'
  <2> DEFINE at == view'["watcher"][ch].at
  <2>1. Taken(ch, at) /\ at \in Nat
    <3>1. CASE /\ view["watcher"][ch].has
               /\ view'["watcher"][ch].conn = view["watcher"][ch].conn
               /\ view'["watcher"][ch].at = view["watcher"][ch].at
      BY <1>4, <1>6, <3>1 DEF BehindInv
    <3>2. CASE \E s \in down : /\ s.ch = ch /\ s.conn = view'["watcher"][ch].conn
                              /\ s.at = view'["watcher"][ch].at
      BY <1>3, <1>6, <3>2 DEF BehindInv
    <3> QED BY <1>6, <3>1, <3>2
  <2> QED BY <1>2, <2>1 DEF Taken
<1> QED BY <1>5, <1>6

LEMMA BehindStep ==
  ASSUME TypeOK, StreamInv, BehindInv, TypeOK', [Next]_vars
  PROVE  BehindInv'
<1>1. view \in Views /\ unread \in Marks /\ "host" \in Ends /\ "watcher" \in Ends
      /\ \A ch \in Channels : view["host"][ch].at \in Nat
  BY DEF TypeOK, Views, Marks, Ends, Entry
<1>2. ASSUME UNCHANGED view, conn' = conn, seated' => seated, down' \subseteq down
      PROVE  BehindInv'
  BY <1>1, <1>2, BehindFrame
<1>3. CASE Sit
  <2>1. /\ view' = view /\ down' = down /\ conn' = conn + 1 /\ conn \in Nat
    BY <1>3 DEF Sit, TypeOK
  <2>2. \A s \in down : s.conn \in Nat /\ s.conn <= conn
    BY DEF StreamInv, Traffic, TypeOK, Sample, Conns
  <2>3. \A ch \in Channels : view["watcher"][ch].conn \in Nat
          /\ (view["watcher"][ch].has => view["watcher"][ch].conn <= conn)
    BY <1>1 DEF StreamInv, Entries, TypeOK, Entry
  <2> QED BY <2>1, <2>2, <2>3 DEF BehindInv
<1>4. ASSUME NEW ch \in Channels, Publish(ch) PROVE BehindInv'
  BY <1>2, <1>4 DEF Publish
<1>5. CASE Elsewhere
  BY <1>2, <1>5 DEF Elsewhere
<1>6. CASE Leave
  BY <1>6 DEF Leave, BehindInv
<1>7. CASE WatcherLinks \/ WatcherReady
  BY <1>2, <1>7 DEF WatcherLinks, WatcherReady
<1>8. CASE WatcherCut
  <2>1. Reset("watcher") /\ conn' = conn /\ seated' = seated /\ down' = {}
    BY <1>8 DEF WatcherCut
  <2>2. view'["host"] = view["host"]
    BY <1>1, <2>1, ResetShape
  <2>3. \A ch \in Channels : view'["watcher"][ch].has => view'["watcher"][ch] = view["watcher"][ch]
    BY <1>1, <2>1, ResetKeeps
  <2> QED BY <1>1, <2>1, <2>2, <2>3, BehindFrame
<1>9. CASE WatcherStop
  BY <1>2, <1>9 DEF WatcherStop
<1>10. ASSUME NEW ch \in Channels, NEW e \in Ends, Read(e, ch) PROVE BehindInv'
  <2>1. conn' = conn /\ seated' = seated /\ down' = down
    BY <1>10 DEF Read
  <2>2. \A f \in Ends, c \in Channels :
          /\ view'[f][c].has = view[f][c].has /\ view'[f][c].conn = view[f][c].conn
          /\ view'[f][c].at = view[f][c].at
    BY <1>10, Still
  <2> QED BY <1>1, <2>1, <2>2, BehindFrame
<1>11. ASSUME NEW s \in up, HostStore(s) PROVE BehindInv'
  <2>1. s \in Sample /\ s \in up \cup down /\ s.ch \in Channels /\ s.at \in Nat
    BY DEF TypeOK, Sample, Ats
  <2>2. /\ Take("host", s) /\ ~Stale(view["host"][s.ch], s) /\ conn' = conn
        /\ seated' = seated /\ down' \subseteq down \cup {s}
    BY <1>11 DEF HostStore
  <2>3. s.conn = conn
    BY DEF StreamInv, Traffic
  <2>4. /\ view'["host"][s.ch] = Stored(view["host"][s.ch], s)
        /\ \A f \in Ends, ch \in Channels :
             f # "host" \/ ch # s.ch => view'[f][ch] = view[f][ch]
    BY <1>1, <2>1, <2>2, TakeShape
  <2>5. /\ view'["host"][s.ch].has /\ view'["host"][s.ch].conn = conn
        /\ view'["host"][s.ch].at = s.at
    BY <2>3, <2>4 DEF Stored
  <2>6. Taken(s.ch, s.at)'
    BY <2>1, <2>2, <2>5 DEF Taken
  <2>7. \A ch \in Channels :
          view["host"][ch].has /\ view["host"][ch].conn = conn =>
            /\ view'["host"][ch].has /\ view'["host"][ch].conn = conn
            /\ view["host"][ch].at <= view'["host"][ch].at
    <3> SUFFICES ASSUME NEW ch \in Channels, view["host"][ch].has, view["host"][ch].conn = conn
                 PROVE  /\ view'["host"][ch].has /\ view'["host"][ch].conn = conn
                        /\ view["host"][ch].at <= view'["host"][ch].at
      OBVIOUS
    <3>1. view'["host"][ch].has /\ view'["host"][ch].conn = conn
      BY <1>1, <2>4, <2>5
    <3>2. view'["host"][ch].at >= view["host"][ch].at
      BY <1>1, <2>1, <2>2, <3>1, Forward
    <3>3. view'["host"][ch].at \in Nat
      BY <1>1 DEF TypeOK, Entry
    <3> QED BY <1>1, <3>1, <3>2, <3>3
  <2>8. \A ch \in Channels : view'["watcher"][ch] = view["watcher"][ch]
    BY <1>1, <2>4
  <2>9. \A t \in down' : t \in down \/ Taken(t.ch, t.at)'
    BY <2>2, <2>6
  <2> QED BY <2>2, <2>7, <2>8, <2>9, BehindFrame
<1>12. ASSUME NEW s \in up, HostDrop(s) PROVE BehindInv'
  BY <1>2, <1>12 DEF HostDrop
<1>13. ASSUME NEW s \in down, WatcherStore(s) PROVE BehindInv'
  <2>1. s \in Sample /\ s.ch \in Channels
    BY DEF TypeOK, Sample
  <2>2. Take("watcher", s) /\ conn' = conn /\ seated' = seated /\ down' = down
    BY <1>13 DEF WatcherStore
  <2>3. /\ view'["watcher"][s.ch] = Stored(view["watcher"][s.ch], s)
        /\ \A f \in Ends, ch \in Channels :
             f # "watcher" \/ ch # s.ch => view'[f][ch] = view[f][ch]
    BY <1>1, <2>1, <2>2, TakeShape
  <2>4. view'["watcher"][s.ch].conn = s.conn /\ view'["watcher"][s.ch].at = s.at
    BY <2>3 DEF Stored
  <2>5. \A ch \in Channels : view'["host"][ch] = view["host"][ch]
    BY <1>1, <2>3
  <2>6. \A ch \in Channels : ch # s.ch => view'["watcher"][ch] = view["watcher"][ch]
    BY <1>1, <2>3
  <2> QED BY <1>1, <2>2, <2>4, <2>5, <2>6, BehindFrame
<1>14. ASSUME NEW s \in down, WatcherDrop(s) PROVE BehindInv'
  BY <1>2, <1>14 DEF WatcherDrop
<1>15. CASE UNCHANGED vars
  BY <1>2, <1>15 DEF vars
<1> QED BY <1>3, <1>4, <1>5, <1>6, <1>7, <1>8, <1>9, <1>10, <1>11, <1>12, <1>13, <1>14,
           <1>15 DEF Next

\* No watcher shows a sample of the client in the slot that the host has not
\* taken, or has not been brought past (session_streams.cpp:209).
THEOREM WatcherNeverAhead == Spec => []WatcherBehindHost
<1>1. Init => TypeOK /\ StreamInv /\ BehindInv
  BY TypeInit, StreamInit DEF Init, BehindInv
<1>2. (TypeOK /\ StreamInv /\ BehindInv) /\ [Next]_vars => (TypeOK /\ StreamInv /\ BehindInv)'
  BY TypeStep, StreamStep, BehindStep
<1>3. BehindInv => WatcherBehindHost
  BY DEF BehindInv, Taken, WatcherBehindHost
<1> QED BY <1>1, <1>2, <1>3, PTL DEF Spec

-----------------------------------------------------------------------------
(* Stamps.                                                                 *)

StampInv ==
  /\ NewIffUnread
  /\ \A e \in Ends, ch \in Channels : view[e][ch].read <= view[e][ch].stamp

LEMMA StampReset ==
  ASSUME TypeOK, StampInv, NEW e \in Ends, Reset(e),
         unread' = [unread EXCEPT ![e] = @ \cap Kept]
  PROVE  StampInv'
<1>1. view \in Views /\ unread \in Marks
  BY DEF TypeOK, Views, Marks
<1>2. unread'[e] = unread[e] \cap Kept /\ \A f \in Ends : f # e => unread'[f] = unread[f]
  BY <1>1 DEF Marks
<1>3. Cleared.stamp = 0 /\ Cleared.read = 0
  BY DEF Cleared
<1> SUFFICES ASSUME NEW f \in Ends, NEW ch \in Channels
             PROVE  /\ view'[f][ch].stamp # view'[f][ch].read <=> ch \in unread'[f]
                    /\ view'[f][ch].read <= view'[f][ch].stamp
  BY DEF StampInv, NewIffUnread
<1>4. CASE f # e
  BY <1>1, <1>2, <1>4, ResetShape DEF StampInv, NewIffUnread
<1>5. CASE f = e /\ ch \in Kept
  BY <1>1, <1>2, <1>5, ResetShape DEF StampInv, NewIffUnread
<1>6. CASE f = e /\ ch \notin Kept
  <2>1. view'[f][ch] = Cleared
    BY <1>1, <1>6, ResetShape
  <2>2. ch \notin unread'[f]
    BY <1>2, <1>6
  <2> QED BY <1>3, <2>1, <2>2
<1> QED BY <1>4, <1>5, <1>6

LEMMA StampTake ==
  ASSUME TypeOK, StampInv, NEW e \in Ends, NEW s \in Sample, Take(e, s)
  PROVE  StampInv'
<1>1. view \in Views /\ unread \in Marks /\ s.ch \in Channels
  BY DEF TypeOK, Views, Marks, Sample
<1>2. /\ view'[e][s.ch] = Stored(view[e][s.ch], s)
      /\ unread'[e] = unread[e] \cup {s.ch}
      /\ \A f \in Ends, ch \in Channels :
           f # e \/ ch # s.ch => view'[f][ch] = view[f][ch]
      /\ \A f \in Ends : f # e => unread'[f] = unread[f]
  BY <1>1, TakeShape
<1>3. /\ view'[e][s.ch].stamp = view[e][s.ch].stamp + 1
      /\ view'[e][s.ch].read = view[e][s.ch].read
  BY <1>2 DEF Stored
<1>4. \A f \in Ends, ch \in Channels :
        view[f][ch].stamp \in Nat /\ view[f][ch].read \in Nat /\ view[f][ch].read <= view[f][ch].stamp
  BY DEF TypeOK, Entry, StampInv
<1> SUFFICES ASSUME NEW f \in Ends, NEW ch \in Channels
             PROVE  /\ view'[f][ch].stamp # view'[f][ch].read <=> ch \in unread'[f]
                    /\ view'[f][ch].read <= view'[f][ch].stamp
  BY DEF StampInv, NewIffUnread
<1>5. CASE f = e /\ ch = s.ch
  BY <1>1, <1>2, <1>3, <1>4, <1>5
<1>6. CASE f # e \/ ch # s.ch
  <2>1. view'[f][ch] = view[f][ch] /\ (ch \in unread'[f] <=> ch \in unread[f])
    BY <1>2, <1>6
  <2> QED BY <2>1 DEF StampInv, NewIffUnread
<1> QED BY <1>5, <1>6

LEMMA StampRead ==
  ASSUME TypeOK, StampInv, NEW e \in Ends, NEW c \in Channels, Read(e, c)
  PROVE  StampInv'
<1>1. view \in Views /\ unread \in Marks /\ view[e][c] \in Entry
  BY DEF TypeOK, Views, Marks
<1>2. /\ view'[e][c] = [view[e][c] EXCEPT !.read = view[e][c].stamp]
      /\ unread'[e] = unread[e] \ {c}
      /\ \A f \in Ends, ch \in Channels : f # e \/ ch # c => view'[f][ch] = view[f][ch]
      /\ \A f \in Ends : f # e => unread'[f] = unread[f]
  BY <1>1, ReadShape
<1>3. view'[e][c].stamp = view'[e][c].read /\ view'[e][c].stamp \in Nat
  BY <1>1, <1>2, StreamAssumption DEF Entry
<1> SUFFICES ASSUME NEW f \in Ends, NEW ch \in Channels
             PROVE  /\ view'[f][ch].stamp # view'[f][ch].read <=> ch \in unread'[f]
                    /\ view'[f][ch].read <= view'[f][ch].stamp
  BY DEF StampInv, NewIffUnread
<1>4. CASE f = e /\ ch = c
  <2>1. view'[f][ch].stamp = view'[f][ch].read /\ view'[f][ch].stamp \in Nat
    BY <1>3, <1>4
  <2>2. ch \notin unread'[f]
    BY <1>2, <1>4
  <2> QED BY <2>1, <2>2
<1>5. CASE f # e \/ ch # c
  <2>1. view'[f][ch] = view[f][ch] /\ (ch \in unread'[f] <=> ch \in unread[f])
    BY <1>2, <1>5
  <2> QED BY <2>1 DEF StampInv, NewIffUnread
<1> QED BY <1>4, <1>5

LEMMA StampStep ==
  ASSUME TypeOK, StampInv, [Next]_vars
  PROVE  StampInv'
<1>1. ASSUME UNCHANGED <<view, unread>> PROVE StampInv'
  BY <1>1 DEF StampInv, NewIffUnread
<1>2. CASE Sit \/ Elsewhere \/ WatcherLinks \/ WatcherReady \/ WatcherStop
  BY <1>1, <1>2 DEF Sit, Elsewhere, WatcherLinks, WatcherReady, WatcherStop
<1>3. ASSUME NEW ch \in Channels, Publish(ch) PROVE StampInv'
  BY <1>1, <1>3 DEF Publish
<1>4. CASE Leave
  BY <1>4, StampReset DEF Leave, Ends
<1>5. CASE WatcherCut
  BY <1>5, StampReset DEF WatcherCut, Ends
<1>6. ASSUME NEW ch \in Channels, NEW e \in Ends, Read(e, ch) PROVE StampInv'
  BY <1>6, StampRead
<1>7. ASSUME NEW s \in up, HostStore(s) PROVE StampInv'
  BY <1>7, StampTake DEF HostStore, Ends, TypeOK
<1>8. ASSUME NEW s \in up, HostDrop(s) PROVE StampInv'
  BY <1>1, <1>8 DEF HostDrop
<1>9. ASSUME NEW s \in down, WatcherStore(s) PROVE StampInv'
  BY <1>9, StampTake DEF WatcherStore, Ends, TypeOK
<1>10. ASSUME NEW s \in down, WatcherDrop(s) PROVE StampInv'
  BY <1>1, <1>10 DEF WatcherDrop
<1>11. CASE UNCHANGED vars
  BY <1>1, <1>11 DEF vars
<1> QED BY <1>2, <1>3, <1>4, <1>5, <1>6, <1>7, <1>8, <1>9, <1>10, <1>11 DEF Next

\* A reader is told of a new sample exactly when one was stored since its last
\* read, over resets too (session_streams.cpp:104).
THEOREM NewSampleTold == Spec => []NewIffUnread
<1>1. Init => TypeOK /\ StampInv
  <2>1. ASSUME Init PROVE StampInv
    <3>1. \A e \in Ends, ch \in Channels :
            view[e][ch].stamp = 0 /\ view[e][ch].read = 0 /\ ch \notin unread[e]
      BY <2>1 DEF Init, Cleared
    <3> QED BY <3>1 DEF StampInv, NewIffUnread
  <2> QED BY <2>1, TypeInit
<1>2. (TypeOK /\ StampInv) /\ [Next]_vars => (TypeOK /\ StampInv)'
  BY TypeStep, StampStep
<1> QED BY <1>1, <1>2, PTL DEF Spec, StampInv

=============================================================================
