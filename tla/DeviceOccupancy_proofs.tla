----------------------- MODULE DeviceOccupancy_proofs -----------------------
(* Theorems about DeviceOccupancy for any number of clients and devices:    *)
(* the holders, the claims, and the mirrors the host's verdicts make.       *)
EXTENDS DeviceOccupancy, FiniteSetTheorems, TLAPS

-----------------------------------------------------------------------------
(* What the host sends.                                                    *)

\* SetToSeq of a finite set is a sequence of its members.
LEMMA SetToSeqType ==
  ASSUME NEW T, NEW S \in SUBSET T, IsFiniteSet(S)
  PROVE  SetToSeq(S) \in Seq(T)
<1>1. Cardinality(S) \in Nat /\ ExistsBijection(1..Cardinality(S), S)
  BY FS_CardinalityType
<1>2. PICK f \in Bijection(1..Cardinality(S), S) : TRUE
  BY <1>1 DEF ExistsBijection
<1>3. f \in [1..Cardinality(S) -> S] /\ IsInjective(f)
  BY <1>2 DEF Bijection, Injection, IsInjective
<1>4. SetToSeq(S) \in [1..Cardinality(S) -> S]
  BY <1>3 DEF SetToSeq
<1> QED BY <1>1, <1>4

\* A finite set of devices yields finitely many verdicts.
LEMMA ImageFinite ==
  ASSUME NEW P \in SUBSET Devices, NEW f
  PROVE  IsFiniteSet({f[d] : d \in P})
<1> DEFINE T == {f[d] : d \in P}
           g == [d \in P |-> f[d]]
<1>1. IsFiniteSet(P)
  BY PlayersAssumption, FS_Subset
<1>2. g \in Surjection(P, T)
  BY DEF Surjection
<1> HIDE DEF T, g
<1>3. IsFiniteSet(T)
  BY <1>1, <1>2, FS_Surjection
<1> QED BY <1>3 DEF T

\* The snapshot an announce is answered with.
LEMMA SnapshotType ==
  ASSUME table \in [Devices -> Slots]
  PROVE  Snapshot \in Seq(Verdict)
<1> DEFINE P == {e \in Devices : table[e] # None}
           f == [d \in Devices |-> Busy(d, table[d])]
           T == {Busy(d, table[d]) : d \in P}
<1>1. IsFiniteSet({f[d] : d \in P})
  BY ImageFinite
<1>2. T = {f[d] : d \in P}
  OBVIOUS
<1>3. T \in SUBSET Verdict
  <2> SUFFICES ASSUME NEW d \in P PROVE Busy(d, table[d]) \in Verdict
    OBVIOUS
  <2> table[d] \in Players
    BY DEF Slots
  <2> QED BY DEF Busy, Verdict
<1>4. SetToSeq(T) \in Seq(Verdict)
  <2> HIDE DEF T
  <2> QED BY <1>1, <1>2, <1>3, SetToSeqType
<1> QED BY <1>4 DEF Snapshot

\* The releases a departure is answered with.
LEMMA ReleasesType ==
  ASSUME NEW c \in Clients
  PROVE  SetToSeq({Freed(d, c) : d \in {e \in Devices : table[e] = c}}) \in Seq(Verdict)
<1> DEFINE P == {e \in Devices : table[e] = c}
           f == [d \in Devices |-> Freed(d, c)]
           T == {Freed(d, c) : d \in P}
<1>1. IsFiniteSet({f[d] : d \in P})
  BY ImageFinite
<1>2. T = {f[d] : d \in P}
  OBVIOUS
<1>3. T \in SUBSET Verdict
  <2> SUFFICES ASSUME NEW d \in P PROVE Freed(d, c) \in Verdict
    OBVIOUS
  <2> QED BY DEF Freed, Verdict, Players
<1>4. SetToSeq(T) \in Seq(Verdict)
  <2> HIDE DEF T
  <2> QED BY <1>1, <1>2, <1>3, SetToSeqType
<1> QED BY <1>4

LEMMA ToAllType ==
  ASSUME TypeOK, NEW msgs \in Seq(Verdict)
  PROVE  ToAll(msgs) \in [Clients -> Seq(Verdict)]
BY DEF ToAll, TypeOK

LEMMA VerdictTypes ==
  /\ \A d \in Devices, p \in Players : Busy(d, p) \in Verdict /\ Freed(d, p) \in Verdict
  /\ \A c \in Clients : RowEnd(c) \in Verdict
  /\ \A d \in Devices : Ask("claim", d) \in Request /\ Ask("release", d) \in Request
  /\ \A op \in {"pingOn", "pingOff", "ready"} : Ask(op, None) \in Request
BY DEF Busy, Freed, RowEnd, Verdict, Ask, Request

LEMMA PulsedType ==
  ASSUME NEW lanes \in [Clients -> Seq(Verdict)], NEW c \in Clients
  PROVE  Pulsed(lanes, c) \in [Clients -> Seq(Verdict)]
<1>1. RowEnd(c) \in Verdict
  BY VerdictTypes
<1> QED BY <1>1 DEF Pulsed

-----------------------------------------------------------------------------
(* Type correctness.                                                       *)

LEMMA InitTypeOK == Init => TypeOK
<1> SUFFICES ASSUME Init PROVE TypeOK
  OBVIOUS
<1>1. /\ table \in [Devices -> Slots] /\ mirror \in [Clients -> [Devices -> Slots]]
      /\ pinger \in Slots /\ fsmHold \in BOOLEAN /\ pinging \subseteq Players
  BY DEF Init, Slots
<1>2. {screen, seen, claim} \subseteq [Players -> Keys]
  BY DEF Init, Keys
<1>3. /\ linked \subseteq Clients /\ announced \subseteq linked /\ leaving \subseteq Clients
      /\ early \subseteq Clients /\ ready \in [Clients -> BOOLEAN] /\ met \in BOOLEAN
  BY DEF Init
<1>4. up \in [Clients -> Seq(Request)] /\ down \in [Clients -> Seq(Verdict)]
  BY DEF Init
<1>5. left \in 0..MaxEvents
  BY PlayersAssumption DEF Init
<1> QED BY <1>1, <1>2, <1>3, <1>4, <1>5 DEF TypeOK

LEMMA PlayerTypeOK ==
  ASSUME TypeOK, NEW p \in Players, PlayerStep(p)
  PROVE  TypeOK'
<1>1. CASE \E d \in Devices : Enter(p, d)
  <2>1. PICK d \in Devices : Enter(p, d)
    BY <1>1
  <2>2. screen' \in [Players -> Keys] /\ UNCHANGED <<seen, claim>>
    BY <2>1 DEF Enter, TypeOK, Keys
  <2>3. left' \in 0..MaxEvents
    BY <2>1, PlayersAssumption DEF Enter, TypeOK
  <2> QED BY <2>1, <2>2, <2>3 DEF Enter, TypeOK, pingVars, linkVars
<1>2. CASE Exit(p)
  BY <1>2 DEF Exit, TypeOK, Keys, pingVars, linkVars
<1>3. ASSUME NEW op \in {"pingOn", "pingOff"}, PingEdge(p, op),
             pinging' \subseteq Players, left' \in 0..MaxEvents
      PROVE  TypeOK'
  <2>1. pinger' \in Slots
    BY <1>3 DEF PingEdge, Attributed, TypeOK, Slots
  <2>2. up' \in [Clients -> Seq(Request)]
    BY <1>3, VerdictTypes DEF PingEdge, TypeOK, Players
  <2> QED BY <1>3, <2>1, <2>2 DEF PingEdge, TypeOK, devVars, linkVars
<1>4. CASE StartPing(p)
  BY <1>4, <1>3, PlayersAssumption DEF StartPing, TypeOK
<1>5. CASE EndPing(p)
  BY <1>5, <1>3 DEF EndPing, TypeOK
<1> QED BY <1>1, <1>2, <1>4, <1>5 DEF PlayerStep

LEMMA ForceExitType ==
  ASSUME TypeOK, NEW p \in Players, ForceExitLocal(p) \/ ForgetClaim(p)
  PROVE  {screen, seen, claim}' \subseteq [Players -> Keys]
<1>1. CASE ForceExitLocal(p)
  BY <1>1 DEF ForceExitLocal, TypeOK, Keys
<1>2. CASE ForgetClaim(p)
  BY <1>2 DEF ForgetClaim, TypeOK, Keys
<1> QED BY <1>1, <1>2

LEMMA ClientTickTypeOK ==
  ASSUME TypeOK, NEW c \in Clients, ClientTick(c)
  PROVE  TypeOK'
<1> DEFINE w == screen[c]
           releases == IF claim[c] = None THEN <<>> ELSE <<Ask("release", claim[c])>>
<1>1. w \in Keys /\ claim[c] \in Keys
  BY DEF TypeOK, Players
<1>2. releases \in Seq(Request) /\ ClaimOf(w) \in Seq(Request)
  BY <1>1, VerdictTypes DEF Keys, ClaimOf
<1>3. {screen, seen, claim}' \subseteq [Players -> Keys]
  <2>1. CASE ForceExitLocal(c)
    BY <2>1, ForceExitType DEF Players
  <2>2. CASE /\ claim' = [claim EXCEPT ![c] = w] /\ seen' = [seen EXCEPT ![c] = w]
             /\ UNCHANGED screen
    BY <2>2, <1>1 DEF TypeOK
  <2> QED BY <2>1, <2>2 DEF ClientTick
<1>4. up' \in [Clients -> Seq(Request)]
  <2>1. CASE w # None /\ BusyByOther(c, w)
    <3>1. up' = [up EXCEPT ![c] = @ \o releases]
      BY <2>1 DEF ClientTick
    <3> HIDE DEF releases
    <3> QED BY <1>2, <3>1 DEF TypeOK
  <2>2. CASE ~(w # None /\ BusyByOther(c, w))
    <3>1. up' = [up EXCEPT ![c] = @ \o releases \o ClaimOf(w)]
      BY <2>2 DEF ClientTick
    <3> HIDE DEF releases, w
    <3> QED BY <1>2, <3>1 DEF TypeOK
  <2> QED BY <2>1, <2>2
<1>5. early' \subseteq Clients
  <2>1. early' \in {early \cup {c}, early \ {c}}
    BY DEF ClientTick
  <2> QED BY <2>1 DEF TypeOK
<1> QED BY <1>3, <1>4, <1>5 DEF ClientTick, TypeOK, pingVars, linkVars

LEMMA EraseType ==
  ASSUME TypeOK, NEW d
  PROVE  Erase(d) \in [Devices -> Slots]
BY DEF Erase, TypeOK, Slots

LEMMA HostTickTypeOK == TypeOK /\ HostTick => TypeOK'
<1> SUFFICES ASSUME TypeOK, HostTick PROVE TypeOK'
  OBVIOUS
<1> DEFINE w == screen[Host]
           old == claim[Host]
           releases == IF old = None THEN <<>> ELSE <<Freed(old, Host)>>
           grants == IF w = None THEN <<>> ELSE <<Busy(w, Host)>>
<1>1. w \in Keys /\ old \in Keys /\ Host \in Players
  BY DEF TypeOK, Players
<1>2. releases \in Seq(Verdict) /\ releases \o grants \in Seq(Verdict)
  BY <1>1, VerdictTypes DEF Keys
<1>3. {screen, seen, claim}' \subseteq [Players -> Keys]
  <2>1. CASE ForceExitLocal(Host)
    BY <2>1, <1>1, ForceExitType
  <2>2. CASE /\ claim' = [claim EXCEPT ![Host] = w] /\ seen' = [seen EXCEPT ![Host] = w]
             /\ UNCHANGED screen
    BY <2>2, <1>1 DEF TypeOK
  <2> QED BY <2>1, <2>2 DEF HostTick
<1>4. table' \in [Devices -> Slots]
  BY <1>1, EraseType DEF HostTick, Slots
<1>5. down' \in [Clients -> Seq(Verdict)]
  BY <1>2, ToAllType DEF HostTick
<1>6. fsmHold' \in BOOLEAN
  BY DEF HostTick, TypeOK
<1> QED BY <1>3, <1>4, <1>5, <1>6 DEF HostTick, TypeOK, linkVars

LEMMA FsmHoldTypeOK == TypeOK /\ (AssertFsmHold \/ DropFsmHold) => TypeOK'
<1> SUFFICES ASSUME TypeOK, AssertFsmHold \/ DropFsmHold PROVE TypeOK'
  OBVIOUS
<1>1. CASE AssertFsmHold
  <2>1. pinger \in Players
    BY <1>1 DEF AssertFsmHold, TypeOK, Slots
  <2>2. down' \in [Clients -> Seq(Verdict)]
    <3>1. <<Busy(Desk, pinger)>> \in Seq(Verdict)
      BY <2>1, VerdictTypes, PlayersAssumption
    <3> QED BY <1>1, <3>1, ToAllType DEF AssertFsmHold
  <2> QED BY <1>1, <2>2 DEF AssertFsmHold, TypeOK, linkVars
<1>2. CASE DropFsmHold
  <2>1. FreedIfHeld(Desk) \in Seq(Verdict)
    BY VerdictTypes, PlayersAssumption DEF FreedIfHeld, TypeOK, Slots
  <2>2. down' \in [Clients -> Seq(Verdict)]
    BY <1>2, <2>1, ToAllType DEF DropFsmHold
  <2> QED BY <1>2, <2>2, EraseType DEF DropFsmHold, TypeOK, linkVars
<1> QED BY <1>1, <1>2

\* What is taken from a queue was in it, and the rest is a queue.
LEMMA TakeType ==
  ASSUME TypeOK, NEW c \in Clients, NEW op, Take(c, op)
  PROVE  /\ up' \in [Clients -> Seq(Request)]
         /\ Head(up[c]) \in Request
         /\ op \in {"claim", "release"} => Head(up[c]).dev \in Devices
<1>1. up[c] \in Seq(Request) /\ up[c] # <<>> /\ Head(up[c]).op = op
  BY DEF Take, TypeOK
<1>2. Head(up[c]) \in Request /\ Tail(up[c]) \in Seq(Request)
  BY <1>1
<1> QED BY <1>1, <1>2 DEF Take, TypeOK, Request

LEMMA HostStepTypeOK ==
  ASSUME TypeOK, NEW c \in Clients, HostStep(c)
  PROVE  TypeOK'
<1> DEFINE d == Head(up[c]).dev
<1> c \in Players
  BY DEF Players
<1>1. CASE OnClaim(c)
  <2>1. d \in Devices /\ up' \in [Clients -> Seq(Request)]
    BY <1>1, TakeType DEF OnClaim
  <2>2. CASE table[d] \in {None, c}
    <3>1. table' = [table EXCEPT ![d] = c] /\ down' = ToAll(<<Busy(d, c)>>)
          /\ fsmHold' = (fsmHold /\ d # Desk)
      BY <1>1, <2>2 DEF OnClaim, Grant
    <3>2. down' \in [Clients -> Seq(Verdict)]
      <4>1. <<Busy(d, c)>> \in Seq(Verdict)
        BY <2>1, VerdictTypes
      <4> QED BY <3>1, <4>1, ToAllType
    <3> QED BY <1>1, <2>1, <3>1, <3>2 DEF OnClaim, TypeOK, Slots, linkVars
  <2>3. CASE table[d] \notin {None, c}
    <3>1. table[d] \in Players
      BY <2>1, <2>3 DEF TypeOK, Slots
    <3>2. down' \in [Clients -> Seq(Verdict)]
      <4>1. Busy(d, table[d]) \in Verdict
        BY <2>1, <3>1, VerdictTypes
      <4>2. Deny(c, d)
        BY <1>1, <2>3 DEF OnClaim
      <4> QED BY <4>1, <4>2 DEF Deny, TypeOK
    <3> QED BY <1>1, <2>1, <2>3, <3>2 DEF OnClaim, Deny, TypeOK, linkVars
  <2> QED BY <2>2, <2>3
<1>2. CASE OnRelease(c)
  <2>1. d \in Devices /\ up' \in [Clients -> Seq(Request)]
    BY <1>2, TakeType DEF OnRelease
  <2>2. table' \in [Devices -> Slots] /\ down' \in [Clients -> Seq(Verdict)]
    <3>1. CASE table[d] = c
      <4>1. <<Freed(d, c)>> \in Seq(Verdict)
        BY <2>1, VerdictTypes
      <4>2. table' = Erase(d) /\ down' = ToAll(<<Freed(d, c)>>)
        BY <1>2, <3>1 DEF OnRelease
      <4> QED BY <4>1, <4>2, ToAllType, EraseType
    <3>2. CASE table[d] # c
      BY <1>2, <3>2 DEF OnRelease, TypeOK
    <3> QED BY <3>1, <3>2
  <2> QED BY <1>2, <2>1, <2>2 DEF OnRelease, TypeOK, pingVars, linkVars
<1>3. CASE OnPing(c)
  <2>1. up' \in [Clients -> Seq(Request)]
    BY <1>3, TakeType DEF OnPing
  <2>2. pinger' \in Slots
    BY <1>3 DEF OnPing, Attributed, TypeOK, Slots
  <2> QED BY <1>3, <2>1, <2>2 DEF OnPing, TypeOK, devVars, linkVars
<1>4. CASE OnWorldReady(c)
  <2>1. up' \in [Clients -> Seq(Request)]
    BY <1>4, TakeType DEF OnWorldReady
  <2>2. down' \in [Clients -> Seq(Verdict)]
    BY <1>4, SnapshotType DEF OnWorldReady, TypeOK
  <2> QED BY <1>4, <2>1, <2>2 DEF OnWorldReady, TypeOK, devVars, Slots, Players
<1>5. CASE DisconnectSlot(c)
  <2>1. table' \in [Devices -> Slots] /\ pinger' \in Slots
    BY <1>5 DEF DisconnectSlot, DropClaims, DropPing, TypeOK, Slots
  <2>2. down' \in [Clients -> Seq(Verdict)]
    BY <1>5, ReleasesType, ToAllType, PulsedType DEF DisconnectSlot, DropClaims
  <2> QED BY <1>5, <2>1, <2>2 DEF DisconnectSlot, TypeOK
<1> QED BY <1>1, <1>2, <1>3, <1>4, <1>5 DEF HostStep

LEMMA ClientStepTypeOK ==
  ASSUME TypeOK, NEW c \in Clients, ClientStep(c)
  PROVE  TypeOK'
<1> c \in Players
  BY DEF Players
<1>1. CASE ClientTick(c)
  BY <1>1, ClientTickTypeOK
<1>2. CASE OnVerdict(c)
  <2> DEFINE v == Head(down[c])
  <2>1. down' \in [Clients -> Seq(Verdict)] /\ v \in Verdict
    BY <1>2 DEF OnVerdict, TypeOK
  <2>2. v.dev \in Devices /\ v.slot \in Slots
    BY <1>2, <2>1 DEF OnVerdict, Verdict, Slots, Players
  <2>3. mirror' \in [Clients -> [Devices -> Slots]]
    BY <1>2, <2>2 DEF OnVerdict, TypeOK, Slots
  <2>4. {screen, seen, claim}' \subseteq [Players -> Keys] /\ early' \subseteq Clients
    BY <1>2, ForceExitType DEF OnVerdict, TypeOK
  <2> QED BY <1>2, <2>1, <2>3, <2>4 DEF OnVerdict, TypeOK, pingVars, linkVars
<1>3. CASE Join(c)
  BY <1>3, PlayersAssumption DEF Join, TypeOK, devVars, pingVars
<1>4. CASE Announce(c)
  BY <1>4, VerdictTypes, PlayersAssumption DEF Announce, TypeOK, devVars, pingVars
<1>5. CASE Leave(c)
  BY <1>5 DEF Leave, TypeOK, Keys, Slots
<1>6. CASE OnRowEnd(c)
  <2>1. down' \in [Clients -> Seq(Verdict)]
    BY <1>6 DEF OnRowEnd, TypeOK
  <2>2. mirror' \in [Clients -> [Devices -> Slots]]
    BY <1>6 DEF OnRowEnd, TypeOK, Slots
  <2> QED BY <1>6, <2>1, <2>2 DEF OnRowEnd, TypeOK, pingVars, linkVars
<1> QED BY <1>1, <1>2, <1>3, <1>4, <1>5, <1>6 DEF ClientStep

LEMMA StutterTypeOK == TypeOK /\ UNCHANGED vars => TypeOK'
BY DEF TypeOK, vars, devVars, pingVars, linkVars

\* Every table, mirror, queue and gate has its type for any number of clients
\* and devices.
THEOREM TypeCorrect == Spec => []TypeOK
<1>1. TypeOK /\ [Next]_vars => TypeOK'
  <2> SUFFICES ASSUME TypeOK, [Next]_vars PROVE TypeOK'
    OBVIOUS
  <2>1. CASE DisconnectAll
    <3>1. table' \in [Devices -> Slots] /\ pinger' \in Slots
      BY <2>1 DEF DisconnectAll, Slots
    <3>2. seen' \in [Players -> Keys] /\ claim' \in [Players -> Keys]
      <4>1. seen \in [Players -> Keys] /\ claim \in [Players -> Keys] /\ None \in Keys
        BY DEF TypeOK, Keys
      <4> QED BY <2>1, <4>1 DEF DisconnectAll
    <3> QED BY <2>1, <3>1, <3>2 DEF DisconnectAll, TypeOK
  <2>2. ASSUME NEW c \in Clients, ClientStep(c) \/ HostStep(c) PROVE TypeOK'
    BY <2>2, ClientStepTypeOK, HostStepTypeOK
  <2>3. ASSUME NEW p \in Players, PlayerStep(p) PROVE TypeOK'
    BY <2>3, PlayerTypeOK
  <2>4. CASE HostTick \/ AssertFsmHold \/ DropFsmHold
    BY <2>4, HostTickTypeOK, FsmHoldTypeOK
  <2>5. CASE UNCHANGED vars
    BY <2>5, StutterTypeOK
  <2> HIDE DEF TypeOK
  <2> QED BY <2>1, <2>2, <2>3, <2>4, <2>5 DEF Next
<1> QED BY <1>1, InitTypeOK, PTL DEF Spec

-----------------------------------------------------------------------------
(* Who is connected.                                                       *)

Announces(u) == \E i \in DOMAIN u : u[i].op = "ready"

\* A slot whose departure is about to be seen has no occupant; a client without
\* a connection asks nothing and is nowhere; an announce is on the way until
\* the host's gate opens.
LinkInv ==
  /\ linked \cap leaving = {}
  /\ \A c \in Clients \ linked :
       claim[c] = None /\ screen[c] = None /\ up[c] = <<>> /\ c \notin pinging
  /\ \A c \in announced : ready[c] \/ Announces(up[c])

\* What is put behind an announce, or behind which it is put.
LEMMA ConcatAnnounces ==
  ASSUME NEW u \in Seq(Request), NEW v \in Seq(Request), Announces(u) \/ Announces(v)
  PROVE  Announces(u \o v)
<1>1. CASE Announces(u)
  BY <1>1 DEF Announces
<1>2. CASE Announces(v)
  <2>1. PICK i \in DOMAIN v : v[i].op = "ready"
    BY <1>2 DEF Announces
  <2>2. i + Len(u) \in DOMAIN (u \o v) /\ (u \o v)[i + Len(u)] = v[i]
    BY <2>1
  <2> QED BY <2>1, <2>2 DEF Announces
<1> QED BY <1>1, <1>2

LEMMA AppendAnnounces ==
  ASSUME NEW u \in Seq(Request), NEW q \in Request, Announces(u) \/ q.op = "ready"
  PROVE  Announces(Append(u, q))
<1>1. CASE Announces(u)
  BY <1>1 DEF Announces
<1>2. CASE q.op = "ready"
  <2>1. Len(u) + 1 \in DOMAIN Append(u, q) /\ Append(u, q)[Len(u) + 1] = q
    OBVIOUS
  <2> QED BY <1>2, <2>1 DEF Announces
<1> QED BY <1>1, <1>2

LEMMA TailAnnounces ==
  ASSUME NEW u \in Seq(Request), u # <<>>, Announces(u), Head(u).op # "ready"
  PROVE  Announces(Tail(u))
<1>1. PICK i \in DOMAIN u : u[i].op = "ready"
  BY DEF Announces
<1>2. i # 1
  BY <1>1
<1>3. i - 1 \in DOMAIN Tail(u) /\ Tail(u)[i - 1] = u[i]
  BY <1>1, <1>2
<1> QED BY <1>1, <1>3 DEF Announces

LEMMA ConcatAssociative ==
  ASSUME NEW T, NEW u \in Seq(T), NEW v \in Seq(T), NEW t \in Seq(T)
  PROVE  v \o t \in Seq(T) /\ u \o v \o t = u \o (v \o t)
OBVIOUS

\* A step that takes no announce from a queue and nobody's connection.
LEMMA LinkKept ==
  ASSUME TypeOK, LinkInv, UNCHANGED <<linked, leaving, announced, ready>>,
         \A c \in announced : Announces(up[c]) => Announces(up'[c]),
         \A c \in Clients \ linked :
           /\ up'[c] = up[c] /\ claim'[c] = claim[c] /\ screen'[c] = screen[c]
           /\ c \in pinging' => c \in pinging
  PROVE  LinkInv'
<1>1. (linked \cap leaving = {})'
  BY DEF LinkInv
<1>2. ASSUME NEW c \in Clients \ linked
      PROVE  claim'[c] = None /\ screen'[c] = None /\ up'[c] = <<>> /\ c \notin pinging'
  BY <1>2 DEF LinkInv
<1>3. ASSUME NEW c \in announced PROVE ready'[c] \/ Announces(up'[c])
  BY <1>3 DEF LinkInv
<1> QED BY <1>1, <1>2, <1>3 DEF LinkInv

LEMMA PlayerLink ==
  ASSUME TypeOK, LinkInv, NEW p \in Players, PlayerStep(p)
  PROVE  LinkInv'
<1>1. CASE \E d \in Devices : Enter(p, d)
  BY <1>1, LinkKept, PlayersAssumption DEF Enter, linkVars, pingVars, TypeOK
<1>2. CASE Exit(p)
  BY <1>2, LinkKept, PlayersAssumption DEF Exit, linkVars, pingVars, TypeOK, LinkInv
<1>3. ASSUME NEW op \in {"pingOn", "pingOff"}, PingEdge(p, op), p \in Clients => p \in linked,
             pinging' \subseteq pinging \cup {p}
      PROVE  LinkInv'
  <2>1. CASE p = Host
    BY <1>3, <2>1, LinkKept, PlayersAssumption DEF PingEdge, linkVars, devVars, TypeOK
  <2>2. CASE p # Host
    <3>1. p \in linked /\ up' = [up EXCEPT ![p] = Append(@, Ask(op, None))]
      BY <1>3, <2>2 DEF PingEdge, Players
    <3>2. Announces(up[p]) => Announces(up'[p])
      BY <3>1, VerdictTypes, AppendAnnounces DEF TypeOK
    <3>3. \A c \in announced : Announces(up[c]) => Announces(up'[c])
      BY <3>1, <3>2 DEF TypeOK
    <3>4. \A c \in Clients \ linked : up'[c] = up[c]
      BY <3>1 DEF TypeOK
    <3> QED BY <1>3, <3>1, <3>3, <3>4, LinkKept DEF PingEdge, linkVars, devVars
  <2> QED BY <2>1, <2>2
<1>4. CASE StartPing(p)
  <2>1. p \in Clients => p \in linked
    BY <1>4, PlayersAssumption DEF StartPing, LinkInv
  <2> QED BY <1>4, <1>3, <2>1 DEF StartPing
<1>5. CASE EndPing(p)
  <2>1. p \in Clients => p \in linked
    BY <1>5 DEF EndPing, LinkInv
  <2> QED BY <1>5, <1>3, <2>1 DEF EndPing
<1> QED BY <1>1, <1>2, <1>4, <1>5 DEF PlayerStep

LEMMA ClientTickLink ==
  ASSUME TypeOK, LinkInv, NEW c \in Clients, ClientTick(c)
  PROVE  LinkInv'
<1> DEFINE w == screen[c]
           releases == IF claim[c] = None THEN <<>> ELSE <<Ask("release", claim[c])>>
<1>1. releases \in Seq(Request) /\ ClaimOf(w) \in Seq(Request) /\ up[c] \in Seq(Request)
  BY VerdictTypes DEF TypeOK, Players, Keys, ClaimOf
<1>2. \E v \in Seq(Request) : up' = [up EXCEPT ![c] = @ \o v]
  <2>1. CASE w # None /\ BusyByOther(c, w)
    BY <1>1, <2>1 DEF ClientTick
  <2>2. CASE ~(w # None /\ BusyByOther(c, w))
    <3>1. up' = [up EXCEPT ![c] = @ \o releases \o ClaimOf(w)]
      BY <2>2 DEF ClientTick
    <3>2. /\ releases \o ClaimOf(w) \in Seq(Request)
          /\ up[c] \o releases \o ClaimOf(w) = up[c] \o (releases \o ClaimOf(w))
      <4> DEFINE a == up[c]
                 e == ClaimOf(w)
      <4>1. a \in Seq(Request) /\ releases \in Seq(Request) /\ e \in Seq(Request)
        BY <1>1
      <4> HIDE DEF a, releases, e
      <4>2. releases \o e \in Seq(Request) /\ a \o releases \o e = a \o (releases \o e)
        BY <4>1, ConcatAssociative
      <4> QED BY <4>2 DEF a, e
    <3> QED BY <3>1, <3>2 DEF TypeOK
  <2> QED BY <2>1, <2>2
<1>3. PICK v \in Seq(Request) : up' = [up EXCEPT ![c] = @ \o v]
  BY <1>2
<1>4. Announces(up[c]) => Announces(up'[c])
  BY <1>1, <1>3, ConcatAnnounces DEF TypeOK
<1>5. \A b \in announced : Announces(up[b]) => Announces(up'[b])
  BY <1>3, <1>4 DEF TypeOK
<1>6. \A b \in Clients \ linked :
        up'[b] = up[b] /\ claim'[b] = claim[b] /\ screen'[b] = screen[b]
  BY <1>3 DEF ClientTick, ForceExitLocal, TypeOK, Players
<1>7. UNCHANGED <<pinging, linked, leaving, announced, ready>>
  BY DEF ClientTick, linkVars, pingVars
<1> QED BY <1>5, <1>6, <1>7, LinkKept

LEMMA HostLink ==
  ASSUME TypeOK, LinkInv, HostTick \/ AssertFsmHold \/ DropFsmHold \/ DisconnectAll
  PROVE  LinkInv'
<1>1. \A c \in Clients : claim'[c] = claim[c] /\ screen'[c] = screen[c]
  BY PlayersAssumption
     DEF HostTick, ForceExitLocal, AssertFsmHold, DropFsmHold, DisconnectAll, TypeOK, Players
<1>2. UNCHANGED <<up, pinging, linked, leaving, announced, ready>>
  BY DEF HostTick, AssertFsmHold, DropFsmHold, DisconnectAll, linkVars
<1> QED BY <1>1, <1>2, LinkKept

\* Taking a request other than the announce.
LEMMA TakeLink ==
  ASSUME TypeOK, LinkInv, NEW c \in Clients, NEW op \in {"claim", "release", "pingOn", "pingOff"},
         Take(c, op), UNCHANGED <<linked, leaving, announced, ready, claim, screen, pinging>>
  PROVE  LinkInv'
<1>1. up[c] \in Seq(Request) /\ up[c] # <<>> /\ Head(up[c]).op # "ready"
  BY DEF Take, TypeOK
<1>2. up' = [up EXCEPT ![c] = Tail(@)] /\ c \in linked
  BY <1>1 DEF Take, LinkInv
<1>3. Announces(up[c]) => Announces(Tail(up[c]))
  BY <1>1, TailAnnounces
<1>4. \A b \in announced : Announces(up[b]) => Announces(up'[b])
  BY <1>2, <1>3 DEF TypeOK
<1> QED BY <1>2, <1>4 DEF LinkInv, TypeOK

LEMMA HostStepLink ==
  ASSUME TypeOK, LinkInv, NEW c \in Clients, HostStep(c)
  PROVE  LinkInv'
<1>1. CASE OnClaim(c)
  BY <1>1, TakeLink DEF OnClaim, linkVars
<1>2. CASE OnRelease(c)
  BY <1>2, TakeLink DEF OnRelease, linkVars, pingVars
<1>3. CASE OnPing(c)
  BY <1>3, TakeLink DEF OnPing, linkVars, devVars
<1>4. CASE OnWorldReady(c)
  <2>1. /\ up[c] # <<>> /\ up' = [up EXCEPT ![c] = Tail(@)]
        /\ ready' = [ready EXCEPT ![c] = TRUE]
        /\ UNCHANGED <<linked, leaving, announced, claim, screen, pinging>>
    BY <1>4 DEF OnWorldReady, Take, devVars
  <2> QED BY <2>1 DEF LinkInv, TypeOK
<1>5. CASE DisconnectSlot(c)
  <2>1. c \notin linked /\ c \notin announced
    BY <1>5 DEF DisconnectSlot, LinkInv, TypeOK
  <2> QED BY <1>5, <2>1 DEF DisconnectSlot, LinkInv, TypeOK
<1> QED BY <1>1, <1>2, <1>3, <1>4, <1>5 DEF HostStep

LEMMA ClientStepLink ==
  ASSUME TypeOK, LinkInv, NEW c \in Clients, ClientStep(c)
  PROVE  LinkInv'
<1>1. CASE ClientTick(c)
  BY <1>1, ClientTickLink
<1>2. CASE OnVerdict(c)
  <2>1. UNCHANGED <<up, pinging, linked, leaving, announced, ready>>
    BY <1>2 DEF OnVerdict, pingVars, linkVars
  <2>2. \A b \in Clients \ linked : claim'[b] = claim[b] /\ screen'[b] = screen[b]
    <3>1. CASE ForceExitLocal(c) \/ ForgetClaim(c)
      BY <3>1 DEF ForceExitLocal, ForgetClaim, LinkInv, TypeOK, Players
    <3> QED BY <1>2, <3>1 DEF OnVerdict
  <2> QED BY <2>1, <2>2, LinkKept
<1>3. CASE Join(c)
  BY <1>3 DEF Join, LinkInv, devVars, pingVars
<1>4. CASE Announce(c)
  <2>1. Announces(up'[c]) /\ up' = [up EXCEPT ![c] = Append(@, Ask("ready", None))]
    BY <1>4, VerdictTypes, AppendAnnounces DEF Announce, TypeOK, Ask
  <2>2. \A b \in Clients : b # c => up'[b] = up[b]
    BY <2>1 DEF TypeOK
  <2> QED BY <1>4, <2>1, <2>2 DEF Announce, LinkInv, TypeOK, devVars, pingVars
<1>5. CASE Leave(c)
  BY <1>5 DEF Leave, LinkInv, TypeOK, Players
<1>6. CASE OnRowEnd(c)
  BY <1>6, LinkKept DEF OnRowEnd, pingVars, linkVars
<1> QED BY <1>1, <1>2, <1>3, <1>4, <1>5, <1>6 DEF ClientStep

LEMMA LinkInvariant == Spec => []LinkInv
<1>1. Init => LinkInv
  BY PlayersAssumption DEF Init, LinkInv, Players
<1>2. TypeOK /\ LinkInv /\ [Next]_vars => LinkInv'
  <2> SUFFICES ASSUME TypeOK, LinkInv, [Next]_vars PROVE LinkInv'
    OBVIOUS
  <2>1. CASE UNCHANGED vars
    BY <2>1 DEF LinkInv, vars, devVars, pingVars, linkVars
  <2> QED BY <2>1, PlayerLink, HostLink, HostStepLink, ClientStepLink DEF Next
<1> QED BY <1>1, <1>2, TypeCorrect, PTL DEF Spec

-----------------------------------------------------------------------------
(* Whom the host's table names.                                            *)

\* A client at the desk by its ping is here as well as one by its claim.
HolderInv ==
  /\ HolderIsHere
  /\ pinger \in Clients => pinger \in linked \cup leaving

\* A client the host hears from is connected.
LEMMA TakerLinked ==
  ASSUME LinkInv, NEW c \in Clients, NEW op, Take(c, op)
  PROVE  c \in linked
BY DEF LinkInv, Take

LEMMA HolderStep == TypeOK /\ LinkInv /\ HolderInv /\ [Next]_vars => HolderInv'
<1> SUFFICES ASSUME TypeOK, LinkInv, HolderInv, [Next]_vars PROVE HolderInv'
  OBVIOUS
<1> USE DEF HolderInv, HolderIsHere
<1>1. ASSUME NEW p \in Players, PlayerStep(p) PROVE HolderInv'
  BY <1>1, PlayersAssumption
     DEF PlayerStep, Enter, Exit, StartPing, EndPing, PingEdge, Attributed, linkVars, pingVars,
         devVars
<1>2. CASE HostTick
  BY <1>2, PlayersAssumption DEF HostTick, Erase, TypeOK, linkVars
<1>3. CASE AssertFsmHold \/ DropFsmHold \/ DisconnectAll
  BY <1>3, PlayersAssumption
     DEF AssertFsmHold, DropFsmHold, DisconnectAll, Erase, TypeOK, linkVars
<1>4. ASSUME NEW c \in Clients, HostStep(c) PROVE HolderInv'
  <2>1. CASE OnClaim(c)
    BY <2>1, TakerLinked DEF OnClaim, Grant, Deny, TypeOK, linkVars
  <2>2. CASE OnRelease(c)
    BY <2>2, PlayersAssumption DEF OnRelease, Erase, TypeOK, linkVars, pingVars
  <2>3. CASE OnPing(c)
    <3>1. c \in linked
      BY <2>3, TakerLinked DEF OnPing
    <3> QED BY <2>3, <3>1, PlayersAssumption DEF OnPing, Attributed, linkVars, devVars
  <2>4. CASE OnWorldReady(c)
    BY <2>4, PlayersAssumption DEF OnWorldReady, devVars
  <2>5. CASE DisconnectSlot(c)
    BY <2>5, PlayersAssumption DEF DisconnectSlot, DropClaims, DropPing, TypeOK
  <2> QED BY <1>4, <2>1, <2>2, <2>3, <2>4, <2>5 DEF HostStep
<1>5. ASSUME NEW c \in Clients, ClientStep(c) PROVE HolderInv'
  <2>1. CASE ClientTick(c) \/ OnVerdict(c) \/ OnRowEnd(c)
    BY <2>1 DEF ClientTick, OnVerdict, OnRowEnd, linkVars, pingVars
  <2>2. CASE Join(c) \/ Announce(c) \/ Leave(c)
    BY <2>2 DEF Join, Announce, Leave, devVars, pingVars
  <2> QED BY <1>5, <2>1, <2>2 DEF ClientStep
<1>6. CASE UNCHANGED vars
  BY <1>6 DEF vars, devVars, pingVars, linkVars
<1> QED BY <1>1, <1>2, <1>3, <1>4, <1>5, <1>6 DEF Next

\* No device stays with a slot that nobody is in, whatever ping, claim or
\* departure comes first (OnDisconnectForSlot, OnPeerLeft, ReconcileDeskFsmHold).
THEOREM HoldersAreHere == Spec => []HolderIsHere
<1>1. Init => HolderInv
  BY PlayersAssumption DEF Init, HolderInv, HolderIsHere
<1>2. HolderInv => HolderIsHere
  BY DEF HolderInv
<1> QED BY <1>1, <1>2, TypeCorrect, LinkInvariant, HolderStep, PTL DEF Spec

-----------------------------------------------------------------------------
(* What becomes of a claim.                                                *)

Releases(u, d) == \E i \in DOMAIN u : u[i] = Ask("release", d)

\* The queue u holds a claim of d that no release follows, and that is read
\* when the host's gate is open (r: it is open now).
Claims(u, r, d) ==
  \E i \in DOMAIN u :
    /\ u[i] = Ask("claim", d)
    /\ r \/ \E j \in DOMAIN u : j < i /\ u[j].op = "ready"
    /\ \A k \in DOMAIN u : k > i => u[k] # Ask("release", d)

\* The queue v holds the news that d is another's.
Tells(v, c, d) == \E i \in DOMAIN v : v[i].dev = d /\ v[i].busy /\ v[i].slot # c

\* The entry is the player's own, and no ping's end will take it away.
HeldBy(p, d) == table[d] = p /\ ~(d = Desk /\ fsmHold)

HostStands == claim[Host] # None => HeldBy(Host, claim[Host])

\* ClaimIsAccounted is not inductive: a release on the way may follow the claim
\* that the entry stands for, the end of a ping may erase it, and the news may
\* be kept back by the gate.
Stands(c) ==
  claim[c] # None /\ c \notin early =>
    \/ HeldBy(c, claim[c]) /\ ~Releases(up[c], claim[c])
    \/ Claims(up[c], ready[c], claim[c])
    \/ Tells(down[c], c, claim[c])

ClaimInv == HostStands /\ \A c \in Clients : Stands(c)

LEMMA ClaimInvAccounts == ClaimInv => ClaimIsAccounted
<1> SUFFICES ASSUME ClaimInv PROVE ClaimIsAccounted
  OBVIOUS
<1>1. claim[Host] # None => table[claim[Host]] = Host
  BY DEF ClaimInv, HostStands, HeldBy
<1>2. ASSUME NEW c \in Clients \ early, claim[c] # None
      PROVE  table[claim[c]] = c \/ AskedFor(c, claim[c]) \/ ToldLost(c, claim[c])
  BY <1>2 DEF ClaimInv, Stands, HeldBy, Claims, Tells, AskedFor, ToldLost
<1> QED BY <1>1, <1>2 DEF ClaimIsAccounted

\* Queues ------------------------------------------------------------------

\* A request put behind the others, unless it is a release of the device.
LEMMA AppendClaims ==
  ASSUME NEW u \in Seq(Request), NEW q \in Request, NEW d, NEW r, q # Ask("release", d)
  PROVE  /\ Claims(u, r, d) => Claims(Append(u, q), r, d)
         /\ Releases(Append(u, q), d) => Releases(u, d)
<1> DEFINE n == Append(u, q)
<1>1. /\ DOMAIN n = 1..(Len(u) + 1) /\ DOMAIN u = 1..Len(u)
      /\ n[Len(u) + 1] = q
      /\ \A i \in DOMAIN u : n[i] = u[i]
  OBVIOUS
<1> HIDE DEF n
<1>2. Claims(u, r, d) => Claims(n, r, d)
  BY <1>1 DEF Claims
<1>3. Releases(n, d) => Releases(u, d)
  BY <1>1 DEF Releases
<1> QED BY <1>2, <1>3 DEF n

\* A claim put last, behind the announce or with the gate open.
LEMMA LastClaims ==
  ASSUME NEW u \in Seq(Request), NEW v \in Seq(Request), NEW d \in Devices, NEW r,
         r \/ Announces(u)
  PROVE  Claims(u \o v \o <<Ask("claim", d)>>, r, d)
<1> DEFINE n == u \o v \o <<Ask("claim", d)>>
           z == Len(u) + Len(v) + 1
<1>1. /\ DOMAIN n = 1..z /\ n[z] = Ask("claim", d) /\ DOMAIN u = 1..Len(u)
      /\ \A i \in DOMAIN u : n[i] = u[i] /\ i < z
  BY VerdictTypes
<1>2. z \in DOMAIN n /\ \A k \in DOMAIN n : ~(k > z)
  BY <1>1
<1> HIDE DEF n, z
<1>3. r \/ \E j \in DOMAIN n : j < z /\ n[j].op = "ready"
  <2>1. CASE Announces(u)
    <3>1. PICK j \in DOMAIN u : u[j].op = "ready"
      BY <2>1 DEF Announces
    <3>2. j \in DOMAIN n /\ j < z /\ n[j].op = "ready"
      BY <1>1, <1>2, <3>1
    <3> QED BY <3>2
  <2> QED BY <2>1
<1>4. Claims(n, r, d)
  BY <1>1, <1>2, <1>3 DEF Claims
<1> QED BY <1>4 DEF n

\* The first request is taken: a claim that stood behind others still stands.
LEMMA TailClaims ==
  ASSUME NEW u \in Seq(Request), u # <<>>, NEW d, NEW r \in BOOLEAN,
         NEW t \in BOOLEAN, t <=> r \/ Head(u).op = "ready"
  PROVE  /\ Releases(Tail(u), d) => Releases(u, d)
         /\ Claims(u, r, d) =>
              \/ Claims(Tail(u), t, d)
              \/ Head(u) = Ask("claim", d) /\ r /\ ~Releases(Tail(u), d)
<1> DEFINE n == Tail(u)
<1>1. /\ DOMAIN u = 1..Len(u) /\ DOMAIN n = 1..(Len(u) - 1) /\ Len(u) \in Nat
      /\ \A i \in DOMAIN n : n[i] = u[i + 1] /\ i + 1 \in DOMAIN u
      /\ Head(u) = u[1]
  OBVIOUS
<1> HIDE DEF n
<1>2. Releases(n, d) => Releases(u, d)
  BY <1>1 DEF Releases
<1>3. ASSUME Claims(u, r, d)
      PROVE  \/ Claims(n, t, d)
             \/ Head(u) = Ask("claim", d) /\ r /\ ~Releases(n, d)
  <2>1. PICK i \in DOMAIN u :
          /\ u[i] = Ask("claim", d)
          /\ r \/ \E j \in DOMAIN u : j < i /\ u[j].op = "ready"
          /\ \A k \in DOMAIN u : k > i => u[k] # Ask("release", d)
    BY <1>3 DEF Claims
  <2>2. CASE i = 1
    <3>1. Head(u) = Ask("claim", d) /\ r
      BY <1>1, <2>1, <2>2
    <3>2. ~Releases(n, d)
      BY <1>1, <2>1, <2>2 DEF Releases
    <3> QED BY <3>1, <3>2
  <2>3. CASE i # 1
    <3>1. i - 1 \in DOMAIN n /\ n[i - 1] = Ask("claim", d)
      BY <1>1, <2>1, <2>3
    <3>2. \A k \in DOMAIN n : k > i - 1 => n[k] # Ask("release", d)
      BY <1>1, <2>1
    <3>3. t \/ \E j \in DOMAIN n : j < i - 1 /\ n[j].op = "ready"
      <4>1. ASSUME NEW j \in DOMAIN u, j < i, u[j].op = "ready", j # 1
            PROVE  j - 1 \in DOMAIN n /\ j - 1 < i - 1 /\ n[j - 1].op = "ready"
        BY <1>1, <4>1
      <4> QED BY <1>1, <2>1, <4>1
    <3> QED BY <3>1, <3>2, <3>3 DEF Claims
  <2> QED BY <2>2, <2>3
<1> QED BY <1>2, <1>3 DEF n

LEMMA AppendTells ==
  ASSUME NEW v \in Seq(Verdict), NEW m \in Verdict, NEW c, NEW d,
         Tells(v, c, d) \/ (m.dev = d /\ m.busy /\ m.slot # c)
  PROVE  Tells(Append(v, m), c, d)
<1> DEFINE n == Append(v, m)
<1>1. /\ DOMAIN n = 1..(Len(v) + 1) /\ n[Len(v) + 1] = m
      /\ DOMAIN v \subseteq DOMAIN n /\ \A i \in DOMAIN v : n[i] = v[i]
      /\ Len(v) + 1 \in DOMAIN n
  OBVIOUS
<1> HIDE DEF n
<1>2. Tells(n, c, d)
  BY <1>1 DEF Tells
<1> QED BY <1>2 DEF n

LEMMA ConcatTells ==
  ASSUME NEW v \in Seq(Verdict), NEW m \in Seq(Verdict), NEW c, NEW d, Tells(v, c, d)
  PROVE  Tells(v \o m, c, d)
BY DEF Tells

LEMMA TailTells ==
  ASSUME NEW v \in Seq(Verdict), v # <<>>, NEW c, NEW d, Tells(v, c, d)
  PROVE  \/ Tells(Tail(v), c, d)
         \/ Head(v).dev = d /\ Head(v).busy /\ Head(v).slot # c
<1>1. PICK i \in DOMAIN v : v[i].dev = d /\ v[i].busy /\ v[i].slot # c
  BY DEF Tells
<1>2. CASE i = 1
  BY <1>1, <1>2
<1>3. CASE i # 1
  <2>1. i - 1 \in DOMAIN Tail(v) /\ Tail(v)[i - 1] = v[i]
    BY <1>1, <1>3
  <2> QED BY <1>1, <2>1 DEF Tells
<1> QED BY <1>2, <1>3

LEMMA ToAllTells ==
  ASSUME TypeOK, NEW msgs \in Seq(Verdict), NEW b \in Clients, NEW d, Tells(down[b], b, d)
  PROVE  Tells(ToAll(msgs)[b], b, d)
BY ConcatTells DEF ToAll, TypeOK

LEMMA PulsedTells ==
  ASSUME NEW lanes \in [Clients -> Seq(Verdict)], NEW c \in Clients,
         NEW b \in Clients, NEW d, Tells(lanes[b], b, d)
  PROVE  Tells(Pulsed(lanes, c)[b], b, d)
<1>1. RowEnd(c) \in Verdict /\ lanes[b] \in Seq(Verdict)
  BY VerdictTypes
<1> QED BY <1>1, AppendTells DEF Pulsed

\* Steps -------------------------------------------------------------------

\* A client whose claim, queue and gate are left alone, and whose entry and
\* news are not taken away.
LEMMA StandsKept ==
  ASSUME NEW c \in Clients, Stands(c),
         claim'[c] = claim[c], up'[c] = up[c], ready'[c] = ready[c], c \in early => c \in early',
         claim[c] # None /\ HeldBy(c, claim[c]) => HeldBy(c, claim[c])',
         claim[c] # None /\ Tells(down[c], c, claim[c]) => Tells(down'[c], c, claim[c])
  PROVE  Stands(c)'
BY DEF Stands

LEMMA PlayerClaims ==
  ASSUME TypeOK, ClaimInv, NEW p \in Players, PlayerStep(p)
  PROVE  ClaimInv'
<1>1. UNCHANGED <<claim, early, table, fsmHold, ready, down>>
  BY DEF PlayerStep, Enter, Exit, StartPing, EndPing, PingEdge, pingVars, linkVars, devVars
<1>2. HostStands'
  BY <1>1 DEF ClaimInv, HostStands, HeldBy
<1>3. ASSUME NEW c \in Clients PROVE Stands(c)'
  <2>1. CASE up'[c] = up[c]
    BY <1>1, <2>1, StandsKept DEF ClaimInv, HeldBy
  <2>2. CASE \E op \in {"pingOn", "pingOff"} : up'[c] = Append(up[c], Ask(op, None))
    <3>1. PICK op \in {"pingOn", "pingOff"} : up'[c] = Append(up[c], Ask(op, None))
      BY <2>2
    <3>2. Ask(op, None) # Ask("release", claim[c]) /\ up[c] \in Seq(Request)
      BY DEF Ask, TypeOK
    <3>3. /\ Claims(up[c], ready[c], claim[c]) => Claims(up'[c], ready[c], claim[c])
          /\ Releases(up'[c], claim[c]) => Releases(up[c], claim[c])
      BY <3>1, <3>2, VerdictTypes, AppendClaims
    <3> QED BY <1>1, <3>3 DEF ClaimInv, Stands, HeldBy
  <2>3. up'[c] = up[c] \/ \E op \in {"pingOn", "pingOff"} : up'[c] = Append(up[c], Ask(op, None))
    <3>1. CASE UNCHANGED up
      BY <3>1
    <3>2. ASSUME NEW op \in {"pingOn", "pingOff"}, PingEdge(p, op)
          PROVE  up'[c] = up[c] \/ up'[c] = Append(up[c], Ask(op, None))
      BY <3>2 DEF PingEdge, TypeOK
    <3> QED BY <3>1, <3>2 DEF PlayerStep, Enter, Exit, StartPing, EndPing
  <2> QED BY <2>1, <2>2, <2>3
<1> QED BY <1>2, <1>3 DEF ClaimInv

LEMMA HostTickClaims ==
  ASSUME TypeOK, ClaimInv, HostTick
  PROVE  ClaimInv'
<1> DEFINE w == screen[Host]
           old == claim[Host]
           releases == IF old = None THEN <<>> ELSE <<Freed(old, Host)>>
           grants == IF w = None THEN <<>> ELSE <<Busy(w, Host)>>
<1>1. w \in Keys /\ old \in Keys /\ Host \in Players
  BY DEF TypeOK, Players
<1>2. releases \in Seq(Verdict) /\ releases \o grants \in Seq(Verdict)
  BY <1>1, VerdictTypes DEF Keys
<1>3. old # None => table[old] = Host
  BY DEF ClaimInv, HostStands, HeldBy
<1>4. HostStands'
  <2>1. CASE ForceExitLocal(Host)
    BY <1>1, <2>1 DEF ForceExitLocal, HostStands, TypeOK
  <2>2. CASE ~ForceExitLocal(Host)
    <3>1. /\ claim' = [claim EXCEPT ![Host] = w]
          /\ table' = IF w = None THEN Erase(old) ELSE [Erase(old) EXCEPT ![w] = Host]
          /\ fsmHold' = (fsmHold /\ w # Desk)
      BY <2>2 DEF HostTick
    <3>2. claim'[Host] = w /\ (w # None => table'[w] = Host)
      BY <1>1, <3>1, EraseType DEF TypeOK, Keys
    <3> QED BY <3>1, <3>2 DEF HostStands, HeldBy
  <2> QED BY <2>1, <2>2
<1>5. ASSUME NEW c \in Clients PROVE Stands(c)'
  <2>1. claim'[c] = claim[c] /\ UNCHANGED <<up, ready, early>>
    BY PlayersAssumption DEF HostTick, ForceExitLocal, linkVars, TypeOK, Players
  <2>2. ASSUME NEW d \in Devices, HeldBy(c, d) PROVE HeldBy(c, d)'
    <3>1. table[d] = c /\ c # Host /\ c # None /\ Erase(old)[d] = c
      BY <1>3, <2>2, PlayersAssumption DEF HeldBy, Erase, TypeOK
    <3>2. table'[d] = c
      BY <1>1, <3>1, EraseType DEF HostTick, Keys
    <3> QED BY <2>2, <3>2 DEF HeldBy, HostTick
  <2>3. claim[c] \in Keys
    BY DEF TypeOK, Players
  <2>4. ASSUME NEW d, Tells(down[c], c, d) PROVE Tells(down'[c], c, d)
    BY <1>2, <2>4, ToAllTells DEF HostTick
  <2> QED BY <2>1, <2>2, <2>3, <2>4, StandsKept DEF ClaimInv, Keys
<1> QED BY <1>4, <1>5 DEF ClaimInv

LEMMA FsmHoldClaims ==
  ASSUME TypeOK, ClaimInv, AssertFsmHold \/ DropFsmHold
  PROVE  ClaimInv'
<1>1. UNCHANGED <<claim, early, up, ready>>
  BY DEF AssertFsmHold, DropFsmHold, linkVars
<1>2. ASSUME NEW p \in Players, NEW d \in Devices, HeldBy(p, d) PROVE HeldBy(p, d)'
  <2>1. p # None
    BY PlayersAssumption DEF Players
  <2>2. d # Desk
    BY <1>2, <2>1 DEF AssertFsmHold, DropFsmHold, HeldBy
  <2>3. table'[d] = table[d]
    BY <2>2 DEF AssertFsmHold, DropFsmHold, Erase, TypeOK
  <2> QED BY <1>2, <2>2, <2>3 DEF HeldBy
<1>3. HostStands'
  <2>1. Host \in Players /\ claim[Host] \in Keys
    BY DEF Players, TypeOK
  <2> QED BY <1>1, <1>2, <2>1 DEF ClaimInv, HostStands, Keys
<1>4. ASSUME NEW c \in Clients PROVE Stands(c)'
  <2>1. c \in Players /\ claim[c] \in Keys
    BY DEF Players, TypeOK
  <2>2. ASSUME NEW d, Tells(down[c], c, d) PROVE Tells(down'[c], c, d)
    <3>1. CASE AssertFsmHold
      <4>1. pinger \in Players
        BY <3>1 DEF AssertFsmHold, TypeOK, Slots
      <4>2. <<Busy(Desk, pinger)>> \in Seq(Verdict)
        BY <4>1, VerdictTypes, PlayersAssumption
      <4> QED BY <2>2, <3>1, <4>2, ToAllTells DEF AssertFsmHold
    <3>2. CASE DropFsmHold
      <4>1. FreedIfHeld(Desk) \in Seq(Verdict)
        BY VerdictTypes, PlayersAssumption DEF FreedIfHeld, TypeOK, Slots
      <4> QED BY <2>2, <3>2, <4>1, ToAllTells DEF DropFsmHold
    <3> QED BY <3>1, <3>2
  <2> QED BY <1>1, <1>2, <2>1, <2>2, StandsKept DEF ClaimInv, Keys
<1> QED BY <1>3, <1>4 DEF ClaimInv

LEMMA DisconnectAllClaims ==
  ASSUME TypeOK, LinkInv, ClaimInv, DisconnectAll
  PROVE  ClaimInv'
<1>1. claim'[Host] = None
  BY DEF DisconnectAll, TypeOK, Players
<1>2. ASSUME NEW c \in Clients PROVE claim'[c] = None
  BY PlayersAssumption DEF DisconnectAll, LinkInv, TypeOK, Players
<1> QED BY <1>1, <1>2 DEF ClaimInv, HostStands, Stands

LEMMA ClientTickClaims ==
  ASSUME TypeOK, LinkInv, ClaimInv, NEW c \in Clients, ClientTick(c)
  PROVE  ClaimInv'
<1> DEFINE w == screen[c]
           releases == IF claim[c] = None THEN <<>> ELSE <<Ask("release", claim[c])>>
<1>1. /\ UNCHANGED <<table, fsmHold, ready, announced, down>>
      /\ \A b \in Players : b # c => claim'[b] = claim[b]
      /\ \A b \in Clients : b # c => up'[b] = up[b]
      /\ early' \in {early \cup {c}, early \ {c}}
  BY DEF ClientTick, ForceExitLocal, pingVars, linkVars, TypeOK
<1>2. HostStands'
  BY <1>1, PlayersAssumption DEF ClaimInv, HostStands, HeldBy, Players
<1>3. ASSUME NEW b \in Clients, b # c PROVE Stands(b)'
  BY <1>1, <1>3, StandsKept DEF ClaimInv, HeldBy, Players
<1>4. Stands(c)'
  <2>1. CASE ForceExitLocal(c)
    BY <2>1 DEF ForceExitLocal, Stands, TypeOK, Players
  <2>2. CASE ~ForceExitLocal(c)
    <3>1. /\ claim' = [claim EXCEPT ![c] = w]
          /\ up' = [up EXCEPT ![c] = @ \o releases \o ClaimOf(w)]
          /\ early' = IF w # None /\ c \notin announced THEN early \cup {c} ELSE early \ {c}
      BY <2>2 DEF ClientTick
    <3>2. claim'[c] = w /\ w \in Keys
      BY <3>1 DEF TypeOK, Players
    <3>3. CASE w # None /\ c \in announced
      <4>1. ready[c] \/ Announces(up[c])
        BY <3>3 DEF LinkInv
      <4>2. releases \in Seq(Request) /\ up[c] \in Seq(Request) /\ w \in Devices
        BY <3>2, <3>3, VerdictTypes DEF TypeOK, Players, Keys
      <4>3. up'[c] = up[c] \o releases \o <<Ask("claim", w)>>
        BY <3>1, <3>3 DEF ClaimOf, TypeOK
      <4> HIDE DEF releases, w
      <4>4. Claims(up'[c], ready[c], w)
        BY <4>1, <4>2, <4>3, LastClaims
      <4> QED BY <1>1, <3>2, <4>4 DEF Stands
    <3>4. CASE w = None \/ c \notin announced
      BY <3>1, <3>2, <3>4 DEF Stands
    <3> QED BY <3>3, <3>4
  <2> QED BY <2>1, <2>2
<1> QED BY <1>2, <1>3, <1>4 DEF ClaimInv

LEMMA VerdictClaims ==
  ASSUME TypeOK, ClaimInv, NEW c \in Clients, OnVerdict(c)
  PROVE  ClaimInv'
<1> DEFINE v == Head(down[c])
<1>1. /\ UNCHANGED <<table, fsmHold, ready, up>>
      /\ \A b \in Players : b # c => claim'[b] = claim[b]
      /\ \A b \in Clients : b # c => down'[b] = down[b]
      /\ early' \in {early, early \ {c}}
  BY DEF OnVerdict, ForceExitLocal, ForgetClaim, pingVars, linkVars, TypeOK
<1>2. HostStands'
  BY <1>1, PlayersAssumption DEF ClaimInv, HostStands, HeldBy, Players
<1>3. ASSUME NEW b \in Clients, b # c PROVE Stands(b)'
  BY <1>1, <1>3, StandsKept DEF ClaimInv, HeldBy, Players
<1>4. Stands(c)'
  <2>1. CASE Lost(c, v)
    BY <2>1 DEF OnVerdict, ForceExitLocal, ForgetClaim, Stands, TypeOK, Players
  <2>2. CASE ~Lost(c, v)
    <3>1. UNCHANGED <<claim, early>>
      BY <2>2 DEF OnVerdict
    <3>2. down[c] \in Seq(Verdict) /\ down[c] # <<>> /\ down'[c] = Tail(down[c])
      BY DEF OnVerdict, TypeOK
    <3>3. Tells(down[c], c, claim[c]) => Tells(down'[c], c, claim[c])
      BY <2>2, <3>2, TailTells DEF Lost
    <3> QED BY <1>1, <3>1, <3>3, StandsKept DEF ClaimInv, HeldBy
  <2> QED BY <2>1, <2>2
<1> QED BY <1>2, <1>3, <1>4 DEF ClaimInv

\* The end of a row is no news of a claim.
LEMMA RowEndClaims ==
  ASSUME TypeOK, ClaimInv, NEW c \in Clients, OnRowEnd(c)
  PROVE  ClaimInv'
<1>1. /\ UNCHANGED <<table, fsmHold, ready, up, claim, early>>
      /\ \A b \in Clients : b # c => down'[b] = down[b]
      /\ down[c] \in Seq(Verdict) /\ down[c] # <<>> /\ down'[c] = Tail(down[c])
      /\ Head(down[c]).dev = None
  BY DEF OnRowEnd, pingVars, linkVars, TypeOK
<1>2. HostStands'
  BY <1>1 DEF ClaimInv, HostStands, HeldBy
<1>3. ~Head(down[c]).busy
  <2>1. Head(down[c]) \in Verdict
    BY <1>1
  <2> QED BY <1>1, <2>1, PlayersAssumption DEF Verdict
<1>4. \A b \in Clients : Tells(down[b], b, claim[b]) => Tells(down'[b], b, claim[b])
  BY <1>1, <1>3, TailTells
<1>5. ASSUME NEW b \in Clients PROVE Stands(b)'
  BY <1>1, <1>4, StandsKept DEF ClaimInv, HeldBy
<1> QED BY <1>2, <1>5 DEF ClaimInv

LEMMA ClientStepClaims ==
  ASSUME TypeOK, LinkInv, ClaimInv, NEW c \in Clients, ClientStep(c)
  PROVE  ClaimInv'
<1>1. CASE ClientTick(c)
  BY <1>1, ClientTickClaims
<1>2. CASE OnVerdict(c)
  BY <1>2, VerdictClaims
<1>3. CASE Join(c)
  BY <1>3 DEF Join, ClaimInv, HostStands, HeldBy, Stands, devVars, pingVars
<1>4. CASE Announce(c)
  <2>1. UNCHANGED <<claim, early, table, fsmHold, ready, down>>
    BY <1>4 DEF Announce, devVars, pingVars
  <2>2. ASSUME NEW b \in Clients PROVE Stands(b)'
    <3>1. CASE b # c
      BY <1>4, <2>1, <3>1, StandsKept DEF Announce, ClaimInv, HeldBy, TypeOK
    <3>2. CASE b = c
      <4>1. up'[c] = Append(up[c], Ask("ready", None)) /\ up[c] \in Seq(Request)
        BY <1>4 DEF Announce, TypeOK
      <4>2. Ask("ready", None) # Ask("release", claim[c])
        BY DEF Ask
      <4>3. /\ Claims(up[c], ready[c], claim[c]) => Claims(up'[c], ready[c], claim[c])
            /\ Releases(up'[c], claim[c]) => Releases(up[c], claim[c])
        BY <4>1, <4>2, VerdictTypes, AppendClaims
      <4> QED BY <2>1, <3>2, <4>3 DEF ClaimInv, Stands, HeldBy
    <3> QED BY <3>1, <3>2
  <2> QED BY <2>1, <2>2 DEF ClaimInv, HostStands, HeldBy
<1>5. CASE Leave(c)
  <2>1. /\ UNCHANGED <<table, fsmHold, ready>>
        /\ claim'[c] = None
        /\ \A b \in Players : b # c => claim'[b] = claim[b]
        /\ \A b \in Clients : b # c => up'[b] = up[b] /\ down'[b] = down[b]
        /\ early' = early \ {c}
    BY <1>5 DEF Leave, TypeOK, Players
  <2>2. ASSUME NEW b \in Clients PROVE Stands(b)'
    <3>1. CASE b # c
      BY <2>1, <3>1, StandsKept DEF ClaimInv, HeldBy, Players
    <3> QED BY <2>1, <3>1 DEF Stands
  <2> QED BY <2>1, <2>2, PlayersAssumption DEF ClaimInv, HostStands, HeldBy, Players
<1>6. CASE OnRowEnd(c)
  BY <1>6, RowEndClaims
<1> QED BY <1>1, <1>2, <1>3, <1>4, <1>5, <1>6 DEF ClientStep

\* The request the host takes is its own client's business only.
LEMMA OthersStand ==
  ASSUME TypeOK, ClaimInv, NEW c \in Clients, NEW op, Take(c, op),
         NEW b \in Clients, b # c, UNCHANGED <<claim, early>>, ready'[b] = ready[b],
         claim[b] # None /\ HeldBy(b, claim[b]) => HeldBy(b, claim[b])',
         Tells(down[b], b, claim[b]) => Tells(down'[b], b, claim[b])
  PROVE  Stands(b)'
<1>1. up'[b] = up[b]
  BY DEF Take, TypeOK
<1> QED BY <1>1, StandsKept DEF ClaimInv

\* The client's own claim, when the request taken is not that claim.
LEMMA TakerStands ==
  ASSUME TypeOK, ClaimInv, NEW c \in Clients, NEW op, Take(c, op),
         Head(up[c]) # Ask("claim", claim[c]), UNCHANGED <<claim, early>>,
         ready'[c] = (ready[c] \/ Head(up[c]).op = "ready"),
         claim[c] # None /\ HeldBy(c, claim[c]) /\ ~Releases(up[c], claim[c])
           => HeldBy(c, claim[c])',
         Tells(down[c], c, claim[c]) => Tells(down'[c], c, claim[c])
  PROVE  Stands(c)'
<1>1. /\ up[c] \in Seq(Request) /\ up[c] # <<>> /\ up'[c] = Tail(up[c])
      /\ ready[c] \in BOOLEAN /\ ready'[c] \in BOOLEAN
  BY DEF Take, TypeOK
<1> DEFINE u == up[c]
           t == ready'[c]
<1>2. t <=> ready[c] \/ Head(u).op = "ready"
  OBVIOUS
<1>3. /\ Releases(Tail(u), claim[c]) => Releases(u, claim[c])
      /\ Claims(u, ready[c], claim[c]) => Claims(Tail(u), t, claim[c])
  <2>1. u \in Seq(Request) /\ u # <<>> /\ ready[c] \in BOOLEAN /\ t \in BOOLEAN
        /\ Head(u) # Ask("claim", claim[c])
    BY <1>1
  <2> DEFINE d == claim[c]
  <2>2. /\ Releases(Tail(u), d) => Releases(u, d)
        /\ Claims(u, ready[c], d) =>
             \/ Claims(Tail(u), t, d)
             \/ Head(u) = Ask("claim", d) /\ ready[c] /\ ~Releases(Tail(u), d)
    <3> HIDE DEF u, t, d
    <3> QED BY <1>2, <2>1, TailClaims
  <2> HIDE DEF u, t
  <2> QED BY <2>1, <2>2
<1> QED BY <1>1, <1>3 DEF ClaimInv, Stands

LEMMA OnClaimClaims ==
  ASSUME TypeOK, LinkInv, ClaimInv, NEW c \in Clients, OnClaim(c)
  PROVE  ClaimInv'
<1> DEFINE u == up[c]
<1>0. PICK d \in Devices : Head(u) = Ask("claim", d)
  <2>1. Head(u).dev \in Devices /\ Head(u) \in Request /\ Head(u).op = "claim"
    BY TakeType DEF OnClaim, Take
  <2> QED BY <2>1 DEF Request, Ask
<1>1. /\ Take(c, "claim") /\ Head(u) = Ask("claim", d) /\ Head(u).dev = d
      /\ c \in Players /\ c # None /\ c # Host
  BY <1>0, PlayersAssumption DEF OnClaim, Players, Ask
<1>2. UNCHANGED <<claim, early, ready>>
  BY DEF OnClaim, linkVars
<1>3. CASE table[d] \in {None, c}
  <2>1. /\ table' = [table EXCEPT ![d] = c] /\ fsmHold' = (fsmHold /\ d # Desk)
        /\ down' = ToAll(<<Busy(d, c)>>)
    BY <1>1, <1>3 DEF OnClaim, Grant
  <2>2. ASSUME NEW b \in Clients, NEW e, Tells(down[b], b, e) PROVE Tells(down'[b], b, e)
    <3>1. <<Busy(d, c)>> \in Seq(Verdict)
      BY <1>1, VerdictTypes
    <3> QED BY <2>1, <2>2, <3>1, ToAllTells
  <2>3. ASSUME NEW p \in Players, NEW e \in Devices, HeldBy(p, e)
        PROVE  HeldBy(p, e)'
    <3>1. p # None
      BY PlayersAssumption DEF Players
    <3> QED BY <1>1, <1>3, <2>1, <2>3, <3>1 DEF HeldBy, TypeOK
  <2>4. HeldBy(c, d)'
    BY <1>1, <2>1 DEF HeldBy, TypeOK
  <2>5. \A p \in Players : claim[p] \in Keys
    BY DEF TypeOK
  <2>6. HostStands'
    BY <1>2, <2>3, <2>5 DEF ClaimInv, HostStands, Players, Keys
  <2>7. ASSUME NEW b \in Clients, b # c PROVE Stands(b)'
    BY <1>1, <1>2, <2>2, <2>3, <2>5, <2>7, OthersStand DEF Players, Keys
  <2>8. Stands(c)'
    <3>1. CASE claim[c] = d
      <4>1. u \in Seq(Request) /\ u # <<>> /\ up'[c] = Tail(u) /\ ready[c] \in BOOLEAN
        BY <1>1 DEF Take, TypeOK
      <4>2. /\ Releases(Tail(u), d) => Releases(u, d)
            /\ Claims(u, ready[c], d) =>
                 Claims(Tail(u), ready[c], d) \/ ~Releases(Tail(u), d)
        <5>1. ready[c] <=> ready[c] \/ Head(u).op = "ready"
          BY <1>1, <4>1 DEF Ask
        <5> HIDE DEF u
        <5> QED BY <4>1, <5>1, TailClaims
      <4> QED BY <1>2, <2>2, <2>4, <3>1, <4>1, <4>2 DEF ClaimInv, Stands
    <3>2. CASE claim[c] # d
      <4>1. Head(u) # Ask("claim", claim[c]) /\ Head(u).op # "ready"
        BY <1>1, <3>2 DEF Ask
      <4>2. ready'[c] = (ready[c] \/ Head(up[c]).op = "ready")
        BY <1>2, <4>1 DEF TypeOK
      <4> QED BY <1>1, <1>2, <2>2, <2>3, <2>5, <4>1, <4>2, TakerStands DEF Keys
    <3> QED BY <3>1, <3>2
  <2> QED BY <2>6, <2>7, <2>8 DEF ClaimInv
<1>4. CASE table[d] \notin {None, c}
  <2>1. /\ UNCHANGED <<table, fsmHold>>
        /\ down' = IF Hears(c) THEN [down EXCEPT ![c] = Append(@, Busy(d, table[d]))] ELSE down
    BY <1>1, <1>4 DEF OnClaim, Deny
  <2>2. Busy(d, table[d]) \in Verdict
    BY <1>1, <1>4, VerdictTypes DEF TypeOK, Slots
  <2>3. ASSUME NEW b \in Clients, NEW e, Tells(down[b], b, e) PROVE Tells(down'[b], b, e)
    <3>1. CASE b = c /\ Hears(c)
      <4>1. down'[c] = Append(down[c], Busy(d, table[d])) /\ down[c] \in Seq(Verdict)
        BY <2>1, <3>1 DEF TypeOK
      <4> QED BY <2>2, <2>3, <3>1, <4>1, AppendTells
    <3>2. CASE ~(b = c /\ Hears(c))
      BY <2>1, <2>3, <3>2 DEF TypeOK
    <3> QED BY <3>1, <3>2
  <2>4. HostStands'
    BY <1>2, <2>1 DEF ClaimInv, HostStands, HeldBy
  <2>5. ASSUME NEW b \in Clients, b # c PROVE Stands(b)'
    BY <1>1, <1>2, <2>1, <2>3, <2>5, OthersStand DEF HeldBy
  <2>6. Stands(c)'
    <3>1. CASE claim[c] = d /\ c \notin early
      <4>1. u \in Seq(Request) /\ u # <<>> /\ up'[c] = Tail(u) /\ ready[c] \in BOOLEAN
        BY <1>1 DEF Take, TypeOK
      <4>2. ~HeldBy(c, claim[c]) /\ claim[c] # None
        BY <1>1, <1>4, <3>1, PlayersAssumption DEF HeldBy
      <4>3. CASE Tells(down[c], c, d)
        BY <1>2, <2>3, <3>1, <4>3 DEF Stands
      <4>4. CASE Claims(u, ready[c], d)
        <5>1. ready[c] <=> ready[c] \/ Head(u).op = "ready"
          BY <1>1, <4>1 DEF Ask
        <5>2. Claims(Tail(u), ready[c], d) \/ ready[c]
          <6> HIDE DEF u
          <6> QED BY <4>1, <4>4, <5>1, TailClaims
        <5>3. CASE Claims(Tail(u), ready[c], d)
          BY <1>2, <3>1, <4>1, <5>3 DEF Stands
        <5>4. CASE ready[c]
          <6>1. Hears(c)
            BY <1>1, <5>4, TakerLinked DEF Hears
          <6>2. down'[c] = Append(down[c], Busy(d, table[d])) /\ down[c] \in Seq(Verdict)
            BY <2>1, <6>1 DEF TypeOK
          <6>3. Busy(d, table[d]).dev = d /\ Busy(d, table[d]).busy /\ Busy(d, table[d]).slot # c
            BY <1>4 DEF Busy
          <6>4. Tells(down'[c], c, d)
            BY <2>2, <6>2, <6>3, AppendTells
          <6> QED BY <1>2, <3>1, <6>4 DEF Stands
        <5> QED BY <5>2, <5>3, <5>4
      <4> QED BY <3>1, <4>2, <4>3, <4>4 DEF ClaimInv, Stands
    <3>2. CASE claim[c] # d
      <4>1. Head(u) # Ask("claim", claim[c]) /\ Head(u).op # "ready"
        BY <1>1, <3>2 DEF Ask
      <4>2. ready'[c] = (ready[c] \/ Head(up[c]).op = "ready")
        BY <1>2, <4>1 DEF TypeOK
      <4> QED BY <1>1, <1>2, <2>1, <2>3, <4>1, <4>2, TakerStands DEF HeldBy
    <3>3. CASE c \in early
      BY <1>2, <3>3 DEF Stands
    <3> QED BY <3>1, <3>2, <3>3
  <2> QED BY <2>4, <2>5, <2>6 DEF ClaimInv
<1> QED BY <1>3, <1>4

LEMMA OnReleaseClaims ==
  ASSUME TypeOK, ClaimInv, NEW c \in Clients, OnRelease(c)
  PROVE  ClaimInv'
<1>0. PICK d \in Devices : Head(up[c]) = Ask("release", d)
  <2>1. /\ Head(up[c]).dev \in Devices /\ Head(up[c]) \in Request
        /\ Head(up[c]).op = "release"
    BY TakeType DEF OnRelease, Take
  <2> QED BY <2>1 DEF Request, Ask
<1>1. /\ Take(c, "release") /\ Head(up[c]).dev = d
      /\ c \in Players /\ c # None /\ c # Host /\ d # None
  BY <1>0, PlayersAssumption DEF OnRelease, Players, Ask
<1>2. UNCHANGED <<claim, early, ready, fsmHold>>
  BY DEF OnRelease, linkVars, pingVars
<1>3. \/ table[d] = c /\ table' = Erase(d) /\ down' = ToAll(<<Freed(d, c)>>)
      \/ UNCHANGED <<table, down>>
  BY <1>1 DEF OnRelease
<1>4. ASSUME NEW b \in Clients, NEW e, Tells(down[b], b, e) PROVE Tells(down'[b], b, e)
  <2>1. <<Freed(d, c)>> \in Seq(Verdict)
    BY <1>1, VerdictTypes
  <2> QED BY <1>3, <1>4, <2>1, ToAllTells
<1>5. ASSUME NEW p \in Players, NEW e \in Devices, HeldBy(p, e), p # c \/ e # d
      PROVE  HeldBy(p, e)'
  BY <1>1, <1>2, <1>3, <1>5 DEF HeldBy, Erase, TypeOK
<1>6. \A p \in Players : claim[p] \in Keys
  BY DEF TypeOK
<1>7. HostStands'
  BY <1>1, <1>2, <1>5, <1>6 DEF ClaimInv, HostStands, Players, Keys
<1>8. ASSUME NEW b \in Clients, b # c PROVE Stands(b)'
  BY <1>1, <1>2, <1>4, <1>5, <1>6, <1>8, OthersStand DEF Players, Keys
<1>9. Stands(c)'
  <2>1. Head(up[c]) # Ask("claim", claim[c]) /\ Head(up[c]).op # "ready"
    BY <1>0 DEF Ask
  <2>2. ready'[c] = (ready[c] \/ Head(up[c]).op = "ready")
    BY <1>2, <2>1 DEF TypeOK
  <2>3. Releases(up[c], d)
    <3>1. up[c] \in Seq(Request) /\ up[c] # <<>>
      BY <1>1 DEF Take, TypeOK
    <3>2. 1 \in DOMAIN up[c] /\ up[c][1] = Head(up[c])
      BY <3>1
    <3> QED BY <1>0, <3>2 DEF Releases
  <2> QED BY <1>1, <1>2, <1>4, <1>5, <1>6, <2>1, <2>2, <2>3, TakerStands DEF Keys
<1> QED BY <1>7, <1>8, <1>9 DEF ClaimInv

LEMMA HostStepClaims ==
  ASSUME TypeOK, LinkInv, ClaimInv, NEW c \in Clients, HostStep(c)
  PROVE  ClaimInv'
<1>1. CASE OnClaim(c)
  BY <1>1, OnClaimClaims
<1>2. CASE OnRelease(c)
  BY <1>2, OnReleaseClaims
<1>3. CASE OnPing(c)
  <2>1. PICK op \in {"pingOn", "pingOff"} : Take(c, op)
    BY <1>3 DEF OnPing
  <2>2. UNCHANGED <<claim, early, ready, table, fsmHold, down>>
    BY <1>3 DEF OnPing, devVars, linkVars
  <2>3. Head(up[c]) # Ask("claim", claim[c]) /\ Head(up[c]).op # "ready"
    BY <2>1 DEF Take, Ask
  <2>4. ready'[c] = (ready[c] \/ Head(up[c]).op = "ready")
    BY <2>2, <2>3 DEF TypeOK
  <2>5. Stands(c)'
    BY <2>1, <2>2, <2>3, <2>4, TakerStands DEF HeldBy
  <2>6. ASSUME NEW b \in Clients, b # c PROVE Stands(b)'
    BY <2>1, <2>2, <2>6, OthersStand DEF HeldBy
  <2> QED BY <2>2, <2>5, <2>6 DEF ClaimInv, HostStands, HeldBy
<1>4. CASE OnWorldReady(c)
  <2>1. /\ Take(c, "ready") /\ UNCHANGED <<claim, early, table, fsmHold>>
        /\ ready' = [ready EXCEPT ![c] = TRUE]
        /\ down' = [down EXCEPT ![c] = @ \o Snapshot]
    BY <1>4 DEF OnWorldReady, devVars
  <2>2. ASSUME NEW b \in Clients, NEW e, Tells(down[b], b, e) PROVE Tells(down'[b], b, e)
    <3>1. down[b] \in Seq(Verdict) /\ Snapshot \in Seq(Verdict)
      BY SnapshotType DEF TypeOK
    <3>2. CASE b = c
      <4>1. down'[b] = down[b] \o Snapshot
        BY <2>1, <3>2 DEF TypeOK
      <4> QED BY <2>2, <3>1, <4>1, ConcatTells
    <3>3. CASE b # c
      BY <2>1, <2>2, <3>3 DEF TypeOK
    <3> QED BY <3>2, <3>3
  <2>3. Head(up[c]) # Ask("claim", claim[c]) /\ Head(up[c]).op = "ready"
    BY <2>1 DEF Take, Ask
  <2>4. ready'[c] = (ready[c] \/ Head(up[c]).op = "ready")
    BY <2>1, <2>3 DEF TypeOK
  <2>5. Stands(c)'
    BY <2>1, <2>2, <2>3, <2>4, TakerStands DEF HeldBy
  <2>6. ASSUME NEW b \in Clients, b # c PROVE Stands(b)'
    <3>1. ready'[b] = ready[b]
      BY <2>1, <2>6 DEF TypeOK
    <3> QED BY <2>1, <2>2, <2>6, <3>1, OthersStand DEF HeldBy
  <2> QED BY <2>1, <2>5, <2>6 DEF ClaimInv, HostStands, HeldBy
<1>5. CASE DisconnectSlot(c)
  <2>1. /\ UNCHANGED <<claim, early, up, fsmHold>>
        /\ \A b \in Clients : b # c => ready'[b] = ready[b]
        /\ table' = [d \in Devices |-> IF table[d] = c THEN None ELSE table[d]]
        /\ down' = Pulsed(ToAll(SetToSeq({Freed(d, c) : d \in {e \in Devices : table[e] = c}})),
                          c)
    BY <1>5 DEF DisconnectSlot, DropClaims, TypeOK
  <2>2. claim[c] = None
    BY <1>5 DEF DisconnectSlot, LinkInv
  <2>3. ASSUME NEW p \in Players, p # c, NEW d \in Devices, HeldBy(p, d) PROVE HeldBy(p, d)'
    BY <2>1, <2>3 DEF HeldBy
  <2>4. ASSUME NEW b \in Clients, NEW e, Tells(down[b], b, e) PROVE Tells(down'[b], b, e)
    BY <2>1, <2>4, ReleasesType, ToAllType, ToAllTells, PulsedTells
  <2>5. \A p \in Players : claim[p] \in Keys
    BY DEF TypeOK
  <2>6. HostStands'
    BY <2>1, <2>3, <2>5, PlayersAssumption DEF ClaimInv, HostStands, Players, Keys
  <2>7. ASSUME NEW b \in Clients, b # c PROVE Stands(b)'
    BY <2>1, <2>3, <2>4, <2>5, <2>7, StandsKept DEF ClaimInv, Players, Keys
  <2> QED BY <2>1, <2>2, <2>6, <2>7 DEF ClaimInv, Stands
<1> QED BY <1>1, <1>2, <1>3, <1>4, <1>5 DEF HostStep

LEMMA ClaimInvariant == Spec => []ClaimInv
<1>1. Init => ClaimInv
  BY DEF Init, ClaimInv, HostStands, Stands, Players
<1>2. TypeOK /\ LinkInv /\ ClaimInv /\ [Next]_vars => ClaimInv'
  <2> SUFFICES ASSUME TypeOK, LinkInv, ClaimInv, [Next]_vars PROVE ClaimInv'
    OBVIOUS
  <2>1. CASE UNCHANGED vars
    BY <2>1 DEF ClaimInv, HostStands, Stands, HeldBy, vars, devVars, pingVars, linkVars
  <2> QED BY <2>1, PlayerClaims, HostTickClaims, FsmHoldClaims, DisconnectAllClaims,
            HostStepClaims, ClientStepClaims DEF Next
<1> QED BY <1>1, <1>2, TypeCorrect, LinkInvariant, PTL DEF Spec

\* Whoever takes itself to hold a device is right, has its claim on the way, or
\* is about to be told otherwise (the arbitration of OnReliable and Tick).
THEOREM ClaimsAreAccounted == Spec => []ClaimIsAccounted
BY ClaimInvariant, ClaimInvAccounts, PTL

\* With nothing on the way, two players never both take themselves to be at a
\* device ("limited to ONE peer at a time", device_occupancy.h).
THEOREM OnePlayerAtADevice == Spec => []OneAtADevice
<1>1. ClaimIsAccounted => OneAtADevice
  <2> SUFFICES ASSUME ClaimIsAccounted, Quiet,
                      NEW p \in Players \ early, NEW q \in Players \ early,
                      claim[p] # None, claim[p] = claim[q]
               PROVE  p = q
    BY DEF OneAtADevice
  <2>1. ASSUME NEW c \in Clients, NEW d PROVE ~AskedFor(c, d) /\ ~ToldLost(c, d)
    BY DEF Quiet, AskedFor, ToldLost
  <2>2. ASSUME NEW r \in Players \ early, claim[r] # None PROVE table[claim[r]] = r
    BY <2>1, <2>2 DEF ClaimIsAccounted, Players
  <2> QED BY <2>2
<1> QED BY <1>1, ClaimsAreAccounted, PTL

-----------------------------------------------------------------------------
(* Reading verdicts.                                                       *)

\* What a mirror that says m of device d says x after the first n of s.
Value(v) == IF v.busy THEN v.slot ELSE None
Says(m, s, d, n, x) ==
  \/ x = m /\ \A i \in 1..n : s[i].dev # d
  \/ \E i \in 1..n : /\ s[i].dev = d /\ x = Value(s[i])
                     /\ \A j \in 1..n : s[j].dev = d => j <= i

\* Reading all of s takes m to x, each release in it is its holder's, and no end
\* of a row finds an entry of its slot.
Good(m, s, d, x) ==
  /\ Says(m, s, d, Len(s), x)
  /\ \A i \in 1..Len(s) : s[i].dev = d /\ ~s[i].busy => Says(m, s, d, i - 1, s[i].slot)
  /\ \A i \in 1..Len(s) : s[i].dev = None =>
       \E y : y # s[i].slot /\ Says(m, s, d, i - 1, y)

LEMMA JoinShape ==
  ASSUME NEW s \in Seq(Verdict), NEW t \in Seq(Verdict)
  PROVE  /\ Len(s) \in Nat /\ Len(t) \in Nat /\ Len(s \o t) = Len(s) + Len(t)
         /\ \A i \in 1..Len(s) : (s \o t)[i] = s[i]
         /\ \A i \in 1..Len(t) : (s \o t)[Len(s) + i] = t[i]
OBVIOUS

LEMMA AppendIsJoin ==
  ASSUME NEW s \in Seq(Verdict), NEW v \in Verdict
  PROVE  Append(s, v) = s \o <<v>>
OBVIOUS

LEMMA TailShape ==
  ASSUME NEW s \in Seq(Verdict), s # <<>>
  PROVE  /\ Len(s) \in Nat \ {0} /\ Len(Tail(s)) = Len(s) - 1
         /\ \A i \in 1..Len(s) - 1 : i + 1 \in 1..Len(s) /\ Tail(s)[i] = s[i + 1]
OBVIOUS

LEMMA SaysPrefix ==
  ASSUME NEW s \in Seq(Verdict), NEW t \in Seq(Verdict), NEW n \in 0..Len(s),
         NEW m, NEW d, NEW x, Says(m, s, d, n, x)
  PROVE  Says(m, s \o t, d, n, x)
<1>1. \A i \in 1..n : (s \o t)[i] = s[i]
  BY JoinShape
<1> QED BY <1>1 DEF Says

LEMMA SaysChain ==
  ASSUME NEW s \in Seq(Verdict), NEW t \in Seq(Verdict), NEW n \in 0..Len(t),
         NEW m, NEW d, NEW x, NEW y, Says(m, s, d, Len(s), y), Says(y, t, d, n, x)
  PROVE  Says(m, s \o t, d, Len(s) + n, x)
<1> DEFINE r == s \o t
           k == Len(s)
<1>1. /\ k \in Nat /\ n \in Nat
      /\ \A i \in 1..k : r[i] = s[i]
      /\ \A i \in 1..n : r[k + i] = t[i]
  BY JoinShape
<1>2. \A i \in 1..k + n : i \in 1..k \/ (i > k /\ i - k \in 1..n /\ r[i] = t[i - k])
  <2> SUFFICES ASSUME NEW i \in 1..k + n, i \notin 1..k
               PROVE  i > k /\ i - k \in 1..n /\ r[i] = t[i - k]
    OBVIOUS
  <2>1. i > k /\ i - k \in 1..n /\ k + (i - k) = i
    BY <1>1
  <2> HIDE DEF r, k
  <2> QED BY <1>1, <2>1
<1>3. Says(m, s, d, k, y)
  OBVIOUS
<1> HIDE DEF r, k
<1>4. ASSUME x = y /\ \A i \in 1..n : t[i].dev # d
      PROVE  Says(m, r, d, k + n, x)
  <2>1. ASSUME y = m /\ \A i \in 1..k : s[i].dev # d
        PROVE  Says(m, r, d, k + n, x)
    <3>1. \A j \in 1..k + n : r[j].dev # d
      BY <1>1, <1>2, <1>4, <2>1
    <3> QED BY <1>4, <2>1, <3>1 DEF Says
  <2>2. ASSUME NEW i \in 1..k, s[i].dev = d, y = Value(s[i]),
               \A j \in 1..k : s[j].dev = d => j <= i
        PROVE  Says(m, r, d, k + n, x)
    <3>1. i \in 1..k + n /\ r[i].dev = d /\ x = Value(r[i])
      BY <1>1, <1>4, <2>2
    <3>2. \A j \in 1..k + n : r[j].dev = d => j <= i
      BY <1>1, <1>2, <1>4, <2>2
    <3> QED BY <3>1, <3>2 DEF Says
  <2>3. \/ y = m /\ \A i \in 1..k : s[i].dev # d
        \/ \E i \in 1..k : /\ s[i].dev = d /\ y = Value(s[i])
                          /\ \A j \in 1..k : s[j].dev = d => j <= i
    BY <1>3 DEF Says
  <2> QED BY <2>1, <2>2, <2>3
<1>5. ASSUME NEW i \in 1..n, t[i].dev = d, x = Value(t[i]),
             \A j \in 1..n : t[j].dev = d => j <= i
      PROVE  Says(m, r, d, k + n, x)
  <2>1. k + i \in 1..k + n /\ r[k + i].dev = d /\ x = Value(r[k + i])
    BY <1>1, <1>5
  <2>2. \A j \in 1..k + n : r[j].dev = d => j <= k + i
    <3> SUFFICES ASSUME NEW j \in 1..k + n, r[j].dev = d PROVE j <= k + i
      OBVIOUS
    <3>1. CASE j \in 1..k
      BY <1>1, <3>1
    <3>2. CASE j - k \in 1..n /\ r[j] = t[j - k]
      <4>1. j - k <= i
        BY <1>5, <3>2
      <4> QED BY <1>1, <4>1
    <3> QED BY <1>2, <3>1, <3>2
  <2> QED BY <2>1, <2>2 DEF Says
<1>6. Says(y, t, d, n, x)
  OBVIOUS
<1>7. \/ x = y /\ \A i \in 1..n : t[i].dev # d
      \/ \E i \in 1..n : /\ t[i].dev = d /\ x = Value(t[i])
                        /\ \A j \in 1..n : t[j].dev = d => j <= i
  BY <1>6 DEF Says
<1>8. Says(m, r, d, k + n, x)
  BY <1>4, <1>5, <1>7
<1> QED BY <1>8 DEF r, k

LEMMA GoodChain ==
  ASSUME NEW s \in Seq(Verdict), NEW t \in Seq(Verdict),
         NEW m, NEW d, NEW x, NEW y, Good(m, s, d, y), Good(y, t, d, x)
  PROVE  Good(m, s \o t, d, x)
<1> DEFINE r == s \o t
           k == Len(s)
<1>1. /\ k \in Nat /\ Len(t) \in Nat /\ Len(r) = k + Len(t)
      /\ \A i \in 1..k : r[i] = s[i]
      /\ \A i \in 1..Len(t) : r[k + i] = t[i]
  BY JoinShape
<1>2. Says(m, s, d, k, y) /\ Says(y, t, d, Len(t), x)
  BY DEF Good
<1>3. Says(m, r, d, Len(r), x)
  <2>1. Len(t) \in 0..Len(t)
    BY <1>1
  <2> QED BY <1>1, <1>2, <2>1, SaysChain
<1>4. ASSUME NEW i \in 1..Len(r), r[i].dev = d, ~r[i].busy
      PROVE  Says(m, r, d, i - 1, r[i].slot)
  <2>1. CASE i \in 1..k
    <3>1. s[i] = r[i] /\ i - 1 \in 0..k
      BY <1>1, <2>1
    <3>2. Says(m, s, d, i - 1, s[i].slot)
      BY <1>4, <2>1, <3>1 DEF Good
    <3> QED BY <3>1, <3>2, SaysPrefix
  <2>2. CASE i \notin 1..k
    <3>1. i - k \in 1..Len(t) /\ k + (i - k) = i
      BY <1>1, <2>2
    <3>2. r[i] = t[i - k]
      <4> HIDE DEF r, k
      <4> QED BY <1>1, <3>1
    <3>3. Says(y, t, d, i - k - 1, t[i - k].slot)
      BY <1>4, <3>1, <3>2 DEF Good
    <3>4. i - k - 1 \in 0..Len(t) /\ k + (i - k - 1) = i - 1
      BY <1>1, <3>1
    <3>5. Says(m, r, d, k + (i - k - 1), t[i - k].slot)
      BY <1>2, <3>3, <3>4, SaysChain
    <3> QED BY <3>2, <3>4, <3>5
  <2> QED BY <2>1, <2>2
<1>5. ASSUME NEW i \in 1..Len(r), r[i].dev = None
      PROVE  \E z : z # r[i].slot /\ Says(m, r, d, i - 1, z)
  <2>1. CASE i \in 1..k
    <3>1. s[i] = r[i] /\ i - 1 \in 0..k
      BY <1>1, <2>1
    <3>2. PICK z : z # s[i].slot /\ Says(m, s, d, i - 1, z)
      BY <1>5, <2>1, <3>1 DEF Good
    <3>3. Says(m, r, d, i - 1, z)
      BY <3>1, <3>2, SaysPrefix
    <3> QED BY <3>1, <3>2, <3>3
  <2>2. CASE i \notin 1..k
    <3>1. i - k \in 1..Len(t) /\ k + (i - k) = i
      BY <1>1, <2>2
    <3>2. r[i] = t[i - k]
      <4> HIDE DEF r, k
      <4> QED BY <1>1, <3>1
    <3>3. PICK z : z # t[i - k].slot /\ Says(y, t, d, i - k - 1, z)
      BY <1>5, <3>1, <3>2 DEF Good
    <3>4. i - k - 1 \in 0..Len(t) /\ k + (i - k - 1) = i - 1
      BY <1>1, <3>1
    <3>5. Says(m, r, d, k + (i - k - 1), z)
      BY <1>2, <3>3, <3>4, SaysChain
    <3> QED BY <3>2, <3>3, <3>4, <3>5
  <2> QED BY <2>1, <2>2
<1> QED BY <1>3, <1>4, <1>5 DEF Good

\* Reading the first verdict.
LEMMA GoodTail ==
  ASSUME NEW s \in Seq(Verdict), s # <<>>, NEW m, NEW d, NEW x, Good(m, s, d, x)
  PROVE  /\ Good(IF s[1].dev = d THEN Value(s[1]) ELSE m, Tail(s), d, x)
         /\ s[1].dev = d /\ ~s[1].busy => m = s[1].slot
         /\ s[1].dev = None => m # s[1].slot
<1> DEFINE u == Tail(s)
           b == IF s[1].dev = d THEN Value(s[1]) ELSE m
<1>1. /\ Len(s) \in Nat \ {0} /\ Len(u) = Len(s) - 1
      /\ \A i \in 1..Len(s) - 1 : u[i] = s[i + 1]
  OBVIOUS
<1> HIDE DEF u
<1>2. ASSUME NEW n \in 1..Len(s), NEW z, Says(m, s, d, n, z)
      PROVE  Says(b, u, d, n - 1, z)
  <2>0. \A i \in 1..n - 1 : i + 1 \in 1..n /\ u[i] = s[i + 1]
    BY <1>1
  <2>1. CASE z = m /\ \A i \in 1..n : s[i].dev # d
    <3>1. b = m
      BY <2>1
    <3> HIDE DEF b
    <3> QED BY <2>0, <2>1, <3>1 DEF Says
  <2>2. ASSUME NEW i \in 1..n, s[i].dev = d, z = Value(s[i]),
               \A j \in 1..n : s[j].dev = d => j <= i
        PROVE  Says(b, u, d, n - 1, z)
    <3>1. CASE i = 1
      <4>1. z = b
        BY <2>2, <3>1
      <4>2. \A j \in 1..n - 1 : u[j].dev # d
        BY <2>0, <2>2, <3>1
      <4> HIDE DEF b
      <4> QED BY <4>1, <4>2 DEF Says
    <3>2. CASE i # 1
      <4>1. i - 1 \in 1..n - 1 /\ u[i - 1] = s[i]
        BY <1>1, <3>2
      <4>2. \A j \in 1..n - 1 : u[j].dev = d => j <= i - 1
        BY <2>0, <2>2
      <4> QED BY <2>2, <4>1, <4>2 DEF Says
    <3> QED BY <3>1, <3>2
  <2> QED BY <1>2, <2>1, <2>2 DEF Says
<1> HIDE DEF b
<1>3. Says(b, u, d, Len(u), x)
  <2>1. Len(s) \in 1..Len(s)
    BY <1>1
  <2> QED BY <1>1, <1>2, <2>1 DEF Good
<1>4. ASSUME NEW i \in 1..Len(u), u[i].dev = d, ~u[i].busy
      PROVE  Says(b, u, d, i - 1, u[i].slot)
  <2>1. i + 1 \in 1..Len(s) /\ u[i] = s[i + 1] /\ i \in 1..Len(s) /\ (i + 1) - 1 = i
    BY <1>1
  <2>2. Says(m, s, d, i, s[i + 1].slot)
    BY <1>4, <2>1 DEF Good
  <2> QED BY <1>2, <2>1, <2>2
<1>5. s[1].dev = d /\ ~s[1].busy => m = s[1].slot
  <2>1. 1 \in 1..Len(s) /\ 1 - 1 = 0 /\ 1..0 = {}
    BY <1>1
  <2> QED BY <2>1 DEF Good, Says
<1>6. ASSUME NEW i \in 1..Len(u), u[i].dev = None
      PROVE  \E z : z # u[i].slot /\ Says(b, u, d, i - 1, z)
  <2>1. i + 1 \in 1..Len(s) /\ u[i] = s[i + 1] /\ i \in 1..Len(s) /\ (i + 1) - 1 = i
    BY <1>1
  <2>2. PICK z : z # s[i + 1].slot /\ Says(m, s, d, i, z)
    BY <1>6, <2>1 DEF Good
  <2>3. Says(b, u, d, i - 1, z)
    BY <1>2, <2>1, <2>2
  <2> QED BY <2>1, <2>2, <2>3
<1>7. s[1].dev = None => m # s[1].slot
  <2>1. 1 \in 1..Len(s) /\ 1 - 1 = 0 /\ 1..0 = {}
    BY <1>1
  <2> QED BY <2>1 DEF Good, Says
<1> QED BY <1>3, <1>4, <1>5, <1>6, <1>7 DEF Good, u, b

\* No verdict, and one.
LEMMA GoodNone ==
  ASSUME NEW m, NEW d
  PROVE  Good(m, <<>>, d, m)
<1>1. Len(<<>>) = 0 /\ 1..0 = {}
  OBVIOUS
<1> QED BY <1>1 DEF Good, Says

LEMMA GoodOne ==
  ASSUME NEW m, NEW d, NEW v \in Verdict, v.dev = d /\ ~v.busy => m = v.slot,
         v.dev = None => m # v.slot
  PROVE  Good(m, <<v>>, d, IF v.dev = d THEN Value(v) ELSE m)
<1> DEFINE s == <<v>>
<1>1. Len(s) = 1 /\ s[1] = v /\ 1..0 = {} /\ 1 - 1 = 0 /\ \A i \in 1..1 : i = 1
  OBVIOUS
<1> HIDE DEF s
<1>2. Says(m, s, d, 1, IF v.dev = d THEN Value(v) ELSE m)
  BY <1>1 DEF Says
<1>3. Says(m, s, d, 0, m)
  BY <1>1 DEF Says
<1>4. Good(m, s, d, IF v.dev = d THEN Value(v) ELSE m)
  BY <1>1, <1>2, <1>3 DEF Good
<1> QED BY <1>4 DEF s

-----------------------------------------------------------------------------
(* What a client's mirror will say.                                        *)

\* The device's last verdict among the first n is the one that counts.
LEMMA LastVerdictSays ==
  ASSUME NEW c \in Clients, NEW d \in Devices, NEW n \in Nat, NEW x,
         Says(mirror[c][d], down[c], d, n, x)
  PROVE  MirrorAfter(c, d, n) = x
<1> DEFINE about == {i \in 1..n : down[c][i].dev = d}
<1>1. CASE x = mirror[c][d] /\ \A i \in 1..n : down[c][i].dev # d
  BY <1>1 DEF MirrorAfter
<1>2. ASSUME NEW i \in 1..n, down[c][i].dev = d, x = Value(down[c][i]),
             \A j \in 1..n : down[c][j].dev = d => j <= i
      PROVE  MirrorAfter(c, d, n) = x
  <2>1. i \in about /\ \A j \in about : j <= i
    BY <1>2
  <2>2. \A k \in about : (\A j \in about : j <= k) => k = i
    BY <2>1
  <2>3. (CHOOSE k \in about : \A j \in about : j <= k) = i
    <3> HIDE DEF about
    <3> QED BY <2>1, <2>2
  <2> QED BY <1>2, <2>1, <2>3 DEF MirrorAfter, Value
<1> QED BY <1>1, <1>2 DEF Says

\* A gate is open for a slot that somebody is in, or has just left.
Gated(c) == ready[c] => c \in linked \cup leaving

\* MirrorCatchesUp is not inductive: who is told nothing must know nothing,
\* or the table it is sent at its next announce leaves its old entries standing.
Follows(c) ==
  /\ ~Hears(c) => /\ \A d \in Devices : mirror[c][d] = None
                  /\ \A i \in 1..Len(down[c]) : down[c][i].dev = None
  /\ \A d \in Devices : Good(mirror[c][d], down[c], d, IF Hears(c) THEN table[d] ELSE None)

MirrorInv == \A c \in Clients : Gated(c) /\ Follows(c)

LEMMA FollowersCatchUp == TypeOK /\ MirrorInv => MirrorCatchesUp
<1> SUFFICES ASSUME TypeOK, MirrorInv, NEW c \in Clients, Hears(c), NEW d \in Devices
             PROVE  /\ MirrorAfter(c, d, Len(down[c])) = table[d]
                    /\ \A i \in DOMAIN down[c] :
                         down[c][i].dev = d /\ ~down[c][i].busy
                           => MirrorAfter(c, d, i - 1) = down[c][i].slot
                    /\ \A i \in DOMAIN down[c] :
                         down[c][i].dev = None => MirrorAfter(c, d, i - 1) # down[c][i].slot
  BY DEF MirrorCatchesUp
<1>1. Good(mirror[c][d], down[c], d, table[d])
  BY DEF MirrorInv, Follows
<1>2. down[c] \in Seq(Verdict)
  BY DEF TypeOK
<1>3. Len(down[c]) \in Nat /\ DOMAIN down[c] = 1..Len(down[c])
  BY <1>2
<1>4. MirrorAfter(c, d, Len(down[c])) = table[d]
  BY <1>1, <1>3, LastVerdictSays DEF Good
<1>5. ASSUME NEW i \in DOMAIN down[c], down[c][i].dev = d, ~down[c][i].busy
      PROVE  MirrorAfter(c, d, i - 1) = down[c][i].slot
  <2>1. i \in 1..Len(down[c]) /\ i - 1 \in Nat
    BY <1>3
  <2>2. Says(mirror[c][d], down[c], d, i - 1, down[c][i].slot)
    BY <1>1, <1>5, <2>1 DEF Good
  <2> QED BY <2>1, <2>2, LastVerdictSays
<1>6. ASSUME NEW i \in DOMAIN down[c], down[c][i].dev = None
      PROVE  MirrorAfter(c, d, i - 1) # down[c][i].slot
  <2>1. i \in 1..Len(down[c]) /\ i - 1 \in Nat
    BY <1>3
  <2>2. PICK y : y # down[c][i].slot /\ Says(mirror[c][d], down[c], d, i - 1, y)
    BY <1>1, <1>6, <2>1 DEF Good
  <2> QED BY <2>1, <2>2, LastVerdictSays
<1> QED BY <1>4, <1>5, <1>6

-----------------------------------------------------------------------------
(* What the host tells.                                                    *)

\* A verdict on one device, about a table t.
LEMMA GoodFreed ==
  ASSUME NEW t \in [Devices -> Slots], NEW e \in Devices, NEW p \in Players, t[e] = p,
         NEW d \in Devices
  PROVE  Good(t[d], <<Freed(e, p)>>, d, [t EXCEPT ![e] = None][d])
<1> DEFINE v == Freed(e, p)
<1>1. v \in Verdict /\ v.dev = e /\ v.slot = p /\ ~v.busy /\ Value(v) = None /\ e # None
  BY VerdictTypes, PlayersAssumption DEF Freed, Value
<1>2. [t EXCEPT ![e] = None][d] = IF v.dev = d THEN Value(v) ELSE t[d]
  BY <1>1
<1> HIDE DEF v
<1>3. Good(t[d], <<v>>, d, IF v.dev = d THEN Value(v) ELSE t[d])
  BY <1>1, GoodOne
<1> QED BY <1>2, <1>3 DEF v

LEMMA GoodBusy ==
  ASSUME NEW t \in [Devices -> Slots], NEW e \in Devices, NEW p \in Players,
         NEW d \in Devices
  PROVE  Good(t[d], <<Busy(e, p)>>, d, [t EXCEPT ![e] = p][d])
<1> DEFINE v == Busy(e, p)
<1>1. v \in Verdict /\ v.dev = e /\ v.busy /\ Value(v) = p /\ e # None
  BY VerdictTypes, PlayersAssumption DEF Busy, Value
<1>2. [t EXCEPT ![e] = p][d] = IF v.dev = d THEN Value(v) ELSE t[d]
  BY <1>1
<1> HIDE DEF v
<1>3. Good(t[d], <<v>>, d, IF v.dev = d THEN Value(v) ELSE t[d])
  BY <1>1, GoodOne
<1> QED BY <1>2, <1>3 DEF v

\* A sequence with no verdict of the device, or one.
LEMMA GoodAbsent ==
  ASSUME NEW s \in Seq(Verdict), NEW m, NEW d, \A i \in 1..Len(s) : s[i].dev \notin {d, None}
  PROVE  Good(m, s, d, m)
BY DEF Good, Says

LEMMA GoodSingle ==
  ASSUME NEW s \in Seq(Verdict), NEW m, NEW d, NEW i \in 1..Len(s), s[i].dev = d,
         \A j \in 1..Len(s) : s[j].dev # None /\ (s[j].dev = d => j = i),
         ~s[i].busy => m = s[i].slot
  PROVE  Good(m, s, d, Value(s[i]))
<1>1. Len(s) \in Nat /\ i \in Int
  OBVIOUS
<1>2. Says(m, s, d, Len(s), Value(s[i]))
  <2>1. \A j \in 1..Len(s) : s[j].dev = d => j <= i
    BY <1>1
  <2> QED BY <2>1 DEF Says
<1>3. ~s[i].busy => Says(m, s, d, i - 1, s[i].slot)
  <2>1. \A j \in 1..i - 1 : j \in 1..Len(s) /\ j # i
    BY <1>1
  <2>2. \A j \in 1..i - 1 : s[j].dev # d
    BY <2>1
  <2> QED BY <2>2 DEF Says
<1> QED BY <1>2, <1>3 DEF Good

\* SetToSeq lists every member of a finite set, once.
LEMMA SetToSeqMembers ==
  ASSUME NEW S, IsFiniteSet(S)
  PROVE  /\ \A i \in 1..Len(SetToSeq(S)) : SetToSeq(S)[i] \in S
         /\ \A i, j \in 1..Len(SetToSeq(S)) : SetToSeq(S)[i] = SetToSeq(S)[j] => i = j
         /\ \A x \in S : \E i \in 1..Len(SetToSeq(S)) : SetToSeq(S)[i] = x
<1> DEFINE n == Cardinality(S)
           s == SetToSeq(S)
<1>1. n \in Nat /\ ExistsBijection(1..n, S)
  BY FS_CardinalityType
<1>2. PICK f \in Bijection(1..n, S) : TRUE
  BY <1>1 DEF ExistsBijection
<1>3. f \in [1..n -> S] /\ IsInjective(f)
  BY <1>2 DEF Bijection, Injection, IsInjective
<1>4. s \in [1..n -> S] /\ IsInjective(s)
  BY <1>3 DEF SetToSeq
<1> HIDE DEF s
<1>5. s \in Seq(S) /\ Len(s) = n
  BY <1>1, <1>4
<1>6. s \in Injection(1..n, S)
  BY <1>4 DEF Injection, IsInjective
<1>7. Cardinality(1..n) = n
  BY <1>1, FS_Interval
<1>8. s \in Surjection(1..n, S)
  BY <1>6, <1>7, FS_Injection
<1> HIDE DEF n
<1> QED BY <1>4, <1>5, <1>8 DEF s, Surjection, IsInjective

\* A list of verdicts, one for each device of a set.
LEMMA GoodList ==
  ASSUME NEW P \in SUBSET Devices, NEW f \in [Devices -> Verdict],
         \A e \in Devices : f[e].dev = e,
         NEW m, NEW d \in Devices, d \in P /\ ~f[d].busy => m = f[d].slot
  PROVE  Good(m, SetToSeq({f[e] : e \in P}), d, IF d \in P THEN Value(f[d]) ELSE m)
<1> DEFINE T == {f[e] : e \in P}
           s == SetToSeq(T)
<1>1. IsFiniteSet(T) /\ T \in SUBSET Verdict
  BY ImageFinite
<1>2. \A v \in T : v.dev \in P /\ v.dev # None /\ v = f[v.dev]
  BY PlayersAssumption
<1>3. d \in P => f[d] \in T
  OBVIOUS
<1> HIDE DEF T
<1>4. s \in Seq(Verdict)
  BY <1>1, SetToSeqType
<1>5. /\ \A i \in 1..Len(s) : s[i] \in T
      /\ \A i, j \in 1..Len(s) : s[i] = s[j] => i = j
      /\ \A x \in T : \E i \in 1..Len(s) : s[i] = x
  BY <1>1, SetToSeqMembers
<1> HIDE DEF s
<1>6. CASE d \notin P
  BY <1>2, <1>4, <1>5, <1>6, GoodAbsent DEF s, T
<1>7. CASE d \in P
  <2>1. PICK i \in 1..Len(s) : s[i] = f[d]
    BY <1>3, <1>5, <1>7
  <2>2. \A j \in 1..Len(s) : s[j].dev # None /\ (s[j].dev = d => j = i)
    BY <1>2, <1>5, <2>1
  <2>3. Good(m, s, d, Value(s[i]))
    BY <1>4, <1>7, <2>1, <2>2, GoodSingle
  <2> QED BY <1>7, <2>1, <2>3 DEF s, T
<1> QED BY <1>6, <1>7

\* The end of a row, for a reader that knows of no entry of its slot.
LEMMA GoodRowEnd ==
  ASSUME NEW c \in Clients, NEW d \in Devices, NEW m, m # c
  PROVE  Good(m, <<RowEnd(c)>>, d, m)
<1> DEFINE v == RowEnd(c)
<1>1. v \in Verdict /\ v.dev = None /\ v.slot = c /\ d # None
  BY VerdictTypes, PlayersAssumption DEF RowEnd
<1> HIDE DEF v
<1>2. Good(m, <<v>>, d, IF v.dev = d THEN Value(v) ELSE m)
  BY <1>1, GoodOne
<1> QED BY <1>1, <1>2 DEF v

\* The table of a moment, for a reader that knows of no entry it lacks.
LEMMA GoodSnapshot ==
  ASSUME TypeOK, NEW d \in Devices, NEW m, table[d] = None => m = None
  PROVE  Good(m, Snapshot, d, table[d])
<1> DEFINE P == {e \in Devices : table[e] # None}
           f == [e \in Devices |-> IF e \in P THEN Busy(e, table[e]) ELSE Busy(e, Host)]
<1>1. f \in [Devices -> Verdict] /\ \A e \in Devices : f[e].dev = e /\ f[e].busy
  <2>1. \A e \in P : table[e] \in Players
    BY DEF TypeOK, Slots
  <2>2. \A e \in Devices : f[e] \in Verdict /\ f[e].dev = e /\ f[e].busy
    BY <2>1, VerdictTypes DEF Busy, Players
  <2> QED BY <2>2
<1>2. {Busy(e, table[e]) : e \in P} = {f[e] : e \in P}
  OBVIOUS
<1>3. Snapshot = SetToSeq({f[e] : e \in P})
  BY <1>2 DEF Snapshot
<1>4. table[d] = IF d \in P THEN Value(f[d]) ELSE m
  BY DEF Value, Busy
<1> HIDE DEF f
<1>5. Good(m, SetToSeq({f[e] : e \in P}), d, IF d \in P THEN Value(f[d]) ELSE m)
  <2>1. P \in SUBSET Devices
    OBVIOUS
  <2>2. f \in [Devices -> Verdict] /\ \A e \in Devices : f[e].dev = e
    BY <1>1
  <2>3. d \in P /\ ~f[d].busy => m = f[d].slot
    BY <1>1
  <2> HIDE DEF P
  <2> QED BY <2>1, <2>2, <2>3, GoodList, Zenon
<1> QED BY <1>3, <1>4, <1>5

\* The releases for a leaver.
LEMMA GoodReleases ==
  ASSUME TypeOK, NEW c \in Clients, NEW d \in Devices
  PROVE  Good(table[d], SetToSeq({Freed(e, c) : e \in {e \in Devices : table[e] = c}}), d,
              IF table[d] = c THEN None ELSE table[d])
<1> DEFINE P == {e \in Devices : table[e] = c}
           f == [e \in Devices |-> Freed(e, c)]
<1>1. /\ f \in [Devices -> Verdict]
      /\ \A e \in Devices : f[e].dev = e /\ f[e].slot = c /\ Value(f[e]) = None
  BY VerdictTypes DEF Freed, Value, Players
<1>2. {Freed(e, c) : e \in P} = {f[e] : e \in P}
  OBVIOUS
<1> HIDE DEF f
<1>3. Good(table[d], SetToSeq({f[e] : e \in P}), d, IF d \in P THEN Value(f[d]) ELSE table[d])
  <2>1. P \in SUBSET Devices
    OBVIOUS
  <2>2. f \in [Devices -> Verdict] /\ \A e \in Devices : f[e].dev = e
    BY <1>1
  <2>3. d \in P /\ ~f[d].busy => table[d] = f[d].slot
    BY <1>1
  <2> HIDE DEF P
  <2> QED BY <2>1, <2>2, <2>3, GoodList, Zenon
<1>4. (IF d \in P THEN Value(f[d]) ELSE table[d]) = IF table[d] = c THEN None ELSE table[d]
  BY <1>1
<1> QED BY <1>2, <1>3, <1>4

-----------------------------------------------------------------------------
(* Steps.                                                                  *)

\* Who hears, who is in a slot and what the mirrors say are as they were.
SameListeners ==
  /\ \A c \in Clients : Gated(c)' /\ (Hears(c)' <=> Hears(c))
  /\ UNCHANGED mirror

\* A step that changes no entry and tells nothing.
LEMMA MirrorKept ==
  ASSUME MirrorInv, SameListeners, UNCHANGED <<table, down>>
  PROVE  MirrorInv'
BY DEF MirrorInv, SameListeners, Follows

\* The host tells all who hear of the entries it changes.
LEMMA Broadcast ==
  ASSUME TypeOK, MirrorInv, SameListeners, NEW msgs \in Seq(Verdict), down' = ToAll(msgs),
         \A d \in Devices : Good(table[d], msgs, d, table'[d])
  PROVE  MirrorInv'
<1> SUFFICES ASSUME NEW c \in Clients PROVE Follows(c)'
  BY DEF MirrorInv, SameListeners
<1>1. down[c] \in Seq(Verdict) /\ down'[c] = IF Hears(c) THEN down[c] \o msgs ELSE down[c]
  BY DEF ToAll, TypeOK
<1>2. CASE ~Hears(c)
  BY <1>1, <1>2 DEF MirrorInv, SameListeners, Follows
<1>3. CASE Hears(c)
  <2>1. ASSUME NEW d \in Devices PROVE Good(mirror[c][d], down[c] \o msgs, d, table'[d])
    <3>1. Good(mirror[c][d], down[c], d, table[d])
      BY <1>3 DEF MirrorInv, Follows
    <3> QED BY <1>1, <3>1, GoodChain
  <2> QED BY <1>1, <1>3, <2>1 DEF SameListeners, Follows
<1> QED BY <1>2, <1>3

LEMMA SameLinks ==
  ASSUME MirrorInv, UNCHANGED <<linked, leaving, ready, mirror>>
  PROVE  SameListeners
BY DEF MirrorInv, SameListeners, Gated, Hears

LEMMA PlayerMirrors ==
  ASSUME MirrorInv, NEW p \in Players, PlayerStep(p)
  PROVE  MirrorInv'
<1>1. UNCHANGED <<linked, leaving, ready, mirror, table, down>>
  BY DEF PlayerStep, Enter, Exit, StartPing, EndPing, PingEdge, pingVars, linkVars, devVars
<1> QED BY <1>1, SameLinks, MirrorKept

LEMMA HostTickMirrors ==
  ASSUME TypeOK, ClaimInv, MirrorInv, HostTick
  PROVE  MirrorInv'
<1> DEFINE w == screen[Host]
           old == claim[Host]
           releases == IF old = None THEN <<>> ELSE <<Freed(old, Host)>>
           grants == IF w = None THEN <<>> ELSE <<Busy(w, Host)>>
           entered == IF w = None THEN Erase(old) ELSE [Erase(old) EXCEPT ![w] = Host]
<1>1. /\ w \in Keys /\ old \in Keys /\ Host \in Players
      /\ Erase(old) \in [Devices -> Slots] /\ table \in [Devices -> Slots]
  BY EraseType DEF TypeOK, Players
<1>2. releases \in Seq(Verdict) /\ grants \in Seq(Verdict) /\ releases \o grants \in Seq(Verdict)
  BY <1>1, VerdictTypes DEF Keys
<1>3. SameListeners
  BY SameLinks DEF HostTick, linkVars
<1>4. ASSUME NEW d \in Devices PROVE Good(table[d], releases, d, Erase(old)[d])
  <2>1. CASE old = None
    BY <2>1, GoodNone DEF Erase
  <2>2. CASE old # None
    <3>1. old \in Devices /\ table[old] = Host
      BY <1>1, <2>2 DEF Keys, ClaimInv, HostStands, HeldBy
    <3>2. Good(table[d], <<Freed(old, Host)>>, d, [table EXCEPT ![old] = None][d])
      BY <1>1, <3>1, GoodFreed
    <3> QED BY <2>2, <3>2 DEF Erase
  <2> QED BY <2>1, <2>2
<1>5. ASSUME NEW d \in Devices PROVE Good(Erase(old)[d], grants, d, entered[d])
  <2>1. CASE w = None
    BY <2>1, GoodNone
  <2>2. CASE w # None
    <3>1. Good(Erase(old)[d], <<Busy(w, Host)>>, d, [Erase(old) EXCEPT ![w] = Host][d])
      BY <1>1, <2>2, GoodBusy DEF Keys
    <3> QED BY <2>2, <3>1
  <2> QED BY <2>1, <2>2
<1>6. \/ table' = Erase(old) /\ down' = ToAll(releases)
      \/ table' = entered /\ down' = ToAll(releases \o grants)
  BY DEF HostTick
<1> HIDE DEF releases, grants, entered
<1>7. CASE table' = Erase(old) /\ down' = ToAll(releases)
  BY <1>2, <1>3, <1>4, <1>7, Broadcast
<1>8. CASE table' = entered /\ down' = ToAll(releases \o grants)
  <2>1. \A d \in Devices : Good(table[d], releases \o grants, d, entered[d])
    BY <1>2, <1>4, <1>5, GoodChain
  <2> QED BY <1>2, <1>3, <1>8, <2>1, Broadcast
<1> QED BY <1>6, <1>7, <1>8

LEMMA FsmHoldMirrors ==
  ASSUME TypeOK, MirrorInv, AssertFsmHold \/ DropFsmHold
  PROVE  MirrorInv'
<1>1. SameListeners
  BY SameLinks DEF AssertFsmHold, DropFsmHold, linkVars
<1>2. table \in [Devices -> Slots] /\ Desk \in Devices
  BY PlayersAssumption DEF TypeOK
<1>3. CASE AssertFsmHold
  <2>1. pinger \in Players
    BY <1>3 DEF AssertFsmHold, TypeOK, Slots
  <2>2. \A d \in Devices : Good(table[d], <<Busy(Desk, pinger)>>, d, table'[d])
    BY <1>2, <1>3, <2>1, GoodBusy DEF AssertFsmHold
  <2>3. <<Busy(Desk, pinger)>> \in Seq(Verdict)
    BY <1>2, <2>1, VerdictTypes
  <2> QED BY <1>1, <1>3, <2>2, <2>3, Broadcast DEF AssertFsmHold
<1>4. CASE DropFsmHold
  <2>1. table' = Erase(Desk) /\ down' = ToAll(FreedIfHeld(Desk)) /\ Desk # None
    BY <1>2, <1>4, PlayersAssumption DEF DropFsmHold
  <2>2. CASE table[Desk] = None
    <3>1. table' = table /\ FreedIfHeld(Desk) = <<>>
      BY <1>2, <2>1, <2>2 DEF Erase, FreedIfHeld
    <3>2. <<>> \in Seq(Verdict)
      OBVIOUS
    <3> QED BY <1>1, <2>1, <3>1, <3>2, GoodNone, Broadcast
  <2>3. CASE table[Desk] # None
    <3>1. table[Desk] \in Players
      BY <1>2, <2>3 DEF Slots
    <3>2. FreedIfHeld(Desk) = <<Freed(Desk, table[Desk])>>
      BY <2>3 DEF FreedIfHeld
    <3>3. \A d \in Devices : Good(table[d], FreedIfHeld(Desk), d, table'[d])
      BY <1>2, <2>1, <3>1, <3>2, GoodFreed DEF Erase
    <3>4. FreedIfHeld(Desk) \in Seq(Verdict)
      BY <1>2, <3>1, <3>2, VerdictTypes
    <3> QED BY <1>1, <2>1, <3>3, <3>4, Broadcast
  <2> QED BY <2>2, <2>3
<1> QED BY <1>3, <1>4

\* With nobody connected nobody hears, and the table may be cleared in silence.
LEMMA DisconnectAllMirrors ==
  ASSUME MirrorInv, DisconnectAll
  PROVE  MirrorInv'
<1>1. linked = {} /\ UNCHANGED <<mirror, linked, leaving, ready, down>>
  BY DEF DisconnectAll
<1> QED BY <1>1 DEF MirrorInv, Gated, Follows, Hears

LEMMA OnClaimMirrors ==
  ASSUME TypeOK, MirrorInv, NEW c \in Clients, OnClaim(c)
  PROVE  MirrorInv'
<1> DEFINE d == Head(up[c]).dev
<1>1. d \in Devices /\ table \in [Devices -> Slots] /\ c \in Players
  BY TakeType DEF OnClaim, TypeOK, Players
<1>2. SameListeners
  BY SameLinks DEF OnClaim, linkVars
<1>3. CASE table[d] \in {None, c}
  <2>1. table' = [table EXCEPT ![d] = c] /\ down' = ToAll(<<Busy(d, c)>>)
    BY <1>3 DEF OnClaim, Grant
  <2>2. <<Busy(d, c)>> \in Seq(Verdict)
    BY <1>1, VerdictTypes
  <2>3. \A e \in Devices : Good(table[e], <<Busy(d, c)>>, e, table'[e])
    BY <1>1, <2>1, GoodBusy
  <2> QED BY <1>2, <2>1, <2>2, <2>3, Broadcast
<1>4. CASE table[d] \notin {None, c}
  <2>1. /\ down' = IF Hears(c) THEN [down EXCEPT ![c] = Append(@, Busy(d, table[d]))] ELSE down
        /\ UNCHANGED table
    BY <1>4 DEF OnClaim, Deny
  <2>2. table[d] \in Players
    BY <1>1, <1>4 DEF Slots
  <2>3. CASE ~Hears(c)
    BY <1>2, <2>1, <2>3, MirrorKept
  <2>4. CASE Hears(c)
    <3>1. /\ down[c] \in Seq(Verdict) /\ <<Busy(d, table[d])>> \in Seq(Verdict)
          /\ down'[c] = Append(down[c], Busy(d, table[d]))
          /\ \A b \in Clients : b # c => down'[b] = down[b]
      BY <1>1, <2>1, <2>2, <2>4, VerdictTypes DEF TypeOK
    <3>2. down'[c] = down[c] \o <<Busy(d, table[d])>>
      <4> DEFINE v == Busy(d, table[d])
                 s == down[c]
      <4>1. v \in Verdict /\ s \in Seq(Verdict)
        BY <1>1, <2>2, <3>1, VerdictTypes
      <4> HIDE DEF v, s
      <4>2. Append(s, v) = s \o <<v>>
        BY <4>1
      <4> QED BY <3>1, <4>2 DEF v, s
    <3>3. ASSUME NEW e \in Devices PROVE Good(mirror[c][e], down'[c], e, table[e])
      <4>1. Good(table[e], <<Busy(d, table[d])>>, e, [table EXCEPT ![d] = table[d]][e])
        BY <1>1, <2>2, GoodBusy
      <4>2. [table EXCEPT ![d] = table[d]] = table
        BY <1>1
      <4>3. Good(mirror[c][e], down[c], e, table[e])
        BY <2>4 DEF MirrorInv, Follows
      <4>4. Good(table[e], <<Busy(d, table[d])>>, e, table[e])
        BY <4>1, <4>2
      <4>5. Good(mirror[c][e], down[c] \o <<Busy(d, table[d])>>, e, table[e])
        BY <3>1, <4>3, <4>4, GoodChain
      <4> QED BY <3>2, <4>5
    <3>4. Follows(c)'
      BY <1>2, <2>1, <2>4, <3>3 DEF SameListeners, Follows
    <3>5. \A b \in Clients : b # c => Follows(b)'
      BY <1>2, <2>1, <3>1 DEF MirrorInv, SameListeners, Follows
    <3> QED BY <1>2, <3>4, <3>5 DEF MirrorInv, SameListeners
  <2> QED BY <2>3, <2>4
<1> QED BY <1>3, <1>4

LEMMA OnReleaseMirrors ==
  ASSUME TypeOK, MirrorInv, NEW c \in Clients, OnRelease(c)
  PROVE  MirrorInv'
<1> DEFINE d == Head(up[c]).dev
<1>1. d \in Devices /\ d # None /\ table \in [Devices -> Slots] /\ c \in Players
  BY TakeType, PlayersAssumption DEF OnRelease, TypeOK, Players
<1>2. SameListeners
  BY SameLinks DEF OnRelease, linkVars
<1>3. CASE table[d] = c
  <2>1. table' = [table EXCEPT ![d] = None] /\ down' = ToAll(<<Freed(d, c)>>)
    BY <1>1, <1>3 DEF OnRelease, Erase
  <2>2. <<Freed(d, c)>> \in Seq(Verdict)
    BY <1>1, VerdictTypes
  <2>3. \A e \in Devices : Good(table[e], <<Freed(d, c)>>, e, table'[e])
    BY <1>1, <1>3, <2>1, GoodFreed
  <2> QED BY <1>2, <2>1, <2>2, <2>3, Broadcast
<1>4. CASE table[d] # c
  <2>1. UNCHANGED <<table, down>>
    BY <1>4 DEF OnRelease
  <2> QED BY <1>2, <2>1, MirrorKept
<1> QED BY <1>3, <1>4

LEMMA OnWorldReadyMirrors ==
  ASSUME TypeOK, LinkInv, MirrorInv, NEW c \in Clients, OnWorldReady(c)
  PROVE  MirrorInv'
<1>1. /\ ready' = [ready EXCEPT ![c] = TRUE]
      /\ down' = [down EXCEPT ![c] = @ \o Snapshot]
      /\ UNCHANGED <<table, mirror, linked, leaving>>
      /\ c \in linked
  BY TakerLinked DEF OnWorldReady, devVars
<1>2. /\ Hears(c)' /\ Gated(c)'
      /\ \A b \in Clients : b # c => /\ Hears(b)' <=> Hears(b)
                                     /\ Gated(b)' <=> Gated(b)
                                     /\ down'[b] = down[b]
  BY <1>1 DEF Hears, Gated, TypeOK
<1>3. /\ down[c] \in Seq(Verdict) /\ Snapshot \in Seq(Verdict)
      /\ down'[c] = down[c] \o Snapshot
  BY <1>1, SnapshotType DEF TypeOK
<1>4. ASSUME NEW d \in Devices PROVE Good(mirror[c][d], down'[c], d, table[d])
  <2>1. PICK y : Good(mirror[c][d], down[c], d, y) /\ (table[d] = None => y = None)
    <3>1. CASE Hears(c)
      BY <3>1 DEF MirrorInv, Follows
    <3>2. CASE ~Hears(c)
      BY <3>2 DEF MirrorInv, Follows
    <3> QED BY <3>1, <3>2
  <2>2. Good(y, Snapshot, d, table[d])
    BY <2>1, GoodSnapshot
  <2> QED BY <1>3, <2>1, <2>2, GoodChain
<1>5. Follows(c)'
  BY <1>1, <1>2, <1>4 DEF Follows
<1>6. \A b \in Clients : b # c => Gated(b)' /\ Follows(b)'
  BY <1>1, <1>2 DEF MirrorInv, Follows
<1> QED BY <1>2, <1>5, <1>6 DEF MirrorInv

\* Who is told of the entries of a leaver is told of its row behind them.
LEMMA DisconnectSlotMirrors ==
  ASSUME TypeOK, LinkInv, MirrorInv, NEW c \in Clients, DisconnectSlot(c)
  PROVE  MirrorInv'
<1> DEFINE msgs == SetToSeq({Freed(e, c) : e \in {e \in Devices : table[e] = c}})
<1>1. /\ c \in leaving /\ c \notin linked /\ leaving' = leaving \ {c}
      /\ ready' = [ready EXCEPT ![c] = FALSE]
      /\ UNCHANGED <<mirror, linked>>
      /\ table' = [d \in Devices |-> IF table[d] = c THEN None ELSE table[d]]
      /\ down' = Pulsed(ToAll(msgs), c)
  BY DEF DisconnectSlot, DropClaims, LinkInv
<1>2. SameListeners
  BY <1>1 DEF SameListeners, MirrorInv, Gated, Hears, TypeOK
<1>3. msgs \in Seq(Verdict) /\ RowEnd(c) \in Verdict /\ RowEnd(c).dev = None
  BY ReleasesType, VerdictTypes DEF RowEnd
<1>4. ASSUME NEW d \in Devices
      PROVE  /\ Good(table[d], msgs, d, table'[d])
             /\ Good(table'[d], <<RowEnd(c)>>, d, table'[d])
             /\ Good(None, <<RowEnd(c)>>, d, None)
  <2>1. table'[d] # c /\ None # c
    BY <1>1, PlayersAssumption
  <2> QED BY <1>1, <2>1, GoodReleases, GoodRowEnd
<1> HIDE DEF msgs
<1>5. ASSUME NEW b \in Clients PROVE Follows(b)'
  <2>1. /\ down[b] \in Seq(Verdict) /\ down[b] \o msgs \in Seq(Verdict)
        /\ <<RowEnd(c)>> \in Seq(Verdict)
        /\ Append(down[b], RowEnd(c)) = down[b] \o <<RowEnd(c)>>
        /\ Append(down[b] \o msgs, RowEnd(c)) = (down[b] \o msgs) \o <<RowEnd(c)>>
    BY <1>3, AppendIsJoin DEF TypeOK
  <2>2. CASE b \notin linked
    <3>1. ~Hears(b) /\ down'[b] = down[b]
      BY <1>1, <2>2 DEF Hears, Pulsed, ToAll
    <3> QED BY <1>2, <3>1 DEF MirrorInv, SameListeners, Follows
  <2>3. CASE b \in linked /\ Hears(b)
    <3>1. down'[b] = (down[b] \o msgs) \o <<RowEnd(c)>>
      <4>1. down'[b] = Append(down[b] \o msgs, RowEnd(c))
        BY <1>1, <2>3 DEF Pulsed, ToAll
      <4> QED BY <2>1, <4>1
    <3>2. ASSUME NEW d \in Devices PROVE Good(mirror[b][d], down'[b], d, table'[d])
      <4>1. Good(mirror[b][d], down[b], d, table[d])
        BY <2>3 DEF MirrorInv, Follows
      <4>2. Good(mirror[b][d], down[b] \o msgs, d, table'[d])
        BY <1>3, <1>4, <2>1, <4>1, GoodChain
      <4>3. Good(mirror[b][d], (down[b] \o msgs) \o <<RowEnd(c)>>, d, table'[d])
        BY <1>4, <2>1, <4>2, GoodChain
      <4> QED BY <3>1, <4>3
    <3> QED BY <1>2, <2>3, <3>2 DEF SameListeners, Follows
  <2>4. CASE b \in linked /\ ~Hears(b)
    <3>1. down'[b] = down[b] \o <<RowEnd(c)>>
      <4>1. down'[b] = Append(down[b], RowEnd(c))
        BY <1>1, <2>4 DEF Pulsed, ToAll
      <4> QED BY <2>1, <4>1
    <3>2. ASSUME NEW d \in Devices
          PROVE  mirror[b][d] = None /\ Good(mirror[b][d], down'[b], d, None)
      <4>1. mirror[b][d] = None /\ Good(None, down[b], d, None)
        BY <2>4 DEF MirrorInv, Follows
      <4>2. Good(None, down[b] \o <<RowEnd(c)>>, d, None)
        BY <1>4, <2>1, <4>1, GoodChain
      <4> QED BY <3>1, <4>1, <4>2
    <3>3. \A i \in 1..Len(down'[b]) : down'[b][i].dev = None
      <4>1. \A i \in 1..Len(down[b]) : down[b][i].dev = None
        BY <2>4 DEF MirrorInv, Follows
      <4>2. /\ Len(down[b]) \in Nat /\ Len(down'[b]) = Len(down[b]) + 1
            /\ \A i \in 1..Len(down[b]) : down'[b][i] = down[b][i]
            /\ down'[b][Len(down[b]) + 1] = RowEnd(c)
        BY <2>1, <3>1
      <4>3. \A i \in 1..Len(down[b]) + 1 : i \in 1..Len(down[b]) \/ i = Len(down[b]) + 1
        BY <4>2
      <4> QED BY <1>3, <4>1, <4>2, <4>3
    <3> QED BY <1>2, <2>4, <3>2, <3>3 DEF SameListeners, Follows
  <2> QED BY <2>2, <2>3, <2>4
<1> QED BY <1>2, <1>5 DEF SameListeners, MirrorInv

LEMMA HostStepMirrors ==
  ASSUME TypeOK, LinkInv, MirrorInv, NEW c \in Clients, HostStep(c)
  PROVE  MirrorInv'
<1>1. CASE OnPing(c)
  BY <1>1, SameLinks, MirrorKept DEF OnPing, devVars, linkVars
<1> QED BY <1>1, OnClaimMirrors, OnReleaseMirrors, OnWorldReadyMirrors, DisconnectSlotMirrors
        DEF HostStep

LEMMA OnVerdictMirrors ==
  ASSUME TypeOK, MirrorInv, NEW c \in Clients, OnVerdict(c)
  PROVE  MirrorInv'
<1> DEFINE v == Head(down[c])
<1>1. /\ down[c] # <<>> /\ down[c] \in Seq(Verdict)
      /\ down' = [down EXCEPT ![c] = Tail(@)]
      /\ UNCHANGED <<table, linked, leaving, ready>>
  BY DEF OnVerdict, TypeOK, linkVars
<1>2. Hears(c) /\ v \in Verdict /\ v = down[c][1] /\ v.dev \in Devices
  <2>1. v \in Verdict /\ v = down[c][1] /\ 1 \in 1..Len(down[c])
    BY <1>1
  <2>2. v.dev # None
    BY DEF OnVerdict
  <2>3. Hears(c)
    BY <2>1, <2>2 DEF MirrorInv, Follows
  <2> QED BY <2>1, <2>2, <2>3 DEF Verdict
<1>3. /\ \A b \in Clients : b # c => mirror'[b] = mirror[b] /\ down'[b] = down[b]
      /\ down'[c] = Tail(down[c])
  BY <1>1 DEF OnVerdict, TypeOK
<1>4. \A b \in Clients : Gated(b)' /\ (Hears(b)' <=> Hears(b))
  BY <1>1 DEF MirrorInv, Gated, Hears
<1>5. ASSUME NEW d \in Devices PROVE Good(mirror'[c][d], down'[c], d, table[d])
  <2>1. /\ Good(IF v.dev = d THEN Value(v) ELSE mirror[c][d], Tail(down[c]), d, table[d])
        /\ v.dev = d /\ ~v.busy => mirror[c][d] = v.slot
    <3>1. Good(mirror[c][d], down[c], d, table[d])
      BY <1>2 DEF MirrorInv, Follows
    <3> QED BY <1>1, <1>2, <3>1, GoodTail
  <2>2. mirror'[c][d] = IF v.dev = d THEN Value(v) ELSE mirror[c][d]
    <3>1. CASE v.busy
      <4>1. mirror' = [mirror EXCEPT ![c][v.dev] = v.slot]
        BY <3>1 DEF OnVerdict
      <4> QED BY <1>2, <3>1, <4>1 DEF TypeOK, Value
    <3>2. CASE ~v.busy /\ mirror[c][v.dev] = v.slot
      <4>1. mirror' = [mirror EXCEPT ![c][v.dev] = None]
        BY <3>2 DEF OnVerdict
      <4> QED BY <1>2, <3>2, <4>1 DEF TypeOK, Value
    <3>3. CASE ~v.busy /\ mirror[c][v.dev] # v.slot
      <4>1. mirror' = mirror /\ v.dev # d
        BY <2>1, <3>3 DEF OnVerdict
      <4> QED BY <4>1
    <3> QED BY <3>1, <3>2, <3>3
  <2> QED BY <1>3, <2>1, <2>2
<1>6. Follows(c)'
  BY <1>1, <1>2, <1>4, <1>5 DEF Follows
<1>7. \A b \in Clients : b # c => Follows(b)'
  BY <1>1, <1>3, <1>4 DEF MirrorInv, Follows
<1> QED BY <1>4, <1>6, <1>7 DEF MirrorInv

\* The end of a row takes nothing from the mirror.
LEMMA OnRowEndMirrors ==
  ASSUME TypeOK, MirrorInv, NEW c \in Clients, OnRowEnd(c)
  PROVE  MirrorInv'
<1> DEFINE v == Head(down[c])
<1>1. /\ down[c] # <<>> /\ down[c] \in Seq(Verdict) /\ v = down[c][1] /\ v.dev = None
      /\ down' = [down EXCEPT ![c] = Tail(@)]
      /\ UNCHANGED <<table, linked, leaving, ready>>
  BY DEF OnRowEnd, TypeOK, linkVars
<1>2. \A b \in Clients : Gated(b)' /\ (Hears(b)' <=> Hears(b))
  BY <1>1 DEF MirrorInv, Gated, Hears
<1>3. ASSUME NEW d \in Devices
      PROVE  /\ mirror[c][d] # v.slot
             /\ Good(mirror[c][d], Tail(down[c]), d, IF Hears(c) THEN table[d] ELSE None)
  <2>1. Good(mirror[c][d], down[c], d, IF Hears(c) THEN table[d] ELSE None)
    BY DEF MirrorInv, Follows
  <2>2. v.dev # d
    BY <1>1, PlayersAssumption
  <2> HIDE DEF v
  <2> QED BY <1>1, <2>1, <2>2, GoodTail
<1>4. mirror' = mirror
  <2>1. mirror \in [Clients -> [Devices -> Slots]]
    BY DEF TypeOK
  <2>2. mirror' = [mirror EXCEPT ![c] =
                    [d \in Devices |-> IF mirror[c][d] = v.slot THEN None ELSE mirror[c][d]]]
    BY DEF OnRowEnd
  <2>3. [d \in Devices |-> IF mirror[c][d] = v.slot THEN None ELSE mirror[c][d]] = mirror[c]
    BY <1>3, <2>1
  <2> QED BY <2>1, <2>2, <2>3
<1>5. down'[c] = Tail(down[c]) /\ \A b \in Clients : b # c => down'[b] = down[b]
  BY <1>1 DEF TypeOK
<1>6. ~Hears(c) => \A i \in 1..Len(down'[c]) : down'[c][i].dev = None
  <2>1. /\ Len(down[c]) \in Nat \ {0} /\ Len(down'[c]) = Len(down[c]) - 1
        /\ \A i \in 1..Len(down[c]) - 1 : i + 1 \in 1..Len(down[c])
                                          /\ down'[c][i] = down[c][i + 1]
    BY <1>1, <1>5, TailShape
  <2> QED BY <2>1 DEF MirrorInv, Follows
<1>7. Follows(c)'
  BY <1>1, <1>2, <1>3, <1>4, <1>5, <1>6 DEF MirrorInv, Follows
<1>8. \A b \in Clients : b # c => Follows(b)'
  BY <1>1, <1>2, <1>4, <1>5 DEF MirrorInv, Follows
<1> QED BY <1>2, <1>7, <1>8 DEF MirrorInv

LEMMA ClientStepMirrors ==
  ASSUME TypeOK, LinkInv, MirrorInv, NEW c \in Clients, ClientStep(c)
  PROVE  MirrorInv'
<1>1. CASE ClientTick(c)
  BY <1>1, SameLinks, MirrorKept DEF ClientTick, linkVars
<1>2. CASE OnVerdict(c)
  BY <1>2, OnVerdictMirrors
<1>3. CASE Join(c)
  <2>1. /\ c \notin linked /\ c \notin leaving /\ linked' = linked \cup {c}
        /\ UNCHANGED <<mirror, leaving, ready, table, down>>
    BY <1>3 DEF Join, devVars
  <2>2. SameListeners
    BY <2>1 DEF MirrorInv, SameListeners, Gated, Hears
  <2> QED BY <2>1, <2>2, MirrorKept
<1>4. CASE Announce(c)
  BY <1>4, SameLinks, MirrorKept DEF Announce, devVars
<1>5. CASE Leave(c)
  <2>1. /\ c \in linked /\ linked' = linked \ {c} /\ leaving' = leaving \cup {c}
        /\ UNCHANGED <<ready, table>>
        /\ down'[c] = <<>> /\ mirror'[c] = [d \in Devices |-> None]
        /\ \A b \in Clients : b # c => down'[b] = down[b] /\ mirror'[b] = mirror[b]
    BY <1>5 DEF Leave, TypeOK
  <2>2. \A b \in Clients : Gated(b)'
    BY <2>1 DEF MirrorInv, Gated
  <2>3. Follows(c)'
    <3>1. ~Hears(c)' /\ Len(down'[c]) = 0 /\ 1..0 = {}
      BY <2>1 DEF Hears
    <3> QED BY <2>1, <3>1, GoodNone DEF Follows
  <2>4. \A b \in Clients : b # c => Follows(b)'
    BY <2>1 DEF MirrorInv, Follows, Hears
  <2> QED BY <2>2, <2>3, <2>4 DEF MirrorInv
<1>6. CASE OnRowEnd(c)
  BY <1>6, OnRowEndMirrors
<1> QED BY <1>1, <1>2, <1>3, <1>4, <1>5, <1>6 DEF ClientStep

LEMMA MirrorInvariant == Spec => []MirrorInv
<1>1. Init => MirrorInv
  <2> SUFFICES ASSUME Init, NEW c \in Clients PROVE Gated(c) /\ Follows(c)
    BY DEF MirrorInv
  <2>1. down[c] = <<>> /\ \A d \in Devices : mirror[c][d] = None /\ table[d] = None
    BY DEF Init
  <2>2. \A d \in Devices : Good(mirror[c][d], down[c], d, table[d])
    BY <2>1, GoodNone
  <2>3. Gated(c)
    BY DEF Init, Gated
  <2>4. Len(down[c]) = 0 /\ 1..0 = {}
    BY <2>1
  <2> QED BY <2>1, <2>2, <2>3, <2>4 DEF Follows
<1>2. TypeOK /\ LinkInv /\ ClaimInv /\ MirrorInv /\ [Next]_vars => MirrorInv'
  <2> SUFFICES ASSUME TypeOK, LinkInv, ClaimInv, MirrorInv, [Next]_vars PROVE MirrorInv'
    OBVIOUS
  <2>1. CASE UNCHANGED vars
    BY <2>1, SameLinks, MirrorKept DEF vars, devVars, linkVars
  <2> QED BY <2>1, PlayerMirrors, HostTickMirrors, FsmHoldMirrors, DisconnectAllMirrors,
            HostStepMirrors, ClientStepMirrors DEF Next
<1> QED BY <1>1, <1>2, TypeCorrect, LinkInvariant, ClaimInvariant, PTL DEF Spec

\* Whoever the host tells of the devices is being told all of it: reading on
\* brings its mirror to the host's table, every release it reads is of the
\* holder it knows, and the end of a slot's row finds no entry of that slot
\* (SendClaim, QueueConnectBroadcastForSlot, OnReliable, OnDisconnectForSlot).
THEOREM MirrorsCatchUp == Spec => []MirrorCatchesUp
BY TypeCorrect, MirrorInvariant, FollowersCatchUp, PTL
=============================================================================
