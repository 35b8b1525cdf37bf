-------------------------- MODULE DeviceOccupancy --------------------------
(***************************************************************************)
(* Who is at which enterable device (device_occupancy.cpp, with the ping   *)
(* attribution of desk_input_sync.cpp and the world-ready gate of          *)
(* session.cpp).                                                           *)
(*                                                                         *)
(* The host keeps a table from device to holder.  A client enters first    *)
(* and asks afterwards: its claim travels to the host, which grants it to  *)
(* everybody or tells the loser alone.  Each client keeps a mirror of the  *)
(* table, fed by the host's verdicts, and denies entry by it.              *)
(*                                                                         *)
(* DeviceClaim and DeskInput share the Normal lane, so each direction of a *)
(* client's connection is one first-in first-out queue.  All the code here *)
(* runs on the game thread, so a handler is one step.                      *)
(***************************************************************************)
EXTENDS Naturals, Sequences, SequencesExt, FiniteSets

CONSTANTS
  Clients,      \* slots 1 .. kMaxPeers - 1
  Host,         \* slot 0
  Devices,      \* claim keys
  Desk,         \* kDeskClaim
  None,         \* 0xFF: no slot; also the empty claim key
  MaxEvents     \* bound: devices opened, pings started, announces and joins

ASSUME PlayersAssumption ==
  /\ IsFiniteSet(Devices)
  /\ Host \notin Clients
  /\ None \notin Clients \cup {Host} \cup Devices
  /\ Desk \in Devices
  /\ MaxEvents \in Nat

Players == Clients \cup {Host}
Slots   == Players \cup {None}
Keys    == Devices \cup {None}

VARIABLES
  table,     \* the host's g_busy
  mirror,    \* each client's g_busy
  screen,    \* mainPlayer.activeInterface: the device a player is at
  seen,      \* g_localWidget: the screen its last poll saw
  claim,     \* g_localKey: the device it holds or has asked for
  early,     \* history: that claim was made before the world-ready announce
  pinger,    \* the host's g_pingSetterSlot
  fsmHold,   \* the host's g_deskFsmHold
  pinging,   \* players whose own ping machine runs
  linked,    \* clients with a connection
  announced, \* clients that have sent ClientWorldReady
  ready,     \* the host's slotWorldReady_
  leaving,   \* slots whose departure the game thread has yet to see
  met,       \* the host's g_wasConnected
  up,        \* to the host, by client
  down,      \* from the host, by client
  left       \* events MaxEvents still allows

devVars  == <<table, mirror, screen, seen, claim, early>>
pingVars == <<pinger, fsmHold, pinging>>
linkVars == <<linked, announced, ready, leaving, met>>
vars     == <<devVars, pingVars, linkVars, up, down, left>>

\* What a client sends: a claim or a release of a device, an edge of its ping
\* (DeskInput), the announce (ClientWorldReady).
Request ==
  [op : {"claim", "release"}, dev : Devices]
    \cup [op : {"pingOn", "pingOff", "ready"}, dev : {None}]

\* DeviceClaimPayload, from the host; and, in the same lane, the roster row by
\* which a client learns that a slot's player is gone.
Verdict ==
  [dev : Devices, slot : Players, busy : BOOLEAN]
    \cup [dev : {None}, slot : Clients, busy : {FALSE}]

Ask(op, d)   == [op |-> op, dev |-> d]
Busy(d, p)   == [dev |-> d, slot |-> p, busy |-> TRUE]
Freed(d, p)  == [dev |-> d, slot |-> p, busy |-> FALSE]
RowEnd(c)    == [dev |-> None, slot |-> c, busy |-> FALSE]

------------------------------------------------------------------------------
\* The send gate: nothing of a world goes to a slot that has not announced one.
Hears(c) == ready[c] /\ c \in linked

\* SendClaim of the host: to every slot whose gate is open.
ToAll(msgs) == [c \in Clients |-> IF Hears(c) THEN down[c] \o msgs ELSE down[c]]

\* HolderOf, by the table of the player asked.
HolderOf(p, d) == IF p = Host THEN table[d] ELSE mirror[p][d]

BusyByOther(p, d) == HolderOf(p, d) \notin {None, p}

\* The entry of the key a player releases is erased whoever holds it: the host
\* clears its own claims so.
Erase(d) == IF d = None THEN table ELSE [table EXCEPT ![d] = None]

\* ForceExitLocal: the claim is dropped first, so that no release is sent for
\* it.  The dispatch may fail, and the player then keeps the screen.
ForceExitLocal(p) ==
  /\ claim' = [claim EXCEPT ![p] = None]
  /\ \E w \in {None, screen[p]} :
       /\ screen' = [screen EXCEPT ![p] = w]
       /\ seen'   = [seen EXCEPT ![p] = w]

\* A client whose world is down has nothing to exit: it forgets the claim, and
\* its next poll finds the screen gone.
ForgetClaim(p) ==
  /\ screen[p] = None
  /\ claim' = [claim EXCEPT ![p] = None]
  /\ UNCHANGED <<screen, seen>>

------------------------------------------------------------------------------
Init ==
  /\ linked \in SUBSET Clients /\ announced \in SUBSET linked
  /\ table  = [d \in Devices |-> None]
  /\ mirror = [c \in Clients |-> [d \in Devices |-> None]]
  /\ screen = [p \in Players |-> None]
  /\ seen   = [p \in Players |-> None]
  /\ claim  = [p \in Players |-> None]
  /\ early  = {}
  /\ pinger = None
  /\ fsmHold = FALSE
  /\ pinging = {}
  /\ ready  = [c \in Clients |-> c \in announced]
  /\ leaving = {}
  /\ met = (linked # {})
  /\ up     = [c \in Clients |-> <<>>]
  /\ down   = [c \in Clients |-> <<>>]
  /\ left   = MaxEvents

\* The players -----------------------------------------------------------------

\* E at a device.  OnUseInputPre denies it, while anybody is connected, when
\* the table says that another is there.
Enter(p, d) ==
  /\ p \in linked \cup {Host}
  /\ left > 0
  /\ screen[p] = None
  /\ linked # {} => ~BusyByOther(p, d)
  /\ screen' = [screen EXCEPT ![p] = d]
  /\ left' = left - 1
  /\ UNCHANGED <<table, mirror, seen, claim, early, pingVars, linkVars, up, down>>

\* Every way out of a device, a world that goes down included: it shows in
\* activeInterface.
Exit(p) ==
  /\ screen[p] # None
  /\ screen' = [screen EXCEPT ![p] = None]
  /\ UNCHANGED <<table, mirror, seen, claim, early, pingVars, linkVars, up, down, left>>

\* The host's attribution after an edge of p's ping: one slot, the last to start.
Attributed(p, op) ==
  IF op = "pingOn" THEN p ELSE IF pinger = p THEN None ELSE pinger

\* PollOnce finds an edge of the own machine.  An edge nobody is connected to
\* hear is absorbed.
PingEdge(p, op) ==
  /\ pinger' = IF p = Host /\ linked # {} THEN Attributed(p, op) ELSE pinger
  /\ up' = IF p = Host THEN up ELSE [up EXCEPT ![p] = Append(@, Ask(op, None))]
  /\ UNCHANGED <<devVars, fsmHold, linkVars, down>>

\* The ping machine is started at the desk and runs on without its player.
StartPing(p) ==
  /\ left > 0
  /\ screen[p] = Desk /\ p \notin pinging
  /\ pinging' = pinging \cup {p}
  /\ left' = left - 1
  /\ PingEdge(p, "pingOn")

EndPing(p) ==
  /\ p \in pinging
  /\ pinging' = pinging \ {p}
  /\ PingEdge(p, "pingOff")
  /\ UNCHANGED left

\* The poll (Tick) ---------------------------------------------------------------

\* Variant: a claim the channel refuses is not tried again.
ClaimUnsent(w) == <<>>

\* What a poll asks the host for.
ClaimOf(w) == IF w = None THEN <<>> ELSE <<Ask("claim", w)>>

\* The screen of a client has changed: release what it held, claim what it is
\* at.  A device its mirror gives to another is left at once, unclaimed.
ClientTick(c) ==
  LET w == screen[c]
      releases == IF claim[c] = None THEN <<>> ELSE <<Ask("release", claim[c])>>
  IN /\ c \in linked
     /\ w # seen[c]
     /\ IF w # None /\ BusyByOther(c, w)
        THEN /\ ForceExitLocal(c)
             /\ up' = [up EXCEPT ![c] = @ \o releases]
             /\ early' = early \ {c}
        ELSE /\ claim' = [claim EXCEPT ![c] = w]
             /\ seen' = [seen EXCEPT ![c] = w]
             /\ up' = [up EXCEPT ![c] =
                         @ \o releases \o ClaimOf(w)]
             /\ early' = IF w # None /\ c \notin announced THEN early \cup {c}
                                                           ELSE early \ {c}
             /\ UNCHANGED screen
     /\ UNCHANGED <<table, mirror, pingVars, linkVars, down, left>>

\* The host arbitrates its own claim on the spot.
HostTick ==
  LET w == screen[Host]
      old == claim[Host]
      releases == IF old = None THEN <<>> ELSE <<Freed(old, Host)>>
  IN /\ w # seen[Host]
     /\ IF w # None /\ Erase(old)[w] \notin {None, Host}
        THEN /\ ForceExitLocal(Host)
             /\ table' = Erase(old)
             /\ down' = ToAll(releases)
             /\ UNCHANGED fsmHold
        ELSE /\ claim' = [claim EXCEPT ![Host] = w]
             /\ seen' = [seen EXCEPT ![Host] = w]
             /\ table' = IF w = None THEN Erase(old) ELSE [Erase(old) EXCEPT ![w] = Host]
             /\ down' = ToAll(releases \o IF w = None THEN <<>> ELSE <<Busy(w, Host)>>)
             /\ fsmHold' = (fsmHold /\ w # Desk)
             /\ UNCHANGED screen
     /\ UNCHANGED <<mirror, early, pinger, pinging, linkVars, up, left>>

\* ReconcileDeskFsmHold: while a ping runs the desk is its player's.
AssertFsmHold ==
  /\ linked # {}
  /\ pinger # None
  /\ table[Desk] = None
  /\ table' = [table EXCEPT ![Desk] = pinger]
  /\ fsmHold' = TRUE
  /\ down' = ToAll(<<Busy(Desk, pinger)>>)
  /\ UNCHANGED <<mirror, screen, seen, claim, early, pinger, pinging, linkVars, up, left>>

\* Variant: an entry that is gone already is released all the same.
FreedAnyway(d) == <<Freed(d, table[d])>>

FreedIfHeld(d) == IF table[d] = None THEN <<>> ELSE <<Freed(d, table[d])>>

DropFsmHold ==
  /\ linked # {}
  /\ pinger = None /\ fsmHold
  /\ fsmHold' = FALSE
  /\ table' = Erase(Desk)
  /\ down' = ToAll(FreedIfHeld(Desk))
  /\ UNCHANGED <<mirror, screen, seen, claim, early, pinger, pinging, linkVars, up, left>>

\* What the host takes from a client (OnReliable, OnDeskInput) -------------------

Take(c, op) == up[c] # <<>> /\ Head(up[c]).op = op /\ up' = [up EXCEPT ![c] = Tail(@)]

\* Variant: a player who sits down keeps the mark of its ping.
GrantKeepingHold(c, d) ==
  /\ table' = [table EXCEPT ![d] = c]
  /\ down' = ToAll(<<Busy(d, c)>>)
  /\ UNCHANGED fsmHold

\* Everybody is told; a claim of the desk ends the mark of a ping on its entry.
Grant(c, d) ==
  /\ table' = [table EXCEPT ![d] = c]
  /\ down' = ToAll(<<Busy(d, c)>>)
  /\ fsmHold' = (fsmHold /\ d # Desk)

\* The loser alone is told who holds the device, if its gate is open.
Deny(c, d) ==
  /\ down' = IF Hears(c) THEN [down EXCEPT ![c] = Append(@, Busy(d, table[d]))] ELSE down
  /\ UNCHANGED <<table, fsmHold>>

\* First claim wins.
OnClaim(c) ==
  /\ Take(c, "claim")
  /\ LET d == Head(up[c]).dev
     IN IF table[d] \in {None, c} THEN Grant(c, d) ELSE Deny(c, d)
  /\ UNCHANGED <<mirror, screen, seen, claim, early, pinger, pinging, linkVars, left>>

\* A release counts only from the holder.
OnRelease(c) ==
  /\ Take(c, "release")
  /\ LET d == Head(up[c]).dev
     IN IF table[d] = c
        THEN /\ table' = Erase(d)
             /\ down' = ToAll(<<Freed(d, c)>>)
        ELSE UNCHANGED <<table, down>>
  /\ UNCHANGED <<mirror, screen, seen, claim, early, pingVars, linkVars, left>>

OnPing(c) ==
  /\ \E op \in {"pingOn", "pingOff"} : Take(c, op) /\ pinger' = Attributed(c, op)
  /\ UNCHANGED <<devVars, fsmHold, pinging, linkVars, down, left>>

\* QueueConnectBroadcastForSlot.
Snapshot == SetToSeq({Busy(d, table[d]) : d \in {e \in Devices : table[e] # None}})

\* ClientWorldReady: the gate opens and the slot is sent the table.  A ping the
\* host started alone is found again (SeedPingAttributionFromMachine).
OnWorldReady(c) ==
  /\ Take(c, "ready")
  /\ ready' = [ready EXCEPT ![c] = TRUE]
  /\ down' = [down EXCEPT ![c] = @ \o Snapshot]
  /\ pinger' = IF pinger = None /\ Host \in pinging THEN Host ELSE pinger
  /\ UNCHANGED <<devVars, fsmHold, pinging, linked, announced, leaving, met, left>>

\* What a client takes from the host (OnReliable) --------------------------------

\* Variant: whatever the verdict, its receiver stays.
NeverLost(c, v) == FALSE

\* The verdict names another for the device the client takes itself to hold.
Lost(c, v) == v.busy /\ v.slot # c /\ claim[c] = v.dev

OnVerdict(c) ==
  /\ down[c] # <<>> /\ Head(down[c]).dev # None
  /\ down' = [down EXCEPT ![c] = Tail(@)]
  /\ LET v == Head(down[c])
     IN /\ mirror' = IF v.busy THEN [mirror EXCEPT ![c][v.dev] = v.slot]
                     ELSE IF mirror[c][v.dev] = v.slot THEN [mirror EXCEPT ![c][v.dev] = None]
                     ELSE mirror
        /\ IF Lost(c, v)
           THEN (ForceExitLocal(c) \/ ForgetClaim(c)) /\ early' = early \ {c}
           ELSE UNCHANGED <<screen, seen, claim, early>>
  /\ UNCHANGED <<table, pingVars, linkVars, up, left>>

\* A roster row ends: OnDisconnectForSlot on a client, which tells nobody.
OnRowEnd(c) ==
  /\ down[c] # <<>> /\ Head(down[c]).dev = None
  /\ down' = [down EXCEPT ![c] = Tail(@)]
  /\ mirror' = [mirror EXCEPT ![c] =
                  [d \in Devices |-> IF @[d] = Head(down[c]).slot THEN None ELSE @[d]]]
  /\ UNCHANGED <<table, screen, seen, claim, early, pingVars, linkVars, up, left>>

\* Arrivals and departures ---------------------------------------------------------

Join(c) ==
  /\ left > 0
  /\ c \notin linked /\ c \notin leaving
  /\ linked' = linked \cup {c}
  /\ met' = TRUE
  /\ left' = left - 1
  /\ UNCHANGED <<devVars, pingVars, announced, ready, leaving, up, down>>

\* Once per world: a client that changes worlds announces again.
Announce(c) ==
  /\ left > 0
  /\ c \in linked
  /\ announced' = announced \cup {c}
  /\ up' = [up EXCEPT ![c] = Append(@, Ask("ready", None))]
  /\ left' = left - 1
  /\ UNCHANGED <<devVars, pingVars, linked, ready, leaving, met, down>>

\* The connection ends; the inbox of the slot goes with it.  On the client
\* OnDisconnect forgets everything.
Leave(c) ==
  /\ c \in linked
  /\ linked' = linked \ {c}
  /\ announced' = announced \ {c}
  /\ leaving' = leaving \cup {c}
  /\ up'   = [up EXCEPT ![c] = <<>>]
  /\ down' = [down EXCEPT ![c] = <<>>]
  /\ mirror' = [mirror EXCEPT ![c] = [d \in Devices |-> None]]
  /\ screen' = [screen EXCEPT ![c] = None]
  /\ seen'   = [seen EXCEPT ![c] = None]
  /\ claim'  = [claim EXCEPT ![c] = None]
  /\ early'  = early \ {c}
  /\ pinging' = pinging \ {c}
  /\ UNCHANGED <<table, pinger, fsmHold, ready, met, left>>

\* PulseRosterRows, in the same tick: the row goes to every connection, a world
\* announced or not.
Pulsed(lanes, c) ==
  [b \in Clients |-> IF b \in linked THEN Append(lanes[b], RowEnd(c)) ELSE lanes[b]]

\* Variant: the leaver's claims vanish from the table alone.
DropClaimsQuietly(c) ==
  /\ table' = [d \in Devices |-> IF table[d] = c THEN None ELSE table[d]]
  /\ down' = Pulsed(down, c)

\* OnDisconnectForSlot on the host: the leaver's claims are released for it.
\* Then its roster row ends.
DropClaims(c) ==
  /\ table' = [d \in Devices |-> IF table[d] = c THEN None ELSE table[d]]
  /\ down' = Pulsed(ToAll(SetToSeq({Freed(d, c) : d \in {e \in Devices : table[e] = c}})), c)

\* Variant: its ping is remembered.
KeepPing(c) == UNCHANGED pinger

\* OnPeerLeft of the desk.
DropPing(c) == pinger' = IF pinger = c THEN None ELSE pinger

\* The game thread sees the departure: DisconnectSlot.
DisconnectSlot(c) ==
  /\ c \in leaving
  /\ leaving' = leaving \ {c}
  /\ ready' = [ready EXCEPT ![c] = FALSE]
  /\ DropClaims(c)
  /\ DropPing(c)
  /\ UNCHANGED <<mirror, screen, seen, claim, early, fsmHold, pinging,
                 linked, announced, met, up, left>>

\* The last peer is gone: OnDisconnect of both modules, on the host.  A host at
\* a device claims it anew at its next poll.
DisconnectAll ==
  /\ met /\ linked = {}
  /\ met' = FALSE
  /\ table' = [d \in Devices |-> None]
  /\ claim' = [claim EXCEPT ![Host] = None]
  /\ seen'  = [seen EXCEPT ![Host] = None]
  /\ fsmHold' = FALSE
  /\ pinger' = None
  /\ UNCHANGED <<mirror, screen, early, pinging, linked, announced, ready, leaving,
                 up, down, left>>

------------------------------------------------------------------------------
ClientStep(c) ==
  \/ ClientTick(c) \/ OnVerdict(c) \/ OnRowEnd(c) \/ Join(c) \/ Announce(c) \/ Leave(c)
HostStep(c) ==
  OnClaim(c) \/ OnRelease(c) \/ OnPing(c) \/ OnWorldReady(c) \/ DisconnectSlot(c)
PlayerStep(p) ==
  \/ \E d \in Devices : Enter(p, d)
  \/ Exit(p) \/ StartPing(p) \/ EndPing(p)

Next ==
  \/ \E c \in Clients : ClientStep(c) \/ HostStep(c)
  \/ \E p \in Players : PlayerStep(p)
  \/ HostTick \/ AssertFsmHold \/ DropFsmHold \/ DisconnectAll

\* The two pumps run at every frame and the lanes deliver.
Fairness ==
  \A c \in Clients : WF_vars(OnVerdict(c) \/ OnRowEnd(c)) /\ WF_vars(HostStep(c))

Spec == Init /\ [][Next]_vars /\ Fairness

------------------------------------------------------------------------------
TypeOK ==
  /\ table  \in [Devices -> Slots]
  /\ mirror \in [Clients -> [Devices -> Slots]]
  /\ {screen, seen, claim} \subseteq [Players -> Keys]
  /\ early \subseteq Clients
  /\ pinger \in Slots /\ fsmHold \in BOOLEAN /\ pinging \subseteq Players
  /\ linked \subseteq Clients /\ announced \subseteq linked /\ leaving \subseteq Clients
  /\ ready \in [Clients -> BOOLEAN] /\ met \in BOOLEAN
  /\ up   \in [Clients -> Seq(Request)]
  /\ down \in [Clients -> Seq(Verdict)]
  /\ left \in 0..MaxEvents

AskedFor(c, d)  == \E i \in DOMAIN up[c] : up[c][i] = Ask("claim", d)
ToldLost(c, d)  == \E i \in DOMAIN down[c] :
                     down[c][i].dev = d /\ down[c][i].busy /\ down[c][i].slot # c

\* Who takes itself to hold a device is right, or its claim is on the way to
\* the host, or the news that it lost on the way back: nobody sits on for good
\* at a device that is another's, and no entry is torn down under its player
\* (a ping's end included).  The loss notice of a claim older than its
\* client's announce is lost at the gate, so such claims are left out.
ClaimIsAccounted ==
  /\ claim[Host] # None => table[claim[Host]] = Host
  /\ \A c \in Clients \ early :
       claim[c] # None =>
         table[claim[c]] = c \/ AskedFor(c, claim[c]) \/ ToldLost(c, claim[c])

Quiet == \A c \in Clients : up[c] = <<>> /\ down[c] = <<>>

\* The promise to the players: with nothing on the way, a device has one of
\* them at most (device_occupancy.h, "limited to ONE peer at a time").
OneAtADevice ==
  Quiet => \A p, q \in Players \ early :
             claim[p] # None /\ claim[p] = claim[q] => p = q

\* What a client's mirror will say of a device once it has read the first n
\* messages on the way to it, if a release is always its holder's and the end
\* of a row takes no entry.
MirrorAfter(c, d, n) ==
  LET about == {i \in 1..n : down[c][i].dev = d}
      last  == CHOOSE i \in about : \A j \in about : j <= i
  IN IF about = {} THEN mirror[c][d]
     ELSE IF down[c][last].busy THEN down[c][last].slot ELSE None

\* A client whose gate is open is being told all there is to know: reading on
\* brings its mirror to the host's table, no release it reads is of somebody
\* else's entry, and the end of a slot's row finds no entry of that slot: not
\* the leaver's, released before, nor a claim of whoever sits there next.
\* (Join between two broadcasts, departures, ping holds and loss notices all go
\* through the same lane.)
MirrorCatchesUp ==
  \A c \in Clients : Hears(c) => \A d \in Devices :
    /\ MirrorAfter(c, d, Len(down[c])) = table[d]
    /\ \A i \in DOMAIN down[c] :
         down[c][i].dev = d /\ ~down[c][i].busy
           => MirrorAfter(c, d, i - 1) = down[c][i].slot
    /\ \A i \in DOMAIN down[c] :
         down[c][i].dev = None => MirrorAfter(c, d, i - 1) # down[c][i].slot

\* No device is locked by a slot nobody is in: an entry is of a player who is
\* here, or whose departure is about to be seen ("so nobody stays locked out
\* by a leaver", device_occupancy.h).
HolderIsHere ==
  \A d \in Devices : table[d] \in Clients => table[d] \in linked \cup leaving

\* A claim is decided: its client gets the device or loses it.
ClaimIsDecided ==
  \A c \in Clients :
    (claim[c] # None /\ c \notin early) ~> (claim[c] = None \/ table[claim[c]] = c)
=============================================================================
