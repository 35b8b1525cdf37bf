---------------------------- MODULE StreamSlots ----------------------------
(***************************************************************************)
(* The pose streams of one client slot (net/session_streams.cpp): the      *)
(* client that sits in it samples its pose onto unreliable datagrams, the  *)
(* host keeps the newest of each channel and relays it, and another client *)
(* (the watcher) keeps the newest the host relays.  Datagrams are lost,    *)
(* duplicated and reordered; a process numbers its datagrams from 0 with   *)
(* one 32-bit counter for all channels and receivers; a receiver takes a   *)
(* sample when its number is ahead of the last one's by a signed           *)
(* difference.  The slot is filled by one connection after another, and    *)
(* the watcher comes and goes.                                             *)
(*                                                                         *)
(* The datagrams are sets that a delivery leaves alone: one delivered      *)
(* again is a duplicate, one never delivered is lost.  A sample is known   *)
(* by its connection (conn) and its number before wrapping (at).           *)
(***************************************************************************)
EXTENDS Naturals

CONSTANTS
  Channels,   \* the per-peer channels: pose, prop, ragdoll, hand, desk cursor
  Kept,       \* those ResetPeerRemoteState passes over: the desk cursor
  Half,       \* half of the numbers there are: 2^31 in the code
  Life,       \* a datagram is delivered before its process sends Life more
  MaxSeq,     \* bound: the numbers a process takes
  MaxConns,   \* bound: the connections that take the slot
  MaxStores   \* bound: the samples an entry takes between two resets

ASSUME StreamAssumption ==
  /\ Kept \subseteq Channels
  /\ Half \in Nat \ {0} /\ Life \in 1..Half
  /\ MaxSeq \in Nat /\ MaxConns \in Nat /\ MaxStores \in Nat

VARIABLES
  conn,       \* the connection that took the slot last, 0 before the first
  seated,     \* it still has the slot
  sent,       \* sendSeq_ of its process, before wrapping
  up,         \* its datagrams on the way to the host
  linked,     \* the watcher is connected to the host ...
  ready,      \* ... and has announced its world
  down,       \* the relayed datagrams on the way to the watcher
  view,       \* at each end, the slot's entry of each channel
  heard,      \* history: how far an end has heard the connection on a channel
  mixed,      \* history: the watcher's entries that hold, or held since their
              \* last reset, a sample of an earlier connection
  unread      \* history: the entries stored since they were last read

vars == <<conn, seated, sent, up, linked, ready, down, view, heard, mixed, unread>>

Ends   == {"host", "watcher"}
Width  == 2 * Half
Conns  == 1..MaxConns
Ats    == 0..MaxSeq - 1
Sample == [ch : Channels, conn : Conns, at : Ats]

\* hasRemote_, lastRemoteSeq_, remotePoses_, remoteStamp_ and lastReadStamp_ of
\* one slot and channel.  What a cleared entry's pose says is never read.
Entry == [has : BOOLEAN, last : 0..Width - 1, conn : 0..MaxConns, at : 0..MaxSeq,
          stamp : 0..MaxStores, read : 0..MaxStores]
Cleared == [has |-> FALSE, last |-> 0, conn |-> 0, at |-> 0, stamp |-> 0, read |-> 0]

-----------------------------------------------------------------------------
(* Newest wins.                                                            *)

\* seq - last in unsigned arithmetic of Width values.
Ahead(seq, last) == IF seq >= last THEN seq - last ELSE seq + Width - last

\* Variant: the numbers are compared as they are.
StaleByValue(entry, s) == entry.has /\ s.at % Width <= entry.last

\* Variant: only a duplicate is stale.
StaleIfSame(entry, s) == entry.has /\ s.at % Width = entry.last

\* static_cast<int32_t>(seq - last) <= 0: the same number, or the far half.
Stale(entry, s) == entry.has /\ Ahead(s.at % Width, entry.last) \notin 1..Half - 1

\* Variant: the number is kept in a wider type.
StoredUnwrapped(entry, s) ==
  [has |-> TRUE, last |-> s.at, conn |-> s.conn, at |-> s.at,
   stamp |-> entry.stamp + 1, read |-> entry.read]

Stored(entry, s) ==
  [has |-> TRUE, last |-> s.at % Width, conn |-> s.conn, at |-> s.at,
   stamp |-> entry.stamp + 1, read |-> entry.read]

\* Variant: the flag stays up.
ResetButHas(e) ==
  view' = [view EXCEPT ![e] = [ch \in Channels |->
             IF ch \in Kept THEN view[e][ch] ELSE [Cleared EXCEPT !.has = view[e][ch].has]]]

\* Variant: the reader's stamp stays.
ResetButRead(e) ==
  view' = [view EXCEPT ![e] = [ch \in Channels |->
             IF ch \in Kept THEN view[e][ch] ELSE [Cleared EXCEPT !.read = view[e][ch].read]]]

\* ResetPeerRemoteState at end e: every channel but those in Kept.
Reset(e) ==
  view' = [view EXCEPT ![e] = [ch \in Channels |-> IF ch \in Kept THEN view[e][ch] ELSE Cleared]]
Forget(e, h) == [h EXCEPT ![e] = [ch \in Channels |-> IF ch \in Kept THEN h[e][ch] ELSE 0]]

\* The store of StoreStreamPacket, of a sample that is fresh.
Take(e, s) ==
  /\ view[e][s.ch].stamp < MaxStores
  /\ view'   = [view EXCEPT ![e][s.ch] = Stored(@, s)]
  /\ unread' = [unread EXCEPT ![e] = @ \cup {s.ch}]

\* History: end e has heard s, if s is of the slot's present connection.
Hear(e, s) ==
  heard' = IF s.conn = conn /\ s.at >= heard[e][s.ch]
           THEN [heard EXCEPT ![e][s.ch] = s.at + 1] ELSE heard

-----------------------------------------------------------------------------
(* The client in the slot.                                                 *)

Init ==
  /\ conn = 0 /\ seated = FALSE /\ sent = 0 /\ up = {}
  /\ linked = FALSE /\ ready = FALSE /\ down = {}
  /\ view = [e \in Ends |-> [ch \in Channels |-> Cleared]]
  /\ heard = [e \in Ends |-> [ch \in Channels |-> 0]]
  /\ mixed = {}
  /\ unread = [e \in Ends |-> {}]

\* A connection is admitted to the slot.  A new process numbers from 0; one that
\* has played before, in this session or another, numbers on.
Sit ==
  /\ ~seated /\ conn < MaxConns
  /\ conn' = conn + 1 /\ seated' = TRUE
  /\ sent' \in 0..MaxSeq
  /\ heard' = [e \in Ends |-> [ch \in Channels |-> 0]]
  /\ mixed' = {ch \in Channels : view["watcher"][ch].has}
  /\ UNCHANGED <<up, linked, ready, down, view, unread>>

\* The process takes a number.  A datagram does not outlive Life numbers of its
\* process, and no entry of this connection goes Half numbers without a sample.
Number ==
  /\ seated /\ sent < MaxSeq
  /\ \A e \in Ends, ch \in Channels :
       view[e][ch].has /\ view[e][ch].conn = conn => sent - view[e][ch].at < Half
  /\ sent' = sent + 1
InTime(s) == s.conn = conn => sent - s.at < Life

\* SendStreamsTick, for one channel: the sample goes to the host.
Publish(ch) ==
  /\ Number
  /\ up' = {s \in up \cup {[ch |-> ch, conn |-> conn, at |-> sent]} : InTime(s)}
  /\ down' = {s \in down : InTime(s)}
  /\ UNCHANGED <<conn, seated, linked, ready, view, heard, mixed, unread>>

\* The number goes to something else that the process sends.
Elsewhere ==
  /\ Number
  /\ up' = {s \in up : InTime(s)} /\ down' = {s \in down : InTime(s)}
  /\ UNCHANGED <<conn, seated, linked, ready, view, heard, mixed, unread>>

\* The slot's connection closes, or the host kicks it.  Its datagrams go with it:
\* those a batch has pulled already are SlotLifecycle's matter (EpochIsOccupants).
Leave ==
  /\ seated
  /\ seated' = FALSE /\ up' = {}
  /\ Reset("host") /\ heard' = Forget("host", heard)
  /\ unread' = [unread EXCEPT !["host"] = @ \cap Kept]
  /\ UNCHANGED <<conn, sent, linked, ready, down, mixed>>

-----------------------------------------------------------------------------
(* The host.                                                               *)

\* StoreStreamPacket on the host: a fresh sample is stored and relayed, to a
\* watcher whose world is there.
HostStore(s) ==
  /\ s \in up
  /\ ~Stale(view["host"][s.ch], s)
  /\ Take("host", s) /\ Hear("host", s)
  /\ down' = IF linked /\ ready THEN down \cup {s} ELSE down
  /\ UNCHANGED <<conn, seated, sent, up, linked, ready, mixed>>

HostDrop(s) ==
  /\ s \in up
  /\ Stale(view["host"][s.ch], s)
  /\ Hear("host", s)
  /\ UNCHANGED <<conn, seated, sent, up, linked, ready, down, view, mixed, unread>>

-----------------------------------------------------------------------------
(* The watcher.                                                            *)

WatcherLinks ==
  /\ ~linked
  /\ linked' = TRUE
  /\ UNCHANGED <<conn, seated, sent, up, ready, down, view, heard, mixed, unread>>

WatcherReady ==
  /\ linked /\ ~ready
  /\ ready' = TRUE
  /\ UNCHANGED <<conn, seated, sent, up, linked, down, view, heard, mixed, unread>>

\* StoreStreamPacket on a client.
WatcherStore(s) ==
  /\ s \in down
  /\ ~Stale(view["watcher"][s.ch], s)
  /\ Take("watcher", s) /\ Hear("watcher", s)
  /\ mixed' = IF s.conn = conn THEN mixed ELSE mixed \cup {s.ch}
  /\ UNCHANGED <<conn, seated, sent, up, linked, ready, down>>

WatcherDrop(s) ==
  /\ s \in down
  /\ Stale(view["watcher"][s.ch], s)
  /\ Hear("watcher", s)
  /\ UNCHANGED <<conn, seated, sent, up, linked, ready, down, view, mixed, unread>>

\* The watcher's connection closes under it: with its last peer gone it clears
\* every slot.
WatcherCut ==
  /\ linked
  /\ linked' = FALSE /\ ready' = FALSE /\ down' = {}
  /\ Reset("watcher") /\ heard' = Forget("watcher", heard)
  /\ mixed' = mixed \cap Kept
  /\ unread' = [unread EXCEPT !["watcher"] = @ \cap Kept]
  /\ UNCHANGED <<conn, seated, sent, up>>

\* The watcher stops its session: Stop and the next Start clear the epochs and
\* leave the entries.
WatcherStop ==
  /\ linked
  /\ linked' = FALSE /\ ready' = FALSE /\ down' = {}
  /\ UNCHANGED <<conn, seated, sent, up, view, heard, mixed, unread>>

\* TryGetRemotePose: the game thread reads an entry, while a peer is connected.
Read(e, ch) ==
  /\ linked \/ (e = "host" /\ seated)
  /\ view[e][ch].has
  /\ view' = [view EXCEPT ![e][ch].read = view[e][ch].stamp]
  /\ unread' = [unread EXCEPT ![e] = @ \ {ch}]
  /\ UNCHANGED <<conn, seated, sent, up, linked, ready, down, heard, mixed>>

Next ==
  \/ Sit \/ Leave \/ Elsewhere
  \/ WatcherLinks \/ WatcherReady \/ WatcherCut \/ WatcherStop
  \/ \E ch \in Channels : Publish(ch) \/ \E e \in Ends : Read(e, ch)
  \/ \E s \in up : HostStore(s) \/ HostDrop(s)
  \/ \E s \in down : WatcherStore(s) \/ WatcherDrop(s)

Spec == Init /\ [][Next]_vars

-----------------------------------------------------------------------------
(* Properties.                                                             *)

\* Types and ranges of all variables.
TypeOK ==
  /\ conn \in 0..MaxConns /\ seated \in BOOLEAN /\ (seated => conn > 0)
  /\ sent \in 0..MaxSeq
  /\ up \subseteq Sample /\ down \subseteq Sample
  /\ linked \in BOOLEAN /\ ready \in BOOLEAN
  /\ view \in [Ends -> [Channels -> Entry]]
  /\ heard \in [Ends -> [Channels -> 0..MaxSeq]]
  /\ mixed \subseteq Channels
  /\ unread \in [Ends -> SUBSET Channels]

\* End e shows the newest sample of the present connection that reached it, and
\* nothing where none did.
Newest(e, ch) ==
  IF heard[e][ch] = 0 THEN ~view[e][ch].has
  ELSE /\ view[e][ch].has
       /\ view[e][ch].conn = conn
       /\ view[e][ch].at = heard[e][ch] - 1

\* On the host every entry that is reset with the slot shows the newest sample
\* that came from the client now in the slot, whatever order, duplicates and
\* wrap-around its datagrams went through, and nothing of an earlier client
\* (session_status.cpp:324 and 634, session_streams.cpp:208).
HostShowsNewest == \A ch \in Channels \ Kept : Newest("host", ch)

\* A watcher does too, for an entry that has held nobody else since its reset.
WatcherShowsNewest == \A ch \in Channels \ mixed : Newest("watcher", ch)

\* While an entry shows one connection it never goes back to an older sample of
\* it, at either end, reset with the slot or not (session_streams.cpp:208).
NeverBack ==
  \A e \in Ends, ch \in Channels :
    view[e][ch].has /\ view'[e][ch].has /\ view'[e][ch].conn = view[e][ch].conn
      => view'[e][ch].at >= view[e][ch].at
NewestWins == [][NeverBack]_vars

\* What a watcher shows of the client in the slot the host has taken first: a
\* stale sample is not relayed (session_streams.cpp:209), so no watcher is ahead
\* of the host.
WatcherBehindHost ==
  \A ch \in Channels :
    LET w == view["watcher"][ch]  h == view["host"][ch] IN
    seated /\ w.has /\ w.conn = conn => h.has /\ h.conn = conn /\ w.at <= h.at

\* A reader is told of a new sample exactly when one was stored since it last
\* read, over resets of the slot as well (session_streams.cpp:104).
NewIffUnread ==
  \A e \in Ends, ch \in Channels :
    view[e][ch].stamp # view[e][ch].read <=> ch \in unread[e]

\* Refuted: the slot is reset "so a reconnecting peer (whose seq restarts at 0)
\* is not stale-dropped" (session_status.cpp:634): a sample of the client in the
\* slot that reaches the host is shown.  The desk cursor is not reset.
NewcomerShownByHost ==
  \A ch \in Channels : seated /\ heard["host"][ch] > 0 => view["host"][ch].conn = conn

\* Refuted: "per-origin-slot seq monotonicity holds on the receiver"
\* (session_relay.cpp:19): the relayed samples of a slot go forward, so one of
\* the client in the slot is shown.  The next client's process numbers from 0.
NewcomerShownByWatcher ==
  \A ch \in Channels : heard["watcher"][ch] > 0 => view["watcher"][ch].conn = conn
=============================================================================
