------------------------------- MODULE UdpPeers -------------------------------
(***************************************************************************)
(* The UDP side of one public listener (forwardRunner).                    *)
(*                                                                         *)
(* Every remote address that sends datagrams gets a peer: a yamux stream   *)
(* to the client and a goroutine that reads it.  Four kinds of goroutines  *)
(* share the peer map under udpMu: the loop that reads the public socket,  *)
(* one reader per peer, the reaper of idle peers, and whoever stops the    *)
(* listener.  The loop looks the client's session up under the tunnel's    *)
(* lock while it holds udpMu; the listener is stopped by a goroutine that  *)
(* holds the tunnel's lock and takes udpMu.                                *)
(***************************************************************************)
CONSTANTS
  Addrs,    \* remote addresses
  Streams,  \* streams ever opened to the client, each used once
  None      \* no stream, no address

ASSUME UdpAssumption == None \notin Addrs \cup Streams

VARIABLES
  peers,    \* forwardRunner.peers: address -> stream of its peer
  addr,     \* the address each stream was opened for
  live,     \* streams that neither side has closed
  stale,    \* streams of peers whose last is older than udpIdle
  reader,   \* where the peerReadLoop of each stream is
  loop,     \* where udpLoop is: pc, the datagram's address, the peer's stream
  reap,     \* stale peers the reaper has collected and will remove
  reaped,   \* the peer the reaper has removed and will close
  reaper,   \* is udpReaper still running?
  session,  \* the client's entry in Tunnel.sessions: none, up, or dead
  found,    \* is the session that udpLoop looked up still up?
  stop      \* running; locked: t.mu held, sockets closed; stopped

vars == <<peers, addr, live, stale, reader, loop, reap, reaped, reaper, session, found, stop>>

LoopStates == {"read", "peer", "lookup", "open", "write", "remove", "close", "done"}

\* peer() holds udpMu while it opens a stream; every other holder of udpMu
\* releases it without waiting for anything.
UdpMuFree == loop.pc \notin {"lookup", "open"}

\* stop() runs under the tunnel's lock.
TunnelMuFree == stop # "locked"

Mapped == {peers[a] : a \in Addrs} \ {None}

Goto(pc) == loop' = [loop EXCEPT !.pc = pc]

\* Variant with a defect: whatever peer has the address now is deleted.
RemovePeerAny(s) == peers' = [peers EXCEPT ![addr[s]] = None]

\* removePeer under udpMu: the entry is deleted if it is still this peer ...
RemovePeer(s) ==
  peers' = [peers EXCEPT ![addr[s]] = IF @ = s THEN None ELSE @]

\* ... and after the unlock its stream is closed.
CloseStream(s) == live' = live \ {s}

-----------------------------------------------------------------------------
(* udpLoop *)

\* A datagram arrives on the public socket.
Receive(a) ==
  /\ loop.pc = "read"
  /\ stop = "running"
  /\ loop' = [loop EXCEPT !.pc = "peer", !.addr = a]
  /\ UNCHANGED <<peers, addr, live, stale, reader, reap, reaped, reaper, session, found, stop>>

\* The socket is closed: ReadFrom fails and done is closed.
LoopEnds ==
  /\ loop.pc = "read"
  /\ stop # "running"
  /\ Goto("done")
  /\ UNCHANGED <<peers, addr, live, stale, reader, reap, reaped, reaper, session, found, stop>>

\* peer() finds the address and refreshes it ...
FindPeer ==
  LET s == peers[loop.addr] IN
  /\ loop.pc = "peer"
  /\ s # None
  /\ stale' = stale \ {s}
  /\ loop' = [loop EXCEPT !.pc = "write", !.stream = s]
  /\ UNCHANGED <<peers, addr, live, reader, reap, reaped, reaper, session, found, stop>>

\* ... or keeps udpMu to open a stream.
NewPeer ==
  /\ loop.pc = "peer"
  /\ peers[loop.addr] = None
  /\ Goto("lookup")
  /\ UNCHANGED <<peers, addr, live, stale, reader, reap, reaped, reaper, session, found, stop>>

\* Variant with a defect: udpLoop does not look whether it got a peer.
LookupUnchecked ==
  /\ loop.pc = "lookup"
  /\ TunnelMuFree
  /\ Goto(IF session = "none" THEN "write" ELSE "open")
  /\ found' = (session = "up")
  /\ UNCHANGED <<peers, addr, live, stale, reader, reap, reaped, reaper, session, stop>>

\* openStream asks for the session under the tunnel's lock; with none, the
\* datagram is dropped.
Lookup ==
  /\ loop.pc = "lookup"
  /\ TunnelMuFree
  /\ Goto(IF session = "none" THEN "read" ELSE "open")
  /\ found' = (session = "up")
  /\ UNCHANGED <<peers, addr, live, stale, reader, reap, reaped, reaper, session, stop>>

\* The stream is open and its header written: the peer enters the map and its
\* reader starts.
OpenStream(s) ==
  /\ loop.pc = "open"
  /\ found
  /\ addr[s] = None
  /\ addr' = [addr EXCEPT ![s] = loop.addr]
  /\ live' = live \cup {s}
  /\ peers' = [peers EXCEPT ![loop.addr] = s]
  /\ reader' = [reader EXCEPT ![s] = "reading"]
  /\ loop' = [loop EXCEPT !.pc = "write", !.stream = s]
  /\ UNCHANGED <<stale, reap, reaped, reaper, session, found, stop>>

\* OpenStream or the header fails: the datagram is dropped.
OpenFails ==
  /\ loop.pc = "open"
  /\ Goto("read")
  /\ UNCHANGED <<peers, addr, live, stale, reader, reap, reaped, reaper, session, found, stop>>

\* The datagram is framed and written, or the write fails.  A stream that only
\* the client has closed still takes the frame.
WriteFrame ==
  /\ loop.pc = "write"
  /\ Goto("read") \/ Goto("remove")
  /\ UNCHANGED <<peers, addr, live, stale, reader, reap, reaped, reaper, session, found, stop>>

LoopRemoves ==
  /\ loop.pc = "remove"
  /\ RemovePeer(loop.stream)
  /\ Goto("close")
  /\ UNCHANGED <<addr, live, stale, reader, reap, reaped, reaper, session, found, stop>>

LoopCloses ==
  /\ loop.pc = "close"
  /\ CloseStream(loop.stream)
  /\ Goto("read")
  /\ UNCHANGED <<peers, addr, stale, reader, reap, reaped, reaper, session, found, stop>>

-----------------------------------------------------------------------------
(* peerReadLoop *)

\* A frame from the client goes out on the public socket and refreshes the
\* peer; on a closed socket the reader gives up.
ReadFrame(s) ==
  /\ reader[s] = "reading"
  /\ s \in live
  /\ \/ /\ stop = "running"
        /\ stale' = stale \ {s}
        /\ UNCHANGED reader
     \/ /\ stop # "running"
        /\ reader' = [reader EXCEPT ![s] = "removing"]
        /\ UNCHANGED stale
  /\ UNCHANGED <<peers, addr, live, loop, reap, reaped, reaper, session, found, stop>>

\* Variant with a defect: the reader returns without removing its peer.
ReadFailsForgetful(s) ==
  /\ reader[s] = "reading"
  /\ s \notin live
  /\ reader' = [reader EXCEPT ![s] = "done"]
  /\ UNCHANGED <<peers, addr, live, stale, loop, reap, reaped, reaper, session, found, stop>>

\* The stream has ended.
ReadFails(s) ==
  /\ reader[s] = "reading"
  /\ s \notin live
  /\ reader' = [reader EXCEPT ![s] = "removing"]
  /\ UNCHANGED <<peers, addr, live, stale, loop, reap, reaped, reaper, session, found, stop>>

ReaderRemoves(s) ==
  /\ reader[s] = "removing"
  /\ UdpMuFree
  /\ RemovePeer(s)
  /\ reader' = [reader EXCEPT ![s] = "closing"]
  /\ UNCHANGED <<addr, live, stale, loop, reap, reaped, reaper, session, found, stop>>

ReaderCloses(s) ==
  /\ reader[s] = "closing"
  /\ CloseStream(s)
  /\ reader' = [reader EXCEPT ![s] = "done"]
  /\ UNCHANGED <<peers, addr, stale, loop, reap, reaped, reaper, session, found, stop>>

-----------------------------------------------------------------------------
(* udpReaper *)

\* Variant with a defect: the comparison with the cutoff is the wrong way round.
CollectFresh ==
  /\ reaper
  /\ reap = {} /\ reaped = None
  /\ UdpMuFree
  /\ reap' = Mapped \ stale
  /\ UNCHANGED <<peers, addr, live, stale, reader, loop, reaped, reaper, session, found, stop>>

\* On a tick the stale peers are collected under udpMu ...
CollectStale ==
  /\ reaper
  /\ reap = {} /\ reaped = None
  /\ UdpMuFree
  /\ reap' = Mapped \cap stale
  /\ UNCHANGED <<peers, addr, live, stale, reader, loop, reaped, reaper, session, found, stop>>

\* ... and then removed one after the other.
Reap(s) ==
  /\ s \in reap
  /\ reaped = None
  /\ UdpMuFree
  /\ RemovePeer(s)
  /\ reap' = reap \ {s}
  /\ reaped' = s
  /\ UNCHANGED <<addr, live, stale, reader, loop, reaper, session, found, stop>>

ReaperCloses ==
  /\ reaped # None
  /\ CloseStream(reaped)
  /\ reaped' = None
  /\ UNCHANGED <<peers, addr, stale, reader, loop, reap, reaper, session, found, stop>>

ReaperEnds ==
  /\ reaper
  /\ reap = {} /\ reaped = None
  /\ stop # "running"
  /\ reaper' = FALSE
  /\ UNCHANGED <<peers, addr, live, stale, reader, loop, reap, reaped, session, found, stop>>

-----------------------------------------------------------------------------
(* stop(), called by Apply, Remove and Shutdown with the tunnel's lock held *)

StopBegins ==
  /\ stop = "running"
  /\ stop' = "locked"
  /\ UNCHANGED <<peers, addr, live, stale, reader, loop, reap, reaped, reaper, session, found>>

\* udpMu is free: every peer is closed and deleted, both locks are released.
StopFinishes ==
  /\ stop = "locked"
  /\ UdpMuFree
  /\ live' = live \ Mapped
  /\ peers' = [a \in Addrs |-> None]
  /\ stop' = "stopped"
  /\ UNCHANGED <<addr, stale, reader, loop, reap, reaped, reaper, session, found>>

-----------------------------------------------------------------------------
(* The environment *)

\* udpIdle passes without traffic.
Age(s) ==
  /\ s \in Mapped \ stale
  /\ stale' = stale \cup {s}
  /\ UNCHANGED <<peers, addr, live, reader, loop, reap, reaped, reaper, session, found, stop>>

\* The client closes a stream: its target refused or its socket failed.
ClientCloses(s) ==
  /\ s \in live
  /\ live' = live \ {s}
  /\ UNCHANGED <<peers, addr, stale, reader, loop, reap, reaped, reaper, session, found, stop>>

\* handleConn registers a session in place of the old one, if any.
SessionStarts ==
  /\ TunnelMuFree
  /\ session' = "up"
  /\ live' = {} /\ found' = FALSE
  /\ UNCHANGED <<peers, addr, stale, reader, loop, reap, reaped, reaper, stop>>

\* The connection breaks; the entry stays until dropSession.
SessionBreaks ==
  /\ session = "up"
  /\ session' = "dead"
  /\ live' = {} /\ found' = FALSE
  /\ UNCHANGED <<peers, addr, stale, reader, loop, reap, reaped, reaper, stop>>

\* dropSession or DisconnectClient: the entry goes and the session is closed.
SessionDropped ==
  /\ session # "none"
  /\ TunnelMuFree
  /\ session' = "none"
  /\ live' = {} /\ found' = FALSE
  /\ UNCHANGED <<peers, addr, stale, reader, loop, reap, reaped, reaper, stop>>

-----------------------------------------------------------------------------

Init ==
  /\ peers = [a \in Addrs |-> None]
  /\ addr = [s \in Streams |-> None]
  /\ reader = [s \in Streams |-> "none"]
  /\ live = {} /\ stale = {} /\ reap = {}
  /\ loop = [pc |-> "read", addr |-> None, stream |-> None]
  /\ reaper = TRUE /\ reaped = None
  /\ session = "none" /\ found = FALSE
  /\ stop = "running"

Next ==
  \/ \E a \in Addrs : Receive(a)
  \/ LoopEnds
  \/ FindPeer
  \/ NewPeer
  \/ Lookup
  \/ \E s \in Streams : OpenStream(s)
  \/ OpenFails
  \/ WriteFrame
  \/ LoopRemoves
  \/ LoopCloses
  \/ \E s \in Streams : ReadFrame(s)
  \/ \E s \in Streams : ReadFails(s)
  \/ \E s \in Streams : ReaderRemoves(s)
  \/ \E s \in Streams : ReaderCloses(s)
  \/ CollectStale
  \/ \E s \in Streams : Reap(s)
  \/ ReaperCloses
  \/ ReaperEnds
  \/ StopBegins
  \/ StopFinishes
  \/ \E s \in Streams : Age(s)
  \/ \E s \in Streams : ClientCloses(s)
  \/ SessionStarts
  \/ SessionBreaks
  \/ SessionDropped

Spec == Init /\ [][Next]_vars

\* The steps each goroutine takes by itself, once it has a datagram or a frame.
LoopRuns ==
  \/ LoopEnds \/ FindPeer \/ NewPeer \/ Lookup \/ OpenFails
  \/ (\E s \in Streams : OpenStream(s)) \/ LoopRemoves \/ LoopCloses

ReaderRuns(s) == ReadFails(s) \/ ReaderRemoves(s) \/ ReaderCloses(s)

ReaperRuns ==
  CollectStale \/ (\E s \in Streams : Reap(s)) \/ ReaperCloses \/ ReaperEnds

\* Goroutines run on, opening a stream returns (its deadlines see to that) and
\* Go's mutexes let every waiter in eventually: a goroutine that can go on again
\* and again does (strong fairness).  Datagrams, frames, a write that the client
\* does not take, time and the client are the environment's.
Fairness ==
  /\ SF_vars(LoopRuns)
  /\ \A s \in Streams : SF_vars(ReaderRuns(s))
  /\ SF_vars(ReaperRuns)
  /\ SF_vars(StopFinishes)

FairSpec == Spec /\ Fairness

-----------------------------------------------------------------------------
(* Properties *)

\* Every variable has the shape its Go counterpart has, and udpLoop has an
\* address to look up and a peer to write to when it does so.
TypeOK ==
  /\ peers \in [Addrs -> Streams \cup {None}]
  /\ addr \in [Streams -> Addrs \cup {None}]
  /\ live \subseteq Streams
  /\ stale \subseteq Streams
  /\ reader \in [Streams -> {"none", "reading", "removing", "closing", "done"}]
  /\ loop \in [pc : LoopStates, addr : Addrs \cup {None}, stream : Streams \cup {None}]
  /\ loop.pc \in {"peer", "lookup", "open"} => loop.addr \in Addrs
  /\ loop.pc \in {"write", "remove", "close"} => loop.stream \in Streams
  /\ reap \subseteq Streams
  /\ reaped \in Streams \cup {None}
  /\ reaper \in BOOLEAN
  /\ session \in {"none", "up", "dead"}
  /\ found \in BOOLEAN
  /\ stop \in {"running", "locked", "stopped"}

\* The goroutines that are between the two halves of removePeer for a stream.
Closing(s) ==
  reader[s] = "closing" \/ reaped = s \/ (loop.pc = "close" /\ loop.stream = s)

\* No open stream is lost: it is the peer of its address, or the goroutine that
\* took it out of the map is about to close it.  Otherwise neither the reaper
\* nor stop nor ForwardStats would see it again, although the loop, the reader
\* and the reaper may all be removing peers of one address while the loop opens
\* the next one for it.
StreamsTracked ==
  \A s \in live : addr[s] \in Addrs /\ (peers[addr[s]] = s \/ Closing(s))

\* A peer whose stream has ended leaves the map, so the next datagram of its
\* address opens a new stream (unless the listener is being stopped).
DeadPeersLeave ==
  \A s \in Streams :
    (s \in Mapped \ live) ~> (s \notin Mapped \/ stop = "locked")

\* While the listener runs, an idle peer is reaped or used again.
IdlePeersReaped ==
  \A s \in Streams :
    (s \in Mapped \cap stale) ~> (s \notin Mapped \cap stale \/ stop # "running")

\* Stopping a listener comes to an end.
StopEnds == stop = "locked" ~> stop = "stopped"

=============================================================================
