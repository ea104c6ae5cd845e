---------------------------- MODULE UdpPeersProofs ----------------------------
(***************************************************************************)
(* A listener loses no open stream, for any number of addresses and        *)
(* streams.                                                                *)
(*                                                                         *)
(* StreamsTracked is not inductive: OpenStream overwrites an entry.  What  *)
(* is missing is that udpMu is held from the moment peer() has found no    *)
(* entry until the new one is written, so the entry is still empty then.   *)
(***************************************************************************)
EXTENDS UdpPeers, TLAPS

\* The entry that peer() found missing is missing as long as it holds udpMu.
EntryStaysFree ==
  loop.pc \in {"lookup", "open"} => peers[loop.addr] = None

PeersInv == TypeOK /\ StreamsTracked /\ EntryStaysFree

\* At first there are no peers.
LEMMA PeersInit == Init => PeersInv
<1> SUFFICES ASSUME Init PROVE PeersInv
  OBVIOUS
<1>1. TypeOK
  BY DEF Init, TypeOK, LoopStates
<1>2. StreamsTracked /\ EntryStaysFree
  BY DEF Init, StreamsTracked, EntryStaysFree
<1> QED BY <1>1, <1>2 DEF PeersInv

\* Steps after which a stream is tracked as it was: the map and the addresses
\* are kept, no stream is opened, and who was closing a stream still is.
LEMMA MapUntouched ==
  ASSUME PeersInv, UNCHANGED <<peers, addr>>, live' \subseteq live,
         \A s \in live' : Closing(s) => Closing(s)'
  PROVE  StreamsTracked'
BY DEF PeersInv, StreamsTracked

\* The first half of removePeer deletes at most the entry of its own peer, which
\* its caller is then about to close.
LEMMA RemovePeerSound ==
  ASSUME PeersInv, NEW s \in Streams, RemovePeer(s), UNCHANGED <<addr, live>>,
         Closing(s)',
         \A t \in Streams : Closing(t) => Closing(t)'
  PROVE  /\ peers' \in [Addrs -> Streams \cup {None}]
         /\ StreamsTracked'
<1>1. peers' \in [Addrs -> Streams \cup {None}]
  BY DEF RemovePeer, PeersInv, TypeOK
<1>2. ASSUME NEW t \in live'
      PROVE  addr'[t] \in Addrs /\ (peers'[addr'[t]] = t \/ Closing(t)')
  <2>1. t \in live /\ t \in Streams /\ addr'[t] = addr[t]
    BY <1>2 DEF PeersInv, TypeOK
  <2>2. addr[t] \in Addrs /\ (peers[addr[t]] = t \/ Closing(t))
    BY <2>1 DEF PeersInv, StreamsTracked
  <2>3. CASE t = s \/ Closing(t)
    BY <2>1, <2>2, <2>3
  <2>4. CASE t # s /\ peers[addr[t]] = t
    BY <2>1, <2>2, <2>4 DEF RemovePeer, PeersInv, TypeOK
  <2> QED BY <2>2, <2>3, <2>4
<1> QED BY <1>1, <1>2 DEF StreamsTracked

\* Steps of the loop that do not change the map and close nothing.
LEMMA LoopWalks ==
  ASSUME PeersInv, UNCHANGED <<peers, addr, live, reader, reaped>>,
         loop.pc # "close",
         \/ loop'.pc \notin {"lookup", "open"}
         \/ loop'.addr = loop.addr /\ peers[loop.addr] = None
  PROVE  StreamsTracked' /\ EntryStaysFree'
<1>1. \A s \in live' : Closing(s) => Closing(s)'
  BY DEF Closing
<1> QED BY <1>1, MapUntouched DEF EntryStaysFree

\* The loop's own steps.
LEMMA LoopStep ==
  ASSUME PeersInv,
         \/ \E a \in Addrs : Receive(a)
         \/ LoopEnds \/ FindPeer \/ NewPeer \/ Lookup
         \/ \E s \in Streams : OpenStream(s)
         \/ OpenFails \/ WriteFrame \/ LoopRemoves \/ LoopCloses
  PROVE  PeersInv'
<1>1. ASSUME NEW a \in Addrs, Receive(a) PROVE PeersInv'
  <2>1. TypeOK'
    BY <1>1 DEF Receive, PeersInv, TypeOK, LoopStates
  <2>2. loop.pc # "close" /\ loop'.pc = "peer" /\ UNCHANGED <<peers, addr, live, reader, reaped>>
    BY <1>1 DEF Receive, PeersInv, TypeOK
  <2> QED BY <2>1, <2>2, LoopWalks DEF PeersInv
<1>2. CASE LoopEnds \/ OpenFails \/ WriteFrame
  <2>1. TypeOK'
    BY <1>2 DEF LoopEnds, OpenFails, WriteFrame, Goto, PeersInv, TypeOK, LoopStates
  <2>2. /\ loop.pc # "close" /\ loop'.pc \in {"read", "remove", "done"}
        /\ UNCHANGED <<peers, addr, live, reader, reaped>>
    BY <1>2 DEF LoopEnds, OpenFails, WriteFrame, Goto, PeersInv, TypeOK
  <2> QED BY <2>1, <2>2, LoopWalks DEF PeersInv
<1>3. CASE FindPeer
  <2>1. peers[loop.addr] \in Streams
    BY <1>3 DEF FindPeer, PeersInv, TypeOK
  <2>2. TypeOK'
    BY <1>3, <2>1 DEF FindPeer, PeersInv, TypeOK, LoopStates
  <2>3. loop.pc # "close" /\ loop'.pc = "write" /\ UNCHANGED <<peers, addr, live, reader, reaped>>
    BY <1>3 DEF FindPeer, PeersInv, TypeOK
  <2> QED BY <2>2, <2>3, LoopWalks DEF PeersInv
<1>4. CASE NewPeer
  <2>1. TypeOK'
    BY <1>4 DEF NewPeer, Goto, PeersInv, TypeOK, LoopStates
  <2>2. /\ loop.pc # "close" /\ loop'.addr = loop.addr /\ peers[loop.addr] = None
        /\ UNCHANGED <<peers, addr, live, reader, reaped>>
    BY <1>4 DEF NewPeer, Goto, PeersInv, TypeOK
  <2> QED BY <2>1, <2>2, LoopWalks DEF PeersInv
<1>5. CASE Lookup
  <2>1. found' \in BOOLEAN /\ session' = session
    BY <1>5 DEF Lookup
  <2>2. TypeOK'
    BY <1>5, <2>1 DEF Lookup, Goto, PeersInv, TypeOK, LoopStates
  <2>3. /\ loop.pc # "close" /\ loop'.addr = loop.addr /\ peers[loop.addr] = None
        /\ UNCHANGED <<peers, addr, live, reader, reaped>>
    BY <1>5 DEF Lookup, Goto, PeersInv, TypeOK, EntryStaysFree
  <2> QED BY <2>2, <2>3, LoopWalks DEF PeersInv
<1>6. ASSUME NEW s \in Streams, OpenStream(s) PROVE PeersInv'
  <2>1. loop.addr \in Addrs /\ peers[loop.addr] = None
    BY <1>6 DEF OpenStream, PeersInv, TypeOK, EntryStaysFree
  <2>2. TypeOK'
    BY <1>6, <2>1 DEF OpenStream, PeersInv, TypeOK, LoopStates
  <2>3. ASSUME NEW t \in live'
        PROVE  addr'[t] \in Addrs /\ (peers'[addr'[t]] = t \/ Closing(t)')
    <3>1. CASE t = s
      BY <1>6, <2>1, <3>1 DEF OpenStream, PeersInv, TypeOK
    <3>2. CASE t # s
      <4>1. t \in live /\ t \in Streams /\ addr'[t] = addr[t]
        BY <1>6, <2>3, <3>2 DEF OpenStream, PeersInv, TypeOK
      <4>2. addr[t] \in Addrs /\ (peers[addr[t]] = t \/ Closing(t)) /\ t # None
        BY <4>1, UdpAssumption DEF PeersInv, StreamsTracked
      <4>3. Closing(t) => Closing(t)'
        BY <1>6, <3>2, <4>1 DEF OpenStream, Closing, PeersInv, TypeOK
      <4>4. peers[addr[t]] = t => peers'[addr[t]] = t
        BY <1>6, <2>1, <4>2 DEF OpenStream, PeersInv, TypeOK
      <4> QED BY <4>1, <4>2, <4>3, <4>4
    <3> QED BY <3>1, <3>2
  <2>4. EntryStaysFree'
    BY <1>6 DEF OpenStream, PeersInv, TypeOK, EntryStaysFree
  <2> QED BY <2>2, <2>3, <2>4 DEF PeersInv, StreamsTracked
<1>7. CASE LoopRemoves
  <2> PICK s \in Streams : s = loop.stream
    BY <1>7 DEF LoopRemoves, PeersInv, TypeOK
  <2>1. /\ RemovePeer(s)
        /\ UNCHANGED <<addr, live>>
        /\ Closing(s)'
        /\ \A t \in Streams : Closing(t) => Closing(t)'
    BY <1>7 DEF LoopRemoves, Goto, Closing, PeersInv, TypeOK
  <2>2. TypeOK'
    BY <1>7, <2>1, RemovePeerSound
       DEF LoopRemoves, Goto, PeersInv, TypeOK, LoopStates
  <2>3. EntryStaysFree'
    BY <1>7 DEF LoopRemoves, Goto, PeersInv, TypeOK, EntryStaysFree
  <2> QED BY <2>1, <2>2, <2>3, RemovePeerSound DEF PeersInv
<1>8. CASE LoopCloses
  <2>1. TypeOK'
    BY <1>8 DEF LoopCloses, CloseStream, Goto, PeersInv, TypeOK, LoopStates
  <2>2. /\ UNCHANGED <<peers, addr>> /\ live' \subseteq live
        /\ \A t \in live' : Closing(t) => Closing(t)'
    BY <1>8 DEF LoopCloses, CloseStream, Closing
  <2>3. EntryStaysFree'
    BY <1>8 DEF LoopCloses, Goto, PeersInv, TypeOK, EntryStaysFree
  <2> QED BY <2>1, <2>2, <2>3, MapUntouched DEF PeersInv
<1> QED BY <1>1, <1>2, <1>3, <1>4, <1>5, <1>6, <1>7, <1>8

\* The readers, the reaper and the stopping goroutine.
LEMMA MapStep ==
  ASSUME PeersInv,
         \/ \E s \in Streams : ReadFrame(s) \/ ReadFails(s)
         \/ \E s \in Streams : ReaderRemoves(s) \/ ReaderCloses(s)
         \/ CollectStale \/ (\E s \in Streams : Reap(s)) \/ ReaperCloses \/ ReaperEnds
         \/ StopBegins \/ StopFinishes
  PROVE  PeersInv'
<1>1. ASSUME NEW s \in Streams, ReadFrame(s) \/ ReadFails(s) PROVE PeersInv'
  <2>1. TypeOK'
    BY <1>1 DEF ReadFrame, ReadFails, PeersInv, TypeOK
  <2>2. UNCHANGED <<peers, addr, loop, live>>
    BY <1>1 DEF ReadFrame, ReadFails
  <2>3. \A t \in live' : Closing(t) => Closing(t)'
    BY <1>1 DEF ReadFrame, ReadFails, Closing, PeersInv, TypeOK
  <2> QED BY <2>1, <2>2, <2>3, MapUntouched DEF PeersInv, EntryStaysFree
<1>2. ASSUME NEW s \in Streams, ReaderRemoves(s) \/ Reap(s) PROVE PeersInv'
  <2>1. RemovePeer(s) /\ UNCHANGED <<addr, live, loop>> /\ UdpMuFree
    BY <1>2 DEF ReaderRemoves, Reap
  <2>2. Closing(s)' /\ \A t \in Streams : Closing(t) => Closing(t)'
    BY <1>2, UdpAssumption DEF ReaderRemoves, Reap, Closing, PeersInv, TypeOK
  <2>3. TypeOK'
    BY <1>2, <2>1, <2>2, RemovePeerSound DEF ReaderRemoves, Reap, PeersInv, TypeOK
  <2>4. EntryStaysFree'
    BY <2>1 DEF UdpMuFree, EntryStaysFree
  <2> QED BY <2>1, <2>2, <2>3, <2>4, RemovePeerSound DEF PeersInv
<1>3. CASE (\E s \in Streams : ReaderCloses(s)) \/ ReaperCloses
  <2>1. TypeOK'
    BY <1>3 DEF ReaderCloses, ReaperCloses, CloseStream, PeersInv, TypeOK
  <2>2. UNCHANGED <<peers, addr, loop>> /\ live' \subseteq live
    BY <1>3 DEF ReaderCloses, ReaperCloses, CloseStream
  <2>3. \A t \in live' : Closing(t) => Closing(t)'
    BY <1>3 DEF ReaderCloses, ReaperCloses, CloseStream, Closing, PeersInv, TypeOK
  <2> QED BY <2>1, <2>2, <2>3, MapUntouched DEF PeersInv, EntryStaysFree
<1>4. CASE CollectStale \/ ReaperEnds \/ StopBegins
  <2>1. TypeOK'
    BY <1>4 DEF CollectStale, ReaperEnds, StopBegins, PeersInv, TypeOK
  <2>2. UNCHANGED <<peers, addr, loop, live, reader, reaped>>
    BY <1>4 DEF CollectStale, ReaperEnds, StopBegins
  <2> QED BY <2>1, <2>2, MapUntouched DEF PeersInv, EntryStaysFree, Closing
<1>5. CASE StopFinishes
  <2>1. TypeOK'
    BY <1>5 DEF StopFinishes, PeersInv, TypeOK
  <2>2. EntryStaysFree'
    BY <1>5 DEF StopFinishes, UdpMuFree, EntryStaysFree
  <2>3. StreamsTracked'
    <3> SUFFICES ASSUME NEW s \in live' PROVE addr'[s] \in Addrs /\ Closing(s)'
      BY DEF StreamsTracked
    <3>1. s \in live /\ s \notin Mapped /\ s # None
      BY <1>5, UdpAssumption DEF StopFinishes, PeersInv, TypeOK
    <3>2. addr[s] \in Addrs /\ (peers[addr[s]] = s \/ Closing(s))
      BY <3>1 DEF PeersInv, StreamsTracked
    <3>3. Closing(s)
      BY <3>1, <3>2 DEF Mapped
    <3> QED BY <1>5, <3>2, <3>3 DEF StopFinishes, Closing
  <2> QED BY <2>1, <2>2, <2>3 DEF PeersInv
<1> QED BY <1>1, <1>2, <1>3, <1>4, <1>5

\* The environment.
LEMMA EnvironmentStep ==
  ASSUME PeersInv,
         \/ \E s \in Streams : Age(s) \/ ClientCloses(s)
         \/ SessionStarts \/ SessionBreaks \/ SessionDropped
  PROVE  PeersInv'
<1>1. TypeOK'
  <2>1. CASE \E s \in Streams : Age(s) \/ ClientCloses(s)
    BY <2>1 DEF PeersInv, TypeOK, Age, ClientCloses
  <2>2. CASE SessionStarts \/ SessionBreaks \/ SessionDropped
    BY <2>2 DEF PeersInv, TypeOK, SessionStarts, SessionBreaks, SessionDropped
  <2> QED BY <2>1, <2>2
<1>2. UNCHANGED <<peers, addr, loop, reader, reaped>> /\ live' \subseteq live
  BY DEF Age, ClientCloses, SessionStarts, SessionBreaks, SessionDropped
<1> QED BY <1>1, <1>2, MapUntouched DEF PeersInv, EntryStaysFree, Closing

\* Every step keeps the invariant.
LEMMA PeersStep == PeersInv /\ [Next]_vars => PeersInv'
<1> SUFFICES ASSUME PeersInv, [Next]_vars PROVE PeersInv'
  OBVIOUS
<1>1. CASE UNCHANGED vars
  BY <1>1 DEF vars, PeersInv, TypeOK, StreamsTracked, EntryStaysFree, Closing
<1>2. CASE Next
  BY <1>2, LoopStep, MapStep, EnvironmentStep DEF Next
<1> QED BY <1>1, <1>2

\* The inductive invariant of a UDP listener.
THEOREM PeersSafety == Spec => []PeersInv
BY PeersInit, PeersStep, PTL DEF Spec

\* udpLoop never looks up a missing address nor writes to a missing peer.
THEOREM PeersTypeCorrect == Spec => []TypeOK
BY PeersSafety, PTL DEF PeersInv

\* Every open stream of a listener is the peer of its address or about to be
\* closed, whatever the loop, the readers, the reaper and stop do to the map.
THEOREM StreamsAlwaysTracked == Spec => []StreamsTracked
BY PeersSafety, PTL DEF PeersInv

=============================================================================
