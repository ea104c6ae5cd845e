------------------------------- MODULE TcpRelay -------------------------------
(***************************************************************************)
(* One TCP connection of a remote user, relayed to the target.             *)
(*                                                                         *)
(* The server accepts the connection, opens a yamux stream to the client   *)
(* and writes a header on it; the client reads the header, dials the       *)
(* target, and both run Pipe: a goroutine per direction that copies until  *)
(* an error or the end and then closes the write side of what it wrote to. *)
(* A direction is a chain of three channels, numbered along the flow: the  *)
(* connection of the sender, the stream, and the connection of the         *)
(* receiver.  Hop h copies from channel h to channel h + 1.                *)
(*                                                                         *)
(* TCP and yamux are external.  A closed stream tells the peer the end and *)
(* can still be read; if the peer does not close it too within the close   *)
(* time limit of yamux, the stream is reset.  The loss of the session ends *)
(* the stream as well.                                                     *)
(***************************************************************************)
EXTENDS Naturals, Sequences

CONSTANTS
  Cap,       \* bytes that fit into a channel: socket buffers, stream window
  MaxBytes   \* bound: bytes sent, by direction

ASSUME RelayAssumption == Cap \in Nat \ {0} /\ MaxBytes \in Nat

Dirs == {"in", "out"}           \* user to target, target to user
Other(d) == CHOOSE o \in Dirs : o # d
Header == 0                     \* the StreamHeader; byte i of a direction is i
Hops == {1, 2}

VARIABLES
  sent,    \* how many bytes the program at the start of a direction has sent
  chan,    \* the bytes in each channel
  fin,     \* has the writer of the channel closed its side?
  ahead,   \* bytes the client's bufio.Reader has read behind the header
  hold,    \* the bytes each copying goroutine has read and not yet written
  copy,    \* is it running?
  counted, \* the forward's bytesIn and bytesOut
  due,     \* what the server has written and not yet added to them
  server,  \* where handleTCP is; activeTCP counts those in "pipe"
  client,  \* where handleStream is
  gone,    \* the directions whose sender has closed its connection altogether
  dead,    \* is the stream reset, or its session lost?
  got, eof, cut  \* what the program at the end of a direction has seen, and
                 \* history: whether something has cut the connection

vars == <<sent, chan, fin, ahead, hold, copy, counted, due, server, client, gone, dead, got, eof, cut>>
ends == <<sent, got, eof>>
counts == <<counted, due>>
stages == <<server, client>>

\* The goroutines of PipeCounted on the server, of Pipe on the client: the
\* hop next to the user, and the one next to the target.
ServerHops == {<<"in", 1>>, <<"out", 2>>}
ClientHops == {<<"in", 2>>, <<"out", 1>>}
AllHops == ServerHops \cup ClientHops

\* The receiver of direction d has closed its connection.
ReceiverGone(d) == Other(d) \in gone

Room(d, h) == Len(chan[d][h]) < Cap

CloseWrite(d, h) == fin' = [fin EXCEPT ![d][h] = TRUE]

StartCopies(hops) == copy' = [x \in AllHops |-> IF x \in hops THEN "running" ELSE copy[x]]

-----------------------------------------------------------------------------
(* The programs at the two ends *)

Connected(d) == d = "in" \/ client = "pipe"

Send(d) ==
  /\ Connected(d) /\ ~fin[d][1] /\ sent[d] < MaxBytes /\ Room(d, 1)
  /\ sent' = [sent EXCEPT ![d] = @ + 1]
  /\ chan' = [chan EXCEPT ![d][1] = Append(@, sent[d] + 1)]
  /\ UNCHANGED <<fin, ahead, hold, copy, counts, stages, gone, dead, got, eof, cut>>

\* The sender half-closes its connection ...
Finish(d) ==
  /\ Connected(d) /\ ~fin[d][1]
  /\ CloseWrite(d, 1)
  /\ UNCHANGED <<ends, chan, ahead, hold, copy, counts, stages, gone, dead, cut>>

\* ... or closes it: it reads no more, and what it has sent may be lost.
Leave(d) ==
  /\ Connected(d) /\ d \notin gone
  /\ gone' = gone \cup {d} /\ cut' = TRUE
  /\ CloseWrite(d, 1)
  /\ UNCHANGED <<ends, chan, ahead, hold, copy, counts, stages, dead>>

Receive(d) ==
  /\ ~ReceiverGone(d) /\ chan[d][3] # <<>>
  /\ got' = [got EXCEPT ![d] = Append(@, Head(chan[d][3]))]
  /\ chan' = [chan EXCEPT ![d][3] = Tail(@)]
  /\ UNCHANGED <<sent, eof, fin, ahead, hold, copy, counts, stages, gone, dead, cut>>

SeeEnd(d) ==
  /\ ~ReceiverGone(d) /\ chan[d][3] = <<>> /\ fin[d][3] /\ ~eof[d]
  /\ eof' = [eof EXCEPT ![d] = TRUE]
  /\ UNCHANGED <<sent, got, chan, fin, ahead, hold, copy, counts, stages, gone, dead, cut>>

-----------------------------------------------------------------------------
(* The tunnel *)

SessionLost ==
  /\ server = "pipe" /\ ~dead
  /\ dead' = TRUE /\ cut' = TRUE
  /\ UNCHANGED <<ends, chan, fin, ahead, hold, copy, counts, stages, gone>>

\* One side has closed the stream and the other has not for too long.
CloseTimeout ==
  /\ fin["in"][2] # fin["out"][2] /\ ~dead
  /\ dead' = TRUE /\ cut' = TRUE
  /\ UNCHANGED <<ends, chan, fin, ahead, hold, copy, counts, stages, gone>>

-----------------------------------------------------------------------------
(* The server *)

\* openStream fails, the client is offline or does not take the header.
OpenFails ==
  /\ server = "accepted" /\ server' = "done"
  /\ CloseWrite("out", 3) /\ cut' = TRUE
  /\ UNCHANGED <<ends, chan, ahead, hold, copy, counts, client, gone, dead>>

OpenStream ==
  /\ server = "accepted" /\ server' = "pipe"
  /\ chan' = [chan EXCEPT !["in"][2] = <<Header>>]
  /\ StartCopies(ServerHops)
  /\ UNCHANGED <<ends, fin, ahead, hold, counts, client, gone, dead, cut>>

-----------------------------------------------------------------------------
(* The client *)

\* Variant with a defect: the handler returns and leaves the stream open.
GiveUpOpen ==
  /\ client' = "done" /\ cut' = TRUE
  /\ UNCHANGED <<ends, chan, fin, ahead, hold, copy, counts, server, gone, dead>>

\* stream.Close() before there is a pipe.
GiveUp ==
  /\ client' = "done"
  /\ CloseWrite("out", 2) /\ cut' = TRUE
  /\ UNCHANGED <<ends, chan, ahead, hold, copy, counts, server, gone, dead>>

\* The header does not come in time, or the session ends before it does.
HeaderFails == server # "accepted" /\ client = "header" /\ GiveUp

\* Variant with a defect: the header is passed on with the bytes behind it.
ReadHeaderKept ==
  /\ client = "header" /\ client' = "dial"
  /\ chan["in"][2] # <<>> /\ Head(chan["in"][2]) = Header
  /\ ahead' = chan["in"][2]
  /\ chan' = [chan EXCEPT !["in"][2] = <<>>]
  /\ UNCHANGED <<ends, fin, hold, copy, counts, server, gone, dead, cut>>

\* The reader takes the header and whatever has arrived behind it.
ReadHeader ==
  /\ client = "header" /\ client' = "dial"
  /\ chan["in"][2] # <<>> /\ Head(chan["in"][2]) = Header
  /\ \E k \in 1..Len(chan["in"][2]) :
       /\ ahead' = SubSeq(chan["in"][2], 2, k)
       /\ chan' = [chan EXCEPT !["in"][2] = SubSeq(@, k + 1, Len(@))]
  /\ UNCHANGED <<ends, fin, hold, copy, counts, server, gone, dead, cut>>

DialFails == client = "dial" /\ GiveUp

\* Variant with a defect: the stream is piped, not the reader on top of it.
DialStream ==
  /\ client = "dial" /\ client' = "pipe" /\ ahead' = <<>>
  /\ StartCopies(ClientHops)
  /\ UNCHANGED <<ends, chan, fin, hold, counts, server, gone, dead, cut>>

Dial ==
  /\ client = "dial" /\ client' = "pipe"
  /\ StartCopies(ClientHops)
  /\ UNCHANGED <<ends, chan, fin, ahead, hold, counts, server, gone, dead, cut>>

-----------------------------------------------------------------------------
(* Pipe *)

\* The goroutine is in io.Copy and its last Write has returned.
Copying(d, h) == copy[<<d, h>>] = "running" /\ (<<d, h>> \in ServerHops => due[d] = 0)

\* BufferedConn: the client reads what its reader has ahead of the stream.
Buffered(d, h) == d = "in" /\ h = 2 /\ ahead # <<>>

Input(d, h) == IF Buffered(d, h) THEN ahead ELSE chan[d][h]

Read(d, h) ==
  /\ Copying(d, h) /\ hold[<<d, h>>] = <<>> /\ Input(d, h) # <<>>
  /\ hold' = [hold EXCEPT ![<<d, h>>] = <<Head(Input(d, h))>>]
  /\ IF Buffered(d, h) THEN ahead' = Tail(ahead) /\ UNCHANGED chan
                       ELSE chan' = [chan EXCEPT ![d][h] = Tail(@)] /\ UNCHANGED ahead
  /\ UNCHANGED <<ends, fin, copy, counts, stages, gone, dead, cut>>

\* The other side of channel h no longer takes or gives anything: the sender's
\* connection, the stream, the receiver's connection.
Lost(d, h) == IF h = 2 THEN dead ELSE IF h = 1 THEN d \in gone ELSE ReceiverGone(d)

\* The byte enters the next channel, where its reader may have it at once.
Write(d, h) ==
  /\ Copying(d, h) /\ hold[<<d, h>>] # <<>>
  /\ Room(d, h + 1) /\ ~(h = 1 /\ dead)
  /\ chan' = [chan EXCEPT ![d][h + 1] = @ \o hold[<<d, h>>]]
  /\ hold' = [hold EXCEPT ![<<d, h>>] = <<>>]
  /\ due' = IF <<d, h>> \in ServerHops THEN [due EXCEPT ![d] = 1] ELSE due
  /\ UNCHANGED <<ends, fin, ahead, copy, counted, stages, gone, dead, cut>>

\* Variant with a defect: the counters of the two directions are swapped.
CountSwapped(d) ==
  /\ due[d] > 0
  /\ counted' = [counted EXCEPT ![Other(d)] = @ + due[d]]
  /\ due' = [due EXCEPT ![d] = 0]
  /\ UNCHANGED <<ends, chan, fin, ahead, hold, copy, stages, gone, dead, cut>>

\* countingWriter: the server counts when its Write has returned.
Count(d) ==
  /\ due[d] > 0
  /\ counted' = [counted EXCEPT ![d] = @ + due[d]]
  /\ due' = [due EXCEPT ![d] = 0]
  /\ UNCHANGED <<ends, chan, fin, ahead, hold, copy, stages, gone, dead, cut>>

\* io.Copy returns: at the end of its input, when its input fails, or when a
\* write fails.
CopyReturns(d, h) ==
  \/ hold[<<d, h>>] = <<>> /\ ~Buffered(d, h) /\ chan[d][h] = <<>> /\ fin[d][h]
  \/ hold[<<d, h>>] = <<>> /\ ~Buffered(d, h) /\ Lost(d, h)
  \/ hold[<<d, h>>] # <<>> /\ Lost(d, h + 1)

\* Variant with a defect: the end is not passed on.
CopyEndsSilently(d, h) ==
  /\ Copying(d, h) /\ CopyReturns(d, h)
  /\ copy' = [copy EXCEPT ![<<d, h>>] = "over"]
  /\ hold' = [hold EXCEPT ![<<d, h>>] = <<>>]
  /\ UNCHANGED <<ends, chan, fin, ahead, counts, stages, gone, dead, cut>>

\* Whatever ended it, closeWrite tells the other side an orderly end.
CopyEnds(d, h) ==
  /\ Copying(d, h) /\ CopyReturns(d, h)
  /\ copy' = [copy EXCEPT ![<<d, h>>] = "over"]
  /\ hold' = [hold EXCEPT ![<<d, h>>] = <<>>]
  /\ CloseWrite(d, h + 1)
  /\ UNCHANGED <<ends, chan, ahead, counts, stages, gone, dead, cut>>

Over(hops) == \A x \in hops : copy[x] = "over"

\* Both directions are over; a and b are closed for good.
ServerEnds ==
  /\ server = "pipe" /\ Over(ServerHops)
  /\ server' = "done"
  /\ UNCHANGED <<ends, chan, fin, ahead, hold, copy, counts, client, gone, dead, cut>>

ClientEnds ==
  /\ client = "pipe" /\ Over(ClientHops)
  /\ client' = "done"
  /\ UNCHANGED <<ends, chan, fin, ahead, hold, copy, counts, server, gone, dead, cut>>

-----------------------------------------------------------------------------
Init ==
  /\ sent = [d \in Dirs |-> 0]
  /\ chan = [d \in Dirs |-> [h \in 1..3 |-> <<>>]]
  /\ fin = [d \in Dirs |-> [h \in 1..3 |-> FALSE]]
  /\ ahead = <<>>
  /\ hold = [x \in AllHops |-> <<>>] /\ copy = [x \in AllHops |-> "none"]
  /\ counted = [d \in Dirs |-> 0] /\ due = [d \in Dirs |-> 0]
  /\ server = "accepted" /\ client = "header"
  /\ gone = {} /\ dead = FALSE
  /\ got = [d \in Dirs |-> <<>>] /\ eof = [d \in Dirs |-> FALSE] /\ cut = FALSE

Programs == \E d \in Dirs : Send(d) \/ Finish(d) \/ Leave(d) \/ Receive(d) \/ SeeEnd(d)

Opening == OpenFails \/ OpenStream \/ HeaderFails \/ ReadHeader \/ DialFails \/ Dial

Piping ==
  \/ ServerEnds \/ ClientEnds
  \/ \E d \in Dirs : Count(d)
  \/ \E d \in Dirs, h \in Hops : Read(d, h) \/ Write(d, h) \/ CopyEnds(d, h)

Next == Programs \/ Opening \/ Piping \/ SessionLost \/ CloseTimeout

Spec == Init /\ [][Next]_vars

\* Every goroutine runs, a dial has a time limit, and so has a half closed stream.
FairSpec ==
  /\ Spec
  /\ WF_vars(OpenFails \/ OpenStream) /\ WF_vars(HeaderFails \/ ReadHeader)
  /\ WF_vars(DialFails \/ Dial) /\ WF_vars(ServerEnds) /\ WF_vars(ClientEnds)
  /\ WF_vars(CloseTimeout)
  /\ \A d \in Dirs : WF_vars(Count(d))
  /\ \A d \in Dirs, h \in Hops : WF_vars(Read(d, h) \/ Write(d, h) \/ CopyEnds(d, h))

-----------------------------------------------------------------------------
TypeOK ==
  /\ sent \in [Dirs -> 0..MaxBytes] /\ counted \in [Dirs -> 0..MaxBytes] /\ due \in [Dirs -> {0, 1}]
  /\ chan \in [Dirs -> [1..3 -> Seq(0..MaxBytes)]] /\ ahead \in Seq(1..MaxBytes)
  /\ \A d \in Dirs, h \in 1..3 : Len(chan[d][h]) <= Cap
  /\ fin \in [Dirs -> [1..3 -> BOOLEAN]]
  /\ hold \in [AllHops -> {<<>>} \cup {<<b>> : b \in 1..MaxBytes}]
  /\ copy \in [AllHops -> {"none", "running", "over"}]
  /\ server \in {"accepted", "pipe", "done"} /\ client \in {"header", "dial", "pipe", "done"}
  /\ gone \subseteq Dirs /\ {dead, cut} \subseteq BOOLEAN
  /\ got \in [Dirs -> Seq(1..MaxBytes)] /\ eof \in [Dirs -> BOOLEAN]

\* The forward's counters never show more than was sent; they miss, of what has
\* arrived, no more than the write that is just being counted, so nothing once
\* handleTCP has returned, cut or not; and a connection that ended uncut has
\* been counted to the byte.
CountsTell ==
  \A d \in Dirs :
    /\ Len(got[d]) <= counted[d] + due[d] /\ counted[d] <= sent[d]
    /\ server = "done" => Len(got[d]) <= counted[d]
    /\ server = "done" /\ ~cut => counted[d] = sent[d]

D == INSTANCE Duplex WITH fin <- [d \in Dirs |-> fin[d][1]]

\* The chain of three connections is one connection: bytes arrive once and in
\* order, and the end behind the last of them unless the connection was cut.
Implements == D!Spec

\* The programs read what arrives for them.  Nothing in the relay makes them.
ProgramsRead == \A d \in Dirs : WF_vars(Receive(d) \/ SeeEnd(d))

\* Nobody is left waiting: when a direction's sender has finished, or the stream
\* is lost, its receiver sees an end, whatever the other direction does.  Only a
\* target that was never dialled does not.
EndsArrive ==
  ProgramsRead =>
    \A d \in Dirs :
      fin[d][1] \/ dead ~> eof[d] \/ ReceiverGone(d) \/ (client = "done" /\ copy[<<d, 2>>] = "none")

\* A user who has finished sending is let go of: handleTCP returns, although
\* nothing makes the target finish.
UserReleased == ProgramsRead => (fin["in"][1] ~> server = "done")
=============================================================================
