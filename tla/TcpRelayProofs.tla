---------------------------- MODULE TcpRelayProofs ----------------------------
(***************************************************************************)
(* The relay is one connection: a chain of three channels and two copying  *)
(* goroutines per direction implements Duplex, for channels of any         *)
(* capacity and any number of bytes, and the server's counters tell the    *)
(* truth about it.                                                         *)
(*                                                                         *)
(* Bytes are numbered, so what lies between sender and receiver must be a  *)
(* run of consecutive numbers, split over channel 3, hop 2, the client's   *)
(* reader, channel 2 (with the header in front of it), hop 1 and channel   *)
(* 1.  When a hop gives up, what it held or never read is missing there:   *)
(* the run is one behind that point and one in front of it.                *)
(***************************************************************************)
EXTENDS TcpRelay, Integers, SequenceTheorems, TLAPS

-----------------------------------------------------------------------------
(* Runs of numbers *)

\* s is the run of numbers that follows k.
Run(s, k) == \A i \in 1..Len(s) : s[i] = k + i


\* The empty sequence is a run from anywhere.
LEMMA RunEmpty == \A k \in Int : Run(<<>>, k)
BY DEF Run

\* One number is a run from the one before it.
LEMMA RunOne ==
  ASSUME NEW b \in Int, NEW k \in Int
  PROVE  Run(<<b>>, k) <=> b = k + 1
BY DEF Run

\* The next number makes a run longer.
LEMMA RunAppend ==
  ASSUME NEW k \in Int, NEW s \in Seq(Int), Run(s, k)
  PROVE  Run(Append(s, k + Len(s) + 1), k) /\ Len(Append(s, k + Len(s) + 1)) = Len(s) + 1
<1> DEFINE b == k + Len(s) + 1
<1>1. Len(s) \in Nat /\ b \in Int
  OBVIOUS
<1>2. /\ Len(Append(s, b)) = Len(s) + 1
      /\ \A i \in 1..Len(s) : Append(s, b)[i] = s[i]
      /\ Append(s, b)[Len(s) + 1] = b
  BY <1>1, AppendProperties
<1> QED BY <1>1, <1>2 DEF Run

\* The same when the number is written behind it.
LEMMA RunJoin ==
  ASSUME NEW k \in Int, NEW s \in Seq(Int), NEW b \in Int, Run(s, k), b = k + Len(s) + 1
  PROVE  Run(s \o <<b>>, k)
<1>1. s \o <<b>> = Append(s, b)
  BY AppendIsConcat
<1> QED BY <1>1, RunAppend

\* The first number of a run is known, and the rest is a run from there.
LEMMA RunTail ==
  ASSUME NEW k \in Int, NEW s \in Seq(Int), Run(s, k), s # <<>>
  PROVE  Head(s) = k + 1 /\ Run(Tail(s), k + 1)
BY DEF Run

\* A part of a run is a run.
LEMMA RunSubSeq ==
  ASSUME NEW k \in Int, NEW s \in Seq(Int), Run(s, k), NEW m \in 1..Len(s) + 1, NEW j \in 0..Len(s), m <= j + 1
  PROVE  Run(SubSeq(s, m, j), k + m - 1) /\ Len(SubSeq(s, m, j)) = j - m + 1
BY DEF Run

\* The header and what follows it, split behind its k-th element.
LEMMA RunSplit ==
  ASSUME NEW s \in Seq(Int), Run(s, 0 - 1), NEW k \in 1..Len(s)
  PROVE  /\ Run(SubSeq(s, 2, k), 0) /\ Len(SubSeq(s, 2, k)) = k - 1
         /\ Run(SubSeq(s, k + 1, Len(s)), k - 1) /\ Len(SubSeq(s, k + 1, Len(s))) = Len(s) - k
<1>1. Len(s) \in Nat /\ 0 - 1 \in Int
  BY LenProperties
<1>2. 2 \in 1..Len(s) + 1 /\ k \in 0..Len(s) /\ 2 <= k + 1
  BY <1>1
<1>3. k + 1 \in 1..Len(s) + 1 /\ Len(s) \in 0..Len(s) /\ k + 1 <= Len(s) + 1
  BY <1>1
<1>4. Run(SubSeq(s, 2, k), 0 - 1 + 2 - 1) /\ Len(SubSeq(s, 2, k)) = k - 2 + 1
  BY <1>1, <1>2, RunSubSeq
<1>5. Run(SubSeq(s, k + 1, Len(s)), 0 - 1 + (k + 1) - 1) /\ Len(SubSeq(s, k + 1, Len(s))) = Len(s) - (k + 1) + 1
  BY <1>1, <1>3, RunSubSeq
<1>6. /\ 0 - 1 + 2 - 1 = 0 /\ k - 2 + 1 = k - 1
      /\ 0 - 1 + (k + 1) - 1 = k - 1 /\ Len(s) - (k + 1) + 1 = Len(s) - k
  BY <1>1
<1> QED BY <1>4, <1>5, <1>6

-----------------------------------------------------------------------------
(* The invariant *)

\* The bytes the client has read ahead; is the header still in the stream?
Ahead(d) == IF d = "in" THEN ahead ELSE <<>>
Hdr(d) == IF d = "in" /\ client = "header" /\ copy[<<"in", 1>>] # "none" THEN 1 ELSE 0

\* Hop 2 of the direction may still deliver.
Open(d) == copy[<<d, 2>>] # "over" /\ ~(client = "done" /\ copy[<<d, 2>>] = "none")

\* How many bytes have been received, are in a channel, are held by a hop,
\* are kept by the client's reader.
Got(d) == Len(got[d])
In(d, h) == Len(chan[d][h])
Held(d, h) == Len(hold[<<d, h>>])
Kept(d) == Len(Ahead(d))

\* How many bytes have come as far as channel 3, hop 2, the client's reader,
\* channel 2, hop 1 and channel 1.
At3(d) == Got(d) + In(d, 3)
AtHop2(d) == At3(d) + Held(d, 2)
AtReader(d) == AtHop2(d) + Kept(d)
At2(d) == AtReader(d) + In(d, 2) - Hdr(d)
AtHop1(d) == At2(d) + Held(d, 1)
At1(d) == AtHop1(d) + In(d, 1)

\* Stages and goroutines: who has started what.
Stages ==
  /\ server = "accepted" => client = "header" /\ copy[<<"in", 1>>] = "none" /\ copy[<<"out", 2>>] = "none"
  /\ server = "pipe" => copy[<<"in", 1>>] # "none" /\ copy[<<"out", 2>>] # "none"
  /\ server = "done" => /\ copy[<<"in", 1>>] = copy[<<"out", 2>>] /\ copy[<<"in", 1>>] # "running"
                        /\ copy[<<"in", 1>>] = "none" => cut = TRUE
  /\ client \in {"header", "dial"} => copy[<<"in", 2>>] = "none" /\ copy[<<"out", 1>>] = "none"
  /\ client = "pipe" => copy[<<"in", 2>>] # "none" /\ copy[<<"out", 1>>] # "none"
  /\ client = "done" => /\ copy[<<"in", 2>>] = copy[<<"out", 1>>] /\ copy[<<"in", 2>>] # "running"
                        /\ copy[<<"in", 2>>] = "none" => cut = TRUE

\* Before the stream is opened nothing has come behind hop 1.
Fresh ==
  server = "accepted" =>
    /\ got["in"] = <<>> /\ chan["in"][3] = <<>> /\ chan["in"][2] = <<>>
    /\ ahead = <<>> /\ hold[<<"in", 2>>] = <<>>

\* A goroutine that does not run holds nothing.
Idle == \A x \in AllHops : copy[x] # "running" => hold[x] = <<>>

\* Whatever is lost, the connection is known to be cut.
CutKnown == (dead => cut = TRUE) /\ (gone # {} => cut = TRUE)

\* What is behind the point where something was lost is in order, and so is
\* what is in front of it.
Ordered(d) ==
  /\ Run(chan[d][3], Got(d)) /\ Run(hold[<<d, 2>>], At3(d))
  /\ Open(d) => /\ Run(Ahead(d), AtHop2(d))
                /\ Run(chan[d][2], AtReader(d) - Hdr(d))
                /\ Run(hold[<<d, 1>>], At2(d))
  /\ Run(chan[d][1], sent[d] - In(d, 1))

\* Nothing is made up, and while nothing is lost everything is somewhere.
Conserved(d) ==
  /\ AtHop2(d) <= sent[d] /\ Held(d, 1) + In(d, 1) <= sent[d]
  /\ Open(d) => At1(d) <= sent[d]
  /\ cut = FALSE \/ (Open(d) /\ copy[<<d, 1>>] # "over") => At1(d) = sent[d]

\* What a forward's counter comes to when the write in progress is counted.
Tally(d) == counted[d] + due[d]

\* The server tallies what passes its hops: hop 2 of "out" and hop 1 of "in".
CountedOut == Tally("out") = At3("out")
CountedIn ==
  /\ AtHop2("in") <= Tally("in")
  /\ Tally("in") + Held("in", 1) + In("in", 1) <= sent["in"]
  /\ cut = FALSE \/ copy[<<"in", 1>>] # "over" =>
       Tally("in") + Held("in", 1) + In("in", 1) = sent["in"]
  /\ cut = FALSE \/ Open("in") => At2("in") = Tally("in")

\* A hop of the server that does not run has counted all it has written.
Settled == (copy[<<"in", 1>>] # "running" => due["in"] = 0) /\ (copy[<<"out", 2>>] # "running" => due["out"] = 0)

\* An end is passed on when all before it has been, and nothing follows it.
EndsLast(d) ==
  /\ eof[d] => fin[d][3] /\ chan[d][3] = <<>>
  /\ fin[d][3] => copy[<<d, 2>>] = "over" \/ (d = "out" /\ server = "done" /\ copy[<<d, 2>>] = "none")
  /\ cut = FALSE =>
       \A h \in Hops :
         /\ copy[<<d, h>>] = "over" => fin[d][h] /\ chan[d][h] = <<>> /\ (h = 2 => Ahead(d) = <<>>)
         /\ fin[d][h + 1] => copy[<<d, h>>] = "over"

RelayInv ==
  /\ TypeOK /\ Stages /\ Fresh /\ Idle /\ CutKnown /\ CountedOut /\ CountedIn /\ Settled
  /\ \A d \in Dirs : Ordered(d) /\ Conserved(d) /\ EndsLast(d)

-----------------------------------------------------------------------------
(* Lengths *)

\* What the operations on a channel do to its length.
LEMMA LenFacts ==
  ASSUME NEW s \in Seq(Int), NEW b \in Int
  PROVE  /\ Len(s) \in Nat /\ Len(Append(s, b)) = Len(s) + 1 /\ Len(s \o <<b>>) = Len(s) + 1
         /\ Append(s, b) \in Seq(Int) /\ s \o <<b>> \in Seq(Int) /\ s \o <<b>> = Append(s, b)
         /\ s # <<>> => Len(s) >= 1 /\ Len(Tail(s)) = Len(s) - 1 /\ Tail(s) \in Seq(Int) /\ Head(s) \in Int
<1>1. Len(s) \in Nat /\ Len(Append(s, b)) = Len(s) + 1 /\ Append(s, b) \in Seq(Int)
  BY AppendProperties
<1>2. s \o <<b>> = Append(s, b)
  BY AppendIsConcat
<1>3. s # <<>> => Len(s) >= 1 /\ Len(Tail(s)) = Len(s) - 1 /\ Tail(s) \in Seq(Int) /\ Head(s) \in Int
  OBVIOUS
<1> QED BY <1>1, <1>2, <1>3

\* The empty sequence and one byte.
LEMMA LenSmall == Len(<<>>) = 0 /\ \A b : Len(<<b>>) = 1
OBVIOUS

-----------------------------------------------------------------------------
(* What the actions do to the sequences of a direction *)

\* The types in terms of which runs are spoken of.
LEMMA Types ==
  ASSUME TypeOK, NEW d \in Dirs
  PROVE  /\ got[d] \in Seq(Int) /\ chan[d][1] \in Seq(Int) /\ chan[d][2] \in Seq(Int) /\ chan[d][3] \in Seq(Int)
         /\ Ahead(d) \in Seq(Int) /\ ahead \in Seq(Int)
         /\ hold[<<d, 1>>] = <<>> \/ \E b \in Int : hold[<<d, 1>>] = <<b>>
         /\ hold[<<d, 2>>] = <<>> \/ \E b \in Int : hold[<<d, 2>>] = <<b>>
         /\ sent[d] \in Nat /\ Tally(d) \in Nat /\ Hdr(d) \in {0, 1}
<1>1. \A S, T : S \subseteq T => Seq(S) \subseteq Seq(T)
  OBVIOUS
<1>2. 0..MaxBytes \subseteq Int /\ 1..MaxBytes \subseteq Int
  OBVIOUS
<1>3. Seq(0..MaxBytes) \subseteq Seq(Int) /\ Seq(1..MaxBytes) \subseteq Seq(Int)
  BY <1>1, <1>2
<1>4. chan[d][1] \in Seq(0..MaxBytes) /\ chan[d][2] \in Seq(0..MaxBytes) /\ chan[d][3] \in Seq(0..MaxBytes)
  BY DEF TypeOK
<1>5. got[d] \in Seq(1..MaxBytes) /\ ahead \in Seq(1..MaxBytes)
  BY DEF TypeOK
<1>6. Ahead(d) \in Seq(Int)
  BY <1>3, <1>5 DEF Ahead
<1>7. \A h \in {1, 2} : <<d, h>> \in AllHops
  BY DEF AllHops, ServerHops, ClientHops, Dirs
<1>8. \A h \in {1, 2} : hold[<<d, h>>] \in {<<>>} \cup {<<b>> : b \in 1..MaxBytes}
  BY <1>7 DEF TypeOK
<1>9. sent[d] \in Nat /\ Tally(d) \in Nat
  <2>1. sent[d] \in 0..MaxBytes /\ counted[d] \in 0..MaxBytes /\ due[d] \in {0, 1}
    BY DEF TypeOK
  <2> QED BY <2>1, RelayAssumption DEF Tally
<1>10. Hdr(d) \in {0, 1}
  BY DEF Hdr
<1> QED BY <1>2, <1>3, <1>4, <1>5, <1>6, <1>8, <1>9, <1>10

\* The byte sent follows the last one in channel 1.
LEMMA SendEffect ==
  ASSUME TypeOK, NEW d \in Dirs, Send(d)
  PROVE  /\ sent' = [sent EXCEPT ![d] = sent[d] + 1] /\ sent'[d] = sent[d] + 1
         /\ chan'[d][1] = Append(chan[d][1], sent[d] + 1) /\ chan'[d][2] = chan[d][2] /\ chan'[d][3] = chan[d][3]
         /\ \A e \in Dirs : e # d => sent'[e] = sent[e] /\ chan'[e] = chan[e]
BY DEF Send, TypeOK

\* The receiver takes the first byte of channel 3.
LEMMA ReceiveEffect ==
  ASSUME TypeOK, NEW d \in Dirs, Receive(d)
  PROVE  /\ got'[d] = Append(got[d], Head(chan[d][3])) /\ chan'[d][3] = Tail(chan[d][3])
         /\ chan'[d][1] = chan[d][1] /\ chan'[d][2] = chan[d][2]
         /\ \A e \in Dirs : e # d => got'[e] = got[e] /\ chan'[e] = chan[e]
BY DEF Receive, TypeOK

\* Hop 1 takes the first byte of channel 1.
LEMMA Read1Effect ==
  ASSUME TypeOK, NEW d \in Dirs, Read(d, 1)
  PROVE  /\ chan[d][1] # <<>> /\ chan'[d][1] = Tail(chan[d][1]) /\ chan'[d][2] = chan[d][2] /\ chan'[d][3] = chan[d][3]
         /\ ahead' = ahead /\ hold[<<d, 1>>] = <<>> /\ hold'[<<d, 1>>] = <<Head(chan[d][1])>>
         /\ \A e \in Dirs : e # d => chan'[e] = chan[e]
         /\ hold'[<<d, 2>>] = hold[<<d, 2>>]
         /\ \A e \in Dirs : e # d => hold'[<<e, 1>>] = hold[<<e, 1>>] /\ hold'[<<e, 2>>] = hold[<<e, 2>>]
<1>1. <<d, 1>> \in AllHops /\ <<d, 2>> \in AllHops /\ 1 \in 1..3 /\ 1 # 2
  BY DEF AllHops, ServerHops, ClientHops, Dirs
<1>2. ~ Buffered(d, 1) /\ Input(d, 1) = chan[d][1]
  BY DEF Buffered, Input
<1>3. /\ chan[d][1] # <<>> /\ hold[<<d, 1>>] = <<>> /\ ahead' = ahead
      /\ chan' = [chan EXCEPT ![d][1] = Tail(chan[d][1])]
      /\ hold' = [hold EXCEPT ![<<d, 1>>] = <<Head(chan[d][1])>>]
  BY <1>2 DEF Read
<1>4. /\ chan'[d][1] = Tail(chan[d][1]) /\ chan'[d][2] = chan[d][2] /\ chan'[d][3] = chan[d][3]
      /\ \A e \in Dirs : e # d => chan'[e] = chan[e]
  BY <1>1, <1>3 DEF TypeOK
<1>5. hold'[<<d, 1>>] = <<Head(chan[d][1])>> /\ \A x \in AllHops : x # <<d, 1>> => hold'[x] = hold[x]
  BY <1>1, <1>3 DEF TypeOK
<1>6. ASSUME NEW e \in Dirs, e # d PROVE hold'[<<e, 1>>] = hold[<<e, 1>>] /\ hold'[<<e, 2>>] = hold[<<e, 2>>]
  <2>1. <<e, 1>> \in AllHops /\ <<e, 2>> \in AllHops
    BY DEF AllHops, ServerHops, ClientHops, Dirs
  <2> QED BY <1>5, <1>6, <2>1
<1> QED BY <1>1, <1>3, <1>4, <1>5, <1>6

\* Hop 2 takes the first byte of channel 2.
LEMMA Read2Effect ==
  ASSUME TypeOK, NEW d \in Dirs, Read(d, 2), ~ Buffered(d, 2)
  PROVE  /\ chan[d][2] # <<>> /\ chan'[d][2] = Tail(chan[d][2]) /\ chan'[d][1] = chan[d][1] /\ chan'[d][3] = chan[d][3]
         /\ ahead' = ahead /\ Ahead(d) = <<>>
         /\ hold[<<d, 2>>] = <<>> /\ hold'[<<d, 2>>] = <<Head(chan[d][2])>>
         /\ \A e \in Dirs : e # d => chan'[e] = chan[e]
         /\ hold'[<<d, 1>>] = hold[<<d, 1>>]
         /\ \A e \in Dirs : e # d => hold'[<<e, 1>>] = hold[<<e, 1>>] /\ hold'[<<e, 2>>] = hold[<<e, 2>>]
<1>1. <<d, 1>> \in AllHops /\ <<d, 2>> \in AllHops /\ 2 \in 1..3
  BY DEF AllHops, ServerHops, ClientHops, Dirs
<1>2. Input(d, 2) = chan[d][2] /\ Ahead(d) = <<>>
  BY DEF Buffered, Input, Ahead
<1>3. /\ chan[d][2] # <<>> /\ hold[<<d, 2>>] = <<>> /\ ahead' = ahead
      /\ chan' = [chan EXCEPT ![d][2] = Tail(chan[d][2])]
      /\ hold' = [hold EXCEPT ![<<d, 2>>] = <<Head(chan[d][2])>>]
  BY <1>2 DEF Read
<1>4. /\ chan'[d][2] = Tail(chan[d][2]) /\ chan'[d][1] = chan[d][1] /\ chan'[d][3] = chan[d][3]
      /\ \A e \in Dirs : e # d => chan'[e] = chan[e]
  BY <1>1, <1>3 DEF TypeOK
<1>5. hold'[<<d, 2>>] = <<Head(chan[d][2])>> /\ \A x \in AllHops : x # <<d, 2>> => hold'[x] = hold[x]
  BY <1>1, <1>3 DEF TypeOK
<1>6. ASSUME NEW e \in Dirs, e # d PROVE hold'[<<e, 1>>] = hold[<<e, 1>>] /\ hold'[<<e, 2>>] = hold[<<e, 2>>]
  <2>1. <<e, 1>> \in AllHops /\ <<e, 2>> \in AllHops
    BY DEF AllHops, ServerHops, ClientHops, Dirs
  <2> QED BY <1>5, <1>6, <2>1
<1> QED BY <1>1, <1>2, <1>3, <1>4, <1>5, <1>6

\* Hop 2 takes the first byte the client has read ahead.
LEMMA ReadAheadEffect ==
  ASSUME TypeOK, NEW d \in Dirs, Read(d, 2), Buffered(d, 2)
  PROVE  /\ d = "in" /\ ahead # <<>> /\ ahead' = Tail(ahead) /\ chan' = chan
         /\ hold[<<d, 2>>] = <<>> /\ hold'[<<d, 2>>] = <<Head(ahead)>>
         /\ hold'[<<d, 1>>] = hold[<<d, 1>>]
         /\ \A e \in Dirs : e # d => hold'[<<e, 1>>] = hold[<<e, 1>>] /\ hold'[<<e, 2>>] = hold[<<e, 2>>]
<1>1. <<d, 1>> \in AllHops /\ <<d, 2>> \in AllHops
  BY DEF AllHops, ServerHops, ClientHops, Dirs
<1>2. Input(d, 2) = ahead
  BY DEF Buffered, Input
<1>3. /\ d = "in" /\ ahead # <<>> /\ ahead' = Tail(ahead) /\ chan' = chan
      /\ hold[<<d, 2>>] = <<>> /\ hold' = [hold EXCEPT ![<<d, 2>>] = <<Head(ahead)>>]
  BY <1>2 DEF Read, Buffered
<1>4. hold'[<<d, 2>>] = <<Head(ahead)>> /\ \A x \in AllHops : x # <<d, 2>> => hold'[x] = hold[x]
  BY <1>1, <1>3 DEF TypeOK
<1>5. ASSUME NEW e \in Dirs, e # d PROVE hold'[<<e, 1>>] = hold[<<e, 1>>] /\ hold'[<<e, 2>>] = hold[<<e, 2>>]
  <2>1. <<e, 1>> \in AllHops /\ <<e, 2>> \in AllHops
    BY DEF AllHops, ServerHops, ClientHops, Dirs
  <2> QED BY <1>4, <1>5, <2>1
<1> QED BY <1>1, <1>3, <1>4, <1>5

\* Hop 1 puts its byte into channel 2; the server counts it.
LEMMA Write1Effect ==
  ASSUME TypeOK, NEW d \in Dirs, Write(d, 1)
  PROVE  /\ hold[<<d, 1>>] # <<>> /\ hold'[<<d, 1>>] = <<>>
         /\ chan'[d][2] = chan[d][2] \o hold[<<d, 1>>] /\ chan'[d][1] = chan[d][1] /\ chan'[d][3] = chan[d][3]
         /\ \A e \in Dirs : e # d => chan'[e] = chan[e]
         /\ hold'[<<d, 2>>] = hold[<<d, 2>>]
         /\ \A e \in Dirs : e # d => hold'[<<e, 1>>] = hold[<<e, 1>>] /\ hold'[<<e, 2>>] = hold[<<e, 2>>]
         /\ \A e \in Dirs : Tally(e)' = IF e = d /\ d = "in" THEN Tally(e) + 1 ELSE Tally(e)
<1>1. <<d, 1>> \in AllHops /\ <<d, 2>> \in AllHops /\ 1 + 1 = 2 /\ 2 \in 1..3
  BY DEF AllHops, ServerHops, ClientHops, Dirs
<1>2. <<d, 1>> \in ServerHops <=> d = "in"
  BY DEF ServerHops, Dirs
<1>3. \A e \in Dirs : Tally(e)' = IF e = d /\ d = "in" THEN Tally(e) + 1 ELSE Tally(e)
  <2>1. counted' = counted /\ due' = IF d = "in" THEN [due EXCEPT ![d] = 1] ELSE due
    BY <1>2 DEF Write
  <2>2. d = "in" => due[d] = 0
    BY <1>2 DEF Write, Copying
  <2>3. \A e \in Dirs : due[e] \in {0, 1} /\ counted[e] \in Nat
    BY RelayAssumption DEF TypeOK
  <2>4. \A e \in Dirs : due'[e] = IF e = d /\ d = "in" THEN 1 ELSE due[e]
    BY <2>1 DEF TypeOK
  <2> QED BY <2>1, <2>2, <2>3, <2>4 DEF Tally
<1>4. /\ hold[<<d, 1>>] # <<>> /\ chan' = [chan EXCEPT ![d][2] = chan[d][2] \o hold[<<d, 1>>]]
      /\ hold' = [hold EXCEPT ![<<d, 1>>] = <<>>]
  BY <1>1 DEF Write
<1>5. /\ chan'[d][2] = chan[d][2] \o hold[<<d, 1>>] /\ chan'[d][1] = chan[d][1] /\ chan'[d][3] = chan[d][3]
      /\ \A e \in Dirs : e # d => chan'[e] = chan[e]
  <2>1. chan \in [Dirs -> [1..3 -> Seq(0..MaxBytes)]]
    BY DEF TypeOK
  <2>2. 1 \in 1..3 /\ 2 \in 1..3 /\ 3 \in 1..3 /\ 1 # 2 /\ 3 # 2
    OBVIOUS
  <2>3. PICK v : v = chan[d][2] \o hold[<<d, 1>>]
    OBVIOUS
  <2>4. chan' = [chan EXCEPT ![d][2] = v]
    BY <1>4, <2>3
  <2>5. /\ chan'[d][2] = v /\ \A k \in 1..3 : k # 2 => chan'[d][k] = chan[d][k]
        /\ \A e \in Dirs : e # d => chan'[e] = chan[e]
    BY <2>1, <2>2, <2>4
  <2> QED BY <2>2, <2>3, <2>5, Zenon
<1>6. hold'[<<d, 1>>] = <<>> /\ \A x \in AllHops : x # <<d, 1>> => hold'[x] = hold[x]
  BY <1>1, <1>4 DEF TypeOK
<1>7. ASSUME NEW e \in Dirs, e # d PROVE hold'[<<e, 1>>] = hold[<<e, 1>>] /\ hold'[<<e, 2>>] = hold[<<e, 2>>]
  <2>1. <<e, 1>> \in AllHops /\ <<e, 2>> \in AllHops
    BY DEF AllHops, ServerHops, ClientHops, Dirs
  <2> QED BY <1>6, <1>7, <2>1
<1>8. hold'[<<d, 2>>] = hold[<<d, 2>>] /\ hold'[<<d, 1>>] = <<>>
  BY <1>1, <1>6
<1> QED BY <1>3, <1>4, <1>5, <1>7, <1>8

\* Hop 2 puts its byte into channel 3; the server counts it.
LEMMA Write2Effect ==
  ASSUME TypeOK, NEW d \in Dirs, Write(d, 2)
  PROVE  /\ hold[<<d, 2>>] # <<>> /\ hold'[<<d, 2>>] = <<>>
         /\ chan'[d][3] = chan[d][3] \o hold[<<d, 2>>] /\ chan'[d][1] = chan[d][1] /\ chan'[d][2] = chan[d][2]
         /\ \A e \in Dirs : e # d => chan'[e] = chan[e]
         /\ hold'[<<d, 1>>] = hold[<<d, 1>>]
         /\ \A e \in Dirs : e # d => hold'[<<e, 1>>] = hold[<<e, 1>>] /\ hold'[<<e, 2>>] = hold[<<e, 2>>]
         /\ \A e \in Dirs : Tally(e)' = IF e = d /\ d = "out" THEN Tally(e) + 1 ELSE Tally(e)
<1>1. <<d, 1>> \in AllHops /\ <<d, 2>> \in AllHops /\ 2 + 1 = 3 /\ 3 \in 1..3
  BY DEF AllHops, ServerHops, ClientHops, Dirs
<1>2. <<d, 2>> \in ServerHops <=> d = "out"
  BY DEF ServerHops, Dirs
<1>3. \A e \in Dirs : Tally(e)' = IF e = d /\ d = "out" THEN Tally(e) + 1 ELSE Tally(e)
  <2>1. counted' = counted /\ due' = IF d = "out" THEN [due EXCEPT ![d] = 1] ELSE due
    BY <1>2 DEF Write
  <2>2. d = "out" => due[d] = 0
    BY <1>2 DEF Write, Copying
  <2>3. \A e \in Dirs : due[e] \in {0, 1} /\ counted[e] \in Nat
    BY RelayAssumption DEF TypeOK
  <2>4. \A e \in Dirs : due'[e] = IF e = d /\ d = "out" THEN 1 ELSE due[e]
    BY <2>1 DEF TypeOK
  <2> QED BY <2>1, <2>2, <2>3, <2>4 DEF Tally
<1>4. /\ hold[<<d, 2>>] # <<>> /\ chan' = [chan EXCEPT ![d][3] = chan[d][3] \o hold[<<d, 2>>]]
      /\ hold' = [hold EXCEPT ![<<d, 2>>] = <<>>]
  BY <1>1 DEF Write
<1>5. /\ chan'[d][3] = chan[d][3] \o hold[<<d, 2>>] /\ chan'[d][1] = chan[d][1] /\ chan'[d][2] = chan[d][2]
      /\ \A e \in Dirs : e # d => chan'[e] = chan[e]
  <2>1. chan \in [Dirs -> [1..3 -> Seq(0..MaxBytes)]]
    BY DEF TypeOK
  <2>2. 1 \in 1..3 /\ 2 \in 1..3 /\ 3 \in 1..3 /\ 1 # 3 /\ 2 # 3
    OBVIOUS
  <2>3. PICK v : v = chan[d][3] \o hold[<<d, 2>>]
    OBVIOUS
  <2>4. chan' = [chan EXCEPT ![d][3] = v]
    BY <1>4, <2>3
  <2>5. /\ chan'[d][3] = v /\ \A k \in 1..3 : k # 3 => chan'[d][k] = chan[d][k]
        /\ \A e \in Dirs : e # d => chan'[e] = chan[e]
    BY <2>1, <2>2, <2>4
  <2> QED BY <2>2, <2>3, <2>5, Zenon
<1>6. hold'[<<d, 2>>] = <<>> /\ \A x \in AllHops : x # <<d, 2>> => hold'[x] = hold[x]
  BY <1>1, <1>4 DEF TypeOK
<1>7. ASSUME NEW e \in Dirs, e # d PROVE hold'[<<e, 1>>] = hold[<<e, 1>>] /\ hold'[<<e, 2>>] = hold[<<e, 2>>]
  <2>1. <<e, 1>> \in AllHops /\ <<e, 2>> \in AllHops
    BY DEF AllHops, ServerHops, ClientHops, Dirs
  <2> QED BY <1>6, <1>7, <2>1
<1>8. hold'[<<d, 1>>] = hold[<<d, 1>>] /\ hold'[<<d, 2>>] = <<>>
  BY <1>1, <1>6
<1> QED BY <1>3, <1>4, <1>5, <1>7, <1>8

\* One goroutine is over, and the end is passed on.
LEMMA CopyEndsEffect ==
  ASSUME TypeOK, NEW d \in Dirs, NEW h \in Hops, CopyEnds(d, h)
  PROVE  /\ copy[<<d, h>>] = "running" /\ copy'[<<d, h>>] = "over" /\ hold'[<<d, h>>] = <<>>
         /\ \A e \in Dirs, g \in Hops : e # d \/ g # h => copy'[<<e, g>>] = copy[<<e, g>>] /\ hold'[<<e, g>>] = hold[<<e, g>>]
         /\ fin'[d][h + 1] = TRUE
         /\ \A e \in Dirs, g \in 1..3 : <<e, g>> # <<d, h + 1>> => fin'[e][g] = fin[e][g]
<1>1. (\A e \in Dirs, g \in Hops : <<e, g>> \in AllHops) /\ h + 1 \in 1..3
  BY DEF AllHops, ServerHops, ClientHops, Dirs, Hops
<1>2. /\ copy[<<d, h>>] = "running" /\ copy'[<<d, h>>] = "over" /\ hold'[<<d, h>>] = <<>>
      /\ \A e \in Dirs, g \in Hops : e # d \/ g # h => copy'[<<e, g>>] = copy[<<e, g>>] /\ hold'[<<e, g>>] = hold[<<e, g>>]
  BY <1>1 DEF CopyEnds, Copying, TypeOK
<1>3. fin' = [fin EXCEPT ![d][h + 1] = TRUE] /\ fin \in [Dirs -> [1..3 -> BOOLEAN]]
  BY DEF CopyEnds, CloseWrite, TypeOK
<1>4. fin'[d][h + 1] = TRUE /\ \A e \in Dirs, g \in 1..3 : <<e, g>> # <<d, h + 1>> => fin'[e][g] = fin[e][g]
  BY <1>1, <1>3
<1> QED BY <1>2, <1>4

\* The header goes, and a part of what is behind it is kept.
LEMMA ReadHeaderEffect ==
  ASSUME TypeOK, ReadHeader
  PROVE  /\ chan["in"][2] # <<>> /\ Head(chan["in"][2]) = 0
         /\ \E k \in 1..Len(chan["in"][2]) :
              /\ ahead' = SubSeq(chan["in"][2], 2, k)
              /\ chan'["in"][2] = SubSeq(chan["in"][2], k + 1, Len(chan["in"][2]))
         /\ chan'["in"][1] = chan["in"][1] /\ chan'["in"][3] = chan["in"][3] /\ chan'["out"] = chan["out"]
<1>1. PICK k \in 1..Len(chan["in"][2]) :
           /\ ahead' = SubSeq(chan["in"][2], 2, k)
           /\ chan' = [chan EXCEPT !["in"][2] = SubSeq(chan["in"][2], k + 1, Len(chan["in"][2]))]
  BY DEF ReadHeader
<1>2. ASSUME NEW s, chan' = [chan EXCEPT !["in"][2] = s]
      PROVE  chan'["in"][2] = s /\ chan'["in"][1] = chan["in"][1] /\ chan'["in"][3] = chan["in"][3] /\ chan'["out"] = chan["out"]
  BY <1>2 DEF TypeOK, Dirs
<1>3. chan["in"][2] # <<>> /\ Head(chan["in"][2]) = 0
  BY DEF ReadHeader, Header
<1> QED BY <1>1, <1>2, <1>3

\* The header is in the stream, the hops of the server run.
LEMMA OpenStreamEffect ==
  ASSUME TypeOK, OpenStream
  PROVE  /\ chan'["in"][2] = <<0>> /\ chan'["in"][1] = chan["in"][1] /\ chan'["in"][3] = chan["in"][3]
         /\ chan'["out"] = chan["out"]
         /\ copy'[<<"in", 1>>] = "running" /\ copy'[<<"out", 2>>] = "running"
         /\ copy'[<<"in", 2>>] = copy[<<"in", 2>>] /\ copy'[<<"out", 1>>] = copy[<<"out", 1>>]
<1>1. /\ chan'["in"][2] = <<0>> /\ chan'["in"][1] = chan["in"][1] /\ chan'["in"][3] = chan["in"][3]
      /\ chan'["out"] = chan["out"]
  BY DEF OpenStream, Header, TypeOK, Dirs
<1>2. /\ copy'[<<"in", 1>>] = "running" /\ copy'[<<"out", 2>>] = "running"
      /\ copy'[<<"in", 2>>] = copy[<<"in", 2>>] /\ copy'[<<"out", 1>>] = copy[<<"out", 1>>]
  BY DEF OpenStream, StartCopies, AllHops, ServerHops, ClientHops
<1> QED BY <1>1, <1>2

\* The hops of the client run.
LEMMA DialEffect ==
  ASSUME Dial
  PROVE  /\ copy'[<<"in", 2>>] = "running" /\ copy'[<<"out", 1>>] = "running"
         /\ copy'[<<"in", 1>>] = copy[<<"in", 1>>] /\ copy'[<<"out", 2>>] = copy[<<"out", 2>>]
BY DEF Dial, StartCopies, AllHops, ServerHops, ClientHops


-----------------------------------------------------------------------------
(* How far the bytes of a direction come *)

\* A step leaves direction e alone, but may take away what could still come.
Untouched(e) ==
  /\ sent'[e] = sent[e] /\ got'[e] = got[e] /\ chan'[e] = chan[e] /\ Ahead(e)' = Ahead(e) /\ Hdr(e)' = Hdr(e)
  /\ hold'[<<e, 1>>] = hold[<<e, 1>>] /\ hold'[<<e, 2>>] = hold[<<e, 2>>]
  /\ (Open(e)' => Open(e)) /\ (copy[<<e, 1>>] = "over" => copy'[<<e, 1>>] = "over")
  /\ cut' = FALSE => cut = FALSE

\* What is left alone stays in order and complete.
LEMMA UntouchedStays ==
  ASSUME NEW e \in Dirs, Ordered(e), Conserved(e), Untouched(e)
  PROVE  Ordered(e)' /\ Conserved(e)'
<1>1. At3(e)' = At3(e) /\ AtHop2(e)' = AtHop2(e) /\ AtReader(e)' = AtReader(e)
  BY DEF Untouched, Got, In, Held, Kept, At3, AtHop2, AtReader
<1>2. At2(e)' = At2(e) /\ AtHop1(e)' = AtHop1(e) /\ At1(e)' = At1(e)
  BY <1>1 DEF Untouched, In, Held, At2, AtHop1, At1
<1> QED BY <1>1, <1>2 DEF Untouched, Got, In, Held, Kept, Ordered, Conserved


\* Lengths and positions are numbers.
LEMMA Numbers ==
  ASSUME TypeOK, NEW d \in Dirs
  PROVE  /\ Got(d) \in Nat /\ In(d, 1) \in Nat /\ In(d, 2) \in Nat /\ In(d, 3) \in Nat
         /\ Kept(d) \in Nat /\ Held(d, 1) \in {0, 1} /\ Held(d, 2) \in {0, 1}
         /\ sent[d] \in Nat /\ Tally(d) \in Nat /\ Hdr(d) \in {0, 1}
         /\ At3(d) \in Nat /\ AtHop2(d) \in Nat /\ AtReader(d) \in Nat /\ At2(d) \in Int /\ AtHop1(d) \in Int /\ At1(d) \in Int
<1>1. got[d] \in Seq(Int) /\ chan[d][1] \in Seq(Int) /\ chan[d][2] \in Seq(Int) /\ chan[d][3] \in Seq(Int) /\ Ahead(d) \in Seq(Int)
  BY Types
<1>2. Got(d) \in Nat /\ In(d, 1) \in Nat /\ In(d, 2) \in Nat /\ In(d, 3) \in Nat /\ Kept(d) \in Nat
  BY <1>1, LenProperties DEF Got, In, Kept
<1>3. \A s : s = <<>> \/ (\E b \in Int : s = <<b>>) => Len(s) \in {0, 1}
  OBVIOUS
<1>4. Held(d, 1) \in {0, 1} /\ Held(d, 2) \in {0, 1}
  <2>1. hold[<<d, 1>>] = <<>> \/ \E b \in Int : hold[<<d, 1>>] = <<b>>
    BY Types
  <2>2. hold[<<d, 2>>] = <<>> \/ \E b \in Int : hold[<<d, 2>>] = <<b>>
    BY Types
  <2> QED BY <1>3, <2>1, <2>2 DEF Held
<1>5. sent[d] \in Nat /\ Tally(d) \in Nat /\ Hdr(d) \in {0, 1}
  BY Types
<1>6. Held(d, 1) \in Nat /\ Held(d, 2) \in Nat /\ Hdr(d) \in Int
  BY <1>4, <1>5
<1>7. At3(d) \in Nat
  BY <1>2 DEF At3
<1>8. AtHop2(d) \in Nat
  BY <1>6, <1>7 DEF AtHop2
<1>9. AtReader(d) \in Nat
  BY <1>2, <1>8 DEF AtReader
<1>10. At2(d) \in Int
  BY <1>2, <1>6, <1>9 DEF At2
<1>11. AtHop1(d) \in Int
  BY <1>6, <1>10 DEF AtHop1
<1>12. At1(d) \in Int
  BY <1>2, <1>11 DEF At1
<1> QED BY <1>2, <1>4, <1>5, <1>7, <1>8, <1>9, <1>10, <1>11, <1>12

\* A byte is sent: it is in channel 1.
LEMMA SendMoves ==
  ASSUME TypeOK, NEW d \in Dirs, Send(d)
  PROVE  /\ \A e \in Dirs : e # d => Untouched(e)
         /\ Open(d)' = Open(d) /\ Hdr(d)' = Hdr(d)
         /\ At3(d)' = At3(d) /\ AtHop2(d)' = AtHop2(d) /\ AtReader(d)' = AtReader(d)
         /\ At2(d)' = At2(d) /\ AtHop1(d)' = AtHop1(d) /\ At1(d)' = At1(d) + 1
<1>1. \A e \in Dirs : Open(e)' = Open(e) /\ Hdr(e)' = Hdr(e)
  BY DEF Send, stages, Open, Hdr
<1>2. \A e \in Dirs : e # d => Untouched(e)
  BY <1>1, SendEffect DEF Send, ends, Untouched, Ahead
<1>3. chan'[d][1] = Append(chan[d][1], sent[d] + 1)
  BY SendEffect
<1>4. chan[d][1] \in Seq(Int) /\ sent[d] \in Nat
  BY Types
<1>5. sent[d] + 1 \in Int
  BY <1>4
<1>6. In(d, 1)' = In(d, 1) + 1
  BY <1>3, <1>4, <1>5, LenFacts DEF Got, In, Held, Kept
<1>7. Got(d)' = Got(d) /\ In(d, 3)' = In(d, 3) /\ Held(d, 2)' = Held(d, 2) /\ Kept(d)' = Kept(d) /\ In(d, 2)' = In(d, 2) /\ Held(d, 1)' = Held(d, 1) /\ Hdr(d)' = Hdr(d)
  BY <1>1, SendEffect DEF Send, ends, Ahead, Got, In, Held, Kept
<1>8. /\ Got(d) \in Int /\ In(d, 3) \in Int /\ Held(d, 2) \in Int /\ Kept(d) \in Int
      /\ In(d, 2) \in Int /\ Held(d, 1) \in Int /\ In(d, 1) \in Int /\ Hdr(d) \in Int
      /\ At3(d) \in Int /\ AtHop2(d) \in Int /\ AtReader(d) \in Int /\ At2(d) \in Int /\ AtHop1(d) \in Int /\ At1(d) \in Int
  BY Numbers
<1>9. At3(d)' = At3(d)
  BY <1>6, <1>7, <1>8 DEF At3
<1>10. AtHop2(d)' = AtHop2(d)
  BY <1>6, <1>7, <1>8, <1>9 DEF AtHop2
<1>11. AtReader(d)' = AtReader(d)
  BY <1>6, <1>7, <1>8, <1>10 DEF AtReader
<1>12. At2(d)' = At2(d)
  BY <1>6, <1>7, <1>8, <1>11 DEF At2
<1>13. AtHop1(d)' = AtHop1(d)
  BY <1>6, <1>7, <1>8, <1>12 DEF AtHop1
<1>14. At1(d)' = At1(d) + 1
  BY <1>6, <1>7, <1>8, <1>13 DEF At1
<1> QED BY <1>1, <1>2, <1>9, <1>10, <1>11, <1>12, <1>13, <1>14

\* A byte is received from channel 3.
LEMMA ReceiveMoves ==
  ASSUME TypeOK, NEW d \in Dirs, Receive(d)
  PROVE  /\ \A e \in Dirs : e # d => Untouched(e)
         /\ Open(d)' = Open(d) /\ Hdr(d)' = Hdr(d)
         /\ At3(d)' = At3(d) /\ AtHop2(d)' = AtHop2(d) /\ AtReader(d)' = AtReader(d)
         /\ At2(d)' = At2(d) /\ AtHop1(d)' = AtHop1(d) /\ At1(d)' = At1(d)
<1>1. \A e \in Dirs : Open(e)' = Open(e) /\ Hdr(e)' = Hdr(e)
  BY DEF Receive, stages, Open, Hdr
<1>2. \A e \in Dirs : e # d => Untouched(e)
  BY <1>1, ReceiveEffect DEF Receive, ends, Untouched, Ahead
<1>3. got'[d] = Append(got[d], Head(chan[d][3])) /\ chan'[d][3] = Tail(chan[d][3])
  BY ReceiveEffect
<1>4. chan[d][3] \in Seq(Int) /\ got[d] \in Seq(Int)
  BY Types
<1>5. chan[d][3] # <<>> /\ Head(chan[d][3]) \in Int
  BY <1>4, LenFacts DEF Receive
<1>6. Got(d)' = Got(d) + 1 /\ In(d, 3)' = In(d, 3) - 1
  BY <1>3, <1>4, <1>5, LenFacts DEF Got, In, Held, Kept
<1>7. Held(d, 2)' = Held(d, 2) /\ Kept(d)' = Kept(d) /\ In(d, 2)' = In(d, 2) /\ Held(d, 1)' = Held(d, 1) /\ In(d, 1)' = In(d, 1) /\ Hdr(d)' = Hdr(d)
  BY <1>1, ReceiveEffect DEF Receive, ends, Ahead, Got, In, Held, Kept
<1>8. /\ Got(d) \in Int /\ In(d, 3) \in Int /\ Held(d, 2) \in Int /\ Kept(d) \in Int
      /\ In(d, 2) \in Int /\ Held(d, 1) \in Int /\ In(d, 1) \in Int /\ Hdr(d) \in Int
      /\ At3(d) \in Int /\ AtHop2(d) \in Int /\ AtReader(d) \in Int /\ At2(d) \in Int /\ AtHop1(d) \in Int /\ At1(d) \in Int
  BY Numbers
<1>9. At3(d)' = At3(d)
  BY <1>6, <1>7, <1>8 DEF At3
<1>10. AtHop2(d)' = AtHop2(d)
  BY <1>6, <1>7, <1>8, <1>9 DEF AtHop2
<1>11. AtReader(d)' = AtReader(d)
  BY <1>6, <1>7, <1>8, <1>10 DEF AtReader
<1>12. At2(d)' = At2(d)
  BY <1>6, <1>7, <1>8, <1>11 DEF At2
<1>13. AtHop1(d)' = AtHop1(d)
  BY <1>6, <1>7, <1>8, <1>12 DEF AtHop1
<1>14. At1(d)' = At1(d)
  BY <1>6, <1>7, <1>8, <1>13 DEF At1
<1> QED BY <1>1, <1>2, <1>9, <1>10, <1>11, <1>12, <1>13, <1>14

\* Hop 1 takes a byte from channel 1.
LEMMA Read1Moves ==
  ASSUME TypeOK, NEW d \in Dirs, Read(d, 1)
  PROVE  /\ \A e \in Dirs : e # d => Untouched(e)
         /\ Open(d)' = Open(d) /\ Hdr(d)' = Hdr(d)
         /\ At3(d)' = At3(d) /\ AtHop2(d)' = AtHop2(d) /\ AtReader(d)' = AtReader(d)
         /\ At2(d)' = At2(d) /\ AtHop1(d)' = AtHop1(d) + 1 /\ At1(d)' = At1(d)
<1>1. \A e \in Dirs : Open(e)' = Open(e) /\ Hdr(e)' = Hdr(e)
  BY DEF Read, stages, Open, Hdr
<1>2. \A e \in Dirs : e # d => Untouched(e)
  BY <1>1, Read1Effect DEF Read, ends, Untouched, Ahead
<1>3. /\ chan'[d][1] = Tail(chan[d][1]) /\ chan[d][1] # <<>>
      /\ hold[<<d, 1>>] = <<>> /\ hold'[<<d, 1>>] = <<Head(chan[d][1])>>
  BY Read1Effect
<1>4. chan[d][1] \in Seq(Int)
  BY Types
<1>6. In(d, 1)' = In(d, 1) - 1 /\ Held(d, 1)' = Held(d, 1) + 1
  BY <1>3, <1>4, LenFacts, LenSmall DEF Got, In, Held, Kept
<1>7. Got(d)' = Got(d) /\ In(d, 3)' = In(d, 3) /\ Held(d, 2)' = Held(d, 2) /\ Kept(d)' = Kept(d) /\ In(d, 2)' = In(d, 2) /\ Hdr(d)' = Hdr(d)
  BY <1>1, Read1Effect DEF Read, ends, Ahead, Got, In, Held, Kept
<1>8. /\ Got(d) \in Int /\ In(d, 3) \in Int /\ Held(d, 2) \in Int /\ Kept(d) \in Int
      /\ In(d, 2) \in Int /\ Held(d, 1) \in Int /\ In(d, 1) \in Int /\ Hdr(d) \in Int
      /\ At3(d) \in Int /\ AtHop2(d) \in Int /\ AtReader(d) \in Int /\ At2(d) \in Int /\ AtHop1(d) \in Int /\ At1(d) \in Int
  BY Numbers
<1>9. At3(d)' = At3(d)
  BY <1>6, <1>7, <1>8 DEF At3
<1>10. AtHop2(d)' = AtHop2(d)
  BY <1>6, <1>7, <1>8, <1>9 DEF AtHop2
<1>11. AtReader(d)' = AtReader(d)
  BY <1>6, <1>7, <1>8, <1>10 DEF AtReader
<1>12. At2(d)' = At2(d)
  BY <1>6, <1>7, <1>8, <1>11 DEF At2
<1>13. AtHop1(d)' = AtHop1(d) + 1
  BY <1>6, <1>7, <1>8, <1>12 DEF AtHop1
<1>14. At1(d)' = At1(d)
  BY <1>6, <1>7, <1>8, <1>13 DEF At1
<1> QED BY <1>1, <1>2, <1>9, <1>10, <1>11, <1>12, <1>13, <1>14

\* Hop 2 takes a byte from the stream.
LEMMA Read2Moves ==
  ASSUME TypeOK, NEW d \in Dirs, Read(d, 2), ~ Buffered(d, 2)
  PROVE  /\ \A e \in Dirs : e # d => Untouched(e)
         /\ Open(d)' = Open(d) /\ Hdr(d)' = Hdr(d)
         /\ At3(d)' = At3(d) /\ AtHop2(d)' = AtHop2(d) + 1 /\ AtReader(d)' = AtReader(d) + 1
         /\ At2(d)' = At2(d) /\ AtHop1(d)' = AtHop1(d) /\ At1(d)' = At1(d)
<1>1. \A e \in Dirs : Open(e)' = Open(e) /\ Hdr(e)' = Hdr(e)
  BY DEF Read, stages, Open, Hdr
<1>2. \A e \in Dirs : e # d => Untouched(e)
  BY <1>1, Read2Effect DEF Read, ends, Untouched, Ahead
<1>3. /\ chan'[d][2] = Tail(chan[d][2]) /\ chan[d][2] # <<>>
      /\ hold[<<d, 2>>] = <<>> /\ hold'[<<d, 2>>] = <<Head(chan[d][2])>>
  BY Read2Effect
<1>4. chan[d][2] \in Seq(Int)
  BY Types
<1>6. In(d, 2)' = In(d, 2) - 1 /\ Held(d, 2)' = Held(d, 2) + 1
  BY <1>3, <1>4, LenFacts, LenSmall DEF Got, In, Held, Kept
<1>7. Got(d)' = Got(d) /\ In(d, 3)' = In(d, 3) /\ Kept(d)' = Kept(d) /\ Held(d, 1)' = Held(d, 1) /\ In(d, 1)' = In(d, 1) /\ Hdr(d)' = Hdr(d)
  BY <1>1, Read2Effect DEF Read, ends, Ahead, Got, In, Held, Kept
<1>8. /\ Got(d) \in Int /\ In(d, 3) \in Int /\ Held(d, 2) \in Int /\ Kept(d) \in Int
      /\ In(d, 2) \in Int /\ Held(d, 1) \in Int /\ In(d, 1) \in Int /\ Hdr(d) \in Int
      /\ At3(d) \in Int /\ AtHop2(d) \in Int /\ AtReader(d) \in Int /\ At2(d) \in Int /\ AtHop1(d) \in Int /\ At1(d) \in Int
  BY Numbers
<1>9. At3(d)' = At3(d)
  BY <1>6, <1>7, <1>8 DEF At3
<1>10. AtHop2(d)' = AtHop2(d) + 1
  BY <1>6, <1>7, <1>8, <1>9 DEF AtHop2
<1>11. AtReader(d)' = AtReader(d) + 1
  BY <1>6, <1>7, <1>8, <1>10 DEF AtReader
<1>12. At2(d)' = At2(d)
  BY <1>6, <1>7, <1>8, <1>11 DEF At2
<1>13. AtHop1(d)' = AtHop1(d)
  BY <1>6, <1>7, <1>8, <1>12 DEF AtHop1
<1>14. At1(d)' = At1(d)
  BY <1>6, <1>7, <1>8, <1>13 DEF At1
<1> QED BY <1>1, <1>2, <1>9, <1>10, <1>11, <1>12, <1>13, <1>14

\* Hop 2 takes a byte the client has read ahead.
LEMMA ReadAheadMoves ==
  ASSUME TypeOK, NEW d \in Dirs, Read(d, 2), Buffered(d, 2)
  PROVE  /\ \A e \in Dirs : e # d => Untouched(e)
         /\ Open(d)' = Open(d) /\ Hdr(d)' = Hdr(d)
         /\ At3(d)' = At3(d) /\ AtHop2(d)' = AtHop2(d) + 1 /\ AtReader(d)' = AtReader(d)
         /\ At2(d)' = At2(d) /\ AtHop1(d)' = AtHop1(d) /\ At1(d)' = At1(d)
<1>1. \A e \in Dirs : Open(e)' = Open(e) /\ Hdr(e)' = Hdr(e)
  BY DEF Read, stages, Open, Hdr
<1>2. \A e \in Dirs : e # d => Untouched(e)
  BY <1>1, ReadAheadEffect DEF Read, ends, Untouched, Ahead
<1>3. /\ Ahead(d)' = Tail(Ahead(d)) /\ Ahead(d) # <<>>
      /\ hold[<<d, 2>>] = <<>> /\ hold'[<<d, 2>>] = <<Head(Ahead(d))>>
  BY ReadAheadEffect DEF Ahead
<1>4. Ahead(d) \in Seq(Int)
  BY Types
<1>6. Kept(d)' = Kept(d) - 1 /\ Held(d, 2)' = Held(d, 2) + 1
  BY <1>3, <1>4, LenFacts, LenSmall DEF Got, In, Held, Kept
<1>7. Got(d)' = Got(d) /\ In(d, 3)' = In(d, 3) /\ In(d, 2)' = In(d, 2) /\ Held(d, 1)' = Held(d, 1) /\ In(d, 1)' = In(d, 1) /\ Hdr(d)' = Hdr(d)
  BY <1>1, ReadAheadEffect DEF Read, ends, Ahead, Got, In, Held, Kept
<1>8. /\ Got(d) \in Int /\ In(d, 3) \in Int /\ Held(d, 2) \in Int /\ Kept(d) \in Int
      /\ In(d, 2) \in Int /\ Held(d, 1) \in Int /\ In(d, 1) \in Int /\ Hdr(d) \in Int
      /\ At3(d) \in Int /\ AtHop2(d) \in Int /\ AtReader(d) \in Int /\ At2(d) \in Int /\ AtHop1(d) \in Int /\ At1(d) \in Int
  BY Numbers
<1>9. At3(d)' = At3(d)
  BY <1>6, <1>7, <1>8 DEF At3
<1>10. AtHop2(d)' = AtHop2(d) + 1
  BY <1>6, <1>7, <1>8, <1>9 DEF AtHop2
<1>11. AtReader(d)' = AtReader(d)
  BY <1>6, <1>7, <1>8, <1>10 DEF AtReader
<1>12. At2(d)' = At2(d)
  BY <1>6, <1>7, <1>8, <1>11 DEF At2
<1>13. AtHop1(d)' = AtHop1(d)
  BY <1>6, <1>7, <1>8, <1>12 DEF AtHop1
<1>14. At1(d)' = At1(d)
  BY <1>6, <1>7, <1>8, <1>13 DEF At1
<1> QED BY <1>1, <1>2, <1>9, <1>10, <1>11, <1>12, <1>13, <1>14

\* Hop 1 writes its byte to the stream.
LEMMA Write1Moves ==
  ASSUME TypeOK, NEW d \in Dirs, Write(d, 1)
  PROVE  /\ \A e \in Dirs : e # d => Untouched(e)
         /\ Open(d)' = Open(d) /\ Hdr(d)' = Hdr(d)
         /\ At3(d)' = At3(d) /\ AtHop2(d)' = AtHop2(d) /\ AtReader(d)' = AtReader(d)
         /\ At2(d)' = At2(d) + 1 /\ AtHop1(d)' = AtHop1(d) /\ At1(d)' = At1(d)
<1>1. \A e \in Dirs : Open(e)' = Open(e) /\ Hdr(e)' = Hdr(e)
  BY DEF Write, stages, Open, Hdr
<1>2. \A e \in Dirs : e # d => Untouched(e)
  BY <1>1, Write1Effect DEF Write, ends, Untouched, Ahead
<1>3. chan'[d][2] = chan[d][2] \o hold[<<d, 1>>] /\ hold[<<d, 1>>] # <<>> /\ hold'[<<d, 1>>] = <<>>
  BY Write1Effect
<1>4. chan[d][2] \in Seq(Int) /\ (hold[<<d, 1>>] = <<>> \/ \E b \in Int : hold[<<d, 1>>] = <<b>>)
  BY Types
<1>5. PICK b \in Int : hold[<<d, 1>>] = <<b>>
  BY <1>3, <1>4
<1>6. In(d, 2)' = In(d, 2) + 1 /\ Held(d, 1)' = Held(d, 1) - 1
  BY <1>3, <1>4, <1>5, LenFacts, LenSmall DEF Got, In, Held, Kept
<1>7. Got(d)' = Got(d) /\ In(d, 3)' = In(d, 3) /\ Held(d, 2)' = Held(d, 2) /\ Kept(d)' = Kept(d) /\ In(d, 1)' = In(d, 1) /\ Hdr(d)' = Hdr(d)
  BY <1>1, Write1Effect DEF Write, ends, Ahead, Got, In, Held, Kept
<1>8. /\ Got(d) \in Int /\ In(d, 3) \in Int /\ Held(d, 2) \in Int /\ Kept(d) \in Int
      /\ In(d, 2) \in Int /\ Held(d, 1) \in Int /\ In(d, 1) \in Int /\ Hdr(d) \in Int
      /\ At3(d) \in Int /\ AtHop2(d) \in Int /\ AtReader(d) \in Int /\ At2(d) \in Int /\ AtHop1(d) \in Int /\ At1(d) \in Int
  BY Numbers
<1>9. At3(d)' = At3(d)
  BY <1>6, <1>7, <1>8 DEF At3
<1>10. AtHop2(d)' = AtHop2(d)
  BY <1>6, <1>7, <1>8, <1>9 DEF AtHop2
<1>11. AtReader(d)' = AtReader(d)
  BY <1>6, <1>7, <1>8, <1>10 DEF AtReader
<1>12. At2(d)' = At2(d) + 1
  BY <1>6, <1>7, <1>8, <1>11 DEF At2
<1>13. AtHop1(d)' = AtHop1(d)
  BY <1>6, <1>7, <1>8, <1>12 DEF AtHop1
<1>14. At1(d)' = At1(d)
  BY <1>6, <1>7, <1>8, <1>13 DEF At1
<1> QED BY <1>1, <1>2, <1>9, <1>10, <1>11, <1>12, <1>13, <1>14

\* Hop 2 writes its byte to the receiver.
LEMMA Write2Moves ==
  ASSUME TypeOK, NEW d \in Dirs, Write(d, 2)
  PROVE  /\ \A e \in Dirs : e # d => Untouched(e)
         /\ Open(d)' = Open(d) /\ Hdr(d)' = Hdr(d)
         /\ At3(d)' = At3(d) + 1 /\ AtHop2(d)' = AtHop2(d) /\ AtReader(d)' = AtReader(d)
         /\ At2(d)' = At2(d) /\ AtHop1(d)' = AtHop1(d) /\ At1(d)' = At1(d)
<1>1. \A e \in Dirs : Open(e)' = Open(e) /\ Hdr(e)' = Hdr(e)
  BY DEF Write, stages, Open, Hdr
<1>2. \A e \in Dirs : e # d => Untouched(e)
  BY <1>1, Write2Effect DEF Write, ends, Untouched, Ahead
<1>3. chan'[d][3] = chan[d][3] \o hold[<<d, 2>>] /\ hold[<<d, 2>>] # <<>> /\ hold'[<<d, 2>>] = <<>>
  BY Write2Effect
<1>4. chan[d][3] \in Seq(Int) /\ (hold[<<d, 2>>] = <<>> \/ \E b \in Int : hold[<<d, 2>>] = <<b>>)
  BY Types
<1>5. PICK b \in Int : hold[<<d, 2>>] = <<b>>
  BY <1>3, <1>4
<1>6. In(d, 3)' = In(d, 3) + 1 /\ Held(d, 2)' = Held(d, 2) - 1
  BY <1>3, <1>4, <1>5, LenFacts, LenSmall DEF Got, In, Held, Kept
<1>7. Got(d)' = Got(d) /\ Kept(d)' = Kept(d) /\ In(d, 2)' = In(d, 2) /\ Held(d, 1)' = Held(d, 1) /\ In(d, 1)' = In(d, 1) /\ Hdr(d)' = Hdr(d)
  BY <1>1, Write2Effect DEF Write, ends, Ahead, Got, In, Held, Kept
<1>8. /\ Got(d) \in Int /\ In(d, 3) \in Int /\ Held(d, 2) \in Int /\ Kept(d) \in Int
      /\ In(d, 2) \in Int /\ Held(d, 1) \in Int /\ In(d, 1) \in Int /\ Hdr(d) \in Int
      /\ At3(d) \in Int /\ AtHop2(d) \in Int /\ AtReader(d) \in Int /\ At2(d) \in Int /\ AtHop1(d) \in Int /\ At1(d) \in Int
  BY Numbers
<1>9. At3(d)' = At3(d) + 1
  BY <1>6, <1>7, <1>8 DEF At3
<1>10. AtHop2(d)' = AtHop2(d)
  BY <1>6, <1>7, <1>8, <1>9 DEF AtHop2
<1>11. AtReader(d)' = AtReader(d)
  BY <1>6, <1>7, <1>8, <1>10 DEF AtReader
<1>12. At2(d)' = At2(d)
  BY <1>6, <1>7, <1>8, <1>11 DEF At2
<1>13. AtHop1(d)' = AtHop1(d)
  BY <1>6, <1>7, <1>8, <1>12 DEF AtHop1
<1>14. At1(d)' = At1(d)
  BY <1>6, <1>7, <1>8, <1>13 DEF At1
<1> QED BY <1>1, <1>2, <1>9, <1>10, <1>11, <1>12, <1>13, <1>14

-----------------------------------------------------------------------------
(* What the moves of a byte keep *)

\* The positions add up.
LEMMA Sums ==
  ASSUME TypeOK, NEW d \in Dirs
  PROVE  /\ At3(d) = Got(d) + In(d, 3) /\ AtHop2(d) = At3(d) + Held(d, 2) /\ AtReader(d) = AtHop2(d) + Kept(d)
         /\ At2(d) = AtReader(d) + In(d, 2) - Hdr(d) /\ AtHop1(d) = At2(d) + Held(d, 1) /\ At1(d) = AtHop1(d) + In(d, 1)
         /\ Got(d) \in Int /\ In(d, 1) \in Nat /\ In(d, 2) \in Nat /\ In(d, 3) \in Nat /\ Kept(d) \in Nat
         /\ Held(d, 1) \in Nat /\ Held(d, 2) \in Nat /\ Hdr(d) \in Int /\ sent[d] \in Int
         /\ At3(d) \in Int /\ AtHop2(d) \in Int /\ AtReader(d) \in Int /\ At2(d) \in Int /\ AtHop1(d) \in Int /\ At1(d) \in Int
<1>1. /\ At3(d) = Got(d) + In(d, 3) /\ AtHop2(d) = At3(d) + Held(d, 2) /\ AtReader(d) = AtHop2(d) + Kept(d)
      /\ At2(d) = AtReader(d) + In(d, 2) - Hdr(d) /\ AtHop1(d) = At2(d) + Held(d, 1) /\ At1(d) = AtHop1(d) + In(d, 1)
  BY Zenon DEF At3, AtHop2, AtReader, At2, AtHop1, At1
<1>2. /\ Got(d) \in Nat /\ In(d, 1) \in Nat /\ In(d, 2) \in Nat /\ In(d, 3) \in Nat
      /\ Kept(d) \in Nat /\ Held(d, 1) \in {0, 1} /\ Held(d, 2) \in {0, 1}
      /\ sent[d] \in Nat /\ Tally(d) \in Nat /\ Hdr(d) \in {0, 1}
      /\ At3(d) \in Nat /\ AtHop2(d) \in Nat /\ AtReader(d) \in Nat /\ At2(d) \in Int /\ AtHop1(d) \in Int /\ At1(d) \in Int
  BY Numbers
<1>3. Held(d, 1) \in Nat /\ Held(d, 2) \in Nat /\ Hdr(d) \in Int /\ sent[d] \in Int /\ Got(d) \in Int
  BY <1>2
<1>4. At3(d) \in Int /\ AtHop2(d) \in Int /\ AtReader(d) \in Int
  BY <1>2
<1> QED BY <1>1, <1>2, <1>3, <1>4

\* A byte is sent behind the last one.
LEMMA SendKeeps ==
  ASSUME TypeOK, NEW d \in Dirs, Ordered(d), Conserved(d), Send(d)
  PROVE  Ordered(d)' /\ Conserved(d)'
<1>1. /\ Open(d)' = Open(d) /\ Hdr(d)' = Hdr(d) /\ At3(d)' = At3(d) /\ AtHop2(d)' = AtHop2(d) /\ AtReader(d)' = AtReader(d)
      /\ At2(d)' = At2(d) /\ AtHop1(d)' = AtHop1(d) /\ At1(d)' = At1(d) + 1
  BY SendMoves
<1>2. chan'[d][1] = Append(chan[d][1], sent[d] + 1) /\ chan'[d][2] = chan[d][2] /\ chan'[d][3] = chan[d][3] /\ sent'[d] = sent[d] + 1
  BY SendEffect
<1>3. UNCHANGED <<got, ahead, hold, copy, cut>>
  BY DEF Send
<1>4. chan[d][1] \in Seq(Int) /\ sent[d] \in Int /\ In(d, 1) = Len(chan[d][1]) /\ Len(chan[d][1]) \in Nat
  <2>1. chan[d][1] \in Seq(Int)
    BY Types
  <2>2. sent[d] \in Int /\ In(d, 1) \in Nat
    BY Sums
  <2> QED BY <2>1, <2>2 DEF In
<1>5. Run(chan[d][1], sent[d] - In(d, 1)) /\ sent[d] - In(d, 1) \in Int
  BY <1>4 DEF Ordered
<1>6. sent[d] + 1 = (sent[d] - In(d, 1)) + Len(chan[d][1]) + 1
  BY <1>4
<1>7. Run(chan'[d][1], sent[d] - In(d, 1)) /\ Len(chan'[d][1]) = Len(chan[d][1]) + 1
  BY <1>2, <1>4, <1>5, <1>6, RunAppend
<1>8. In(d, 1)' = In(d, 1) + 1
  BY <1>4, <1>7 DEF In
<1>9. sent'[d] - In(d, 1)' = sent[d] - In(d, 1)
  BY <1>2, <1>4, <1>8
<1>10. Got(d)' = Got(d) /\ Ahead(d)' = Ahead(d) /\ Held(d, 1)' = Held(d, 1)
  BY <1>3 DEF Got, Ahead, Held
<1>11. Ordered(d)'
  BY <1>1, <1>2, <1>3, <1>7, <1>9, <1>10 DEF Ordered
<1>12. Held(d, 1) \in Int /\ In(d, 1) \in Int /\ AtHop2(d) \in Int /\ At1(d) \in Int /\ sent[d] \in Int
  BY Numbers
<1>13. Conserved(d)'
  BY <1>1, <1>2, <1>3, <1>8, <1>10, <1>12 DEF Conserved
<1> QED BY <1>11, <1>13

\* The receiver gets the next byte.
LEMMA ReceiveKeeps ==
  ASSUME TypeOK, NEW d \in Dirs, Ordered(d), Conserved(d), Receive(d)
  PROVE  Ordered(d)' /\ Conserved(d)' /\ Head(chan[d][3]) = Got(d) + 1
<1>1. /\ Open(d)' = Open(d) /\ Hdr(d)' = Hdr(d) /\ At3(d)' = At3(d) /\ AtHop2(d)' = AtHop2(d) /\ AtReader(d)' = AtReader(d)
      /\ At2(d)' = At2(d) /\ AtHop1(d)' = AtHop1(d) /\ At1(d)' = At1(d)
  BY ReceiveMoves
<1>2. got'[d] = Append(got[d], Head(chan[d][3])) /\ chan'[d][3] = Tail(chan[d][3]) /\ chan'[d][1] = chan[d][1] /\ chan'[d][2] = chan[d][2]
  BY ReceiveEffect
<1>3. UNCHANGED <<sent, ahead, hold, copy, cut>> /\ chan[d][3] # <<>>
  BY DEF Receive
<1>4. chan[d][3] \in Seq(Int) /\ got[d] \in Seq(Int)
  BY Types
<1>5. Run(chan[d][3], Got(d)) /\ Got(d) \in Int
  BY Numbers DEF Ordered
<1>6. Head(chan[d][3]) = Got(d) + 1 /\ Run(chan'[d][3], Got(d) + 1)
  BY <1>2, <1>3, <1>4, <1>5, RunTail
<1>7. Got(d)' = Got(d) + 1
  BY <1>2, <1>3, <1>4, LenFacts DEF Got
<1>8. Ahead(d)' = Ahead(d) /\ Held(d, 1)' = Held(d, 1) /\ In(d, 1)' = In(d, 1)
  BY <1>2, <1>3 DEF Ahead, Held, In
<1>9. Ordered(d)'
  BY <1>1, <1>2, <1>3, <1>6, <1>7, <1>8 DEF Ordered
<1>10. Conserved(d)'
  BY <1>1, <1>3, <1>8 DEF Conserved
<1> QED BY <1>6, <1>9, <1>10

\* Hop 1 reads the byte that follows those that have come to channel 2.
LEMMA Read1Keeps ==
  ASSUME TypeOK, NEW d \in Dirs, Ordered(d), Conserved(d), Read(d, 1)
  PROVE  Ordered(d)' /\ Conserved(d)' /\ Head(chan[d][1]) >= 1
<1>1. /\ Open(d)' = Open(d) /\ Hdr(d)' = Hdr(d) /\ At3(d)' = At3(d) /\ AtHop2(d)' = AtHop2(d) /\ AtReader(d)' = AtReader(d)
      /\ At2(d)' = At2(d) /\ AtHop1(d)' = AtHop1(d) + 1 /\ At1(d)' = At1(d)
  BY Read1Moves
<1>2. /\ chan[d][1] # <<>> /\ chan'[d][1] = Tail(chan[d][1]) /\ chan'[d][2] = chan[d][2] /\ chan'[d][3] = chan[d][3]
      /\ ahead' = ahead /\ hold[<<d, 1>>] = <<>> /\ hold'[<<d, 1>>] = <<Head(chan[d][1])>> /\ hold'[<<d, 2>>] = hold[<<d, 2>>]
  BY Read1Effect
<1>3. UNCHANGED <<sent, got, copy, cut>> /\ copy[<<d, 1>>] = "running"
  BY DEF Read, Copying, ends
<1>4. chan[d][1] \in Seq(Int)
  BY Types
<1>5. /\ Held(d, 1) = 0 /\ Held(d, 1)' = 1 /\ In(d, 1)' = In(d, 1) - 1 /\ In(d, 1) >= 1
  BY <1>2, <1>4, LenFacts, LenSmall DEF Held, In
<1>6. /\ AtHop1(d) = At2(d) + Held(d, 1) /\ At1(d) = AtHop1(d) + In(d, 1)
      /\ sent[d] \in Int /\ In(d, 1) \in Int /\ At2(d) \in Int /\ AtHop1(d) \in Int /\ At1(d) \in Int /\ AtHop2(d) \in Int
  BY Sums
<1>7. Run(chan[d][1], sent[d] - In(d, 1)) /\ sent[d] - In(d, 1) \in Int
  BY <1>6 DEF Ordered
<1>8. Head(chan[d][1]) = sent[d] - In(d, 1) + 1 /\ Run(chan'[d][1], sent[d] - In(d, 1) + 1)
  BY <1>2, <1>4, <1>7, RunTail
<1>9. sent'[d] - In(d, 1)' = sent[d] - In(d, 1) + 1
  BY <1>3, <1>5, <1>6
<1>10. Open(d) => sent[d] - In(d, 1) = At2(d)
  BY <1>3, <1>5, <1>6 DEF Conserved
<1>11. Open(d) => Run(hold'[<<d, 1>>], At2(d))
  BY <1>2, <1>6, <1>8, <1>10, RunOne
<1>12. Got(d)' = Got(d) /\ Ahead(d)' = Ahead(d)
  BY <1>2, <1>3 DEF Got, Ahead
<1>13. Ordered(d)'
  BY <1>1, <1>2, <1>3, <1>8, <1>9, <1>11, <1>12 DEF Ordered
<1>14. Conserved(d)'
  BY <1>1, <1>3, <1>5, <1>6 DEF Conserved
<1>15. Head(chan[d][1]) >= 1
  BY <1>5, <1>6, <1>8 DEF Conserved
<1> QED BY <1>13, <1>14, <1>15

\* Hop 2 runs only when the header has been taken from the stream.
LEMMA NoHeader ==
  ASSUME Stages, NEW d \in Dirs, copy[<<d, 2>>] \in {"running", "over"}
  PROVE  Hdr(d) = 0 /\ (copy[<<d, 2>>] = "running" => Open(d))
BY DEF Stages, Hdr, Open

\* Hop 2 reads the byte that follows those it has written.
LEMMA Read2Keeps ==
  ASSUME TypeOK, Stages, NEW d \in Dirs, Ordered(d), Conserved(d), Read(d, 2), ~ Buffered(d, 2)
  PROVE  Ordered(d)' /\ Conserved(d)' /\ Head(chan[d][2]) >= 1 /\ AtHop2(d) + 1 <= At2(d)
<1>1. /\ Open(d)' = Open(d) /\ Hdr(d)' = Hdr(d) /\ At3(d)' = At3(d) /\ AtHop2(d)' = AtHop2(d) + 1 /\ AtReader(d)' = AtReader(d) + 1
      /\ At2(d)' = At2(d) /\ AtHop1(d)' = AtHop1(d) /\ At1(d)' = At1(d)
  BY Read2Moves
<1>2. /\ chan[d][2] # <<>> /\ chan'[d][2] = Tail(chan[d][2]) /\ chan'[d][1] = chan[d][1] /\ chan'[d][3] = chan[d][3]
      /\ ahead' = ahead /\ Ahead(d) = <<>> /\ hold[<<d, 2>>] = <<>> /\ hold'[<<d, 2>>] = <<Head(chan[d][2])>>
      /\ hold'[<<d, 1>>] = hold[<<d, 1>>]
  BY Read2Effect
<1>3. UNCHANGED <<sent, got, copy, cut>> /\ copy[<<d, 2>>] = "running"
  BY DEF Read, Copying, ends
<1>4. chan[d][2] \in Seq(Int) /\ Hdr(d) = 0 /\ Open(d)
  BY <1>3, Types, NoHeader
<1>5. Held(d, 2) = 0 /\ Kept(d) = 0 /\ In(d, 2) >= 1
  BY <1>2, <1>4, LenFacts, LenSmall DEF Held, Kept, In
<1>6. /\ AtHop2(d) = At3(d) + Held(d, 2) /\ AtReader(d) = AtHop2(d) + Kept(d)
      /\ At2(d) = AtReader(d) + In(d, 2) - Hdr(d) /\ AtHop1(d) = At2(d) + Held(d, 1) /\ At1(d) = AtHop1(d) + In(d, 1)
      /\ sent[d] \in Int /\ In(d, 1) \in Nat /\ Held(d, 1) \in Nat /\ In(d, 2) \in Int /\ At2(d) \in Int /\ AtHop1(d) \in Int
      /\ At1(d) \in Int /\ AtHop2(d) \in Int /\ AtReader(d) \in Int /\ At3(d) \in Int
  BY Sums
<1>7. Run(chan[d][2], At3(d)) /\ AtReader(d) = At3(d) /\ AtReader(d) - Hdr(d) = At3(d)
  BY <1>4, <1>5, <1>6 DEF Ordered
<1>8. Head(chan[d][2]) = At3(d) + 1 /\ Run(chan'[d][2], At3(d) + 1)
  <2>1. At3(d) \in Int /\ chan[d][2] \in Seq(Int) /\ Run(chan[d][2], At3(d))
    BY <1>4, <1>6, <1>7
  <2>2. Head(chan[d][2]) = At3(d) + 1 /\ Run(Tail(chan[d][2]), At3(d) + 1)
    BY <1>2, <2>1, RunTail
  <2> QED BY <1>2, <2>2
<1>9. Run(hold'[<<d, 2>>], At3(d))
  <2>1. At3(d) \in Int /\ At3(d) + 1 \in Int
    BY <1>6
  <2>2. Run(<<At3(d) + 1>>, At3(d))
    BY <2>1, RunOne
  <2> QED BY <1>2, <1>8, <2>2
<1>10. Got(d)' = Got(d) /\ Ahead(d)' = <<>> /\ In(d, 1)' = In(d, 1) /\ Held(d, 1)' = Held(d, 1)
  BY <1>2, <1>3 DEF Got, Ahead, In, Held
<1>11. AtReader(d)' - Hdr(d)' = At3(d) + 1 /\ Run(<<>>, AtHop2(d)')
  BY <1>1, <1>4, <1>6, <1>7, RunEmpty
<1>12. Ordered(d)'
  BY <1>1, <1>2, <1>3, <1>8, <1>9, <1>10, <1>11 DEF Ordered
<1>13. AtHop2(d) + 1 <= At2(d) /\ At2(d) <= At1(d)
  BY <1>4, <1>5, <1>6
<1>14. At1(d) <= sent[d]
  BY <1>4 DEF Conserved
<1>15. AtHop2(d) + 1 <= sent[d]
  BY <1>6, <1>13, <1>14
<1>16. Conserved(d)'
  BY <1>1, <1>3, <1>10, <1>15 DEF Conserved
<1>17. At3(d) \in Nat
  BY Numbers
<1>18. Head(chan[d][2]) >= 1
  BY <1>8, <1>17
<1> QED BY <1>12, <1>13, <1>16, <1>18

\* The same when the byte was read ahead.
LEMMA ReadAheadKeeps ==
  ASSUME TypeOK, Stages, NEW d \in Dirs, Ordered(d), Conserved(d), Read(d, 2), Buffered(d, 2)
  PROVE  Ordered(d)' /\ Conserved(d)' /\ AtHop2(d) + 1 <= At2(d)
<1>1. /\ Open(d)' = Open(d) /\ Hdr(d)' = Hdr(d) /\ At3(d)' = At3(d) /\ AtHop2(d)' = AtHop2(d) + 1 /\ AtReader(d)' = AtReader(d)
      /\ At2(d)' = At2(d) /\ AtHop1(d)' = AtHop1(d) /\ At1(d)' = At1(d)
  BY ReadAheadMoves
<1>2. /\ d = "in" /\ ahead # <<>> /\ ahead' = Tail(ahead) /\ chan' = chan /\ hold[<<d, 2>>] = <<>>
      /\ hold'[<<d, 2>>] = <<Head(ahead)>> /\ hold'[<<d, 1>>] = hold[<<d, 1>>]
  BY ReadAheadEffect
<1>3. UNCHANGED <<sent, got, copy, cut>> /\ copy[<<d, 2>>] = "running"
  BY DEF Read, Copying, ends
<1>4. ahead \in Seq(Int) /\ Hdr(d) = 0 /\ Open(d) /\ Ahead(d) = ahead /\ Ahead(d)' = Tail(ahead)
  BY <1>2, <1>3, Types, NoHeader DEF Ahead
<1>5. Held(d, 2) = 0 /\ Kept(d) >= 1
  BY <1>2, <1>4, LenFacts, LenSmall DEF Held, Kept
<1>6. /\ AtHop2(d) = At3(d) + Held(d, 2) /\ AtReader(d) = AtHop2(d) + Kept(d)
      /\ At2(d) = AtReader(d) + In(d, 2) - Hdr(d) /\ AtHop1(d) = At2(d) + Held(d, 1) /\ At1(d) = AtHop1(d) + In(d, 1)
      /\ sent[d] \in Int /\ In(d, 1) \in Nat /\ Held(d, 1) \in Nat /\ In(d, 2) \in Nat /\ At2(d) \in Int /\ AtHop1(d) \in Int
      /\ At1(d) \in Int /\ AtHop2(d) \in Int /\ AtReader(d) \in Int /\ At3(d) \in Int /\ Kept(d) \in Int
  BY Sums
<1>7. Run(ahead, At3(d)) /\ AtHop2(d) = At3(d)
  BY <1>4, <1>5, <1>6 DEF Ordered
<1>8. Head(ahead) = At3(d) + 1 /\ Run(Tail(ahead), At3(d) + 1)
  BY <1>2, <1>4, <1>6, <1>7, RunTail
<1>9. Run(hold'[<<d, 2>>], At3(d))
  <2>1. At3(d) \in Int /\ At3(d) + 1 \in Int
    BY <1>6
  <2>2. Run(<<At3(d) + 1>>, At3(d))
    BY <2>1, RunOne
  <2> QED BY <1>2, <1>8, <2>2
<1>10. Got(d)' = Got(d) /\ In(d, 1)' = In(d, 1) /\ Held(d, 1)' = Held(d, 1)
  BY <1>2, <1>3 DEF Got, In, Held
<1>11. AtHop2(d)' = At3(d) + 1
  BY <1>1, <1>7
<1>12. Ordered(d)'
  BY <1>1, <1>2, <1>3, <1>4, <1>8, <1>9, <1>10, <1>11 DEF Ordered
<1>13. AtHop2(d) + 1 <= At2(d) /\ At2(d) <= At1(d)
  <2>1. Hdr(d) = 0
    BY <1>4
  <2> QED BY <1>5, <1>6, <2>1
<1>14. At1(d) <= sent[d]
  BY <1>4 DEF Conserved
<1>15. AtHop2(d) + 1 <= sent[d]
  BY <1>6, <1>13, <1>14
<1>16. Conserved(d)'
  BY <1>1, <1>3, <1>10, <1>15 DEF Conserved
<1> QED BY <1>12, <1>13, <1>16

\* Hop 1 appends its byte to the stream.
LEMMA Write1Keeps ==
  ASSUME TypeOK, NEW d \in Dirs, Ordered(d), Conserved(d), Write(d, 1)
  PROVE  Ordered(d)' /\ Conserved(d)'
<1>1. /\ Open(d)' = Open(d) /\ Hdr(d)' = Hdr(d) /\ At3(d)' = At3(d) /\ AtHop2(d)' = AtHop2(d) /\ AtReader(d)' = AtReader(d)
      /\ At2(d)' = At2(d) + 1 /\ AtHop1(d)' = AtHop1(d) /\ At1(d)' = At1(d)
  BY Write1Moves
<1>2. /\ hold[<<d, 1>>] # <<>> /\ hold'[<<d, 1>>] = <<>> /\ hold'[<<d, 2>>] = hold[<<d, 2>>]
      /\ chan'[d][2] = chan[d][2] \o hold[<<d, 1>>] /\ chan'[d][1] = chan[d][1] /\ chan'[d][3] = chan[d][3]
  BY Write1Effect
<1>3. UNCHANGED <<sent, got, ahead, copy, cut>>
  BY DEF Write, ends
<1>4. chan[d][2] \in Seq(Int) /\ (hold[<<d, 1>>] = <<>> \/ \E b \in Int : hold[<<d, 1>>] = <<b>>)
  BY Types
<1>5. PICK b \in Int : hold[<<d, 1>>] = <<b>>
  BY <1>2, <1>4
<1>6. Held(d, 1) = 1 /\ Held(d, 1)' = 0 /\ In(d, 2) = Len(chan[d][2])
  BY <1>2, <1>5, LenSmall DEF Held, In
<1>7. /\ At2(d) = AtReader(d) + In(d, 2) - Hdr(d) /\ sent[d] \in Int /\ In(d, 1) \in Nat /\ In(d, 2) \in Int
      /\ At2(d) \in Int /\ AtReader(d) \in Int /\ Hdr(d) \in Int /\ AtHop2(d) \in Int /\ At1(d) \in Int
  BY Sums
<1>8. AtReader(d) - Hdr(d) \in Int
  BY <1>7
<1>9. Open(d) => Run(chan'[d][2], AtReader(d) - Hdr(d))
  <2>1. SUFFICES ASSUME Open(d) PROVE Run(chan'[d][2], AtReader(d) - Hdr(d))
    OBVIOUS
  <2>2. Run(chan[d][2], AtReader(d) - Hdr(d)) /\ Run(<<b>>, At2(d))
    BY <1>5, <2>1 DEF Ordered
  <2>3. b = At2(d) + 1
    BY <1>7, <2>2, RunOne
  <2>4. b = (AtReader(d) - Hdr(d)) + Len(chan[d][2]) + 1
    <3>1. At2(d) = (AtReader(d) - Hdr(d)) + In(d, 2) /\ In(d, 2) \in Int
      BY <1>7
    <3>2. At2(d) + 1 = (AtReader(d) - Hdr(d)) + In(d, 2) + 1
      BY <3>1
    <3> QED BY <1>6, <2>3, <3>2
  <2>5. Run(chan[d][2] \o <<b>>, AtReader(d) - Hdr(d))
    BY <1>4, <1>8, <2>2, <2>4, RunJoin
  <2> QED BY <1>2, <1>5, <2>5
<1>10. Got(d)' = Got(d) /\ Ahead(d)' = Ahead(d) /\ In(d, 1)' = In(d, 1)
  BY <1>2, <1>3 DEF Got, Ahead, In
<1>11. At2(d) + 1 \in Int
  BY <1>7
<1>12. Run(hold'[<<d, 1>>], At2(d)')
  BY <1>1, <1>2, <1>11, RunEmpty
<1>13. Ordered(d)'
  BY <1>1, <1>2, <1>3, <1>9, <1>10, <1>12 DEF Ordered
<1>14. Conserved(d)'
  BY <1>1, <1>3, <1>6, <1>7, <1>10 DEF Conserved
<1> QED BY <1>13, <1>14

\* Hop 2 appends its byte to what the receiver can read.
LEMMA Write2Keeps ==
  ASSUME TypeOK, NEW d \in Dirs, Ordered(d), Conserved(d), Write(d, 2)
  PROVE  Ordered(d)' /\ Conserved(d)'
<1>1. /\ Open(d)' = Open(d) /\ Hdr(d)' = Hdr(d) /\ At3(d)' = At3(d) + 1 /\ AtHop2(d)' = AtHop2(d) /\ AtReader(d)' = AtReader(d)
      /\ At2(d)' = At2(d) /\ AtHop1(d)' = AtHop1(d) /\ At1(d)' = At1(d)
  BY Write2Moves
<1>2. /\ hold[<<d, 2>>] # <<>> /\ hold'[<<d, 2>>] = <<>> /\ hold'[<<d, 1>>] = hold[<<d, 1>>]
      /\ chan'[d][3] = chan[d][3] \o hold[<<d, 2>>] /\ chan'[d][1] = chan[d][1] /\ chan'[d][2] = chan[d][2]
  BY Write2Effect
<1>3. UNCHANGED <<sent, got, ahead, copy, cut>>
  BY DEF Write, ends
<1>4. chan[d][3] \in Seq(Int) /\ (hold[<<d, 2>>] = <<>> \/ \E b \in Int : hold[<<d, 2>>] = <<b>>)
  BY Types
<1>5. PICK b \in Int : hold[<<d, 2>>] = <<b>>
  BY <1>2, <1>4
<1>6. In(d, 3) = Len(chan[d][3])
  BY DEF In
<1>7. At3(d) = Got(d) + In(d, 3) /\ At3(d) \in Int /\ Got(d) \in Int /\ In(d, 3) \in Int
  BY Sums
<1>8. Run(chan[d][3], Got(d)) /\ Run(<<b>>, At3(d))
  BY <1>5 DEF Ordered
<1>9. b = At3(d) + 1
  BY <1>7, <1>8, RunOne
<1>10. b = Got(d) + Len(chan[d][3]) + 1
  BY <1>6, <1>7, <1>9
<1>11. Run(chan'[d][3], Got(d))
  BY <1>2, <1>4, <1>5, <1>7, <1>8, <1>10, RunJoin
<1>12. Got(d)' = Got(d) /\ Ahead(d)' = Ahead(d) /\ In(d, 1)' = In(d, 1) /\ Held(d, 1)' = Held(d, 1)
  BY <1>2, <1>3 DEF Got, Ahead, In, Held
<1>13. At3(d) + 1 \in Int
  BY <1>7
<1>14. Run(hold'[<<d, 2>>], At3(d)')
  BY <1>1, <1>2, <1>13, RunEmpty
<1>15. Ordered(d)'
  BY <1>1, <1>2, <1>3, <1>11, <1>12, <1>14 DEF Ordered
<1>16. Conserved(d)'
  BY <1>1, <1>3, <1>12 DEF Conserved
<1> QED BY <1>15, <1>16

-----------------------------------------------------------------------------
(* What the other steps keep *)

\* What is lost is known to be lost.
LEMMA UncutReturns ==
  ASSUME CutKnown, cut = FALSE, NEW d \in Dirs, NEW h \in Hops, CopyEnds(d, h)
  PROVE  hold[<<d, h>>] = <<>> /\ chan[d][h] = <<>> /\ fin[d][h] /\ ~ Buffered(d, h)
<1>1. gone = {} /\ ~ dead
  BY DEF CutKnown
<1>2. ~ Lost(d, h) /\ ~ Lost(d, h + 1)
  BY <1>1 DEF Lost, ReceiverGone
<1> QED BY <1>2 DEF CopyEnds, CopyReturns

\* Hop 1 gives up or ends: what it held is lost, if it held anything.
LEMMA CopyEnds1Keeps ==
  ASSUME TypeOK, CutKnown, NEW d \in Dirs, Ordered(d), Conserved(d), CopyEnds(d, 1)
  PROVE  /\ Ordered(d)' /\ Conserved(d)'
         /\ At3(d)' = At3(d) /\ AtHop2(d)' = AtHop2(d) /\ At2(d)' = At2(d) /\ (Open(d)' <=> Open(d))
         /\ Held(d, 1)' = 0 /\ In(d, 1)' = In(d, 1) /\ (cut = FALSE => Held(d, 1) = 0)
         /\ \A e \in Dirs : e # d => Untouched(e)
<1>1. 1 \in Hops /\ 2 \in Hops /\ 1 # 2
  BY DEF Hops
<1>2. /\ copy'[<<d, 1>>] = "over" /\ hold'[<<d, 1>>] = <<>>
      /\ copy'[<<d, 2>>] = copy[<<d, 2>>] /\ hold'[<<d, 2>>] = hold[<<d, 2>>]
      /\ \A e \in Dirs : e # d => /\ copy'[<<e, 1>>] = copy[<<e, 1>>] /\ hold'[<<e, 1>>] = hold[<<e, 1>>]
                                  /\ copy'[<<e, 2>>] = copy[<<e, 2>>] /\ hold'[<<e, 2>>] = hold[<<e, 2>>]
  <2>1. copy'[<<d, 1>>] = "over" /\ hold'[<<d, 1>>] = <<>>
    BY <1>1, CopyEndsEffect
  <2>2. \A e \in Dirs, g \in Hops : e # d \/ g # 1 => copy'[<<e, g>>] = copy[<<e, g>>] /\ hold'[<<e, g>>] = hold[<<e, g>>]
    BY <1>1, CopyEndsEffect
  <2> QED BY <1>1, <2>1, <2>2
<1>3. UNCHANGED <<sent, got, chan, ahead, client, cut>>
  BY DEF CopyEnds, ends, stages
<1>4. copy[<<d, 1>>] = "running"
  BY DEF CopyEnds, Copying
<1>5. Hdr(d)' = Hdr(d) /\ Ahead(d)' = Ahead(d) /\ (Open(d)' <=> Open(d))
  BY <1>2, <1>3, <1>4 DEF Hdr, Ahead, Open
<1>6. Held(d, 1)' = 0 /\ In(d, 1)' = In(d, 1) /\ In(d, 2)' = In(d, 2) /\ In(d, 3)' = In(d, 3) /\ Got(d)' = Got(d)
  BY <1>2, <1>3, LenSmall DEF Held, In, Got
<1>7. Held(d, 2)' = Held(d, 2) /\ Kept(d)' = Kept(d)
  BY <1>2, <1>5 DEF Held, Kept
<1>8. At3(d)' = At3(d) /\ AtHop2(d)' = AtHop2(d) /\ AtReader(d)' = AtReader(d) /\ At2(d)' = At2(d)
  BY <1>5, <1>6, <1>7 DEF At3, AtHop2, AtReader, At2
<1>9. /\ AtHop1(d) = At2(d) + Held(d, 1) /\ At1(d) = AtHop1(d) + In(d, 1) /\ At2(d) \in Int /\ AtHop2(d) \in Int
      /\ Held(d, 1) \in Nat /\ In(d, 1) \in Nat /\ sent[d] \in Int
  BY Sums
<1>10. AtHop1(d)' = At2(d)' + Held(d, 1)' /\ At1(d)' = AtHop1(d)' + In(d, 1)'
  BY DEF AtHop1, At1
<1>11. At1(d)' = At2(d) + In(d, 1) /\ At1(d) = At2(d) + Held(d, 1) + In(d, 1)
  BY <1>6, <1>8, <1>9, <1>10
<1>12. cut = FALSE => Held(d, 1) = 0
  BY <1>1, UncutReturns, LenSmall DEF Held
<1>13. Ordered(d)'
  <2>1. Run(<<>>, At2(d)')
    BY <1>8, <1>9, RunEmpty
  <2> QED BY <1>2, <1>3, <1>5, <1>6, <1>8, <2>1 DEF Ordered
<1>14. Conserved(d)'
  BY <1>2, <1>3, <1>5, <1>6, <1>8, <1>9, <1>11, <1>12 DEF Conserved
<1>15. \A e \in Dirs : e # d => Untouched(e)
  BY <1>2, <1>3 DEF Untouched, Ahead, Hdr, Open
<1> QED BY <1>5, <1>6, <1>8, <1>12, <1>13, <1>14, <1>15

\* The same for hop 2: what is in front of it does not count any more.
LEMMA CopyEnds2Keeps ==
  ASSUME TypeOK, CutKnown, NEW d \in Dirs, Ordered(d), Conserved(d), CopyEnds(d, 2)
  PROVE  /\ Ordered(d)' /\ Conserved(d)'
         /\ At3(d)' = At3(d) /\ AtHop2(d)' = At3(d) /\ AtHop2(d)' <= AtHop2(d) /\ ~ Open(d)'
         /\ Held(d, 1)' = Held(d, 1) /\ In(d, 1)' = In(d, 1) /\ (cut = FALSE => At2(d)' = At2(d))
         /\ \A e \in Dirs : e # d => Untouched(e)
<1>1. 1 \in Hops /\ 2 \in Hops /\ 1 # 2
  BY DEF Hops
<1>2. /\ copy'[<<d, 2>>] = "over" /\ hold'[<<d, 2>>] = <<>>
      /\ copy'[<<d, 1>>] = copy[<<d, 1>>] /\ hold'[<<d, 1>>] = hold[<<d, 1>>]
      /\ \A e \in Dirs : e # d => /\ copy'[<<e, 1>>] = copy[<<e, 1>>] /\ hold'[<<e, 1>>] = hold[<<e, 1>>]
                                  /\ copy'[<<e, 2>>] = copy[<<e, 2>>] /\ hold'[<<e, 2>>] = hold[<<e, 2>>]
  <2>1. copy'[<<d, 2>>] = "over" /\ hold'[<<d, 2>>] = <<>>
    BY <1>1, CopyEndsEffect
  <2>2. \A e \in Dirs, g \in Hops : e # d \/ g # 2 => copy'[<<e, g>>] = copy[<<e, g>>] /\ hold'[<<e, g>>] = hold[<<e, g>>]
    BY <1>1, CopyEndsEffect
  <2> QED BY <1>1, <2>1, <2>2
<1>3. UNCHANGED <<sent, got, chan, ahead, client, cut>>
  BY DEF CopyEnds, ends, stages
<1>4. Hdr(d)' = Hdr(d) /\ Ahead(d)' = Ahead(d) /\ ~ Open(d)'
  BY <1>2, <1>3 DEF Hdr, Ahead, Open
<1>5. Held(d, 2)' = 0 /\ In(d, 1)' = In(d, 1) /\ In(d, 2)' = In(d, 2) /\ In(d, 3)' = In(d, 3) /\ Got(d)' = Got(d)
  BY <1>2, <1>3, LenSmall DEF Held, In, Got
<1>6. Held(d, 1)' = Held(d, 1) /\ Kept(d)' = Kept(d)
  BY <1>2, <1>4 DEF Held, Kept
<1>7. At3(d)' = At3(d) /\ AtHop2(d)' = At3(d)' + Held(d, 2)'
  BY <1>5 DEF At3, AtHop2
<1>8. AtHop2(d) = At3(d) + Held(d, 2) /\ At3(d) \in Int /\ Held(d, 2) \in Nat /\ sent[d] \in Int /\ AtHop2(d) \in Int
  BY Sums
<1>9. AtHop2(d)' = At3(d) /\ AtHop2(d)' <= AtHop2(d)
  BY <1>5, <1>7, <1>8
<1>10. cut = FALSE => AtHop2(d)' = AtHop2(d)
  <2>1. cut = FALSE => Held(d, 2) = 0
    BY <1>1, UncutReturns, LenSmall DEF Held
  <2> QED BY <1>8, <1>9, <2>1
<1>11. cut = FALSE => AtReader(d)' = AtReader(d) /\ At2(d)' = At2(d) /\ AtHop1(d)' = AtHop1(d) /\ At1(d)' = At1(d)
  BY <1>4, <1>5, <1>6, <1>10 DEF AtReader, At2, AtHop1, At1
<1>12. Ordered(d)'
  <2>1. Run(<<>>, At3(d)')
    BY <1>7, <1>8, RunEmpty
  <2> QED BY <1>2, <1>3, <1>4, <1>5, <2>1 DEF Ordered
<1>13. Conserved(d)'
  <2>1. AtHop2(d)' <= sent[d]
    BY <1>5, <1>7, <1>8 DEF Conserved
  <2> QED BY <1>3, <1>4, <1>5, <1>6, <1>11, <2>1 DEF Conserved
<1>14. \A e \in Dirs : e # d => Untouched(e)
  BY <1>2, <1>3 DEF Untouched, Ahead, Hdr, Open
<1> QED BY <1>4, <1>5, <1>6, <1>7, <1>9, <1>11, <1>12, <1>13, <1>14

\* The client gives up: nothing more comes to the target.
LEMMA GiveUpKeeps ==
  ASSUME TypeOK, Stages, Ordered("in"), Conserved("in"), client \in {"header", "dial"}, GiveUp
  PROVE  /\ Ordered("in")' /\ Conserved("in")' /\ ~ Open("in")' /\ cut' = TRUE /\ AtHop2("in")' = AtHop2("in")
         /\ Held("in", 1)' = Held("in", 1) /\ In("in", 1)' = In("in", 1) /\ Untouched("out")
<1>1. UNCHANGED <<sent, got, chan, ahead, hold, copy>> /\ cut' = TRUE /\ client' = "done"
  BY DEF GiveUp, ends
<1>2. ~ Open("in")'
  BY <1>1 DEF Open, Stages
<1>3. /\ Got("in")' = Got("in") /\ In("in", 1)' = In("in", 1) /\ Held("in", 1)' = Held("in", 1)
      /\ At3("in")' = At3("in") /\ AtHop2("in")' = AtHop2("in")
  BY <1>1 DEF Got, In, Held, At3, AtHop2
<1>4. Ordered("in")'
  BY <1>1, <1>2, <1>3 DEF Ordered
<1>5. Conserved("in")'
  BY <1>1, <1>2, <1>3 DEF Conserved
<1>6. Untouched("out")
  BY <1>1 DEF Untouched, Ahead, Hdr, Open
<1> QED BY <1>1, <1>2, <1>3, <1>4, <1>5, <1>6

\* The header is the first thing in the stream.
LEMMA OpenStreamKeeps ==
  ASSUME TypeOK, Stages, Fresh, Ordered("in"), Conserved("in"), OpenStream
  PROVE  /\ Ordered("in")' /\ Conserved("in")' /\ Open("in") /\ Open("in")' /\ AtHop2("in")' = AtHop2("in")
         /\ At2("in")' = At2("in") /\ Held("in", 1)' = Held("in", 1) /\ In("in", 1)' = In("in", 1) /\ Untouched("out")
<1>1. /\ chan'["in"][2] = <<0>> /\ chan'["in"][1] = chan["in"][1] /\ chan'["in"][3] = chan["in"][3]
      /\ chan'["out"] = chan["out"] /\ copy'[<<"in", 1>>] = "running" /\ copy'[<<"out", 2>>] = "running"
      /\ copy'[<<"in", 2>>] = copy[<<"in", 2>>] /\ copy'[<<"out", 1>>] = copy[<<"out", 1>>]
  BY OpenStreamEffect
<1>2. UNCHANGED <<sent, got, ahead, hold, client, cut>> /\ server = "accepted"
  BY DEF OpenStream, ends
<1>3. client = "header" /\ copy[<<"in", 1>>] = "none" /\ copy[<<"out", 2>>] = "none" /\ copy[<<"in", 2>>] = "none"
  BY <1>2 DEF Stages
<1>4. Hdr("in") = 0 /\ Hdr("in")' = 1 /\ Open("in") /\ Open("in")' /\ Open("out")
  BY <1>1, <1>2, <1>3 DEF Hdr, Open
<1>5. Untouched("out")
  BY <1>1, <1>2, <1>4 DEF Untouched, Ahead, Hdr
<1>6. /\ got["in"] = <<>> /\ chan["in"][3] = <<>> /\ chan["in"][2] = <<>> /\ Ahead("in") = <<>>
      /\ hold[<<"in", 2>>] = <<>> /\ Ahead("in")' = <<>>
  BY <1>2 DEF Fresh, Ahead
<1>7. Got("in") = 0 /\ In("in", 3) = 0 /\ In("in", 2) = 0 /\ Kept("in") = 0 /\ Held("in", 2) = 0
  BY <1>6, LenSmall DEF Got, In, Kept, Held
<1>8. /\ Got("in")' = 0 /\ In("in", 3)' = 0 /\ In("in", 2)' = 1 /\ Kept("in")' = 0 /\ Held("in", 2)' = 0
  BY <1>1, <1>2, <1>6, LenSmall DEF Got, In, Kept, Held
<1>9. In("in", 1)' = In("in", 1) /\ Held("in", 1)' = Held("in", 1)
  BY <1>1, <1>2 DEF In, Held
<1>10. At3("in") = 0 /\ AtHop2("in") = 0 /\ AtReader("in") = 0 /\ At2("in") = 0
  BY <1>4, <1>7 DEF At3, AtHop2, AtReader, At2
<1>11. At3("in")' = 0 /\ AtHop2("in")' = 0 /\ AtReader("in")' = 0 /\ At2("in")' = 0
  BY <1>4, <1>8 DEF At3, AtHop2, AtReader, At2
<1>12. AtHop1("in")' = AtHop1("in") /\ At1("in")' = At1("in")
  BY <1>9, <1>10, <1>11 DEF AtHop1, At1
<1>13. Run(<<0>>, 0 - 1) /\ 0 - 1 = AtReader("in")' - Hdr("in")'
  BY <1>4, <1>11, RunOne
<1>14. Ordered("in")'
  <2>1. Run(<<>>, 0)
    BY RunEmpty
  <2>2. Run(hold[<<"in", 1>>], 0) /\ Run(chan["in"][1], sent["in"] - In("in", 1))
    BY <1>4, <1>10 DEF Ordered
  <2> QED BY <1>1, <1>2, <1>6, <1>8, <1>9, <1>11, <1>13, <2>1, <2>2 DEF Ordered
<1>15. Conserved("in")'
  BY <1>1, <1>2, <1>3, <1>4, <1>9, <1>10, <1>11, <1>12 DEF Conserved
<1> QED BY <1>4, <1>5, <1>9, <1>10, <1>11, <1>14, <1>15

\* The client's reader takes the header and a part of the run behind it.
LEMMA ReadHeaderKeeps ==
  ASSUME TypeOK, Stages, Ordered("in"), Conserved("in"), ReadHeader
  PROVE  /\ Ordered("in")' /\ Conserved("in")' /\ Open("in") /\ Open("in")' /\ AtHop2("in")' = AtHop2("in")
         /\ At2("in")' = At2("in") /\ Held("in", 1)' = Held("in", 1) /\ In("in", 1)' = In("in", 1) /\ Untouched("out")
         /\ Run(ahead', AtHop2("in"))
<1>1. PICK k \in 1..Len(chan["in"][2]) :
           /\ ahead' = SubSeq(chan["in"][2], 2, k)
           /\ chan'["in"][2] = SubSeq(chan["in"][2], k + 1, Len(chan["in"][2]))
  BY ReadHeaderEffect
<1>2. /\ chan["in"][2] # <<>> /\ Head(chan["in"][2]) = 0
      /\ chan'["in"][1] = chan["in"][1] /\ chan'["in"][3] = chan["in"][3] /\ chan'["out"] = chan["out"]
  BY ReadHeaderEffect
<1>3. UNCHANGED <<sent, got, hold, copy, cut>> /\ client = "header" /\ client' = "dial"
  BY DEF ReadHeader, ends
<1>4. "in" \in Dirs /\ chan["in"][2] \in Seq(Int)
  BY Types DEF Dirs
<1>5. Open("in") /\ Open("in")' /\ Hdr("in")' = 0
  BY <1>3 DEF Open, Hdr, Stages
<1>6. Untouched("out")
  BY <1>2, <1>3 DEF Untouched, Ahead, Hdr, Open
<1>7. /\ At3("in") = Got("in") + In("in", 3) /\ AtHop2("in") = At3("in") + Held("in", 2) /\ AtReader("in") = AtHop2("in") + Kept("in")
      /\ At2("in") = AtReader("in") + In("in", 2) - Hdr("in")
      /\ Held("in", 2) \in Nat /\ Kept("in") \in Nat /\ In("in", 2) \in Nat /\ Hdr("in") \in Int
      /\ At3("in") \in Int /\ AtHop2("in") \in Int /\ AtReader("in") \in Int
  BY <1>4, Sums
<1>8. At3("in") \in Nat /\ AtHop2("in") \in Nat /\ AtReader("in") \in Nat /\ Hdr("in") \in {0, 1}
  BY <1>4, Numbers
<1>9. AtReader("in") - Hdr("in") \in Int
  BY <1>7
<1>10. Run(chan["in"][2], AtReader("in") - Hdr("in"))
  BY <1>5 DEF Ordered
<1>11. 0 = AtReader("in") - Hdr("in") + 1
  BY <1>2, <1>4, <1>9, <1>10, RunTail
<1>12. AtReader("in") = 0 /\ Hdr("in") = 1 /\ AtHop2("in") = 0 /\ Kept("in") = 0
  <2>1. AtReader("in") = 0 /\ Hdr("in") = 1
    BY <1>8, <1>11
  <2>2. AtReader("in") = AtHop2("in") + Kept("in") /\ Kept("in") \in Nat /\ AtHop2("in") \in Nat
    BY <1>7, <1>8
  <2> QED BY <2>1, <2>2
<1>13. In("in", 2) = Len(chan["in"][2]) /\ k \in Nat /\ 1 <= k /\ k <= In("in", 2)
  BY <1>1, <1>7 DEF In
<1>14. Run(chan["in"][2], 0 - 1)
  BY <1>10, <1>12
<1>15. Run(ahead', 0) /\ Len(ahead') = k - 1
  BY <1>1, <1>4, <1>14, RunSplit
<1>16. Run(chan'["in"][2], k - 1) /\ Len(chan'["in"][2]) = In("in", 2) - k
  BY <1>1, <1>4, <1>13, <1>14, RunSplit
<1>17. /\ Got("in")' = Got("in") /\ In("in", 3)' = In("in", 3) /\ In("in", 1)' = In("in", 1)
       /\ Held("in", 1)' = Held("in", 1) /\ Held("in", 2)' = Held("in", 2)
  BY <1>2, <1>3 DEF Got, In, Held
<1>18. Ahead("in")' = ahead' /\ Kept("in")' = k - 1 /\ In("in", 2)' = In("in", 2) - k
  BY <1>15, <1>16 DEF Ahead, Kept, In
<1>19. At3("in")' = At3("in") /\ AtHop2("in")' = AtHop2("in")
  BY <1>17 DEF At3, AtHop2
<1>20. AtReader("in")' = k - 1
  BY <1>12, <1>13, <1>18, <1>19 DEF AtReader
<1>21. At2("in")' = At2("in")
  <2>1. At2("in")' = k - 1 + (In("in", 2) - k) - 0
    BY <1>5, <1>18, <1>20 DEF At2
  <2> QED BY <1>7, <1>12, <1>13, <2>1
<1>22. AtHop1("in")' = AtHop1("in") /\ At1("in")' = At1("in")
  BY <1>17, <1>21 DEF AtHop1, At1
<1>23. AtReader("in")' - Hdr("in")' = k - 1
  BY <1>5, <1>13, <1>20
<1>24. Ordered("in")'
  <2>1. /\ Run(chan["in"][3], Got("in")) /\ Run(hold[<<"in", 2>>], At3("in")) /\ Run(hold[<<"in", 1>>], At2("in"))
        /\ Run(chan["in"][1], sent["in"] - In("in", 1))
    BY <1>5 DEF Ordered
  <2> QED BY <1>2, <1>3, <1>12, <1>15, <1>16, <1>17, <1>18, <1>19, <1>21, <1>23, <2>1 DEF Ordered
<1>25. Conserved("in")'
  BY <1>3, <1>5, <1>17, <1>19, <1>22 DEF Conserved
<1> QED BY <1>5, <1>6, <1>12, <1>15, <1>17, <1>19, <1>21, <1>24, <1>25

\* The target is dialled: the hops of the client start, and nothing moves.
LEMMA DialUntouched ==
  ASSUME Stages, Dial
  PROVE  \A e \in Dirs : Untouched(e)
<1>1. /\ copy'[<<"in", 2>>] = "running" /\ copy'[<<"out", 1>>] = "running"
      /\ copy'[<<"in", 1>>] = copy[<<"in", 1>>] /\ copy'[<<"out", 2>>] = copy[<<"out", 2>>]
  BY DialEffect
<1>2. UNCHANGED <<sent, got, chan, ahead, hold, cut>> /\ client = "dial" /\ client' = "pipe"
  BY DEF Dial, ends
<1>3. copy[<<"in", 2>>] = "none" /\ copy[<<"out", 1>>] = "none"
  BY <1>2 DEF Stages
<1>4. Untouched("in")
  BY <1>1, <1>2, <1>3 DEF Untouched, Ahead, Hdr, Open
<1>5. Untouched("out")
  BY <1>1, <1>2, <1>3 DEF Untouched, Ahead, Hdr, Open
<1> QED BY <1>4, <1>5 DEF Dirs

\* The handler of the client returns.
LEMMA ClientEndsUntouched ==
  ASSUME ClientEnds
  PROVE  \A e \in Dirs : Untouched(e)
<1>1. UNCHANGED <<sent, got, chan, ahead, hold, copy, cut>> /\ client = "pipe" /\ client' = "done"
  BY DEF ClientEnds, ends
<1>2. ASSUME NEW e \in Dirs PROVE Untouched(e)
  BY <1>1 DEF Untouched, Ahead, Hdr, Open
<1> QED BY <1>2

\* A step that is not about bytes, copies or the client.
Quiet ==
  /\ UNCHANGED <<sent, got, chan, ahead, hold, copy, client>> /\ (cut' = FALSE => cut = FALSE)
  /\ \A d \in Dirs : Tally(d)' = Tally(d)

\* It leaves both directions alone.
LEMMA QuietUntouched ==
  ASSUME Quiet
  PROVE  \A e \in Dirs : Untouched(e)
BY DEF Quiet, Untouched, Ahead, Hdr, Open

\* These steps are quiet.
LEMMA QuietSteps ==
  ASSUME TypeOK
  PROVE  /\ \A d \in Dirs : Finish(d) \/ Leave(d) \/ SeeEnd(d) \/ Count(d) => Quiet
         /\ SessionLost \/ CloseTimeout \/ OpenFails \/ ServerEnds => Quiet
<1>1. ASSUME NEW d \in Dirs, Count(d) PROVE Quiet
  <2>1. \A e \in Dirs : due[e] \in {0, 1} /\ counted[e] \in Nat
    BY RelayAssumption DEF TypeOK
  <2>2. \A e \in Dirs : /\ counted'[e] = IF e = d THEN counted[d] + due[d] ELSE counted[e]
                        /\ due'[e] = IF e = d THEN 0 ELSE due[e]
    BY <1>1 DEF Count, TypeOK
  <2>3. \A e \in Dirs : Tally(e)' = Tally(e)
    BY <2>1, <2>2 DEF Tally
  <2> QED BY <1>1, <2>3 DEF Count, Quiet, ends, stages
<1>2. /\ \A d \in Dirs : Finish(d) \/ Leave(d) \/ SeeEnd(d) => Quiet
      /\ SessionLost \/ CloseTimeout \/ OpenFails \/ ServerEnds => Quiet
  BY DEF Finish, Leave, SeeEnd, SessionLost, CloseTimeout, OpenFails, ServerEnds, Quiet, Tally, ends, stages, counts
<1> QED BY <1>1, <1>2

\* Which steps move the bytes of which direction, and how.
LEMMA OrderedStep ==
  ASSUME RelayInv, Next, NEW e \in Dirs
  PROVE  Ordered(e)' /\ Conserved(e)'
<1> USE DEF RelayInv
<1>1. Ordered(e) /\ Conserved(e)
  OBVIOUS
<1>2. ASSUME Untouched(e) PROVE Ordered(e)' /\ Conserved(e)'
  BY <1>1, <1>2, UntouchedStays
<1>3. ASSUME NEW d \in Dirs, Send(d) PROVE Ordered(e)' /\ Conserved(e)'
  <2>1. e # d => Untouched(e)
    BY <1>3, SendMoves
  <2> QED BY <1>1, <1>2, <1>3, <2>1, SendKeeps
<1>4. ASSUME NEW d \in Dirs, Receive(d) PROVE Ordered(e)' /\ Conserved(e)'
  <2>1. e # d => Untouched(e)
    BY <1>4, ReceiveMoves
  <2> QED BY <1>1, <1>2, <1>4, <2>1, ReceiveKeeps
<1>5. ASSUME NEW d \in Dirs, NEW h \in Hops, Read(d, h) PROVE Ordered(e)' /\ Conserved(e)'
  <2>1. CASE h = 1
    <3>1. e # d => Untouched(e)
      BY <1>5, <2>1, Read1Moves
    <3> QED BY <1>1, <1>2, <1>5, <2>1, <3>1, Read1Keeps
  <2>2. CASE h = 2 /\ ~ Buffered(d, 2)
    <3>1. e # d => Untouched(e)
      BY <1>5, <2>2, Read2Moves
    <3> QED BY <1>1, <1>2, <1>5, <2>2, <3>1, Read2Keeps
  <2>3. CASE h = 2 /\ Buffered(d, 2)
    <3>1. e # d => Untouched(e)
      BY <1>5, <2>3, ReadAheadMoves
    <3> QED BY <1>1, <1>2, <1>5, <2>3, <3>1, ReadAheadKeeps
  <2> QED BY <2>1, <2>2, <2>3 DEF Hops
<1>6. ASSUME NEW d \in Dirs, NEW h \in Hops, Write(d, h) PROVE Ordered(e)' /\ Conserved(e)'
  <2>1. CASE h = 1
    <3>1. e # d => Untouched(e)
      BY <1>6, <2>1, Write1Moves
    <3> QED BY <1>1, <1>2, <1>6, <2>1, <3>1, Write1Keeps
  <2>2. CASE h = 2
    <3>1. e # d => Untouched(e)
      BY <1>6, <2>2, Write2Moves
    <3> QED BY <1>1, <1>2, <1>6, <2>2, <3>1, Write2Keeps
  <2> QED BY <2>1, <2>2 DEF Hops
<1>7. ASSUME NEW d \in Dirs, NEW h \in Hops, CopyEnds(d, h) PROVE Ordered(e)' /\ Conserved(e)'
  <2>1. CASE h = 1
    <3>1. e # d => Untouched(e)
      BY <1>7, <2>1, CopyEnds1Keeps
    <3>2. e = d => Ordered(e)' /\ Conserved(e)'
      BY <1>1, <1>7, <2>1, CopyEnds1Keeps
    <3> QED BY <1>2, <3>1, <3>2
  <2>2. CASE h = 2
    <3>1. e # d => Untouched(e)
      BY <1>7, <2>2, CopyEnds2Keeps
    <3>2. e = d => Ordered(e)' /\ Conserved(e)'
      BY <1>1, <1>7, <2>2, CopyEnds2Keeps
    <3> QED BY <1>2, <3>1, <3>2
  <2> QED BY <2>1, <2>2 DEF Hops
<1>8. "in" \in Dirs /\ "out" \in Dirs /\ (e = "in" \/ e = "out")
  BY DEF Dirs
<1>9. ASSUME HeaderFails \/ DialFails PROVE Ordered(e)' /\ Conserved(e)'
  <2>1. GiveUp /\ client \in {"header", "dial"}
    BY <1>9 DEF HeaderFails, DialFails
  <2>2. Ordered("in")' /\ Conserved("in")' /\ Untouched("out")
    BY <1>8, <2>1, GiveUpKeeps
  <2> QED BY <1>2, <1>8, <2>2
<1>10. ASSUME OpenStream PROVE Ordered(e)' /\ Conserved(e)'
  <2>1. Ordered("in")' /\ Conserved("in")' /\ Untouched("out")
    BY <1>8, <1>10, OpenStreamKeeps
  <2> QED BY <1>2, <1>8, <2>1
<1>11. ASSUME ReadHeader PROVE Ordered(e)' /\ Conserved(e)'
  <2>1. Ordered("in")' /\ Conserved("in")' /\ Untouched("out")
    BY <1>8, <1>11, ReadHeaderKeeps
  <2> QED BY <1>2, <1>8, <2>1
<1>12. ASSUME Dial \/ ClientEnds PROVE Ordered(e)' /\ Conserved(e)'
  BY <1>2, <1>12, DialUntouched, ClientEndsUntouched
<1>13. ASSUME Quiet PROVE Ordered(e)' /\ Conserved(e)'
  BY <1>2, <1>13, QuietUntouched
<1> QED BY <1>3, <1>4, <1>5, <1>6, <1>7, <1>9, <1>10, <1>11, <1>12, <1>13, QuietSteps
           DEF Next, Programs, Opening, Piping

-----------------------------------------------------------------------------
(* The counters *)

\* What is left alone in direction "in" stays counted.
LEMMA CountedInStays ==
  ASSUME CountedIn, Untouched("in"), Tally("in")' = Tally("in")
  PROVE  CountedIn'
<1>1. /\ AtHop2("in")' = AtHop2("in") /\ At2("in")' = At2("in")
      /\ Held("in", 1)' = Held("in", 1) /\ In("in", 1)' = In("in", 1) /\ sent'["in"] = sent["in"]
  BY DEF Untouched, Got, In, Held, Kept, At3, AtHop2, AtReader, At2
<1> QED BY <1>1 DEF CountedIn, Untouched

\* The same for direction "out".
LEMMA CountedOutStays ==
  ASSUME CountedOut, Untouched("out"), Tally("out")' = Tally("out")
  PROVE  CountedOut'
BY DEF CountedOut, Untouched, Got, In, At3

\* The counters follow the bytes in every step.
LEMMA CountedStep ==
  ASSUME RelayInv, Next
  PROVE  CountedOut' /\ CountedIn'
<1>1. TypeOK /\ Stages /\ Fresh /\ CutKnown /\ CountedOut /\ CountedIn /\ "in" \in Dirs /\ "out" \in Dirs
  BY DEF RelayInv, Dirs
<1>2. Ordered("in") /\ Conserved("in") /\ Ordered("out") /\ Conserved("out")
  BY <1>1 DEF RelayInv
<1>3. /\ Held("in", 1) \in Int /\ In("in", 1) \in Int /\ sent["in"] \in Int /\ At2("in") \in Int /\ AtHop2("in") \in Int
      /\ Tally("in") \in Int
  BY <1>1, Numbers
<1>4. ASSUME Untouched("in"), Untouched("out"), Tally("in")' = Tally("in"), Tally("out")' = Tally("out") PROVE CountedOut' /\ CountedIn'
  BY <1>1, <1>4, CountedInStays, CountedOutStays
<1>5. ASSUME NEW d \in Dirs, Send(d) PROVE CountedOut' /\ CountedIn'
  <2>1. UNCHANGED <<copy, cut, hold>> /\ Tally("in")' = Tally("in") /\ Tally("out")' = Tally("out")
    BY <1>5 DEF Send, counts, Tally
  <2>2. CASE d = "in"
    <3>1. /\ Untouched("out") /\ AtHop2("in")' = AtHop2("in") /\ At2("in")' = At2("in") /\ Open("in")' = Open("in")
      BY <1>1, <1>5, <2>2, SendMoves DEF Dirs
    <3>2. At1("in")' = At1("in") + 1 /\ sent'["in"] = sent["in"] + 1
      BY <1>1, <1>5, <2>2, SendMoves, SendEffect
    <3>3. Held("in", 1)' = Held("in", 1)
      BY <2>1 DEF Held
    <3>4. chan'["in"][1] = Append(chan["in"][1], sent["in"] + 1) /\ chan["in"][1] \in Seq(Int) /\ sent["in"] + 1 \in Int
      <4>1. chan'["in"][1] = Append(chan["in"][1], sent["in"] + 1)
        BY <1>1, <1>5, <2>2, SendEffect
      <4>2. chan["in"][1] \in Seq(Int)
        BY <1>1, Types
      <4>3. sent["in"] + 1 \in Int
        BY <1>3
      <4> QED BY <4>1, <4>2, <4>3
    <3>5. In("in", 1)' = In("in", 1) + 1
      BY <3>4, LenFacts DEF In
    <3>6. CountedIn'
      BY <1>1, <1>3, <2>1, <3>1, <3>2, <3>3, <3>5 DEF CountedIn
    <3> QED BY <1>1, <2>1, <3>1, <3>6, CountedOutStays
  <2>3. CASE d = "out"
    <3>1. Untouched("in") /\ At3("out")' = At3("out")
      BY <1>1, <1>5, <2>3, SendMoves DEF Dirs
    <3> QED BY <1>1, <2>1, <3>1, CountedInStays DEF CountedOut
  <2> QED BY <2>2, <2>3 DEF Dirs
<1>6. ASSUME NEW d \in Dirs, Receive(d) PROVE CountedOut' /\ CountedIn'
  <2>1. UNCHANGED <<copy, cut, hold, sent>> /\ Tally("in")' = Tally("in") /\ Tally("out")' = Tally("out")
    BY <1>6 DEF Receive, counts, Tally
  <2>2. CASE d = "in"
    <3>1. /\ Untouched("out") /\ AtHop2("in")' = AtHop2("in") /\ At2("in")' = At2("in") /\ Open("in")' = Open("in")
      BY <1>1, <1>6, <2>2, ReceiveMoves DEF Dirs
    <3>2. Held("in", 1)' = Held("in", 1) /\ In("in", 1)' = In("in", 1)
      BY <1>1, <1>6, <2>1, <2>2, ReceiveEffect DEF Held, In
    <3>3. CountedIn'
      BY <1>1, <2>1, <3>1, <3>2 DEF CountedIn
    <3> QED BY <1>1, <2>1, <3>1, <3>3, CountedOutStays
  <2>3. CASE d = "out"
    <3>1. Untouched("in") /\ At3("out")' = At3("out")
      BY <1>1, <1>6, <2>3, ReceiveMoves DEF Dirs
    <3> QED BY <1>1, <2>1, <3>1, CountedInStays DEF CountedOut
  <2> QED BY <2>2, <2>3 DEF Dirs
<1>7. ASSUME NEW d \in Dirs, Read(d, 1) PROVE CountedOut' /\ CountedIn'
  <2>1. UNCHANGED <<copy, cut, sent>> /\ Tally("in")' = Tally("in") /\ Tally("out")' = Tally("out")
    BY <1>7 DEF Read, ends, counts, Tally
  <2>2. CASE d = "in"
    <3>1. /\ Untouched("out") /\ AtHop2("in")' = AtHop2("in") /\ At2("in")' = At2("in") /\ Open("in")' = Open("in")
      BY <1>1, <1>7, <2>2, Read1Moves DEF Dirs
    <3>2. /\ chan["in"][1] # <<>> /\ chan'["in"][1] = Tail(chan["in"][1]) /\ hold[<<"in", 1>>] = <<>>
          /\ hold'[<<"in", 1>>] = <<Head(chan["in"][1])>>
      BY <1>1, <1>7, <2>2, Read1Effect
    <3>3. chan["in"][1] \in Seq(Int)
      BY <1>1, Types
    <3>4. Held("in", 1) = 0 /\ Held("in", 1)' = 1 /\ In("in", 1)' = In("in", 1) - 1
      BY <3>2, <3>3, LenFacts, LenSmall DEF Held, In
    <3>5. CountedIn'
      BY <1>1, <1>3, <2>1, <3>1, <3>4 DEF CountedIn
    <3> QED BY <1>1, <2>1, <3>1, <3>5, CountedOutStays
  <2>3. CASE d = "out"
    <3>1. Untouched("in") /\ At3("out")' = At3("out")
      BY <1>1, <1>7, <2>3, Read1Moves DEF Dirs
    <3> QED BY <1>1, <2>1, <3>1, CountedInStays DEF CountedOut
  <2> QED BY <2>2, <2>3 DEF Dirs
<1>8. ASSUME NEW d \in Dirs, Read(d, 2) PROVE CountedOut' /\ CountedIn'
  <2>1. UNCHANGED <<copy, cut, sent>> /\ Tally("in")' = Tally("in") /\ Tally("out")' = Tally("out") /\ copy[<<d, 2>>] = "running"
    BY <1>8 DEF Read, Copying, ends, counts, Tally
  <2>2. /\ \A e \in Dirs : e # d => Untouched(e)
        /\ Open(d)' = Open(d) /\ At3(d)' = At3(d) /\ AtHop2(d)' = AtHop2(d) + 1 /\ At2(d)' = At2(d)
    BY <1>1, <1>8, Read2Moves, ReadAheadMoves
  <2>3. CASE d = "in"
    <3>1. Held("in", 1)' = Held("in", 1) /\ In("in", 1)' = In("in", 1)
      <4>1. hold'[<<"in", 1>>] = hold[<<"in", 1>>] /\ chan'["in"][1] = chan["in"][1]
        BY <1>1, <1>8, <2>3, Read2Effect, ReadAheadEffect
      <4> QED BY <4>1 DEF Held, In
    <3>2. AtHop2("in") + 1 <= At2("in")
      BY <1>1, <1>2, <1>8, <2>3, Read2Keeps, ReadAheadKeeps
    <3>3. At2("in") = Tally("in")
      BY <1>1, <2>1, <2>3, NoHeader DEF CountedIn
    <3>4. CountedIn'
      BY <1>1, <1>3, <2>1, <2>2, <2>3, <3>1, <3>2, <3>3 DEF CountedIn
    <3>5. Untouched("out")
      BY <1>1, <2>2, <2>3
    <3> QED BY <1>1, <2>1, <3>4, <3>5, CountedOutStays
  <2>4. CASE d = "out"
    <3>1. Untouched("in") /\ At3("out")' = At3("out")
      BY <1>1, <2>2, <2>4
    <3> QED BY <1>1, <2>1, <3>1, CountedInStays DEF CountedOut
  <2> QED BY <2>3, <2>4 DEF Dirs
<1>9. ASSUME NEW d \in Dirs, Write(d, 1) PROVE CountedOut' /\ CountedIn'
  <2>1. UNCHANGED <<copy, cut, sent>>
    BY <1>9 DEF Write, ends
  <2>2. \A e \in Dirs : Tally(e)' = IF e = d /\ d = "in" THEN Tally(e) + 1 ELSE Tally(e)
    BY <1>1, <1>9, Write1Effect
  <2>3. CASE d = "in"
    <3>1. /\ Untouched("out") /\ AtHop2("in")' = AtHop2("in") /\ At2("in")' = At2("in") + 1 /\ Open("in")' = Open("in")
      BY <1>1, <1>9, <2>3, Write1Moves DEF Dirs
    <3>2. /\ hold[<<"in", 1>>] # <<>> /\ hold'[<<"in", 1>>] = <<>> /\ chan'["in"][1] = chan["in"][1]
      BY <1>1, <1>9, <2>3, Write1Effect
    <3>3. hold[<<"in", 1>>] = <<>> \/ \E b \in Int : hold[<<"in", 1>>] = <<b>>
      BY <1>1, Types
    <3>4. Held("in", 1) = 1 /\ Held("in", 1)' = 0 /\ In("in", 1)' = In("in", 1)
      BY <3>2, <3>3, LenSmall DEF Held, In
    <3>5. Tally("in")' = Tally("in") + 1 /\ Tally("out")' = Tally("out")
      BY <1>1, <2>2, <2>3
    <3>6. CountedIn'
      BY <1>1, <1>3, <2>1, <3>1, <3>4, <3>5 DEF CountedIn
    <3> QED BY <1>1, <3>1, <3>5, <3>6, CountedOutStays
  <2>4. CASE d = "out"
    <3>1. Untouched("in") /\ At3("out")' = At3("out")
      BY <1>1, <1>9, <2>4, Write1Moves DEF Dirs
    <3>2. Tally("in")' = Tally("in") /\ Tally("out")' = Tally("out")
      BY <1>1, <2>2, <2>4
    <3> QED BY <1>1, <3>1, <3>2, CountedInStays DEF CountedOut
  <2> QED BY <2>3, <2>4 DEF Dirs
<1>10. ASSUME NEW d \in Dirs, Write(d, 2) PROVE CountedOut' /\ CountedIn'
  <2>1. UNCHANGED <<copy, cut, sent>>
    BY <1>10 DEF Write, ends
  <2>2. \A e \in Dirs : Tally(e)' = IF e = d /\ d = "out" THEN Tally(e) + 1 ELSE Tally(e)
    BY <1>1, <1>10, Write2Effect
  <2>3. CASE d = "in"
    <3>1. /\ Untouched("out") /\ AtHop2("in")' = AtHop2("in") /\ At2("in")' = At2("in") /\ Open("in")' = Open("in")
      BY <1>1, <1>10, <2>3, Write2Moves DEF Dirs
    <3>2. hold'[<<"in", 1>>] = hold[<<"in", 1>>] /\ chan'["in"][1] = chan["in"][1]
      BY <1>1, <1>10, <2>3, Write2Effect
    <3>3. Held("in", 1)' = Held("in", 1) /\ In("in", 1)' = In("in", 1)
      BY <3>2 DEF Held, In
    <3>4. Tally("in")' = Tally("in") /\ Tally("out")' = Tally("out")
      BY <1>1, <2>2, <2>3
    <3>5. CountedIn'
      BY <1>1, <2>1, <3>1, <3>3, <3>4 DEF CountedIn
    <3> QED BY <1>1, <3>1, <3>4, <3>5, CountedOutStays
  <2>4. CASE d = "out"
    <3>1. Untouched("in") /\ At3("out")' = At3("out") + 1
      BY <1>1, <1>10, <2>4, Write2Moves DEF Dirs
    <3>2. Tally("in")' = Tally("in") /\ Tally("out")' = Tally("out") + 1
      BY <1>1, <2>2, <2>4
    <3> QED BY <1>1, <3>1, <3>2, CountedInStays DEF CountedOut
  <2> QED BY <2>3, <2>4 DEF Dirs
<1>11. ASSUME NEW d \in Dirs, CopyEnds(d, 1) PROVE CountedOut' /\ CountedIn'
  <2>1. UNCHANGED <<cut, sent>> /\ Tally("in")' = Tally("in") /\ Tally("out")' = Tally("out")
    BY <1>11 DEF CopyEnds, ends, counts, Tally
  <2>2. /\ At3(d)' = At3(d) /\ AtHop2(d)' = AtHop2(d) /\ At2(d)' = At2(d) /\ (Open(d)' <=> Open(d))
        /\ Held(d, 1)' = 0 /\ In(d, 1)' = In(d, 1) /\ (cut = FALSE => Held(d, 1) = 0)
        /\ \A e \in Dirs : e # d => Untouched(e)
    BY <1>1, <1>2, <1>11, CopyEnds1Keeps DEF Dirs
  <2>3. CASE d = "in"
    <3>1. copy'[<<"in", 1>>] = "over"
      BY <1>1, <1>11, <2>3, CopyEndsEffect DEF Hops
    <3>2. Held("in", 1) \in Nat
      BY <1>1, Sums
    <3>3. CountedIn'
      BY <1>1, <1>3, <2>1, <2>2, <2>3, <3>1, <3>2 DEF CountedIn
    <3>4. Untouched("out")
      BY <1>1, <2>2, <2>3
    <3> QED BY <1>1, <2>1, <3>3, <3>4, CountedOutStays
  <2>4. CASE d = "out"
    <3>1. Untouched("in") /\ At3("out")' = At3("out")
      BY <1>1, <2>2, <2>4
    <3> QED BY <1>1, <2>1, <3>1, CountedInStays DEF CountedOut
  <2> QED BY <2>3, <2>4 DEF Dirs
<1>12. ASSUME NEW d \in Dirs, CopyEnds(d, 2) PROVE CountedOut' /\ CountedIn'
  <2>1. UNCHANGED <<cut, sent>> /\ Tally("in")' = Tally("in") /\ Tally("out")' = Tally("out")
    BY <1>12 DEF CopyEnds, ends, counts, Tally
  <2>2. /\ At3(d)' = At3(d) /\ AtHop2(d)' = At3(d) /\ AtHop2(d)' <= AtHop2(d) /\ ~ Open(d)'
        /\ Held(d, 1)' = Held(d, 1) /\ In(d, 1)' = In(d, 1) /\ (cut = FALSE => At2(d)' = At2(d))
        /\ \A e \in Dirs : e # d => Untouched(e)
    BY <1>1, <1>2, <1>12, CopyEnds2Keeps DEF Dirs
  <2>3. CASE d = "in"
    <3>1. copy'[<<"in", 1>>] = copy[<<"in", 1>>]
      <4>1. \A e \in Dirs, g \in Hops : e # d \/ g # 2 => copy'[<<e, g>>] = copy[<<e, g>>] /\ hold'[<<e, g>>] = hold[<<e, g>>]
        BY <1>1, <1>12, CopyEndsEffect DEF Hops
      <4>2. 1 \in Hops /\ 1 # 2
        BY DEF Hops
      <4> QED BY <1>1, <4>1, <4>2
    <3>2. At3("in") \in Int
      BY <1>1, Sums
    <3>3. CountedIn'
      BY <1>1, <1>3, <2>1, <2>2, <2>3, <3>1, <3>2 DEF CountedIn
    <3>4. Untouched("out")
      BY <1>1, <2>2, <2>3
    <3> QED BY <1>1, <2>1, <3>3, <3>4, CountedOutStays
  <2>4. CASE d = "out"
    <3>1. Untouched("in") /\ At3("out")' = At3("out")
      BY <1>1, <2>2, <2>4
    <3> QED BY <1>1, <2>1, <3>1, CountedInStays DEF CountedOut
  <2> QED BY <2>3, <2>4 DEF Dirs
<1>13. ASSUME HeaderFails \/ DialFails PROVE CountedOut' /\ CountedIn'
  <2>1. GiveUp /\ client \in {"header", "dial"}
    BY <1>13 DEF HeaderFails, DialFails
  <2>2. UNCHANGED <<copy, sent>> /\ Tally("in")' = Tally("in") /\ Tally("out")' = Tally("out")
    BY <2>1 DEF GiveUp, ends, counts, Tally
  <2>3. /\ ~ Open("in")' /\ cut' = TRUE /\ AtHop2("in")' = AtHop2("in")
        /\ Held("in", 1)' = Held("in", 1) /\ In("in", 1)' = In("in", 1) /\ Untouched("out")
    BY <1>1, <1>2, <2>1, GiveUpKeeps
  <2>4. CountedIn'
    BY <1>1, <2>2, <2>3 DEF CountedIn
  <2> QED BY <1>1, <2>2, <2>3, <2>4, CountedOutStays
<1>14. ASSUME OpenStream PROVE CountedOut' /\ CountedIn'
  <2>1. UNCHANGED <<sent, cut>> /\ Tally("in")' = Tally("in") /\ Tally("out")' = Tally("out") /\ server = "accepted"
    BY <1>14 DEF OpenStream, ends, counts, Tally
  <2>2. copy[<<"in", 1>>] = "none"
    BY <1>1, <2>1 DEF Stages
  <2>3. /\ Open("in") /\ Open("in")' /\ AtHop2("in")' = AtHop2("in")
        /\ At2("in")' = At2("in") /\ Held("in", 1)' = Held("in", 1) /\ In("in", 1)' = In("in", 1) /\ Untouched("out")
    BY <1>1, <1>2, <1>14, OpenStreamKeeps
  <2>4. CountedIn'
    BY <1>1, <2>1, <2>2, <2>3 DEF CountedIn
  <2> QED BY <1>1, <2>1, <2>3, <2>4, CountedOutStays
<1>15. ASSUME ReadHeader PROVE CountedOut' /\ CountedIn'
  <2>1. UNCHANGED <<sent, cut, copy>> /\ Tally("in")' = Tally("in") /\ Tally("out")' = Tally("out")
    BY <1>15 DEF ReadHeader, ends, counts, Tally
  <2>2. /\ Open("in") /\ Open("in")' /\ AtHop2("in")' = AtHop2("in")
        /\ At2("in")' = At2("in") /\ Held("in", 1)' = Held("in", 1) /\ In("in", 1)' = In("in", 1) /\ Untouched("out")
    BY <1>1, <1>2, <1>15, ReadHeaderKeeps
  <2>3. CountedIn'
    BY <1>1, <2>1, <2>2 DEF CountedIn
  <2> QED BY <1>1, <2>1, <2>2, <2>3, CountedOutStays
<1>16. ASSUME Dial \/ ClientEnds PROVE CountedOut' /\ CountedIn'
  <2>1. Tally("in")' = Tally("in") /\ Tally("out")' = Tally("out")
    BY <1>16 DEF Dial, ClientEnds, counts, Tally
  <2> QED BY <1>1, <1>4, <1>16, <2>1, DialUntouched, ClientEndsUntouched
<1>17. ASSUME Quiet PROVE CountedOut' /\ CountedIn'
  <2>1. Tally("in")' = Tally("in") /\ Tally("out")' = Tally("out")
    BY <1>1, <1>17 DEF Quiet
  <2> QED BY <1>1, <1>4, <1>17, <2>1, QuietUntouched
<1>18. (\A d \in Dirs : Finish(d) \/ Leave(d) \/ SeeEnd(d) \/ Count(d) => Quiet) /\ (SessionLost \/ CloseTimeout \/ OpenFails \/ ServerEnds => Quiet)
  BY <1>1, QuietSteps
<1> QED BY <1>5, <1>6, <1>7, <1>8, <1>9, <1>10, <1>11, <1>12, <1>13, <1>14, <1>15, <1>16, <1>17,
           <1>18
           DEF Next, Programs, Opening, Piping, Hops

-----------------------------------------------------------------------------
(* Stages, idle goroutines, cuts and ends *)

\* The four hops by name.
LEMMA HopNames ==
  /\ AllHops = {<<"in", 1>>, <<"out", 2>>, <<"in", 2>>, <<"out", 1>>}
  /\ \A d \in Dirs, h \in Hops : <<d, h>> \in AllHops
BY DEF AllHops, ServerHops, ClientHops, Dirs, Hops

\* Handlers and goroutines start and end together.
LEMMA StagesStep ==
  ASSUME RelayInv, Next
  PROVE  Stages'
<1>1. TypeOK /\ Stages
  BY DEF RelayInv
<1>2. ASSUME UNCHANGED <<server, client, copy>>, cut = TRUE => cut' = TRUE PROVE Stages'
  BY <1>1, <1>2 DEF Stages
<1>3. ASSUME Programs PROVE Stages'
  <2>1. UNCHANGED <<server, client, copy>> /\ (cut = TRUE => cut' = TRUE)
    BY <1>3 DEF Programs, Send, Finish, Leave, Receive, SeeEnd, stages
  <2> QED BY <1>2, <2>1
<1>4. ASSUME SessionLost \/ CloseTimeout PROVE Stages'
  <2>1. UNCHANGED <<server, client, copy>> /\ (cut = TRUE => cut' = TRUE)
    BY <1>4 DEF SessionLost, CloseTimeout, stages
  <2> QED BY <1>2, <2>1
<1>5. ASSUME NEW d \in Dirs, NEW h \in Hops, Read(d, h) \/ Write(d, h) PROVE Stages'
  <2>1. UNCHANGED <<server, client, copy>> /\ (cut = TRUE => cut' = TRUE)
    BY <1>5 DEF Read, Write, stages
  <2> QED BY <1>2, <2>1
<1>6. ASSUME NEW d \in Dirs, NEW h \in Hops, CopyEnds(d, h) PROVE Stages'
  <2>1. UNCHANGED <<server, client, cut>> /\ copy[<<d, h>>] = "running" /\ copy' = [copy EXCEPT ![<<d, h>>] = "over"]
    BY <1>6 DEF CopyEnds, Copying, stages
  <2>2. copy'[<<d, h>>] = "over" /\ \A x \in AllHops : x # <<d, h>> => copy'[x] = copy[x]
    BY <1>1, <2>1, HopNames DEF TypeOK
  <2>3. \A x \in AllHops : copy'[x] = copy[x] \/ (copy[x] = "running" /\ copy'[x] = "over")
    BY <2>1, <2>2
  <2>4. /\ copy'[<<"in", 1>>] = copy[<<"in", 1>>] \/ (copy[<<"in", 1>>] = "running" /\ copy'[<<"in", 1>>] = "over")
        /\ copy'[<<"in", 2>>] = copy[<<"in", 2>>] \/ (copy[<<"in", 2>>] = "running" /\ copy'[<<"in", 2>>] = "over")
        /\ copy'[<<"out", 1>>] = copy[<<"out", 1>>] \/ (copy[<<"out", 1>>] = "running" /\ copy'[<<"out", 1>>] = "over")
        /\ copy'[<<"out", 2>>] = copy[<<"out", 2>>] \/ (copy[<<"out", 2>>] = "running" /\ copy'[<<"out", 2>>] = "over")
    BY <2>3, HopNames
  <2> QED BY <1>1, <2>1, <2>4 DEF Stages
<1>7. ASSUME ServerEnds \/ ClientEnds \/ OpenFails \/ HeaderFails \/ DialFails \/ ReadHeader PROVE Stages'
  <2>1. CASE ServerEnds
    <3>1. copy[<<"in", 1>>] = "over" /\ copy[<<"out", 2>>] = "over"
      BY <2>1 DEF ServerEnds, Over, ServerHops
    <3> QED BY <1>1, <2>1, <3>1 DEF ServerEnds, Stages
  <2>2. CASE ClientEnds
    <3>1. copy[<<"in", 2>>] = "over" /\ copy[<<"out", 1>>] = "over"
      BY <2>2 DEF ClientEnds, Over, ClientHops
    <3> QED BY <1>1, <2>2, <3>1 DEF ClientEnds, Stages
  <2>3. CASE OpenFails
    BY <1>1, <2>3 DEF OpenFails, Stages
  <2>4. CASE HeaderFails \/ DialFails
    BY <1>1, <2>4 DEF HeaderFails, DialFails, GiveUp, Stages
  <2>5. CASE ReadHeader
    <3>1. server # "accepted"
      BY <2>5 DEF RelayInv, Fresh, ReadHeader
    <3>2. client = "header" /\ client' = "dial" /\ UNCHANGED <<server, copy, cut>>
      BY <2>5 DEF ReadHeader
    <3> QED BY <1>1, <3>1, <3>2 DEF Stages
  <2> QED BY <1>7, <2>1, <2>2, <2>3, <2>4, <2>5
<1>8. ASSUME OpenStream PROVE Stages'
  <2>1. server = "accepted" /\ server' = "pipe" /\ client' = client /\ cut' = cut
    BY <1>8 DEF OpenStream
  <2>2. /\ copy'[<<"in", 1>>] = "running" /\ copy'[<<"out", 2>>] = "running"
        /\ copy'[<<"in", 2>>] = copy[<<"in", 2>>] /\ copy'[<<"out", 1>>] = copy[<<"out", 1>>]
    BY <1>1, <1>8, OpenStreamEffect
  <2> QED BY <1>1, <2>1, <2>2 DEF Stages
<1>9. ASSUME Dial PROVE Stages'
  <2>1. client = "dial" /\ client' = "pipe" /\ server' = server /\ cut' = cut
    BY <1>9 DEF Dial
  <2>2. /\ copy'[<<"in", 2>>] = "running" /\ copy'[<<"out", 1>>] = "running"
        /\ copy'[<<"in", 1>>] = copy[<<"in", 1>>] /\ copy'[<<"out", 2>>] = copy[<<"out", 2>>]
    BY <1>9, DialEffect
  <2> QED BY <1>1, <2>1, <2>2 DEF Stages
<1>10. ASSUME NEW d \in Dirs, Count(d) PROVE Stages'
  <2>1. UNCHANGED <<server, client, copy>> /\ (cut = TRUE => cut' = TRUE)
    BY <1>10 DEF Count, stages
  <2> QED BY <1>2, <2>1
<1> QED BY <1>3, <1>4, <1>5, <1>6, <1>7, <1>8, <1>9, <1>10 DEF Next, Opening, Piping

\* As long as there is no stream, no byte has passed hop 1.
LEMMA FreshStep ==
  ASSUME RelayInv, Next
  PROVE  Fresh'
<1>1. TypeOK /\ Stages /\ Fresh /\ "in" \in Dirs
  BY DEF RelayInv, Dirs
<1>2. SUFFICES ASSUME server' = "accepted"
               PROVE  /\ got'["in"] = <<>> /\ chan'["in"][3] = <<>> /\ chan'["in"][2] = <<>>
                      /\ ahead' = <<>> /\ hold'[<<"in", 2>>] = <<>>
  BY DEF Fresh
<1>3. server = "accepted"
  BY <1>2
     DEF Next, Programs, Opening, Piping, Send, Finish, Leave, Receive, SeeEnd, OpenFails,
         OpenStream, HeaderFails,
     GiveUp, ReadHeader, DialFails, Dial, ServerEnds, ClientEnds, Count, Read, Write, CopyEnds, SessionLost, CloseTimeout, stages
<1>4. /\ got["in"] = <<>> /\ chan["in"][3] = <<>> /\ chan["in"][2] = <<>> /\ ahead = <<>> /\ hold[<<"in", 2>>] = <<>>
      /\ client = "header" /\ copy[<<"in", 1>>] = "none" /\ copy[<<"out", 2>>] = "none"
      /\ copy[<<"in", 2>>] = "none" /\ copy[<<"out", 1>>] = "none"
  BY <1>1, <1>3 DEF Fresh, Stages
<1>5. \A d \in Dirs, h \in Hops : copy[<<d, h>>] = "none"
  BY <1>4 DEF Dirs, Hops
<1>6. ASSUME NEW d \in Dirs, Send(d)
      PROVE  chan'["in"][2] = chan["in"][2] /\ chan'["in"][3] = chan["in"][3]
  BY <1>1, <1>6, SendEffect
<1>7. ASSUME NEW d \in Dirs, Receive(d)
      PROVE  got'["in"] = got["in"] /\ chan'["in"] = chan["in"]
  <2>1. d # "in"
    BY <1>4, <1>7 DEF Receive
  <2> QED BY <1>1, <1>7, <2>1, ReceiveEffect
<1>8. CASE Programs
  BY <1>4, <1>6, <1>7, <1>8 DEF Programs, Send, Finish, Leave, Receive, SeeEnd, ends
<1>9. CASE SessionLost \/ CloseTimeout \/ Opening
  BY <1>2, <1>3, <1>4, <1>9
     DEF SessionLost, CloseTimeout, Opening, OpenFails, OpenStream, HeaderFails, GiveUp,
         ReadHeader, DialFails, Dial, ends
<1>10. CASE Piping
  BY <1>3, <1>4, <1>5, <1>10 DEF Piping, ServerEnds, ClientEnds, Count, Copying, Read, Write, CopyEnds, ends
<1> QED BY <1>8, <1>9, <1>10 DEF Next

\* Only a running goroutine reads, and it gives back what it holds when it ends.
LEMMA IdleStep ==
  ASSUME RelayInv, Next
  PROVE  Idle'
<1>1. TypeOK /\ Stages /\ Idle
  BY DEF RelayInv
<1>2. ASSUME UNCHANGED <<copy, hold>> PROVE Idle'
  BY <1>1, <1>2 DEF Idle
<1>3. ASSUME Programs \/ SessionLost \/ CloseTimeout \/ OpenFails \/ HeaderFails \/ DialFails \/ ReadHeader \/ ServerEnds \/ ClientEnds
      PROVE  Idle'
  <2>1. UNCHANGED <<copy, hold>>
    BY <1>3
       DEF Programs, Send, Finish, Leave, Receive, SeeEnd, SessionLost, CloseTimeout, OpenFails,
           HeaderFails, DialFails, GiveUp,
       ReadHeader, ServerEnds, ClientEnds
  <2> QED BY <1>2, <2>1
<1>4. ASSUME NEW d \in Dirs, NEW h \in Hops, Read(d, h) PROVE Idle'
  <2>1. copy' = copy /\ copy[<<d, h>>] = "running" /\ \E b : hold' = [hold EXCEPT ![<<d, h>>] = b]
    BY <1>4 DEF Read, Copying
  <2>2. \A x \in AllHops : x # <<d, h>> => hold'[x] = hold[x]
    BY <1>1, <2>1 DEF TypeOK
  <2> QED BY <1>1, <2>1, <2>2 DEF Idle
<1>5. ASSUME NEW d \in Dirs, NEW h \in Hops, Write(d, h) PROVE Idle'
  <2>1. copy' = copy /\ hold' = [hold EXCEPT ![<<d, h>>] = <<>>]
    BY <1>5 DEF Write
  <2>2. \A x \in AllHops : hold'[x] = hold[x] \/ hold'[x] = <<>>
    BY <1>1, <2>1 DEF TypeOK
  <2> QED BY <1>1, <2>1, <2>2 DEF Idle
<1>6. ASSUME NEW d \in Dirs, NEW h \in Hops, CopyEnds(d, h) PROVE Idle'
  <2>1. copy' = [copy EXCEPT ![<<d, h>>] = "over"] /\ hold' = [hold EXCEPT ![<<d, h>>] = <<>>]
    BY <1>6 DEF CopyEnds
  <2>2. \A x \in AllHops : hold'[x] = <<>> \/ (hold'[x] = hold[x] /\ copy'[x] = copy[x])
    BY <1>1, <2>1 DEF TypeOK
  <2> QED BY <1>1, <2>2 DEF Idle
<1>7. ASSUME OpenStream \/ Dial PROVE Idle'
  <2>1. hold' = hold /\ \A x \in AllHops : copy'[x] = copy[x] \/ copy'[x] = "running"
    BY <1>7 DEF OpenStream, Dial, StartCopies
  <2> QED BY <1>1, <2>1 DEF Idle
<1>8. ASSUME NEW d \in Dirs, Count(d) PROVE Idle'
  BY <1>2, <1>8 DEF Count
<1> QED BY <1>3, <1>4, <1>5, <1>6, <1>7, <1>8 DEF Next, Opening, Piping

\* Whoever loses something cuts the connection, and a cut is never undone.
LEMMA CutKnownStep ==
  ASSUME RelayInv, Next
  PROVE  CutKnown' /\ (cut = TRUE => cut' = TRUE)
<1>1. CutKnown
  BY DEF RelayInv
<1>2. (cut' = TRUE \/ (dead' = dead /\ gone' = gone)) /\ (cut' = TRUE \/ cut' = cut)
  BY
     DEF Next, Programs, Opening, Piping, Send, Finish, Leave, Receive, SeeEnd, OpenFails,
         OpenStream, HeaderFails,
     GiveUp, ReadHeader, DialFails, Dial, ServerEnds, ClientEnds, Count, Read, Write, CopyEnds, SessionLost, CloseTimeout
<1> QED BY <1>1, <1>2 DEF CutKnown

\* What closeWrite does to the ends.
LEMMA CloseWriteEffect ==
  ASSUME TypeOK, NEW d \in Dirs, NEW g \in 1..3, CloseWrite(d, g)
  PROVE  /\ fin'[d][g] = TRUE
         /\ \A e \in Dirs, k \in 1..3 : (fin[e][k] => fin'[e][k]) /\ (e # d \/ k # g => fin'[e][k] = fin[e][k])
BY DEF CloseWrite, TypeOK

\* An end that was passed on in a step that leaves the direction's bytes alone.
LEMMA EndsLastStays ==
  ASSUME NEW e \in Dirs, EndsLast(e), chan'[e] = chan[e], Ahead(e)' = Ahead(e), fin'[e] = fin[e], eof'[e] = eof[e],
         copy'[<<e, 1>>] = copy[<<e, 1>>], copy'[<<e, 2>>] = copy[<<e, 2>>], server = "done" => server' = "done",
         cut' = FALSE => cut = FALSE
  PROVE  EndsLast(e)'
<1>1. \A h \in Hops : copy'[<<e, h>>] = copy[<<e, h>>]
  BY DEF Hops
<1> QED BY <1>1 DEF EndsLast

\* The parts of EndsLast, hop by hop.
LEMMA EndsLastParts ==
  ASSUME NEW e \in Dirs
  PROVE  EndsLast(e) <=>
           /\ eof[e] => fin[e][3] /\ chan[e][3] = <<>>
           /\ fin[e][3] => copy[<<e, 2>>] = "over" \/ (e = "out" /\ server = "done" /\ copy[<<e, 2>>] = "none")
           /\ cut = FALSE =>
                /\ copy[<<e, 1>>] = "over" => fin[e][1] /\ chan[e][1] = <<>>
                /\ copy[<<e, 2>>] = "over" => fin[e][2] /\ chan[e][2] = <<>> /\ Ahead(e) = <<>>
                /\ fin[e][2] => copy[<<e, 1>>] = "over"
                /\ fin[e][3] => copy[<<e, 2>>] = "over"
<1>1. Hops = {1, 2} /\ 1 + 1 = 2 /\ 2 + 1 = 3 /\ 1 # 2
  BY DEF Hops
<1> QED BY <1>1 DEF EndsLast

\* An end travels behind the last byte.
LEMMA EndsLastStep ==
  ASSUME RelayInv, Next, NEW e \in Dirs
  PROVE  EndsLast(e)'
<1> DEFINE P ==
      /\ eof'[e] => fin'[e][3] /\ chan'[e][3] = <<>>
      /\ fin'[e][3] => copy'[<<e, 2>>] = "over" \/ (e = "out" /\ server' = "done" /\ copy'[<<e, 2>>] = "none")
      /\ cut' = FALSE =>
           /\ copy'[<<e, 1>>] = "over" => fin'[e][1] /\ chan'[e][1] = <<>>
           /\ copy'[<<e, 2>>] = "over" => fin'[e][2] /\ chan'[e][2] = <<>> /\ Ahead(e)' = <<>>
           /\ fin'[e][2] => copy'[<<e, 1>>] = "over"
           /\ fin'[e][3] => copy'[<<e, 2>>] = "over"
<1>1. TypeOK /\ Stages /\ CutKnown /\ EndsLast(e)
  BY DEF RelayInv
<1>2. /\ eof[e] => fin[e][3] /\ chan[e][3] = <<>>
      /\ fin[e][3] => copy[<<e, 2>>] = "over" \/ (e = "out" /\ server = "done" /\ copy[<<e, 2>>] = "none")
      /\ cut = FALSE =>
           /\ copy[<<e, 1>>] = "over" => fin[e][1] /\ chan[e][1] = <<>>
           /\ copy[<<e, 2>>] = "over" => fin[e][2] /\ chan[e][2] = <<>> /\ Ahead(e) = <<>>
           /\ fin[e][2] => copy[<<e, 1>>] = "over"
           /\ fin[e][3] => copy[<<e, 2>>] = "over"
  BY <1>1, EndsLastParts
<1>3. P => EndsLast(e)'
  <2>1. Hops = {1, 2} /\ 1 + 1 = 2 /\ 2 + 1 = 3 /\ 1 # 2
    BY DEF Hops
  <2> QED BY <2>1 DEF EndsLast
<1>4. ASSUME NEW d \in Dirs, Send(d) PROVE EndsLast(e)'
  <2>1. UNCHANGED <<fin, eof, ahead, copy, server, cut>> /\ ~ fin[d][1]
    BY <1>4 DEF Send, stages
  <2>2. chan'[d][2] = chan[d][2] /\ chan'[d][3] = chan[d][3] /\ (e # d => chan'[e] = chan[e])
    BY <1>1, <1>4, SendEffect
  <2>3. Ahead(e)' = Ahead(e)
    BY <2>1 DEF Ahead
  <2>4. P
    BY <1>2, <2>1, <2>2, <2>3
  <2> QED BY <1>3, <2>4
<1>5. ASSUME NEW d \in Dirs, Finish(d) \/ Leave(d) PROVE EndsLast(e)'
  <2>1. UNCHANGED <<chan, eof, ahead, copy, server>> /\ (cut' = FALSE => cut = FALSE) /\ CloseWrite(d, 1)
    BY <1>5 DEF Finish, Leave, ends, stages
  <2>2. fin'[e][2] = fin[e][2] /\ fin'[e][3] = fin[e][3] /\ (fin[e][1] => fin'[e][1])
    <3>1. fin' = [fin EXCEPT ![d][1] = TRUE] /\ fin \in [Dirs -> [1..3 -> BOOLEAN]]
      BY <1>1, <2>1 DEF CloseWrite, TypeOK
    <3> QED BY <3>1
  <2>3. Ahead(e)' = Ahead(e)
    BY <2>1 DEF Ahead
  <2>4. P
    BY <1>2, <2>1, <2>2, <2>3
  <2> QED BY <1>3, <2>4
<1>6. ASSUME NEW d \in Dirs, Receive(d) PROVE EndsLast(e)'
  <2>1. UNCHANGED <<fin, eof, ahead, copy, server, cut>> /\ chan[d][3] # <<>>
    BY <1>6 DEF Receive, stages
  <2>2. chan'[d][1] = chan[d][1] /\ chan'[d][2] = chan[d][2] /\ (e # d => chan'[e] = chan[e])
    BY <1>1, <1>6, ReceiveEffect
  <2>3. Ahead(e)' = Ahead(e)
    BY <2>1 DEF Ahead
  <2>4. P
    BY <1>2, <2>1, <2>2, <2>3
  <2> QED BY <1>3, <2>4
<1>7. ASSUME NEW d \in Dirs, SeeEnd(d) PROVE EndsLast(e)'
  <2>1. UNCHANGED <<chan, fin, ahead, copy, server, cut>> /\ chan[d][3] = <<>> /\ fin[d][3]
    BY <1>7 DEF SeeEnd, stages
  <2>2. e # d => eof'[e] = eof[e]
    BY <1>1, <1>7 DEF SeeEnd, TypeOK
  <2>3. Ahead(e)' = Ahead(e)
    BY <2>1 DEF Ahead
  <2>4. P
    BY <1>2, <2>1, <2>2, <2>3
  <2> QED BY <1>3, <2>4
<1>8. ASSUME SessionLost \/ CloseTimeout \/ ServerEnds \/ ClientEnds PROVE EndsLast(e)'
  <2>1. UNCHANGED <<chan, fin, eof, ahead, copy>> /\ (cut' = FALSE => cut = FALSE) /\ (server = "done" => server' = "done")
    BY <1>8 DEF SessionLost, CloseTimeout, ServerEnds, ClientEnds, ends, stages
  <2>2. Ahead(e)' = Ahead(e)
    BY <2>1 DEF Ahead
  <2> QED BY <1>1, <2>1, <2>2, EndsLastStays
<1>9. ASSUME OpenFails PROVE EndsLast(e)'
  <2>1. UNCHANGED <<chan, eof, ahead, copy>> /\ cut' = TRUE /\ server = "accepted" /\ server' = "done" /\ CloseWrite("out", 3)
    BY <1>9 DEF OpenFails, ends
  <2>2. fin'[e][3] = fin[e][3] \/ e = "out"
    BY <1>1, <2>1, CloseWriteEffect DEF Dirs
  <2>3. fin[e][3] => fin'[e][3]
    BY <1>1, <2>1, CloseWriteEffect DEF Dirs
  <2>4. copy[<<"out", 2>>] = "none"
    BY <1>1, <2>1 DEF Stages
  <2>5. P
    BY <1>2, <2>1, <2>2, <2>3, <2>4
  <2> QED BY <1>3, <2>5
<1>10. ASSUME HeaderFails \/ DialFails PROVE EndsLast(e)'
  <2>1. UNCHANGED <<chan, eof, ahead, copy, server>> /\ cut' = TRUE /\ CloseWrite("out", 2)
    BY <1>10 DEF HeaderFails, DialFails, GiveUp, ends
  <2>2. fin'[e][3] = fin[e][3]
    BY <1>1, <2>1, CloseWriteEffect DEF Dirs
  <2>3. P
    BY <1>2, <2>1, <2>2
  <2> QED BY <1>3, <2>3
<1>11. ASSUME OpenStream PROVE EndsLast(e)'
  <2>1. UNCHANGED <<fin, eof, ahead, cut>> /\ server = "accepted"
    BY <1>11 DEF OpenStream, ends
  <2>2. copy[<<"in", 1>>] = "none" /\ copy[<<"out", 2>>] = "none" /\ copy[<<"in", 2>>] = "none" /\ copy[<<"out", 1>>] = "none"
    BY <1>1, <2>1 DEF Stages
  <2>3. /\ copy'[<<"in", 1>>] = "running" /\ copy'[<<"out", 2>>] = "running" /\ copy'[<<"in", 2>>] = "none" /\ copy'[<<"out", 1>>] = "none"
        /\ chan'["in"][3] = chan["in"][3] /\ chan'["out"] = chan["out"]
    BY <1>1, <1>11, <2>2, OpenStreamEffect
  <2>4. CASE e = "in"
    <3>1. P
      BY <1>2, <2>1, <2>2, <2>3, <2>4
    <3> QED BY <1>3, <3>1
  <2>5. CASE e = "out"
    <3>1. P
      BY <1>2, <2>1, <2>2, <2>3, <2>5
    <3> QED BY <1>3, <3>1
  <2> QED BY <2>4, <2>5 DEF Dirs
<1>12. ASSUME ReadHeader PROVE EndsLast(e)'
  <2>1. UNCHANGED <<fin, eof, copy, cut, server>> /\ client = "header"
    BY <1>12 DEF ReadHeader, ends
  <2>2. copy[<<"in", 2>>] = "none"
    BY <1>1, <2>1 DEF Stages
  <2>3. chan'["in"][1] = chan["in"][1] /\ chan'["in"][3] = chan["in"][3] /\ chan'["out"] = chan["out"]
    BY <1>1, <1>12, ReadHeaderEffect
  <2>4. CASE e = "in"
    <3>1. P
      BY <1>2, <2>1, <2>2, <2>3, <2>4
    <3> QED BY <1>3, <3>1
  <2>5. CASE e = "out"
    <3>1. Ahead(e)' = Ahead(e)
      BY <2>5 DEF Ahead
    <3>2. P
      BY <1>2, <2>1, <2>3, <2>5, <3>1
    <3> QED BY <1>3, <3>2
  <2> QED BY <2>4, <2>5 DEF Dirs
<1>13. ASSUME Dial PROVE EndsLast(e)'
  <2>1. UNCHANGED <<chan, fin, eof, ahead, cut, server>> /\ client = "dial"
    BY <1>13 DEF Dial, ends
  <2>2. copy[<<"in", 2>>] = "none" /\ copy[<<"out", 1>>] = "none"
    BY <1>1, <2>1 DEF Stages
  <2>3. /\ copy'[<<"in", 2>>] = "running" /\ copy'[<<"out", 1>>] = "running"
        /\ copy'[<<"in", 1>>] = copy[<<"in", 1>>] /\ copy'[<<"out", 2>>] = copy[<<"out", 2>>]
    BY <1>13, DialEffect
  <2>4. Ahead(e)' = Ahead(e)
    BY <2>1 DEF Ahead
  <2>5. CASE e = "in"
    <3>1. P
      BY <1>2, <2>1, <2>2, <2>3, <2>4, <2>5
    <3> QED BY <1>3, <3>1
  <2>6. CASE e = "out"
    <3>1. P
      BY <1>2, <2>1, <2>2, <2>3, <2>4, <2>6
    <3> QED BY <1>3, <3>1
  <2> QED BY <2>5, <2>6 DEF Dirs
<1>14. ASSUME NEW d \in Dirs, NEW h \in Hops, Read(d, h) PROVE EndsLast(e)'
  <2>1. UNCHANGED <<fin, eof, copy, cut, server>> /\ copy[<<d, h>>] = "running"
    BY <1>14 DEF Read, Copying, ends, stages
  <2>2. CASE h = 1
    <3>1. chan'[d][2] = chan[d][2] /\ chan'[d][3] = chan[d][3] /\ ahead' = ahead /\ (e # d => chan'[e] = chan[e])
      BY <1>1, <1>14, <2>2, Read1Effect
    <3>2. Ahead(e)' = Ahead(e)
      BY <3>1 DEF Ahead
    <3>3. P
      BY <1>2, <2>1, <2>2, <3>1, <3>2
    <3> QED BY <1>3, <3>3
  <2>3. CASE h = 2 /\ ~ Buffered(d, 2)
    <3>1. chan'[d][1] = chan[d][1] /\ chan'[d][3] = chan[d][3] /\ ahead' = ahead /\ (e # d => chan'[e] = chan[e])
      BY <1>1, <1>14, <2>3, Read2Effect
    <3>2. Ahead(e)' = Ahead(e)
      BY <3>1 DEF Ahead
    <3>3. P
      BY <1>2, <2>1, <2>3, <3>1, <3>2
    <3> QED BY <1>3, <3>3
  <2>4. CASE h = 2 /\ Buffered(d, 2)
    <3>1. d = "in" /\ chan' = chan
      BY <1>1, <1>14, <2>4, ReadAheadEffect
    <3>2. e # d => Ahead(e)' = Ahead(e)
      BY <3>1 DEF Ahead
    <3>3. P
      BY <1>2, <2>1, <2>4, <3>1, <3>2
    <3> QED BY <1>3, <3>3
  <2> QED BY <2>2, <2>3, <2>4 DEF Hops
<1>15. ASSUME NEW d \in Dirs, NEW h \in Hops, Write(d, h) PROVE EndsLast(e)'
  <2>1. UNCHANGED <<fin, eof, ahead, copy, cut, server>> /\ copy[<<d, h>>] = "running"
    BY <1>15 DEF Write, Copying, ends, stages
  <2>2. Ahead(e)' = Ahead(e)
    BY <2>1 DEF Ahead
  <2>3. CASE h = 1
    <3>1. chan'[d][1] = chan[d][1] /\ chan'[d][3] = chan[d][3] /\ (e # d => chan'[e] = chan[e])
      BY <1>1, <1>15, <2>3, Write1Effect
    <3>2. P
      BY <1>2, <2>1, <2>2, <2>3, <3>1
    <3> QED BY <1>3, <3>2
  <2>4. CASE h = 2
    <3>1. chan'[d][1] = chan[d][1] /\ chan'[d][2] = chan[d][2] /\ (e # d => chan'[e] = chan[e])
      BY <1>1, <1>15, <2>4, Write2Effect
    <3>2. P
      BY <1>2, <2>1, <2>2, <2>4, <3>1
    <3> QED BY <1>3, <3>2
  <2> QED BY <2>3, <2>4 DEF Hops
<1>16. ASSUME NEW d \in Dirs, NEW h \in Hops, CopyEnds(d, h) PROVE EndsLast(e)'
  <2>1. UNCHANGED <<chan, eof, ahead, cut, server>> /\ copy[<<d, h>>] = "running" /\ CloseWrite(d, h + 1)
    BY <1>16 DEF CopyEnds, Copying, ends, stages
  <2>2. Ahead(e)' = Ahead(e)
    BY <2>1 DEF Ahead
  <2>3. cut = FALSE => chan[d][h] = <<>> /\ fin[d][h] /\ ~ Buffered(d, h)
    BY <1>1, <1>16, UncutReturns
  <2>4. copy'[<<d, h>>] = "over"
    BY <1>1, <1>16, CopyEndsEffect
  <2>5. \A x \in Dirs, g \in Hops : x # d \/ g # h => copy'[<<x, g>>] = copy[<<x, g>>] /\ hold'[<<x, g>>] = hold[<<x, g>>]
    BY <1>1, <1>16, CopyEndsEffect
  <2>6. h + 1 \in 1..3 /\ 1 \in Hops /\ 2 \in Hops
    BY DEF Hops
  <2>7. \A x \in Dirs, k \in 1..3 : (fin[x][k] => fin'[x][k]) /\ (x # d \/ k # h + 1 => fin'[x][k] = fin[x][k])
    BY <1>1, <2>1, <2>6, CloseWriteEffect
  <2>8. fin'[d][h + 1] = TRUE
    BY <1>1, <2>1, <2>6, CloseWriteEffect
  <2>9. (fin[e][1] => fin'[e][1]) /\ (fin[e][2] => fin'[e][2]) /\ (fin[e][3] => fin'[e][3])
    BY <2>7
  <2>10. CASE e # d
    <3>1. fin'[e][1] = fin[e][1] /\ fin'[e][2] = fin[e][2] /\ fin'[e][3] = fin[e][3]
      BY <2>7, <2>10
    <3>2. copy'[<<e, 1>>] = copy[<<e, 1>>] /\ copy'[<<e, 2>>] = copy[<<e, 2>>]
      BY <2>5, <2>6, <2>10
    <3>3. P
      BY <1>2, <2>1, <2>2, <3>1, <3>2
    <3> QED BY <1>3, <3>3
  <2>11. CASE e = d /\ h = 1
    <3>1. copy'[<<e, 1>>] = "over" /\ copy'[<<e, 2>>] = copy[<<e, 2>>] /\ fin'[e][3] = fin[e][3]
      BY <2>4, <2>5, <2>6, <2>7, <2>11
    <3>2. P
      BY <1>2, <2>1, <2>2, <2>3, <2>9, <2>11, <3>1
    <3> QED BY <1>3, <3>2
  <2>12. CASE e = d /\ h = 2
    <3>1. copy'[<<e, 2>>] = "over" /\ copy'[<<e, 1>>] = copy[<<e, 1>>] /\ fin'[e][2] = fin[e][2] /\ fin'[e][3]
      BY <2>4, <2>5, <2>6, <2>7, <2>8, <2>12
    <3>2. cut = FALSE => Ahead(e) = <<>>
      BY <2>3, <2>12 DEF Buffered, Ahead
    <3>3. P
      BY <1>2, <2>1, <2>2, <2>3, <2>9, <2>12, <3>1, <3>2
    <3> QED BY <1>3, <3>3
  <2> QED BY <2>10, <2>11, <2>12 DEF Hops
<1>17. ASSUME NEW d \in Dirs, Count(d) PROVE EndsLast(e)'
  <2>1. UNCHANGED <<chan, fin, eof, ahead, copy, server, cut>>
    BY <1>17 DEF Count, ends, stages
  <2>2. Ahead(e)' = Ahead(e)
    BY <2>1 DEF Ahead
  <2> QED BY <1>1, <2>1, <2>2, EndsLastStays
<1> QED BY <1>4, <1>5, <1>6, <1>7, <1>8, <1>9, <1>10, <1>11, <1>12, <1>13, <1>14, <1>15, <1>16, <1>17
           DEF Next, Programs, Opening, Piping

\* Only a running hop of the server writes, and it ends when it has counted.
LEMMA SettledStep ==
  ASSUME RelayInv, Next
  PROVE  Settled'
<1>1. TypeOK /\ Stages /\ Settled /\ "in" \in Dirs /\ "out" \in Dirs
  BY DEF RelayInv, Dirs
<1>2. ASSUME UNCHANGED <<copy, due>> PROVE Settled'
  BY <1>1, <1>2 DEF Settled
<1>3. ASSUME Programs \/ SessionLost \/ CloseTimeout \/ OpenFails \/ HeaderFails \/ DialFails \/ ReadHeader \/ ServerEnds \/ ClientEnds
      PROVE  Settled'
  <2>1. UNCHANGED <<copy, due>>
    BY <1>3
       DEF Programs, Send, Finish, Leave, Receive, SeeEnd, SessionLost, CloseTimeout, OpenFails,
           HeaderFails, DialFails, GiveUp, ReadHeader, ServerEnds, ClientEnds, counts
  <2> QED BY <1>2, <2>1
<1>4. ASSUME NEW d \in Dirs, NEW h \in Hops, Read(d, h) PROVE Settled'
  BY <1>2, <1>4 DEF Read, counts
<1>5. ASSUME NEW d \in Dirs, NEW h \in Hops, Write(d, h) PROVE Settled'
  <2>1. copy' = copy /\ copy[<<d, h>>] = "running" /\ due' = IF <<d, h>> \in ServerHops THEN [due EXCEPT ![d] = 1] ELSE due
    BY <1>5 DEF Write, Copying
  <2>2. CASE <<d, h>> \in ServerHops
    <3>1. \A e \in Dirs : e # d => due'[e] = due[e]
      BY <1>1, <2>1, <2>2 DEF TypeOK
    <3>2. d = "in" => copy'[<<"in", 1>>] = "running"
      BY <2>1, <2>2 DEF ServerHops
    <3>3. d = "out" => copy'[<<"out", 2>>] = "running"
      BY <2>1, <2>2 DEF ServerHops
    <3>4. d = "in" \/ d = "out"
      BY DEF Dirs
    <3> QED BY <1>1, <2>1, <3>1, <3>2, <3>3, <3>4 DEF Settled
  <2>3. CASE <<d, h>> \notin ServerHops
    BY <1>2, <2>1, <2>3
  <2> QED BY <2>2, <2>3
<1>6. ASSUME NEW d \in Dirs, NEW h \in Hops, CopyEnds(d, h) PROVE Settled'
  <2>1. due' = due /\ copy' = [copy EXCEPT ![<<d, h>>] = "over"] /\ (<<d, h>> \in ServerHops => due[d] = 0)
    BY <1>6 DEF CopyEnds, Copying, counts
  <2>2. \A x \in AllHops : x # <<d, h>> => copy'[x] = copy[x]
    BY <1>1, <2>1 DEF TypeOK
  <2>3. <<"in", 1>> \in AllHops /\ <<"out", 2>> \in AllHops /\ <<"in", 1>> \in ServerHops /\ <<"out", 2>> \in ServerHops
    BY DEF AllHops, ServerHops
  <2>4. copy'[<<"in", 1>>] = copy[<<"in", 1>>] \/ due["in"] = 0
    BY <2>1, <2>2, <2>3
  <2>5. copy'[<<"out", 2>>] = copy[<<"out", 2>>] \/ due["out"] = 0
    BY <2>1, <2>2, <2>3
  <2> QED BY <1>1, <2>1, <2>4, <2>5 DEF Settled
<1>7. ASSUME NEW d \in Dirs, Count(d) PROVE Settled'
  <2>1. copy' = copy /\ \A e \in Dirs : due'[e] = due[e] \/ due'[e] = 0
    BY <1>1, <1>7 DEF Count, TypeOK
  <2> QED BY <1>1, <2>1 DEF Settled
<1>8. ASSUME OpenStream \/ Dial PROVE Settled'
  <2>1. due' = due /\ \A x \in AllHops : copy'[x] = copy[x] \/ copy'[x] = "running"
    BY <1>8 DEF OpenStream, Dial, StartCopies, counts
  <2>2. <<"in", 1>> \in AllHops /\ <<"out", 2>> \in AllHops
    BY DEF AllHops, ServerHops
  <2> QED BY <1>1, <2>1, <2>2 DEF Settled
<1> QED BY <1>3, <1>4, <1>5, <1>6, <1>7, <1>8 DEF Next, Opening, Piping

-----------------------------------------------------------------------------
(* Types *)

\* The types and the capacity of the channels.
ChanOK(c) ==
  /\ c \in [Dirs -> [1..3 -> Seq(0..MaxBytes)]]
  /\ \A d \in Dirs, h \in 1..3 : Len(c[d][h]) <= Cap

\* A channel may be replaced by a sequence that fits into it.
LEMMA ChanPut ==
  ASSUME TypeOK, NEW d \in Dirs, NEW h \in 1..3, NEW s \in Seq(0..MaxBytes), Len(s) <= Cap
  PROVE  ChanOK([chan EXCEPT ![d][h] = s])
<1> DEFINE c == [chan EXCEPT ![d][h] = s]
<1>1. c \in [Dirs -> [1..3 -> Seq(0..MaxBytes)]]
  BY DEF TypeOK
<1>2. ASSUME NEW e \in Dirs, NEW g \in 1..3 PROVE Len(c[e][g]) <= Cap
  <2>1. c[e][g] = chan[e][g] \/ c[e][g] = s
    BY DEF TypeOK
  <2>2. Len(chan[e][g]) <= Cap
    BY DEF TypeOK
  <2> QED BY <2>1, <2>2
<1> QED BY <1>1, <1>2 DEF ChanOK

\* What the operations on a sequence of bytes return.
LEMMA BytesStay ==
  ASSUME NEW S, NEW s \in Seq(S), s # <<>>
  PROVE  Tail(s) \in Seq(S) /\ Head(s) \in S /\ Len(Tail(s)) = Len(s) - 1 /\ Len(s) \in Nat
OBVIOUS

\* What the client's reader takes of the stream, and what it leaves.
LEMMA BytesPart ==
  ASSUME NEW S, NEW s \in Seq(S), NEW k \in 1..Len(s)
  PROVE  /\ SubSeq(s, 2, k) \in Seq(S) /\ SubSeq(s, k + 1, Len(s)) \in Seq(S)
         /\ Len(SubSeq(s, k + 1, Len(s))) <= Len(s)
<1>1. Len(s) \in Nat /\ \A i \in 1..Len(s) : s[i] \in S
  BY LenProperties, ElementOfSeq
<1>2. SubSeq(s, 2, k) \in Seq(S)
  BY <1>1, SubSeqProperties
<1>3. SubSeq(s, k + 1, Len(s)) \in Seq(S) /\ Len(SubSeq(s, k + 1, Len(s))) <= Len(s)
  BY <1>1, SubSeqProperties
<1> QED BY <1>2, <1>3

\* Bytes of a run that starts at or behind zero are bytes, not the header.
LEMMA RunOfBytes ==
  ASSUME NEW k \in Nat, NEW s \in Seq(0..MaxBytes), Run(s, k)
  PROVE  s \in Seq(1..MaxBytes)
<1>1. Len(s) \in Nat /\ s \in [1..Len(s) -> 0..MaxBytes]
  BY LenProperties
<1>2. \A i \in 1..Len(s) : s[i] \in 1..MaxBytes
  BY <1>1, RelayAssumption DEF Run
<1>3. SubSeq(s, 1, Len(s)) \in Seq(1..MaxBytes)
  BY <1>1, <1>2, SubSeqProperties
<1> QED BY <1>3, SubSeqFull

\* What is tallied was sent.
LEMMA TallySent ==
  ASSUME TypeOK, CountedOut, CountedIn, NEW d \in Dirs, Conserved("out")
  PROVE  Tally(d) <= sent[d]
<1>1. CASE d = "in"
  <2>1. Tally("in") \in Int /\ In("in", 1) \in Nat /\ Held("in", 1) \in Nat /\ sent["in"] \in Int
    BY <1>1, Numbers
  <2>2. Tally("in") + Held("in", 1) + In("in", 1) <= sent["in"]
    BY DEF CountedIn
  <2> QED BY <1>1, <2>1, <2>2
<1>2. CASE d = "out"
  <2>1. AtHop2("out") = At3("out") + Held("out", 2) /\ At3("out") \in Int /\ Held("out", 2) \in Nat /\ sent["out"] \in Int
    BY <1>2, Sums
  <2>2. AtHop2("out") <= sent["out"] /\ Tally("out") = At3("out")
    BY DEF Conserved, CountedOut
  <2> QED BY <1>2, <2>1, <2>2
<1> QED BY <1>1, <1>2 DEF Dirs

\* Every step keeps the types.
LEMMA TypeStep ==
  ASSUME RelayInv, Next
  PROVE  TypeOK'
<1>1. /\ TypeOK /\ Stages /\ Fresh /\ CutKnown /\ CountedOut /\ CountedIn /\ Settled /\ "in" \in Dirs /\ "out" \in Dirs
      /\ 1 \in 1..3 /\ 2 \in 1..3 /\ 3 \in 1..3
  BY DEF RelayInv, Dirs
<1>2. \A d \in Dirs : Ordered(d) /\ Conserved(d)
  BY DEF RelayInv
<1>3. /\ sent \in [Dirs -> 0..MaxBytes] /\ counted \in [Dirs -> 0..MaxBytes] /\ due \in [Dirs -> {0, 1}] /\ ChanOK(chan) /\ ahead \in Seq(1..MaxBytes)
      /\ fin \in [Dirs -> [1..3 -> BOOLEAN]] /\ hold \in [AllHops -> {<<>>} \cup {<<b>> : b \in 1..MaxBytes}]
      /\ copy \in [AllHops -> {"none", "running", "over"}]
      /\ server \in {"accepted", "pipe", "done"} /\ client \in {"header", "dial", "pipe", "done"}
      /\ gone \subseteq Dirs /\ dead \in BOOLEAN /\ cut \in BOOLEAN
      /\ got \in [Dirs -> Seq(1..MaxBytes)] /\ eof \in [Dirs -> BOOLEAN]
  BY <1>1 DEF TypeOK, ChanOK
<1>4. ASSUME sent' \in [Dirs -> 0..MaxBytes], counted' \in [Dirs -> 0..MaxBytes], due' \in [Dirs -> {0, 1}], ChanOK(chan'), ahead' \in Seq(1..MaxBytes),
             fin' \in [Dirs -> [1..3 -> BOOLEAN]], hold' \in [AllHops -> {<<>>} \cup {<<b>> : b \in 1..MaxBytes}],
             copy' \in [AllHops -> {"none", "running", "over"}],
             server' \in {"accepted", "pipe", "done"}, client' \in {"header", "dial", "pipe", "done"},
             gone' \subseteq Dirs, dead' \in BOOLEAN, cut' \in BOOLEAN,
             got' \in [Dirs -> Seq(1..MaxBytes)], eof' \in [Dirs -> BOOLEAN]
      PROVE  TypeOK'
  BY <1>4 DEF TypeOK, ChanOK
<1>5. \A d \in Dirs, h \in 1..3 : chan[d][h] \in Seq(0..MaxBytes) /\ Len(chan[d][h]) \in Nat /\ Len(chan[d][h]) <= Cap
  BY <1>3, LenProperties DEF ChanOK
<1>6. ASSUME NEW d \in Dirs, NEW g \in 1..3, CloseWrite(d, g) PROVE fin' \in [Dirs -> [1..3 -> BOOLEAN]]
  BY <1>3, <1>6 DEF CloseWrite
<1>7. ASSUME NEW d \in Dirs, Send(d) PROVE TypeOK'
  <2>1. UNCHANGED <<fin, ahead, hold, copy, counted, due, server, client, gone, dead, got, eof, cut>> /\ sent[d] < MaxBytes /\ Room(d, 1)
    BY <1>7 DEF Send, stages, counts
  <2>2. sent' = [sent EXCEPT ![d] = sent[d] + 1] /\ chan' = [chan EXCEPT ![d][1] = Append(chan[d][1], sent[d] + 1)]
    BY <1>7 DEF Send
  <2>3. sent[d] + 1 \in 0..MaxBytes
    BY <1>3, <2>1, RelayAssumption
  <2>4. sent' \in [Dirs -> 0..MaxBytes]
    BY <1>3, <2>2, <2>3
  <2>5. chan[d][1] \in Seq(0..MaxBytes) /\ Len(chan[d][1]) \in Nat /\ Len(chan[d][1]) < Cap
    BY <1>5, <2>1 DEF Room
  <2>6. Append(chan[d][1], sent[d] + 1) \in Seq(0..MaxBytes) /\ Len(Append(chan[d][1], sent[d] + 1)) = Len(chan[d][1]) + 1
    BY <2>3, <2>5, AppendProperties
  <2>7. Len(Append(chan[d][1], sent[d] + 1)) <= Cap
    BY <2>5, <2>6, RelayAssumption
  <2>8. ChanOK(chan')
    BY <1>1, <2>2, <2>6, <2>7, ChanPut
  <2> QED BY <1>3, <1>4, <2>1, <2>4, <2>8
<1>8. ASSUME NEW d \in Dirs, Finish(d) \/ Leave(d) PROVE TypeOK'
  <2>1. /\ UNCHANGED <<sent, got, eof, chan, ahead, hold, copy, counted, due, server, client, dead>> /\ CloseWrite(d, 1)
        /\ gone' \subseteq gone \cup {d} /\ (cut' = TRUE \/ cut' = cut)
    BY <1>8 DEF Finish, Leave, ends, stages, counts
  <2>2. fin' \in [Dirs -> [1..3 -> BOOLEAN]]
    BY <1>6, <2>1
  <2>3. gone' \subseteq Dirs /\ cut' \in BOOLEAN
    BY <1>3, <2>1
  <2> QED BY <1>3, <1>4, <2>1, <2>2, <2>3
<1>9. ASSUME NEW d \in Dirs, Receive(d) PROVE TypeOK'
  <2>1. UNCHANGED <<sent, eof, fin, ahead, hold, copy, counted, due, server, client, gone, dead, cut>> /\ chan[d][3] # <<>>
    BY <1>9 DEF Receive, stages, counts
  <2>2. got' = [got EXCEPT ![d] = Append(got[d], Head(chan[d][3]))] /\ chan' = [chan EXCEPT ![d][3] = Tail(chan[d][3])]
    BY <1>9 DEF Receive
  <2>3. chan[d][3] \in Seq(0..MaxBytes) /\ Len(chan[d][3]) \in Nat /\ Len(chan[d][3]) <= Cap
    BY <1>5
  <2>4. Tail(chan[d][3]) \in Seq(0..MaxBytes) /\ Head(chan[d][3]) \in 0..MaxBytes /\ Len(Tail(chan[d][3])) = Len(chan[d][3]) - 1
    BY <2>1, <2>3, BytesStay
  <2>5. Len(Tail(chan[d][3])) <= Cap
    BY <2>3, <2>4, RelayAssumption
  <2>6. ChanOK(chan')
    BY <1>1, <2>2, <2>4, <2>5, ChanPut
  <2>7. Head(chan[d][3]) = Got(d) + 1 /\ Got(d) \in Nat
    BY <1>1, <1>2, <1>9, ReceiveKeeps, Numbers
  <2>8. Head(chan[d][3]) \in 1..MaxBytes
    BY <2>4, <2>7
  <2>9. got' \in [Dirs -> Seq(1..MaxBytes)]
    <3>1. got[d] \in Seq(1..MaxBytes)
      BY <1>3
    <3>2. Append(got[d], Head(chan[d][3])) \in Seq(1..MaxBytes)
      BY <2>8, <3>1, AppendProperties
    <3> QED BY <1>3, <2>2, <3>2
  <2> QED BY <1>3, <1>4, <2>1, <2>6, <2>9
<1>10. ASSUME NEW d \in Dirs, SeeEnd(d) PROVE TypeOK'
  <2>1. UNCHANGED <<sent, got, chan, fin, ahead, hold, copy, counted, due, server, client, gone, dead, cut>> /\ eof' = [eof EXCEPT ![d] = TRUE]
    BY <1>10 DEF SeeEnd, stages, counts
  <2>2. eof' \in [Dirs -> BOOLEAN]
    BY <1>3, <2>1
  <2> QED BY <1>3, <1>4, <2>1, <2>2
<1>11. ASSUME SessionLost \/ CloseTimeout \/ ServerEnds \/ ClientEnds PROVE TypeOK'
  <2>1. /\ UNCHANGED <<sent, got, eof, chan, fin, ahead, hold, copy, counted, due, gone>>
        /\ server' \in {server, "done"} /\ client' \in {client, "done"} /\ dead' \in {dead, TRUE} /\ cut' \in {cut, TRUE}
    BY <1>11 DEF SessionLost, CloseTimeout, ServerEnds, ClientEnds, ends, stages, counts
  <2>2. server' \in {"accepted", "pipe", "done"} /\ client' \in {"header", "dial", "pipe", "done"} /\ dead' \in BOOLEAN /\ cut' \in BOOLEAN
    BY <1>3, <2>1
  <2> QED BY <1>3, <1>4, <2>1, <2>2
<1>12. ASSUME OpenFails \/ HeaderFails \/ DialFails PROVE TypeOK'
  <2>1. /\ UNCHANGED <<sent, got, eof, chan, ahead, hold, copy, counted, due, gone, dead>>
        /\ server' \in {server, "done"} /\ client' \in {client, "done"} /\ cut' = TRUE
        /\ CloseWrite("out", 3) \/ CloseWrite("out", 2)
    BY <1>12 DEF OpenFails, HeaderFails, DialFails, GiveUp, ends, counts
  <2>2. server' \in {"accepted", "pipe", "done"} /\ client' \in {"header", "dial", "pipe", "done"} /\ cut' \in BOOLEAN
    BY <1>3, <2>1
  <2>3. fin' \in [Dirs -> [1..3 -> BOOLEAN]]
    BY <1>1, <1>6, <2>1
  <2> QED BY <1>3, <1>4, <2>1, <2>2, <2>3
<1>13. ASSUME OpenStream PROVE TypeOK'
  <2>1. /\ UNCHANGED <<sent, got, eof, fin, ahead, hold, counted, due, client, gone, dead, cut>> /\ server' = "pipe"
        /\ chan' = [chan EXCEPT !["in"][2] = <<0>>]
        /\ copy' = [x \in AllHops |-> IF x \in ServerHops THEN "running" ELSE copy[x]]
    BY <1>13 DEF OpenStream, StartCopies, Header, ends, counts
  <2>2. <<0>> \in Seq(0..MaxBytes) /\ Len(<<0>>) <= Cap
    BY RelayAssumption
  <2>3. ChanOK(chan')
    BY <1>1, <2>1, <2>2, ChanPut
  <2>4. copy' \in [AllHops -> {"none", "running", "over"}]
    BY <1>3, <2>1
  <2> QED BY <1>3, <1>4, <2>1, <2>3, <2>4
<1>14. ASSUME ReadHeader PROVE TypeOK'
  <2>1. UNCHANGED <<sent, got, eof, fin, hold, copy, counted, due, server, gone, dead, cut>> /\ client' = "dial"
    BY <1>14 DEF ReadHeader, ends, counts
  <2>2. PICK k \in 1..Len(chan["in"][2]) :
             /\ ahead' = SubSeq(chan["in"][2], 2, k)
             /\ chan' = [chan EXCEPT !["in"][2] = SubSeq(chan["in"][2], k + 1, Len(chan["in"][2]))]
    BY <1>14 DEF ReadHeader
  <2>3. chan["in"][2] \in Seq(0..MaxBytes) /\ Len(chan["in"][2]) \in Nat /\ Len(chan["in"][2]) <= Cap
    BY <1>1, <1>5
  <2>4. /\ SubSeq(chan["in"][2], 2, k) \in Seq(0..MaxBytes)
        /\ SubSeq(chan["in"][2], k + 1, Len(chan["in"][2])) \in Seq(0..MaxBytes)
        /\ Len(SubSeq(chan["in"][2], k + 1, Len(chan["in"][2]))) <= Len(chan["in"][2])
    BY <2>3, BytesPart
  <2>5. Len(SubSeq(chan["in"][2], k + 1, Len(chan["in"][2]))) <= Cap
    <3>1. Len(SubSeq(chan["in"][2], k + 1, Len(chan["in"][2]))) \in Nat
      BY <2>4, LenProperties
    <3> QED BY <2>3, <2>4, <3>1, RelayAssumption
  <2>6. ChanOK(chan')
    BY <1>1, <2>2, <2>4, <2>5, ChanPut
  <2>7. Run(ahead', AtHop2("in")) /\ AtHop2("in") \in Nat
    BY <1>1, <1>2, <1>14, ReadHeaderKeeps, Numbers
  <2>8. ahead' \in Seq(1..MaxBytes)
    BY <2>2, <2>4, <2>7, RunOfBytes
  <2> QED BY <1>3, <1>4, <2>1, <2>6, <2>8
<1>15. ASSUME Dial PROVE TypeOK'
  <2>1. /\ UNCHANGED <<sent, got, eof, chan, fin, ahead, hold, counted, due, server, gone, dead, cut>> /\ client' = "pipe"
        /\ copy' = [x \in AllHops |-> IF x \in ClientHops THEN "running" ELSE copy[x]]
    BY <1>15 DEF Dial, StartCopies, ends, counts
  <2>2. copy' \in [AllHops -> {"none", "running", "over"}]
    BY <1>3, <2>1
  <2> QED BY <1>3, <1>4, <2>1, <2>2
<1>16. ASSUME NEW d \in Dirs, NEW h \in Hops, Read(d, h) PROVE TypeOK'
  <2>1. UNCHANGED <<sent, got, eof, fin, copy, counted, due, server, client, gone, dead, cut>> /\ h \in 1..3
    BY <1>16 DEF Read, ends, stages, counts, Hops
  <2>2. ASSUME NEW b \in 1..MaxBytes, hold' = [hold EXCEPT ![<<d, h>>] = <<b>>]
        PROVE  hold' \in [AllHops -> {<<>>} \cup {<<c>> : c \in 1..MaxBytes}]
    BY <1>3, <2>2
  <2>3. CASE ~ Buffered(d, h)
    <3>1. /\ chan[d][h] # <<>> /\ ahead' = ahead /\ chan' = [chan EXCEPT ![d][h] = Tail(chan[d][h])]
          /\ hold' = [hold EXCEPT ![<<d, h>>] = <<Head(chan[d][h])>>]
      BY <1>16, <2>3 DEF Read, Input
    <3>2. chan[d][h] \in Seq(0..MaxBytes) /\ Len(chan[d][h]) \in Nat /\ Len(chan[d][h]) <= Cap
      BY <1>5, <2>1
    <3>3. Tail(chan[d][h]) \in Seq(0..MaxBytes) /\ Head(chan[d][h]) \in 0..MaxBytes /\ Len(Tail(chan[d][h])) = Len(chan[d][h]) - 1
      BY <3>1, <3>2, BytesStay
    <3>4. Len(Tail(chan[d][h])) <= Cap
      BY <3>2, <3>3, RelayAssumption
    <3>5. ChanOK(chan')
      BY <1>1, <2>1, <3>1, <3>3, <3>4, ChanPut
    <3>6. Head(chan[d][h]) >= 1
      BY <1>1, <1>2, <1>16, <2>3, Read1Keeps, Read2Keeps DEF Hops
    <3>7. Head(chan[d][h]) \in 1..MaxBytes
      BY <3>3, <3>6
    <3>8. hold' \in [AllHops -> {<<>>} \cup {<<c>> : c \in 1..MaxBytes}]
      BY <2>2, <3>1, <3>7
    <3> QED BY <1>3, <1>4, <2>1, <3>1, <3>5, <3>8
  <2>4. CASE Buffered(d, h)
    <3>1. ahead # <<>> /\ ahead' = Tail(ahead) /\ chan' = chan /\ hold' = [hold EXCEPT ![<<d, h>>] = <<Head(ahead)>>]
      BY <1>16, <2>4 DEF Read, Input, Buffered
    <3>2. Tail(ahead) \in Seq(1..MaxBytes) /\ Head(ahead) \in 1..MaxBytes
      BY <1>3, <3>1, BytesStay
    <3>3. hold' \in [AllHops -> {<<>>} \cup {<<c>> : c \in 1..MaxBytes}]
      BY <2>2, <3>1, <3>2
    <3> QED BY <1>3, <1>4, <2>1, <3>1, <3>2, <3>3
  <2> QED BY <2>3, <2>4
<1>17. ASSUME NEW d \in Dirs, NEW h \in Hops, Write(d, h) PROVE TypeOK'
  <2>1. UNCHANGED <<sent, got, eof, fin, ahead, copy, counted, server, client, gone, dead, cut>> /\ h + 1 \in 1..3
    BY <1>17 DEF Write, ends, stages, counts, Hops
  <2>2. /\ hold[<<d, h>>] # <<>> /\ Room(d, h + 1) /\ hold' = [hold EXCEPT ![<<d, h>>] = <<>>]
        /\ chan' = [chan EXCEPT ![d][h + 1] = chan[d][h + 1] \o hold[<<d, h>>]]
        /\ due' = IF <<d, h>> \in ServerHops THEN [due EXCEPT ![d] = 1] ELSE due
    BY <1>17 DEF Write
  <2>3. hold' \in [AllHops -> {<<>>} \cup {<<c>> : c \in 1..MaxBytes}]
    BY <1>3, <2>2
  <2>4. PICK b \in 1..MaxBytes : hold[<<d, h>>] = <<b>>
    <3>1. <<d, h>> \in AllHops
      BY HopNames
    <3>2. hold[<<d, h>>] \in {<<>>} \cup {<<c>> : c \in 1..MaxBytes}
      BY <1>3, <3>1
    <3> QED BY <2>2, <3>2
  <2>5. chan[d][h + 1] \in Seq(0..MaxBytes) /\ Len(chan[d][h + 1]) \in Nat /\ Len(chan[d][h + 1]) < Cap
    BY <1>5, <2>1, <2>2 DEF Room
  <2>6. b \in 0..MaxBytes
    BY <2>4
  <2>7. chan[d][h + 1] \o <<b>> = Append(chan[d][h + 1], b)
    BY <2>5, <2>6, AppendIsConcat
  <2>8. Append(chan[d][h + 1], b) \in Seq(0..MaxBytes) /\ Len(Append(chan[d][h + 1], b)) = Len(chan[d][h + 1]) + 1
    BY <2>5, <2>6, AppendProperties
  <2>9. Len(Append(chan[d][h + 1], b)) <= Cap
    BY <2>5, <2>8, RelayAssumption
  <2>10. ChanOK(chan')
    BY <1>1, <2>1, <2>2, <2>4, <2>7, <2>8, <2>9, ChanPut
  <2>11. due' \in [Dirs -> {0, 1}]
    BY <1>3, <2>2
  <2> QED BY <1>3, <1>4, <2>1, <2>3, <2>10, <2>11
<1>18. ASSUME NEW d \in Dirs, NEW h \in Hops, CopyEnds(d, h) PROVE TypeOK'
  <2>1. /\ UNCHANGED <<sent, got, eof, chan, ahead, counted, due, server, client, gone, dead, cut>> /\ h + 1 \in 1..3 /\ CloseWrite(d, h + 1)
        /\ copy' = [copy EXCEPT ![<<d, h>>] = "over"] /\ hold' = [hold EXCEPT ![<<d, h>>] = <<>>]
    BY <1>18 DEF CopyEnds, ends, stages, counts, Hops
  <2>2. hold' \in [AllHops -> {<<>>} \cup {<<c>> : c \in 1..MaxBytes}] /\ copy' \in [AllHops -> {"none", "running", "over"}]
    BY <1>3, <2>1
  <2>3. fin' \in [Dirs -> [1..3 -> BOOLEAN]]
    BY <1>6, <2>1
  <2> QED BY <1>3, <1>4, <2>1, <2>2, <2>3
<1>19. ASSUME NEW d \in Dirs, Count(d) PROVE TypeOK'
  <2>1. /\ UNCHANGED <<sent, got, eof, chan, fin, ahead, hold, copy, server, client, gone, dead, cut>>
        /\ counted' = [counted EXCEPT ![d] = counted[d] + due[d]] /\ due' = [due EXCEPT ![d] = 0]
    BY <1>19 DEF Count, ends, stages, counts
  <2>2. due' \in [Dirs -> {0, 1}]
    BY <1>3, <2>1
  <2>3. Tally(d) <= sent[d]
    BY <1>1, <1>2, TallySent DEF Dirs
  <2>4. counted[d] + due[d] \in 0..MaxBytes
    <3>1. sent[d] \in 0..MaxBytes /\ counted[d] \in 0..MaxBytes /\ due[d] \in {0, 1}
      BY <1>3
    <3> QED BY <2>3, <3>1, RelayAssumption DEF Tally
  <2>5. counted' \in [Dirs -> 0..MaxBytes]
    BY <1>3, <2>1, <2>4
  <2> QED BY <1>3, <1>4, <2>1, <2>2, <2>5
<1> QED BY <1>7, <1>8, <1>9, <1>10, <1>11, <1>12, <1>13, <1>14, <1>15, <1>16, <1>17, <1>18, <1>19
           DEF Next, Programs, Opening, Piping

-----------------------------------------------------------------------------
(* The theorems *)

\* An accepted connection: nothing has happened.
LEMMA RelayInit == Init => RelayInv
<1> SUFFICES ASSUME Init PROVE RelayInv
  OBVIOUS
<1>1. 0 \in 0..MaxBytes /\ <<>> \in Seq(0..MaxBytes) /\ <<>> \in Seq(1..MaxBytes) /\ 0 <= Cap
  BY RelayAssumption
<1>2. \A d \in Dirs, h \in 1..3 : chan[d][h] = <<>> /\ fin[d][h] = FALSE
  BY DEF Init
<1>3. TypeOK
  <2>1. \A d \in Dirs, h \in 1..3 : Len(chan[d][h]) <= Cap
    BY <1>1, <1>2, LenSmall
  <2>2. chan \in [Dirs -> [1..3 -> Seq(0..MaxBytes)]] /\ fin \in [Dirs -> [1..3 -> BOOLEAN]]
    BY <1>1 DEF Init
  <2>3. /\ sent \in [Dirs -> 0..MaxBytes] /\ counted \in [Dirs -> 0..MaxBytes] /\ due \in [Dirs -> {0, 1}] /\ ahead \in Seq(1..MaxBytes)
        /\ hold \in [AllHops -> {<<>>} \cup {<<b>> : b \in 1..MaxBytes}]
        /\ copy \in [AllHops -> {"none", "running", "over"}]
        /\ server \in {"accepted", "pipe", "done"} /\ client \in {"header", "dial", "pipe", "done"}
        /\ gone \subseteq Dirs /\ {dead, cut} \subseteq BOOLEAN
        /\ got \in [Dirs -> Seq(1..MaxBytes)] /\ eof \in [Dirs -> BOOLEAN]
    BY <1>1 DEF Init
  <2> QED BY <2>1, <2>2, <2>3 DEF TypeOK
<1>4. "in" \in Dirs /\ "out" \in Dirs
  BY DEF Dirs
<1>5. \A d \in Dirs, h \in Hops : hold[<<d, h>>] = <<>> /\ copy[<<d, h>>] = "none"
  BY HopNames DEF Init
<1>6. /\ hold[<<"in", 1>>] = <<>> /\ hold[<<"in", 2>>] = <<>> /\ hold[<<"out", 1>>] = <<>> /\ hold[<<"out", 2>>] = <<>>
      /\ copy[<<"in", 1>>] = "none" /\ copy[<<"in", 2>>] = "none" /\ copy[<<"out", 1>>] = "none" /\ copy[<<"out", 2>>] = "none"
  BY <1>4, <1>5 DEF Hops
<1>7. Stages
  BY <1>6 DEF Init, Stages
<1>8. Fresh
  BY <1>2, <1>4, <1>6 DEF Init, Fresh
<1>9. Idle /\ CutKnown
  BY DEF Init, Idle, CutKnown
<1>10. ASSUME NEW d \in Dirs
       PROVE  /\ Got(d) = 0 /\ In(d, 1) = 0 /\ In(d, 2) = 0 /\ In(d, 3) = 0 /\ Held(d, 1) = 0 /\ Held(d, 2) = 0 /\ Kept(d) = 0
              /\ Hdr(d) = 0 /\ sent[d] = 0 /\ Ahead(d) = <<>>
  <2>1. chan[d][1] = <<>> /\ chan[d][2] = <<>> /\ chan[d][3] = <<>> /\ hold[<<d, 1>>] = <<>> /\ hold[<<d, 2>>] = <<>>
    BY <1>2, <1>5 DEF Hops
  <2>2. got[d] = <<>> /\ Ahead(d) = <<>> /\ sent[d] = 0 /\ Hdr(d) = 0
    BY <1>6 DEF Init, Ahead, Hdr
  <2> QED BY <2>1, <2>2, LenSmall DEF Got, In, Held, Kept
<1>11. ASSUME NEW d \in Dirs
       PROVE  At3(d) = 0 /\ AtHop2(d) = 0 /\ AtReader(d) = 0 /\ At2(d) = 0 /\ AtHop1(d) = 0 /\ At1(d) = 0
  BY <1>10 DEF At3, AtHop2, AtReader, At2, AtHop1, At1
<1>12. CountedOut /\ CountedIn
  <2>1. Tally("in") = 0 /\ Tally("out") = 0
    BY <1>4 DEF Init, Tally
  <2> QED BY <1>4, <1>10, <1>11, <2>1 DEF CountedOut, CountedIn
<1>14. Settled
  BY <1>4 DEF Init, Settled
<1>13. ASSUME NEW d \in Dirs PROVE Ordered(d) /\ Conserved(d) /\ EndsLast(d)
  <2>1. Run(<<>>, 0)
    BY RunEmpty
  <2>2. chan[d][1] = <<>> /\ chan[d][2] = <<>> /\ chan[d][3] = <<>> /\ hold[<<d, 1>>] = <<>> /\ hold[<<d, 2>>] = <<>>
    BY <1>2, <1>5 DEF Hops
  <2>3. Ordered(d)
    <3>1. AtReader(d) - Hdr(d) = 0 /\ sent[d] - In(d, 1) = 0
      BY <1>10, <1>11
    <3> QED BY <1>10, <1>11, <2>1, <2>2, <3>1 DEF Ordered
  <2>4. Conserved(d)
    BY <1>10, <1>11 DEF Conserved
  <2>5. EndsLast(d)
    <3>1. eof[d] = FALSE /\ fin[d][3] = FALSE
      BY <1>2 DEF Init
    <3>2. \A h \in Hops : copy[<<d, h>>] = "none" /\ fin[d][h + 1] = FALSE
      <4>1. \A h \in Hops : h + 1 \in 1..3
        BY DEF Hops
      <4> QED BY <1>2, <1>5, <4>1
    <3> QED BY <3>1, <3>2 DEF EndsLast
  <2> QED BY <2>3, <2>4, <2>5
<1> QED BY <1>3, <1>7, <1>8, <1>9, <1>12, <1>13, <1>14 DEF RelayInv

\* Every step keeps the invariant.
LEMMA RelayStep == RelayInv /\ [Next]_vars => RelayInv'
<1> SUFFICES ASSUME RelayInv, [Next]_vars PROVE RelayInv'
  OBVIOUS
<1>1. CASE Next
  <2>1. \A d \in Dirs : Ordered(d)' /\ Conserved(d)' /\ EndsLast(d)'
    BY <1>1, OrderedStep, EndsLastStep
  <2> QED BY <1>1, <2>1, TypeStep, StagesStep, FreshStep, IdleStep, CutKnownStep, CountedStep, SettledStep
             DEF RelayInv
<1>2. CASE UNCHANGED vars
  <2>1. UNCHANGED <<sent, chan, fin, ahead, hold, copy, counted, due, server, client, gone, dead, got, eof, cut>>
    BY <1>2 DEF vars
  <2>2. TypeOK' /\ Stages' /\ Fresh' /\ Idle' /\ CutKnown' /\ Settled'
    BY <2>1 DEF RelayInv, TypeOK, Stages, Fresh, Idle, CutKnown, Settled
  <2>3. /\ \A e \in Dirs : Untouched(e)
        /\ "in" \in Dirs /\ "out" \in Dirs
    BY <2>1 DEF Untouched, Ahead, Hdr, Open, Dirs
  <2>4. \A e \in Dirs : Ordered(e)' /\ Conserved(e)'
    BY <2>3, UntouchedStays DEF RelayInv
  <2>5. CountedOut' /\ CountedIn'
    BY <2>1, <2>3, CountedInStays, CountedOutStays DEF RelayInv, Tally
  <2>6. \A e \in Dirs : EndsLast(e)'
    <3>1. ASSUME NEW e \in Dirs PROVE EndsLast(e)'
      <4>1. EndsLast(e) /\ Ahead(e)' = Ahead(e)
        BY <2>1 DEF RelayInv, Ahead
      <4> QED BY <2>1, <4>1, EndsLastStays
    <3> QED BY <3>1
  <2> QED BY <2>2, <2>4, <2>5, <2>6 DEF RelayInv
<1> QED BY <1>1, <1>2

\* The invariant holds in every behaviour.
LEMMA RelayInvariant == Spec => []RelayInv
BY RelayInit, RelayStep, PTL DEF Spec

\* Bytes stay numbers of bytes and channels keep to their capacity: the header
\* is read by the client's reader only and never held, received or forwarded.
THEOREM RelayTypeCorrect == Spec => []TypeOK
<1>1. RelayInv => TypeOK
  BY DEF RelayInv
<1> QED BY <1>1, RelayInvariant, PTL

\* When the end of a direction has come to the receiver and nothing was cut,
\* all that was sent has come before it.
LEMMA EndMeansAll ==
  ASSUME RelayInv, NEW d \in Dirs, cut = FALSE, copy[<<d, 2>>] = "over"
  PROVE  fin[d][1] /\ At3(d) = sent[d]
<1>1. TypeOK /\ Stages /\ Idle /\ Conserved(d) /\ EndsLast(d)
  BY DEF RelayInv
<1>2. fin[d][2] /\ chan[d][2] = <<>> /\ Ahead(d) = <<>>
  BY <1>1, EndsLastParts
<1>3. copy[<<d, 1>>] = "over"
  BY <1>1, <1>2, EndsLastParts
<1>4. fin[d][1] /\ chan[d][1] = <<>>
  BY <1>1, <1>3, EndsLastParts
<1>5. <<d, 1>> \in AllHops /\ <<d, 2>> \in AllHops
  BY HopNames DEF Hops
<1>6. hold[<<d, 1>>] = <<>> /\ hold[<<d, 2>>] = <<>>
  BY <1>1, <1>3, <1>5 DEF Idle
<1>7. In(d, 1) = 0 /\ In(d, 2) = 0 /\ Kept(d) = 0 /\ Held(d, 1) = 0 /\ Held(d, 2) = 0
  BY <1>2, <1>4, <1>6, LenSmall DEF In, Kept, Held
<1>8. Hdr(d) = 0
  BY <1>1, NoHeader
<1>9. /\ AtHop2(d) = At3(d) + Held(d, 2) /\ AtReader(d) = AtHop2(d) + Kept(d) /\ At2(d) = AtReader(d) + In(d, 2) - Hdr(d)
      /\ AtHop1(d) = At2(d) + Held(d, 1) /\ At1(d) = AtHop1(d) + In(d, 1) /\ At3(d) \in Int
  BY <1>1, Sums
<1>10. At1(d) = At3(d)
  BY <1>7, <1>8, <1>9
<1>11. At1(d) = sent[d]
  BY <1>1 DEF Conserved
<1> QED BY <1>4, <1>10, <1>11

\* The forward's counters never show more than was sent and lag behind what has
\* arrived by the write in progress at most; none is in progress once handleTCP
\* has returned, and then they are exact unless the connection was cut.
THEOREM CountsAlwaysTell == Spec => []CountsTell
<1>1. ASSUME RelayInv PROVE CountsTell
  <2>1. TypeOK /\ Stages /\ Idle /\ CountedOut /\ CountedIn /\ Settled /\ "in" \in Dirs /\ "out" \in Dirs
    BY <1>1 DEF RelayInv, Dirs
  <2>2. Conserved("in") /\ Conserved("out") /\ EndsLast("in") /\ EndsLast("out")
    BY <1>1, <2>1 DEF RelayInv
  <2>3. /\ At3("in") = Got("in") + In("in", 3) /\ AtHop2("in") = At3("in") + Held("in", 2)
        /\ Got("in") \in Int /\ In("in", 3) \in Nat /\ Held("in", 2) \in Nat /\ Held("in", 1) \in Nat /\ In("in", 1) \in Nat
        /\ At3("in") \in Int /\ AtHop2("in") \in Int /\ sent["in"] \in Int
    BY <2>1, Sums
  <2>4. /\ At3("out") = Got("out") + In("out", 3) /\ AtHop2("out") = At3("out") + Held("out", 2)
        /\ Got("out") \in Int /\ In("out", 3) \in Nat /\ Held("out", 2) \in Nat
        /\ At3("out") \in Int /\ AtHop2("out") \in Int /\ sent["out"] \in Int
    BY <2>1, Sums
  <2>5. Tally("in") \in Int /\ Tally("out") \in Int
    BY <2>1, Numbers
  <2>6. cut \in BOOLEAN
    BY <2>1 DEF TypeOK
  <2>7. Got("in") <= Tally("in") /\ Tally("in") <= sent["in"]
    BY <2>1, <2>3, <2>5 DEF CountedIn
  <2>8. Got("out") <= Tally("out") /\ Tally("out") <= sent["out"]
    BY <2>1, <2>2, <2>4, <2>5 DEF CountedOut, Conserved
  <2>9. ASSUME server = "done", ~ cut PROVE Tally("in") = sent["in"] /\ Tally("out") = sent["out"]
    <3>1. cut = FALSE
      BY <2>6, <2>9
    <3>2. copy[<<"in", 1>>] = "over" /\ copy[<<"out", 2>>] = "over"
      <4>1. copy[<<"in", 1>>] = copy[<<"out", 2>>] /\ copy[<<"in", 1>>] # "running" /\ copy[<<"in", 1>>] # "none"
        BY <2>1, <2>9, <3>1 DEF Stages
      <4>2. copy[<<"in", 1>>] \in {"none", "running", "over"}
        BY <2>1, HopNames DEF TypeOK
      <4> QED BY <4>1, <4>2
    <3>3. chan["in"][1] = <<>>
      BY <2>1, <2>2, <3>1, <3>2, EndsLastParts
    <3>4. hold[<<"in", 1>>] = <<>>
      BY <2>1, <3>2, HopNames DEF Idle
    <3>5. Held("in", 1) = 0 /\ In("in", 1) = 0
      BY <3>3, <3>4, LenSmall DEF Held, In
    <3>6. Tally("in") = sent["in"]
      BY <2>1, <2>3, <2>5, <3>1, <3>5 DEF CountedIn
    <3>7. Tally("out") = sent["out"]
      BY <1>1, <2>1, <3>1, <3>2, EndMeansAll DEF CountedOut
    <3> QED BY <3>6, <3>7
  <2>10. \A d \in Dirs : counted[d] \in Nat /\ due[d] \in {0, 1} /\ Tally(d) = counted[d] + due[d]
    BY <2>1, RelayAssumption DEF TypeOK, Tally
  <2>11. ASSUME server = "done" PROVE due["in"] = 0 /\ due["out"] = 0
    BY <2>1, <2>11 DEF Stages, Settled
  <2>12. ASSUME NEW d \in Dirs
         PROVE  /\ Got(d) <= counted[d] + due[d] /\ counted[d] <= sent[d]
                /\ server = "done" => Got(d) <= counted[d]
                /\ server = "done" /\ ~ cut => counted[d] = sent[d]
    <3>1. Got(d) <= Tally(d) /\ Tally(d) <= sent[d] /\ (server = "done" /\ ~ cut => Tally(d) = sent[d])
      BY <2>7, <2>8, <2>9 DEF Dirs
    <3>2. server = "done" => due[d] = 0
      BY <2>11 DEF Dirs
    <3>3. sent[d] \in Int /\ Got(d) \in Int
      BY <2>3, <2>4 DEF Dirs
    <3> QED BY <2>10, <3>1, <3>2, <3>3
  <2> QED BY <2>12 DEF CountsTell, Got
<1> QED BY <1>1, RelayInvariant, PTL

\* The first link of each direction, as the abstract connection sees it.
FirstFin == [d \in Dirs |-> fin[d][1]]

\* A step that the programs at the ends do not see.
LEMMA Unseen ==
  ASSUME UNCHANGED <<sent, got, eof, cut>>, FirstFin' = FirstFin
  PROVE  UNCHANGED D!vars
BY DEF D!vars, FirstFin

\* A step that cuts the connection, and one that does so again.
LEMMA CutStep ==
  ASSUME TypeOK, UNCHANGED <<sent, got, eof>>, cut' = TRUE, FirstFin' = FirstFin
  PROVE  [D!Next]_(D!vars)
<1>1. CASE cut = TRUE
  BY <1>1, Unseen
<1>2. CASE cut = FALSE
  <2>1. FirstFin' = [d \in Dirs |-> FirstFin[d] \/ d \in {}]
    <3>1. FirstFin \in [Dirs -> BOOLEAN]
      BY DEF FirstFin, TypeOK
    <3>2. FirstFin = [d \in Dirs |-> FirstFin[d] \/ d \in {}]
      BY <3>1
    <3> QED BY <3>2
  <2>2. \E S \in SUBSET Dirs : FirstFin' = [d \in Dirs |-> FirstFin[d] \/ d \in S]
    <3> WITNESS {} \in SUBSET Dirs
    <3> QED BY <2>1
  <2>3. D!Cut
    BY <1>2, <2>2 DEF D!Cut, FirstFin
  <2> QED BY <2>3 DEF D!Next
<1> QED BY <1>1, <1>2 DEF TypeOK

\* closeWrite on another link than the first one.
LEMMA FirstFinStays ==
  ASSUME TypeOK, NEW d \in Dirs, NEW g \in {2, 3}, CloseWrite(d, g)
  PROVE  FirstFin' = FirstFin
<1>1. fin' = [fin EXCEPT ![d][g] = TRUE] /\ fin \in [Dirs -> [1..3 -> BOOLEAN]] /\ g \in 1..3 /\ g # 1
  BY DEF CloseWrite, TypeOK
<1>2. fin'[d] = [fin[d] EXCEPT ![g] = TRUE] /\ \A e \in Dirs : e # d => fin'[e] = fin[e]
  BY <1>1
<1>3. fin'[d][1] = fin[d][1]
  <2>1. 1 \in 1..3 /\ fin[d] \in [1..3 -> BOOLEAN]
    BY <1>1
  <2> QED BY <1>1, <1>2, <2>1
<1>4. \A e \in Dirs : fin'[e][1] = fin[e][1]
  BY <1>2, <1>3
<1> QED BY <1>4 DEF FirstFin

\* closeWrite of the program at the start of a direction.
LEMMA FirstFinSet ==
  ASSUME TypeOK, NEW d \in Dirs, CloseWrite(d, 1)
  PROVE  FirstFin' = [FirstFin EXCEPT ![d] = TRUE] /\ FirstFin' = [e \in Dirs |-> FirstFin[e] \/ e \in {d}]
<1>1. fin'[d][1] = TRUE /\ \A e \in Dirs : e # d => fin'[e][1] = fin[e][1]
  BY DEF CloseWrite, TypeOK
<1>2. \A e \in Dirs : fin[e][1] \in BOOLEAN
  BY DEF TypeOK
<1> QED BY <1>1, <1>2 DEF FirstFin

\* Every step of the relay is a step of the connection or unseen.
LEMMA RelaySimulates ==
  ASSUME RelayInv, Next
  PROVE  [D!Next]_(D!vars)
<1>1. TypeOK /\ "in" \in Dirs /\ "out" \in Dirs
  BY DEF RelayInv, Dirs
<1>2. cut \in BOOLEAN
  BY <1>1 DEF TypeOK
<1>3. ASSUME NEW d \in Dirs, Send(d) PROVE [D!Next]_(D!vars)
  <2>1. UNCHANGED <<fin, got, eof, cut>> /\ ~ fin[d][1] /\ sent' = [sent EXCEPT ![d] = sent[d] + 1]
    BY <1>3 DEF Send
  <2>2. D!Send(d)
    BY <2>1 DEF D!Send
  <2> QED BY <2>2 DEF D!Next
<1>4. ASSUME NEW d \in Dirs, Finish(d) PROVE [D!Next]_(D!vars)
  <2>1. UNCHANGED <<sent, got, eof, cut>> /\ CloseWrite(d, 1)
    BY <1>4 DEF Finish, ends
  <2>2. FirstFin' = [FirstFin EXCEPT ![d] = TRUE]
    BY <1>1, <2>1, FirstFinSet
  <2>3. D!Finish(d)
    BY <2>1, <2>2 DEF D!Finish, FirstFin
  <2> QED BY <2>3 DEF D!Next
<1>5. ASSUME NEW d \in Dirs, Leave(d) PROVE [D!Next]_(D!vars)
  <2>1. UNCHANGED <<sent, got, eof>> /\ cut' = TRUE /\ CloseWrite(d, 1)
    BY <1>5 DEF Leave, ends
  <2>2. FirstFin' = [FirstFin EXCEPT ![d] = TRUE] /\ FirstFin' = [e \in Dirs |-> FirstFin[e] \/ e \in {d}]
    BY <1>1, <2>1, FirstFinSet
  <2>3. CASE cut = FALSE
    <3>1. \E S \in SUBSET Dirs : FirstFin' = [e \in Dirs |-> FirstFin[e] \/ e \in S]
      BY <2>2
    <3>2. D!Cut
      BY <2>1, <2>3, <3>1 DEF D!Cut, FirstFin
    <3> QED BY <3>2 DEF D!Next
  <2>4. CASE cut = TRUE
    <3>1. D!Finish(d)
      BY <2>1, <2>2, <2>4 DEF D!Finish, FirstFin
    <3> QED BY <3>1 DEF D!Next
  <2> QED BY <1>2, <2>3, <2>4
<1>6. ASSUME NEW d \in Dirs, Receive(d) PROVE [D!Next]_(D!vars)
  <2>1. UNCHANGED <<sent, fin, eof, cut>> /\ chan[d][3] # <<>> /\ got' = [got EXCEPT ![d] = Append(got[d], Head(chan[d][3]))]
    BY <1>6 DEF Receive
  <2>2. Ordered(d) /\ Conserved(d) /\ EndsLast(d)
    BY DEF RelayInv
  <2>3. Head(chan[d][3]) = Got(d) + 1
    BY <1>1, <1>6, <2>2, ReceiveKeeps
  <2>4. ~ eof[d]
    BY <2>1, <2>2 DEF EndsLast
  <2>5. chan[d][3] \in Seq(Int)
    BY <1>1, Types
  <2>6. In(d, 3) >= 1
    BY <2>1, <2>5, LenFacts DEF In
  <2>7. /\ At3(d) = Got(d) + In(d, 3) /\ AtHop2(d) = At3(d) + Held(d, 2) /\ Got(d) \in Int /\ In(d, 3) \in Nat
        /\ Held(d, 2) \in Nat /\ sent[d] \in Int
    BY <1>1, Sums
  <2>8. AtHop2(d) <= sent[d]
    BY <2>2 DEF Conserved
  <2>9. Got(d) < sent[d]
    BY <2>6, <2>7, <2>8
  <2>10. D!Deliver(d)
    BY <2>1, <2>3, <2>4, <2>9 DEF D!Deliver, Got
  <2> QED BY <2>10 DEF D!Next
<1>7. ASSUME NEW d \in Dirs, SeeEnd(d) PROVE [D!Next]_(D!vars)
  <2>1. /\ UNCHANGED <<sent, fin, got, cut>> /\ chan[d][3] = <<>> /\ fin[d][3] /\ ~ eof[d] /\ eof' = [eof EXCEPT ![d] = TRUE]
    BY <1>7 DEF SeeEnd
  <2>2. EndsLast(d)
    BY DEF RelayInv
  <2>3. cut = FALSE => fin[d][1] /\ At3(d) = sent[d]
    BY <2>1, <2>2, EndsLastParts, EndMeansAll
  <2>4. At3(d) = Got(d) + In(d, 3) /\ Got(d) \in Int
    BY <1>1, Sums
  <2>5. In(d, 3) = 0
    BY <2>1, LenSmall DEF In
  <2>6. At3(d) = Got(d)
    BY <2>4, <2>5
  <2>7. cut = TRUE \/ (fin[d][1] /\ Len(got[d]) = sent[d])
    BY <1>2, <2>3, <2>6 DEF Got
  <2>8. D!End(d)
    BY <2>1, <2>7 DEF D!End
  <2> QED BY <2>8 DEF D!Next
<1>8. ASSUME SessionLost \/ CloseTimeout PROVE [D!Next]_(D!vars)
  <2>1. UNCHANGED <<sent, got, eof, fin>> /\ cut' = TRUE
    BY <1>8 DEF SessionLost, CloseTimeout, ends
  <2>2. FirstFin' = FirstFin
    BY <2>1 DEF FirstFin
  <2> QED BY <1>1, <2>1, <2>2, CutStep
<1>9. ASSUME OpenFails \/ HeaderFails \/ DialFails PROVE [D!Next]_(D!vars)
  <2>1. UNCHANGED <<sent, got, eof>> /\ cut' = TRUE /\ (CloseWrite("out", 3) \/ CloseWrite("out", 2))
    BY <1>9 DEF OpenFails, HeaderFails, DialFails, GiveUp, ends
  <2>2. FirstFin' = FirstFin
    BY <1>1, <2>1, FirstFinStays
  <2> QED BY <1>1, <2>1, <2>2, CutStep
<1>10. ASSUME OpenStream \/ ReadHeader \/ Dial \/ ServerEnds \/ ClientEnds PROVE [D!Next]_(D!vars)
  <2>1. UNCHANGED <<sent, got, eof, cut, fin>>
    BY <1>10 DEF OpenStream, ReadHeader, Dial, ServerEnds, ClientEnds, ends
  <2>2. FirstFin' = FirstFin
    BY <2>1 DEF FirstFin
  <2> QED BY <2>1, <2>2, Unseen
<1>11. ASSUME NEW d \in Dirs, NEW h \in Hops, Read(d, h) \/ Write(d, h) PROVE [D!Next]_(D!vars)
  <2>1. UNCHANGED <<sent, got, eof, cut, fin>>
    BY <1>11 DEF Read, Write, ends
  <2>2. FirstFin' = FirstFin
    BY <2>1 DEF FirstFin
  <2> QED BY <2>1, <2>2, Unseen
<1>12. ASSUME NEW d \in Dirs, NEW h \in Hops, CopyEnds(d, h) PROVE [D!Next]_(D!vars)
  <2>1. UNCHANGED <<sent, got, eof, cut>> /\ CloseWrite(d, h + 1) /\ h + 1 \in {2, 3}
    BY <1>12 DEF CopyEnds, ends, Hops
  <2>2. FirstFin' = FirstFin
    BY <1>1, <2>1, FirstFinStays
  <2> QED BY <2>1, <2>2, Unseen
<1>13. ASSUME NEW d \in Dirs, Count(d) PROVE [D!Next]_(D!vars)
  <2>1. UNCHANGED <<sent, got, eof, cut, fin>>
    BY <1>13 DEF Count, ends
  <2>2. FirstFin' = FirstFin
    BY <2>1 DEF FirstFin
  <2> QED BY <2>1, <2>2, Unseen
<1> QED BY <1>3, <1>4, <1>5, <1>6, <1>7, <1>8, <1>9, <1>10, <1>11, <1>12, <1>13
           DEF Next, Programs, Opening, Piping

\* The chain of three connections, the header, the client's buffered reader,
\* four goroutines and all the ways to give up: to the two programs it is one
\* connection, for channels of any capacity and any number of bytes.
THEOREM RelayImplementsDuplex == Spec => Implements
<1>1. Init => D!Init
  BY DEF Init, D!Init
<1>2. RelayInv /\ [Next]_vars => [D!Next]_(D!vars)
  <2>1. ASSUME UNCHANGED vars PROVE UNCHANGED D!vars
    BY <2>1 DEF vars, D!vars
  <2> QED BY <2>1, RelaySimulates
<1> QED BY <1>1, <1>2, RelayInvariant, PTL DEF Spec, Implements, D!Spec

=============================================================================
